SPECIFICATION Spec
CONSTANT number_of_kernels = 40
INVARIANTS PlainInOrder CopySourceSettled PlainOperands ResnetSpine SomethingCanLaunch

