SPECIFICATION Spec
CONSTANT number_of_kernels = 40
PROPERTIES ListedFirst
