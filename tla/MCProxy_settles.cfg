SPECIFICATION Spec
CONSTANTS
  Bodies <- MixedBodies
  MaxBytes = 3
  MaxInput = 2
  MaxInt = 7
  Usages = {2, 5}
  MaxChunks = 3
PROPERTY StreamSettles
CHECK_DEADLOCK FALSE
