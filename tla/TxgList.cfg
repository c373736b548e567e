CONSTANTS
  Objects = {a, b, c}
  NULL = NULL
  Txgs = {4, 5, 8}
SPECIFICATION Spec
PROPERTIES
  ImplementsStacks
