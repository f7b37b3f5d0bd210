SPECIFICATION Spec
CONSTANTS
  Size = 3
  Bytes <- MCBytes
PROPERTIES
  ImplementsDeque
