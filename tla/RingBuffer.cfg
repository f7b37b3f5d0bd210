SPECIFICATION Spec
CONSTANTS
  Size = 4
  CounterMax = 16
  Items <- MCItems
PROPERTIES
  ImplementsDeque
