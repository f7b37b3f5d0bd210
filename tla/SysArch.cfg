SPECIFICATION Spec
CONSTANTS
  Handles = {h1, h2, h3}
  Apps = {a1}
  Null = none
  Max = 3
INVARIANTS
  TableIsExact
  OnlyNewcomersAreUnknown
  OverflowNeedsARace
PROPERTIES
  ImplementsRegistry
CHECK_DEADLOCK FALSE
