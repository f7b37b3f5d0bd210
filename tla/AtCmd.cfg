SPECIFICATION Spec
CONSTANTS
  Lines = 3
  Changes = 3
  test = test
  reset = reset
  ota = ota
  one = one
  two = two
  three = three
  at_base_tbl <- BaseTable
  at_test_tbl <- TestTable
  AppTables <- OtherTables
INVARIANTS
  LastLineRuns
  GivesWhatIsThere
  FindsWhatWasAdded
PROPERTIES
  ImplementsQueue
  DeinitEnds
CHECK_DEADLOCK FALSE
