SPECIFICATION Spec
CONSTANTS
  OTA1 = OTA1
  OTA2 = OTA2
  NONE = NONE
INVARIANTS
  EveryBootChoiceIsWhole
  TargetIsSpare
  ModeIsAsAsked
PROPERTIES
  ModeIsOldNewOrMp
