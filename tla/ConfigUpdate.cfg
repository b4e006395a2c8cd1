SPECIFICATION Spec
CONSTANTS
  Names = {a}
  Keys = {k1, k2}
  Messages <- SmallMessages
  MaxPresets = 2
  Fits = 1
  MaxAttempts = 2
  MaxChanges = 2
  MaxCrashes = 1
SYMMETRY Symmetry
INVARIANTS
  TypeOK
  RequestOfOneProvider
  SettingsLast
  KeysFollowPresets
CHECK_DEADLOCK FALSE
