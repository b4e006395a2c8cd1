CONSTANTS
  Roles = {"desk", "guard"}
  NoRole = "none"
  Tools = {"camera", "speak"}
  SensorTable <- MCSensorTable
  SensorsOf <- MCSensorsOf
  DisabledBy <- MCDisabledBy
  Users = {"agent"}
  MaxSwitches = 2
SPECIFICATION FairSpec
INVARIANTS TypeOK RoleInForce RegistryTextLives
PROPERTY SwitchEnds
CHECK_DEADLOCK FALSE
