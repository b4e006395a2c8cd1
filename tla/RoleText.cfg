CONSTANTS
  Roles = {"desk", "guard"}
  NoRole = "none"
  Tools = {"camera", "speak"}
  SensorTable <- MCSensorTable
  SensorsOf <- MCSensorsOf
  DisabledBy <- MCDisabledBy
  Users = {"cli", "agent"}
  MaxSwitches = 3
SPECIFICATION Spec
INVARIANT TextInUse
CHECK_DEADLOCK FALSE
