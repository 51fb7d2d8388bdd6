SPECIFICATION Spec
CONSTANTS
  Region <- Regions
  Location <- Locations
  Short <- UsagePrefixes
  Global = Global
  Unknown = Unknown
  Each = Each
  None = None
  Families <- Small
  Bodies <- SmallBodies
  Values <- AttrValues
INVARIANTS TypeOK OwnPrice CountsMultiply SilentDefaults Reported
CHECK_DEADLOCK FALSE
