\* Values of depth two; "0" is both a key of objects and an element of lists.
CONSTANTS
  Field = {"a", "0"}
  Index <- OneIndex
  Scalar = {"Float", "Integer", "Boolean"}
  Name = {"a", "0", "level", "power"}
  Value <- NestedValues
  StatusValue <- StatusEvents
  Template <- BatteryTemplate
  Plain = {"Float"}
  Depth = 2
  MaxEdits = 2
  Null = "null"
  None = None
SPECIFICATION Spec
INVARIANT TypeOK
INVARIANT SyncCleansStatus
PROPERTY EventDescribed
CHECK_DEADLOCK FALSE
