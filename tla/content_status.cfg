\* A user deletes a variable of the "status" service; a profile sync does not notice.
\* The first uplink of a port that no codec decodes.
CONSTANTS
  Field = {"a", "0"}
  Index <- OneIndex
  Scalar = {"Float", "Integer", "Boolean"}
  Name = {"a", "0", "level", "power"}
  Value <- NestedValues
  StatusValue <- StatusEvents
  Template <- BatteryTemplate
  Plain = {"Float"}
  Depth = 2
  MaxEdits = 1
  Null = "null"
  None = None
SPECIFICATION Spec
INVARIANT SyncRestoresStatus
PROPERTY EventHasService
CHECK_DEADLOCK FALSE
