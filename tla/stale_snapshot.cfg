\* A user registers between the two lists of DeleteOutdatedUsers.
CONSTANTS
  Sub = {s1}
  Email = {ann, bob}
  Protected = {}
  Old = {}
  Found <- Exact
  UserId = {u1, u2}
  TenantId = {t1, t2}
  AppId = {a1, a2}
  Endpoint = {here}
  Boot = boot
  Patch = {}
  Post = {}
  Device = {}
  Gateway = {}
  KcMax = 2
  CallsFail = FALSE
  UpdateTenants = FALSE
  MaxChanges = 1
  MaxCrashes = 0
  Absent = Absent
  Deleted = Deleted
  NoEmail = NoEmail
  None = None
  ann = ann
  joann = joann
SPECIFICATION Spec
PROPERTY LiveUserKept
CHECK_DEADLOCK FALSE
