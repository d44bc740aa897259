\* The search for ann also finds joann.
CONSTANTS
  Sub = {s1, s2}
  Email = {ann, joann}
  Protected = {}
  Old = {}
  Found <- Substring
  UserId = {u1, u2}
  TenantId = {t1, t2, t3}
  AppId = {a1, a2}
  Endpoint = {here}
  Boot = boot
  Patch = {}
  Post = {}
  Device = {}
  Gateway = {}
  KcMax = 2
  CallsFail = FALSE
  UpdateTenants = FALSE
  MaxChanges = 0
  MaxCrashes = 0
  Absent = Absent
  Deleted = Deleted
  NoEmail = NoEmail
  None = None
  ann = ann
  joann = joann
SPECIFICATION Spec
INVARIANT OnlyOwnMembers
CHECK_DEADLOCK FALSE
