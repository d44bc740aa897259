\* An account is deleted and another one takes its email.
CONSTANTS
  Sub = {s1, s2}
  Email = {ann}
  Protected = {}
  Old = {}
  Found <- Exact
  UserId = {u1, u2}
  TenantId = {t1, t2}
  AppId = {a1, a2}
  Endpoint = {here}
  Boot = boot
  Patch = {patch}
  Post = {}
  Device = {}
  Gateway = {}
  KcMax = 2
  CallsFail = FALSE
  UpdateTenants = FALSE
  MaxChanges = 2
  MaxCrashes = 0
  Absent = Absent
  Deleted = Deleted
  NoEmail = NoEmail
  None = None
  ann = ann
  joann = joann
SPECIFICATION Spec
INVARIANT HeaderIsOwner
CHECK_DEADLOCK FALSE
