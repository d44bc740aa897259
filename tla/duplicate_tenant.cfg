\* Startup sync and a device sync look up the same tenant.
CONSTANTS
  Sub = {s1}
  Email = {ann, bob}
  Protected = {}
  Old = {}
  Found <- Exact
  UserId = {u1, u2}
  TenantId = {t1, t2, t3}
  AppId = {a1, a2}
  Endpoint = {here}
  Boot = boot
  Patch = {}
  Post = {}
  Device = {dev}
  Gateway = {}
  KcMax = 2
  CallsFail = FALSE
  UpdateTenants = FALSE
  MaxChanges = 0
  MaxCrashes = 0
  Absent = Absent
  Deleted = Deleted
  NoEmail = NoEmail
  None = None
  ann = ann
  joann = joann
SPECIFICATION Spec
INVARIANT OneTenantPerEmail
CHECK_DEADLOCK FALSE
