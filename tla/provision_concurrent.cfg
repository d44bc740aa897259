\* Startup sync, PATCH /sync/users, a worker that looks up tenants for device and gateway
\* syncs with cached emails, failing calls, all interleaved; bob is protected.
CONSTANTS
  Sub = {s1}
  Email = {ann, bob}
  Protected = {bob}
  Old = {bob}
  Found <- Exact
  UserId = {u1, u2}
  TenantId = {t1, t2}
  AppId = {a1}
  Endpoint = {here}
  Boot = boot
  Patch = {patch}
  Post = {}
  Device = {worker}
  Gateway = {worker}
  KcMax = 2
  CallsFail = TRUE
  UpdateTenants = TRUE
  MaxChanges = 1
  MaxCrashes = 0
  Absent = Absent
  Deleted = Deleted
  NoEmail = NoEmail
  None = None
  ann = ann
  joann = joann
SPECIFICATION Spec
INVARIANT HeldTenantIsOwn
INVARIANT OnlyOwnMembers
PROPERTY DeletesOnlyUnseen
CHECK_DEADLOCK FALSE
