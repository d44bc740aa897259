\* One caller at a time: the startup sync, restarts at any step with another endpoint,
\* registrations and one account change.
CONSTANTS
  Sub = {s1, s2}
  Email = {ann, bob}
  Protected = {}
  Old = {bob}
  Found <- Exact
  UserId = {u1, u2}
  TenantId = {t1, t2}
  AppId = {a1, a2}
  Endpoint = {here, there}
  Boot = boot
  Patch = {}
  Post = {post}
  Device = {}
  Gateway = {}
  KcMax = 2
  CallsFail = FALSE
  UpdateTenants = FALSE
  MaxChanges = 1
  MaxCrashes = 1
  Absent = Absent
  Deleted = Deleted
  NoEmail = NoEmail
  None = None
  ann = ann
  joann = joann
SPECIFICATION FairSpec
INVARIANT TypeOK
INVARIANT OneTenantPerEmail
INVARIANT SyncProvisionsAll
INVARIANT SyncRemovesUsers
PROPERTY QuietSyncSucceeds
PROPERTY SyncTerminates
CHECK_DEADLOCK FALSE
