\* Devices of two owners that may claim one EUI, which a third one, who lost the email,
\* may have had; ABP sessions, failing calls, a restart; full pages of one device.
\* Local ids in lower case: device_live has both, and keys.
CONSTANTS
  Dev = {d1, d2}
  Owner = {ann, bob, eve}
  OwnerOf <- TwoOwners
  Account = {ann, bob}
  Eui = {1}
  Name = {n1}
  Key = {}
  Session = {s1}
  Lower = {TRUE}
  Otaa = TRUE
  Consumer = consumer
  Boot = boot
  Patch = {}
  PageSize = 1
  CallsFail = TRUE
  MaxEdits = 3
  MaxCrashes = 1
  None = None
  d1 = d1
  ann = ann
  bob = bob
SPECIFICATION Spec
INVARIANT TypeOK
INVARIANT SyncCreatesDevices
INVARIANT SyncActivates
INVARIANT SyncRemovesDevices
CHECK_DEADLOCK FALSE
