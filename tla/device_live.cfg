\* An OTAA device that joins, changes its EUI, case and keys at any time; pages of one
\* device; syncs at any time. No failing calls.
CONSTANTS
  Dev = {d1}
  Owner = {ann}
  OwnerOf <- SameOwner
  Account = {ann}
  Eui = {1, 2}
  Name = {n1}
  Key = {k1}
  Session = {}
  Lower = {TRUE, FALSE}
  Otaa = TRUE
  Consumer = consumer
  Boot = boot
  Patch = {patch}
  PageSize = 1
  CallsFail = FALSE
  MaxEdits = 2
  MaxCrashes = 0
  None = None
  d1 = d1
  ann = ann
  bob = bob
SPECIFICATION FairSpec
PROPERTY FaultlessSyncKeeps
PROPERTY Settles
PROPERTY RunsEnd
CHECK_DEADLOCK FALSE
