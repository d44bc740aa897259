\* The owner of a gateway cannot be read after a restart.
CONSTANTS
  Hub = {h1}
  Owner = {ann, bob}
  Eui = {e1}
  OwnerOf <- TwoOwners
  Email = {ma, mb}
  FirstMail <- BothMail
  Device = {}
  Name = {n1}
  Place = {}
  Ms = {}
  Consumer = consumer
  Boot = boot
  Patch = {}
  Cert = {}
  CallsFail = TRUE
  MaxEdits = 1
  MaxCrashes = 1
  None = None
  h1 = h1
  h2 = h2
  ann = ann
  bob = bob
  ma = ma
  mb = mb
SPECIFICATION Spec
PROPERTY QuietSyncKeeps
CHECK_DEADLOCK FALSE
