\* A gateway is in the way of another hub until DeleteOutdatedGateways deletes it.
CONSTANTS
  Hub = {h1, h2}
  Owner = {ann, bob}
  Eui = {e1}
  OwnerOf <- TwoOwners
  Email = {ma, mb}
  FirstMail <- BothMail
  Device = {}
  Name = {n1}
  Place = {}
  Ms = {1500}
  Consumer = consumer
  Boot = boot
  Patch = {}
  Cert = {}
  CallsFail = FALSE
  MaxEdits = 3
  MaxCrashes = 1
  None = None
  h1 = h1
  h2 = h2
  ann = ann
  bob = bob
  ma = ma
  mb = mb
SPECIFICATION Spec
INVARIANT DuplicateHasGateway
CHECK_DEADLOCK FALSE
