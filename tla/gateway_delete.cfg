\* The gateway moves to another tenant while a DELETE is handled.
CONSTANTS
  Hub = {h1, h2}
  Owner = {ann, bob}
  Eui = {e1}
  OwnerOf <- TwoOwners
  Email = {ma, mb}
  FirstMail <- BothMail
  Device = {}
  Name = {n1}
  Place = {}
  Ms = {}
  Consumer = consumer
  Boot = boot
  Patch = {patch}
  Cert = {}
  CallsFail = FALSE
  MaxEdits = 3
  MaxCrashes = 0
  None = None
  h1 = h1
  h2 = h2
  ann = ann
  bob = bob
  ma = ma
  mb = mb
SPECIFICATION Spec
PROPERTY DeletesOwnGateway
CHECK_DEADLOCK FALSE
