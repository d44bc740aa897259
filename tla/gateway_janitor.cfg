\* A hub is created between the two lists of DeleteOutdatedGateways.
CONSTANTS
  Hub = {h1}
  Owner = {ann, bob}
  Eui = {e1}
  OwnerOf <- TwoOwners
  Email = {ma, mb}
  FirstMail <- BothMail
  Device = {}
  Name = {n1}
  Place = {}
  Ms = {}
  Consumer = consumer
  Boot = boot
  Patch = {}
  Cert = {}
  CallsFail = FALSE
  MaxEdits = 1
  MaxCrashes = 0
  None = None
  h1 = h1
  h2 = h2
  ann = ann
  bob = bob
  ma = ma
  mb = mb
SPECIFICATION Spec
PROPERTY MatchedGatewayKept
CHECK_DEADLOCK FALSE
