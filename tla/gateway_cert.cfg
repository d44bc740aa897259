\* A certificate is requested while a sync handles the hub.
CONSTANTS
  Hub = {h1}
  Owner = {ann, bob}
  Eui = {e1}
  OwnerOf <- TwoOwners
  Email = {ma, mb}
  FirstMail <- BothMail
  Device = {}
  Name = {n1}
  Place = {}
  Ms = {1500}
  Consumer = consumer
  Boot = boot
  Patch = {patch}
  Cert = {cert}
  CallsFail = FALSE
  MaxEdits = 2
  MaxCrashes = 0
  None = None
  h1 = h1
  h2 = h2
  ann = ann
  bob = bob
  ma = ma
  mb = mb
SPECIFICATION Spec
INVARIANT AnnotationKept
CHECK_DEADLOCK FALSE
