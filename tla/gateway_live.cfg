\* Hubs of two owners that may claim one EUI and that have one of two message max
\* ages, edited at any time; a sync at any time. No failing calls.
CONSTANTS
  Hub = {h1, h2}
  Owner = {ann, bob}
  Eui = {e1}
  OwnerOf <- TwoOwners
  Email = {ma, mb}
  FirstMail <- BothMail
  Device = {d1}
  Name = {n1}
  Place = {}
  Ms = {1500, 2500}
  Consumer = consumer
  Boot = boot
  Patch = {patch}
  Cert = {}
  CallsFail = FALSE
  MaxEdits = 2
  MaxCrashes = 0
  None = None
  h1 = h1
  h2 = h2
  ann = ann
  bob = bob
  ma = ma
  mb = mb
SPECIFICATION FairSpec
PROPERTY Settles
PROPERTY RunsEnd
CHECK_DEADLOCK FALSE
