\* Two handlers, joins and uplinks of a device that two users edit; a cache of two ticks.
CONSTANTS
  Device = {d1}
  Gateway = {g1}
  Handler = {h1, h2}
  MaxAge <- Ages
  Interval = {0, 2}
  Minute = 2
  Hour = 3
  Patience = 1
  CallsFail = TRUE
  MaxEdits = 2
  Unparsable = Unparsable
  Forever = Forever
  None = None
  h1 = h1
  h2 = h2
SPECIFICATION Spec
SYMMETRY Handlers
INVARIANT TypeOK
PROPERTY EditLostOnlyEarly
PROPERTY ChangeTakesEffect
CHECK_DEADLOCK FALSE
