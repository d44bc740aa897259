\* A join writes back the device that the cache has.
\* A max age that cannot be parsed or is negative, or an uplink interval of zero.
CONSTANTS
  Device = {d1}
  Gateway = {g1}
  Handler = {h1, h2}
  MaxAge <- Ages
  Interval = {0, 2}
  Minute = 2
  Hour = 3
  Patience = 1
  CallsFail = TRUE
  MaxEdits = 2
  Unparsable = Unparsable
  Forever = Forever
  None = None
  h1 = h1
  h2 = h2
SPECIFICATION Spec
INVARIANT EditKept
INVARIANT KeysExpire
CHECK_DEADLOCK FALSE
