\* Refreshes, failing logins, a janitor that leaks its lock, an unlocked reader, a
\* login that hangs, a caller whose call may hang.
\* No symmetry: liveness.
CONSTANTS
  Caller <- Callers
  Janitor <- Janitors
  Bare = {gw}
  Token = {t1, t2}
  GetUsersFails = TRUE
  LoginFails = TRUE
  LoginHangs = TRUE
  Unbounded = {c1}
  MaxLeaks = 1
  c1 = c1
  c2 = c2
  jan = jan
SPECIFICATION FairSpec
INVARIANT TypeOK
PROPERTY ExpiredOnlyWhileRetrying
PROPERTY CallersServed
PROPERTY RefreshCompletes
PROPERTY ImplementsService
