---------------------------- MODULE TokenService -----------------------------
(***************************************************************************)
(* What the token and its lock (c.jwt, c.jwtMux) promise the callers of     *)
(* Keycloak and of the device repository: there is one current token, calls *)
(* begin with it, and it is replaced only between calls, so every call keeps *)
(* the token it began with.  TokenLock is shown to implement this module.   *)
(***************************************************************************)
CONSTANTS
  Caller,     \* goroutines that call with the read lock
  Token       \* access tokens

VARIABLES
  current,    \* the token of the controller
  carried     \* the token of each call under way; its domain are their callers

svars == <<current, carried>>

\* Calls of S begin with a token, besides those under way.
Begun(S, token) ==
  [c \in DOMAIN carried \cup S |-> IF c \in S THEN token ELSE carried[c]]

\* Several callers begin at once when the lock they queued for is released.
Begin(S) ==
  /\ S \cap DOMAIN carried = {}
  /\ carried' = Begun(S, current)
  /\ UNCHANGED current

End(c) ==
  /\ carried' = [d \in DOMAIN carried \ {c} |-> carried[d]]
  /\ UNCHANGED current

\* A new token: no call is under way, and those that queued begin with it.
Renew(S) ==
  /\ DOMAIN carried = {}
  /\ \E token \in Token \ {current} :
       /\ current' = token
       /\ carried' = Begun(S, token)

Init ==
  /\ current \in Token
  /\ carried = [c \in {} |-> current]

Next ==
  \/ \E S \in SUBSET Caller : Begin(S) \/ Renew(S)
  \/ \E c \in Caller : End(c)

Spec == Init /\ [][Next]_svars
=============================================================================
