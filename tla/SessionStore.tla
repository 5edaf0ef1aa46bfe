----------------------------- MODULE SessionStore -----------------------------
(***************************************************************************)
(* What the rest of the server relies on about sessions: a token comes to  *)
(* life once, for one user, and once it is dead it stays dead.  The        *)
(* authentication service implements this with rows and two clocks, and    *)
(* the document server uses no more than this.                             *)
(***************************************************************************)
CONSTANTS Token, User

VARIABLES
  live,    \* the user of each live token
  spent    \* tokens that were alive

TypeOK ==
  /\ DOMAIN live \in SUBSET Token
  /\ live \in [DOMAIN live -> User]
  /\ spent \in SUBSET Token

Init == TypeOK /\ spent = {}

Open(t, u) ==
  /\ t \notin DOMAIN live \cup spent
  /\ live' = [x \in DOMAIN live \cup {t} |-> IF x = t THEN u ELSE live[x]]
  /\ UNCHANGED spent

\* By a logout one, and by the clock perhaps several at once.
Close(S) ==
  /\ S # {}
  /\ live' = [x \in DOMAIN live \ S |-> live[x]]
  /\ spent' = spent \cup S

Next ==
  \/ \E t \in Token, u \in User : Open(t, u)
  \/ \E S \in SUBSET DOMAIN live : Close(S)

Spec == Init /\ [][Next]_<<live, spent>>
=============================================================================
