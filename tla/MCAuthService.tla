--------------------------- MODULE MCAuthService ----------------------------
(***************************************************************************)
(* Small instances of AuthService.                                         *)
(***************************************************************************)
EXTENDS AuthService, TLC

CONSTANTS alice, short, good, other, longer, weak

\* longer begins with the 72 bytes of good.
MCCut == [p \in Password |-> IF p = longer THEN good ELSE p]

\* Nobody is registered yet, or everybody is.
Nobody == [l \in Login |-> NoUser]
Everybody == [l \in Login |-> good]

Symmetry ==
  Permutations(Registers) \cup Permutations(Auths)
    \cup Permutations(Uses) \cup Permutations(Logouts)
=============================================================================
