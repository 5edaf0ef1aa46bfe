------------------------------ MODULE MCProgram -------------------------------
(***************************************************************************)
(* A small instance of Program.  One setting of each kind that the code    *)
(* treats differently, and two limits.                                     *)
(***************************************************************************)
EXTENDS Program

CONSTANTS SessionTTL, MaxBytes, StorageDir, AdminToken, SomeText

MCPositive == {SessionTTL, MaxBytes}
MCDefault == [s \in MCPositive \cup {Port, StorageDir} |->
                IF s = StorageDir THEN "data/files" ELSE IF s = Port THEN 2 ELSE 3]

\* Settings that differ from good ones in at most one place, and none at all.
Good == [s \in Setting |-> IF s \in Number THEN 1 ELSE SomeText]
Spoilt(values) == {[Good EXCEPT ![s] = v] : s \in Number, v \in values}
MCFiles ==
  {Nothing, Good} \cup Spoilt({-1, 0, 3, 4, Malformed})
    \cup {[Nothing EXCEPT ![AdminToken] = v] : v \in {Blank, SomeText}}
    \cup {[Good EXCEPT ![StorageDir] = Empty], [Good EXCEPT ![AdminToken] = Empty]}
MCEnvironments ==
  {Nothing, [Nothing EXCEPT ![AdminToken] = SomeText]} \cup Spoilt({0, Malformed})
=============================================================================
