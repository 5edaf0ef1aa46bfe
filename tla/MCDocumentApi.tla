--------------------------- MODULE MCDocumentApi ----------------------------
(***************************************************************************)
(* Small instances of DocumentApi.  Every body takes one byte, so the      *)
(* number of entries is the limit that matters.                            *)
(***************************************************************************)
EXTENDS DocumentApi, TLC

CONSTANTS alice, bob, ta, tb, up1, up2, list1, list2, get1, get2, del1, del2,
          out1, doc1

MCDocId == Uploads \cup Stored
MCQuery == User \cup {Own}
MCBody == SUBSET DocId
MCSize == [b \in Body |-> 1]

\* Each user has logged in once.
MCTokenUser == [t \in Token |-> IF t = tb THEN bob ELSE alice]

\* A private JSON document, a public file, and one for bob alone to read.
PrivateJson == [public |-> FALSE, grants |-> {}, file |-> FALSE]
PublicFile == [public |-> TRUE, grants |-> {}, file |-> TRUE]
GrantedFile == [public |-> FALSE, grants |-> {bob}, file |-> TRUE]

JsonForms == {PrivateJson}
FileForms == {PublicFile}
BothForms == {PrivateJson, PublicFile}
GrantForms == {PrivateJson, GrantedFile}

\* Requests of a kind are interchangeable; each set below is one orbit.
RequestSymmetry ==
  Permutations(Uploads) \cup Permutations(Lists) \cup Permutations(Gets)
    \cup Permutations(Deletes)
=============================================================================
