------------------------- MODULE MCDocumentHistory --------------------------
(***************************************************************************)
(* Small instances of DocumentHistory: those of DocumentApi.               *)
(***************************************************************************)
EXTENDS MCDocumentApi, DocumentHistory
=============================================================================
