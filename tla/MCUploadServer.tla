--------------------------- MODULE MCUploadServer ---------------------------
(* Small instances of UploadServer for TLC. *)
EXTENDS UploadServer, TLC

(* Requests of a kind, ids and thumbnail names are interchangeable. *)
Symmetry == Permutations(Uploads) \cup Permutations(Ids) \cup Permutations(Thumbs)
=============================================================================
