--------------------------- MODULE MCFileRegistry ---------------------------
(* FileRegistry on a small instance. *)
EXTENDS FileRegistry

=============================================================================
