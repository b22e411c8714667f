------------------------ MODULE MCUploadTransaction ------------------------
(* Instances of UploadTransaction for TLC. *)
EXTENDS UploadTransaction
=============================================================================
