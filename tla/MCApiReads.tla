----------------------------- MODULE MCApiReads -----------------------------
(* Instance of ApiReads for TLC. *)
EXTENDS ApiReads
=============================================================================
