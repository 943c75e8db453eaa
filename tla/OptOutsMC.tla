----------------------------- MODULE OptOutsMC -----------------------------
(* Small instances of OptOuts for TLC. *)
EXTENDS OptOuts
=============================================================================
