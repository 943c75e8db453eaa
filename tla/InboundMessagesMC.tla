------------------------- MODULE InboundMessagesMC -------------------------
(* Small instances of InboundMessages for TLC. *)
EXTENDS InboundMessages
=============================================================================
