------------------------ MODULE OutboundMessagesMC ------------------------
(* Small instances of OutboundMessages for TLC. *)
EXTENDS OutboundMessages, TLC

(* Identifiers are generated and handlers are alike.                        *)
Symmetry == Permutations(Msg) \cup Permutations(Ext) \cup Permutations(Handler)
=============================================================================
