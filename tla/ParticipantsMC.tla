-------------------------- MODULE ParticipantsMC --------------------------
(* Small instances of Participants for TLC. *)
EXTENDS Participants, TLC

(* Identifiers are generated and handlers are alike.                        *)
Symmetry == Permutations(User) \cup Permutations(CompanyUser) \cup Permutations(Row) \cup Permutations(Item)
            \cup Permutations(Handler)
=============================================================================
