---------------------------- MODULE CompaniesMC ----------------------------
(* Small instances of Companies for TLC. *)
EXTENDS Companies, TLC

(* Nothing in the specification names a particular value.                   *)
Symmetry == Permutations(Company) \cup Permutations(Phone) \cup Permutations(App)
            \cup Permutations(Password) \cup Permutations(Server) \cup Permutations(Handler)
=============================================================================
