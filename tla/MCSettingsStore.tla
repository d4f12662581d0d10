--------------------------- MODULE MCSettingsStore ---------------------------
(* Instances of SettingsStore for TLC.                                        *)
EXTENDS SettingsStore, TLC

MCFields == {"name", "theme"}
Symmetry == Permutations(Accounts) \union Permutations(Pages) \union Permutations(Values \ {Default})

(* Bound: a tray setting begun after the last change that is counted is not   *)
(* followed; it could only be refused.                                        *)
TraysInTime == CanWrite \/ \A w \in Trays : pc[w] = "idle"
=============================================================================
