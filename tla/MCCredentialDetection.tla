----------------------- MODULE MCCredentialDetection -----------------------
(* Two providers, one of the fallback set; the launch and two resets.      *)
EXTENDS CredentialDetection, TLC

CONSTANTS r1, r2

Symmetry == Permutations({r1, r2})
=============================================================================
