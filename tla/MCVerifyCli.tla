---------------------------- MODULE MCVerifyCli ----------------------------
(***************************************************************************)
(* Two processes on one database file.  Two sound attestations share a     *)
(* nonce: one is bound to the old policy and expires, the other is bound   *)
(* to the new policy.  A third attestation is never sound.                 *)
(***************************************************************************)
EXTENDS VerifyCli

CONSTANTS v1, v2, file, old, new, first, second, forged, n1, n2

MCStoreOf == [v \in {v1, v2} |-> file]
MCNonceOf == [a \in Attestations |-> IF a = forged THEN n2 ELSE n1]
MCPasses(a, p, t) == (a = first /\ p = old /\ t < 1) \/ (a = second /\ p = new)
=============================================================================
