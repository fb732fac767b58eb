---------------------------- MODULE MCArtifacts ----------------------------
(* Instances of Artifacts for TLC.                                         *)
EXTENDS Artifacts, TLC

(* Two gateways of one machine that were configured apart.                 *)
CONSTANTS g1, g2
MCGateways == {g1, g2}
MCTTL == g1 :> 1 @@ g2 :> 2

MCSymmetry == Permutations(Ids)
=============================================================================
