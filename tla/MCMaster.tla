------------------------------ MODULE MCMaster ------------------------------
(* An instance of Master for TLC: four signals of two analysts on one symbol. *)
EXTENDS Master, TLC

CONSTANTS s1, s2, s3, s4, ana, ben, spx, k1

MCSignals == {s1, s2, s3, s4}
MCAnalysts == {ana, ben}
MCPausable == {ana}
MCSymbols == {spx}
MCBy == [s \in MCSignals |-> IF s \in {s1, s2} THEN ana ELSE ben]
MCSymbol == [s \in MCSignals |-> spx]
MCDirection == [s \in MCSignals |-> IF s = s3 THEN "PUT" ELSE "CALL"]
MCContract == [s \in MCSignals |-> k1]
MCConfidence == [s \in MCSignals |-> IF s = s3 THEN "usual" ELSE "sure"]
MCHighRisk == [s \in MCSignals |-> s = s4]
MCThresholds == {1, 2}
\* s1 and s2 have the same attributes.
MCSymmetry == Permutations({s1, s2})
MCRegimes == {"calm", "crisis"}
=============================================================================
