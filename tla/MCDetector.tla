----------------------------- MODULE MCDetector -----------------------------
(* Small instances of Detector for TLC.                                    *)
EXTENDS Detector

By(u, t, b) == [udp |-> u, tcp |-> t, bytes |-> b]

MCDefault == By(2, 1, 2)
MCEnvironments == {By(0, 0, 0), By(3, 0, 1)}
MCWindows == {By(1, 1, 1), By(2, 2, 2), By(3, 1, 3)}

(* Thresholds that fit one word and are never taken back.                  *)
SmallRulesets == {By(1, 3, 1), By(3, 1, 2)}

(* A ruleset that leaves a dimension the other one sets.                   *)
ClearingRulesets == {By(1, 3, 1), By(0, 3, 1)}
=============================================================================
