---- MODULE MC_PamConfig ----
(* Two runners: enough for a script to overlap another.                    *)
(* The bounds of the module are met in turn, not all at once: four events  *)
(* of a start or an accident, so three scripts with one accident, or two   *)
(* scripts with two.                                                       *)
EXTENDS PamConfig, TLC

CONSTANTS r1, r2
TwoRunners == {r1, r2}
RunnerSymmetry == Permutations(TwoRunners)

FourEvents == starts + failures + stops + updates <= 4
====
