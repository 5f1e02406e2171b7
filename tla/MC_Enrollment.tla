--------------------------- MODULE MC_Enrollment ---------------------------
(* The enrolment on small instances.                                       *)
EXTENDS Enrollment, TLC

CONSTANTS e1, e2

TwoEnrollers == {e1, e2}
EnrollerSymmetry == Permutations(Enrollers)
=============================================================================
