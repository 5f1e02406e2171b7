------------------------------ MODULE FaceStore ------------------------------
(***************************************************************************)
(* What the enrolment promises, and nothing about files, keys or caches:   *)
(* there is one set of enrolled faces; an enrolment that ends well puts    *)
(* its face in it, or in its place, in one step, and one that fails leaves *)
(* it as it was; an erasure empties it.  Nothing is promised of the        *)
(* enrolments that another enrolment or an erasure met.                    *)
(* Enrollment implements this specification (see ImplementsStore).         *)
(***************************************************************************)
CONSTANT Enrollers        \* the enrolments, each happens once

VARIABLES
    enrolled,             \* the faces the user has enrolled
    stage,                \* where each enrolment is: how it will store its
                          \* face, once it is under way
    erasing,              \* the data are being deleted
    disturbed             \* the enrolments that met another, or an erasure

storeVars == <<enrolled, stage, erasing, disturbed>>

Modes == {"replace", "append"}

UnderWay == {e \in Enrollers : stage[e] \in Modes}

StoreInit ==
    /\ enrolled = {}
    /\ stage = [e \in Enrollers |-> "idle"]
    /\ erasing = FALSE
    /\ disturbed = {}

Start(e, m) ==
    /\ stage[e] = "idle"
    /\ stage' = [stage EXCEPT ![e] = m]
    /\ disturbed' = IF UnderWay # {} \/ erasing THEN disturbed \cup UnderWay \cup {e}
                                                ELSE disturbed
    /\ UNCHANGED <<enrolled, erasing>>

Store(e) ==
    /\ e \in UnderWay \ disturbed
    /\ enrolled' = IF stage[e] = "append" THEN enrolled \cup {e} ELSE {e}
    /\ stage' = [stage EXCEPT ![e] = "done"]
    /\ UNCHANGED <<erasing, disturbed>>

Fail(e) ==
    /\ e \in UnderWay
    /\ stage' = [stage EXCEPT ![e] = "failed"]
    /\ UNCHANGED <<enrolled, erasing, disturbed>>

(* A disturbed enrolment may lose faces, its own too, end well or not.     *)
Interfere(e) ==
    /\ e \in UnderWay \cap disturbed
    /\ enrolled' \in SUBSET Enrollers
    /\ stage' \in {stage, [stage EXCEPT ![e] = "done"]}
    /\ UNCHANGED <<erasing, disturbed>>

Erase ==
    /\ ~erasing /\ erasing' = TRUE
    /\ enrolled' = {}
    /\ disturbed' = disturbed \cup UnderWay
    /\ UNCHANGED stage

EraseEnds ==
    /\ erasing /\ erasing' = FALSE
    /\ UNCHANGED <<enrolled, stage, disturbed>>

StoreNext ==
    \/ \E e \in Enrollers :
          (\E m \in Modes : Start(e, m)) \/ Store(e) \/ Fail(e) \/ Interfere(e)
    \/ Erase \/ EraseEnds

StoreSpec == StoreInit /\ [][StoreNext]_storeVars
=============================================================================
