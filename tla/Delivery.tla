------------------------------ MODULE Delivery ------------------------------
(***************************************************************************)
(* What the pipeline promises, without its stages, queues and workers: a   *)
(* document that was handed in may be processed to the end, and one that   *)
(* was answered with 200 is, in the end, whatever fails in between.        *)
(* Nothing is promised about how often, nor about a document that was not  *)
(* answered with 200: it may be processed all the same.                    *)
(***************************************************************************)
CONSTANT Document

VARIABLES
    entered,    \* documents handed in
    promised,   \* documents whose sender has been told that they are taken
    processed   \* documents that have reached the end of the pipeline

vars == <<entered, promised, processed>>

Init == entered = {} /\ promised = {} /\ processed = {}

Enter(d) ==
    /\ d \notin entered
    /\ entered' = entered \cup {d}
    /\ UNCHANGED <<promised, processed>>

Promise(d) ==
    /\ d \in entered \ promised
    /\ promised' = promised \cup {d}
    /\ UNCHANGED <<entered, processed>>

Process(d) ==
    /\ d \in entered \ processed
    /\ processed' = processed \cup {d}
    /\ UNCHANGED <<entered, promised>>

Next == \E d \in Document : Enter(d) \/ Promise(d) \/ Process(d)

Spec == /\ Init /\ [][Next]_vars
        /\ \A d \in Document : WF_vars(d \in promised /\ Process(d))
=============================================================================
