------------------------------ MODULE Pipeline ------------------------------
(***************************************************************************)
(* The pipeline of processors (include/wookie/application.hpp and the      *)
(* applications in processors/): every stage takes a document from its     *)
(* queue, does its part and pushes the document to the queue of the next   *)
(* stage; when the push has been answered it acknowledges the document in  *)
(* its own queue.  The last stage only acknowledges.                       *)
(*                                                                         *)
(* The queues are not in this repository.  A queue keeps a document until  *)
(* it is acknowledged and hands it to a worker of its stage, again when    *)
(* nothing is heard of it: that is what the stages rely on.  Calls between *)
(* the stages and the queues may fail, and a call that fails may have been *)
(* carried out.  Workers may die.                                          *)
(***************************************************************************)
EXTENDS Naturals, FiniteSets

CONSTANTS
    Document,    \* documents, one for each request that hands one in
    Last,        \* number of stages: 1 is first_processor, Last last_processor
    Handler,     \* places in the workers for requests being handled
    MaxCopies,   \* bound: messages a queue and its workers hold at a time
    MaxFaults    \* bound: failed calls, untimely redeliveries, deaths

ASSUME StageAssumption == Last \in Nat \ {0, 1}
ASSUME BoundAssumption == MaxCopies \in Nat \ {0} /\ MaxFaults \in Nat

VARIABLES
    queue,       \* stage -> messages that are not acknowledged
    handler,     \* what is being handled
    entered,     \* documents handed in
    status,      \* what the sender of an update was told: HTTP status, or 0
    processed,   \* how often the last stage has finished each document
    faults       \* faults so far

vars == <<queue, handler, entered, status, processed, faults>>

Stage   == 1 .. Last
Message == [id : 0 .. MaxCopies, document : Document]
Idle    == [at |-> "idle"]
Busy    == [at : {"pushing", "pushed", "acking"}, stage : Stage,
            message : Message, kind : {"process", "update"}]

(* A message that is in no queue: what update and enqueue hand in.          *)
Loose(d) == [id |-> 0, document |-> d]

Handling(s) == {h \in Handler : handler[h] # Idle /\ handler[h].stage = s}
UsedIds(s)  == {m.id : m \in queue[s]} \cup {handler[h].message.id : h \in Handling(s)}
FreshId(s)  == {n \in 1 .. MaxCopies : n \notin UsedIds(s) /\ 1 .. n - 1 \subseteq UsedIds(s)}

Fault == faults < MaxFaults /\ faults' = faults + 1

Init ==
    /\ queue = [s \in Stage |-> {}]
    /\ handler = [h \in Handler |-> Idle]
    /\ entered = {}
    /\ status = [d \in Document |-> 0]
    /\ processed = [d \in Document |-> 0]
    /\ faults = 0

-----------------------------------------------------------------------------
(* What on_request of a stage begins with, when it has done its part: every *)
(* stage pushes the document on, the last one only finishes.                *)
FirstCall(s) == IF s = Last THEN "acking" ELSE "pushing"

(* A request reaches on_request: a call is on its way, and a place taken    *)
(* until it is answered.                                                    *)
Start(h, s, m, kind) ==
    /\ handler[h] = Idle
    /\ handler' = [handler EXCEPT ![h] =
          [at |-> FirstCall(s), stage |-> s, message |-> m, kind |-> kind]]
    /\ processed' = [processed EXCEPT ![m.document] = IF s = Last THEN @ + 1 ELSE @]

(* update_handler::on_request: without an url in the query it answers 400,  *)
(* else it pushes the document past the queue of its own stage.             *)
UpdateRefused(d) ==
    /\ d \notin entered
    /\ entered' = entered \cup {d}
    /\ status' = [status EXCEPT ![d] = 400]
    /\ UNCHANGED <<queue, handler, processed, faults>>

Update(h, d) ==
    /\ d \notin entered
    /\ entered' = entered \cup {d}
    /\ Start(h, 1, Loose(d), "update")
    /\ UNCHANGED <<queue, status, faults>>

(* feed_pipeline_processor::process_text: the crawler hands a page to the   *)
(* first stage, without a queue, and drops the future that would tell it of *)
(* a failure.  (When the call itself throws, the page is downloaded again   *)
(* and has not been handed in.)                                             *)
Enqueue(h, d) ==
    /\ d \notin entered
    /\ entered' = entered \cup {d}
    /\ Start(h, 1, Loose(d), "process")
    /\ UNCHANGED <<queue, status, faults>>

(* The queue of stage s hands out a message.  That it does so while the     *)
(* message is still being handled is possible, and counted as a fault.      *)
Deliver(h, s, m) ==
    /\ m \in queue[s]
    /\ Start(h, s, m, "process")
    /\ IF \E g \in Handling(s) : handler[g].message = m
       THEN Fault ELSE UNCHANGED faults
    /\ UNCHANGED <<queue, entered, status>>

(* The push reaches the queue of the next stage.                            *)
PushArrives(h) ==
    /\ handler[h].at = "pushing"
    /\ LET next == handler[h].stage + 1
       IN  \E n \in FreshId(next) :
              queue' = [queue EXCEPT ![next] = @ \cup
                  {[id |-> n, document |-> handler[h].message.document]}]
    /\ handler' = [handler EXCEPT ![h].at = "pushed"]
    /\ UNCHANGED <<entered, status, processed, faults>>

(* A definition marked "mutated" is no part of the specification: it is a   *)
(* later definition with a slip of the kind this code invites, and TLC      *)
(* finds the slip by a property.                                            *)

\* mutated: the request is answered, nothing is acknowledged
PushSucceededOnly(h) ==
    /\ handler[h].at = "pushed"
    /\ handler' = [handler EXCEPT ![h] = Idle]
    /\ status' = IF handler[h].kind = "update"
                 THEN [status EXCEPT ![handler[h].message.document] = 200]
                 ELSE status
    /\ UNCHANGED <<queue, entered, processed, faults>>
(* The push is answered: an update is answered 200; a process request is    *)
(* answered "ok" and finish() sends the acknowledgement.                    *)
PushSucceeded(h) ==
    /\ handler[h].at = "pushed"
    /\ IF handler[h].kind = "update"
       THEN /\ handler' = [handler EXCEPT ![h] = Idle]
            /\ status' = [status EXCEPT ![handler[h].message.document] = 200]
       ELSE /\ handler' = [handler EXCEPT ![h].at = "acking"]
            /\ UNCHANGED status
    /\ UNCHANGED <<queue, entered, processed, faults>>

\* mutated: finish() is called although the push failed
PushFailedFinishes(h) ==
    /\ handler[h].at \in {"pushing", "pushed"}
    /\ Fault
    /\ handler' = IF handler[h].kind = "update"
                  THEN [handler EXCEPT ![h] = Idle]
                  ELSE [handler EXCEPT ![h].at = "acking"]
    /\ UNCHANGED <<queue, entered, status, processed>>
\* mutated: nothing is answered
PushFailedSilently(h) ==
    /\ handler[h].at \in {"pushing", "pushed"}
    /\ Fault
    /\ handler' = [handler EXCEPT ![h].at = "silent"]
    /\ UNCHANGED <<queue, entered, status, processed>>
\* mutated: the code of error() is used as a status
PushFailedCode(h) ==
    /\ handler[h].at \in {"pushing", "pushed"}
    /\ Fault
    /\ handler' = [handler EXCEPT ![h] = Idle]
    /\ status' = IF handler[h].kind = "update"
                 THEN [status EXCEPT ![handler[h].message.document] = 100]
                 ELSE status
    /\ UNCHANGED <<queue, entered, processed>>
(* The push fails, or only its answer is lost: an update is answered 505, a *)
(* process request gets an error and nothing is acknowledged.               *)
PushFailed(h) ==
    /\ handler[h].at \in {"pushing", "pushed"}
    /\ Fault
    /\ handler' = [handler EXCEPT ![h] = Idle]
    /\ status' = IF handler[h].kind = "update"
                 THEN [status EXCEPT ![handler[h].message.document] = 505]
                 ELSE status
    /\ UNCHANGED <<queue, entered, processed>>

(* The acknowledgement reaches the queue.  The request it belongs to has    *)
(* been answered already.  Of a loose message, or one that was acknowledged *)
(* before, the queue knows nothing.                                         *)
AckArrives(h) ==
    /\ handler[h].at = "acking"
    /\ queue' = [queue EXCEPT ![handler[h].stage] = @ \ {handler[h].message}]
    /\ handler' = [handler EXCEPT ![h] = Idle]
    /\ UNCHANGED <<entered, status, processed, faults>>

(* The acknowledgement is lost: it is logged.                               *)
AckFailed(h) ==
    /\ handler[h].at = "acking"
    /\ Fault
    /\ handler' = [handler EXCEPT ![h] = Idle]
    /\ UNCHANGED <<queue, entered, status, processed>>

(* A worker dies with all it handles, or a request is dropped because       *)
(* on_chunk throws: nobody is answered.  A call of a dead worker that still *)
(* arrives is taken to have arrived before the death.                       *)
Die(S) ==
    /\ S # {} /\ \E s \in Stage : S \subseteq Handling(s)
    /\ Fault
    /\ handler' = [h \in Handler |-> IF h \in S THEN Idle ELSE handler[h]]
    /\ UNCHANGED <<queue, entered, status, processed>>

-----------------------------------------------------------------------------
HandIn(d) == UpdateRefused(d) \/ \E h \in Handler : Update(h, d) \/ Enqueue(h, d)

Answer(h) == \/ PushArrives(h) \/ PushSucceeded(h) \/ PushFailed(h)
             \/ AckArrives(h) \/ AckFailed(h)

Next == \/ \E d \in Document : HandIn(d)
        \/ \E h \in Handler, s \in Stage : \E m \in queue[s] : Deliver(h, s, m)
        \/ \E h \in Handler : Answer(h)
        \/ \E S \in SUBSET Handler : Die(S)

(* A call is carried out or fails in the end, and a queue hands out what is *)
(* in it as long as there is a worker to take it.                           *)
Fairness ==
    /\ \A h \in Handler : WF_vars(Answer(h))
    /\ \A s \in Stage, m \in Message :
          WF_vars(m \in queue[s] /\ \E h \in Handler : Deliver(h, s, m))

Spec == Init /\ [][Next]_vars /\ Fairness

-----------------------------------------------------------------------------
TypeOK ==
    /\ queue \in [Stage -> SUBSET Message]
    /\ handler \in [Handler -> {Idle} \cup Busy]
    /\ entered \subseteq Document
    /\ status \in [Document -> {0, 200, 400, 505}]
    /\ processed \in [Document -> Nat]
    /\ faults \in 0 .. MaxFaults

(* The document d is behind stage s: in a later queue, or processed.        *)
Behind(s, d) ==
    \/ processed[d] > 0
    \/ \E r \in s + 1 .. Last : \E m \in queue[r] : m.document = d

(* A document is acknowledged in a queue, or its sender told 200, only when *)
(* it is safe further on: so one that was taken is always in some queue     *)
(* until it is processed (application.hpp:209-217).                         *)
NeverLost ==
    /\ \A d \in Document : status[d] = 200 => Behind(1, d)
    /\ \A h \in Handler : handler[h].at = "acking" =>
          Behind(handler[h].stage, handler[h].message.document)

(* Each fault at most doubles the copies of a document: a message handled   *)
(* again is pushed again as a message of its own.                           *)
BoundedCopies == \A d \in Document : processed[d] <= 2 ^ faults

(* The pipeline delivers what it promises.                                  *)
Promise == INSTANCE Delivery WITH
              promised <- {d \in Document : status[d] = 200},
              processed <- {d \in Document : processed[d] > 0}
DeliversAll == Promise!Spec

(* No message stays for ever: faults apart, the queues run empty.           *)
Drains == <>[](\A s \in Stage : queue[s] = {})
=============================================================================
