--------------------------- MODULE PipelineProofs ---------------------------
(***************************************************************************)
(* Proofs about Pipeline for any number of stages, documents, workers and  *)
(* faults: types, that no promised document is lost, that every step is    *)
(* one Delivery allows, and how many copies the faults make.               *)
(***************************************************************************)
EXTENDS Pipeline, FiniteSetTheorems, TLAPS

(* Where requests are handled: only stages with a next one push, and        *)
(* updates come in at the first.                                            *)
Placed == \A h \in Handler : handler[h] # Idle =>
    /\ handler[h].at # "acking" => handler[h].stage < Last
    /\ handler[h].kind = "update" => handler[h].stage = 1

(* What has been pushed, and not only what is being acknowledged, is safe   *)
(* further on.                                                              *)
Safe ==
    /\ \A d \in Document : status[d] = 200 => Behind(1, d)
    /\ \A h \in Handler : handler[h].at \in {"pushed", "acking"} =>
          Behind(handler[h].stage, handler[h].message.document)

(* Only documents that were handed in are in the pipeline or answered.      *)
Known ==
    /\ \A d \in Document : status[d] # 0 \/ processed[d] > 0 => d \in entered
    /\ \A s \in Stage : \A m \in queue[s] : m.document \in entered
    /\ \A h \in Handler : handler[h] # Idle =>
          handler[h].message.document \in entered

(* An update is handled once, and answered at its end.                      *)
OneUpdate == \A h \in Handler :
    handler[h] # Idle /\ handler[h].kind = "update" =>
        /\ status[handler[h].message.document] = 0
        /\ \A g \in Handler :
              /\ handler[g] # Idle /\ handler[g].kind = "update"
              /\ handler[g].message.document = handler[h].message.document
              => g = h

IInv == TypeOK /\ Placed /\ Safe /\ Known /\ OneUpdate
-----------------------------------------------------------------------------
(* The fields of a request that is being handled.                           *)
LEMMA BusyFields ==
    ASSUME TypeOK, NEW h \in Handler, handler[h].at # "idle"
    PROVE  /\ handler[h] \in Busy /\ handler[h] # Idle
           /\ handler[h].stage \in Stage /\ handler[h].message \in Message
           /\ handler[h].message.document \in Document
           /\ handler[h].kind \in {"process", "update"}
           /\ handler[h].at \in {"pushing", "pushed", "acking"}
  BY DEF TypeOK, Idle, Busy, Message

LEMMA IdleIsIdle ==
    ASSUME TypeOK, NEW h \in Handler, handler[h] # Idle
    PROVE  handler[h].at # "idle"
  BY DEF TypeOK, Idle, Busy

(* A request as Start leaves it.                                            *)
LEMMA StartMakes ==
    ASSUME TypeOK, NEW h \in Handler, NEW s \in Stage, NEW m \in Message,
           NEW kind \in {"process", "update"}, Start(h, s, m, kind)
    PROVE  /\ handler' \in [Handler -> {Idle} \cup Busy]
           /\ processed' \in [Document -> Nat]
           /\ handler[h] = Idle
           /\ handler'[h] \in Busy /\ handler'[h] # Idle
           /\ handler'[h].stage = s /\ handler'[h].message = m
           /\ handler'[h].kind = kind
           /\ handler'[h].at = IF s = Last THEN "acking" ELSE "pushing"
           /\ \A g \in Handler \ {h} : handler'[g] = handler[g]
           /\ \A d \in Document : processed'[d] >= processed[d]
           /\ \A d \in Document \ {m.document} : processed'[d] = processed[d]
           /\ s # Last => processed' = processed
           /\ s = Last => processed'[m.document] > 0
  <1>1. m.document \in Document
    BY DEF Message
  <1>2. handler' = [handler EXCEPT ![h] =
          [at |-> IF s = Last THEN "acking" ELSE "pushing",
           stage |-> s, message |-> m, kind |-> kind]]
    BY DEF Start, FirstCall
  <1>3. [at |-> IF s = Last THEN "acking" ELSE "pushing",
         stage |-> s, message |-> m, kind |-> kind] \in Busy
    BY DEF Busy
  <1>4. handler' \in [Handler -> {Idle} \cup Busy]
    BY <1>2, <1>3 DEF TypeOK
  <1>5. /\ handler'[h] \in Busy /\ handler'[h].stage = s
        /\ handler'[h].message = m /\ handler'[h].kind = kind
        /\ handler'[h].at = IF s = Last THEN "acking" ELSE "pushing"
        /\ \A g \in Handler \ {h} : handler'[g] = handler[g]
    BY <1>2, <1>3 DEF TypeOK
  <1>6. handler'[h] # Idle
    BY <1>5 DEF Idle
  <1>7. /\ processed' \in [Document -> Nat]
        /\ \A d \in Document : processed'[d] >= processed[d]
        /\ \A d \in Document \ {m.document} : processed'[d] = processed[d]
        /\ s # Last => processed' = processed
        /\ s = Last => processed'[m.document] > 0
    BY <1>1 DEF Start, TypeOK
  <1>8. handler[h] = Idle
    BY DEF Start
  <1>. QED  BY <1>4, <1>5, <1>6, <1>7, <1>8

-----------------------------------------------------------------------------
LEMMA TypeInit == Init => TypeOK
  BY BoundAssumption DEF Init, TypeOK, Idle

LEMMA TypeStep == TypeOK /\ [Next]_vars => TypeOK'
<1> SUFFICES ASSUME TypeOK, [Next]_vars PROVE TypeOK'
  OBVIOUS
<1> USE BoundAssumption, StageAssumption
<1>. DEFINE HandlerType == handler' \in [Handler -> {Idle} \cup Busy]
<1>1. ASSUME NEW d \in Document, UpdateRefused(d) PROVE TypeOK'
  BY <1>1 DEF UpdateRefused, TypeOK
<1>2. ASSUME NEW h \in Handler, NEW d \in Document,
             Update(h, d) \/ Enqueue(h, d)
      PROVE  TypeOK'
  <2>1. 1 \in Stage /\ Loose(d) \in Message
    BY DEF Stage, Loose, Message
  <2>2. PICK kind \in {"process", "update"} : Start(h, 1, Loose(d), kind)
    BY <1>2 DEF Update, Enqueue
  <2>3. HandlerType /\ processed' \in [Document -> Nat]
    BY <2>1, <2>2, StartMakes
  <2>. QED
    BY <1>2, <2>3 DEF Update, Enqueue, TypeOK
<1>3. ASSUME NEW h \in Handler, NEW s \in Stage, NEW m \in queue[s],
             Deliver(h, s, m)
      PROVE  TypeOK'
  <2>1. m \in Message
    BY DEF TypeOK
  <2>2. HandlerType /\ processed' \in [Document -> Nat]
    BY <1>3, <2>1, StartMakes DEF Deliver
  <2>. QED
    BY <1>3, <2>2 DEF Deliver, Fault, TypeOK
<1>4. ASSUME NEW h \in Handler, PushArrives(h) PROVE TypeOK'
  <2>1. /\ handler[h] \in Busy /\ handler[h].message.document \in Document
        /\ handler[h].at # "idle"
    BY <1>4, BusyFields DEF PushArrives
  <2>2. HandlerType
    BY <1>4, <2>1 DEF PushArrives, TypeOK, Busy
  <2>3. PICK n \in FreshId(handler[h].stage + 1) :
          queue' = [queue EXCEPT ![handler[h].stage + 1] = @ \cup
              {[id |-> n, document |-> handler[h].message.document]}]
    BY <1>4 DEF PushArrives
  <2>4. [id |-> n, document |-> handler[h].message.document] \in Message
    BY <2>1 DEF FreshId, Message
  <2>5. queue' \in [Stage -> SUBSET Message]
    <3>. DEFINE next == handler[h].stage + 1
                new  == [id |-> n, document |-> handler[h].message.document]
    <3>1. queue' = [queue EXCEPT ![next] = queue[next] \cup {new}]
      BY <2>3
    <3>2. new \in Message
      BY <2>4
    <3>. HIDE DEF next, new
    <3>3. CASE next \in Stage
      <4>1. queue[next] \cup {new} \in SUBSET Message
        BY <3>2, <3>3 DEF TypeOK
      <4>. QED
        BY <3>1, <4>1 DEF TypeOK
    <3>4. CASE next \notin Stage
      <4>1. queue' = queue
        BY <3>1, <3>4 DEF TypeOK
      <4>. QED
        BY <4>1 DEF TypeOK
    <3>. QED
      BY <3>3, <3>4
  <2>. QED
    BY <1>4, <2>2, <2>5 DEF PushArrives, TypeOK
<1>5. ASSUME NEW h \in Handler, PushSucceeded(h) PROVE TypeOK'
  <2>1. handler[h] \in Busy /\ handler[h].message.document \in Document
    BY <1>5, BusyFields DEF PushSucceeded
  <2>2. HandlerType /\ status' \in [Document -> {0, 200, 400, 505}]
    BY <1>5, <2>1 DEF PushSucceeded, TypeOK, Busy
  <2>. QED
    BY <1>5, <2>2 DEF PushSucceeded, TypeOK
<1>6. ASSUME NEW h \in Handler, PushFailed(h) PROVE TypeOK'
  <2>1. HandlerType /\ faults' \in 0 .. MaxFaults
    BY <1>6 DEF PushFailed, Fault, TypeOK
  <2>2. status' \in [Document -> {0, 200, 400, 505}]
    BY <1>6 DEF PushFailed, TypeOK
  <2>. QED
    BY <1>6, <2>1, <2>2 DEF PushFailed, TypeOK
<1>7. ASSUME NEW h \in Handler, AckArrives(h) PROVE TypeOK'
  <2>1. handler[h].stage \in Stage
    BY <1>7, BusyFields DEF AckArrives
  <2>2. queue[handler[h].stage] \ {handler[h].message} \in SUBSET Message
    BY <2>1 DEF TypeOK
  <2>3. queue' \in [Stage -> SUBSET Message]
    BY <1>7, <2>2 DEF AckArrives, TypeOK
  <2>. QED
    BY <1>7, <2>3 DEF AckArrives, TypeOK
<1>8. ASSUME NEW h \in Handler, AckFailed(h) PROVE TypeOK'
  BY <1>8 DEF AckFailed, Fault, TypeOK
<1>9. ASSUME NEW S \in SUBSET Handler, Die(S) PROVE TypeOK'
  BY <1>9 DEF Die, Fault, TypeOK
<1>10. CASE UNCHANGED vars
  BY <1>10 DEF vars, TypeOK
<1>. QED
  BY <1>1, <1>2, <1>3, <1>4, <1>5, <1>6, <1>7, <1>8, <1>9, <1>10
  DEF Next, HandIn, Answer

(* Every reachable state is well typed, for any number of stages.           *)
THEOREM TypeCorrect == Spec => []TypeOK
<1>1. Init => TypeOK
  BY TypeInit
<1>2. TypeOK /\ [Next]_vars => TypeOK'
  BY TypeStep
<1>. QED
  BY <1>1, <1>2, PTL DEF Spec

-----------------------------------------------------------------------------
LEMMA PlacedStep == TypeOK /\ TypeOK' /\ Placed /\ [Next]_vars => Placed'
<1> SUFFICES ASSUME TypeOK, TypeOK', Placed, [Next]_vars PROVE Placed'
  OBVIOUS
<1> USE StageAssumption, BoundAssumption
<1>1. ASSUME NEW d \in Document, UpdateRefused(d) PROVE Placed'
  BY <1>1 DEF UpdateRefused, Placed
<1>2. ASSUME NEW h \in Handler, NEW d \in Document,
             Update(h, d) \/ Enqueue(h, d)
      PROVE  Placed'
  <2>1. 1 \in Stage /\ Loose(d) \in Message /\ 1 # Last /\ 1 < Last
    BY DEF Stage, Loose, Message
  <2>2. PICK kind \in {"process", "update"} : Start(h, 1, Loose(d), kind)
    BY <1>2 DEF Update, Enqueue
  <2>3. /\ handler'[h].stage = 1
        /\ \A g \in Handler \ {h} : handler'[g] = handler[g]
    BY <2>1, <2>2, StartMakes
  <2>. QED
    BY <2>1, <2>3 DEF Placed
<1>3. ASSUME NEW h \in Handler, NEW s \in Stage, NEW m \in queue[s],
             Deliver(h, s, m)
      PROVE  Placed'
  <2>1. m \in Message
    BY DEF TypeOK
  <2>2. /\ handler'[h].stage = s /\ handler'[h].kind = "process"
        /\ handler'[h].at = IF s = Last THEN "acking" ELSE "pushing"
        /\ \A g \in Handler \ {h} : handler'[g] = handler[g]
    BY <1>3, <2>1, StartMakes DEF Deliver
  <2>3. s # Last => s < Last
    BY DEF Stage
  <2>. QED
    BY <2>2, <2>3 DEF Placed
<1>4. ASSUME NEW h \in Handler, PushArrives(h) \/ PushSucceeded(h) PROVE Placed'
  <2>1. handler[h] \in Busy /\ handler[h] # Idle
    BY <1>4, BusyFields DEF PushArrives, PushSucceeded
  <2>2. /\ \A g \in Handler \ {h} : handler'[g] = handler[g]
        /\ \/ handler'[h] = Idle
           \/ /\ handler'[h].stage = handler[h].stage
              /\ handler'[h].kind = handler[h].kind
    BY <1>4, <2>1 DEF PushArrives, PushSucceeded, TypeOK, Busy
  <2>3. handler[h].at # "acking"
    BY <1>4 DEF PushArrives, PushSucceeded
  <2>. QED
    BY <2>1, <2>2, <2>3 DEF Placed
<1>5. ASSUME NEW h \in Handler, PushFailed(h) \/ AckArrives(h) \/ AckFailed(h)
      PROVE  Placed'
  <2>1. handler' = [handler EXCEPT ![h] = Idle]
    BY <1>5 DEF PushFailed, AckArrives, AckFailed
  <2>. QED
    BY <2>1 DEF Placed, TypeOK
<1>6. ASSUME NEW S \in SUBSET Handler, Die(S) PROVE Placed'
  BY <1>6 DEF Die, Placed
<1>7. CASE UNCHANGED vars
  BY <1>7 DEF vars, Placed
<1>. QED
  BY <1>1, <1>2, <1>3, <1>4, <1>5, <1>6, <1>7 DEF Next, HandIn, Answer

-----------------------------------------------------------------------------
(* Where no message leaves a queue, what is behind a stage stays there.     *)
LEMMA BehindGrows ==
    ASSUME \A r \in Stage : queue[r] \subseteq queue'[r],
           \A d \in Document : processed[d] > 0 => processed'[d] > 0,
           NEW s \in Stage, NEW d \in Document, Behind(s, d)
    PROVE  Behind(s, d)'
<1>1. CASE processed[d] > 0
  BY <1>1 DEF Behind
<1>2. CASE \E r \in s + 1 .. Last : \E m \in queue[r] : m.document = d
  <2>1. PICK r \in s + 1 .. Last : \E m \in queue[r] : m.document = d
    BY <1>2
  <2>2. r \in Stage
    BY StageAssumption DEF Stage
  <2>. QED
    BY <2>1, <2>2 DEF Behind
<1>. QED
  BY <1>1, <1>2 DEF Behind

(* An acknowledged message is the reason why nothing is lost by it: its     *)
(* document is further on.                                                  *)
LEMMA BehindAck ==
    ASSUME TypeOK, Safe, NEW h \in Handler, AckArrives(h),
           NEW s \in Stage, NEW d \in Document, Behind(s, d)
    PROVE  Behind(s, d)'
<1>. DEFINE here == handler[h].stage
            gone == handler[h].message
<1>1. here \in Stage /\ gone \in Message
  BY BusyFields DEF AckArrives
<1>2. /\ \A r \in Stage \ {here} : queue'[r] = queue[r]
      /\ queue'[here] = queue[here] \ {gone}
      /\ processed' = processed
  BY <1>1 DEF AckArrives, TypeOK
<1>3. Behind(here, gone.document)
  BY DEF AckArrives, Safe
<1>. HIDE DEF here, gone
<1>4. CASE processed[d] > 0
  BY <1>2, <1>4 DEF Behind
<1>5. CASE d # gone.document /\ ~ processed[d] > 0
  <2>1. PICK r \in s + 1 .. Last : \E n \in queue[r] : n.document = d
    BY <1>5 DEF Behind
  <2>2. PICK m \in queue[r] : m.document = d
    BY <2>1
  <2>3. r \in Stage /\ m # gone
    BY <1>5, <2>2, StageAssumption DEF Stage
  <2>4. m \in queue'[r]
    BY <1>2, <2>2, <2>3
  <2>. QED
    BY <2>2, <2>4 DEF Behind
<1>6. CASE d = gone.document /\ here <= s /\ ~ processed[d] > 0
  <2>1. PICK r \in s + 1 .. Last : \E m \in queue[r] : m.document = d
    BY <1>6 DEF Behind
  <2>2. r \in Stage /\ r # here
    BY <1>1, <1>6, StageAssumption DEF Stage
  <2>. QED
    BY <1>2, <2>1, <2>2 DEF Behind
<1>7. CASE d = gone.document /\ ~ (here <= s) /\ ~ processed[d] > 0
  <2>1. PICK r \in here + 1 .. Last : \E m \in queue[r] : m.document = d
    BY <1>3, <1>7 DEF Behind
  <2>2. r \in Stage /\ r # here /\ r \in s + 1 .. Last
    BY <1>1, <1>7, StageAssumption DEF Stage
  <2>. QED
    BY <1>2, <2>1, <2>2 DEF Behind
<1>. QED
  BY <1>4, <1>5, <1>6, <1>7

(* What is behind a stage stays behind it, whatever happens.                *)
LEMMA BehindStays ==
    ASSUME TypeOK, Safe, [Next]_vars,
           NEW s \in Stage, NEW d \in Document, Behind(s, d)
    PROVE  Behind(s, d)'
<1>. DEFINE Grows == /\ \A r \in Stage : queue[r] \subseteq queue'[r]
                     /\ \A e \in Document : processed[e] > 0 => processed'[e] > 0
<1>1. CASE \E h \in Handler : AckArrives(h)
  BY <1>1, BehindAck
<1>2. ASSUME NEW h \in Handler, NEW e \in Document, Update(h, e) \/ Enqueue(h, e)
      PROVE  Grows
  <2>1. 1 \in Stage /\ Loose(e) \in Message
    BY StageAssumption, BoundAssumption DEF Stage, Loose, Message
  <2>2. PICK kind \in {"process", "update"} : Start(h, 1, Loose(e), kind)
    BY <1>2 DEF Update, Enqueue
  <2>3. /\ \A x \in Document : processed'[x] >= processed[x]
        /\ processed' \in [Document -> Nat]
    BY <2>1, <2>2, StartMakes
  <2>4. queue' = queue
    BY <1>2 DEF Update, Enqueue
  <2>. QED
    BY <2>3, <2>4 DEF TypeOK
<1>3. ASSUME NEW h \in Handler, NEW r \in Stage, NEW m \in queue[r], Deliver(h, r, m)
      PROVE  Grows
  <2>1. m \in Message
    BY DEF TypeOK
  <2>2. /\ \A x \in Document : processed'[x] >= processed[x]
        /\ processed' \in [Document -> Nat]
    BY <1>3, <2>1, StartMakes DEF Deliver
  <2>. QED
    BY <1>3, <2>2 DEF Deliver, TypeOK
<1>4. ASSUME NEW h \in Handler, PushArrives(h) PROVE Grows
  BY <1>4 DEF PushArrives, TypeOK
<1>5. CASE \/ \E e \in Document : UpdateRefused(e)
           \/ \E h \in Handler : PushSucceeded(h) \/ PushFailed(h) \/ AckFailed(h)
           \/ \E S \in SUBSET Handler : Die(S)
           \/ UNCHANGED vars
  <2>1. queue' = queue /\ processed' = processed
    BY <1>5 DEF UpdateRefused, PushSucceeded, PushFailed, AckFailed, Die, vars
  <2>. QED
    BY <2>1, BehindGrows
<1>6. CASE Grows
  BY <1>6, BehindGrows
<1>. HIDE DEF Grows
<1>. QED
  BY <1>1, <1>2, <1>3, <1>4, <1>5, <1>6 DEF Next, HandIn, Answer

-----------------------------------------------------------------------------
LEMMA SafeStep ==
    TypeOK /\ TypeOK' /\ Placed /\ Safe /\ [Next]_vars => Safe'
<1> SUFFICES ASSUME TypeOK, TypeOK', Placed, Safe, [Next]_vars PROVE Safe'
  OBVIOUS
<1>. DEFINE Pushed(h) == handler[h].at \in {"pushed", "acking"}
            SafeAt(h) == Pushed(h) =>
                Behind(handler[h].stage, handler[h].message.document)
<1>0. 1 \in Stage
  BY StageAssumption DEF Stage
(* What was safe stays safe, so each step has to show what is new.          *)
<1>1. \A d \in Document : status[d] = 200 => Behind(1, d)'
  BY <1>0, BehindStays DEF Safe
<1>2. \A h \in Handler : Pushed(h) /\ handler'[h] = handler[h] => SafeAt(h)'
  <2> SUFFICES ASSUME NEW h \in Handler, Pushed(h), handler'[h] = handler[h]
               PROVE  Behind(handler[h].stage, handler[h].message.document)'
    BY DEF Behind
  <2>1. handler[h].stage \in Stage /\ handler[h].message.document \in Document
    BY BusyFields
  <2>2. Behind(handler[h].stage, handler[h].message.document)
    BY DEF Safe
  <2>3. \A r \in Stage, e \in Document : Behind(r, e) => Behind(r, e)'
    BY BehindStays
  <2>. QED
    BY <2>1, <2>2, <2>3 DEF Behind
<1>3. \A h \in Handler : handler'[h] = Idle => SafeAt(h)'
  BY DEF Idle
<1>4. \A h \in Handler : handler'[h] = handler[h] => SafeAt(h)'
  BY <1>2
<1>. HIDE DEF SafeAt
<1>5. ASSUME NEW h \in Handler, NEW d \in Document, Update(h, d) \/ Enqueue(h, d)
      PROVE  Safe'
  <2>1. Loose(d) \in Message /\ 1 # Last
    BY StageAssumption, BoundAssumption DEF Loose, Message
  <2>2. PICK kind \in {"process", "update"} : Start(h, 1, Loose(d), kind)
    BY <1>5 DEF Update, Enqueue
  <2>3. /\ handler'[h].at = "pushing"
        /\ \A g \in Handler \ {h} : handler'[g] = handler[g]
    BY <1>0, <2>1, <2>2, StartMakes
  <2>4. \A g \in Handler : SafeAt(g)'
    BY <1>4, <2>3 DEF SafeAt
  <2>5. status' = status
    BY <1>5 DEF Update, Enqueue
  <2>. QED
    BY <1>1, <2>4, <2>5 DEF Safe, SafeAt
<1>6. ASSUME NEW h \in Handler, NEW s \in Stage, NEW m \in queue[s], Deliver(h, s, m)
      PROVE  Safe'
  <2>1. m \in Message
    BY DEF TypeOK
  <2>2. /\ handler'[h].at = IF s = Last THEN "acking" ELSE "pushing"
        /\ handler'[h].stage = s /\ handler'[h].message = m
        /\ s = Last => processed'[m.document] > 0
        /\ \A g \in Handler \ {h} : handler'[g] = handler[g]
    BY <1>6, <2>1, StartMakes DEF Deliver
  <2>3. SafeAt(h)'
    BY <2>2 DEF SafeAt, Behind
  <2>4. \A g \in Handler : SafeAt(g)'
    BY <1>4, <2>2, <2>3
  <2>5. status' = status
    BY <1>6 DEF Deliver
  <2>. QED
    BY <1>1, <2>4, <2>5 DEF Safe, SafeAt
<1>7. ASSUME NEW h \in Handler, PushArrives(h) PROVE Safe'
  <2>1. /\ handler[h] \in Busy /\ handler[h] # Idle
        /\ handler[h].stage \in Stage
    BY <1>7, BusyFields DEF PushArrives
  <2>. DEFINE next == handler[h].stage + 1
  <2>2. next \in Stage
    BY <1>7, <2>1, StageAssumption DEF Placed, PushArrives, Stage
  <2>3. /\ handler'[h].stage = handler[h].stage
        /\ handler'[h].message = handler[h].message
        /\ \A g \in Handler \ {h} : handler'[g] = handler[g]
    BY <1>7, <2>1 DEF PushArrives, TypeOK, Busy
  <2>4. \E m \in queue'[next] : m.document = handler[h].message.document
    <3>1. PICK n \in FreshId(next) :
            queue' = [queue EXCEPT ![next] = queue[next] \cup
                {[id |-> n, document |-> handler[h].message.document]}]
      BY <1>7 DEF PushArrives
    <3>2. [id |-> n, document |-> handler[h].message.document] \in queue'[next]
      BY <2>2, <3>1 DEF TypeOK
    <3>. QED
      BY <3>2
  <2>5. next \in handler[h].stage + 1 .. Last
    BY <2>1, <2>2, StageAssumption DEF Stage
  <2>6. SafeAt(h)'
    BY <2>3, <2>4, <2>5 DEF SafeAt, Behind
  <2>7. \A g \in Handler : SafeAt(g)'
    BY <1>4, <2>3, <2>6
  <2>8. status' = status
    BY <1>7 DEF PushArrives
  <2>. QED
    BY <1>1, <2>7, <2>8 DEF Safe, SafeAt
<1>8. ASSUME NEW h \in Handler, PushSucceeded(h) PROVE Safe'
  <2>1. /\ handler[h] \in Busy /\ handler[h] # Idle
        /\ handler[h].stage \in Stage /\ handler[h].message.document \in Document
    BY <1>8, BusyFields DEF PushSucceeded
  <2>2. Behind(handler[h].stage, handler[h].message.document)
    BY <1>8 DEF PushSucceeded, Safe
  <2>3. \A r \in Stage, e \in Document : Behind(r, e) => Behind(r, e)'
    BY BehindStays
  <2>4. \A g \in Handler \ {h} : handler'[g] = handler[g]
    BY <1>8 DEF PushSucceeded, TypeOK
  <2>5. CASE handler[h].kind = "update"
    <3>1. handler[h].stage = 1
      BY <2>1, <2>5 DEF Placed
    <3>2. /\ status' = [status EXCEPT ![handler[h].message.document] = 200]
          /\ handler'[h] = Idle
      BY <1>8, <2>5 DEF PushSucceeded, TypeOK
    <3>3. \A d \in Document : status'[d] = 200 =>
              status[d] = 200 \/ d = handler[h].message.document
      BY <3>2 DEF TypeOK
    <3>4. \A d \in Document : status'[d] = 200 => Behind(1, d)'
      BY <1>0, <1>1, <2>1, <2>2, <2>3, <3>1, <3>3
    <3>5. \A g \in Handler : SafeAt(g)'
      BY <1>3, <1>4, <2>4, <3>2
    <3>. QED
      BY <3>4, <3>5 DEF Safe, SafeAt
  <2>6. CASE handler[h].kind # "update"
    <3>1. /\ handler'[h].stage = handler[h].stage
          /\ handler'[h].message = handler[h].message
          /\ status' = status
      BY <1>8, <2>1, <2>6 DEF PushSucceeded, TypeOK, Busy
    <3>2. SafeAt(h)'
      BY <2>1, <2>2, <2>3, <3>1 DEF SafeAt, Behind
    <3>3. \A g \in Handler : SafeAt(g)'
      BY <1>4, <2>4, <3>2
    <3>. QED
      BY <1>1, <3>1, <3>3 DEF Safe, SafeAt
  <2>. QED
    BY <2>5, <2>6
<1>9. ASSUME NEW h \in Handler, PushFailed(h) PROVE Safe'
  <2>1. \A g \in Handler : handler'[g] = handler[g] \/ handler'[g] = Idle
    BY <1>9 DEF PushFailed, TypeOK
  <2>2. \A d \in Document : status'[d] = 200 => status[d] = 200
    BY <1>9 DEF PushFailed, TypeOK
  <2>3. \A g \in Handler : SafeAt(g)'
    BY <1>3, <1>4, <2>1
  <2>. QED
    BY <1>1, <2>2, <2>3 DEF Safe, SafeAt
<1>10. ASSUME \/ \E h \in Handler : AckArrives(h) \/ AckFailed(h)
              \/ \E S \in SUBSET Handler : Die(S)
              \/ \E d \in Document : UpdateRefused(d)
              \/ UNCHANGED vars
       PROVE  Safe'
  <2>1. \A g \in Handler : handler'[g] = handler[g] \/ handler'[g] = Idle
    BY <1>10 DEF AckArrives, AckFailed, Die, UpdateRefused, vars, TypeOK
  <2>2. \A d \in Document : status'[d] = 200 => status[d] = 200
    BY <1>10 DEF AckArrives, AckFailed, Die, UpdateRefused, vars, TypeOK
  <2>3. \A g \in Handler : SafeAt(g)'
    BY <1>3, <1>4, <2>1
  <2>. QED
    BY <1>1, <2>2, <2>3 DEF Safe, SafeAt
<1>. QED
  BY <1>5, <1>6, <1>7, <1>8, <1>9, <1>10 DEF Next, HandIn, Answer

-----------------------------------------------------------------------------
LEMMA KnownStep == TypeOK /\ TypeOK' /\ Known /\ [Next]_vars => Known'
<1> SUFFICES ASSUME TypeOK, TypeOK', Known, [Next]_vars PROVE Known'
  OBVIOUS
<1> USE StageAssumption, BoundAssumption
<1>1. ASSUME NEW d \in Document, UpdateRefused(d) PROVE Known'
  BY <1>1 DEF UpdateRefused, Known, TypeOK
<1>2. ASSUME NEW h \in Handler, NEW d \in Document, Update(h, d) \/ Enqueue(h, d)
      PROVE  Known'
  <2>1. 1 \in Stage /\ Loose(d) \in Message /\ Loose(d).document = d /\ 1 # Last
    BY DEF Stage, Loose, Message
  <2>2. PICK kind \in {"process", "update"} : Start(h, 1, Loose(d), kind)
    BY <1>2 DEF Update, Enqueue
  <2>3. /\ handler'[h].message = Loose(d) /\ processed' = processed
        /\ \A g \in Handler \ {h} : handler'[g] = handler[g]
    BY <2>1, <2>2, StartMakes
  <2>4. entered' = entered \cup {d} /\ status' = status /\ queue' = queue
    BY <1>2 DEF Update, Enqueue
  <2>. QED
    BY <2>1, <2>3, <2>4 DEF Known
<1>3. ASSUME NEW h \in Handler, NEW s \in Stage, NEW m \in queue[s], Deliver(h, s, m)
      PROVE  Known'
  <2>1. m \in Message /\ m.document \in entered
    BY DEF TypeOK, Known
  <2>2. /\ handler'[h].message = m
        /\ \A g \in Handler \ {h} : handler'[g] = handler[g]
        /\ \A d \in Document \ {m.document} : processed'[d] = processed[d]
    BY <1>3, <2>1, StartMakes DEF Deliver
  <2>3. entered' = entered /\ status' = status /\ queue' = queue
    BY <1>3 DEF Deliver
  <2>. QED
    BY <2>1, <2>2, <2>3 DEF Known
<1>4. ASSUME NEW h \in Handler, PushArrives(h) PROVE Known'
  <2>1. handler[h] \in Busy /\ handler[h] # Idle
    BY <1>4, BusyFields DEF PushArrives
  <2>2. /\ handler'[h].message = handler[h].message
        /\ \A g \in Handler \ {h} : handler'[g] = handler[g]
    BY <1>4, <2>1 DEF PushArrives, TypeOK, Busy
  <2>3. handler[h].message.document \in entered
    BY <2>1 DEF Known
  <2>. DEFINE next == handler[h].stage + 1
  <2>4. PICK n \in FreshId(next) :
          queue' = [queue EXCEPT ![next] = queue[next] \cup
              {[id |-> n, document |-> handler[h].message.document]}]
    BY <1>4 DEF PushArrives
  <2>5. \A s \in Stage : \A m \in queue'[s] :
          m \in queue[s] \/ m.document = handler[h].message.document
    BY <2>4 DEF TypeOK
  <2>6. entered' = entered /\ status' = status /\ processed' = processed
    BY <1>4 DEF PushArrives
  <2>. QED
    BY <2>2, <2>3, <2>5, <2>6 DEF Known
<1>5. ASSUME NEW h \in Handler, PushSucceeded(h) \/ PushFailed(h) PROVE Known'
  <2>1. /\ handler[h] \in Busy /\ handler[h] # Idle
        /\ handler[h].message.document \in Document
    BY <1>5, BusyFields DEF PushSucceeded, PushFailed
  <2>2. /\ handler'[h] = Idle \/ handler'[h].message = handler[h].message
        /\ \A g \in Handler \ {h} : handler'[g] = handler[g]
    BY <1>5, <2>1 DEF PushSucceeded, PushFailed, TypeOK, Busy
  <2>3. handler[h].message.document \in entered
    BY <2>1 DEF Known
  <2>4. \A d \in Document :
          status'[d] # 0 => status[d] # 0 \/ d = handler[h].message.document
    BY <1>5, <2>1 DEF PushSucceeded, PushFailed, TypeOK
  <2>5. entered' = entered /\ queue' = queue /\ processed' = processed
    BY <1>5 DEF PushSucceeded, PushFailed
  <2>. QED
    BY <2>2, <2>3, <2>4, <2>5 DEF Known
<1>6. ASSUME NEW h \in Handler, AckArrives(h) PROVE Known'
  <2>1. \A s \in Stage : queue'[s] \subseteq queue[s]
    BY <1>6 DEF AckArrives, TypeOK
  <2>2. \A g \in Handler : handler'[g] = handler[g] \/ handler'[g] = Idle
    BY <1>6 DEF AckArrives, TypeOK
  <2>. QED
    BY <1>6, <2>1, <2>2 DEF AckArrives, Known
<1>7. ASSUME \/ \E h \in Handler : AckFailed(h)
             \/ \E S \in SUBSET Handler : Die(S)
             \/ UNCHANGED vars
      PROVE  Known'
  <2>1. \A g \in Handler : handler'[g] = handler[g] \/ handler'[g] = Idle
    BY <1>7 DEF AckFailed, Die, vars, TypeOK
  <2>2. UNCHANGED <<queue, entered, status, processed>>
    BY <1>7 DEF AckFailed, Die, vars
  <2>. QED
    BY <2>1, <2>2 DEF Known
<1>. QED
  BY <1>1, <1>2, <1>3, <1>4, <1>5, <1>6, <1>7 DEF Next, HandIn, Answer

LEMMA OneUpdateStep ==
    TypeOK /\ TypeOK' /\ Known /\ OneUpdate /\ [Next]_vars => OneUpdate'
<1> SUFFICES ASSUME TypeOK, TypeOK', Known, OneUpdate, [Next]_vars
             PROVE  OneUpdate'
  OBVIOUS
<1> USE StageAssumption, BoundAssumption
<1>. DEFINE Updates(h) == handler[h] # Idle /\ handler[h].kind = "update"
(* Requests that are handled on, or not at all, share no document they did  *)
(* not share before.                                                        *)
<1>0. ASSUME \A g \in Handler : Updates(g)' =>
                  /\ Updates(g) /\ handler'[g].message = handler[g].message
                  /\ status'[handler[g].message.document] =
                        status[handler[g].message.document]
      PROVE  OneUpdate'
  BY <1>0 DEF OneUpdate
<1>1. ASSUME NEW d \in Document, UpdateRefused(d) PROVE OneUpdate'
  <2>1. handler' = handler /\ d \notin entered
    BY <1>1 DEF UpdateRefused
  <2>2. \A e \in Document \ {d} : status'[e] = status[e]
    BY <1>1 DEF UpdateRefused, TypeOK
  <2>3. \A g \in Handler : Updates(g) => /\ handler[g].message.document # d
                                         /\ handler[g].message.document \in Document
    BY <2>1, BusyFields, IdleIsIdle DEF Known
  <2>. QED
    BY <1>0, <2>1, <2>2, <2>3
<1>2. ASSUME NEW h \in Handler, NEW d \in Document, Update(h, d) \/ Enqueue(h, d)
      PROVE  OneUpdate'
  <2>1. 1 \in Stage /\ Loose(d) \in Message /\ Loose(d).document = d
    BY DEF Stage, Loose, Message
  <2>2. PICK kind \in {"process", "update"} : Start(h, 1, Loose(d), kind)
    BY <1>2 DEF Update, Enqueue
  <2>3. /\ handler'[h].message.document = d
        /\ \A g \in Handler \ {h} : handler'[g] = handler[g]
    BY <2>1, <2>2, StartMakes
  <2>4. d \notin entered /\ status' = status
    BY <1>2 DEF Update, Enqueue
  <2>5. status[d] = 0 /\ \A g \in Handler : Updates(g) => handler[g].message.document # d
    BY <2>4 DEF Known
  <2>. QED
    BY <2>3, <2>4, <2>5 DEF OneUpdate
<1>3. ASSUME NEW h \in Handler, NEW s \in Stage, NEW m \in queue[s], Deliver(h, s, m)
      PROVE  OneUpdate'
  <2>1. m \in Message
    BY DEF TypeOK
  <2>2. /\ handler'[h].kind = "process"
        /\ \A g \in Handler \ {h} : handler'[g] = handler[g]
    BY <1>3, <2>1, StartMakes DEF Deliver
  <2>3. status' = status
    BY <1>3 DEF Deliver
  <2>. QED
    BY <1>0, <2>2, <2>3
<1>4. ASSUME NEW h \in Handler, PushArrives(h) PROVE OneUpdate'
  <2>1. handler[h] \in Busy /\ handler[h] # Idle
    BY <1>4, BusyFields DEF PushArrives
  <2>2. /\ handler'[h].message = handler[h].message
        /\ handler'[h].kind = handler[h].kind
        /\ \A g \in Handler \ {h} : handler'[g] = handler[g]
        /\ status' = status
    BY <1>4, <2>1 DEF PushArrives, TypeOK, Busy
  <2>. QED
    BY <1>0, <2>1, <2>2
<1>5. ASSUME NEW h \in Handler, PushSucceeded(h) \/ PushFailed(h) PROVE OneUpdate'
  <2>1. /\ handler[h] \in Busy /\ handler[h] # Idle
        /\ handler[h].message.document \in Document
    BY <1>5, BusyFields DEF PushSucceeded, PushFailed
  <2>2. \A g \in Handler \ {h} : handler'[g] = handler[g]
    BY <1>5 DEF PushSucceeded, PushFailed, TypeOK
  <2>3. CASE handler[h].kind = "update"
    <3>1. handler'[h] = Idle
      BY <1>5, <2>3 DEF PushSucceeded, PushFailed, TypeOK
    <3>2. \A e \in Document \ {handler[h].message.document} : status'[e] = status[e]
      BY <1>5 DEF PushSucceeded, PushFailed, TypeOK
    <3>3. \A g \in Handler \ {h} : Updates(g) =>
              handler[g].message.document \in Document \ {handler[h].message.document}
      BY <2>1, <2>3, BusyFields, IdleIsIdle DEF OneUpdate
    <3>. QED
      BY <1>0, <2>2, <3>1, <3>2, <3>3
  <2>4. CASE handler[h].kind # "update"
    <3>1. status' = status /\ (handler'[h] = Idle \/ handler'[h].kind = handler[h].kind)
      BY <1>5, <2>1, <2>4 DEF PushSucceeded, PushFailed, TypeOK, Busy
    <3>. QED
      BY <1>0, <2>2, <2>4, <3>1
  <2>. QED
    BY <2>3, <2>4
<1>6. ASSUME \/ \E h \in Handler : AckArrives(h) \/ AckFailed(h)
             \/ \E S \in SUBSET Handler : Die(S)
             \/ UNCHANGED vars
      PROVE  OneUpdate'
  <2>1. \A g \in Handler : handler'[g] = handler[g] \/ handler'[g] = Idle
    BY <1>6 DEF AckArrives, AckFailed, Die, vars, TypeOK
  <2>2. status' = status
    BY <1>6 DEF AckArrives, AckFailed, Die, vars
  <2>. QED
    BY <1>0, <2>1, <2>2
<1>. QED
  BY <1>1, <1>2, <1>3, <1>4, <1>5, <1>6 DEF Next, HandIn, Answer

-----------------------------------------------------------------------------
LEMMA Induction == (Init => IInv) /\ (IInv /\ [Next]_vars => IInv')
<1>1. Init => IInv
  BY TypeInit DEF Init, IInv, Placed, Safe, Known, OneUpdate, Idle
<1>2. IInv /\ [Next]_vars => IInv'
  BY TypeStep, PlacedStep, SafeStep, KnownStep, OneUpdateStep DEF IInv
<1>. QED
  BY <1>1, <1>2

(* A document is acknowledged, or its sender told 200, only when it is safe *)
(* further on, for any number of stages, workers and faults.                *)
THEOREM TakenIsNeverLost == Spec => []NeverLost
<1>1. IInv => NeverLost
  BY DEF IInv, Safe, NeverLost
<1>. QED
  BY <1>1, Induction, PTL DEF Spec

-----------------------------------------------------------------------------
LEMMA StepsAreAllowed == IInv /\ [Next]_vars => [Promise!Next]_(Promise!vars)
<1> SUFFICES ASSUME IInv, [Next]_vars PROVE [Promise!Next]_(Promise!vars)
  OBVIOUS
<1> USE DEF IInv
<1>. DEFINE promised  == {d \in Document : status[d] = 200}
            done      == {d \in Document : processed[d] > 0}
<1>1. ASSUME NEW d \in Document, UpdateRefused(d) PROVE Promise!Enter(d)
  <2>1. status[d] = 0
    BY <1>1 DEF UpdateRefused, Known
  <2>2. promised' = promised
    BY <1>1, <2>1 DEF UpdateRefused, TypeOK
  <2>. QED
    BY <1>1, <2>2 DEF UpdateRefused, Promise!Enter
<1>2. ASSUME NEW h \in Handler, NEW d \in Document, Update(h, d) \/ Enqueue(h, d)
      PROVE  Promise!Enter(d)
  <2>1. 1 \in Stage /\ Loose(d) \in Message /\ 1 # Last
    BY StageAssumption, BoundAssumption DEF Stage, Loose, Message
  <2>2. PICK kind \in {"process", "update"} : Start(h, 1, Loose(d), kind)
    BY <1>2 DEF Update, Enqueue
  <2>3. processed' = processed
    BY <2>1, <2>2, StartMakes
  <2>. QED
    BY <1>2, <2>3 DEF Update, Enqueue, Promise!Enter
<1>3. ASSUME NEW h \in Handler, NEW s \in Stage, NEW m \in queue[s], Deliver(h, s, m)
      PROVE  Promise!Process(m.document) \/ UNCHANGED Promise!vars
  <2>1. m \in Message /\ m.document \in Document /\ m.document \in entered
    BY DEF TypeOK, Known, Message
  <2>2. entered' = entered /\ promised' = promised
    BY <1>3 DEF Deliver
  <2>3. /\ \A d \in Document \ {m.document} : processed'[d] = processed[d]
        /\ s # Last => processed' = processed
        /\ s = Last => processed'[m.document] > 0
    BY <1>3, <2>1, StartMakes DEF Deliver
  <2>4. CASE s # Last \/ m.document \in done
    <3>1. processed'[m.document] > 0 \/ processed' = processed
      BY <2>3
    <3>2. done' = done
      BY <2>1, <2>3, <2>4
    <3>. QED
      BY <2>2, <3>2 DEF Promise!vars
  <2>5. CASE s = Last /\ m.document \notin done
    <3>1. done' = done \cup {m.document}
      BY <2>1, <2>3, <2>5
    <3>. QED
      BY <2>1, <2>2, <2>5, <3>1 DEF Promise!Process
  <2>. QED
    BY <2>4, <2>5
<1>4. ASSUME NEW h \in Handler, PushSucceeded(h)
      PROVE  (\E d \in Document : Promise!Promise(d)) \/ UNCHANGED Promise!vars
  <2>1. /\ handler[h] \in Busy /\ handler[h] # Idle
        /\ handler[h].message.document \in Document
        /\ handler[h].message.document \in entered
    BY <1>4, BusyFields DEF PushSucceeded, Known
  <2>2. PICK d \in Document : d = handler[h].message.document
    BY <2>1
  <2>3. entered' = entered /\ processed' = processed
    BY <1>4 DEF PushSucceeded
  <2>4. CASE handler[h].kind = "update"
    <3>1. d \notin promised
      BY <2>1, <2>2, <2>4 DEF OneUpdate
    <3>2. promised' = promised \cup {d}
      BY <1>4, <2>2, <2>4 DEF PushSucceeded, TypeOK
    <3>3. Promise!Promise(d)
      BY <2>1, <2>2, <2>3, <3>1, <3>2 DEF Promise!Promise
    <3>. QED
      BY <3>3
  <2>5. CASE handler[h].kind # "update"
    BY <1>4, <2>3, <2>5 DEF PushSucceeded, Promise!vars
  <2>. QED
    BY <2>4, <2>5
<1>5. ASSUME NEW h \in Handler, PushFailed(h) PROVE UNCHANGED Promise!vars
  <2>1. /\ handler[h] \in Busy /\ handler[h] # Idle
        /\ handler[h].message.document \in Document
    BY <1>5, BusyFields DEF PushFailed
  <2>2. promised' = promised
    BY <1>5, <2>1 DEF PushFailed, TypeOK, OneUpdate
  <2>. QED
    BY <1>5, <2>2 DEF PushFailed, Promise!vars
<1>6. ASSUME \/ \E h \in Handler : PushArrives(h) \/ AckArrives(h) \/ AckFailed(h)
             \/ \E S \in SUBSET Handler : Die(S)
             \/ UNCHANGED vars
      PROVE  UNCHANGED Promise!vars
  <2>1. UNCHANGED <<entered, status, processed>>
    BY <1>6 DEF PushArrives, AckArrives, AckFailed, Die, vars
  <2>. QED
    BY <2>1 DEF Promise!vars
<1>. DEFINE Allowed == Promise!Next \/ UNCHANGED Promise!vars
<1>7. ASSUME NEW d \in Document,
             Promise!Enter(d) \/ Promise!Promise(d) \/ Promise!Process(d)
      PROVE  Allowed
  BY <1>7 DEF Promise!Next
<1>8. ASSUME UNCHANGED Promise!vars PROVE Allowed
  BY <1>8
<1>. HIDE DEF Allowed
<1>9. ASSUME NEW d \in Document, HandIn(d) PROVE Allowed
  BY <1>1, <1>2, <1>7, <1>9 DEF HandIn
<1>10. ASSUME NEW h \in Handler, NEW s \in Stage, NEW m \in queue[s], Deliver(h, s, m)
       PROVE  Allowed
  <2>1. m.document \in Document
    BY DEF TypeOK, Message
  <2>. QED
    BY <1>3, <1>7, <1>8, <1>10, <2>1
<1>11. ASSUME NEW h \in Handler, PushSucceeded(h) PROVE Allowed
  BY <1>4, <1>7, <1>8, <1>11
<1>12. ASSUME NEW h \in Handler, Answer(h) PROVE Allowed
  BY <1>5, <1>6, <1>8, <1>11, <1>12 DEF Answer
<1>13. Allowed
  BY <1>6, <1>8, <1>9, <1>10, <1>12 DEF Next
<1>. QED
  BY <1>13 DEF Allowed

(* The pipeline does nothing Delivery does not allow: it begins as Delivery *)
(* does, and every step hands in, promises or processes a document, or is   *)
(* not seen there.                                                          *)
THEOREM StagesImplementDelivery ==
    Spec => Promise!Init /\ [][Promise!Next]_(Promise!vars)
<1>1. Init => Promise!Init
  BY DEF Init, Promise!Init
<1>. QED
  BY <1>1, Induction, StepsAreAllowed, PTL DEF Spec

-----------------------------------------------------------------------------
(* The request in place h handles the message m of stage s.                 *)
On(h, s, m) == handler[h] # Idle /\ handler[h].stage = s /\ handler[h].message = m

(* What may still become a processed copy of d: the messages of d nobody    *)
(* handles, and the requests that have to push d on.                        *)
Waiters(d) == {x \in Stage \X Message :
    /\ x[2].document = d
    /\ x[2] \in queue[x[1]]
    /\ \A h \in Handler : ~ On(h, x[1], x[2])}
Movers(d) == {h \in Handler :
    /\ handler[h] # Idle
    /\ handler[h].at = "pushing"
    /\ handler[h].message.document = d}

(* The messages of stage s whose document has been pushed on or processed,  *)
(* by a request that has yet to end: a fault brings them back.              *)
Spent(s, d) == {m \in queue[s] :
    /\ m.document = d
    /\ \E h \in Handler : On(h, s, m) /\ handler[h].at # "pushing"}

(* The messages behind stage s whose document has not.                      *)
Unspent(s, d) == {x \in Stage \X Message :
    /\ x[1] > s
    /\ x[2].document = d
    /\ x[2] \in queue[x[1]]
    /\ \A h \in Handler : On(h, x[1], x[2]) => handler[h].at = "pushing"}

Copies(d) == Cardinality(Waiters(d)) + Cardinality(Movers(d)) + processed[d]

(* Every fault doubles the copies at most, since every spent message of a   *)
(* stage is paid for by a message further on or a copy that is processed.   *)
Doubled(d) == Copies(d) <= 2 ^ faults
PaidFor(s, d) == Cardinality(Spent(s, d)) <= Cardinality(Unspent(s, d)) + processed[d]
Counts(d) == IsFiniteSet(Movers(d)) /\ Doubled(d) /\ \A s \in Stage : PaidFor(s, d)

(* Nothing is pushed to the first queue.                                    *)
FirstEmpty == queue[1] = {}

CInv == FirstEmpty /\ \A d \in Document : Counts(d)

-----------------------------------------------------------------------------
(* The values of a function on a finite set are no more than its arguments. *)
LEMMA ImageBound ==
    ASSUME NEW S, IsFiniteSet(S), NEW T, NEW f \in [S -> T]
    PROVE  /\ IsFiniteSet({f[x] : x \in S})
           /\ Cardinality({f[x] : x \in S}) \in Nat
           /\ Cardinality({f[x] : x \in S}) <= Cardinality(S)
<1>. DEFINE R == {f[x] : x \in S}
<1>1. f \in Surjection(S, R)
  BY DEF Surjection
<1>. HIDE DEF R
<1>2. IsFiniteSet(R) /\ Cardinality(R) <= Cardinality(S)
  BY <1>1, FS_Surjection
<1>3. Cardinality(R) \in Nat
  BY <1>2, FS_CardinalityType
<1>. QED
  BY <1>2, <1>3 DEF R

LEMMA SubsetBound ==
    ASSUME NEW S, IsFiniteSet(S), NEW T \in SUBSET S
    PROVE  /\ IsFiniteSet(T) /\ Cardinality(T) \in Nat /\ Cardinality(S) \in Nat
           /\ Cardinality(T) <= Cardinality(S)
<1>1. IsFiniteSet(T) /\ Cardinality(T) <= Cardinality(S)
  BY FS_Subset
<1>. QED
  BY <1>1, FS_CardinalityType

LEMMA UnionBound ==
    ASSUME NEW S, IsFiniteSet(S), NEW T, IsFiniteSet(T)
    PROVE  /\ IsFiniteSet(S \cup T) /\ Cardinality(S \cup T) \in Nat
           /\ Cardinality(S) \in Nat /\ Cardinality(T) \in Nat
           /\ Cardinality(S \cup T) <= Cardinality(S) + Cardinality(T)
<1>1. /\ IsFiniteSet(S \cup T)
      /\ Cardinality(S \cup T) =
            Cardinality(S) + Cardinality(T) - Cardinality(S \cap T)
  BY FS_Union
<1>2. IsFiniteSet(S \cap T)
  BY SubsetBound
<1>3. /\ Cardinality(S) \in Nat /\ Cardinality(T) \in Nat
      /\ Cardinality(S \cup T) \in Nat /\ Cardinality(S \cap T) \in Nat
  BY <1>1, <1>2, FS_CardinalityType
<1>. QED
  BY <1>1, <1>3

(* Powers of two count the subsets of an interval.                          *)
LEMMA PowerCounts ==
    ASSUME NEW n \in Nat
    PROVE  /\ IsFiniteSet(SUBSET (1 .. n)) /\ Cardinality(SUBSET (1 .. n)) = 2 ^ n
           /\ 2 ^ n \in Nat /\ 2 ^ n >= 1
<1>1. IsFiniteSet(1 .. n) /\ Cardinality(1 .. n) = n
  BY FS_Interval
<1>2. IsFiniteSet(SUBSET (1 .. n)) /\ Cardinality(SUBSET (1 .. n)) = 2 ^ n
  BY <1>1, FS_SUBSET
<1>3. 2 ^ n \in Nat
  BY <1>2, FS_CardinalityType
<1>4. SUBSET (1 .. n) # {}
  OBVIOUS
<1>5. 2 ^ n # 0
  BY <1>2, <1>4, FS_EmptySet
<1>. QED
  BY <1>2, <1>3, <1>5

LEMMA PowerDoubles == \A n \in Nat : 2 * 2 ^ n <= 2 ^ (n + 1)
<1>. SUFFICES ASSUME NEW n \in Nat PROVE 2 * 2 ^ n <= 2 ^ (n + 1)
  OBVIOUS
<1>. DEFINE A == SUBSET (1 .. n)
            B == SUBSET (1 .. n + 1)
            f == [X \in A |-> X \cup {n + 1}]
            C == {f[X] : X \in A}
<1>1. IsFiniteSet(A) /\ Cardinality(A) = 2 ^ n /\ 2 ^ n \in Nat
  BY PowerCounts
<1>2. IsFiniteSet(B) /\ Cardinality(B) = 2 ^ (n + 1) /\ 2 ^ (n + 1) \in Nat
  BY PowerCounts
<1>3. f \in Surjection(A, C)
  BY DEF Surjection
<1>4. f \in Injection(A, C)
  <2>1. ASSUME NEW X \in A, NEW Y \in A, f[X] = f[Y] PROVE X = Y
    <3>1. X \cup {n + 1} = Y \cup {n + 1}
      BY <2>1
    <3>2. n + 1 \notin 1 .. n
      OBVIOUS
    <3>3. n + 1 \notin X /\ n + 1 \notin Y
      BY <2>1, <3>2
    <3>. QED
      BY <3>1, <3>3
  <2>2. f \in [A -> C] /\ DOMAIN f = A
    OBVIOUS
  <2>. HIDE DEF A, C, f
  <2>. QED
    BY <2>1, <2>2 DEF Injection, IsInjective
<1>5. A \cup C \subseteq B /\ A \cap C = {}
  <2>1. 1 .. n \subseteq 1 .. n + 1 /\ n + 1 \in 1 .. n + 1 /\ n + 1 \notin 1 .. n
    OBVIOUS
  <2>2. A \subseteq B /\ \A X \in C : X \in B /\ n + 1 \in X
    BY <2>1
  <2>3. \A X \in A : n + 1 \notin X
    BY <2>1
  <2>. QED
    BY <2>2, <2>3
<1>. HIDE DEF A, B, C, f
<1>6. IsFiniteSet(C) /\ Cardinality(C) = Cardinality(A)
  BY <1>1, <1>3, <1>4, FS_Surjection
<1>7. Cardinality(A \cup C) = Cardinality(A) + Cardinality(C) - Cardinality(A \cap C)
  BY <1>1, <1>6, FS_Union
<1>8. Cardinality(A \cap C) = 0
  BY <1>5, FS_EmptySet
<1>9. Cardinality(A \cup C) <= Cardinality(B)
  BY <1>2, <1>5, SubsetBound
<1>. QED
  BY <1>1, <1>2, <1>6, <1>7, <1>8, <1>9

-----------------------------------------------------------------------------
(* The messages of one document are finitely many, for a queue numbers its  *)
(* messages up to a bound.                                                  *)
Versions(d) == {m \in Message : m.document = d}
Spots(d)    == {x \in Stage \X Message : x[2].document = d}

LEMMA VersionsFinite ==
    ASSUME NEW d \in Document
    PROVE  IsFiniteSet(Versions(d)) /\ IsFiniteSet(Spots(d))
<1>. DEFINE f == [i \in 0 .. MaxCopies |-> [id |-> i, document |-> d]]
<1>1. IsFiniteSet(0 .. MaxCopies) /\ IsFiniteSet(Stage)
  BY FS_Interval, BoundAssumption, StageAssumption DEF Stage
<1>2. f \in [0 .. MaxCopies -> Versions(d)]
  BY DEF Versions, Message
<1>3. Versions(d) = {f[i] : i \in 0 .. MaxCopies}
  <2>1. \A m \in Versions(d) : m.id \in 0 .. MaxCopies /\ m = f[m.id]
    BY DEF Versions, Message
  <2>. QED
    BY <1>2, <2>1
<1>. HIDE DEF f
<1>4. IsFiniteSet(Versions(d))
  <2>1. IsFiniteSet({f[i] : i \in 0 .. MaxCopies})
    BY <1>1, <1>2, ImageBound
  <2>. QED
    BY <1>3, <2>1
<1>5. IsFiniteSet(Stage \X Versions(d))
  BY <1>1, <1>4, FS_Product
<1>6. Spots(d) \in SUBSET (Stage \X Versions(d))
  BY DEF Spots, Versions
<1>. QED
  BY <1>4, <1>5, <1>6, FS_Subset

LEMMA Sizes ==
    ASSUME TypeOK, NEW d \in Document
    PROVE  /\ processed[d] \in Nat
           /\ IsFiniteSet(Waiters(d)) /\ Cardinality(Waiters(d)) \in Nat
           /\ IsFiniteSet(Movers(d)) => Cardinality(Movers(d)) \in Nat
           /\ \A s \in Stage :
                 /\ IsFiniteSet(Spent(s, d)) /\ Cardinality(Spent(s, d)) \in Nat
                 /\ IsFiniteSet(Unspent(s, d)) /\ Cardinality(Unspent(s, d)) \in Nat
<1>1. IsFiniteSet(Versions(d)) /\ IsFiniteSet(Spots(d))
  BY VersionsFinite
<1>2. Waiters(d) \in SUBSET Spots(d)
  BY DEF Waiters, Spots
<1>3. ASSUME NEW s \in Stage
      PROVE  Spent(s, d) \in SUBSET Versions(d) /\ Unspent(s, d) \in SUBSET Spots(d)
  BY DEF Spent, Unspent, Versions, Spots, TypeOK
<1>4. \A s \in Stage :
          /\ IsFiniteSet(Spent(s, d)) /\ Cardinality(Spent(s, d)) \in Nat
          /\ IsFiniteSet(Unspent(s, d)) /\ Cardinality(Unspent(s, d)) \in Nat
  BY <1>1, <1>3, SubsetBound
<1>5. IsFiniteSet(Waiters(d)) /\ Cardinality(Waiters(d)) \in Nat
  BY <1>1, <1>2, SubsetBound
<1>6. IsFiniteSet(Movers(d)) => Cardinality(Movers(d)) \in Nat
  BY FS_CardinalityType
<1>. QED
  BY <1>4, <1>5, <1>6 DEF TypeOK

LEMMA SizesNext ==
    ASSUME TypeOK', NEW d \in Document
    PROVE  /\ processed'[d] \in Nat
           /\ IsFiniteSet(Waiters(d)') /\ Cardinality(Waiters(d)') \in Nat
           /\ IsFiniteSet(Movers(d)') => Cardinality(Movers(d)') \in Nat
           /\ \A s \in Stage :
                 /\ IsFiniteSet(Spent(s, d)') /\ Cardinality(Spent(s, d)') \in Nat
                 /\ IsFiniteSet(Unspent(s, d)') /\ Cardinality(Unspent(s, d)') \in Nat
<1>1. IsFiniteSet(Versions(d)) /\ IsFiniteSet(Spots(d))
  BY VersionsFinite
<1>2. Waiters(d)' \in SUBSET Spots(d)
  BY DEF Waiters, Spots
<1>3. ASSUME NEW s \in Stage
      PROVE  Spent(s, d)' \in SUBSET Versions(d) /\ Unspent(s, d)' \in SUBSET Spots(d)
  BY DEF Spent, Unspent, Versions, Spots, TypeOK
<1>4. \A s \in Stage :
          /\ IsFiniteSet(Spent(s, d)') /\ Cardinality(Spent(s, d)') \in Nat
          /\ IsFiniteSet(Unspent(s, d)') /\ Cardinality(Unspent(s, d)') \in Nat
  BY <1>1, <1>3, SubsetBound
<1>5. IsFiniteSet(Waiters(d)') /\ Cardinality(Waiters(d)') \in Nat
  BY <1>1, <1>2, SubsetBound
<1>6. IsFiniteSet(Movers(d)') => Cardinality(Movers(d)') \in Nat
  BY FS_CardinalityType
<1>. QED
  BY <1>4, <1>5, <1>6 DEF TypeOK

(* A fault may double the copies; any other step may not add one.           *)
LEMMA StaysDoubled ==
    ASSUME TypeOK, TypeOK', NEW d \in Document, Counts(d), IsFiniteSet(Movers(d)'),
           \/ Copies(d)' <= Copies(d) /\ faults' \in {faults, faults + 1}
           \/ Copies(d)' <= 2 * Copies(d) /\ faults' = faults + 1
    PROVE  Doubled(d)'
<1>1. faults \in Nat /\ faults' \in Nat
  BY BoundAssumption DEF TypeOK
<1>2. /\ 2 ^ faults \in Nat /\ 2 * 2 ^ faults <= 2 ^ (faults + 1)
      /\ 2 ^ (faults + 1) \in Nat
  <2>1. faults \in Nat /\ faults + 1 \in Nat
    BY <1>1
  <2>2. 2 ^ faults \in Nat /\ 2 ^ (faults + 1) \in Nat
    BY <2>1, PowerCounts
  <2>3. 2 * 2 ^ faults <= 2 ^ (faults + 1)
    BY <2>1, PowerDoubles
  <2>. QED
    BY <2>2, <2>3
<1>3. Copies(d) \in Nat /\ Copies(d)' \in Nat
  BY Sizes, SizesNext DEF Copies, Counts
<1>4. Copies(d) <= 2 ^ faults
  BY DEF Counts, Doubled
<1>5. Copies(d)' <= 2 ^ faults'
  <2>1. CASE faults' = faults
    BY <1>2, <1>3, <1>4, <2>1
  <2>2. CASE faults' = faults + 1
    BY <1>2, <1>3, <1>4, <2>2
  <2>. QED
    BY <2>1, <2>2
<1>. QED
  BY <1>5 DEF Doubled

(* A step that makes no copy of d and spends none of its messages.          *)
LEMMA Quiet ==
    ASSUME TypeOK, TypeOK', NEW d \in Document, Counts(d),
           Waiters(d)' \subseteq Waiters(d), Movers(d)' \subseteq Movers(d),
           processed'[d] = processed[d], faults' \in {faults, faults + 1},
           \A s \in Stage : /\ Spent(s, d)' \subseteq Spent(s, d)
                            /\ Unspent(s, d) \subseteq Unspent(s, d)'
    PROVE  Counts(d)'
<1>1. /\ IsFiniteSet(Movers(d)') /\ Cardinality(Movers(d)') <= Cardinality(Movers(d))
      /\ Cardinality(Movers(d)') \in Nat /\ Cardinality(Movers(d)) \in Nat
  BY SubsetBound DEF Counts
<1>2. Cardinality(Waiters(d)') <= Cardinality(Waiters(d))
  BY Sizes, SubsetBound
<1>3. Copies(d)' <= Copies(d)
  BY <1>1, <1>2, Sizes, SizesNext DEF Copies
<1>4. Doubled(d)'
  BY <1>1, <1>3, StaysDoubled
<1>5. ASSUME NEW s \in Stage PROVE PaidFor(s, d)'
  <2>1. Cardinality(Spent(s, d)') <= Cardinality(Spent(s, d))
    BY Sizes, SubsetBound
  <2>2. Cardinality(Unspent(s, d)) <= Cardinality(Unspent(s, d)')
    BY SizesNext, SubsetBound
  <2>3. Cardinality(Spent(s, d)) <= Cardinality(Unspent(s, d)) + processed[d]
    BY DEF Counts, PaidFor
  <2>4. Cardinality(Spent(s, d)') <= Cardinality(Unspent(s, d)') + processed'[d]
    BY <2>1, <2>2, <2>3, Sizes, SizesNext
  <2>. QED
    BY <2>4 DEF PaidFor
<1>. QED
  BY <1>1, <1>4, <1>5 DEF Counts

-----------------------------------------------------------------------------
(* A request that starts takes its message from those that wait; it has to  *)
(* push it on, or has spent it when the stage is the last.                  *)
LEMMA StartSets ==
    ASSUME TypeOK, NEW h \in Handler, NEW s \in Stage, NEW m \in Message,
           NEW kind \in {"process", "update"}, Start(h, s, m, kind), queue' = queue,
           NEW d \in Document
    PROVE  /\ Waiters(d)' = Waiters(d) \ {<<s, m>>}
           /\ Movers(d)' = Movers(d) \cup IF s # Last /\ m.document = d THEN {h} ELSE {}
           /\ h \notin Movers(d)
           /\ \A r \in Stage :
                 IF s = Last
                 THEN /\ Spent(r, d)' = Spent(r, d) \cup
                             IF r = s /\ m.document = d /\ m \in queue[s] THEN {m} ELSE {}
                      /\ Unspent(r, d)' = Unspent(r, d) \ {<<s, m>>}
                 ELSE Spent(r, d)' = Spent(r, d) /\ Unspent(r, d)' = Unspent(r, d)
           /\ processed'[d] = processed[d] + IF s = Last /\ m.document = d THEN 1 ELSE 0
<1>1. /\ handler[h] = Idle /\ handler'[h] # Idle
      /\ handler'[h].stage = s /\ handler'[h].message = m
      /\ handler'[h].at = IF s = Last THEN "acking" ELSE "pushing"
      /\ \A g \in Handler \ {h} : handler'[g] = handler[g]
  BY StartMakes
<1>2. \A g \in Handler, r \in Stage, n \in Message :
          On(g, r, n)' <=> On(g, r, n) \/ (g = h /\ r = s /\ n = m)
  BY <1>1 DEF On
<1>3. \A g \in Handler \ {h} : handler'[g].at = handler[g].at
  BY <1>1
<1>4. \A r \in Stage, n \in Message : ~ On(h, r, n)
  BY <1>1 DEF On
<1>5. Waiters(d)' = Waiters(d) \ {<<s, m>>}
  BY <1>2 DEF Waiters
<1>6. /\ Movers(d)' = Movers(d) \cup IF s # Last /\ m.document = d THEN {h} ELSE {}
      /\ h \notin Movers(d)
  BY <1>1 DEF Movers
<1>7. ASSUME NEW r \in Stage
      PROVE  IF s = Last
             THEN /\ Spent(r, d)' = Spent(r, d) \cup
                         IF r = s /\ m.document = d /\ m \in queue[s] THEN {m} ELSE {}
                  /\ Unspent(r, d)' = Unspent(r, d) \ {<<s, m>>}
             ELSE Spent(r, d)' = Spent(r, d) /\ Unspent(r, d)' = Unspent(r, d)
  <2>1. \A n \in queue[r] : n \in Message
    BY DEF TypeOK
  <2>2. CASE s = Last
    <3>1. \A n \in queue[r] :
             (\E g \in Handler : On(g, r, n)' /\ handler'[g].at # "pushing")
             <=> \/ \E g \in Handler : On(g, r, n) /\ handler[g].at # "pushing"
                 \/ r = s /\ n = m
      BY <1>1, <1>2, <1>3, <1>4, <2>1, <2>2
    <3>2. Spent(r, d)' = Spent(r, d) \cup
             IF r = s /\ m.document = d /\ m \in queue[s] THEN {m} ELSE {}
      BY <3>1 DEF Spent
    <3>3. \A x \in Stage \X Message :
             (\A g \in Handler : On(g, x[1], x[2])' => handler'[g].at = "pushing")
             <=> /\ \A g \in Handler : On(g, x[1], x[2]) => handler[g].at = "pushing"
                 /\ x # <<s, m>>
      BY <1>1, <1>2, <1>3, <1>4, <2>2
    <3>4. Unspent(r, d)' = Unspent(r, d) \ {<<s, m>>}
      BY <3>3 DEF Unspent
    <3>. QED
      BY <2>2, <3>2, <3>4
  <2>3. CASE s # Last
    <3>1. \A n \in queue[r] :
             (\E g \in Handler : On(g, r, n)' /\ handler'[g].at # "pushing")
             <=> \E g \in Handler : On(g, r, n) /\ handler[g].at # "pushing"
      BY <1>1, <1>2, <1>3, <1>4, <2>1, <2>3
    <3>2. Spent(r, d)' = Spent(r, d)
      BY <3>1 DEF Spent
    <3>3. \A x \in Stage \X Message :
             (\A g \in Handler : On(g, x[1], x[2])' => handler'[g].at = "pushing")
             <=> \A g \in Handler : On(g, x[1], x[2]) => handler[g].at = "pushing"
      BY <1>1, <1>2, <1>3, <1>4, <2>3
    <3>4. Unspent(r, d)' = Unspent(r, d)
      BY <3>3 DEF Unspent
    <3>. QED
      BY <2>3, <3>2, <3>4
  <2>. QED
    BY <2>2, <2>3
<1>8. processed'[d] = processed[d] + IF s = Last /\ m.document = d THEN 1 ELSE 0
  BY DEF Start, TypeOK
<1>. QED
  BY <1>5, <1>6, <1>7, <1>8

(* A document that is handed in is one copy; no other gets one.             *)
LEMMA CopiesHandIn ==
    ASSUME TypeOK, TypeOK', Known, CInv, NEW h \in Handler, NEW e \in Document,
           Update(h, e) \/ Enqueue(h, e), NEW d \in Document
    PROVE  Counts(d)'
<1>1. 1 \in Stage /\ Loose(e) \in Message /\ Loose(e).document = e /\ 1 # Last
  BY StageAssumption, BoundAssumption DEF Stage, Loose, Message
<1>2. PICK kind \in {"process", "update"} : Start(h, 1, Loose(e), kind)
  BY DEF Update, Enqueue
<1>3. queue' = queue /\ faults' = faults /\ e \notin entered
  BY DEF Update, Enqueue
<1>4. /\ Waiters(d)' \subseteq Waiters(d)
      /\ Movers(d)' = Movers(d) \cup IF e = d THEN {h} ELSE {}
      /\ \A r \in Stage : Spent(r, d)' = Spent(r, d) /\ Unspent(r, d)' = Unspent(r, d)
      /\ processed'[d] = processed[d]
  <2>1. processed[d] \in Nat
    BY DEF TypeOK
  <2>. QED
    BY <1>1, <1>2, <1>3, <2>1, StartSets
<1>5. Counts(d)
  BY DEF CInv
<1>6. CASE e # d
  BY <1>3, <1>4, <1>5, <1>6, Quiet
<1>7. CASE e = d
  <2>1. Waiters(d) = {} /\ Movers(d) = {} /\ processed[d] = 0
    BY <1>3, <1>7 DEF Known, Waiters, Movers, TypeOK
  <2>2. Waiters(d)' = {} /\ Movers(d)' = {h} /\ processed'[d] = 0
    BY <1>4, <1>7, <2>1
  <2>3. /\ IsFiniteSet(Movers(d)') /\ Cardinality(Movers(d)') = 1
        /\ Cardinality(Waiters(d)') = 0
    <3>1. IsFiniteSet({h}) /\ Cardinality({h}) = 1
      BY FS_Singleton
    <3>2. Cardinality({}) = 0
      BY FS_EmptySet
    <3>. QED
      BY <2>2, <3>1, <3>2
  <2>4. 2 ^ faults >= 1 /\ 2 ^ faults \in Nat
    <3>1. faults \in Nat
      BY BoundAssumption DEF TypeOK
    <3>. QED
      BY <3>1, PowerCounts
  <2>5. Doubled(d)'
    <3>1. Copies(d)' = 1
      BY <2>2, <2>3 DEF Copies
    <3>2. Copies(d)' <= 2 ^ faults'
      BY <1>3, <2>4, <3>1
    <3>. QED
      BY <3>2 DEF Doubled
  <2>6. ASSUME NEW s \in Stage PROVE PaidFor(s, d)'
    BY <1>4, <1>5 DEF Counts, PaidFor
  <2>. QED
    BY <2>3, <2>5, <2>6 DEF Counts
<1>. QED
  BY <1>6, <1>7

(* A message that is not spent waits, or is being pushed on.                *)
LEMMA UnspentAreCopies ==
    ASSUME TypeOK, NEW d \in Document, IsFiniteSet(Movers(d)), NEW s \in Stage
    PROVE  Cardinality(Unspent(s, d)) <= Cardinality(Waiters(d)) + Cardinality(Movers(d))
<1>. DEFINE f == [h \in Movers(d) |-> <<handler[h].stage, handler[h].message>>]
            R == {f[h] : h \in Movers(d)}
<1>1. \A h \in Movers(d) : f[h] = <<handler[h].stage, handler[h].message>>
  OBVIOUS
<1>2. \A h \in Movers(d) : h \in Handler /\ handler[h] # Idle
  BY DEF Movers
<1>3. f \in [Movers(d) -> Stage \X Message]
  BY <1>2, BusyFields, IdleIsIdle
<1>4. /\ IsFiniteSet(R) /\ Cardinality(R) \in Nat
      /\ Cardinality(R) <= Cardinality(Movers(d))
  <2>. HIDE DEF f
  <2>. QED
    BY <1>3, ImageBound
<1>5. Unspent(s, d) \subseteq Waiters(d) \cup R
  <2>1. SUFFICES ASSUME NEW x \in Unspent(s, d), x \notin Waiters(d) PROVE x \in R
    OBVIOUS
  <2>2. PICK h \in Handler : On(h, x[1], x[2])
    BY <2>1 DEF Unspent, Waiters
  <2>3. h \in Movers(d)
    BY <2>2 DEF Unspent, Movers, On
  <2>4. x = <<handler[h].stage, handler[h].message>>
    BY <2>2 DEF Unspent, On
  <2>5. f[h] = x
    BY <1>1, <2>3, <2>4
  <2>. HIDE DEF f
  <2>. QED
    BY <2>3, <2>5
<1>. HIDE DEF R
<1>6. IsFiniteSet(Waiters(d))
  BY Sizes
<1>7. /\ IsFiniteSet(Waiters(d) \cup R)
      /\ Cardinality(Waiters(d) \cup R) <= Cardinality(Waiters(d)) + Cardinality(R)
  BY <1>4, <1>6, UnionBound
<1>8. Cardinality(Unspent(s, d)) <= Cardinality(Waiters(d) \cup R)
  BY <1>5, <1>7, SubsetBound
<1>9. Cardinality(Waiters(d) \cup R) \in Nat
  BY <1>7, FS_CardinalityType
<1>. QED
  BY <1>4, <1>7, <1>8, <1>9, Sizes

(* So where something of d is spent there is a copy of it.                  *)
LEMMA SpentAreCopied ==
    ASSUME TypeOK, NEW d \in Document, Counts(d), NEW s \in Stage
    PROVE  /\ Cardinality(Spent(s, d)) <= Copies(d)
           /\ Copies(d) \in Nat
<1>1. Cardinality(Spent(s, d)) <= Cardinality(Unspent(s, d)) + processed[d]
  BY DEF Counts, PaidFor
<1>2. Cardinality(Unspent(s, d)) <= Cardinality(Waiters(d)) + Cardinality(Movers(d))
  BY UnspentAreCopies DEF Counts
<1>3. IsFiniteSet(Movers(d))
  BY DEF Counts
<1>. QED
  BY <1>1, <1>2, <1>3, Sizes DEF Copies

LEMMA OneMore ==
    ASSUME NEW S, IsFiniteSet(S), NEW x
    PROVE  /\ IsFiniteSet(S \cup {x}) /\ Cardinality(S) \in Nat
           /\ Cardinality(S \cup {x}) \in Nat /\ Cardinality(S \ {x}) \in Nat
           /\ Cardinality(S \cup {x}) <= Cardinality(S) + 1
           /\ IsFiniteSet(S \ {x}) /\ Cardinality(S \ {x}) >= Cardinality(S) - 1
           /\ x \in S => Cardinality(S) >= 1
           /\ x \in S => Cardinality(S \ {x}) = Cardinality(S) - 1
           /\ x \notin S => S \ {x} = S
           /\ x \notin S => Cardinality(S \cup {x}) = Cardinality(S) + 1
<1>1. /\ IsFiniteSet(S \cup {x}) /\ IsFiniteSet(S \ {x})
      /\ Cardinality(S \cup {x}) = IF x \in S THEN Cardinality(S) ELSE Cardinality(S) + 1
      /\ Cardinality(S \ {x}) = IF x \in S THEN Cardinality(S) - 1 ELSE Cardinality(S)
  BY FS_AddElement, FS_RemoveElement
<1>2. /\ Cardinality(S) \in Nat /\ Cardinality(S \cup {x}) \in Nat
      /\ Cardinality(S \ {x}) \in Nat
  BY <1>1, FS_CardinalityType
<1>. QED
  BY <1>1, <1>2

(* Delivered once, a message becomes a copy on its way; delivered while it  *)
(* is handled, one copy more, of at least one there is.                     *)
LEMMA CopiesDeliver ==
    ASSUME TypeOK, TypeOK', CInv, NEW h \in Handler, NEW s \in Stage,
           NEW m \in queue[s], Deliver(h, s, m), NEW d \in Document
    PROVE  Counts(d)'
<1>1. m \in Message /\ Counts(d)
  BY DEF TypeOK, CInv
<1>2. /\ Start(h, s, m, "process") /\ queue' = queue
      /\ faults' \in {faults, faults + 1}
      /\ (\E g \in Handling(s) : handler[g].message = m) => faults' = faults + 1
  BY DEF Deliver, Fault
<1>. DEFINE x == <<s, m>>
<1>3. /\ Waiters(d)' = Waiters(d) \ {x}
      /\ Movers(d)' = Movers(d) \cup IF s # Last /\ m.document = d THEN {h} ELSE {}
      /\ h \notin Movers(d)
      /\ processed'[d] = processed[d] + IF s = Last /\ m.document = d THEN 1 ELSE 0
  BY <1>1, <1>2, StartSets
<1>4. \A r \in Stage :
          IF s = Last
          THEN /\ Spent(r, d)' = Spent(r, d) \cup
                      IF r = s /\ m.document = d THEN {m} ELSE {}
               /\ Unspent(r, d)' = Unspent(r, d) \ {x}
          ELSE Spent(r, d)' = Spent(r, d) /\ Unspent(r, d)' = Unspent(r, d)
  BY <1>1, <1>2, StartSets
<1>5. x \in Stage \X Message /\ x[1] = s /\ x[2] = m
  BY <1>1
<1>6. processed[d] \in Nat
  BY DEF TypeOK
<1>7. CASE m.document # d
  <2>1. \A r \in Stage : x \notin Unspent(r, d)
    BY <1>5, <1>7 DEF Unspent
  <2>2. \A r \in Stage : /\ Spent(r, d)' \subseteq Spent(r, d)
                         /\ Unspent(r, d) \subseteq Unspent(r, d)'
    BY <1>4, <1>7, <2>1
  <2>. QED
    BY <1>1, <1>2, <1>3, <1>6, <1>7, <2>2, Quiet
<1>8. CASE m.document = d
  <2>1. IsFiniteSet(Movers(d)) /\ IsFiniteSet(Waiters(d)) /\ Cardinality(Waiters(d)) \in Nat
    BY <1>1, Sizes DEF Counts
  <2>2. /\ IsFiniteSet(Movers(d) \cup {h}) /\ Cardinality(Movers(d)) \in Nat
        /\ Cardinality(Movers(d) \cup {h}) = Cardinality(Movers(d)) + 1
    BY <1>3, <2>1, OneMore
  <2>3. /\ IsFiniteSet(Movers(d)')
        /\ Cardinality(Movers(d)') + processed'[d] = Cardinality(Movers(d)) + processed[d] + 1
    <3>1. CASE s = Last
      BY <1>3, <1>6, <1>8, <2>1, <2>2, <3>1
    <3>2. CASE s # Last
      BY <1>3, <1>6, <1>8, <2>1, <2>2, <3>2
    <3>. QED
      BY <3>1, <3>2
  <2>4. /\ Cardinality(Movers(d)') \in Nat /\ processed'[d] \in Nat
        /\ Cardinality(Waiters(d)') \in Nat
    BY <2>3, SizesNext
  <2>5. Doubled(d)'
    <3>1. CASE x \in Waiters(d)
      <4>1. Cardinality(Waiters(d)') = Cardinality(Waiters(d)) - 1
        BY <1>3, <2>1, <3>1, OneMore
      <4>2. Copies(d)' <= Copies(d)
        BY <1>6, <2>1, <2>2, <2>3, <2>4, <4>1 DEF Copies
      <4>. QED
        BY <1>1, <1>2, <2>3, <4>2, StaysDoubled
    <3>2. CASE x \notin Waiters(d)
      <4>1. PICK g \in Handler : On(g, s, m)
        BY <1>5, <1>8, <3>2 DEF Waiters
      <4>2. faults' = faults + 1
        BY <1>2, <4>1 DEF On, Handling
      <4>3. Waiters(d)' = Waiters(d)
        BY <1>3, <3>2
      <4>4. Copies(d)' = Copies(d) + 1
        BY <1>6, <2>1, <2>2, <2>3, <2>4, <4>3 DEF Copies
      <4>5. Copies(d) \in Nat
        BY <1>1, SpentAreCopied
      <4>6. Copies(d) >= 1
        <5>1. CASE handler[g].at = "pushing"
          <6>1. g \in Movers(d)
            BY <1>8, <4>1, <5>1 DEF On, Movers
          <6>2. Cardinality(Movers(d)) >= 1
            BY <2>1, <6>1, OneMore
          <6>. QED
            BY <1>6, <2>1, <2>2, <6>2 DEF Copies
        <5>2. CASE handler[g].at # "pushing"
          <6>1. m \in Spent(s, d)
            BY <1>8, <4>1, <5>2 DEF Spent
          <6>2. IsFiniteSet(Spent(s, d)) /\ Cardinality(Spent(s, d)) \in Nat
            BY Sizes
          <6>3. Cardinality(Spent(s, d)) >= 1
            BY <6>1, <6>2, OneMore
          <6>4. Cardinality(Spent(s, d)) <= Copies(d)
            BY <1>1, SpentAreCopied
          <6>. QED
            BY <4>5, <6>2, <6>3, <6>4
        <5>. QED
          BY <5>1, <5>2
      <4>7. Copies(d)' <= 2 * Copies(d)
        BY <4>4, <4>5, <4>6
      <4>. QED
        BY <1>1, <2>3, <4>2, <4>7, StaysDoubled
    <3>. QED
      BY <3>1, <3>2
  <2>6. ASSUME NEW r \in Stage PROVE PaidFor(r, d)'
    <3>1. /\ IsFiniteSet(Spent(r, d)) /\ IsFiniteSet(Unspent(r, d))
          /\ Cardinality(Spent(r, d)) \in Nat /\ Cardinality(Unspent(r, d)) \in Nat
      BY Sizes
    <3>2. Cardinality(Spent(r, d)) <= Cardinality(Unspent(r, d)) + processed[d]
      BY <1>1 DEF Counts, PaidFor
    <3>3. CASE s # Last
      <4>1. /\ Spent(r, d)' = Spent(r, d) /\ Unspent(r, d)' = Unspent(r, d)
            /\ processed'[d] = processed[d]
        BY <1>3, <1>4, <1>6, <3>3
      <4>. QED
        BY <3>2, <4>1 DEF PaidFor
    <3>4. CASE s = Last /\ r = s
      <4>1. x \notin Unspent(r, d)
        BY <1>5, <3>4 DEF Unspent, Stage
      <4>2. Spent(r, d)' = Spent(r, d) \cup {m} /\ Unspent(r, d)' = Unspent(r, d)
        BY <1>4, <1>8, <3>4, <4>1
      <4>3. /\ Cardinality(Spent(r, d)') <= Cardinality(Spent(r, d)) + 1
            /\ Cardinality(Spent(r, d)') \in Nat
        BY <3>1, <4>2, OneMore
      <4>4. processed'[d] = processed[d] + 1
        BY <1>3, <1>8, <3>4
      <4>5. Cardinality(Spent(r, d)') <= Cardinality(Unspent(r, d)') + processed'[d]
        BY <1>6, <3>1, <3>2, <4>2, <4>3, <4>4
      <4>. QED
        BY <4>5 DEF PaidFor
    <3>5. CASE s = Last /\ r # s
      <4>1. Spent(r, d)' = Spent(r, d) /\ Unspent(r, d)' = Unspent(r, d) \ {x}
        BY <1>4, <3>5
      <4>2. /\ Cardinality(Unspent(r, d)') >= Cardinality(Unspent(r, d)) - 1
            /\ Cardinality(Unspent(r, d)') \in Nat
        <5>1. /\ Cardinality(Unspent(r, d) \ {x}) >= Cardinality(Unspent(r, d)) - 1
              /\ Cardinality(Unspent(r, d) \ {x}) \in Nat
          BY <3>1, OneMore
        <5>. QED
          BY <4>1, <5>1
      <4>3. processed'[d] = processed[d] + 1
        BY <1>3, <1>8, <3>5
      <4>4. Cardinality(Spent(r, d)') <= Cardinality(Unspent(r, d)') + processed'[d]
        BY <1>6, <3>1, <3>2, <4>1, <4>2, <4>3
      <4>. QED
        BY <4>4 DEF PaidFor
    <3>. QED
      BY <3>3, <3>4, <3>5
  <2>. QED
    BY <2>3, <2>5, <2>6 DEF Counts
<1>. QED
  BY <1>7, <1>8

-----------------------------------------------------------------------------
(* What is pushed on leaves a message behind that is spent, and makes one   *)
(* that waits for its stage.                                                *)
LEMMA CopiesPush ==
    ASSUME TypeOK, TypeOK', Placed, CInv, NEW h \in Handler, PushArrives(h),
           NEW d \in Document
    PROVE  Counts(d)'
<1>. DEFINE s == handler[h].stage
            m == handler[h].message
<1>1. /\ handler[h] \in Busy /\ handler[h] # Idle /\ handler[h].at = "pushing"
      /\ s \in Stage /\ m \in Message /\ m.document \in Document
  BY BusyFields DEF PushArrives
<1>2. s + 1 \in Stage /\ s < s + 1
  BY <1>1, StageAssumption DEF Placed, Stage
<1>3. /\ handler'[h].at = "pushed" /\ handler'[h] # Idle
      /\ handler'[h].stage = s /\ handler'[h].message = m
      /\ \A g \in Handler \ {h} : handler'[g] = handler[g]
  BY <1>1 DEF PushArrives, TypeOK, Busy, Idle
<1>4. PICK n \in FreshId(s + 1) :
          queue' = [queue EXCEPT ![s + 1] = @ \cup {[id |-> n, document |-> m.document]}]
  BY DEF PushArrives
<1>. DEFINE new == [id |-> n, document |-> m.document]
            x   == <<s + 1, new>>
<1>5. new \in Message /\ new.document = m.document /\ new.id = n
  BY <1>1 DEF FreshId, Message
<1>6. /\ new \notin queue[s + 1]
      /\ \A g \in Handler : ~ On(g, s + 1, new)
  BY <1>5 DEF FreshId, UsedIds, Handling, On
<1>7. /\ queue'[s + 1] = queue[s + 1] \cup {new}
      /\ \A r \in Stage \ {s + 1} : queue'[r] = queue[r]
      /\ faults' = faults /\ processed' = processed
  BY <1>2, <1>4 DEF PushArrives, TypeOK
<1>8. x \in Stage \X Message /\ x[1] = s + 1 /\ x[2] = new
  BY <1>2, <1>5
<1>. HIDE DEF new, x
<1>9. \A g \in Handler, r \in Stage, k \in Message : On(g, r, k)' <=> On(g, r, k)
  BY <1>1, <1>3 DEF On
<1>10. On(h, s, m) /\ \A r \in Stage, k \in Message : On(h, r, k) => r = s /\ k = m
  BY <1>1 DEF On
<1>. HIDE DEF s, m
<1>11. \A g \in Handler \ {h} : handler'[g].at = handler[g].at
  BY <1>3
<1>12. \A y \in Stage \X Message :
          y[2] \in queue'[y[1]] <=> y[2] \in queue[y[1]] \/ y = x
  BY <1>2, <1>7, <1>8
<1>13. Waiters(d)' = Waiters(d) \cup IF m.document = d THEN {x} ELSE {}
  <2>1. \A y \in Stage \X Message :
           (\A g \in Handler : ~ On(g, y[1], y[2])') <=> \A g \in Handler : ~ On(g, y[1], y[2])
    BY <1>9
  <2>. QED
    BY <1>5, <1>6, <1>8, <1>12, <2>1 DEF Waiters
<1>14. x \notin Waiters(d) /\ \A r \in Stage : x \notin Unspent(r, d)
  BY <1>6, <1>8 DEF Waiters, Unspent
<1>15. Movers(d)' = Movers(d) \ {h} /\ (h \in Movers(d) <=> m.document = d)
  BY <1>1, <1>3 DEF Movers, m
<1>16. \A r \in Stage : Spent(r, d)' \subseteq Spent(r, d)
                           \cup IF r = s /\ m.document = d THEN {m} ELSE {}
  <2>1. SUFFICES ASSUME NEW r \in Stage, NEW k \in Spent(r, d)', k \notin Spent(r, d)
                 PROVE  r = s /\ k = m /\ m.document = d
    BY <1>1
  <2>2. k \in queue'[r] /\ k.document = d
    BY <2>1 DEF Spent
  <2>3. PICK g \in Handler : On(g, r, k)' /\ handler'[g].at # "pushing"
    BY <2>1 DEF Spent
  <2>4. k \in Message
    BY <2>2 DEF TypeOK
  <2>5. On(g, r, k)
    BY <1>9, <2>3, <2>4
  <2>6. k \in queue[r]
    BY <1>2, <1>6, <1>7, <2>2, <2>5
  <2>7. g = h
    BY <1>11, <2>1, <2>2, <2>3, <2>5, <2>6 DEF Spent
  <2>. QED
    BY <1>10, <2>2, <2>4, <2>5, <2>7
<1>17. \A r \in Stage : Unspent(r, d)' = (Unspent(r, d) \ {<<s, m>>})
                           \cup IF r <= s /\ m.document = d THEN {x} ELSE {}
  <2>1. \A y \in Stage \X Message :
           (\A g \in Handler : On(g, y[1], y[2])' => handler'[g].at = "pushing")
           <=> /\ \A g \in Handler : On(g, y[1], y[2]) => handler[g].at = "pushing"
               /\ y # <<s, m>>
    BY <1>3, <1>9, <1>10, <1>11
  <2>2. \A r \in Stage : x[1] > r <=> r <= s
    BY <1>1, <1>8 DEF Stage
  <2>3. x # <<s, m>>
    BY <1>1, <1>8 DEF Stage
  <2>. QED
    BY <1>5, <1>6, <1>8, <1>12, <2>1, <2>2, <2>3 DEF Unspent
<1>18. Counts(d) /\ IsFiniteSet(Movers(d)) /\ IsFiniteSet(Waiters(d))
  BY Sizes DEF CInv, Counts
<1>19. \A r \in Stage : <<s, m>> \in Unspent(r, d) => r < s /\ m.document = d
  BY <1>1 DEF Unspent, Stage
<1>20. CASE m.document # d
  <2>1. /\ Waiters(d)' \subseteq Waiters(d) /\ Movers(d)' \subseteq Movers(d)
        /\ processed'[d] = processed[d] /\ faults' \in {faults, faults + 1}
    BY <1>7, <1>13, <1>15, <1>20
  <2>2. \A r \in Stage : /\ Spent(r, d)' \subseteq Spent(r, d)
                         /\ Unspent(r, d) \subseteq Unspent(r, d)'
    BY <1>16, <1>17, <1>19, <1>20
  <2>. QED
    BY <1>18, <2>1, <2>2, Quiet
<1>21. CASE m.document = d
  <2>1. Cardinality(Waiters(d)') = Cardinality(Waiters(d)) + 1
    <3>1. Cardinality(Waiters(d) \cup {x}) = Cardinality(Waiters(d)) + 1
      BY <1>14, <1>18, OneMore
    <3>. QED
      BY <1>13, <1>21, <3>1
  <2>2. /\ IsFiniteSet(Movers(d)')
        /\ Cardinality(Movers(d)') = Cardinality(Movers(d)) - 1
        /\ Cardinality(Movers(d)) \in Nat /\ Cardinality(Movers(d)) >= 1
    <3>1. IsFiniteSet(Movers(d) \ {h})
      BY <1>18, SubsetBound
    <3>2. Cardinality(Movers(d) \ {h}) = Cardinality(Movers(d)) - 1
      BY <1>15, <1>18, <1>21, OneMore
    <3>3. Cardinality(Movers(d)) \in Nat /\ Cardinality(Movers(d)) >= 1
      BY <1>15, <1>18, <1>21, OneMore
    <3>. QED
      BY <1>15, <3>1, <3>2, <3>3
  <2>3. Copies(d)' <= Copies(d)
    BY <1>7, <2>1, <2>2, Sizes DEF Copies
  <2>4. Doubled(d)'
    BY <1>7, <1>18, <2>2, <2>3, StaysDoubled
  <2>5. ASSUME NEW r \in Stage PROVE PaidFor(r, d)'
    <3>. DEFINE U == Unspent(r, d) \ {<<s, m>>}
    <3>1. /\ IsFiniteSet(Spent(r, d)) /\ IsFiniteSet(Unspent(r, d))
          /\ Cardinality(Spent(r, d)) \in Nat /\ Cardinality(Unspent(r, d)) \in Nat
          /\ Cardinality(Spent(r, d)') \in Nat
      BY Sizes, SizesNext
    <3>2. Cardinality(Spent(r, d)) <= Cardinality(Unspent(r, d)) + processed[d]
      BY <1>18 DEF Counts, PaidFor
    <3>3. processed'[d] = processed[d] /\ processed[d] \in Nat
      BY <1>7 DEF TypeOK
    <3>4. CASE r > s
      <4>1. Unspent(r, d)' = Unspent(r, d)
        BY <1>1, <1>17, <1>19, <3>4 DEF Stage
      <4>2. Spent(r, d)' \subseteq Spent(r, d)
        BY <1>1, <1>16, <3>4 DEF Stage
      <4>3. Cardinality(Spent(r, d)') <= Cardinality(Spent(r, d))
        BY <3>1, <4>2, SubsetBound
      <4>4. Cardinality(Spent(r, d)') <= Cardinality(Unspent(r, d)') + processed'[d]
        BY <3>1, <3>2, <3>3, <4>1, <4>3
      <4>. QED
        BY <4>4 DEF PaidFor
    <3>5. CASE r = s
      <4>1. Unspent(r, d)' = Unspent(r, d) \cup {x}
        BY <1>1, <1>17, <1>19, <1>21, <3>5 DEF Stage
      <4>2. /\ Cardinality(Unspent(r, d) \cup {x}) = Cardinality(Unspent(r, d)) + 1
            /\ Cardinality(Spent(r, d) \cup {m}) <= Cardinality(Spent(r, d)) + 1
            /\ Cardinality(Spent(r, d) \cup {m}) \in Nat
            /\ IsFiniteSet(Spent(r, d) \cup {m})
        BY <1>14, <3>1, OneMore
      <4>3. Spent(r, d)' \subseteq Spent(r, d) \cup {m}
        BY <1>16, <1>21, <3>5
      <4>4. Cardinality(Spent(r, d)') <= Cardinality(Spent(r, d) \cup {m})
        BY <4>2, <4>3, SubsetBound
      <4>5. Cardinality(Spent(r, d)') <= Cardinality(Unspent(r, d)') + processed'[d]
        BY <3>1, <3>2, <3>3, <4>1, <4>2, <4>4
      <4>. QED
        BY <4>5 DEF PaidFor
    <3>6. CASE r < s
      <4>1. Unspent(r, d)' = U \cup {x} /\ x \notin U
        BY <1>1, <1>14, <1>17, <1>21, <3>6 DEF Stage
      <4>2. Spent(r, d)' \subseteq Spent(r, d)
        BY <1>1, <1>16, <3>6 DEF Stage
      <4>3. Cardinality(Spent(r, d)') <= Cardinality(Spent(r, d))
        BY <3>1, <4>2, SubsetBound
      <4>4. /\ IsFiniteSet(U) /\ Cardinality(U) \in Nat
            /\ Cardinality(U) >= Cardinality(Unspent(r, d)) - 1
        BY <3>1, OneMore
      <4>. HIDE DEF U
      <4>5. Cardinality(U \cup {x}) = Cardinality(U) + 1
        BY <4>1, <4>4, OneMore
      <4>6. Cardinality(Spent(r, d)') <= Cardinality(Unspent(r, d)') + processed'[d]
        BY <3>1, <3>2, <3>3, <4>1, <4>3, <4>4, <4>5
      <4>. QED
        BY <4>6 DEF PaidFor
    <3>. QED
      BY <1>1, <3>4, <3>5, <3>6 DEF Stage
  <2>. QED
    BY <2>2, <2>4, <2>5 DEF Counts
<1>. QED
  BY <1>20, <1>21

-----------------------------------------------------------------------------
(* An acknowledged message was spent; the end of an update leaves nothing.  *)
LEMMA CopiesAnswered ==
    ASSUME TypeOK, TypeOK', Placed, CInv, NEW h \in Handler,
           PushSucceeded(h) \/ AckArrives(h), NEW d \in Document
    PROVE  Counts(d)'
<1>. DEFINE s == handler[h].stage
            m == handler[h].message
<1>1. /\ handler[h] \in Busy /\ handler[h] # Idle /\ handler[h].at # "pushing"
      /\ s \in Stage /\ m \in Message
  BY BusyFields DEF PushSucceeded, AckArrives
<1>2. /\ \A g \in Handler \ {h} : handler'[g] = handler[g]
      /\ \/ handler'[h] = Idle
         \/ /\ handler'[h] # Idle /\ handler'[h].at = "acking"
            /\ handler'[h].stage = s /\ handler'[h].message = m
  BY <1>1 DEF PushSucceeded, AckArrives, TypeOK, Busy, Idle
<1>3. /\ queue'[s] \in {queue[s], queue[s] \ {m}}
      /\ \A r \in Stage \ {s} : queue'[r] = queue[r]
      /\ handler'[h] = Idle => m \notin queue'[s]
      /\ faults' = faults /\ processed' = processed
  <2>1. CASE AckArrives(h)
    <3>1. queue'[s] = queue[s] \ {m} /\ \A r \in Stage \ {s} : queue'[r] = queue[r]
      BY <1>1, <2>1 DEF AckArrives, TypeOK
    <3>2. faults' = faults /\ processed' = processed
      BY <2>1 DEF AckArrives
    <3>. QED
      BY <3>1, <3>2
  <2>2. CASE PushSucceeded(h) /\ handler[h].kind = "update"
    <3>1. s = 1 /\ queue' = queue /\ faults' = faults /\ processed' = processed
      BY <1>1, <2>2 DEF PushSucceeded, Placed
    <3>2. queue[s] = {}
      BY <3>1 DEF CInv, FirstEmpty
    <3>. QED
      BY <3>1, <3>2
  <2>3. CASE PushSucceeded(h) /\ handler[h].kind # "update"
    <3>1. queue' = queue /\ faults' = faults /\ processed' = processed
      BY <2>3 DEF PushSucceeded
    <3>2. handler'[h].at = "acking"
      BY <1>1, <2>3 DEF PushSucceeded, TypeOK, Busy
    <3>. QED
      BY <3>1, <3>2 DEF Idle
  <2>. QED
    BY <2>1, <2>2, <2>3
<1>4. \A r \in Stage, k \in Message : On(h, r, k) <=> r = s /\ k = m
  BY <1>1 DEF On
<1>. HIDE DEF s, m
<1>5. \A r \in Stage, k \in Message : k \in queue'[r] =>
          /\ k \in queue[r]
          /\ \A g \in Handler : /\ On(g, r, k)' <=> On(g, r, k)
                                /\ On(g, r, k) => (handler'[g].at = "pushing"
                                                   <=> handler[g].at = "pushing")
  BY <1>1, <1>2, <1>3, <1>4 DEF On
<1>6. Waiters(d)' \subseteq Waiters(d)
  BY <1>5 DEF Waiters
<1>7. Movers(d)' \subseteq Movers(d)
  BY <1>1, <1>2 DEF Movers
<1>8. ASSUME NEW r \in Stage
      PROVE  Spent(r, d)' \subseteq Spent(r, d) /\ Unspent(r, d) \subseteq Unspent(r, d)'
  <2>1. \A k \in queue'[r] : k \in Message
    BY DEF TypeOK
  <2>2. Spent(r, d)' \subseteq Spent(r, d)
    BY <1>5, <2>1 DEF Spent
  <2>3. \A x \in Unspent(r, d) : x # <<s, m>>
    BY <1>1, <1>4 DEF Unspent
  <2>4. \A x \in Unspent(r, d) : x[2] \in queue'[x[1]]
    BY <1>3, <2>3 DEF Unspent
  <2>5. Unspent(r, d) \subseteq Unspent(r, d)'
    BY <1>5, <2>4 DEF Unspent
  <2>. QED
    BY <2>2, <2>5
<1>. QED
  BY <1>3, <1>6, <1>7, <1>8, Quiet DEF CInv

(* Requests of one stage end by a fault: what they had spent, or had to     *)
(* push on, waits again.                                                    *)
LEMMA CopiesDropped ==
    ASSUME TypeOK, TypeOK', CInv, NEW s \in Stage, NEW S \in SUBSET Handling(s),
           handler' = [h \in Handler |-> IF h \in S THEN Idle ELSE handler[h]],
           queue' = queue, processed' = processed, faults' = faults + 1,
           NEW d \in Document
    PROVE  Counts(d)'
<1>1. /\ Counts(d) /\ IsFiniteSet(Movers(d)) /\ IsFiniteSet(Waiters(d))
      /\ Cardinality(Movers(d)) \in Nat /\ Cardinality(Waiters(d)) \in Nat
  BY Sizes DEF CInv, Counts
<1>2. /\ S \subseteq Handler
      /\ \A h \in S : handler[h] # Idle /\ handler[h].stage = s /\ handler'[h] = Idle
      /\ \A h \in Handler \ S : handler'[h] = handler[h]
  BY DEF Handling
<1>3. \A h \in Handler, r \in Stage, k \in Message :
          On(h, r, k)' <=> On(h, r, k) /\ h \notin S
  BY <1>2 DEF On
<1>. DEFINE K == Movers(d) \cap S
            f == [h \in K |-> <<s, handler[h].message>>]
            R == {f[h] : h \in K}
            g == [k \in Spent(s, d) |-> <<s, k>>]
            Q == {g[k] : k \in Spent(s, d)}
<1>4. Movers(d)' = Movers(d) \ S
  BY <1>2 DEF Movers
<1>5. /\ IsFiniteSet(Movers(d)') /\ Cardinality(Movers(d)') \in Nat
      /\ IsFiniteSet(K) /\ Cardinality(K) \in Nat
      /\ Cardinality(Movers(d)') = Cardinality(Movers(d)) - Cardinality(K)
  BY <1>1, <1>4, FS_Difference, SubsetBound, FS_CardinalityType
<1>6. IsFiniteSet(R) /\ Cardinality(R) \in Nat /\ Cardinality(R) <= Cardinality(K)
  <2>1. \A h \in K : handler[h].message \in Message
    BY <1>2, BusyFields, IdleIsIdle
  <2>2. f \in [K -> Stage \X Message]
    BY <2>1
  <2>. HIDE DEF f, K
  <2>. QED
    BY <1>5, <2>2, ImageBound
<1>7. /\ IsFiniteSet(Q) /\ Cardinality(Q) \in Nat
      /\ Cardinality(Q) <= Cardinality(Spent(s, d))
  <2>1. IsFiniteSet(Spent(s, d))
    BY Sizes
  <2>2. g \in [Spent(s, d) -> Stage \X Message]
    BY DEF Spent, TypeOK
  <2>. HIDE DEF g
  <2>. QED
    BY <2>1, <2>2, ImageBound
<1>8. Waiters(d)' \subseteq (Waiters(d) \cup R) \cup Q
  <2>1. SUFFICES ASSUME NEW x \in Waiters(d)', x \notin Waiters(d) PROVE x \in R \cup Q
    OBVIOUS
  <2>2. /\ x \in Stage \X Message /\ x[2].document = d /\ x[2] \in queue[x[1]]
        /\ \A h \in Handler : On(h, x[1], x[2]) => h \in S
    BY <1>3, <2>1 DEF Waiters
  <2>3. PICK h \in Handler : On(h, x[1], x[2])
    BY <2>1, <2>2 DEF Waiters
  <2>4. h \in S /\ x[1] = s /\ handler[h].message = x[2] /\ x = <<s, x[2]>>
    BY <1>2, <2>2, <2>3 DEF On
  <2>5. CASE handler[h].at = "pushing"
    <3>1. h \in K
      BY <2>2, <2>3, <2>4, <2>5 DEF Movers, On
    <3>2. f[h] = x
      BY <2>4, <3>1
    <3>. HIDE DEF f, K
    <3>. QED
      BY <3>1, <3>2
  <2>6. CASE handler[h].at # "pushing"
    <3>1. x[2] \in Spent(s, d)
      BY <2>2, <2>3, <2>4, <2>6 DEF Spent
    <3>2. g[x[2]] = x
      BY <2>4, <3>1
    <3>. HIDE DEF g
    <3>. QED
      BY <3>1, <3>2
  <2>. QED
    BY <2>5, <2>6
<1>. HIDE DEF K, f, R, g, Q
<1>9. Cardinality(Waiters(d)') <=
          Cardinality(Waiters(d)) + Cardinality(K) + Cardinality(Spent(s, d))
  <2>1. /\ IsFiniteSet(Waiters(d) \cup R) /\ Cardinality(Waiters(d) \cup R) \in Nat
        /\ Cardinality(Waiters(d) \cup R) <= Cardinality(Waiters(d)) + Cardinality(R)
    BY <1>1, <1>6, UnionBound
  <2>2. /\ IsFiniteSet((Waiters(d) \cup R) \cup Q)
        /\ Cardinality((Waiters(d) \cup R) \cup Q) \in Nat
        /\ Cardinality((Waiters(d) \cup R) \cup Q)
              <= Cardinality(Waiters(d) \cup R) + Cardinality(Q)
    BY <1>7, <2>1, UnionBound
  <2>3. Cardinality(Waiters(d)') <= Cardinality((Waiters(d) \cup R) \cup Q)
    BY <1>8, <2>2, SubsetBound
  <2>4. Cardinality(Spent(s, d)) \in Nat /\ Cardinality(Waiters(d)') \in Nat
    BY Sizes, SizesNext
  <2>. QED
    BY <1>1, <1>5, <1>6, <1>7, <2>1, <2>2, <2>3, <2>4
<1>10. Cardinality(Spent(s, d)) <= Copies(d) /\ Copies(d) \in Nat
  BY <1>1, SpentAreCopied
<1>11. Copies(d)' <= 2 * Copies(d)
  <2>1. /\ Cardinality(Spent(s, d)) \in Nat /\ Cardinality(Waiters(d)') \in Nat
        /\ processed[d] \in Nat /\ processed'[d] = processed[d]
    BY Sizes, SizesNext
  <2>2. Copies(d)' <= Copies(d) + Cardinality(Spent(s, d))
    BY <1>1, <1>5, <1>9, <2>1 DEF Copies
  <2>3. Copies(d)' \in Nat
    BY <1>5, <2>1 DEF Copies
  <2>. QED
    BY <1>10, <2>1, <2>2, <2>3
<1>12. Doubled(d)'
  BY <1>1, <1>5, <1>11, StaysDoubled
<1>13. ASSUME NEW r \in Stage PROVE PaidFor(r, d)'
  <2>1. Spent(r, d)' \subseteq Spent(r, d)
    <3>1. \A k \in queue[r] : k \in Message
      BY DEF TypeOK
    <3>. QED
      BY <1>2, <1>3, <3>1 DEF Spent
  <2>2. Unspent(r, d) \subseteq Unspent(r, d)'
    BY <1>2, <1>3 DEF Unspent
  <2>3. Cardinality(Spent(r, d)') <= Cardinality(Spent(r, d))
    BY <2>1, Sizes, SubsetBound
  <2>4. Cardinality(Unspent(r, d)) <= Cardinality(Unspent(r, d)')
    BY <2>2, SizesNext, SubsetBound
  <2>5. Cardinality(Spent(r, d)) <= Cardinality(Unspent(r, d)) + processed[d]
    BY <1>1 DEF Counts, PaidFor
  <2>6. Cardinality(Spent(r, d)') <= Cardinality(Unspent(r, d)') + processed'[d]
    BY <2>3, <2>4, <2>5, Sizes, SizesNext
  <2>. QED
    BY <2>6 DEF PaidFor
<1>. QED
  BY <1>5, <1>12, <1>13 DEF Counts

LEMMA CopiesStep ==
    ASSUME TypeOK, TypeOK', Placed, Known, CInv, [Next]_vars
    PROVE  CInv'
<1>1. ASSUME NEW d \in Document, UpdateRefused(d) \/ UNCHANGED vars
      PROVE  CInv'
  <2>1. /\ queue' = queue /\ handler' = handler
        /\ processed' = processed /\ faults' = faults
    BY <1>1 DEF UpdateRefused, vars
  <2>2. FirstEmpty'
    BY <2>1 DEF CInv, FirstEmpty
  <2>3. ASSUME NEW e \in Document PROVE Counts(e)'
    <3>1. /\ Waiters(e)' = Waiters(e) /\ Movers(e)' = Movers(e)
          /\ \A s \in Stage : Spent(s, e)' = Spent(s, e) /\ Unspent(s, e)' = Unspent(s, e)
      BY <2>1 DEF Waiters, Movers, Spent, Unspent, On
    <3>. QED
      BY <2>1, <3>1, Quiet DEF CInv
  <2>. QED
    BY <2>2, <2>3 DEF CInv
<1>2. ASSUME NEW h \in Handler, NEW d \in Document, Update(h, d) \/ Enqueue(h, d)
      PROVE  CInv'
  <2>1. FirstEmpty'
    BY <1>2 DEF Update, Enqueue, CInv, FirstEmpty
  <2>. QED
    BY <1>2, <2>1, CopiesHandIn DEF CInv
<1>3. ASSUME NEW h \in Handler, NEW s \in Stage, NEW m \in queue[s], Deliver(h, s, m)
      PROVE  CInv'
  <2>1. FirstEmpty'
    BY <1>3 DEF Deliver, CInv, FirstEmpty
  <2>. QED
    BY <1>3, <2>1, CopiesDeliver DEF CInv
<1>4. ASSUME NEW h \in Handler, PushArrives(h) PROVE CInv'
  <2>1. handler[h].stage + 1 # 1 /\ handler[h].stage \in Stage
    BY <1>4, BusyFields DEF PushArrives, Stage
  <2>2. queue'[1] = queue[1]
    BY <1>4, <2>1, StageAssumption DEF PushArrives, TypeOK, Stage
  <2>. QED
    BY <1>4, <2>2, CopiesPush DEF CInv, FirstEmpty
<1>5. ASSUME NEW h \in Handler, PushSucceeded(h) \/ AckArrives(h) PROVE CInv'
  <2>1. queue'[1] \subseteq queue[1]
    BY <1>5, StageAssumption DEF PushSucceeded, AckArrives, TypeOK, Stage
  <2>. QED
    BY <1>5, <2>1, CopiesAnswered DEF CInv, FirstEmpty
<1>6. ASSUME NEW s \in Stage, NEW S \in SUBSET Handling(s),
             handler' = [h \in Handler |-> IF h \in S THEN Idle ELSE handler[h]],
             queue' = queue, processed' = processed, faults' = faults + 1
      PROVE  CInv'
  <2>1. FirstEmpty'
    BY <1>6 DEF CInv, FirstEmpty
  <2>. QED
    BY <1>6, <2>1, CopiesDropped DEF CInv
<1>7. ASSUME NEW h \in Handler, PushFailed(h) \/ AckFailed(h) PROVE CInv'
  <2>1. handler[h] # Idle /\ handler[h].stage \in Stage
    BY <1>7, BusyFields DEF PushFailed, AckFailed
  <2>2. {h} \in SUBSET Handling(handler[h].stage)
    BY <2>1 DEF Handling
  <2>3. handler' = [g \in Handler |-> IF g \in {h} THEN Idle ELSE handler[g]]
    BY <1>7 DEF PushFailed, AckFailed, TypeOK
  <2>4. queue' = queue /\ processed' = processed /\ faults' = faults + 1
    BY <1>7 DEF PushFailed, AckFailed, Fault
  <2>. QED
    BY <1>6, <2>1, <2>2, <2>3, <2>4
<1>8. ASSUME NEW S \in SUBSET Handler, Die(S) PROVE CInv'
  BY <1>6, <1>8 DEF Die, Fault
<1>9. CASE UNCHANGED vars
  <2>1. CASE Document = {}
    BY <1>9, <2>1 DEF CInv, FirstEmpty, vars
  <2>2. CASE Document # {}
    BY <1>1, <1>9, <2>2
  <2>. QED
    BY <2>1, <2>2
<1>. QED
  BY <1>1, <1>2, <1>3, <1>4, <1>5, <1>7, <1>8, <1>9 DEF Next, HandIn, Answer

LEMMA CopiesInit == Init => CInv
<1> SUFFICES ASSUME Init PROVE CInv
  OBVIOUS
<1>1. FirstEmpty
  BY StageAssumption DEF Init, FirstEmpty, Stage
<1>2. ASSUME NEW d \in Document PROVE Counts(d)
  <2>1. /\ Waiters(d) = {} /\ Movers(d) = {}
        /\ \A s \in Stage : Spent(s, d) = {} /\ Unspent(s, d) = {}
    BY DEF Init, Waiters, Movers, Spent, Unspent
  <2>2. processed[d] = 0 /\ faults = 0
    BY DEF Init
  <2>3. IsFiniteSet({}) /\ Cardinality({}) = 0
    BY FS_EmptySet
  <2>4. 2 ^ 0 >= 1 /\ 2 ^ 0 \in Nat
    BY PowerCounts
  <2>5. Copies(d) = 0
    BY <2>1, <2>2, <2>3 DEF Copies
  <2>6. 2 ^ faults = 2 ^ 0
    BY <2>2
  <2>7. Doubled(d)
    BY <2>4, <2>5, <2>6 DEF Doubled
  <2>8. \A s \in Stage : PaidFor(s, d)
    BY <2>1, <2>2, <2>3 DEF PaidFor
  <2>. QED
    BY <2>1, <2>3, <2>7, <2>8 DEF Counts
<1>. QED
  BY <1>1, <1>2 DEF CInv

(* Each fault at most doubles how often a document is processed, for any    *)
(* number of stages, workers and faults.                                    *)
THEOREM CopiesAlwaysBounded == Spec => []BoundedCopies
<1>1. Init => IInv /\ CInv
  BY Induction, CopiesInit
<1>2. IInv /\ CInv /\ [Next]_vars => IInv' /\ CInv'
  <2>. SUFFICES ASSUME IInv, CInv, [Next]_vars PROVE IInv' /\ CInv'
    OBVIOUS
  <2>1. IInv'
    BY Induction
  <2>2. TypeOK /\ TypeOK' /\ Placed /\ Known
    BY <2>1 DEF IInv
  <2>3. CInv'
    BY <2>2, CopiesStep
  <2>. QED
    BY <2>1, <2>3
<1>3. IInv /\ CInv => BoundedCopies
  <2>. SUFFICES ASSUME IInv, CInv, NEW d \in Document PROVE processed[d] <= 2 ^ faults
    BY DEF BoundedCopies
  <2>1. TypeOK /\ Counts(d)
    BY DEF IInv, CInv
  <2>2. faults \in Nat
    BY <2>1, BoundAssumption DEF TypeOK
  <2>3. 2 ^ faults \in Nat
    BY <2>2, PowerCounts
  <2>4. IsFiniteSet(Movers(d)) /\ Copies(d) <= 2 ^ faults
    BY <2>1 DEF Counts, Doubled
  <2>. QED
    BY <2>1, <2>3, <2>4, Sizes DEF Copies
<1>. QED
  BY <1>1, <1>2, <1>3, PTL DEF Spec
=============================================================================
