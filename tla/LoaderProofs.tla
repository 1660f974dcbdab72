---------------------------- MODULE LoaderProofs ----------------------------
(***************************************************************************)
(* The similarity loader proved for any number of readers, documents and   *)
(* texts and for any limit on what is outstanding: the counter that lets a *)
(* reader go, what has been answered when the learn elements are written,  *)
(* what the merged word counts say, and how much may be outstanding.       *)
(***************************************************************************)
EXTENDS Loader, FiniteSetTheorems, TLAPS

-----------------------------------------------------------------------------
(* Readers take every Step-th document: facts about division.               *)
LEMMA Division ==
    ASSUME NEW n \in Nat, NEW s \in Nat \ {0}
    PROVE  /\ n = s * (n \div s) + (n % s)
           /\ n \div s \in Nat /\ n % s \in 0 .. s - 1
  OBVIOUS

LEMMA OneMore ==
    ASSUME NEW q \in Int, NEW p \in Int, NEW s \in Nat \ {0}, q > p
    PROVE  s * q >= s * p + s
  OBVIOUS

LEMMA DivisionUnique ==
    ASSUME NEW s \in Nat \ {0}, NEW q \in Int, NEW p \in Int,
           NEW a \in 0 .. s - 1, NEW b \in 0 .. s - 1, s * q + a = s * p + b
    PROVE  q = p /\ a = b
<1>1. CASE q > p
  BY <1>1, OneMore
<1>2. CASE p > q
  BY <1>2, OneMore
<1>3. CASE q = p
  BY <1>3
<1> QED
  BY <1>1, <1>2, <1>3

LEMMA SameReader ==
    ASSUME NEW n \in Nat, NEW s \in Nat \ {0}
    PROVE  (n + s) % s = n % s
<1>1. /\ n \div s + 1 \in Int /\ (n + s) \div s \in Int
      /\ n % s \in 0 .. s - 1 /\ (n + s) % s \in 0 .. s - 1
  BY Division
<1>2. s * (n \div s + 1) = s * (n \div s) + s
  BY <1>1
<1>3. s * (n \div s + 1) + (n % s) = s * ((n + s) \div s) + ((n + s) % s)
  BY <1>2, Division
<1> QED
  BY <1>1, <1>3, DivisionUnique

LEMMA NextOfReader ==
    ASSUME NEW n \in Nat, NEW m \in Nat, NEW s \in Nat \ {0}, n % s = m % s, n < m
    PROVE  n + s <= m
<1>1. n \div s \in Int /\ m \div s \in Int /\ m % s \in 0 .. s - 1
  BY Division
<1>2. n = s * (n \div s) + (n % s) /\ m = s * (m \div s) + (m % s)
  BY Division
<1>3. CASE m \div s > n \div s
  BY <1>1, <1>2, <1>3, OneMore
<1>4. CASE n \div s > m \div s
  BY <1>1, <1>2, <1>4, OneMore
<1>5. CASE n \div s = m \div s
  BY <1>1, <1>2, <1>5
<1> QED
  BY <1>1, <1>3, <1>4, <1>5

LEMMA ReaderOfDoc ==
    ASSUME NEW d \in Doc
    PROVE  ReaderOf(d) \in Reader
  BY StepAssumption, Division DEF Doc, Reader, ReaderOf

LEMMA DocSet ==
    ASSUME NEW S \in SUBSET Doc
    PROVE  IsFiniteSet(S) /\ Cardinality(S) \in 0 .. DocCount
<1>1. IsFiniteSet(Doc) /\ Cardinality(Doc) = DocCount
  BY StepAssumption, FS_Interval DEF Doc
<1>2. IsFiniteSet(S) /\ Cardinality(S) <= Cardinality(Doc)
  BY <1>1, FS_Subset
<1> QED
  BY <1>1, <1>2, FS_CardinalityType

-----------------------------------------------------------------------------
(* The documents of r whose answers are still to come, and whether r has    *)
(* begun a write that it has not counted.                                   *)
Outstanding(r) == {d \in Doc : ReaderOf(d) = r /\ call[d] \in {"writing", "indexing"}}
Uncounted(r) == IF pc[r] = "sent" THEN 1 ELSE 0

(* The counter is what is outstanding; it is one too low while a write that *)
(* has begun is not counted.                                                *)
PendingCounts ==
    \A r \in Reader : pending[r] + Uncounted(r) = Cardinality(Outstanding(r))

(* A reader has seen the documents before its next one, and those only.     *)
InOrder ==
    \A r \in Reader :
        /\ next[r] % Step = r
        /\ \A d \in Doc : ReaderOf(d) = r => (call[d] # "none" <=> d < next[r])
SkipsUnreadable == \A d \in Readable : call[d] # "skipped"

(* A reader ends after its last document, with nothing outstanding, and the *)
(* main thread waits for each.                                              *)
Leaving == {"draining", "busy", "busyAsleep", "ended"}
EndsDrained ==
    \A r \in Reader : /\ pc[r] \in Leaving => next[r] \notin Doc
                      /\ pc[r] = "ended" => pending[r] = 0
JoinsEnded ==
    /\ \A r \in Reader : r < joined => pc[r] = "ended"
    /\ saved => joined = Step

(* TypeOK with a counter that may have any value.                           *)
Types ==
    /\ pc \in [Reader -> {"reading", "sent", "counted", "full", "fullAsleep",
                          "draining", "busy", "busyAsleep", "ended"}]
    /\ next \in [Reader -> Nat]
    /\ df \in [Reader -> [Word -> Nat]]
    /\ pending \in [Reader -> Int]
    /\ call \in [Doc -> {"none", "skipped", "writing", "indexing", "counted",
                         "notifying", "done"}]
    /\ joined \in 0 .. Step /\ total \in [Word -> Nat] /\ saved \in BOOLEAN
    /\ missed \subseteq Reader /\ early \in [Reader -> Nat]

LInv == Types /\ PendingCounts /\ InOrder /\ SkipsUnreadable /\ EndsDrained /\ JoinsEnded

LEMMA BoundedCounter == Types /\ PendingCounts => TypeOK
<1> SUFFICES ASSUME Types, PendingCounts, NEW r \in Reader
             PROVE  pending[r] \in -1 .. DocCount
  BY DEF Types, TypeOK
<1>1. Cardinality(Outstanding(r)) \in 0 .. DocCount
  BY DocSet DEF Outstanding
<1>2. pending[r] \in Int /\ Uncounted(r) \in {0, 1}
  BY DEF Types, Uncounted
<1> QED
  BY <1>1, <1>2, StepAssumption DEF PendingCounts

LEMMA InvInit == Init => LInv
<1> SUFFICES ASSUME Init PROVE LInv
  OBVIOUS
<1>1. Types
  <2>1. Reader \subseteq Nat /\ 0 \in 0 .. Step
    BY StepAssumption DEF Reader
  <2>2. NoWords \in [Word -> Nat]
    BY DEF NoWords
  <2>3. next \in [Reader -> Nat]
    BY <2>1 DEF Init
  <2>4. df \in [Reader -> [Word -> Nat]] /\ total \in [Word -> Nat]
    BY <2>2 DEF Init
  <2>5. pending \in [Reader -> Int] /\ early \in [Reader -> Nat]
    BY DEF Init
  <2> QED
    BY <2>1, <2>3, <2>4, <2>5 DEF Init, Types
<1>2. PendingCounts
  <2> SUFFICES ASSUME NEW r \in Reader
               PROVE  pending[r] + Uncounted(r) = Cardinality(Outstanding(r))
    BY DEF PendingCounts
  <2>1. Outstanding(r) = {}
    BY DEF Init, Outstanding
  <2>2. pending[r] = 0 /\ Uncounted(r) = 0
    BY DEF Init, Uncounted
  <2>3. Cardinality(Outstanding(r)) = 0
    BY <2>1, FS_EmptySet
  <2> QED
    BY <2>2, <2>3
<1>3. InOrder
  <2> SUFFICES ASSUME NEW r \in Reader
               PROVE  /\ r % Step = r
                      /\ \A d \in Doc : ReaderOf(d) = r => ~ (d < r)
    BY DEF Init, InOrder
  <2>1. r % Step = r
    BY StepAssumption DEF Reader
  <2>2. ASSUME NEW d \in Doc, ReaderOf(d) = r, d < r PROVE FALSE
    <3>1. d % Step = d
      BY <2>2, StepAssumption DEF Doc, Reader
    <3> QED
      BY <2>2, <3>1 DEF ReaderOf, Doc, Reader
  <2> QED
    BY <2>1, <2>2
<1>4. SkipsUnreadable
  BY TextAssumption DEF Init, SkipsUnreadable
<1>5. EndsDrained
  BY DEF Init, EndsDrained, Leaving
<1>6. JoinsEnded
  BY DEF Init, JoinsEnded, Reader
<1> QED
  BY <1>1, <1>2, <1>3, <1>4, <1>5, <1>6 DEF LInv

-----------------------------------------------------------------------------
LEMMA TypesReader ==
    ASSUME Types, NEW r \in Reader, ReaderStep(r) \/ SpuriousWakeUp(r)
    PROVE  Types'
<1> USE DEF mainVars, ghosts
<1>1. CASE Skip(r)
  <2>1. next' \in [Reader -> Nat]
    BY <1>1, StepAssumption DEF Skip, Advance, Types
  <2>2. call' \in [Doc -> {"none", "skipped", "writing", "indexing", "counted",
                           "notifying", "done"}]
    BY <1>1 DEF Skip, Types
  <2> QED
    BY <1>1, <2>1, <2>2 DEF Skip, Types
<1>2. CASE Send(r)
  <2>1. next' \in [Reader -> Nat]
    BY <1>2, StepAssumption DEF Send, Advance, Types
  <2>2. call' \in [Doc -> {"none", "skipped", "writing", "indexing", "counted",
                           "notifying", "done"}]
    BY <1>2 DEF Send, Types
  <2>3. UpdateTfidf(df[r], TextOf[next[r]]) \in [Word -> Nat]
    BY DEF UpdateTfidf, Types
  <2>4. df' \in [Reader -> [Word -> Nat]]
    BY <1>2, <2>3 DEF Send, Types
  <2> QED
    BY <1>2, <2>1, <2>2, <2>4 DEF Send, Goto, Types
<1>3. CASE Count(r)
  BY <1>3 DEF Count, Goto, Types
<1>4. CASE Throttle(r) \/ Read(r) \/ Drain(r) \/ Sleep(r)
  BY <1>4 DEF Throttle, Read, Drain, Sleep, Goto, Types
<1>5. CASE SpuriousWakeUp(r)
  <2>1. pc' \in [Reader -> {"reading", "sent", "counted", "full", "fullAsleep",
                            "draining", "busy", "busyAsleep", "ended"}]
    BY <1>5 DEF SpuriousWakeUp, Wake, Goto, Types
  <2>2. early' \in [Reader -> Nat]
    BY <1>5 DEF SpuriousWakeUp, Wake, Types
  <2> QED
    BY <1>5, <2>1, <2>2 DEF SpuriousWakeUp, Types
<1> QED
  BY <1>1, <1>2, <1>3, <1>4, <1>5 DEF ReaderStep

LEMMA TypesCallback ==
    ASSUME Types, NEW d \in Doc, Callback(d)
    PROVE  Types'
<1> USE DEF readerVars, mainVars, ghosts
<1>1. CASE WriteAnswered(d)
  BY <1>1 DEF WriteAnswered, Types
<1>2. CASE IndexAnswered(d)
  <2>1. PICK r \in Reader : r = ReaderOf(d)
    BY ReaderOfDoc
  <2>2. pending' \in [Reader -> Int]
    BY <1>2, <2>1 DEF IndexAnswered, Types
  <2> QED
    BY <1>2, <2>2 DEF IndexAnswered, Types
<1>3. CASE TestPending(d)
  BY <1>3 DEF TestPending, Types
<1>4. CASE Notify(d)
  <2>1. call' \in [Doc -> {"none", "skipped", "writing", "indexing", "counted",
                           "notifying", "done"}]
    BY <1>4 DEF Notify, Types
  <2>2. PICK r \in Reader : r = ReaderOf(d)
    BY ReaderOfDoc
  <2>3. \/ Wake(r) /\ UNCHANGED missed
        \/ missed' \in {missed, missed \cup {r}} /\ UNCHANGED <<pc, early>>
    BY <1>4, <2>2 DEF Notify
  <2>4. /\ pc' \in [Reader -> {"reading", "sent", "counted", "full", "fullAsleep",
                               "draining", "busy", "busyAsleep", "ended"}]
        /\ missed' \subseteq Reader /\ early' \in [Reader -> Nat]
    <3>1. CASE Wake(r) /\ UNCHANGED missed
      <4>1. pc' \in [Reader -> {"reading", "sent", "counted", "full", "fullAsleep",
                                "draining", "busy", "busyAsleep", "ended"}]
        BY <3>1 DEF Wake, Goto, Types
      <4>2. early' \in [Reader -> Nat]
        BY <3>1 DEF Wake, Types
      <4> QED
        BY <3>1, <4>1, <4>2 DEF Types
    <3>2. CASE missed' \in {missed, missed \cup {r}} /\ UNCHANGED <<pc, early>>
      BY <3>2 DEF Types
    <3> QED
      BY <2>3, <3>1, <3>2
  <2> QED
    BY <1>4, <2>1, <2>4 DEF Notify, Types
<1> QED
  BY <1>1, <1>2, <1>3, <1>4 DEF Callback

LEMMA TypesNext == Types /\ [Next]_vars => Types'
<1> SUFFICES ASSUME Types, [Next]_vars PROVE Types'
  OBVIOUS
<1> USE DEF readerVars, mainVars, ghosts
<1>1. CASE Join
  <2>1. joined \in Reader /\ joined' \in 0 .. Step
    BY <1>1, StepAssumption DEF Join, Types, Reader
  <2>2. total \in [Word -> Nat] /\ df[joined] \in [Word -> Nat]
    BY <2>1 DEF Types
  <2>3. Merge(total, df[joined]) \in [Word -> Nat]
    BY <2>2 DEF Merge
  <2>4. total' \in [Word -> Nat]
    BY <1>1, <2>3 DEF Join
  <2> QED
    BY <1>1, <2>1, <2>4 DEF Join, Types
<1>2. CASE Save
  BY <1>2 DEF Save, Types
<1>3. CASE UNCHANGED vars
  BY <1>3 DEF vars, Types
<1> QED
  BY <1>1, <1>2, <1>3, TypesReader, TypesCallback DEF Next, Main

(* The steps that leave the counters, the order and the writes alone.       *)
Harmless ==
    /\ UNCHANGED <<next, pending, joined, saved>>
    /\ \A d \in Doc :
         /\ call'[d] \in {"writing", "indexing"} <=> call[d] \in {"writing", "indexing"}
         /\ call'[d] = "none" <=> call[d] = "none"
         /\ call'[d] = "skipped" <=> call[d] = "skipped"
    /\ \A r \in Reader :
         /\ pc'[r] = "sent" <=> pc[r] = "sent"
         /\ pc'[r] \in Leaving => next[r] \notin Doc
         /\ pc'[r] = "ended" => pending[r] = 0
         /\ pc[r] = "ended" => pc'[r] = "ended"

LEMMA HarmlessKeeps ==
    ASSUME LInv, Harmless, Types'
    PROVE  LInv'
<1>1. PendingCounts'
  <2>1. \A r \in Reader : /\ Outstanding(r)' = Outstanding(r)
                          /\ Uncounted(r)' = Uncounted(r)
    BY DEF Harmless, Outstanding, Uncounted
  <2> QED
    BY <2>1 DEF LInv, PendingCounts, Harmless
<1>2. InOrder' /\ SkipsUnreadable'
  BY TextAssumption DEF LInv, InOrder, SkipsUnreadable, Harmless
<1>3. EndsDrained'
  BY DEF EndsDrained, Harmless
<1>4. JoinsEnded'
  BY DEF LInv, JoinsEnded, Harmless
<1> QED
  BY <1>1, <1>2, <1>3, <1>4 DEF LInv

(* A reader that goes on to read or to sleep, or that is woken.             *)
LEMMA WakeHarmless ==
    ASSUME Types, EndsDrained, NEW r \in Reader, Wake(r)
    PROVE  \A q \in Reader :
             /\ pc'[q] = "sent" <=> pc[q] = "sent"
             /\ pc'[q] \in Leaving => next[q] \notin Doc
             /\ pc'[q] = "ended" => pending[q] = 0
             /\ pc[q] = "ended" => pc'[q] = "ended"
<1>1. \A q \in Reader \ {r} : pc'[q] = pc[q]
  BY DEF Wake, Goto, Types
<1>2. \/ pc[r] = "fullAsleep" /\ pc'[r] = "reading"
      \/ pc[r] = "busyAsleep" /\ pc'[r] = "draining"
  BY DEF Wake, Goto, Types
<1>3. \A q \in Reader : /\ pc[q] \in Leaving => next[q] \notin Doc
                        /\ pc[q] = "ended" => pending[q] = 0
  BY DEF EndsDrained
<1> QED
  BY <1>1, <1>2, <1>3 DEF Leaving

LEMMA MoveHarmless ==
    ASSUME Types, EndsDrained, NEW r \in Reader,
           Throttle(r) \/ Read(r) \/ Drain(r) \/ Sleep(r) \/ SpuriousWakeUp(r)
    PROVE  Harmless
<1> USE DEF mainVars, ghosts
<1>1. CASE SpuriousWakeUp(r)
  BY <1>1, WakeHarmless DEF SpuriousWakeUp, Harmless
<1>2. CASE Throttle(r) \/ Read(r) \/ Drain(r) \/ Sleep(r)
  <2>1. \A q \in Reader \ {r} : pc'[q] = pc[q]
    BY <1>2 DEF Throttle, Read, Drain, Sleep, Goto, Types
  <2>2. /\ pc[r] \notin {"sent", "ended"} /\ pc'[r] # "sent"
        /\ pc'[r] \in Leaving => pc[r] \in Leaving \/ next[r] \notin Doc
        /\ pc'[r] = "ended" => pending[r] = 0
    BY <1>2 DEF Throttle, Read, Drain, Sleep, Goto, Types, Leaving
  <2>3. UNCHANGED <<next, pending, call, joined, saved>>
    BY <1>2 DEF Throttle, Read, Drain, Sleep
  <2> QED
    BY <2>1, <2>2, <2>3 DEF Harmless, EndsDrained
<1> QED
  BY <1>1, <1>2

LEMMA AnswerHarmless ==
    ASSUME Types, EndsDrained, NEW d \in Doc,
           WriteAnswered(d) \/ TestPending(d) \/ Notify(d)
    PROVE  Harmless
<1> USE DEF readerVars, mainVars, ghosts
<1>1. CASE WriteAnswered(d) \/ TestPending(d)
  BY <1>1 DEF WriteAnswered, TestPending, Harmless, EndsDrained, Types
<1>2. CASE Notify(d)
  <2>1. PICK r \in Reader : r = ReaderOf(d)
    BY ReaderOfDoc
  <2>2. Wake(r) \/ UNCHANGED pc
    BY <1>2, <2>1 DEF Notify
  <2>3. \A q \in Reader :
             /\ pc'[q] = "sent" <=> pc[q] = "sent"
             /\ pc'[q] \in Leaving => next[q] \notin Doc
             /\ pc'[q] = "ended" => pending[q] = 0
             /\ pc[q] = "ended" => pc'[q] = "ended"
    BY <2>2, WakeHarmless DEF EndsDrained
  <2>4. /\ UNCHANGED <<next, pending, joined, saved>>
        /\ call[d] = "notifying" /\ call' = [call EXCEPT ![d] = "done"]
    BY <1>2 DEF Notify
  <2> QED
    BY <2>3, <2>4 DEF Harmless, Types
<1> QED
  BY <1>1, <1>2

(* A reader takes its next document, whether it is sent or skipped.         *)
LEMMA TakeInOrder ==
    ASSUME Types, InOrder, NEW r \in Reader, next[r] \in Doc,
           NEW status, status # "none",
           call' = [call EXCEPT ![next[r]] = status], Advance(r)
    PROVE  InOrder' /\ ReaderOf(next[r]) = r /\ call[next[r]] = "none"
<1>1. next[r] \in Nat /\ next[r] % Step = r /\ Step \in Nat \ {0}
  BY StepAssumption DEF Types, InOrder
<1>2. ReaderOf(next[r]) = r
  BY <1>1 DEF ReaderOf
<1>3. call[next[r]] = "none"
  BY <1>1, <1>2 DEF InOrder
<1>4. next'[r] = next[r] + Step /\ \A q \in Reader \ {r} : next'[q] = next[q]
  BY DEF Advance, Types
<1>5. next'[r] % Step = r
  BY <1>1, <1>4, SameReader
<1>6. ASSUME NEW d \in Doc, ReaderOf(d) = r
      PROVE  call'[d] # "none" <=> d < next'[r]
  <2>1. d \in Nat /\ d % Step = next[r] % Step
    BY <1>1, <1>6 DEF Doc, ReaderOf
  <2>2. CASE d = next[r]
    BY <1>1, <1>4, <2>2 DEF Types
  <2>3. CASE d < next[r]
    <3>1. call'[d] = call[d] /\ call[d] # "none"
      BY <1>1, <1>6, <2>1, <2>3 DEF InOrder, Types
    <3> QED
      BY <1>1, <1>4, <2>1, <2>3, <3>1
  <2>4. CASE d > next[r]
    <3>1. call'[d] = call[d] /\ call[d] = "none"
      BY <1>1, <1>6, <2>1, <2>4 DEF InOrder, Types
    <3>2. next[r] + Step <= d
      BY <1>1, <2>1, <2>4, NextOfReader
    <3> QED
      BY <1>1, <1>4, <2>1, <3>1, <3>2
  <2> QED
    BY <1>1, <2>1, <2>2, <2>3, <2>4
<1>7. ASSUME NEW q \in Reader \ {r}, NEW d \in Doc, ReaderOf(d) = q
      PROVE  call'[d] # "none" <=> d < next'[q]
  <2>1. call'[d] = call[d]
    BY <1>2, <1>7 DEF Types
  <2> QED
    BY <1>4, <1>7, <2>1 DEF InOrder
<1>8. InOrder'
  BY <1>4, <1>5, <1>6, <1>7 DEF InOrder
<1> QED
  BY <1>2, <1>3, <1>8

LEMMA SkipKeeps ==
    ASSUME LInv, Types', NEW r \in Reader, Skip(r)
    PROVE  LInv'
<1> USE DEF mainVars, ghosts
<1>1. /\ pc[r] = "reading" /\ next[r] \in Doc \ Readable
      /\ call' = [call EXCEPT ![next[r]] = "skipped"] /\ Advance(r)
      /\ UNCHANGED <<pc, pending, joined, saved>>
  BY DEF Skip
<1>2. InOrder' /\ call[next[r]] = "none"
  BY <1>1, TakeInOrder DEF LInv
<1>3. PendingCounts'
  <2>1. \A q \in Reader : Outstanding(q)' = Outstanding(q)
    BY <1>1, <1>2 DEF Outstanding, LInv, Types
  <2>2. \A q \in Reader : Uncounted(q)' = Uncounted(q)
    BY <1>1 DEF Uncounted
  <2> QED
    BY <1>1, <2>1, <2>2 DEF LInv, PendingCounts
<1>4. SkipsUnreadable'
  BY <1>1, TextAssumption DEF LInv, SkipsUnreadable, Types
<1>5. EndsDrained'
  BY <1>1 DEF LInv, EndsDrained, Leaving, Advance, Types
<1>6. JoinsEnded'
  BY <1>1 DEF LInv, JoinsEnded
<1> QED
  BY <1>2, <1>3, <1>4, <1>5, <1>6 DEF LInv

LEMMA SendKeeps ==
    ASSUME LInv, Types', NEW r \in Reader, Send(r)
    PROVE  LInv'
<1> USE DEF mainVars, ghosts
<1>1. /\ pc[r] = "reading" /\ pc' = [pc EXCEPT ![r] = "sent"] /\ next[r] \in Readable
      /\ call' = [call EXCEPT ![next[r]] = "writing"] /\ Advance(r)
      /\ UNCHANGED <<pending, joined, saved>>
  BY DEF Send, Goto
<1>2. next[r] \in Doc
  BY <1>1, TextAssumption
<1>3. InOrder' /\ ReaderOf(next[r]) = r /\ call[next[r]] = "none"
  BY <1>1, <1>2, TakeInOrder DEF LInv
<1>4. PendingCounts'
  <2> SUFFICES ASSUME NEW q \in Reader
               PROVE  pending'[q] + Uncounted(q)' = Cardinality(Outstanding(q)')
    BY DEF PendingCounts
  <2>1. pending[q] \in Int /\ pending[q] + Uncounted(q) = Cardinality(Outstanding(q))
    BY DEF LInv, Types, PendingCounts
  <2>2. CASE q = r
    <3>1. Outstanding(q)' = Outstanding(q) \cup {next[r]} /\ next[r] \notin Outstanding(q)
      BY <1>1, <1>2, <1>3, <2>2 DEF Outstanding, LInv, Types
    <3>2. Cardinality(Outstanding(q)') = Cardinality(Outstanding(q)) + 1
      <4>1. IsFiniteSet(Outstanding(q))
        BY DocSet DEF Outstanding
      <4> QED
        BY <3>1, <4>1, FS_AddElement
    <3>3. Uncounted(q) = 0 /\ Uncounted(q)' = 1 /\ pending'[q] = pending[q]
      BY <1>1, <2>2 DEF Uncounted, LInv, Types
    <3> QED
      BY <2>1, <3>2, <3>3
  <2>3. CASE q # r
    <3>1. Outstanding(q)' = Outstanding(q)
      BY <1>1, <1>3, <2>3 DEF Outstanding, LInv, Types
    <3>2. Uncounted(q)' = Uncounted(q)
      BY <1>1, <2>3 DEF Uncounted, LInv, Types
    <3> QED
      BY <1>1, <2>1, <3>1, <3>2
  <2> QED
    BY <2>2, <2>3
<1>5. SkipsUnreadable'
  BY <1>1, TextAssumption DEF LInv, SkipsUnreadable, Types
<1>6. EndsDrained'
  BY <1>1 DEF LInv, EndsDrained, Leaving, Advance, Types
<1>7. JoinsEnded'
  BY <1>1 DEF LInv, JoinsEnded, Types
<1> QED
  BY <1>3, <1>4, <1>5, <1>6, <1>7 DEF LInv

LEMMA CountKeeps ==
    ASSUME LInv, Types', NEW r \in Reader, Count(r)
    PROVE  LInv'
<1> USE DEF mainVars, ghosts
<1>1. /\ pc[r] = "sent" /\ pc' = [pc EXCEPT ![r] = "counted"]
      /\ pending' = [pending EXCEPT ![r] = pending[r] + 1]
      /\ UNCHANGED <<next, call, joined, saved>>
  BY DEF Count, Goto
<1>2. PendingCounts'
  <2> SUFFICES ASSUME NEW q \in Reader
               PROVE  pending'[q] + Uncounted(q)' = Cardinality(Outstanding(q)')
    BY DEF PendingCounts
  <2>1. pending[q] \in Int /\ pending[q] + Uncounted(q) = Cardinality(Outstanding(q))
    BY DEF LInv, Types, PendingCounts
  <2>2. Outstanding(q)' = Outstanding(q)
    BY <1>1 DEF Outstanding
  <2>3. pending'[q] + Uncounted(q)' = pending[q] + Uncounted(q)
    <3>1. CASE q = r
      <4>1. Uncounted(q) = 1 /\ Uncounted(q)' = 0 /\ pending'[q] = pending[q] + 1
        BY <1>1, <3>1 DEF Uncounted, LInv, Types
      <4> QED
        BY <2>1, <4>1
    <3>2. CASE q # r
      BY <1>1, <3>2 DEF Uncounted, LInv, Types
    <3> QED
      BY <3>1, <3>2
  <2> QED
    BY <2>1, <2>2, <2>3
<1>3. InOrder' /\ SkipsUnreadable'
  BY <1>1 DEF LInv, InOrder, SkipsUnreadable
<1>4. EndsDrained'
  BY <1>1 DEF LInv, EndsDrained, Leaving, Types
<1>5. JoinsEnded'
  BY <1>1 DEF LInv, JoinsEnded, Types
<1> QED
  BY <1>2, <1>3, <1>4, <1>5 DEF LInv

LEMMA IndexAnsweredKeeps ==
    ASSUME LInv, Types', NEW d \in Doc, IndexAnswered(d)
    PROVE  LInv'
<1> USE DEF readerVars, mainVars, ghosts
<1>1. PICK r \in Reader : r = ReaderOf(d)
  BY ReaderOfDoc
<1>2. /\ call[d] = "indexing" /\ call' = [call EXCEPT ![d] = "counted"]
      /\ pending' = [pending EXCEPT ![r] = pending[r] - 1]
      /\ UNCHANGED <<pc, next, joined, saved>>
  BY <1>1 DEF IndexAnswered
<1>3. d \in Outstanding(r) /\ IsFiniteSet(Outstanding(r))
  BY <1>1, <1>2, DocSet DEF Outstanding
<1>4. /\ pending[r] \in Int
      /\ pending[r] + Uncounted(r) = Cardinality(Outstanding(r))
      /\ Cardinality(Outstanding(r)) \in Nat \ {0}
  BY <1>3, FS_EmptySet, FS_CardinalityType DEF LInv, Types, PendingCounts
<1>5. PendingCounts'
  <2>1. \A q \in Reader : Uncounted(q)' = Uncounted(q)
    BY <1>2 DEF Uncounted
  <2>2. Outstanding(r)' = Outstanding(r) \ {d}
    BY <1>1, <1>2 DEF Outstanding, LInv, Types
  <2>3. Cardinality(Outstanding(r)') = Cardinality(Outstanding(r)) - 1
    BY <1>3, <2>2, FS_RemoveElement
  <2>4. pending'[r] = pending[r] - 1 /\ Uncounted(r) \in {0, 1}
    BY <1>2 DEF Uncounted, LInv, Types
  <2>5. pending'[r] + Uncounted(r)' = Cardinality(Outstanding(r)')
    BY <1>4, <2>1, <2>3, <2>4
  <2>6. \A q \in Reader \ {r} : pending'[q] = pending[q] /\ Outstanding(q)' = Outstanding(q)
    BY <1>1, <1>2 DEF Outstanding, LInv, Types
  <2> QED
    BY <2>1, <2>5, <2>6 DEF LInv, PendingCounts
<1>6. InOrder' /\ SkipsUnreadable'
  BY <1>2, TextAssumption DEF LInv, InOrder, SkipsUnreadable, Types
<1>7. EndsDrained'
  <2>1. pc[r] # "ended"
    <3>1. ASSUME pc[r] = "ended" PROVE FALSE
      <4>1. pending[r] = 0 /\ Uncounted(r) = 0
        BY <3>1 DEF LInv, EndsDrained, Uncounted
      <4> QED
        BY <1>4, <4>1
    <3> QED
      BY <3>1
  <2> QED
    BY <1>2, <2>1 DEF LInv, EndsDrained, Types
<1>8. JoinsEnded'
  BY <1>2 DEF LInv, JoinsEnded
<1> QED
  BY <1>5, <1>6, <1>7, <1>8 DEF LInv

LEMMA MainKeeps ==
    ASSUME LInv, Types', Main
    PROVE  LInv'
<1> USE DEF readerVars, ghosts
<1>1. /\ UNCHANGED <<pc, next, pending, call>>
      /\ \/ joined < Step /\ pc[joined] = "ended" /\ joined' = joined + 1 /\ saved' = saved
         \/ joined = Step /\ joined' = joined
  BY DEF Main, Join, Save
<1>2. PendingCounts'
  <2>1. \A r \in Reader : Outstanding(r)' = Outstanding(r) /\ Uncounted(r)' = Uncounted(r)
    BY <1>1 DEF Outstanding, Uncounted
  <2> QED
    BY <1>1, <2>1 DEF LInv, PendingCounts
<1>3. InOrder' /\ SkipsUnreadable' /\ EndsDrained'
  BY <1>1 DEF LInv, InOrder, SkipsUnreadable, EndsDrained
<1>4. JoinsEnded'
  <2>1. joined \in 0 .. Step /\ (saved => joined = Step)
        /\ \A r \in Reader : r < joined => pc[r] = "ended"
    BY DEF LInv, JoinsEnded, Types
  <2>2. CASE joined < Step /\ pc[joined] = "ended" /\ joined' = joined + 1 /\ saved' = saved
    <3>1. \A r \in Reader : r < joined + 1 => r < joined \/ r = joined
      BY <2>1, StepAssumption DEF Reader
    <3> QED
      BY <1>1, <2>1, <2>2, <3>1, StepAssumption DEF JoinsEnded
  <2>3. CASE joined = Step /\ joined' = joined
    BY <1>1, <2>1, <2>3 DEF JoinsEnded
  <2> QED
    BY <1>1, <2>2, <2>3
<1> QED
  BY <1>2, <1>3, <1>4 DEF LInv

LEMMA InvNext == LInv /\ [Next]_vars => LInv'
<1> SUFFICES ASSUME LInv, [Next]_vars PROVE LInv'
  OBVIOUS
<1>1. Types /\ EndsDrained /\ Types'
  BY TypesNext DEF LInv
<1>2. CASE \E r \in Reader : ReaderStep(r) \/ SpuriousWakeUp(r)
  BY <1>1, <1>2, SkipKeeps, SendKeeps, CountKeeps, MoveHarmless, HarmlessKeeps
  DEF ReaderStep
<1>3. CASE \E d \in Doc : Callback(d)
  BY <1>1, <1>3, IndexAnsweredKeeps, AnswerHarmless, HarmlessKeeps DEF Callback
<1>4. CASE Main
  BY <1>1, <1>4, MainKeeps
<1>5. CASE UNCHANGED vars
  <2>1. Harmless
    BY <1>1, <1>5 DEF vars, readerVars, mainVars, Harmless, EndsDrained
  <2> QED
    BY <1>1, <2>1, HarmlessKeeps
<1> QED
  BY <1>2, <1>3, <1>4, <1>5 DEF Next

LEMMA AlwaysInv == Spec => []LInv
  BY InvInit, InvNext, PTL DEF Spec

(* The counter of a reader is never below -1, though the answer to a write  *)
(* may be counted off before the write is counted, and never above the      *)
(* number of documents.                                                     *)
THEOREM TypeCorrect == Spec => []TypeOK
<1>1. LInv => TypeOK
  BY BoundedCounter DEF LInv
<1> QED
  BY <1>1, AlwaysInv, PTL

(* Whatever the readers, the callbacks and the main thread interleave, all  *)
(* answers are in when the learn elements are written.                      *)
THEOREM AlwaysLoadedWhenSaved == Spec => []LoadedWhenSaved
<1>1. LInv => LoadedWhenSaved
  <2> SUFFICES ASSUME LInv, saved, NEW d \in Readable
               PROVE  call[d] \in {"counted", "notifying", "done"}
    BY DEF LoadedWhenSaved
  <2>1. d \in Doc
    BY TextAssumption
  <2>2. PICK r \in Reader : r = ReaderOf(d)
    BY <2>1, ReaderOfDoc
  <2>3. pc[r] = "ended"
    BY <2>2, StepAssumption DEF LInv, JoinsEnded, Reader
  <2>4. next[r] \notin Doc /\ pending[r] = 0 /\ Uncounted(r) = 0
    BY <2>3 DEF LInv, EndsDrained, Leaving, Uncounted
  <2>5. d < next[r]
    BY <2>1, <2>4, StepAssumption DEF Doc, LInv, Types
  <2>6. call[d] \notin {"none", "skipped"}
    BY <2>1, <2>2, <2>5 DEF LInv, InOrder, SkipsUnreadable
  <2>7. Outstanding(r) = {}
    <3>1. Cardinality(Outstanding(r)) = 0
      BY <2>4 DEF LInv, PendingCounts
    <3>2. IsFiniteSet(Outstanding(r))
      BY DocSet DEF Outstanding
    <3> QED
      BY <3>1, <3>2, FS_EmptySet
  <2>8. call[d] \notin {"writing", "indexing"}
    BY <2>1, <2>2, <2>7 DEF Outstanding
  <2> QED
    BY <2>1, <2>6, <2>8 DEF LInv, Types
<1> QED
  BY <1>1, AlwaysInv, PTL

-----------------------------------------------------------------------------
(* The documents a reader has sent, and those of the readers that have been *)
(* joined, that a word comes in.                                            *)
Sent(r, w) == {d \in Readable : /\ ReaderOf(d) = r /\ call[d] # "none"
                                /\ w \in Range(TextOf[d])}
OfJoined(w) == {d \in Readable : ReaderOf(d) < joined /\ w \in Range(TextOf[d])}
Counted ==
    /\ \A r \in Reader, w \in Word : df[r][w] = Cardinality(Sent(r, w))
    /\ \A w \in Word : total[w] = Cardinality(OfJoined(w))

LEMMA CountedInit == Init => Counted
<1> SUFFICES ASSUME Init, NEW w \in Word
             PROVE  /\ \A r \in Reader : df[r][w] = Cardinality(Sent(r, w))
                    /\ total[w] = Cardinality(OfJoined(w))
  BY DEF Counted
<1>1. \A r \in Reader : df[r][w] = 0 /\ Sent(r, w) = {}
  BY TextAssumption DEF Init, NoWords, Sent
<1>2. total[w] = 0 /\ OfJoined(w) = {}
  <2>1. \A d \in Readable : ~ (ReaderOf(d) < 0)
    BY TextAssumption, ReaderOfDoc, StepAssumption DEF Reader
  <2> QED
    BY <2>1 DEF Init, NoWords, OfJoined
<1> QED
  BY <1>1, <1>2, FS_EmptySet

LEMMA SendCounted ==
    ASSUME LInv, Counted, NEW r \in Reader, Send(r)
    PROVE  Counted'
<1> USE DEF mainVars, ghosts
<1>1. /\ next[r] \in Readable /\ next[r] \in Doc
      /\ call' = [call EXCEPT ![next[r]] = "writing"] /\ Advance(r)
      /\ df' = [df EXCEPT ![r] = UpdateTfidf(df[r], TextOf[next[r]])]
      /\ UNCHANGED <<joined, total>>
  BY TextAssumption DEF Send
<1>2. ReaderOf(next[r]) = r /\ call[next[r]] = "none"
  BY <1>1, TakeInOrder DEF LInv
<1>3. ASSUME NEW w \in Word
      PROVE  df'[r][w] = Cardinality(Sent(r, w)')
  <2>1. df[r][w] = Cardinality(Sent(r, w)) /\ df[r][w] \in Nat
    BY DEF Counted, LInv, Types
  <2>2. IsFiniteSet(Sent(r, w)) /\ next[r] \notin Sent(r, w)
    <3>1. Sent(r, w) \in SUBSET Doc
      BY TextAssumption DEF Sent
    <3> QED
      BY <1>2, <3>1, DocSet DEF Sent
  <2>3. df'[r][w] = IF w \in Range(TextOf[next[r]]) THEN df[r][w] + 1 ELSE df[r][w]
    <3>1. df'[r] = UpdateTfidf(df[r], TextOf[next[r]])
      BY <1>1 DEF LInv, Types
    <3> QED
      BY <3>1 DEF UpdateTfidf
  <2>4. CASE w \in Range(TextOf[next[r]])
    <3>1. Sent(r, w)' = Sent(r, w) \cup {next[r]}
      BY <1>1, <1>2, <2>4, TextAssumption DEF Sent, LInv, Types
    <3>2. Cardinality(Sent(r, w)') = Cardinality(Sent(r, w)) + 1
      BY <2>2, <3>1, FS_AddElement
    <3> QED
      BY <2>1, <2>3, <2>4, <3>2
  <2>5. CASE w \notin Range(TextOf[next[r]])
    <3>1. Sent(r, w)' = Sent(r, w)
      BY <1>1, <1>2, <2>5, TextAssumption DEF Sent, LInv, Types
    <3> QED
      BY <2>1, <2>3, <2>5, <3>1
  <2> QED
    BY <2>4, <2>5
<1>4. \A q \in Reader \ {r}, w \in Word : /\ df'[q] = df[q]
                                         /\ Sent(q, w)' = Sent(q, w)
  BY <1>1, <1>2, TextAssumption DEF Sent, LInv, Types
<1>5. \A w \in Word : OfJoined(w)' = OfJoined(w)
  BY <1>1 DEF OfJoined
<1> QED
  BY <1>1, <1>3, <1>4, <1>5 DEF Counted

LEMMA JoinCounted ==
    ASSUME LInv, Counted, Join
    PROVE  Counted'
<1> USE DEF readerVars, ghosts
<1>1. /\ joined \in Reader /\ pc[joined] = "ended" /\ joined' = joined + 1
      /\ total' = Merge(total, df[joined])
      /\ UNCHANGED <<df, call>>
  BY StepAssumption DEF Join, LInv, Types, Reader
<1>2. \A q \in Reader, w \in Word : Sent(q, w)' = Sent(q, w)
  BY <1>1 DEF Sent
<1>3. ASSUME NEW w \in Word
      PROVE  total'[w] = Cardinality(OfJoined(w)')
  <2>1. \A d \in Readable : ReaderOf(d) = joined => call[d] # "none"
    <3>1. next[joined] \notin Doc
      BY <1>1 DEF LInv, EndsDrained, Leaving
    <3>2. \A d \in Doc : d < next[joined]
      BY <1>1, <3>1, StepAssumption DEF Doc, LInv, Types
    <3> QED
      BY <1>1, <3>2, TextAssumption DEF LInv, InOrder
  <2>2. \A d \in Readable : ReaderOf(d) \in Int
    BY TextAssumption, ReaderOfDoc DEF Reader
  <2>3. OfJoined(w)' = OfJoined(w) \cup Sent(joined, w)
    <3>1. \A d \in Readable : ReaderOf(d) < joined + 1 <=>
                                 ReaderOf(d) < joined \/ ReaderOf(d) = joined
      BY <1>1, <2>2 DEF Reader
    <3> QED
      BY <1>1, <2>1, <3>1 DEF OfJoined, Sent
  <2>4. OfJoined(w) \cap Sent(joined, w) = {}
    BY <1>1, <2>2 DEF OfJoined, Sent, Reader
  <2>5. IsFiniteSet(OfJoined(w)) /\ IsFiniteSet(Sent(joined, w))
    BY TextAssumption, DocSet DEF OfJoined, Sent
  <2>6. Cardinality(OfJoined(w)') = Cardinality(OfJoined(w)) + Cardinality(Sent(joined, w))
    <3>1. Cardinality(OfJoined(w) \cap Sent(joined, w)) = 0
      BY <2>4, FS_EmptySet
    <3>2. Cardinality(OfJoined(w) \cup Sent(joined, w)) =
            Cardinality(OfJoined(w)) + Cardinality(Sent(joined, w)) - 0
      BY <2>5, <3>1, FS_Union
    <3>3. Cardinality(OfJoined(w)) \in Nat /\ Cardinality(Sent(joined, w)) \in Nat
      BY <2>5, FS_CardinalityType
    <3> QED
      BY <2>3, <3>2, <3>3
  <2>7. total'[w] = total[w] + df[joined][w]
    BY <1>1 DEF Merge
  <2> QED
    BY <1>1, <2>6, <2>7 DEF Counted
<1> QED
  BY <1>1, <1>2, <1>3 DEF Counted

LEMMA CountedNext == LInv /\ Counted /\ [Next]_vars => Counted'
<1> SUFFICES ASSUME LInv, Counted, [Next]_vars PROVE Counted'
  OBVIOUS
<1>1. CASE \E r \in Reader : Send(r)
  BY <1>1, SendCounted
<1>2. CASE Join
  BY <1>2, JoinCounted
<1>3. ASSUME UNCHANGED <<df, total, joined>>,
             \A d \in Readable : call'[d] = "none" <=> call[d] = "none"
      PROVE  Counted'
  <2>1. \A r \in Reader, w \in Word : Sent(r, w)' = Sent(r, w)
    BY <1>3 DEF Sent
  <2>2. \A w \in Word : OfJoined(w)' = OfJoined(w)
    BY <1>3 DEF OfJoined
  <2> QED
    BY <1>3, <2>1, <2>2 DEF Counted
<1>4. ASSUME NEW r \in Reader, ReaderStep(r) \/ SpuriousWakeUp(r), ~ Send(r)
      PROVE  Counted'
  <2> USE DEF mainVars, ghosts
  <2>1. UNCHANGED <<df, total, joined>>
    BY <1>4 DEF ReaderStep, SpuriousWakeUp, Skip, Count, Throttle, Read, Drain, Sleep
  <2>2. \A d \in Readable : call'[d] = call[d]
    <3>1. CASE Skip(r)
      BY <3>1, TextAssumption DEF Skip, LInv, Types
    <3>2. CASE ~ Skip(r)
      BY <1>4, <3>2 DEF ReaderStep, SpuriousWakeUp, Count, Throttle, Read, Drain, Sleep
    <3> QED
      BY <3>1, <3>2
  <2> QED
    BY <1>3, <2>1, <2>2
<1>5. CASE \E d \in Doc : Callback(d)
  <2> USE DEF readerVars, mainVars
  <2>1. UNCHANGED <<df, total, joined>>
    BY <1>5 DEF Callback, WriteAnswered, IndexAnswered, TestPending, Notify
  <2>2. \A d \in Readable : call'[d] = "none" <=> call[d] = "none"
    BY <1>5, TextAssumption DEF Callback, WriteAnswered, IndexAnswered, TestPending,
                                Notify, LInv, Types
  <2> QED
    BY <1>3, <2>1, <2>2
<1>6. CASE Save \/ UNCHANGED vars
  BY <1>3, <1>6 DEF Save, vars, readerVars, mainVars
<1> QED
  BY <1>1, <1>2, <1>4, <1>5, <1>6 DEF Next, Main

(* The merged counts are right for every set of texts: each document that   *)
(* could be read is counted once for each of its words, by whichever reader *)
(* took it, and no reader's counts are merged before it has read its last.  *)
THEOREM AlwaysCountsDocuments == Spec => []CountsDocuments
<1>1. LInv /\ Counted => CountsDocuments
  <2> SUFFICES ASSUME LInv, Counted, saved, NEW w \in Word
               PROVE  total[w] = Cardinality({d \in Readable : w \in Range(TextOf[d])})
    BY DEF CountsDocuments
  <2>1. joined = Step
    BY DEF LInv, JoinsEnded
  <2>2. \A d \in Readable : ReaderOf(d) < Step
    BY TextAssumption, ReaderOfDoc, StepAssumption DEF Reader
  <2>3. OfJoined(w) = {d \in Readable : w \in Range(TextOf[d])}
    BY <2>1, <2>2 DEF OfJoined
  <2> QED
    BY <2>3 DEF Counted
<1> QED
  BY <1>1, AlwaysInv, CountedInit, CountedNext, PTL DEF Spec

-----------------------------------------------------------------------------
(* A reader about to send has room, but for the times it was woken early.   *)
Room(r) == IF pc[r] \in {"reading", "sent"} THEN 1 ELSE 0
HasRoom == \A r \in Reader : pending[r] + Room(r) <= MaxPending + 1 + early[r]

LEMMA HasRoomInit == Init => HasRoom
  BY PendingAssumption DEF Init, HasRoom, Room

LEMMA HasRoomNext == Types /\ HasRoom /\ [Next]_vars => HasRoom'
<1> SUFFICES ASSUME Types, HasRoom, [Next]_vars, NEW q \in Reader
             PROVE  pending'[q] + Room(q)' <= MaxPending + 1 + early'[q]
  BY DEF HasRoom
<1> USE DEF readerVars, mainVars, ghosts
<1>1. /\ pending[q] \in Int /\ early[q] \in Nat /\ MaxPending \in Nat
      /\ Room(q) \in {0, 1} /\ Room(q)' \in {0, 1}
      /\ pending[q] + Room(q) <= MaxPending + 1 + early[q]
  BY PendingAssumption DEF Types, Room, HasRoom
<1>2. ASSUME pc'[q] = pc[q], pending'[q] \in Int, pending'[q] <= pending[q],
             early'[q] = early[q]
      PROVE  pending'[q] + Room(q)' <= MaxPending + 1 + early'[q]
  BY <1>1, <1>2 DEF Room
<1>3. ASSUME NEW r \in Reader, Wake(r), UNCHANGED pending
      PROVE  pending'[q] + Room(q)' <= MaxPending + 1 + early'[q]
  <2>1. CASE q # r
    <3>1. pc'[q] = pc[q] /\ early'[q] = early[q]
      BY <1>3, <2>1 DEF Wake, Goto, Types
    <3> QED
      BY <1>1, <1>2, <1>3, <3>1
  <2>2. CASE q = r /\ pc[r] = "fullAsleep"
    <3>1. early' = IF pending[q] > MaxPending THEN [early EXCEPT ![q] = early[q] + 1]
                                              ELSE early
      BY <1>3, <2>2 DEF Wake
    <3>2. CASE pending[q] > MaxPending
      <4>1. Room(q) = 0 /\ early'[q] = early[q] + 1
        BY <2>2, <3>1, <3>2 DEF Room, Types
      <4> QED
        BY <1>1, <1>3, <4>1
    <3>3. CASE ~ (pending[q] > MaxPending)
      BY <1>1, <1>3, <3>1, <3>3
    <3> QED
      BY <3>2, <3>3
  <2>3. CASE q = r /\ pc[r] # "fullAsleep"
    <3>1. pc'[q] = "draining" /\ early'[q] = early[q]
      BY <1>3, <2>3 DEF Wake, Goto, Types
    <3>2. Room(q)' = 0
      BY <3>1 DEF Room
    <3> QED
      BY <1>1, <1>3, <3>1, <3>2
  <2> QED
    BY <2>1, <2>2, <2>3
<1>4. ASSUME NEW r \in Reader, ReaderStep(r)
      PROVE  pending'[q] + Room(q)' <= MaxPending + 1 + early'[q]
  <2>1. early' = early
    BY <1>4 DEF ReaderStep, Skip, Send, Count, Throttle, Read, Drain, Sleep
  <2>2. CASE q # r
    <3>1. pc'[q] = pc[q] /\ pending'[q] = pending[q]
      BY <1>4, <2>2 DEF ReaderStep, Skip, Send, Count, Throttle, Read, Drain, Sleep,
                        Goto, Types
    <3> QED
      BY <1>1, <1>2, <2>1, <3>1
  <2>3. CASE q = r /\ Count(r)
    <3>1. Room(q) = 1 /\ Room(q)' = 0 /\ pending'[q] = pending[q] + 1
      BY <2>3 DEF Count, Goto, Room, Types
    <3> QED
      BY <1>1, <2>1, <3>1
  <2>4. CASE q = r /\ Throttle(r)
    <3>1. /\ pending'[q] = pending[q]
          /\ pending[q] > MaxPending => Room(q)' = 0
      BY <2>4 DEF Throttle, Goto, Room, Types
    <3> QED
      BY <1>1, <2>1, <3>1
  <2>5. CASE q = r /\ (Skip(r) \/ Send(r) \/ Read(r) \/ Drain(r) \/ Sleep(r))
    <3>1. /\ pending'[q] = pending[q]
          /\ pc'[q] \in {"reading", "sent"} => pc[q] \in {"reading", "sent"}
      BY <2>5 DEF Skip, Send, Read, Drain, Sleep, Goto, Types
    <3>2. Room(q)' <= Room(q)
      BY <3>1 DEF Room
    <3> QED
      BY <1>1, <2>1, <3>1, <3>2
  <2> QED
    BY <1>4, <2>2, <2>3, <2>4, <2>5 DEF ReaderStep
<1>5. CASE \E r \in Reader : SpuriousWakeUp(r)
  BY <1>3, <1>5 DEF SpuriousWakeUp
<1>6. ASSUME NEW d \in Doc, Callback(d)
      PROVE  pending'[q] + Room(q)' <= MaxPending + 1 + early'[q]
  <2>1. CASE WriteAnswered(d) \/ TestPending(d)
    BY <1>1, <1>2, <2>1 DEF WriteAnswered, TestPending
  <2>2. CASE IndexAnswered(d)
    <3>1. pending'[q] \in {pending[q], pending[q] - 1}
      BY <1>1, <2>2, ReaderOfDoc DEF IndexAnswered, Types
    <3>2. pc' = pc /\ early' = early
      BY <2>2 DEF IndexAnswered
    <3> QED
      BY <1>1, <1>2, <3>1, <3>2
  <2>3. CASE Notify(d)
    <3>1. PICK r \in Reader : r = ReaderOf(d)
      BY ReaderOfDoc
    <3>2. UNCHANGED pending /\ (Wake(r) \/ UNCHANGED <<pc, early>>)
      BY <2>3, <3>1 DEF Notify
    <3> QED
      BY <1>1, <1>2, <1>3, <3>2
  <2> QED
    BY <1>6, <2>1, <2>2, <2>3 DEF Callback
<1>7. CASE Main \/ UNCHANGED vars
  BY <1>1, <1>2, <1>7 DEF Main, Join, Save, vars
<1> QED
  BY <1>4, <1>5, <1>6, <1>7 DEF Next

(* For every limit and any number of wake-ups, how far a reader can exceed  *)
(* the limit is how often it was woken above it, and one.                   *)
THEOREM AlwaysThrottled == Spec => []Throttled
<1>1. Types /\ HasRoom => Throttled
  <2> SUFFICES ASSUME Types, HasRoom, NEW r \in Reader
               PROVE  pending[r] <= MaxPending + 1 + early[r]
    BY DEF Throttled
  <2>1. /\ pending[r] \in Int /\ early[r] \in Nat /\ Room(r) \in {0, 1}
        /\ pending[r] + Room(r) <= MaxPending + 1 + early[r]
    BY DEF Types, Room, HasRoom
  <2> QED
    BY <2>1, PendingAssumption
<1> QED
  BY <1>1, AlwaysInv, HasRoomInit, HasRoomNext, PTL DEF Spec, LInv
=============================================================================
