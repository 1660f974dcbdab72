------------------------------- MODULE Loader -------------------------------
(***************************************************************************)
(* The similarity loader (test/similarity/elliptics_parse_docs.cpp)        *)
(* without a normaliser: reader threads parse documents, count their words *)
(* (parser.hpp, tfidf.hpp) and send each to the storage without waiting.   *)
(* The callbacks of elliptics set its index and then count it off.  A      *)
(* reader with too much outstanding sleeps, and so does one at the end     *)
(* until nothing is outstanding.  The main thread joins the readers.       *)
(*                                                                         *)
(* Callbacks test and notify without the lock of the condition, and a      *)
(* reader tests before it takes the lock.                                  *)
(***************************************************************************)
EXTENDS Integers, Tfidf

CONSTANTS
    Step,        \* number of readers, cpunum
    DocCount,    \* number of documents, m_doc_ids.size()
    Readable,    \* those whose files are text and parse
    TextOf,      \* their texts
    MaxPending   \* max_pending

ASSUME StepAssumption == Step \in Nat \ {0} /\ DocCount \in Nat
(* 100 in the code.  With less than 2 nobody would be notified.             *)
ASSUME PendingAssumption == MaxPending \in Nat /\ MaxPending >= 2

Reader == 0 .. Step - 1
Doc    == 0 .. DocCount - 1
ReaderOf(d) == d % Step

ASSUME TextAssumption == Readable \subseteq Doc /\ TextOf \in [Doc -> Seq(Word)]

VARIABLES
    pc,          \* where each reader is
    next,        \* the document it reads next
    df,          \* word counts of its parser
    pending,     \* its dth->pending
    call,        \* what has become of each document
    joined,      \* readers the main thread has joined
    total,       \* word counts it has merged
    saved,       \* load has written the learn elements
    \* ghosts, for the properties
    missed,      \* readers notified between their test and their sleep
    early        \* how often a full reader was woken with too much outstanding

readerVars == <<pc, next, df>>
mainVars   == <<joined, total, saved>>
ghosts     == <<missed, early>>
vars == <<readerVars, pending, call, mainVars, ghosts>>

Init ==
    /\ pc = [r \in Reader |-> "reading"]
    /\ next = [r \in Reader |-> r]
    /\ df = [r \in Reader |-> NoWords]
    /\ pending = [r \in Reader |-> 0]
    /\ call = [d \in Doc |-> "none"]
    /\ joined = 0 /\ total = NoWords /\ saved = FALSE
    /\ missed = {} /\ early = [r \in Reader |-> 0]

-----------------------------------------------------------------------------
(* load_documents, and pack_and_send that it calls.                         *)

Advance(r) == next' = [next EXCEPT ![r] = @ + Step]
Goto(r, where) == pc' = [pc EXCEPT ![r] = where]

(* feed_file throws, and the exception is only logged.                      *)
Skip(r) ==
    /\ pc[r] = "reading" /\ next[r] \in Doc \ Readable
    /\ call' = [call EXCEPT ![next[r]] = "skipped"]
    /\ Advance(r)
    /\ UNCHANGED <<pc, df, pending, mainVars, ghosts>>

(* The document is counted and its write begins.                            *)
Send(r) ==
    /\ pc[r] = "reading" /\ next[r] \in Readable
    /\ df' = [df EXCEPT ![r] = UpdateTfidf(@, TextOf[next[r]])]
    /\ call' = [call EXCEPT ![next[r]] = "writing"]
    /\ Advance(r) /\ Goto(r, "sent")
    /\ UNCHANGED <<pending, mainVars, ghosts>>

(* pending++, after the write has begun and perhaps ended.                  *)
Count(r) ==
    /\ pc[r] = "sent"
    /\ pending' = [pending EXCEPT ![r] = @ + 1]
    /\ Goto(r, "counted")
    /\ UNCHANGED <<next, df, call, mainVars, ghosts>>

\* mutated: one more
ThrottleLate(r) ==
    /\ pc[r] = "counted"
    /\ Goto(r, IF pending[r] > MaxPending + 1 THEN "full" ELSE "reading")
    /\ UNCHANGED <<next, df, pending, call, mainVars, ghosts>>
Throttle(r) ==
    /\ pc[r] = "counted"
    /\ Goto(r, IF pending[r] > MaxPending THEN "full" ELSE "reading")
    /\ UNCHANGED <<next, df, pending, call, mainVars, ghosts>>

(* All documents of this reader have been read.                             *)
Read(r) ==
    /\ pc[r] = "reading" /\ next[r] \notin Doc
    /\ Goto(r, "draining")
    /\ UNCHANGED <<next, df, pending, call, mainVars, ghosts>>

\* mutated: it waits for the callbacks only when it must not go on sending
DrainFull(r) ==
    /\ pc[r] = "draining"
    /\ Goto(r, IF pending[r] > MaxPending THEN "busy" ELSE "ended")
    /\ UNCHANGED <<next, df, pending, call, mainVars, ghosts>>
(* The loop at the end, while anything is pending.                          *)
Drain(r) ==
    /\ pc[r] = "draining"
    /\ Goto(r, IF pending[r] # 0 THEN "busy" ELSE "ended")
    /\ UNCHANGED <<next, df, pending, call, mainVars, ghosts>>

(* cond.wait, which takes no predicate.                                     *)
Sleep(r) ==
    /\ \/ pc[r] = "full" /\ Goto(r, "fullAsleep")
       \/ pc[r] = "busy" /\ Goto(r, "busyAsleep")
    /\ UNCHANGED <<next, df, pending, call, mainVars, ghosts>>

(* A full reader goes on with the next document, without another test; at   *)
(* the end the loop tests again.                                            *)
Wake(r) ==
    \/ /\ pc[r] = "fullAsleep"
       /\ Goto(r, "reading")
       /\ early' = IF pending[r] > MaxPending THEN [early EXCEPT ![r] = @ + 1] ELSE early
    \/ /\ pc[r] = "busyAsleep"
       /\ Goto(r, "draining")
       /\ UNCHANGED early

(* A condition variable may let a thread go on its own.                     *)
SpuriousWakeUp(r) ==
    /\ Wake(r)
    /\ UNCHANGED <<next, df, pending, call, mainVars, missed>>

-----------------------------------------------------------------------------
(* Callbacks.  Neither looks at an error.                                   *)

(* update_index: the write has been answered.                               *)
WriteAnswered(d) ==
    /\ call[d] = "writing"
    /\ call' = [call EXCEPT ![d] = "indexing"]
    /\ UNCHANGED <<readerVars, pending, mainVars, ghosts>>

\* mutated: counted off when written, and again when indexed
IndexAnsweredTwice(d) ==
    /\ call[d] = "indexing"
    /\ pending' = [pending EXCEPT ![ReaderOf(d)] = @ - 2]
    /\ call' = [call EXCEPT ![d] = "counted"]
    /\ UNCHANGED <<readerVars, mainVars, ghosts>>
(* update_index_completion: pending--.                                      *)
IndexAnswered(d) ==
    /\ call[d] = "indexing"
    /\ pending' = [pending EXCEPT ![ReaderOf(d)] = @ - 1]
    /\ call' = [call EXCEPT ![d] = "counted"]
    /\ UNCHANGED <<readerVars, mainVars, ghosts>>

\* mutated: the reader is notified only as it falls below the limit
TestPendingOnce(d) ==
    /\ call[d] = "counted"
    /\ call' = [call EXCEPT ![d] = IF pending[ReaderOf(d)] = MaxPending \div 2
                                   THEN "notifying" ELSE "done"]
    /\ UNCHANGED <<readerVars, pending, mainVars, ghosts>>
TestPending(d) ==
    /\ call[d] = "counted"
    /\ call' = [call EXCEPT ![d] = IF pending[ReaderOf(d)] < MaxPending \div 2
                                   THEN "notifying" ELSE "done"]
    /\ UNCHANGED <<readerVars, pending, mainVars, ghosts>>

(* notify_one is lost on a reader that does not sleep yet.                  *)
Notify(d) ==
    LET r == ReaderOf(d)
    IN  /\ call[d] = "notifying"
        /\ call' = [call EXCEPT ![d] = "done"]
        /\ IF pc[r] \in {"fullAsleep", "busyAsleep"}
           THEN Wake(r) /\ UNCHANGED missed
           ELSE /\ missed' = IF pc[r] \in {"full", "busy"} THEN missed \cup {r} ELSE missed
                /\ UNCHANGED <<pc, early>>
        /\ UNCHANGED <<next, df, pending, mainVars>>

-----------------------------------------------------------------------------
(* add_documents joins the readers in their order and merges their counts.  *)
Join ==
    /\ joined < Step /\ pc[joined] = "ended"
    /\ total' = Merge(total, df[joined])
    /\ joined' = joined + 1
    /\ UNCHANGED <<readerVars, pending, call, saved, ghosts>>

(* load writes the learn elements and waits.                                *)
Save ==
    /\ joined = Step /\ ~saved
    /\ saved' = TRUE
    /\ UNCHANGED <<readerVars, pending, call, joined, total, ghosts>>

ReaderStep(r) ==
    Skip(r) \/ Send(r) \/ Count(r) \/ Throttle(r) \/ Read(r) \/ Drain(r) \/ Sleep(r)
Callback(d) == WriteAnswered(d) \/ IndexAnswered(d) \/ TestPending(d) \/ Notify(d)
Main == Join \/ Save

Next ==
    \/ \E r \in Reader : ReaderStep(r) \/ SpuriousWakeUp(r)
    \/ \E d \in Doc : Callback(d)
    \/ Main

(* Threads run, and elliptics answers every call, if only by its time-out.  *)
(* Nobody can count on a spurious wake-up.                                  *)
Fairness ==
    /\ \A r \in Reader : WF_vars(ReaderStep(r))
    /\ \A d \in Doc : WF_vars(Callback(d))
    /\ WF_vars(Main)

Spec == Init /\ [][Next]_vars /\ Fairness

-----------------------------------------------------------------------------
TypeOK ==
    /\ pc \in [Reader -> {"reading", "sent", "counted", "full", "fullAsleep",
                          "draining", "busy", "busyAsleep", "ended"}]
    /\ next \in [Reader -> Nat]
    /\ df \in [Reader -> [Word -> Nat]]
    /\ pending \in [Reader -> -1 .. DocCount]
    /\ call \in [Doc -> {"none", "skipped", "writing", "indexing", "counted",
                         "notifying", "done"}]
    /\ joined \in 0 .. Step /\ total \in [Word -> Nat] /\ saved \in BOOLEAN
    /\ missed \subseteq Reader /\ early \in [Reader -> Nat]

(* When the readers are joined, each document has been read by one of them  *)
(* and its calls have been answered: the counter, which the callbacks may   *)
(* lower before it is raised, does not let a reader go before               *)
(* (elliptics_parse_docs.cpp:196, 297).                                     *)
LoadedWhenSaved ==
    saved => \A d \in Readable : call[d] \in {"counted", "notifying", "done"}

(* The merged counts say of each word in how many documents it is.          *)
CountsDocuments ==
    saved => \A w \in Word :
        total[w] = Cardinality({d \in Readable : w \in Range(TextOf[d])})

(* At most one document more than the limit is outstanding, and one more    *)
(* for each time a reader was woken with too much outstanding: the sleep at *)
(* the limit is not repeated (elliptics_parse_docs.cpp:299).                *)
Throttled == \A r \in Reader : pending[r] <= MaxPending + 1 + early[r]

(* The loader ends, unless a notification came in the moment between a      *)
(* reader's test and its sleep: that is the only way to hang.               *)
Ends == <>(saved \/ missed # {})
=============================================================================
