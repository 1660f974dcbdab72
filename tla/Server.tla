------------------------------- MODULE Server -------------------------------
(***************************************************************************)
(* The HTTP server (httpserver/server.cpp): an upload writes a document    *)
(* and then the indexes of its words, each with a call to elliptics that   *)
(* is answered later; get reads a document, unless the client has it       *)
(* already; search looks the words of a query up in the indexes.           *)
(*                                                                         *)
(* Requests are handled by several threads, and the handlers share nothing *)
(* but what is stored.  Times are in seconds, as get compares them.  A call*)
(* that fails may have been carried out.                                   *)
(***************************************************************************)
EXTENDS Query

CONSTANTS
    Name,        \* names of documents
    Upload,      \* upload requests
    Contents,    \* contents of documents
    Texts,       \* texts of searches
    MaxClock,    \* bound: seconds
    MaxFaults    \* bound: failed calls

ASSUME ContentAssumption == Contents \subseteq Seq(Word)
ASSUME TextAssumption == Texts \subseteq Seq(Word \cup {Mark})
ASSUME BoundAssumption == MaxClock \in Nat \ {0} /\ MaxFaults \in Nat

VARIABLES
    clock,       \* the present second
    stored,      \* name -> document in the storage
    indexed,     \* name -> its entry in the indexes
    upload,      \* what each upload handler is doing
    copy,        \* name -> what a client has got of it, with Last-Modified
    search,      \* the search under way
    faults,      \* failed calls so far
    \* ghosts, for the properties
    latest,      \* name -> when the newest upload of it came
    written,     \* name -> contents it was ever stored with
    overlapped,  \* names with an upload that came before an earlier one was answered
    rushed,      \* names with an upload in the same second as an earlier one
    failed,      \* names with an upload that has failed
    misread,     \* names answered 304 to a client that had something else
    misfound     \* names a search was wrong about

ghosts == <<latest, written, overlapped, rushed, failed, misread, misfound>>
vars == <<clock, stored, indexed, upload, copy, search, faults, ghosts>>

Time == 0 .. MaxClock
Absent == [content |-> << >>, ts |-> 0]
NoUpload == [at |-> "none"]
Handled == [at : {"received", "writing", "indexing"}, name : Name,
            content : Contents, base : BOOLEAN, ts : Time]
Replied == [at : {"replied"}, status : {200, 400, 503}]
Busy(n) == {r \in Upload : upload[r] \in Handled /\ upload[r].name = n}

Fault == faults < MaxFaults /\ faults' = faults + 1

Init ==
    /\ clock = 1
    /\ stored = [n \in Name |-> Absent] /\ indexed = [n \in Name |-> NoEntry]
    /\ upload = [r \in Upload |-> NoUpload]
    /\ copy = [n \in Name |-> Absent]
    /\ search = << >>
    /\ faults = 0
    /\ latest = [n \in Name |-> 0] /\ written = [n \in Name |-> {}]
    /\ overlapped = {} /\ rushed = {} /\ failed = {} /\ misread = {} /\ misfound = {}

-----------------------------------------------------------------------------
Tick ==
    /\ clock < MaxClock
    /\ clock' = clock + 1
    /\ UNCHANGED <<stored, indexed, upload, copy, search, faults, ghosts>>

(* A handler is made for an upload, and with it the document, whose time is *)
(* the present.                                                             *)
Receive(r, n, content, base) ==
    /\ upload[r] = NoUpload
    /\ upload' = [upload EXCEPT ![r] = [at |-> "received", name |-> n,
                      content |-> content, base |-> base, ts |-> clock]]
    /\ latest' = [latest EXCEPT ![n] = clock]
    /\ overlapped' = IF Busy(n) = {} THEN overlapped ELSE overlapped \cup {n}
    /\ rushed' = IF latest[n] = clock THEN rushed \cup {n} ELSE rushed
    /\ UNCHANGED <<clock, stored, indexed, copy, search, faults, written, failed,
                   misread, misfound>>

Reply(r, status) ==
    upload' = [upload EXCEPT ![r] = [at |-> "replied", status |-> status]]

(* checked: without a name or a base index in the query it answers 400.     *)
Refuse(r) ==
    /\ upload[r] = NoUpload
    /\ Reply(r, 400)
    /\ UNCHANGED <<clock, stored, indexed, copy, search, faults, ghosts>>

(* A definition marked "mutated" is no part of the specification: it is a   *)
(* later definition with a slip of the kind this code invites, and TLC      *)
(* finds the slip by a property.                                            *)

\* mutated: the indexes are set first
CheckedIndexFirst(r) ==
    /\ upload[r].at = "received"
    /\ upload' = [upload EXCEPT ![r].at = "writing"]
    /\ indexed' = [indexed EXCEPT ![upload[r].name] =
                      [text |-> upload[r].content, base |-> upload[r].base]]
    /\ UNCHANGED <<clock, stored, copy, search, faults, ghosts>>
(* checked: the document is complete, and its write begins.                 *)
Checked(r) ==
    /\ upload[r].at = "received"
    /\ upload' = [upload EXCEPT ![r].at = "writing"]
    /\ UNCHANGED <<clock, stored, indexed, copy, search, faults, ghosts>>

\* mutated: the time is not packed
StoreUndated(r) ==
    LET u == upload[r]
    IN  /\ stored' = [stored EXCEPT ![u.name] = [content |-> u.content]]
        /\ written' = [written EXCEPT ![u.name] = @ \cup {u.content}]
(* pack_document and write_data.                                            *)
Store(r) ==
    LET u == upload[r]
    IN  /\ stored' = [stored EXCEPT ![u.name] = [content |-> u.content, ts |-> u.ts]]
        /\ written' = [written EXCEPT ![u.name] = @ \cup {u.content}]

\* mutated: the indexes of a document that has some are left alone
SetIndexesOnce(r) ==
    LET u == upload[r]
    IN  indexed' = [indexed EXCEPT ![u.name] =
                       IF @ = NoEntry THEN [text |-> u.content, base |-> u.base] ELSE @]
(* set_indexes: what the document was in before is forgotten.               *)
SetIndexes(r) ==
    LET u == upload[r]
    IN  indexed' = [indexed EXCEPT ![u.name] = [text |-> u.content, base |-> u.base]]

\* mutated: the upload is answered when the document is written
WriteFinishedOnly(r) ==
    /\ upload[r].at = "writing"
    /\ Store(r)
    /\ Reply(r, 200)
    /\ UNCHANGED <<clock, indexed, copy, search, faults, latest, overlapped, rushed,
                   failed, misread, misfound>>
(* on_write_finished_update_index: with words or a base index there are     *)
(* indexes to set; an empty document without base index is answered, and    *)
(* the indexes of what it replaces stay.                                    *)
WriteFinished(r) ==
    /\ upload[r].at = "writing"
    /\ Store(r)
    /\ IF upload[r].content # << >> \/ upload[r].base
       THEN upload' = [upload EXCEPT ![r].at = "indexing"]
       ELSE Reply(r, 200)
    /\ UNCHANGED <<clock, indexed, copy, search, faults, latest, overlapped, rushed,
                   failed, misread, misfound>>

WriteFailed(r) ==
    /\ upload[r].at = "writing"
    /\ Fault
    /\ Store(r) \/ UNCHANGED <<stored, written>>
    /\ Reply(r, 503)
    /\ failed' = failed \cup {upload[r].name}
    /\ UNCHANGED <<clock, indexed, copy, search, latest, overlapped, rushed,
                   misread, misfound>>

(* on_index_update_finished.                                                *)
IndexUpdated(r) ==
    /\ upload[r].at = "indexing"
    /\ SetIndexes(r)
    /\ Reply(r, 200)
    /\ UNCHANGED <<clock, stored, copy, search, faults, ghosts>>

IndexFailed(r) ==
    /\ upload[r].at = "indexing"
    /\ Fault
    /\ SetIndexes(r) \/ UNCHANGED indexed
    /\ Reply(r, 503)
    /\ failed' = failed \cup {upload[r].name}
    /\ UNCHANGED <<clock, stored, copy, search, latest, written, overlapped, rushed,
                   misread, misfound>>

-----------------------------------------------------------------------------
(* on_get: 200 with the document and its time.  A document that is not      *)
(* there, or a read that fails, leaves the client as it was.                *)
Get(n) ==
    /\ stored[n] # Absent
    /\ copy' = [copy EXCEPT ![n] = stored[n]]
    /\ UNCHANGED <<clock, stored, indexed, upload, search, faults, ghosts>>

\* mutated: asked whether the times are equal, as if they could only grow
NewerThan(n) == stored[n].ts >= copy[n].ts
NotNewer(n) == stored[n].ts <= copy[n].ts

(* The client asks with the time of its copy as If-Modified-Since, and the  *)
(* server answers 304.  (When it does not, that is Get.)                    *)
NotModified(n) ==
    /\ copy[n] # Absent /\ NotNewer(n)
    /\ misread' = IF stored[n].content = copy[n].content THEN misread
                  ELSE misread \cup {n}
    /\ UNCHANGED <<clock, stored, indexed, upload, copy, search, faults, latest,
                   written, overlapped, rushed, failed, misfound>>

(* on_search: a thread asks the storage and waits.  Without a text the      *)
(* answer is 400, and a text whose quotes are cut out of range throws; one  *)
(* without words finds nothing, and one that names the base index keeps its *)
(* thread for ever (module Find).  None of them leaves anything behind.     *)
Search(text) ==
    /\ search = << >>
    /\ ~OutOfRange(text) /\ AskedTokens(text) # {} /\ Unpackable(text)
    /\ search' = text
    /\ UNCHANGED <<clock, stored, indexed, upload, copy, faults, ghosts>>

Found == {n \in Name : Matches(search, indexed[n])}

(* The indexes are searched; the thread goes on, and the client is never    *)
(* sent what was found.                                                     *)
Searched ==
    /\ search # << >>
    /\ search' = << >>
    /\ misfound' = misfound \cup
          {n \in Name : /\ Plain(search)
                        /\ {r \in Busy(n) : upload[r].at # "received"} = {}
                        /\ stored[n].content # << >>
                        /\ n \in Found <=> ~Answers(search, stored[n].content)}
    /\ UNCHANGED <<clock, stored, indexed, upload, copy, faults, latest, written,
                   overlapped, rushed, failed, misread>>

-----------------------------------------------------------------------------
(* Elliptics answers what the handler of an upload has asked.               *)
Answer(r) ==
    WriteFinished(r) \/ WriteFailed(r) \/ IndexUpdated(r) \/ IndexFailed(r)

Next ==
    \/ Tick
    \/ \E r \in Upload :
          \/ \E n \in Name, content \in Contents, base \in BOOLEAN :
                Receive(r, n, content, base)
          \/ Refuse(r)
          \/ Checked(r)
          \/ Answer(r)
    \/ \E n \in Name : Get(n) \/ NotModified(n)
    \/ \E text \in Texts : Search(text)
    \/ Searched

(* Every call to elliptics is answered, if only by its time-out.            *)
Fairness == \A r \in Upload : WF_vars(Answer(r))

Spec == Init /\ [][Next]_vars /\ Fairness

-----------------------------------------------------------------------------
Document == [content : Contents \cup {<< >>}, ts : Time]

TypeOK ==
    /\ clock \in Time
    /\ stored \in [Name -> Document] /\ copy \in [Name -> Document]
    /\ indexed \in [Name -> [text : Contents \cup {<< >>}, base : BOOLEAN]]
    /\ upload \in [Upload -> {NoUpload} \cup Handled \cup Replied]
    /\ search \in Texts \cup {<< >>}
    /\ faults \in 0 .. MaxFaults
    /\ latest \in [Name -> Time]
    /\ written \in [Name -> SUBSET Contents]
    /\ overlapped \subseteq Name /\ rushed \subseteq Name /\ failed \subseteq Name
    /\ misread \subseteq Name /\ misfound \subseteq Name

AtRest(n) == \A r \in Busy(n) : upload[r].at = "received"

(* What was uploaded one after the other without a failure is indexed with  *)
(* the words it is stored with, as soon as it is answered.  The two calls   *)
(* of uploads that overlap may mix: then both are answered 200, and the     *)
(* words of the stored document are not in the indexes (server.cpp:77, 102).*)
IndexAgrees ==
    \A n \in Name \ (overlapped \cup failed) :
        AtRest(n) /\ stored[n].content # << >>
            => indexed[n].text = stored[n].content

(* The indexes never hold words of a document that was not stored before,   *)
(* whatever overlaps and fails: the second call waits for the first.        *)
IndexedWasStored ==
    \A n \in Name : indexed[n].text # << >> => indexed[n].text \in written[n]

(* A client is told 304 only when it has what is stored, if the uploads of  *)
(* the name did not overlap and came in different seconds.  The time of a   *)
(* document is when its handler was made, not when it was written.          *)
NotModifiedHonest == misread \subseteq overlapped \cup rushed

(* A search with at most one quote, and no word twice in it, is right about *)
(* every document at rest whose uploads did not overlap or fail.            *)
SearchRight == misfound \subseteq overlapped \cup failed

(* README:13 says "after your data has been stored, it is guaranteed that it *)
(* will appear in the search indexes".  It holds of the HTTP server when the *)
(* uploads of a name come one after the other and none fails: what is stored *)
(* last is what the indexes say from some time on.                          *)
StoredAppears ==
    \A n \in Name : <>[](n \in overlapped \cup failed \/ stored[n].content = << >>
                            \/ indexed[n].text = stored[n].content)
=============================================================================
