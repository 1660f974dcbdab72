---------------------------- MODULE ServerProofs ----------------------------
(***************************************************************************)
(* Proofs about Server for any names, uploads, contents, times and faults: *)
(* types, that the indexes hold no words that were not stored, that they   *)
(* agree with what is stored, that 304 is honest, and that a search is     *)
(* right (from what QueryProofs says of queries).                          *)
(***************************************************************************)
EXTENDS Server, QueryProofs

(* What an upload is about to index has been stored.                        *)
IndexingWasStored == \A r \in Upload :
    upload[r].at = "indexing" => upload[r].content \in written[upload[r].name]

InHand(r) == upload[r].at \in {"received", "writing", "indexing"}

(* Uploads of a name that never overlapped: one is in hand at a time.       *)
OneInHand == \A r, s \in Upload :
    InHand(r) /\ InHand(s) /\ upload[r].name = upload[s].name
        => r = s \/ upload[r].name \in overlapped

(* It is about to index what is stored, unless another one mixed with it or *)
(* failed.                                                                  *)
IndexesStored == \A r \in Upload :
    upload[r].at = "indexing" /\ upload[r].name \notin overlapped \cup failed
        => stored[upload[r].name].content = upload[r].content

(* The times of a name whose uploads came in different seconds, one after   *)
(* the other.                                                               *)
Orderly == Name \ (overlapped \cup rushed)
StoredByLatest == \A n \in Orderly : stored[n].ts <= latest[n] /\ latest[n] <= clock
NewerInHand == \A r \in Upload :
    upload[r].at \in {"received", "writing"} /\ upload[r].name \in Orderly
        => /\ stored[upload[r].name].ts < upload[r].ts
           /\ upload[r].ts <= latest[upload[r].name]
CopyWasStored == \A n \in Orderly :
    /\ copy[n].ts <= stored[n].ts
    /\ copy[n] # Absent /\ copy[n].ts = stored[n].ts
          => copy[n].content = stored[n].content

LEMMA BusyAt ==
    ASSUME TypeOK, NEW r \in Upload
    PROVE  /\ upload[r] \in Handled
                <=> upload[r].at \in {"received", "writing", "indexing"}
           /\ upload[r] \in Handled =>
                /\ upload[r].name \in Name /\ upload[r].content \in Contents
                /\ upload[r].base \in BOOLEAN /\ upload[r].ts \in Time
  BY DEF TypeOK, Handled, NoUpload, Replied

(* Where an upload goes on, its handler keeps what it was given.            *)
LEMMA AtType ==
    ASSUME TypeOK, NEW r \in Upload, upload[r] \in Handled,
           NEW where \in {"received", "writing", "indexing"}
    PROVE  [upload EXCEPT ![r].at = where]
                \in [Upload -> {NoUpload} \cup Handled \cup Replied]
  <1>1. [upload[r] EXCEPT !.at = where] \in Handled
    BY DEF Handled
  <1> QED  BY <1>1 DEF TypeOK

LEMMA ReplyType ==
    ASSUME TypeOK, NEW r \in Upload, NEW status \in {200, 400, 503}, Reply(r, status)
    PROVE  upload' \in [Upload -> {NoUpload} \cup Handled \cup Replied]
  BY DEF TypeOK, Reply, Replied

LEMMA StoreType ==
    ASSUME TypeOK, NEW r \in Upload, upload[r] \in Handled, Store(r)
    PROVE  stored' \in [Name -> Document] /\ written' \in [Name -> SUBSET Contents]
  BY BusyAt DEF TypeOK, Store, Document

LEMMA SetIndexesType ==
    ASSUME TypeOK, NEW r \in Upload, upload[r] \in Handled, SetIndexes(r)
    PROVE  indexed' \in [Name -> [text : Contents \cup {<< >>}, base : BOOLEAN]]
  BY BusyAt DEF TypeOK, SetIndexes

LEMMA FaultType ==
    ASSUME TypeOK, Fault
    PROVE  faults' \in 0 .. MaxFaults
  BY BoundAssumption DEF TypeOK, Fault

LEMMA InitType == ASSUME Init PROVE TypeOK
  BY BoundAssumption DEF Init, TypeOK, Time, Absent, NoEntry, Document

LEMMA AnswerType ==
    ASSUME TypeOK, NEW r \in Upload, Answer(r)
    PROVE  TypeOK'
  <1>1. CASE WriteFinished(r)
    <2>1. upload[r] \in Handled /\ Store(r)
      BY <1>1, BusyAt DEF WriteFinished
    <2>2. CASE upload[r].content # << >> \/ upload[r].base
      <3>1. upload' = [upload EXCEPT ![r].at = "indexing"]
        BY <1>1, <2>2 DEF WriteFinished
      <3> QED  BY <1>1, <2>1, <3>1, AtType, StoreType DEF WriteFinished, TypeOK
    <2>3. CASE ~(upload[r].content # << >> \/ upload[r].base)
      <3>1. Reply(r, 200)
        BY <1>1, <2>3 DEF WriteFinished
      <3> QED  BY <1>1, <2>1, <3>1, ReplyType, StoreType DEF WriteFinished, TypeOK
    <2> QED  BY <2>2, <2>3
  <1>2. CASE WriteFailed(r)
    <2>1. upload[r] \in Handled /\ upload[r].name \in Name
      BY <1>2, BusyAt DEF WriteFailed
    <2>2. upload' \in [Upload -> {NoUpload} \cup Handled \cup Replied]
      BY <1>2, ReplyType DEF WriteFailed
    <2>3. stored' \in [Name -> Document] /\ written' \in [Name -> SUBSET Contents]
      BY <1>2, <2>1, StoreType DEF WriteFailed, TypeOK
    <2>4. faults' \in 0 .. MaxFaults
      BY <1>2, FaultType DEF WriteFailed
    <2> QED  BY <1>2, <2>1, <2>2, <2>3, <2>4 DEF WriteFailed, TypeOK
  <1>3. CASE IndexUpdated(r)
    BY <1>3, BusyAt, ReplyType, SetIndexesType DEF IndexUpdated, TypeOK, ghosts
  <1>4. CASE IndexFailed(r)
    <2>1. upload[r] \in Handled /\ upload[r].name \in Name
      BY <1>4, BusyAt DEF IndexFailed
    <2>2. upload' \in [Upload -> {NoUpload} \cup Handled \cup Replied]
      BY <1>4, ReplyType DEF IndexFailed
    <2>3. indexed' \in [Name -> [text : Contents \cup {<< >>}, base : BOOLEAN]]
      BY <1>4, <2>1, SetIndexesType DEF IndexFailed, TypeOK
    <2>4. faults' \in 0 .. MaxFaults
      BY <1>4, FaultType DEF IndexFailed
    <2> QED  BY <1>4, <2>1, <2>2, <2>3, <2>4 DEF IndexFailed, TypeOK
  <1> QED  BY <1>1, <1>2, <1>3, <1>4 DEF Answer

LEMMA NextType == ASSUME TypeOK, Next PROVE TypeOK'
  <1>1. CASE Tick
    BY <1>1, BoundAssumption DEF Tick, TypeOK, Time, ghosts
  <1>2. ASSUME NEW r \in Upload, NEW n \in Name, NEW content \in Contents,
               NEW base \in BOOLEAN, Receive(r, n, content, base)
        PROVE  TypeOK'
    <2>1. [at |-> "received", name |-> n, content |-> content, base |-> base,
           ts |-> clock] \in Handled
      BY DEF Handled, TypeOK
    <2> QED  BY <1>2, <2>1 DEF Receive, TypeOK
  <1>3. ASSUME NEW r \in Upload, Refuse(r) PROVE TypeOK'
    BY <1>3, ReplyType DEF Refuse, TypeOK, ghosts
  <1>4. ASSUME NEW r \in Upload, Checked(r) PROVE TypeOK'
    BY <1>4, BusyAt, AtType DEF Checked, TypeOK, ghosts
  <1>5. ASSUME NEW r \in Upload, Answer(r) PROVE TypeOK'
    BY <1>5, AnswerType
  <1>6. ASSUME NEW n \in Name, Get(n) PROVE TypeOK'
    BY <1>6 DEF Get, TypeOK, ghosts
  <1>7. ASSUME NEW n \in Name, NotModified(n) PROVE TypeOK'
    BY <1>7 DEF NotModified, TypeOK
  <1>8. ASSUME NEW text \in Texts, Search(text) PROVE TypeOK'
    BY <1>8 DEF Search, TypeOK, ghosts
  <1>9. CASE Searched
    BY <1>9 DEF Searched, TypeOK
  <1> QED  BY <1>1, <1>2, <1>3, <1>4, <1>5, <1>6, <1>7, <1>8, <1>9 DEF Next

LEMMA StutterType == ASSUME TypeOK, UNCHANGED vars PROVE TypeOK'
  BY DEF vars, ghosts, TypeOK

(* Every reachable state of the server is well typed.                       *)
THEOREM TypeCorrect == Spec => []TypeOK
  <1>1. Init => TypeOK
    BY InitType
  <1>2. TypeOK /\ [Next]_vars => TypeOK'
    BY NextType, StutterType
  <1> QED  BY <1>1, <1>2, PTL DEF Spec

-----------------------------------------------------------------------------
(* The disjuncts of Next, one below the other.                              *)
LEMMA NextSteps ==
    ASSUME Next
    PROVE  \/ Tick \/ Searched
           \/ \E r \in Upload, n \in Name, content \in Contents, base \in BOOLEAN :
                 Receive(r, n, content, base)
           \/ \E r \in Upload : Refuse(r) \/ Checked(r) \/ WriteFinished(r)
                 \/ WriteFailed(r) \/ IndexUpdated(r) \/ IndexFailed(r)
           \/ \E n \in Name : Get(n) \/ NotModified(n)
           \/ \E text \in Texts : Search(text)
  BY DEF Next, Answer

LEMMA StoreEffect ==
    ASSUME TypeOK, NEW r \in Upload, upload[r] \in Handled, Store(r)
    PROVE  /\ stored'[upload[r].name] = [content |-> upload[r].content, ts |-> upload[r].ts]
           /\ \A n \in Name \ {upload[r].name} : stored'[n] = stored[n]
           /\ upload[r].content \in written'[upload[r].name]
           /\ \A n \in Name : written[n] \subseteq written'[n]
  BY BusyAt DEF TypeOK, Store

LEMMA SetIndexesEffect ==
    ASSUME TypeOK, NEW r \in Upload, upload[r] \in Handled, SetIndexes(r)
    PROVE  /\ indexed'[upload[r].name] = [text |-> upload[r].content, base |-> upload[r].base]
           /\ \A n \in Name \ {upload[r].name} : indexed'[n] = indexed[n]
  BY BusyAt DEF TypeOK, SetIndexes

LEMMA ReplyEffect ==
    ASSUME TypeOK, NEW r \in Upload, NEW status, Reply(r, status)
    PROVE  /\ upload'[r].at = "replied"
           /\ \A s \in Upload \ {r} : upload'[s] = upload[s]
  BY DEF TypeOK, Reply

LEMMA AtEffect ==
    ASSUME TypeOK, NEW r \in Upload, upload[r] \in Handled,
           NEW where, upload' = [upload EXCEPT ![r].at = where]
    PROVE  /\ upload'[r].at = where /\ upload'[r].name = upload[r].name
           /\ upload'[r].content = upload[r].content /\ upload'[r].ts = upload[r].ts
           /\ \A s \in Upload \ {r} : upload'[s] = upload[s]
  BY DEF TypeOK, Handled

(* WriteFinished leaves its upload indexing or replied.                     *)
LEMMA WriteFinishedEffect ==
    ASSUME TypeOK, NEW r \in Upload, WriteFinished(r)
    PROVE  /\ upload[r] \in Handled /\ Store(r)
           /\ \A s \in Upload \ {r} : upload'[s] = upload[s]
           /\ \/ /\ upload'[r].at = "indexing" /\ upload'[r].name = upload[r].name
                 /\ upload'[r].content = upload[r].content
              \/ upload'[r].at = "replied" /\ upload[r].content = << >>
  <1>1. upload[r] \in Handled /\ Store(r)
    BY BusyAt DEF WriteFinished
  <1>2. CASE upload[r].content # << >> \/ upload[r].base
    <2>1. upload' = [upload EXCEPT ![r].at = "indexing"]
      BY <1>2 DEF WriteFinished
    <2> QED  BY <1>1, <2>1, AtEffect
  <1>3. CASE ~(upload[r].content # << >> \/ upload[r].base)
    <2>1. Reply(r, 200)
      BY <1>3 DEF WriteFinished
    <2> QED  BY <1>1, <1>3, <2>1, ReplyEffect
  <1> QED  BY <1>2, <1>3

-----------------------------------------------------------------------------
LEMMA IndexedStep ==
    ASSUME TypeOK, IndexingWasStored, IndexedWasStored, Next
    PROVE  IndexingWasStored' /\ IndexedWasStored'
  <1> DEFINE Quiet == UNCHANGED <<upload, indexed, written>>
  <1>1. ASSUME Quiet PROVE IndexingWasStored' /\ IndexedWasStored'
    BY <1>1 DEF IndexingWasStored, IndexedWasStored
  <1>2. ASSUME NEW r \in Upload, NEW n \in Name, NEW content \in Contents,
               NEW base \in BOOLEAN, Receive(r, n, content, base)
        PROVE  IndexingWasStored' /\ IndexedWasStored'
    BY <1>2 DEF Receive, TypeOK, IndexingWasStored, IndexedWasStored
  <1>3. ASSUME NEW r \in Upload, Refuse(r)
        PROVE  IndexingWasStored' /\ IndexedWasStored'
    BY <1>3, ReplyEffect DEF Refuse, ghosts, IndexingWasStored, IndexedWasStored
  <1>4. ASSUME NEW r \in Upload, Checked(r)
        PROVE  IndexingWasStored' /\ IndexedWasStored'
    <2>1. upload[r] \in Handled
      BY <1>4, BusyAt DEF Checked
    <2> QED
      BY <1>4, <2>1, AtEffect DEF Checked, ghosts, IndexingWasStored, IndexedWasStored
  <1>5. ASSUME NEW r \in Upload, WriteFinished(r)
        PROVE  IndexingWasStored' /\ IndexedWasStored'
    <2>1. IndexingWasStored'
      <3> SUFFICES ASSUME NEW s \in Upload, upload'[s].at = "indexing"
                   PROVE  upload'[s].content \in written'[upload'[s].name]
        BY DEF IndexingWasStored
      <3>1. CASE s = r
        BY <1>5, <3>1, WriteFinishedEffect, StoreEffect
      <3>2. CASE s # r
        BY <1>5, <3>2, WriteFinishedEffect, StoreEffect, BusyAt DEF IndexingWasStored
      <3> QED  BY <3>1, <3>2
    <2>2. IndexedWasStored'
      BY <1>5, WriteFinishedEffect, StoreEffect DEF WriteFinished, IndexedWasStored
    <2> QED  BY <2>1, <2>2
  <1>6. ASSUME NEW r \in Upload, WriteFailed(r)
        PROVE  IndexingWasStored' /\ IndexedWasStored'
    <2>1. upload[r] \in Handled
      BY <1>6, BusyAt DEF WriteFailed
    <2>2. \A n \in Name : written[n] \subseteq written'[n]
      BY <1>6, <2>1, StoreEffect DEF WriteFailed
    <2>3. upload'[r].at = "replied" /\ \A s \in Upload \ {r} : upload'[s] = upload[s]
      BY <1>6, ReplyEffect DEF WriteFailed
    <2>4. indexed' = indexed
      BY <1>6 DEF WriteFailed
    <2> QED  BY <2>2, <2>3, <2>4, BusyAt DEF IndexingWasStored, IndexedWasStored
  <1>7. ASSUME NEW r \in Upload, IndexUpdated(r) \/ IndexFailed(r)
        PROVE  IndexingWasStored' /\ IndexedWasStored'
    <2>1. upload[r] \in Handled /\ upload[r].at = "indexing" /\ written' = written
      BY <1>7, BusyAt DEF IndexUpdated, IndexFailed, ghosts
    <2>2. upload'[r].at = "replied" /\ \A s \in Upload \ {r} : upload'[s] = upload[s]
      BY <1>7, ReplyEffect DEF IndexUpdated, IndexFailed
    <2>3. SetIndexes(r) \/ indexed' = indexed
      BY <1>7 DEF IndexUpdated, IndexFailed
    <2>4. IndexingWasStored'
      BY <2>1, <2>2 DEF IndexingWasStored
    <2>5. CASE SetIndexes(r)
      <3>1. upload[r].content \in written[upload[r].name]
        BY <2>1 DEF IndexingWasStored
      <3>2. indexed'[upload[r].name].text = upload[r].content
        <4>1. indexed'[upload[r].name]
                  = [text |-> upload[r].content, base |-> upload[r].base]
          BY <2>1, <2>5, SetIndexesEffect
        <4> QED  BY <4>1
      <3>3. \A n \in Name \ {upload[r].name} : indexed'[n] = indexed[n]
        BY <2>1, <2>5, SetIndexesEffect
      <3>4. \A n \in Name : indexed'[n].text # << >> => indexed'[n].text \in written[n]
        <4> TAKE n \in Name
        <4>1. CASE n = upload[r].name
          BY <3>1, <3>2, <4>1
        <4>2. CASE n # upload[r].name
          BY <3>3, <4>2 DEF IndexedWasStored
        <4> QED  BY <4>1, <4>2
      <3> QED  BY <2>1, <2>4, <3>4 DEF IndexedWasStored
    <2>6. CASE indexed' = indexed
      BY <2>1, <2>4, <2>6 DEF IndexedWasStored
    <2> QED  BY <2>3, <2>5, <2>6
  <1>8. Tick \/ Searched => Quiet
    BY DEF Tick, Searched, ghosts
  <1>9. ASSUME NEW n \in Name, Get(n) \/ NotModified(n) PROVE Quiet
    BY <1>9 DEF Get, NotModified, ghosts
  <1>10. ASSUME NEW text \in Texts, Search(text) PROVE Quiet
    BY <1>10 DEF Search, ghosts
  <1> HIDE DEF Quiet
  <1> QED
    BY <1>1, <1>2, <1>3, <1>4, <1>5, <1>6, <1>7, <1>8, <1>9, <1>10, NextSteps

(* The indexes never hold words of a document that was not stored before,   *)
(* whatever uploads overlap and whatever fails.                             *)
THEOREM IndexedAlwaysStored == Spec => []IndexedWasStored
  <1>1. Init => IndexingWasStored /\ IndexedWasStored
    BY DEF Init, IndexingWasStored, IndexedWasStored, NoUpload, NoEntry
  <1>2. TypeOK /\ IndexingWasStored /\ IndexedWasStored /\ [Next]_vars
            => IndexingWasStored' /\ IndexedWasStored'
    <2>1. ASSUME IndexingWasStored, IndexedWasStored, UNCHANGED vars
          PROVE  IndexingWasStored' /\ IndexedWasStored'
      BY <2>1 DEF vars, ghosts, IndexingWasStored, IndexedWasStored
    <2> QED  BY <2>1, IndexedStep
  <1> QED  BY <1>1, <1>2, TypeCorrect, PTL DEF Spec

-----------------------------------------------------------------------------
(* What every step of the handler of r does: others stay as they are, and   *)
(* it takes no other document in hand.                                      *)
Moves(r) ==
    /\ \A s \in Upload \ {r} : upload'[s] = upload[s]
    /\ InHand(r)' => /\ InHand(r) /\ upload'[r].name = upload[r].name
                     /\ upload'[r].content = upload[r].content
                     /\ upload'[r].ts = upload[r].ts
    /\ overlapped' = overlapped /\ rushed' = rushed /\ latest' = latest
    /\ clock' = clock /\ copy' = copy /\ misread' = misread

LEMMA HandlerMoves ==
    ASSUME TypeOK, NEW r \in Upload,
           \/ Refuse(r) \/ Checked(r) \/ WriteFinished(r) \/ WriteFailed(r)
           \/ IndexUpdated(r) \/ IndexFailed(r)
    PROVE  Moves(r)
  <1>1. CASE Refuse(r)
    BY <1>1, ReplyEffect DEF Refuse, Moves, InHand, ghosts
  <1>2. CASE Checked(r)
    <2>1. upload[r] \in Handled /\ InHand(r)
      BY <1>2, BusyAt DEF Checked, InHand
    <2> QED  BY <1>2, <2>1, AtEffect DEF Checked, Moves, ghosts
  <1>3. CASE WriteFinished(r)
    <2>1. upload[r].at = "writing" /\ upload[r] \in Handled
      BY <1>3, BusyAt DEF WriteFinished
    <2>2. CASE upload[r].content # << >> \/ upload[r].base
      <3>1. upload' = [upload EXCEPT ![r].at = "indexing"]
        BY <1>3, <2>2 DEF WriteFinished
      <3> QED  BY <1>3, <2>1, <3>1, AtEffect DEF WriteFinished, Moves, InHand
    <2>3. CASE ~(upload[r].content # << >> \/ upload[r].base)
      <3>1. Reply(r, 200)
        BY <1>3, <2>3 DEF WriteFinished
      <3> QED  BY <1>3, <3>1, ReplyEffect DEF WriteFinished, Moves, InHand
    <2> QED  BY <2>2, <2>3
  <1>4. CASE WriteFailed(r)
    BY <1>4, ReplyEffect DEF WriteFailed, Moves, InHand
  <1>5. CASE IndexUpdated(r)
    BY <1>5, ReplyEffect DEF IndexUpdated, Moves, InHand, ghosts
  <1>6. CASE IndexFailed(r)
    BY <1>6, ReplyEffect DEF IndexFailed, Moves, InHand
  <1> QED  BY <1>1, <1>2, <1>3, <1>4, <1>5, <1>6

LEMMA MovesOneInHand ==
    ASSUME OneInHand, NEW r \in Upload, Moves(r)
    PROVE  OneInHand'
  BY DEF OneInHand, Moves, InHand

LEMMA ReceiveEffect ==
    ASSUME TypeOK, NEW r \in Upload, NEW n \in Name, NEW content \in Contents,
           NEW base \in BOOLEAN, Receive(r, n, content, base)
    PROVE  /\ ~InHand(r) /\ upload'[r].at = "received" /\ upload'[r].name = n
           /\ upload'[r].ts = clock
           /\ \A s \in Upload \ {r} : upload'[s] = upload[s]
           /\ \A s \in Upload : InHand(s) /\ upload[s].name = n => n \in overlapped'
           /\ overlapped \subseteq overlapped' /\ rushed \subseteq rushed'
  <1>1. ~InHand(r)
    BY DEF Receive, NoUpload, InHand
  <1>2. /\ upload'[r].at = "received" /\ upload'[r].name = n /\ upload'[r].ts = clock
        /\ \A s \in Upload \ {r} : upload'[s] = upload[s]
    BY DEF Receive, TypeOK
  <1>3. ASSUME NEW s \in Upload, InHand(s), upload[s].name = n PROVE n \in overlapped'
    <2>1. s \in Busy(n)
      BY <1>3, BusyAt DEF InHand, Busy
    <2> QED  BY <2>1 DEF Receive
  <1>4. overlapped \subseteq overlapped' /\ rushed \subseteq rushed'
    BY DEF Receive
  <1> QED  BY <1>1, <1>2, <1>3, <1>4

LEMMA OneInHandStep ==
    ASSUME TypeOK, OneInHand, Next
    PROVE  OneInHand'
  <1>1. ASSUME NEW r \in Upload, NEW n \in Name, NEW content \in Contents,
               NEW base \in BOOLEAN, Receive(r, n, content, base)
        PROVE  OneInHand'
    BY <1>1, ReceiveEffect DEF OneInHand, InHand
  <1>2. ASSUME UNCHANGED <<upload, overlapped>> PROVE OneInHand'
    BY <1>2 DEF OneInHand, InHand
  <1>3. Tick \/ Searched => UNCHANGED <<upload, overlapped>>
    BY DEF Tick, Searched, ghosts
  <1>4. ASSUME NEW n \in Name, Get(n) \/ NotModified(n)
        PROVE  UNCHANGED <<upload, overlapped>>
    BY <1>4 DEF Get, NotModified, ghosts
  <1>5. ASSUME NEW text \in Texts, Search(text) PROVE UNCHANGED <<upload, overlapped>>
    BY <1>5 DEF Search, ghosts
  <1> QED
    BY <1>1, <1>2, <1>3, <1>4, <1>5, HandlerMoves, MovesOneInHand, NextSteps

-----------------------------------------------------------------------------
(* No upload of n is writing or indexing.                                   *)
Settled(n) == \A r \in Upload :
    InHand(r) /\ upload[r].name = n => upload[r].at = "received"

LEMMA RestIsSettled ==
    ASSUME TypeOK, NEW n \in Name
    PROVE  AtRest(n) <=> Settled(n)
  BY BusyAt DEF AtRest, Busy, Settled, InHand

(* IndexAgrees in terms of Settled.                                         *)
Agrees == \A n \in Name \ (overlapped \cup failed) :
    Settled(n) /\ stored[n].content # << >> => indexed[n].text = stored[n].content

LEMMA AgreesIs == ASSUME TypeOK, Agrees PROVE IndexAgrees
  BY RestIsSettled DEF Agrees, IndexAgrees

LEMMA MovesSettled ==
    ASSUME NEW r \in Upload, Moves(r), NEW n \in Name, Settled(n)',
           InHand(r) => upload[r].at = "received" \/ upload[r].name # n
    PROVE  Settled(n)
  BY DEF Settled, Moves, InHand

LEMMA CheckedAgrees ==
    ASSUME TypeOK, IndexesStored, Agrees, NEW r \in Upload, Refuse(r) \/ Checked(r)
    PROVE  IndexesStored' /\ Agrees'
  <1>1. Moves(r) /\ upload'[r].at # "indexing"
    <2>1. CASE Refuse(r)
      BY <2>1, HandlerMoves, ReplyEffect DEF Refuse
    <2>2. CASE Checked(r)
      <3>1. upload[r] \in Handled
        BY <2>2, BusyAt DEF Checked
      <3>2. upload'[r].at = "writing"
        BY <2>2, <3>1, AtEffect DEF Checked
      <3> QED  BY <2>2, <3>2, HandlerMoves
    <2> QED  BY <2>1, <2>2
  <1>2. /\ stored' = stored /\ indexed' = indexed /\ failed' = failed
        /\ InHand(r) => upload[r].at = "received"
    BY DEF Refuse, Checked, ghosts, InHand, NoUpload
  <1>3. IndexesStored'
    BY <1>1, <1>2 DEF IndexesStored, Moves
  <1>4. Agrees'
    BY <1>1, <1>2, MovesSettled DEF Agrees, Moves
  <1> QED  BY <1>3, <1>4

LEMMA WriteFinishedAgrees ==
    ASSUME TypeOK, OneInHand, IndexesStored, Agrees, NEW r \in Upload, WriteFinished(r)
    PROVE  IndexesStored' /\ Agrees'
  <1> DEFINE m == upload[r].name
  <1>1. /\ upload[r] \in Handled /\ Store(r) /\ InHand(r) /\ upload[r].at = "writing"
        /\ m \in Name
    BY WriteFinishedEffect, BusyAt DEF WriteFinished, InHand
  <1>2. /\ stored'[m] = [content |-> upload[r].content, ts |-> upload[r].ts]
        /\ \A n \in Name \ {m} : stored'[n] = stored[n]
    BY <1>1, StoreEffect
  <1>3. Moves(r) /\ indexed' = indexed /\ failed' = failed
    BY HandlerMoves DEF WriteFinished
  <1>4. stored'[m].content = upload[r].content
    BY <1>2
  <1>5. IndexesStored'
    <2> SUFFICES ASSUME NEW s \in Upload, upload'[s].at = "indexing",
                        upload'[s].name \notin overlapped' \cup failed'
                 PROVE  stored'[upload'[s].name].content = upload'[s].content
      BY DEF IndexesStored
    <2>1. CASE s = r
      BY <1>4, <2>1, WriteFinishedEffect
    <2>2. CASE s # r
      <3>1. upload[s].at = "indexing" /\ upload[s] = upload'[s] /\ InHand(s)
        BY <1>3, <2>2 DEF Moves, InHand
      <3>2. upload[s].name # m
        BY <1>1, <1>3, <2>2, <3>1 DEF OneInHand, Moves
      <3>3. upload[s].name \in Name
        BY <3>1, BusyAt
      <3> QED  BY <1>2, <1>3, <3>1, <3>2, <3>3 DEF IndexesStored, Moves
    <2> QED  BY <2>1, <2>2
  <1>6. Agrees'
    <2> SUFFICES ASSUME NEW n \in Name, n \notin overlapped' \cup failed', Settled(n)',
                        stored'[n].content # << >>
                 PROVE  indexed'[n].text = stored'[n].content
      BY DEF Agrees
    <2>1. n # m
      BY <1>4, WriteFinishedEffect DEF Settled, InHand
    <2>2. Settled(n)
      BY <1>3, <2>1, MovesSettled
    <2> QED  BY <1>2, <1>3, <2>1, <2>2 DEF Agrees, Moves
  <1> QED  BY <1>5, <1>6

LEMMA FailedAgrees ==
    ASSUME TypeOK, IndexesStored, Agrees, NEW r \in Upload,
           WriteFailed(r) \/ IndexFailed(r)
    PROVE  IndexesStored' /\ Agrees'
  <1> DEFINE m == upload[r].name
  <1>1. upload[r] \in Handled /\ m \in Name
    BY BusyAt DEF WriteFailed, IndexFailed
  <1>2. \A n \in Name \ {m} : stored'[n] = stored[n] /\ indexed'[n] = indexed[n]
    <2>1. CASE WriteFailed(r)
      BY <1>1, <2>1, StoreEffect DEF WriteFailed
    <2>2. CASE IndexFailed(r)
      BY <1>1, <2>2, SetIndexesEffect DEF IndexFailed
    <2> QED  BY <2>1, <2>2
  <1>3. Moves(r) /\ failed' = failed \cup {m} /\ upload'[r].at = "replied"
    BY HandlerMoves, ReplyEffect DEF WriteFailed, IndexFailed
  <1>4. IndexesStored'
    <2> SUFFICES ASSUME NEW s \in Upload, upload'[s].at = "indexing",
                        upload'[s].name \notin overlapped' \cup failed'
                 PROVE  stored'[upload'[s].name].content = upload'[s].content
      BY DEF IndexesStored
    <2>1. s # r /\ upload'[s] = upload[s]
      BY <1>3 DEF Moves
    <2>2. upload[s].name \in Name \ {m}
      BY <1>3, <2>1, BusyAt
    <2> QED  BY <1>2, <1>3, <2>1, <2>2 DEF IndexesStored, Moves
  <1>5. Agrees'
    <2> SUFFICES ASSUME NEW n \in Name, n \notin overlapped' \cup failed', Settled(n)',
                        stored'[n].content # << >>
                 PROVE  indexed'[n].text = stored'[n].content
      BY DEF Agrees
    <2>1. n # m
      BY <1>3
    <2>2. Settled(n)
      BY <1>3, <2>1, MovesSettled
    <2> QED  BY <1>2, <1>3, <2>1, <2>2 DEF Agrees, Moves
  <1> QED  BY <1>4, <1>5

LEMMA IndexUpdatedAgrees ==
    ASSUME TypeOK, IndexesStored, Agrees, NEW r \in Upload, IndexUpdated(r)
    PROVE  IndexesStored' /\ Agrees'
  <1> DEFINE m == upload[r].name
  <1>1. upload[r] \in Handled /\ upload[r].at = "indexing" /\ m \in Name
    BY BusyAt DEF IndexUpdated
  <1>2. /\ indexed'[m] = [text |-> upload[r].content, base |-> upload[r].base]
        /\ \A n \in Name \ {m} : indexed'[n] = indexed[n]
    BY <1>1, SetIndexesEffect DEF IndexUpdated
  <1>3. /\ Moves(r) /\ stored' = stored /\ failed' = failed
        /\ upload'[r].at = "replied"
    BY HandlerMoves, ReplyEffect DEF IndexUpdated, ghosts
  <1>4. indexed'[m].text = upload[r].content
    BY <1>2
  <1>5. IndexesStored'
    BY <1>3 DEF IndexesStored, Moves
  <1>6. Agrees'
    <2> SUFFICES ASSUME NEW n \in Name, n \notin overlapped' \cup failed', Settled(n)',
                        stored'[n].content # << >>
                 PROVE  indexed'[n].text = stored'[n].content
      BY DEF Agrees
    <2>1. CASE n = m
      BY <1>1, <1>3, <1>4, <2>1 DEF IndexesStored, Moves
    <2>2. CASE n # m
      <3>1. Settled(n)
        BY <1>3, <2>2, MovesSettled
      <3> QED  BY <1>2, <1>3, <2>2, <3>1 DEF Agrees, Moves
    <2> QED  BY <2>1, <2>2
  <1> QED  BY <1>5, <1>6

LEMMA AgreesStep ==
    ASSUME TypeOK, OneInHand, IndexesStored, Agrees, Next
    PROVE  IndexesStored' /\ Agrees'
  <1> DEFINE Quiet == UNCHANGED <<stored, indexed, upload, overlapped, failed>>
  <1>1. ASSUME NEW r \in Upload, NEW n \in Name, NEW content \in Contents,
               NEW base \in BOOLEAN, Receive(r, n, content, base)
        PROVE  IndexesStored' /\ Agrees'
    <2>1. stored' = stored /\ indexed' = indexed /\ failed' = failed
      BY <1>1 DEF Receive
    <2>2. IndexesStored'
      BY <1>1, <2>1, ReceiveEffect DEF IndexesStored
    <2>3. \A k \in Name : Settled(k)' => Settled(k)
      BY <1>1, ReceiveEffect DEF Settled, InHand
    <2>4. Agrees'
      BY <1>1, <2>1, <2>3, ReceiveEffect DEF Agrees
    <2> QED  BY <2>2, <2>4
  <1>2. ASSUME Quiet PROVE IndexesStored' /\ Agrees'
    BY <1>2 DEF IndexesStored, Agrees, Settled, InHand
  <1>3. Tick \/ Searched => Quiet
    BY DEF Tick, Searched, ghosts
  <1>4. ASSUME NEW n \in Name, Get(n) \/ NotModified(n) PROVE Quiet
    BY <1>4 DEF Get, NotModified, ghosts
  <1>5. ASSUME NEW text \in Texts, Search(text) PROVE Quiet
    BY <1>5 DEF Search, ghosts
  <1> HIDE DEF Quiet
  <1> QED
    BY <1>1, <1>2, <1>3, <1>4, <1>5, CheckedAgrees, WriteFinishedAgrees, FailedAgrees,
       IndexUpdatedAgrees, NextSteps

(* What was uploaded one after the other without a failure is indexed with  *)
(* the words it is stored with, as soon as it is answered.                  *)
THEOREM IndexAlwaysAgrees == Spec => []IndexAgrees
  <1> DEFINE Inv == OneInHand /\ IndexesStored /\ Agrees
  <1>1. Init => Inv
    BY DEF Init, OneInHand, IndexesStored, Agrees, InHand, NoUpload, Absent
  <1>2. TypeOK /\ Inv /\ [Next]_vars => Inv'
    <2>1. ASSUME Inv, UNCHANGED vars PROVE Inv'
      BY <2>1 DEF vars, ghosts, OneInHand, IndexesStored, Agrees, Settled, InHand
    <2> QED  BY <2>1, OneInHandStep, AgreesStep
  <1>3. TypeOK /\ Inv => IndexAgrees
    BY AgreesIs
  <1> HIDE DEF Inv
  <1> QED  BY <1>1, <1>2, <1>3, TypeCorrect, PTL DEF Spec

-----------------------------------------------------------------------------
(* What 304 rests on.                                                       *)
TimesAgree == StoredByLatest /\ NewerInHand /\ CopyWasStored /\ NotModifiedHonest

LEMMA Times ==
    ASSUME TypeOK
    PROVE  /\ clock \in Nat
           /\ \A n \in Name : stored[n].ts \in Nat /\ copy[n].ts \in Nat /\ latest[n] \in Nat
           /\ \A r \in Upload : InHand(r) => upload[r].name \in Name /\ upload[r].ts \in Nat
  <1>1. clock \in Nat /\ \A n \in Name : latest[n] \in Nat
    BY DEF TypeOK, Time
  <1>2. \A n \in Name : stored[n].ts \in Nat /\ copy[n].ts \in Nat
    BY DEF TypeOK, Document, Time
  <1>3. \A r \in Upload : InHand(r) => upload[r].name \in Name /\ upload[r].ts \in Nat
    BY BusyAt DEF InHand, Time
  <1> QED  BY <1>1, <1>2, <1>3

(* A step of a handler stores its document, which is then no longer to be   *)
(* stored, or leaves what is stored alone.                                  *)
LEMMA HandlerStores ==
    ASSUME TypeOK, NEW r \in Upload,
           \/ Refuse(r) \/ Checked(r) \/ WriteFinished(r) \/ WriteFailed(r)
           \/ IndexUpdated(r) \/ IndexFailed(r)
    PROVE  \/ /\ stored' = stored
              /\ upload'[r].at \in {"received", "writing"}
                    => upload[r].at \in {"received", "writing"}
           \/ /\ Store(r) /\ upload[r].at = "writing"
              /\ upload'[r].at \notin {"received", "writing"}
  <1>1. CASE Refuse(r)
    BY <1>1, ReplyEffect DEF Refuse
  <1>2. CASE Checked(r)
    BY <1>2 DEF Checked
  <1>3. CASE WriteFinished(r)
    BY <1>3, WriteFinishedEffect DEF WriteFinished
  <1>4. CASE WriteFailed(r)
    BY <1>4, ReplyEffect DEF WriteFailed
  <1>5. CASE IndexUpdated(r)
    BY <1>5, ReplyEffect DEF IndexUpdated
  <1>6. CASE IndexFailed(r)
    BY <1>6, ReplyEffect DEF IndexFailed
  <1> QED  BY <1>1, <1>2, <1>3, <1>4, <1>5, <1>6

LEMMA StoreTimesAgree ==
    ASSUME TypeOK, OneInHand, TimesAgree, NEW r \in Upload, Moves(r), Store(r),
           upload[r].at = "writing", upload'[r].at \notin {"received", "writing"}
    PROVE  TimesAgree'
  <1> DEFINE m == upload[r].name
  <1>1. upload[r] \in Handled /\ InHand(r) /\ m \in Name
    BY BusyAt DEF InHand
  <1>2. /\ stored'[m] = [content |-> upload[r].content, ts |-> upload[r].ts]
        /\ \A n \in Name \ {m} : stored'[n] = stored[n]
    BY <1>1, StoreEffect
  <1>3. stored'[m].ts = upload[r].ts
    BY <1>2
  <1>4. Orderly' = Orderly /\ misread' = misread /\ latest' = latest
        /\ clock' = clock /\ copy' = copy
    BY DEF Moves, Orderly
  <1>5. m \in Orderly => stored[m].ts < upload[r].ts /\ upload[r].ts <= latest[m]
    BY DEF TimesAgree, NewerInHand
  <1>6. StoredByLatest'
    <2> SUFFICES ASSUME NEW n \in Orderly
                 PROVE  stored'[n].ts <= latest[n] /\ latest[n] <= clock
      BY <1>4 DEF StoredByLatest
    <2>1. CASE n = m
      BY <1>3, <1>5, <2>1 DEF TimesAgree, StoredByLatest
    <2>2. CASE n # m
      BY <1>2, <2>2 DEF TimesAgree, StoredByLatest, Orderly
    <2> QED  BY <2>1, <2>2
  <1>7. NewerInHand'
    <2> SUFFICES ASSUME NEW s \in Upload, upload'[s].at \in {"received", "writing"},
                        upload'[s].name \in Orderly
                 PROVE  /\ stored'[upload'[s].name].ts < upload'[s].ts
                        /\ upload'[s].ts <= latest[upload'[s].name]
      BY <1>4 DEF NewerInHand
    <2>1. s # r /\ upload'[s] = upload[s] /\ InHand(s)
      BY DEF Moves, InHand
    <2>2. upload[s].name # m
      BY <1>1, <2>1 DEF OneInHand, Orderly
    <2>3. stored'[upload[s].name] = stored[upload[s].name]
      BY <1>2, <2>1, <2>2 DEF Orderly
    <2> QED  BY <2>1, <2>3 DEF TimesAgree, NewerInHand
  <1>8. CopyWasStored'
    <2> SUFFICES ASSUME NEW n \in Orderly
                 PROVE  /\ copy[n].ts <= stored'[n].ts
                        /\ copy[n] # Absent /\ copy[n].ts = stored'[n].ts
                              => copy[n].content = stored'[n].content
      BY <1>4 DEF CopyWasStored
    <2>1. CASE n = m
      <3>1. copy[m].ts <= stored[m].ts /\ stored[m].ts < upload[r].ts
        BY <1>5, <2>1 DEF TimesAgree, CopyWasStored
      <3>2. copy[m].ts < stored'[m].ts
        BY <1>1, <1>3, <3>1, Times
      <3> QED  BY <1>1, <1>3, <2>1, <3>2, Times
    <2>2. CASE n # m
      BY <1>2, <2>2 DEF TimesAgree, CopyWasStored, Orderly
    <2> QED  BY <2>1, <2>2
  <1>9. NotModifiedHonest'
    BY DEF TimesAgree, NotModifiedHonest, Moves
  <1> QED  BY <1>6, <1>7, <1>8, <1>9 DEF TimesAgree

LEMMA ReceiveTimesAgree ==
    ASSUME TypeOK, TimesAgree, NEW r \in Upload, NEW n \in Name,
           NEW content \in Contents, NEW base \in BOOLEAN, Receive(r, n, content, base)
    PROVE  TimesAgree'
  <1>1. /\ stored' = stored /\ copy' = copy /\ clock' = clock /\ misread' = misread
        /\ latest'[n] = clock /\ \A k \in Name \ {n} : latest'[k] = latest[k]
        /\ latest[n] = clock => n \in rushed'
    BY DEF Receive, TypeOK
  <1>2. Orderly' \subseteq Orderly
    BY ReceiveEffect DEF Orderly
  <1>3. StoredByLatest'
    <2> SUFFICES ASSUME NEW k \in Orderly'
                 PROVE  stored[k].ts <= latest'[k] /\ latest'[k] <= clock
      BY <1>1 DEF StoredByLatest
    <2>1. k \in Name /\ stored[k].ts <= latest[k] /\ latest[k] <= clock
      BY <1>2 DEF TimesAgree, StoredByLatest, Orderly
    <2>2. CASE k = n
      BY <1>1, <2>1, <2>2, Times
    <2>3. CASE k # n
      BY <1>1, <2>1, <2>3
    <2> QED  BY <2>2, <2>3
  <1>4. NewerInHand'
    <2> SUFFICES ASSUME NEW s \in Upload, upload'[s].at \in {"received", "writing"},
                        upload'[s].name \in Orderly'
                 PROVE  /\ stored[upload'[s].name].ts < upload'[s].ts
                        /\ upload'[s].ts <= latest'[upload'[s].name]
      BY <1>1 DEF NewerInHand
    <2>1. CASE s = r
      <3>1. upload'[r].name = n /\ upload'[r].ts = clock /\ n \in Orderly
        BY <1>2, <2>1, ReceiveEffect
      <3>2. stored[n].ts <= latest[n] /\ latest[n] <= clock
        BY <3>1 DEF TimesAgree, StoredByLatest
      <3>3. latest[n] # clock
        BY <1>1, <2>1, <3>1 DEF Orderly
      <3> QED  BY <1>1, <2>1, <3>1, <3>2, <3>3, Times
    <2>2. CASE s # r
      <3>1. upload'[s] = upload[s] /\ InHand(s) /\ upload[s].name \in Name \ {n}
        BY <2>2, ReceiveEffect DEF InHand, Orderly
      <3> QED  BY <1>1, <1>2, <3>1 DEF TimesAgree, NewerInHand
    <2> QED  BY <2>1, <2>2
  <1>5. CopyWasStored'
    BY <1>1, <1>2 DEF TimesAgree, CopyWasStored
  <1>6. NotModifiedHonest'
    BY <1>1, ReceiveEffect DEF TimesAgree, NotModifiedHonest
  <1> QED  BY <1>3, <1>4, <1>5, <1>6 DEF TimesAgree

LEMMA ReadTimesAgree ==
    ASSUME TypeOK, TimesAgree, NEW n \in Name, Get(n) \/ NotModified(n)
    PROVE  TimesAgree'
  <1>1. /\ stored' = stored /\ upload' = upload /\ latest' = latest /\ clock' = clock
        /\ overlapped' = overlapped /\ rushed' = rushed /\ Orderly' = Orderly
    BY DEF Get, NotModified, ghosts, Orderly
  <1>2. StoredByLatest' /\ NewerInHand'
    BY <1>1 DEF TimesAgree, StoredByLatest, NewerInHand
  <1>3. CASE Get(n)
    <2>1. /\ misread' = misread /\ copy'[n] = stored[n]
          /\ \A k \in Name \ {n} : copy'[k] = copy[k]
      BY <1>3 DEF Get, ghosts, TypeOK
    <2>2. CopyWasStored'
      <3> SUFFICES ASSUME NEW k \in Orderly
                   PROVE  /\ copy'[k].ts <= stored[k].ts
                          /\ copy'[k] # Absent /\ copy'[k].ts = stored[k].ts
                                => copy'[k].content = stored[k].content
        BY <1>1 DEF CopyWasStored
      <3>1. CASE k = n
        BY <2>1, <3>1, Times
      <3>2. CASE k # n
        BY <2>1, <3>2 DEF TimesAgree, CopyWasStored, Orderly
      <3> QED  BY <3>1, <3>2
    <2> QED  BY <1>1, <1>2, <2>1, <2>2 DEF TimesAgree, NotModifiedHonest
  <1>4. CASE NotModified(n)
    <2>1. copy' = copy /\ copy[n] # Absent /\ stored[n].ts <= copy[n].ts
      BY <1>4 DEF NotModified, NotNewer
    <2>2. n \in Orderly => stored[n].content = copy[n].content
      BY <2>1, Times DEF TimesAgree, CopyWasStored
    <2>3. misread' \subseteq misread \cup {n}
          /\ (stored[n].content = copy[n].content => misread' = misread)
      BY <1>4 DEF NotModified
    <2>4. NotModifiedHonest'
      BY <1>1, <2>2, <2>3 DEF TimesAgree, NotModifiedHonest, Orderly
    <2> QED  BY <1>1, <1>2, <2>1, <2>4 DEF TimesAgree, CopyWasStored
  <1> QED  BY <1>3, <1>4

LEMMA TimesAgreeStep ==
    ASSUME TypeOK, OneInHand, TimesAgree, Next
    PROVE  TimesAgree'
  <1> DEFINE Quiet == UNCHANGED <<stored, upload, copy, latest, overlapped, rushed, misread>>
  <1>1. ASSUME Quiet, clock' = clock \/ clock' = clock + 1
        PROVE  TimesAgree'
    <2>1. Orderly' = Orderly
      BY <1>1 DEF Orderly
    <2>2. StoredByLatest'
      BY <1>1, <2>1, Times DEF TimesAgree, StoredByLatest, Orderly
    <2>3. NewerInHand' /\ CopyWasStored' /\ NotModifiedHonest'
      BY <1>1, <2>1 DEF TimesAgree, NewerInHand, CopyWasStored, NotModifiedHonest
    <2> QED  BY <2>2, <2>3 DEF TimesAgree
  <1>2. Tick \/ Searched => Quiet /\ (clock' = clock \/ clock' = clock + 1)
    BY DEF Tick, Searched, ghosts
  <1>3. ASSUME NEW text \in Texts, Search(text) PROVE Quiet /\ clock' = clock
    BY <1>3 DEF Search, ghosts
  <1>4. ASSUME NEW r \in Upload,
               \/ Refuse(r) \/ Checked(r) \/ WriteFinished(r) \/ WriteFailed(r)
               \/ IndexUpdated(r) \/ IndexFailed(r)
        PROVE  TimesAgree'
    <2>1. Moves(r)
      BY <1>4, HandlerMoves
    <2>2. CASE /\ stored' = stored
               /\ upload'[r].at \in {"received", "writing"}
                     => upload[r].at \in {"received", "writing"}
      <3>1. Orderly' = Orderly
        BY <2>1 DEF Moves, Orderly
      <3>2. StoredByLatest' /\ CopyWasStored' /\ NotModifiedHonest'
        BY <2>1, <2>2, <3>1
        DEF Moves, TimesAgree, StoredByLatest, CopyWasStored, NotModifiedHonest
      <3>3. NewerInHand'
        BY <2>1, <2>2, <3>1 DEF Moves, TimesAgree, NewerInHand, InHand
      <3> QED  BY <3>2, <3>3 DEF TimesAgree
    <2> QED  BY <1>4, <2>1, <2>2, HandlerStores, StoreTimesAgree
  <1> HIDE DEF Quiet
  <1> QED
    BY <1>1, <1>2, <1>3, <1>4, ReceiveTimesAgree, ReadTimesAgree, NextSteps

(* A client is told 304 only when it has what is stored, if the uploads of  *)
(* the name did not overlap and came in different seconds.                  *)
THEOREM NotModifiedAlwaysHonest == Spec => []NotModifiedHonest
  <1> DEFINE Inv == OneInHand /\ TimesAgree
  <1>1. Init => Inv
    BY DEF Init, OneInHand, TimesAgree, StoredByLatest, NewerInHand, CopyWasStored,
           NotModifiedHonest, Orderly, InHand, NoUpload, Absent
  <1>2. TypeOK /\ Inv /\ [Next]_vars => Inv'
    <2>1. ASSUME Inv, UNCHANGED vars PROVE Inv'
      BY <2>1 DEF vars, ghosts, OneInHand, InHand, TimesAgree, StoredByLatest,
                  NewerInHand, CopyWasStored, NotModifiedHonest, Orderly
    <2> QED  BY <2>1, OneInHandStep, TimesAgreeStep
  <1>3. Inv => NotModifiedHonest
    BY DEF TimesAgree
  <1> HIDE DEF Inv
  <1> QED  BY <1>1, <1>2, <1>3, TypeCorrect, PTL DEF Spec

-----------------------------------------------------------------------------
(* A search under way is for something that can be found.                   *)
SearchAsks == search # << >> =>
    search \in Texts /\ AskedTokens(search) # {} /\ Unpackable(search)

(* What makes an upload suspect is never forgotten.                         *)
LEMMA SuspectsGrow ==
    ASSUME TypeOK, Next
    PROVE  overlapped \subseteq overlapped' /\ failed \subseteq failed'
  <1>1. ASSUME NEW r \in Upload, NEW n \in Name, NEW content \in Contents,
               NEW base \in BOOLEAN, Receive(r, n, content, base)
        PROVE  overlapped \subseteq overlapped' /\ failed \subseteq failed'
    BY <1>1 DEF Receive
  <1>2. ASSUME NEW r \in Upload,
               \/ Refuse(r) \/ Checked(r) \/ WriteFinished(r) \/ WriteFailed(r)
               \/ IndexUpdated(r) \/ IndexFailed(r)
        PROVE  overlapped \subseteq overlapped' /\ failed \subseteq failed'
    BY <1>2 DEF Refuse, Checked, WriteFinished, WriteFailed, IndexUpdated, IndexFailed, ghosts
  <1>3. ASSUME NEW n \in Name, Get(n) \/ NotModified(n)
        PROVE  overlapped \subseteq overlapped' /\ failed \subseteq failed'
    BY <1>3 DEF Get, NotModified, ghosts
  <1>4. ASSUME NEW text \in Texts, Search(text)
        PROVE  overlapped \subseteq overlapped' /\ failed \subseteq failed'
    BY <1>4 DEF Search, ghosts
  <1>5. CASE Tick \/ Searched
    BY <1>5 DEF Tick, Searched, ghosts
  <1> QED  BY <1>1, <1>2, <1>3, <1>4, <1>5, NextSteps

(* A search of indexes that agree with what is stored is right.             *)
LEMMA SearchedRight ==
    ASSUME TypeOK, IndexAgrees, SearchAsks, SearchRight, Searched
    PROVE  misfound' \subseteq overlapped \cup failed
  <1>1. search \in Seq(Word \cup {Mark}) /\ AskedTokens(search) # {} /\ Unpackable(search)
    BY TextAssumption DEF Searched, SearchAsks
  <1>2. ASSUME NEW n \in Name \ (overlapped \cup failed), Plain(search),
               {r \in Busy(n) : upload[r].at # "received"} = {},
               stored[n].content # << >>
        PROVE  n \in Found <=> Answers(search, stored[n].content)
    <2>1. AtRest(n)
      BY <1>2 DEF AtRest
    <2>2. indexed[n].text = stored[n].content
      BY <1>2, <2>1 DEF IndexAgrees
    <2>3. indexed[n].text \in Seq(Word)
      BY <1>2, <2>2, ContentAssumption DEF TypeOK, Document
    <2>4. Matches(search, indexed[n]) <=> Answers(search, indexed[n].text)
      BY <1>1, <1>2, <2>3, MatchesRight
    <2> QED  BY <2>2, <2>4 DEF Found
  <1>3. misfound' = misfound \cup
            {n \in Name : /\ Plain(search)
                          /\ {r \in Busy(n) : upload[r].at # "received"} = {}
                          /\ stored[n].content # << >>
                          /\ n \in Found <=> ~Answers(search, stored[n].content)}
    BY DEF Searched
  <1> QED  BY <1>2, <1>3 DEF SearchRight

LEMMA SearchStep ==
    ASSUME TypeOK, IndexAgrees, SearchAsks, SearchRight, Next
    PROVE  SearchAsks' /\ SearchRight'
  <1>1. overlapped \subseteq overlapped' /\ failed \subseteq failed'
    BY SuspectsGrow
  <1>2. ASSUME UNCHANGED <<search, misfound>> PROVE SearchAsks' /\ SearchRight'
    BY <1>1, <1>2 DEF SearchAsks, SearchRight
  <1>3. ASSUME NEW r \in Upload, NEW n \in Name, NEW content \in Contents,
               NEW base \in BOOLEAN, Receive(r, n, content, base)
        PROVE  UNCHANGED <<search, misfound>>
    BY <1>3 DEF Receive
  <1>4. ASSUME NEW r \in Upload,
               \/ Refuse(r) \/ Checked(r) \/ WriteFinished(r) \/ WriteFailed(r)
               \/ IndexUpdated(r) \/ IndexFailed(r)
        PROVE  UNCHANGED <<search, misfound>>
    BY <1>4 DEF Refuse, Checked, WriteFinished, WriteFailed, IndexUpdated, IndexFailed, ghosts
  <1>5. ASSUME NEW n \in Name, Get(n) \/ NotModified(n)
        PROVE  UNCHANGED <<search, misfound>>
    BY <1>5 DEF Get, NotModified, ghosts
  <1>6. ASSUME Tick PROVE UNCHANGED <<search, misfound>>
    BY <1>6 DEF Tick, ghosts
  <1>7. ASSUME NEW text \in Texts, Search(text) PROVE SearchAsks' /\ SearchRight'
    <2>1. search' = text /\ misfound' = misfound
      BY <1>7 DEF Search, ghosts
    <2>2. AskedTokens(text) # {} /\ Unpackable(text)
      BY <1>7 DEF Search
    <2> QED  BY <1>1, <2>1, <2>2 DEF SearchAsks, SearchRight
  <1>8. ASSUME Searched PROVE SearchAsks' /\ SearchRight'
    <2>1. misfound' \subseteq overlapped \cup failed /\ search' = << >>
      BY <1>8, SearchedRight DEF Searched
    <2> QED  BY <1>1, <2>1 DEF SearchAsks, SearchRight
  <1> QED  BY <1>2, <1>3, <1>4, <1>5, <1>6, <1>7, <1>8, NextSteps

(* A search with at most one quote, and no word twice in it, is right about *)
(* every document at rest whose uploads did not overlap or fail.            *)
THEOREM SearchAlwaysRight == Spec => []SearchRight
  <1>1. Init => SearchAsks /\ SearchRight
    BY DEF Init, SearchAsks, SearchRight
  <1>2. TypeOK /\ IndexAgrees /\ SearchAsks /\ SearchRight /\ [Next]_vars
            => SearchAsks' /\ SearchRight'
    <2>1. ASSUME SearchAsks, SearchRight, UNCHANGED vars
          PROVE  SearchAsks' /\ SearchRight'
      BY <2>1 DEF vars, ghosts, SearchAsks, SearchRight
    <2> QED  BY <2>1, SearchStep
  <1> QED  BY <1>1, <1>2, TypeCorrect, IndexAlwaysAgrees, PTL DEF Spec
=============================================================================
