--------------------------- MODULE RecoveryProofs ---------------------------
(***************************************************************************)
(* Proofs about Recovery for any documents and any number of connections   *)
(* and failures: types, that every promised byte is accounted for, and     *)
(* that a closed response is complete.                                     *)
(***************************************************************************)
EXTENDS Recovery, FiniteSetTheorems, TLAPS

InVector(c) == \E i \in 1 .. Len(processors) : processors[i] = c

(* The vector holds no connection twice.                                    *)
Distinct == \A i, j \in 1 .. Len(processors) : processors[i] = processors[j] => i = j

Waits(c) == job[c].waits \in {"read", "push"}

(* Before the documents are found nothing has happened, and afterwards only *)
(* a handler that has found them has begun its response with 200.           *)
Untouched ==
    /\ phase \in {"received", "finding"} =>
          /\ urls = {} /\ unread = {} /\ response = Open
          /\ \A c \in Connection : ~Waits(c)
          /\ \A d \in Document : pushed[d] = 0
    /\ phase = "finding" => Len(processors) \in 1 .. MaxConnections
    /\ phase \in {"starting", "running"} => response.status = 200
    /\ phase = "over" => response.status # 200

(* The loop: a connection it has not come to waits for nothing, and as long *)
(* as there are documents none has been erased.                             *)
Looping ==
    phase = "starting" =>
        /\ 1 <= position /\ position <= end /\ 2 <= end /\ end <= MaxConnections + 1
        /\ urls # {} => Len(processors) = end - 1
        /\ \A i \in 1 .. Len(processors) : i >= position => ~Waits(processors[i])
        /\ unread = {}

(* A connection that waits is in the vector, and one that a document killed *)
(* stays in it.                                                             *)
Staying ==
    /\ \A c \in Connection : Waits(c) => InVector(c)
    /\ phase = "running" /\ unread # {} =>
          \E c \in Connection : InVector(c) /\ ~Waits(c)

(* A document is in one place, and pushed once at most.                     *)
Places ==
    /\ \A c \in Connection : Waits(c) => job[c].url \notin urls \cup unread
    /\ \A b, c \in Connection : Waits(b) /\ Waits(c) /\ job[b].url = job[c].url => b = c
    /\ urls \cap unread = {}
    /\ \A d \in Document : pushed[d] <= 1
    /\ \A d \in urls : pushed[d] = 0
    /\ \A c \in Connection : job[c].waits = "read" => pushed[job[c].url] = 0

Total ==
    response.status = 200 =>
        response.length = Cardinality(urls) + Cardinality(Waiting)
                          + response.bytes + Cardinality(unread)

ClosedEmpty ==
    response.closed /\ response.status = 200 =>
        processors = << >> /\ urls = {} /\ unread = {}

Inv == Distinct /\ Untouched /\ Looping /\ Staying /\ Places /\ Total /\ ClosedEmpty

-----------------------------------------------------------------------------
LEMMA RemoveAtEffect ==
    ASSUME NEW S, NEW s \in Seq(S), NEW i \in 1 .. Len(s)
    PROVE  /\ RemoveAt(s, i) \in Seq(S)
           /\ Len(RemoveAt(s, i)) = Len(s) - 1
           /\ \A j \in 1 .. Len(s) - 1 :
                 RemoveAt(s, i)[j] = IF j < i THEN s[j] ELSE s[j + 1]
  <1> DEFINE front == SubSeq(s, 1, i - 1)
             back  == SubSeq(s, i + 1, Len(s))
  <1>1. front \in Seq(S) /\ Len(front) = i - 1 /\ \A j \in 1 .. i - 1 : front[j] = s[j]
    OBVIOUS
  <1>2. /\ back \in Seq(S) /\ Len(back) = Len(s) - i
        /\ \A j \in 1 .. Len(s) - i : back[j] = s[i + j]
    OBVIOUS
  <1> HIDE DEF front, back
  <1>3. front \o back \in Seq(S) /\ Len(front \o back) = Len(s) - 1
    BY <1>1, <1>2
  <1>4. ASSUME NEW j \in 1 .. Len(s) - 1
        PROVE  (front \o back)[j] = IF j < i THEN s[j] ELSE s[j + 1]
    <2>1. CASE j < i
      BY <1>1, <1>2, <2>1
    <2>2. CASE ~(j < i)
      <3>1. (front \o back)[j] = back[j - (i - 1)] /\ j - (i - 1) \in 1 .. Len(s) - i
        BY <1>1, <1>2, <2>2
      <3>2. back[j - (i - 1)] = s[j + 1]
        <4>1. i + (j - (i - 1)) = j + 1
          OBVIOUS
        <4> QED  BY <1>2, <3>1, <4>1
      <3> QED  BY <2>2, <3>1, <3>2
    <2> QED  BY <2>1, <2>2
  <1> QED  BY <1>3, <1>4 DEF RemoveAt, front, back

(* Where an element comes once, RemoveFirst takes it out there.             *)
LEMMA RemoveFirstIs ==
    ASSUME NEW S, NEW s \in Seq(S), NEW i \in 1 .. Len(s),
           \A j \in 1 .. Len(s) : s[j] = s[i] => j = i
    PROVE  RemoveFirst(s, s[i]) = RemoveAt(s, i)
  <1>1. {j \in 1 .. Len(s) : s[j] = s[i]} = {i}
    OBVIOUS
  <1>2. Min({i}) = i
    BY DEF Min
  <1>3. SelectInSeq(s, LAMBDA v : v = s[i]) = i
    BY <1>1, <1>2 DEF SelectInSeq
  <1> QED  BY <1>3 DEF RemoveFirst

LEMMA RemoveFirstNone ==
    ASSUME NEW s, NEW c, \A i \in 1 .. Len(s) : s[i] # c
    PROVE  RemoveFirst(s, c) = s
  BY DEF RemoveFirst

-----------------------------------------------------------------------------
LEMMA JobAt ==
    ASSUME TypeOK, NEW c \in Connection
    PROVE  /\ job[c] # NoJob <=> Waits(c)
           /\ Waits(c) => job[c].url \in Document
           /\ job[c] = NoJob => ~Waits(c)
  BY DEF TypeOK, Job, NoJob, Waits

LEMMA WaitingIs ==
    ASSUME TypeOK
    PROVE  /\ Waiting = {c \in Connection : Waits(c)}
           /\ IsFiniteSet(Waiting) /\ Cardinality(Waiting) \in Nat
           /\ IsFiniteSet(urls) /\ Cardinality(urls) \in Nat
           /\ IsFiniteSet(unread) /\ Cardinality(unread) \in Nat
  <1>1. Waiting = {c \in Connection : Waits(c)}
    BY JobAt DEF Waiting
  <1>2. IsFiniteSet(Connection)
    BY BoundAssumption, FS_Interval DEF Connection
  <1>3. IsFiniteSet(Waiting)
    BY <1>2, FS_Subset DEF Waiting
  <1>4. IsFiniteSet(urls) /\ IsFiniteSet(unread)
    BY DocumentAssumption, FS_Subset DEF TypeOK
  <1> QED  BY <1>1, <1>3, <1>4, FS_CardinalityType

(* A connection that takes a document.                                      *)
LEMMA TakeEffect ==
    ASSUME TypeOK, Places, NEW c \in Connection, Take(c), UNCHANGED <<pushed, unread>>
    PROVE  /\ urls # {} /\ processors' = processors
           /\ urls' \subseteq Document /\ job' \in [Connection -> Job]
           /\ \A b \in Connection : Waits(b)' <=> Waits(b) \/ b = c
           /\ Waiting' = Waiting \cup {c}
           /\ Cardinality(urls') = Cardinality(urls) - 1
           /\ Places'
  <1>1. PICK d \in urls : /\ urls' = urls \ {d}
                          /\ job' = [job EXCEPT ![c] = [waits |-> "read", url |-> d]]
    BY DEF Take
  <1>2. d \in Document /\ urls' \subseteq Document /\ processors' = processors
    BY <1>1 DEF Take, TypeOK
  <1>3. job' \in [Connection -> Job]
    BY <1>1, <1>2 DEF TypeOK, Job
  <1>4. /\ job'[c] = [waits |-> "read", url |-> d]
        /\ \A b \in Connection \ {c} : job'[b] = job[b]
    BY <1>1 DEF TypeOK
  <1>5. job'[c].waits = "read" /\ job'[c].url = d
    BY <1>4
  <1>6. \A b \in Connection : Waits(b)' <=> Waits(b) \/ b = c
    BY <1>4, <1>5 DEF Waits
  <1>7. Waiting' = Waiting \cup {c}
    <2>1. job'[c] # NoJob
      BY <1>5 DEF NoJob
    <2> QED  BY <1>4, <2>1 DEF Waiting
  <1>8. Cardinality(urls') = Cardinality(urls) - 1
    BY <1>1, WaitingIs, FS_RemoveElement
  <1>9. Places'
    BY <1>1, <1>4, <1>5, <1>6 DEF Places, Waits
  <1> QED  BY <1>1, <1>2, <1>3, <1>6, <1>7, <1>8, <1>9

(* A connection that has finished.                                          *)
LEMMA FinishEffect ==
    ASSUME TypeOK, Places, NEW c \in Connection \cup {Gone}, Finish(c),
           UNCHANGED <<pushed, unread>>
    PROVE  /\ urls' = urls /\ job' \in [Connection -> Job]
           /\ \A b \in Connection : Waits(b)' <=> Waits(b) /\ b # c
           /\ \A b \in Connection \ {c} : job'[b] = job[b]
           /\ Waiting' = Waiting \ {c}
           /\ Places'
  <1>1. urls' = urls
    BY DEF Finish
  <1>2. CASE c = Gone
    <2>1. job' = job
      BY <1>2 DEF Finish
    <2>2. c \notin Connection
      BY <1>2 DEF Gone, Connection
    <2> QED  BY <1>1, <2>1, <2>2 DEF TypeOK, Waits, Waiting, Places
  <1>3. CASE c # Gone
    <2>1. c \in Connection /\ job' = [job EXCEPT ![c] = NoJob]
      BY <1>3 DEF Finish
    <2>2. /\ job' \in [Connection -> Job] /\ job'[c] = NoJob
          /\ \A b \in Connection \ {c} : job'[b] = job[b]
      BY <2>1 DEF TypeOK, Job
    <2>3. job'[c].waits = "nothing"
      BY <2>2 DEF NoJob
    <2>4. \A b \in Connection : Waits(b)' <=> Waits(b) /\ b # c
      BY <2>2, <2>3 DEF Waits
    <2>5. Waiting' = Waiting \ {c}
      BY <2>2 DEF Waiting
    <2>6. Places'
      BY <1>1, <2>2, <2>3, <2>4 DEF Places, Waits
    <2> QED  BY <1>1, <2>2, <2>4, <2>5, <2>6
  <1> QED  BY <1>2, <1>3

(* It is erased from the vector.                                            *)
LEMMA EraseEffect ==
    ASSUME TypeOK, Distinct, NEW i \in 1 .. Len(processors), Finish(processors[i])
    PROVE  /\ processors' \in Seq(Connection) /\ Len(processors') = Len(processors) - 1
           /\ Len(processors) \in Nat
           /\ \A j \in 1 .. Len(processors) - 1 :
                 processors'[j] = IF j < i THEN processors[j] ELSE processors[j + 1]
           /\ Distinct'
           /\ \A b \in Connection : InVector(b) /\ b # processors[i] => InVector(b)'
  <1>1. processors \in Seq(Connection) /\ Len(processors) \in Nat
    BY DEF TypeOK
  <1>2. processors' = RemoveAt(processors, i)
    BY <1>1, RemoveFirstIs DEF Finish, Distinct
  <1>3. /\ processors' \in Seq(Connection) /\ Len(processors') = Len(processors) - 1
        /\ \A j \in 1 .. Len(processors) - 1 :
              processors'[j] = IF j < i THEN processors[j] ELSE processors[j + 1]
    BY <1>1, <1>2, RemoveAtEffect
  <1>4. Distinct'
    BY <1>1, <1>3 DEF Distinct
  <1>5. ASSUME NEW b \in Connection, InVector(b), b # processors[i] PROVE InVector(b)'
    <2>1. PICK k \in 1 .. Len(processors) : processors[k] = b
      BY <1>5 DEF InVector
    <2>2. CASE k < i
      BY <1>1, <1>3, <2>1, <2>2 DEF InVector
    <2>3. CASE k > i
      <3>1. k - 1 \in 1 .. Len(processors) - 1 /\ ~(k - 1 < i) /\ (k - 1) + 1 = k
        BY <1>1, <2>1, <2>3
      <3>2. processors'[k - 1] = b
        BY <1>3, <2>1, <3>1
      <3> QED  BY <1>1, <1>3, <3>1, <3>2 DEF InVector
    <2> QED  BY <1>1, <1>5, <2>1, <2>2, <2>3
  <1> QED  BY <1>1, <1>3, <1>4, <1>5

Response == [status : {0, 200, 400, 500}, length : Nat, bytes : Nat, closed : BOOLEAN]

LEMMA WriteEffect ==
    ASSUME TypeOK, NEW written \in {0, 1}, Write(written)
    PROVE  /\ response'.status = response.status /\ response'.length = response.length
           /\ response'.bytes = response.bytes + written
           /\ response'.closed <=> response.closed \/ AllGone
           /\ response' \in Response
           /\ response.bytes \in Nat /\ response.length \in Nat
  <1> DEFINE closed == response.closed \/ AllGone
  <1>1. closed \in BOOLEAN
    OBVIOUS
  <1>2. response \in Response /\ response.bytes \in Nat /\ response.length \in Nat
    BY DEF TypeOK, Response
  <1>3. response.bytes + written \in Nat
    BY <1>2
  <1>4. response' = [response EXCEPT !.bytes = response.bytes + written, !.closed = closed]
    BY DEF Write
  <1> HIDE DEF closed
  <1>5. PICK bytes \in Nat : bytes = response.bytes + written
    BY <1>3
  <1>6. PICK ended \in BOOLEAN : ended = closed
    BY <1>1
  <1>7. response' = [response EXCEPT !.bytes = bytes, !.closed = ended]
    BY <1>4, <1>5, <1>6
  <1>8. /\ response'.status = response.status /\ response'.length = response.length
        /\ response'.bytes = bytes /\ response'.closed = ended /\ response' \in Response
    <2>1. response'.status = response.status /\ response'.length = response.length
      BY <1>2, <1>7 DEF Response
    <2>2. response'.bytes = bytes
      BY <1>2, <1>7 DEF Response
    <2>3. response'.closed = ended
      BY <1>2, <1>7 DEF Response
    <2>4. response' \in Response
      <3>1. response.status \in {0, 200, 400, 500} /\ response.length \in Nat
        BY <1>2 DEF Response
      <3>2. response' = [status |-> response.status, length |-> response.length,
                         bytes |-> bytes, closed |-> ended]
        BY <1>2, <1>7 DEF Response
      <3> QED  BY <3>1, <3>2 DEF Response
    <2> QED  BY <2>1, <2>2, <2>3, <2>4
  <1> QED  BY <1>2, <1>5, <1>6, <1>8 DEF closed

-----------------------------------------------------------------------------
LEMMA InitStep == ASSUME Init PROVE TypeOK /\ Inv
  <1>1. TypeOK
    BY BoundAssumption DEF Init, TypeOK, Job, Open
  <1>2. \A c \in Connection : ~Waits(c)
    BY DEF Init, Waits, NoJob
  <1> QED
    BY <1>1, <1>2
    DEF Init, Inv, Distinct, Untouched, Looping, Staying, Places, Total, ClosedEmpty,
        Open, Waits, NoJob

LEMMA AcceptStep ==
    ASSUME TypeOK, Inv, NEW count \in Connection, Accept(count)
    PROVE  TypeOK' /\ Inv'
  <1>1. /\ processors' = [c \in 1 .. count |-> c] /\ phase' = "finding" /\ phase = "received"
        /\ UNCHANGED <<position, end, urls, job, response, pushed, unread>>
    BY DEF Accept
  <1>2. count \in 1 .. MaxConnections /\ count \in Nat
    BY BoundAssumption DEF Connection
  <1>3. processors' \in Seq(Connection) /\ Len(processors') = count
    BY <1>1, <1>2, BoundAssumption DEF Connection
  <1>4. TypeOK'
    BY <1>1, <1>3 DEF TypeOK
  <1>5. Distinct'
    BY <1>1, <1>3 DEF Distinct
  <1>6. Untouched'
    BY <1>1, <1>2, <1>3 DEF Inv, Untouched, Waits
  <1>7. \A c \in Connection : ~Waits(c) /\ ~Waits(c)'
    BY <1>1 DEF Inv, Untouched, Waits
  <1>8. Looping' /\ Staying' /\ Places' /\ Total' /\ ClosedEmpty'
    BY <1>1, <1>7
    DEF Inv, Untouched, Looping, Staying, Places, Total, ClosedEmpty, Open, Waits, Waiting
  <1> QED  BY <1>4, <1>5, <1>6, <1>8 DEF Inv

LEMMA FoundStep ==
    ASSUME TypeOK, Inv, NEW documents \in SUBSET Document, Found(documents)
    PROVE  TypeOK' /\ Inv'
  <1>1. /\ phase = "finding" /\ phase' = "starting" /\ urls' = documents
        /\ position' = 1 /\ end' = Len(processors) + 1
        /\ UNCHANGED <<processors, job, pushed, unread>>
    BY DEF Found
  <1>2. /\ unread = {} /\ \A c \in Connection : ~Waits(c) /\ ~Waits(c)'
        /\ \A d \in Document : pushed[d] = 0
        /\ Len(processors) \in 1 .. MaxConnections
    BY <1>1 DEF Inv, Untouched, Waits
  <1>3. IsFiniteSet(documents) /\ Cardinality(documents) \in Nat
    BY DocumentAssumption, FS_Subset, FS_CardinalityType
  <1>4. response' = [status |-> 200, length |-> Cardinality(documents), bytes |-> 0,
                     closed |-> FALSE]
    <2>1. response = Open
      BY <1>1 DEF Inv, Untouched
    <2> QED  BY <2>1 DEF Found, Open
  <1>5. TypeOK'
    BY <1>1, <1>2, <1>3, <1>4, BoundAssumption DEF TypeOK
  <1>6. Waiting' = {}
    BY <1>2, <1>5, WaitingIs, JobAt, <1>1 DEF Waiting
  <1>7. Total'
    BY <1>1, <1>2, <1>3, <1>4, <1>6, FS_EmptySet DEF Total
  <1>8. Distinct' /\ Untouched' /\ ClosedEmpty'
    BY <1>1, <1>4 DEF Inv, Distinct, Untouched, ClosedEmpty
  <1>9. Looping'
    <2>1. \A i \in 1 .. Len(processors) : processors[i] \in Connection
      BY DEF TypeOK
    <2> QED  BY <1>1, <1>2, <2>1, BoundAssumption DEF Looping
  <1>10. Staying' /\ Places'
    BY <1>1, <1>2 DEF Staying, Places, Waits
  <1> QED  BY <1>5, <1>7, <1>8, <1>9, <1>10 DEF Inv

(* A turn of the loop that starts a connection.                             *)
LEMMA StartTakeStep ==
    ASSUME TypeOK, Inv, StartNext, urls # {}
    PROVE  TypeOK' /\ Inv'
  <1> DEFINE c == processors[position]
  <1>1. /\ phase = "starting" /\ position # end /\ position' = position + 1
        /\ UNCHANGED <<phase, end, pushed, unread>>
    BY DEF StartNext, LoopAtEnd
  <1>2. /\ position \in 1 .. Len(processors) /\ Len(processors) = end - 1
        /\ position < end /\ position \in Nat /\ end \in Nat
    BY <1>1 DEF Inv, Looping, TypeOK
  <1>3. c \in Connection /\ ~Waits(c) /\ Places
    BY <1>1, <1>2 DEF Inv, Looping, TypeOK
  <1>4. Take(c) /\ Write(0)
    BY <1>2 DEF StartNext, ProcessNext
  <1>5. /\ processors' = processors /\ urls' \subseteq Document
        /\ job' \in [Connection -> Job] /\ Waiting' = Waiting \cup {c}
        /\ \A b \in Connection : Waits(b)' <=> Waits(b) \/ b = c
        /\ Cardinality(urls') = Cardinality(urls) - 1 /\ Places'
    BY <1>1, <1>3, <1>4, TakeEffect
  <1>6. ~AllGone
    BY <1>2, <1>5 DEF AllGone
  <1>7. /\ response'.closed <=> response.closed
        /\ response'.bytes = response.bytes /\ response'.length = response.length
        /\ response'.status = response.status
        /\ response' \in Response
    BY <1>4, <1>6, WriteEffect
  <1>8. TypeOK'
    <2>1. position' \in 0 .. MaxConnections + 1
      BY <1>1, <1>2, BoundAssumption DEF TypeOK
    <2> QED  BY <1>1, <1>5, <1>7, <2>1 DEF TypeOK, Response
  <1>9. Distinct' /\ Untouched' /\ ClosedEmpty'
    BY <1>1, <1>2, <1>5, <1>7 DEF Inv, Distinct, Untouched, ClosedEmpty
  <1>10. Looping'
    <2>1. \A i \in 1 .. Len(processors) : i > position => processors[i] # c
      BY <1>2 DEF Inv, Distinct
    <2>2. \A i \in 1 .. Len(processors) : processors[i] \in Connection
      BY DEF TypeOK
    <2>3. \A i \in 1 .. Len(processors) : i >= position + 1 => ~Waits(processors[i])'
      BY <1>1, <1>2, <1>5, <2>1, <2>2 DEF Inv, Looping
    <2> QED  BY <1>1, <1>2, <1>5, <2>3 DEF Inv, Looping, Waits
  <1>11. Staying'
    BY <1>1, <1>2, <1>5 DEF Inv, Staying, InVector
  <1>12. Total'
    <2>1. c \notin Waiting
      BY <1>3, WaitingIs
    <2>2. Cardinality(Waiting') = Cardinality(Waiting) + 1
      BY <1>5, <2>1, WaitingIs, FS_AddElement
    <2>3. response.length \in Nat /\ response.bytes \in Nat
      BY DEF TypeOK
    <2> QED  BY <1>1, <1>5, <1>7, <2>2, <2>3, WaitingIs DEF Inv, Total
  <1> QED  BY <1>5, <1>8, <1>9, <1>10, <1>11, <1>12 DEF Inv

LEMMA StartFinishStep ==
    ASSUME TypeOK, Inv, StartNext, urls = {}
    PROVE  TypeOK' /\ Inv'
  <1> DEFINE c == IF position <= Len(processors) THEN processors[position] ELSE Gone
  <1>1. /\ phase = "starting" /\ position # end /\ position' = position + 1
        /\ UNCHANGED <<phase, end, pushed, unread>>
    BY DEF StartNext, LoopAtEnd
  <1>2. /\ 1 <= position /\ position < end /\ position \in Nat /\ end \in Nat
        /\ Len(processors) \in Nat /\ unread = {} /\ Distinct /\ Places
        /\ \A i \in 1 .. Len(processors) : processors[i] \in Connection
    BY <1>1 DEF Inv, Looping, TypeOK
  <1>3. c \in Connection \cup {Gone} /\ (c \in Connection => ~Waits(c))
    <2>1. CASE position <= Len(processors)
      BY <1>1, <1>2, <2>1 DEF Inv, Looping
    <2>2. CASE ~(position <= Len(processors))
      BY <2>2 DEF Gone, Connection
    <2> QED  BY <2>1, <2>2
  <1>4. Finish(c) /\ Write(0)
    BY DEF StartNext, ProcessNext
  <1> HIDE DEF c
  <1>5. /\ urls' = urls /\ job' \in [Connection -> Job] /\ Waiting' = Waiting \ {c}
        /\ \A b \in Connection : Waits(b)' <=> Waits(b) /\ b # c
        /\ Places'
    BY <1>1, <1>2, <1>3, <1>4, FinishEffect
  <1>6. Waiting' = Waiting
    BY <1>3, <1>5, WaitingIs
  <1>7. /\ processors' \in Seq(Connection) /\ Len(processors') \in Nat /\ Distinct'
        /\ \A b \in Connection : Waits(b)' /\ InVector(b) => InVector(b)'
        /\ \A i \in 1 .. Len(processors') :
              i >= position + 1 => \E k \in 1 .. Len(processors) :
                                       k >= position /\ processors'[i] = processors[k]
        /\ processors = << >> => processors' = << >>
    <2>1. CASE position <= Len(processors)
      <3>1. position \in 1 .. Len(processors) /\ c = processors[position]
        BY <1>2, <2>1 DEF c
      <3>2. Finish(processors[position])
        BY <1>4, <3>1
      <3>3. /\ processors' \in Seq(Connection) /\ Len(processors') = Len(processors) - 1
            /\ \A j \in 1 .. Len(processors) - 1 :
                  processors'[j] = IF j < position THEN processors[j] ELSE processors[j + 1]
            /\ Distinct'
            /\ \A b \in Connection : InVector(b) /\ b # c => InVector(b)'
        BY <1>2, <3>1, <3>2, EraseEffect
      <3>4. ASSUME NEW i \in 1 .. Len(processors'), i >= position + 1
            PROVE  \E k \in 1 .. Len(processors) :
                      k >= position /\ processors'[i] = processors[k]
        <4>1. /\ i \in 1 .. Len(processors) - 1 /\ ~(i < position)
              /\ i + 1 \in 1 .. Len(processors) /\ i + 1 >= position
          BY <1>2, <3>3, <3>4
        <4> QED  BY <3>3, <4>1
      <3>5. \A b \in Connection : Waits(b)' /\ InVector(b) => InVector(b)'
        BY <1>5, <3>3
      <3>6. processors # << >>
        BY <3>1
      <3>7. Len(processors') \in Nat
        BY <3>3
      <3> QED  BY <3>3, <3>4, <3>5, <3>6, <3>7
    <2>2. CASE ~(position <= Len(processors))
      <3>1. c = Gone /\ \A i \in 1 .. Len(processors) : processors[i] # c
        BY <1>2, <2>2 DEF c, Gone, Connection
      <3>2. processors' = processors
        BY <1>4, <3>1, RemoveFirstNone DEF Finish
      <3> QED  BY <1>2, <2>2, <3>2 DEF InVector, TypeOK, Distinct
    <2> QED  BY <2>1, <2>2
  <1>8. /\ response'.closed <=> response.closed \/ processors' = << >>
        /\ response'.bytes = response.bytes /\ response'.length = response.length
        /\ response'.status = response.status /\ response' \in Response
    BY <1>4, WriteEffect DEF AllGone
  <1>9. TypeOK'
    <2>1. position' \in 0 .. MaxConnections + 1
      BY <1>1, <1>2, BoundAssumption DEF TypeOK
    <2> QED  BY <1>1, <1>5, <1>7, <1>8, <2>1 DEF TypeOK, Response
  <1>10. Untouched' /\ ClosedEmpty' /\ Total'
    BY <1>1, <1>2, <1>5, <1>6, <1>7, <1>8 DEF Inv, Untouched, ClosedEmpty, Total
  <1>11. Looping'
    <2>1. ASSUME NEW i \in 1 .. Len(processors'), i >= position + 1
          PROVE  job'[processors'[i]].waits \notin {"read", "push"}
      <3>1. PICK k \in 1 .. Len(processors) :
                k >= position /\ processors'[i] = processors[k]
        BY <1>7, <2>1
      <3>2. ~Waits(processors[k]) /\ processors[k] \in Connection
        BY <1>1, <1>2, <3>1 DEF Inv, Looping
      <3>3. \A b \in Connection : ~Waits(b) => job'[b].waits \notin {"read", "push"}
        BY <1>5 DEF Waits
      <3> QED  BY <3>1, <3>2, <3>3
    <2> QED  BY <1>1, <1>2, <1>5, <2>1 DEF Inv, Looping, Waits
  <1>12. Staying'
    BY <1>1, <1>5, <1>7 DEF Inv, Staying
  <1> QED  BY <1>5, <1>7, <1>9, <1>10, <1>11, <1>12 DEF Inv

(* The answer to a push.                                                    *)
LEMMA AnsweredTakeStep ==
    ASSUME TypeOK, Inv, NEW c \in Connection, Answered(c), urls # {}
    PROVE  TypeOK' /\ Inv'
  <1>1. /\ phase = "running" /\ Waits(c) /\ Take(c) /\ Write(1)
        /\ UNCHANGED <<phase, position, end, pushed, unread>>
    BY DEF Answered, ProcessNext, Waits
  <1>2. InVector(c) /\ Places /\ Distinct
    BY <1>1 DEF Inv, Staying
  <1>3. /\ processors' = processors /\ urls' \subseteq Document
        /\ job' \in [Connection -> Job] /\ Waiting' = Waiting \cup {c}
        /\ \A b \in Connection : Waits(b)' <=> Waits(b) \/ b = c
        /\ Cardinality(urls') = Cardinality(urls) - 1 /\ Places'
    BY <1>1, <1>2, TakeEffect
  <1>4. Waiting' = Waiting
    BY <1>1, <1>3, WaitingIs
  <1>5. processors # << >>
    BY <1>2 DEF InVector
  <1>6. /\ response'.closed <=> response.closed
        /\ response'.bytes = response.bytes + 1 /\ response'.length = response.length
        /\ response'.status = response.status /\ response' \in Response
        /\ response.bytes \in Nat /\ response.length \in Nat
    BY <1>1, <1>3, <1>5, WriteEffect DEF AllGone
  <1>7. TypeOK'
    BY <1>1, <1>3, <1>6 DEF TypeOK, Response
  <1>8. Distinct' /\ Untouched' /\ Looping' /\ ClosedEmpty'
    BY <1>1, <1>3, <1>5, <1>6 DEF Inv, Distinct, Untouched, Looping, ClosedEmpty
  <1>9. Total'
    <2>1. response.status = 200 =>
              response.length = Cardinality(urls) + Cardinality(Waiting)
                                + response.bytes + Cardinality(unread)
      BY DEF Inv, Total
    <2>2. Cardinality(Waiting') = Cardinality(Waiting) /\ Cardinality(unread') = Cardinality(unread)
      BY <1>1, <1>4
    <2>3. /\ Cardinality(urls) \in Nat /\ Cardinality(Waiting) \in Nat
          /\ Cardinality(unread) \in Nat
      BY WaitingIs
    <2>4. Cardinality(urls') + Cardinality(Waiting') + response'.bytes + Cardinality(unread')
            = Cardinality(urls) + Cardinality(Waiting) + response.bytes + Cardinality(unread)
      BY <1>3, <1>6, <2>2, <2>3
    <2> QED  BY <1>6, <2>1, <2>4 DEF Total
  <1>10. Staying'
    <2>1. \A b \in Connection : InVector(b)' <=> InVector(b)
      BY <1>3 DEF InVector
    <2> QED  BY <1>1, <1>2, <1>3, <2>1 DEF Inv, Staying
  <1> QED  BY <1>3, <1>7, <1>8, <1>9, <1>10 DEF Inv

LEMMA AnsweredFinishStep ==
    ASSUME TypeOK, Inv, NEW c \in Connection, Answered(c), urls = {}
    PROVE  TypeOK' /\ Inv'
  <1>1. /\ phase = "running" /\ Waits(c) /\ Finish(c) /\ Write(1)
        /\ UNCHANGED <<phase, position, end, pushed, unread>>
    BY DEF Answered, ProcessNext, Waits
  <1>2. InVector(c) /\ Places /\ Distinct
    BY <1>1 DEF Inv, Staying
  <1>3. PICK i \in 1 .. Len(processors) : processors[i] = c
    BY <1>2 DEF InVector
  <1>4. /\ urls' = urls /\ job' \in [Connection -> Job] /\ Waiting' = Waiting \ {c}
        /\ \A b \in Connection : Waits(b)' <=> Waits(b) /\ b # c
        /\ Places'
    BY <1>1, <1>2, FinishEffect
  <1>5. /\ processors' \in Seq(Connection) /\ Distinct'
        /\ \A b \in Connection : InVector(b) /\ b # c => InVector(b)'
    BY <1>1, <1>2, <1>3, EraseEffect
  <1>6. /\ response'.closed <=> response.closed \/ processors' = << >>
        /\ response'.bytes = response.bytes + 1 /\ response'.length = response.length
        /\ response'.status = response.status /\ response' \in Response
        /\ response.bytes \in Nat /\ response.length \in Nat
    BY <1>1, WriteEffect DEF AllGone
  <1>7. TypeOK'
    BY <1>1, <1>4, <1>5, <1>6 DEF TypeOK, Response
  <1>8. Untouched' /\ Looping'
    BY <1>1, <1>4, <1>6 DEF Inv, Untouched, Looping
  <1>9. Total'
    <2>1. c \in Waiting
      BY <1>1, WaitingIs
    <2>2. Cardinality(Waiting') = Cardinality(Waiting) - 1
      BY <1>4, <2>1, WaitingIs, FS_RemoveElement
    <2> QED  BY <1>1, <1>4, <1>6, <2>2, WaitingIs DEF Inv, Total
  <1>10. Staying'
    BY <1>1, <1>4, <1>5 DEF Inv, Staying
  <1>11. ClosedEmpty'
    <2>1. processors # << >>
      BY <1>3 DEF TypeOK
    <2>2. ~(response.closed /\ response.status = 200)
      BY <2>1 DEF Inv, ClosedEmpty
    <2>3. processors' = << >> => \A b \in Connection : ~InVector(b)'
      BY DEF InVector
    <2>4. processors' = << >> => unread' = {}
      BY <1>1, <1>10, <2>3 DEF Staying
    <2> QED  BY <1>1, <1>4, <1>6, <2>2, <2>4 DEF ClosedEmpty
  <1> QED  BY <1>4, <1>5, <1>7, <1>8, <1>9, <1>10, <1>11 DEF Inv

(* The metadata of a document arrives.                                      *)
LEMMA ReadDoneStep ==
    ASSUME TypeOK, Inv, NEW c \in Connection, ReadDone(c)
    PROVE  TypeOK' /\ Inv'
  <1> DEFINE d == job[c].url
  <1>1. /\ phase = "running" /\ job[c].waits = "read" /\ Waits(c)
        /\ job' = [job EXCEPT ![c].waits = "push"]
        /\ pushed' = [pushed EXCEPT ![d] = @ + 1]
        /\ UNCHANGED <<phase, processors, position, end, urls, response, unread>>
    BY DEF ReadDone, handlerVars, Waits
  <1>2. /\ d \in Document /\ d \notin urls /\ pushed[d] = 0 /\ job[c] # NoJob
        /\ \A b \in Connection \ {c} : Waits(b) => job[b].url # d
    BY <1>1, JobAt DEF Inv, Places
  <1>3. job[c] = [waits |-> "read", url |-> d]
    BY <1>1, <1>2 DEF TypeOK, Job
  <1>4. /\ job'[c] = [waits |-> "push", url |-> d]
        /\ \A b \in Connection \ {c} : job'[b] = job[b]
        /\ job' \in [Connection -> Job]
    BY <1>1, <1>2, <1>3 DEF TypeOK, Job
  <1>5. /\ pushed' \in [Document -> Nat] /\ pushed'[d] = 1
        /\ \A e \in Document \ {d} : pushed'[e] = pushed[e]
    BY <1>1, <1>2 DEF TypeOK
  <1> HIDE DEF d
  <1>6. /\ job'[c].waits = "push" /\ job'[c].url = d /\ job[c].url = d
        /\ job'[c] # NoJob
    BY <1>3, <1>4 DEF NoJob
  <1>7. \A b \in Connection : /\ Waits(b)' <=> Waits(b)
                              /\ job'[b].url = job[b].url
                              /\ job'[b] # NoJob <=> job[b] # NoJob
    BY <1>1, <1>2, <1>4, <1>6 DEF Waits
  <1>8. TypeOK'
    BY <1>1, <1>4, <1>5 DEF TypeOK
  <1>9. Waiting' = Waiting
    BY <1>7 DEF Waiting
  <1>10. Places'
    <2>1. \A e \in Document : pushed'[e] <= 1
      BY <1>5 DEF Inv, Places
    <2>2. \A e \in urls : e # d /\ e \in Document
      BY <1>2 DEF TypeOK
    <2>3. \A b \in Connection : job'[b].waits = "read" =>
              b # c /\ job[b].waits = "read" /\ Waits(b)
      BY <1>4, <1>6 DEF Waits
    <2>4. \A b \in Connection : job'[b].waits = "read" => pushed'[job'[b].url] = 0
      BY <1>2, <1>5, <1>7, <2>3, JobAt DEF Inv, Places
    <2> QED  BY <1>1, <1>5, <1>7, <2>1, <2>2, <2>4 DEF Inv, Places
  <1>11. Distinct' /\ Untouched' /\ Looping' /\ ClosedEmpty' /\ Total'
    BY <1>1, <1>9 DEF Inv, Distinct, Untouched, Looping, ClosedEmpty, Total
  <1>12. Staying'
    <2>1. \A b \in Connection : InVector(b)' <=> InVector(b)
      BY <1>1 DEF InVector
    <2> QED  BY <1>1, <1>7, <2>1 DEF Inv, Staying
  <1> QED  BY <1>8, <1>10, <1>11, <1>12 DEF Inv

(* It does not, and the connection is dead.                                 *)
LEMMA ReadFailedStep ==
    ASSUME TypeOK, Inv, NEW c \in Connection, ReadFailed(c)
    PROVE  TypeOK' /\ Inv'
  <1> DEFINE d == job[c].url
  <1>1. /\ phase = "running" /\ Waits(c)
        /\ unread' = unread \cup {d} /\ job' = [job EXCEPT ![c] = NoJob]
        /\ UNCHANGED <<phase, processors, position, end, urls, response, pushed>>
    BY DEF ReadFailed, handlerVars, Waits
  <1>2. /\ d \in Document /\ d \notin urls /\ d \notin unread /\ InVector(c)
        /\ \A b \in Connection \ {c} : Waits(b) => job[b].url # d
    BY <1>1, JobAt DEF Inv, Places, Staying
  <1>3. /\ job' \in [Connection -> Job] /\ job'[c] = NoJob
        /\ \A b \in Connection \ {c} : job'[b] = job[b]
    BY <1>1 DEF TypeOK, Job
  <1> HIDE DEF d
  <1>4. job'[c].waits = "nothing" /\ ~Waits(c)'
    BY <1>3 DEF NoJob, Waits
  <1>5. \A b \in Connection : Waits(b)' <=> Waits(b) /\ b # c
    BY <1>3, <1>4 DEF Waits
  <1>6. TypeOK'
    BY <1>1, <1>2, <1>3 DEF TypeOK
  <1>7. Waiting' = Waiting \ {c} /\ c \in Waiting
    BY <1>1, <1>3, WaitingIs DEF Waiting
  <1>8. Total'
    <2>1. /\ Cardinality(Waiting') = Cardinality(Waiting) - 1
          /\ Cardinality(unread') = Cardinality(unread) + 1
      BY <1>1, <1>2, <1>7, WaitingIs, FS_RemoveElement, FS_AddElement
    <2>2. response.length \in Nat /\ response.bytes \in Nat
      BY DEF TypeOK
    <2> QED  BY <1>1, <2>1, <2>2, WaitingIs DEF Inv, Total
  <1>9. Places'
    BY <1>1, <1>2, <1>3, <1>4, <1>5 DEF Inv, Places, Waits
  <1>10. Staying'
    <2>1. \A b \in Connection : InVector(b)' <=> InVector(b)
      BY <1>1 DEF InVector
    <2> QED  BY <1>1, <1>2, <1>4, <1>5, <2>1 DEF Inv, Staying
  <1>11. Distinct' /\ Untouched' /\ Looping'
    BY <1>1 DEF Inv, Distinct, Untouched, Looping
  <1>12. ClosedEmpty'
    <2>1. processors # << >>
      BY <1>2 DEF InVector
    <2> QED  BY <1>1, <2>1 DEF Inv, ClosedEmpty
  <1> QED  BY <1>6, <1>8, <1>9, <1>10, <1>11, <1>12 DEF Inv

-----------------------------------------------------------------------------
LEMMA OtherStep ==
    ASSUME TypeOK, Inv, (\E status \in {400, 500} : Refuse(status)) \/ FindFailed \/ Started
    PROVE  TypeOK' /\ Inv'
  <1>1. UNCHANGED <<handlerVars, urls, job, pushed, unread>>
    BY DEF Refuse, FindFailed, Started
  <1>2. \A c \in Connection : (Waits(c)' <=> Waits(c)) /\ (InVector(c)' <=> InVector(c))
    BY <1>1 DEF handlerVars, Waits, InVector
  <1>3. Distinct' /\ Places' /\ Waiting' = Waiting
    BY <1>1, <1>2 DEF handlerVars, Inv, Distinct, Places, Waiting
  <1>4. ASSUME NEW status \in {400, 500}, Refuse(status) PROVE TypeOK' /\ Inv'
    <2>1. /\ phase = "received" /\ phase' = "over" /\ response = Open
          /\ response' = [response EXCEPT !.status = status, !.closed = TRUE]
      BY <1>4 DEF Refuse, Inv, Untouched
    <2>2. response' = [status |-> status, length |-> 0, bytes |-> 0, closed |-> TRUE]
      BY <2>1 DEF Open
    <2>3. response'.status # 200 /\ response' \in Response
      BY <2>2 DEF Response
    <2>4. TypeOK'
      BY <1>1, <2>1, <2>3 DEF TypeOK, Response, handlerVars
    <2>5. Untouched' /\ Looping' /\ Staying' /\ Total' /\ ClosedEmpty'
      BY <1>1, <1>2, <2>1, <2>3
      DEF Inv, Untouched, Looping, Staying, Total, ClosedEmpty
    <2> QED  BY <1>3, <2>4, <2>5 DEF Inv
  <1>5. CASE FindFailed
    <2>1. /\ phase = "finding" /\ phase' = "over" /\ response' = response
          /\ response.status # 200
      BY <1>5 DEF FindFailed, Inv, Untouched, Open
    <2>2. TypeOK'
      BY <1>1, <2>1 DEF TypeOK, handlerVars
    <2>3. Untouched' /\ Looping' /\ Staying' /\ Total' /\ ClosedEmpty'
      BY <1>1, <1>2, <2>1
      DEF Inv, Untouched, Looping, Staying, Total, ClosedEmpty
    <2> QED  BY <1>3, <2>2, <2>3 DEF Inv
  <1>6. CASE Started
    <2>1. /\ phase = "starting" /\ phase' = "running" /\ response' = response
          /\ unread = {}
      BY <1>6 DEF Started, Inv, Looping
    <2>2. TypeOK'
      BY <1>1, <2>1 DEF TypeOK, handlerVars
    <2>3. Untouched' /\ Looping' /\ Staying' /\ Total' /\ ClosedEmpty'
      BY <1>1, <1>2, <1>3, <2>1
      DEF handlerVars, Inv, Untouched, Looping, Staying, Total, ClosedEmpty
    <2> QED  BY <1>3, <2>2, <2>3 DEF Inv
  <1> QED  BY <1>4, <1>5, <1>6

LEMMA NextStep == ASSUME TypeOK, Inv, Next PROVE TypeOK' /\ Inv'
  BY AcceptStep, FoundStep, StartTakeStep, StartFinishStep, AnsweredTakeStep,
     AnsweredFinishStep, ReadDoneStep, ReadFailedStep, OtherStep
  DEF Next, Answer, Callback

LEMMA StutterStep == ASSUME TypeOK, Inv, UNCHANGED vars PROVE TypeOK' /\ Inv'
  <1>1. TypeOK'
    BY DEF vars, handlerVars, TypeOK
  <1>2. /\ Distinct' /\ Untouched' /\ Looping' /\ Staying' /\ Places' /\ Total'
        /\ ClosedEmpty'
    BY DEF vars, handlerVars, Inv, Distinct, Untouched, Looping, Staying, Places, Total,
           ClosedEmpty, InVector, Waits, Waiting
  <1> QED  BY <1>1, <1>2 DEF Inv

LEMMA AlwaysInv == Spec => [](TypeOK /\ Inv)
  <1>1. Init => TypeOK /\ Inv
    BY InitStep
  <1>2. TypeOK /\ Inv /\ [Next]_vars => TypeOK' /\ Inv'
    BY NextStep, StutterStep
  <1> QED  BY <1>1, <1>2, PTL DEF Spec

(* Every reachable state of recovery is well typed.                         *)
THEOREM TypeCorrect == Spec => []TypeOK
  BY AlwaysInv, PTL

(* Every document the header promised a byte for is in one place, and no    *)
(* document is pushed twice, for any number of documents and connections.   *)
THEOREM BytesAlwaysAddUp == Spec => []BytesAddUp
  <1>1. TypeOK /\ Inv => BytesAddUp
    BY DEF Inv, Total, Places, BytesAddUp
  <1> QED  BY <1>1, AlwaysInv, PTL

(* A response that was begun is closed only when every byte promised has    *)
(* been written, whatever the loop skips and whatever cannot be read.       *)
THEOREM ClosedAlwaysComplete == Spec => []ClosedIsComplete
  <1>1. ASSUME TypeOK, Inv, response.closed, response.status = 200
        PROVE  response.bytes = response.length /\ Waiting = {} /\ urls = {}
    <2>1. processors = << >> /\ urls = {} /\ unread = {}
      BY <1>1 DEF Inv, ClosedEmpty
    <2>2. Waiting = {}
      BY <1>1, <2>1, WaitingIs DEF Inv, Staying, InVector
    <2>3. response.length \in Nat /\ response.bytes \in Nat
      BY <1>1 DEF TypeOK
    <2> QED  BY <1>1, <2>1, <2>2, <2>3, FS_EmptySet DEF Inv, Total
  <1>2. TypeOK /\ Inv => ClosedIsComplete
    BY <1>1 DEF ClosedIsComplete
  <1> QED  BY <1>2, AlwaysInv, PTL
=============================================================================
