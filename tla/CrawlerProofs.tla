--------------------------- MODULE CrawlerProofs ---------------------------
(***************************************************************************)
(* Proofs about the crawl loop, for any set of URLs, any links between     *)
(* them, any number of threads, of failed calls and of runs.               *)
(***************************************************************************)
EXTENDS Crawler, TLAPS

-----------------------------------------------------------------------------
(* A write to the storage: the key maps to what was written, every other    *)
(* key to what it did.                                                      *)
LEMMA PutMap ==
    ASSUME NEW S, NEW T, NEW f, IsMap(f, S, T), NEW u \in S, NEW d \in T
    PROVE  /\ IsMap(Put(f, u, d), S, T)
           /\ DOMAIN Put(f, u, d) = DOMAIN f \cup {u}
           /\ Put(f, u, d)[u] = d
           /\ \A v \in DOMAIN f \ {u} : Put(f, u, d)[v] = f[v]
  BY DEF Put, IsMap

LEMMA EmptyMap == ASSUME NEW S, NEW T PROVE IsMap(<< >>, S, T)
  BY DEF IsMap

-----------------------------------------------------------------------------
(* The parts of actions keep what they change well typed.                   *)
LEMMA InsertType ==
    ASSUME TypeOK, NEW u \in Url, NEW d \in Data, InflightInsert(u, d)
    PROVE  IsMap(inflight, Url, Data)'
  BY DEF TypeOK, InflightInsert, IsMap

LEMMA EraseType ==
    ASSUME TypeOK, NEW u \in Url, InflightErase(u)
    PROVE  IsMap(inflight, Url, Data)'
  BY DEF TypeOK, InflightErase, IsMap

LEMMA FeedType ==
    ASSUME TypeOK, NEW u \in Url, NEW s \in Time, Feed(u, s)
    PROVE  /\ pending' \in [Request -> Nat]
           /\ asked' \in [Url -> 0 .. AskedCap]
           /\ \A r \in Request : pending[r] > 0 => pending'[r] > 0
           /\ pending'[[url |-> u, since |-> s]] > 0
<1> DEFINE r == [url |-> u, since |-> s]
<1>1. r \in Request /\ pending[r] \in Nat
  BY DEF TypeOK, Request
<1>2. pending' = [pending EXCEPT ![r] = pending[r] + 1]
  BY DEF Feed
<1> HIDE DEF r
<1>3. pending' \in [Request -> Nat] /\ pending'[r] > 0
  BY <1>1, <1>2 DEF TypeOK
<1>4. \A q \in Request : pending[q] > 0 => pending'[q] > 0
  BY <1>1, <1>2 DEF TypeOK
<1>5. asked' \in [Url -> 0 .. AskedCap]
  BY BoundAssumption DEF Feed, TypeOK
<1> QED
  BY <1>3, <1>4, <1>5 DEF r

LEMMA TakeType ==
    ASSUME TypeOK, NEW r \in Request, Take(r)
    PROVE  /\ IsMap(inflight, Url, Data)'
           /\ pending' \in [Request -> Nat]
           /\ asked' \in [Url -> 0 .. AskedCap]
<1>1. r.url \in Url
  BY DEF Request
<1>2. IsMap(inflight, Url, Data)'
  BY <1>1, EraseType DEF Take
<1>3. pending' \in [Request -> Nat]
  BY DEF Take, TypeOK
<1> QED
  BY <1>2, <1>3 DEF Take, TypeOK

LEMMA FaultType ==
    ASSUME TypeOK, NEW lost \in SUBSET Url, Fault(lost)
    PROVE  faults' \in 0 .. MaxFaults /\ failed' \subseteq Url
  BY BoundAssumption DEF TypeOK, Fault

LEMMA GotoType ==
    ASSUME TypeOK, NEW t \in Thread, NEW label \in PC, Goto(t, label)
    PROVE  pc' \in [Thread -> PC] /\ pc'[t] = label
  BY DEF TypeOK, Goto

LEMMA ReplyType ==
    ASSUME TypeOK, NEW t \in Thread, NEW r \in Request, NEW data \in Data,
           NEW accepted \in BOOLEAN, NEW modified \in BOOLEAN,
           Reply(t, r, data, accepted, modified)
    PROVE  TypeOK'
<1>1. r.url \in Url /\ Location[r.url] \in Url
  BY UrlAssumption DEF Request
<1>2. /\ IsMap(inflight, Url, Data)'
      /\ pending' \in [Request -> Nat]
      /\ asked' \in [Url -> 0 .. AskedCap]
  BY TakeType DEF Reply
<1>3. page' \in [Thread -> Page]
  BY <1>1 DEF Reply, TypeOK, Page
<1>4. writes' \in [Thread -> SUBSET Write]
  <2>1. {[key |-> u, data |-> data] : u \in StoredUnder(r.url)} \in SUBSET Write
    BY <1>1 DEF StoredUnder, Write
  <2> QED
    BY <2>1 DEF Reply, TypeOK
<1>5. todo' \in [Thread -> SUBSET Href]
  BY HrefAssumption DEF Reply, TypeOK
<1>6. pc' \in [Thread -> PC]
  BY DEF Reply, Goto, TypeOK, PC
<1> QED
  BY <1>2, <1>3, <1>4, <1>5, <1>6
  DEF Reply, TypeOK, storageVars, faultVars, IsMap

(* Everything a reply is made of is well typed.                             *)
LEMMA ReplyData ==
    ASSUME TypeOK, NEW r \in Request
    PROVE  web[Location[r.url]].data \in Data /\ OldData(r.url) \in Data
<1>1. r.url \in Url /\ Location[r.url] \in Url
  BY UrlAssumption DEF Request
<1>2. web[Location[r.url]].data \in Data
  BY <1>1 DEF TypeOK, Document
<1>3. OldData(r.url) \in Data
  BY DataAssumption DEF TypeOK, OldData, IsMap
<1> QED
  BY <1>2, <1>3

-----------------------------------------------------------------------------
LEMMA TypeInit == Init => TypeOK
<1> SUFFICES ASSUME Init PROVE TypeOK
  OBVIOUS
<1>1. NoPage \in Page /\ NoLink \in Link /\ SeedRequest \in Request
  BY UrlAssumption, DataAssumption, BoundAssumption
  DEF NoPage, Page, NoLink, Link, EmptyDocument, Document, SeedRequest,
      Request, Time
<1>2. gen \in 1 .. MaxGen /\ faults \in 0 .. MaxFaults
  BY BoundAssumption DEF Init
<1>3. /\ IsMap(inflight, Url, Data) /\ IsMap(store, Url, Document)
      /\ IsMap(index, Url, Data) /\ IsMap(text, Url, Data)
  BY EmptyMap DEF Init
<1>4. pending \in [Request -> Nat]
  BY DEF Init
<1>5. asked \in [Url -> 0 .. AskedCap]
  BY BoundAssumption DEF Init
<1>6. pc \in [Thread -> PC]
  BY DEF Init, PC
<1>7. page \in [Thread -> Page] /\ link \in [Thread -> Link]
  BY <1>1 DEF Init
<1>8. todo \in [Thread -> SUBSET Href] /\ writes \in [Thread -> SUBSET Write]
  BY DEF Init
<1>9. web \in [Url -> Document] /\ failed \subseteq Url
  BY DEF Init
<1> QED
  BY <1>2, <1>3, <1>4, <1>5, <1>6, <1>7, <1>8, <1>9 DEF TypeOK

LEMMA TypeDeliver ==
    ASSUME TypeOK, NEW t \in Thread, Deliver(t)
    PROVE  TypeOK'
<1>1. PICK r \in Request : \/ FetchFailed(t, r)
                          \/ Fetched(t, r)
                          \/ \E typed \in BOOLEAN : NotModified(t, r, typed)
  BY DEF Deliver
<1>2. r.url \in Url
  BY DEF Request
<1>3. CASE FetchFailed(t, r)
  <2>1. faults' \in 0 .. MaxFaults /\ failed' \subseteq Url
    BY <1>2, <1>3, FaultType DEF FetchFailed
  <2> QED
    BY <1>3, <2>1, TakeType
    DEF FetchFailed, TypeOK, threadVars, storageVars, IsMap
<1>4. CASE Fetched(t, r)
  <2> DEFINE data == web[Location[r.url]].data
  <2>1. Reply(t, r, data, data \in TextData, TRUE)
    BY <1>4 DEF Fetched
  <2>2. data \in Data /\ (data \in TextData) \in BOOLEAN
    BY ReplyData
  <2> HIDE DEF data
  <2> QED
    BY <2>1, <2>2, ReplyType, Zenon
<1>5. CASE \E typed \in BOOLEAN : NotModified(t, r, typed)
  <2> DEFINE data == OldData(r.url)
  <2>1. PICK judged : Reply(t, r, data, judged \in TextData, FALSE)
    BY <1>5 DEF NotModified
  <2>2. data \in Data /\ (judged \in TextData) \in BOOLEAN
    BY ReplyData
  <2> HIDE DEF data
  <2> QED
    BY <2>1, <2>2, ReplyType, Zenon
<1> QED
  BY <1>1, <1>3, <1>4, <1>5

LEMMA TypeStepOfThread ==
    ASSUME TypeOK, NEW t \in Thread, Step(t)
    PROVE  TypeOK'
<1> USE DEF engineVars, threadVars, storageVars, faultVars
<1>1. /\ page[t].loc \in Url /\ page[t].url \in Url
      /\ Content(t) \in Data
      /\ link[t].url \in Url /\ link[t].doc \in Document
      /\ NoPage \in Page /\ NoLink \in Link /\ 0 \in Time
  BY UrlAssumption, DataAssumption, BoundAssumption
  DEF TypeOK, Page, Link, Content, NoPage, NoLink, EmptyDocument, Document, Time
<1>2. CASE SetIndexes(t)
  <2>1. pc' \in [Thread -> PC]
    BY <1>2, GotoType DEF SetIndexes, PC
  <2>2. CASE index' = Put(index, page[t].loc, Content(t)) /\ UNCHANGED faultVars
    <3>1. IsMap(index, Url, Data)'
      <4>1. IsMap(Put(index, page[t].loc, Content(t)), Url, Data)
        BY <1>1, PutMap DEF TypeOK
      <4> QED
        BY <2>2, <4>1 DEF IsMap
    <3> QED
      BY <1>2, <2>1, <2>2, <3>1 DEF SetIndexes, TypeOK, IsMap
  <2>3. CASE Fault({page[t].loc}) /\ UNCHANGED index
    <3>1. faults' \in 0 .. MaxFaults /\ failed' \subseteq Url
      BY <1>1, <2>3, FaultType
    <3> QED
      BY <1>2, <2>1, <2>3, <3>1 DEF SetIndexes, TypeOK, IsMap
  <2> QED
    BY <1>2, <2>2, <2>3 DEF SetIndexes
<1>3. CASE WriteText(t)
  <2>1. pc' \in [Thread -> PC]
    BY <1>3, GotoType DEF WriteText, PC
  <2>2. CASE text' = Put(text, page[t].loc, Content(t)) /\ UNCHANGED faultVars
    <3>1. IsMap(text, Url, Data)'
      <4>1. IsMap(Put(text, page[t].loc, Content(t)), Url, Data)
        BY <1>1, PutMap DEF TypeOK
      <4> QED
        BY <2>2, <4>1 DEF IsMap
    <3> QED
      BY <1>3, <2>1, <2>2, <3>1 DEF WriteText, TypeOK, IsMap
  <2>3. CASE Fault({page[t].loc}) /\ UNCHANGED text
    <3>1. faults' \in 0 .. MaxFaults /\ failed' \subseteq Url
      BY <1>1, <2>3, FaultType
    <3> QED
      BY <1>3, <2>1, <2>3, <3>1 DEF WriteText, TypeOK, IsMap
  <2> QED
    BY <1>3, <2>2, <2>3 DEF WriteText
<1>4. CASE ProcessorThrows(t)
  <2>1. pc' \in [Thread -> PC]
    BY <1>4, GotoType DEF ProcessorThrows, PC
  <2>2. faults' \in 0 .. MaxFaults /\ failed' \subseteq Url
    BY <1>4, FaultType DEF ProcessorThrows
  <2>3. pending' \in [Request -> Nat] /\ asked' \in [Url -> 0 .. AskedCap]
    BY <1>1, <1>4, FeedType DEF ProcessorThrows
  <2> QED
    BY <1>4, <2>1, <2>2, <2>3 DEF ProcessorThrows, TypeOK, IsMap
<1>5. ASSUME NEW h \in Href, SkipLink(t, h) PROVE TypeOK'
  BY <1>5 DEF SkipLink, TypeOK, IsMap
<1>6. ASSUME NEW h \in Href, ClaimLink(t, h) PROVE TypeOK'
  <2>1. Target[h] \in Url
    BY HrefAssumption
  <2>2. pc' \in [Thread -> PC]
    BY <1>6, GotoType DEF ClaimLink, PC
  <2>3. IsMap(inflight, Url, Data)'
    BY <1>6, <2>1, InsertType, DataAssumption DEF ClaimLink
  <2>4. link' \in [Thread -> Link]
    BY <1>6, <2>1, DataAssumption, BoundAssumption
    DEF ClaimLink, TypeOK, Link, EmptyDocument, Document, Time
  <2> QED
    BY <1>6, <2>2, <2>3, <2>4 DEF ClaimLink, TypeOK, IsMap
<1>7. CASE CacheMiss(t)
  <2>1. pc' \in [Thread -> PC]
    BY <1>7, GotoType DEF CacheMiss, PC
  <2>2. faults' \in 0 .. MaxFaults /\ failed' \subseteq Url
    BY <1>7, FaultType DEF CacheMiss, TypeOK
  <2>3. pending' \in [Request -> Nat] /\ asked' \in [Url -> 0 .. AskedCap]
    BY <1>1, <1>7, FeedType DEF CacheMiss
  <2>4. link' \in [Thread -> Link]
    BY <1>1, <1>7 DEF CacheMiss, TypeOK
  <2> QED
    BY <1>7, <2>1, <2>2, <2>3, <2>4 DEF CacheMiss, TypeOK, IsMap
<1>8. CASE CacheHit(t)
  <2>1. pc' \in [Thread -> PC]
    BY <1>8, GotoType DEF CacheHit, PC
  <2>2. store[link[t].url] \in Document
    BY <1>8 DEF CacheHit, TypeOK, IsMap
  <2>3. link' \in [Thread -> Link]
    BY <1>1, <1>8, <2>2 DEF CacheHit, TypeOK, Link
  <2> QED
    BY <1>8, <2>1, <2>3 DEF CacheHit, TypeOK, IsMap
<1>9. CASE FoundInPageCache(t)
  <2>1. pc' \in [Thread -> PC]
    BY <1>9, GotoType DEF FoundInPageCache, PC
  <2>2. link[t].doc.ts \in Time /\ link[t].doc.data \in Data
    BY <1>1 DEF Document
  <2>3. pending' \in [Request -> Nat] /\ asked' \in [Url -> 0 .. AskedCap]
    BY <1>1, <1>9, <2>2, FeedType DEF FoundInPageCache
  <2>4. IsMap(inflight, Url, Data)'
    BY <1>1, <1>9, <2>2, InsertType DEF FoundInPageCache
  <2>5. link' \in [Thread -> Link]
    BY <1>1, <1>9 DEF FoundInPageCache, TypeOK
  <2> QED
    BY <1>9, <2>1, <2>3, <2>4, <2>5 DEF FoundInPageCache, TypeOK, IsMap
<1>10. CASE Finish(t)
  <2>1. pc' \in [Thread -> PC]
    BY <1>10, GotoType DEF Finish, PC
  <2> QED
    BY <1>1, <1>10, <2>1 DEF Finish, TypeOK, IsMap
<1> QED
  BY <1>2, <1>3, <1>4, <1>5, <1>6, <1>7, <1>8, <1>9, <1>10 DEF Step

LEMMA TypeComplete ==
    ASSUME TypeOK, NEW t \in Thread, Complete(t)
    PROVE  TypeOK'
<1> USE DEF engineVars, threadVars, storageVars, faultVars
<1>1. PICK w \in Write : WriteDone(t, w) \/ WriteFailed(t, w)
  BY DEF Complete
<1>2. w.key \in Url /\ w.data \in Data
  BY DEF Write
<1>3. writes' \in [Thread -> SUBSET Write]
  BY <1>1 DEF WriteDone, WriteFailed, TypeOK
<1>4. CASE WriteDone(t, w)
  <2>1. [ts |-> gen, data |-> w.data] \in Document
    BY <1>2, BoundAssumption DEF TypeOK, Document, Time
  <2>2. IsMap(Put(store, w.key, [ts |-> gen, data |-> w.data]), Url, Document)
    BY <1>2, <2>1, PutMap DEF TypeOK
  <2>3. IsMap(store, Url, Document)'
    BY <1>4, <2>2 DEF WriteDone, IsMap
  <2> QED
    BY <1>3, <1>4, <2>3 DEF WriteDone, TypeOK, IsMap
<1>5. CASE WriteFailed(t, w)
  <2>1. faults' \in 0 .. MaxFaults /\ failed' \subseteq Url
    BY <1>2, <1>5, FaultType DEF WriteFailed
  <2> QED
    BY <1>3, <1>5, <2>1 DEF WriteFailed, TypeOK, IsMap
<1> QED
  BY <1>1, <1>4, <1>5

LEMMA TypeRestart ==
    ASSUME TypeOK, Restart
    PROVE  TypeOK'
<1>1. NoPage \in Page /\ NoLink \in Link
  BY UrlAssumption, DataAssumption, BoundAssumption
  DEF NoPage, Page, NoLink, Link, EmptyDocument, Document, Time
<1>2. gen' \in 1 .. MaxGen /\ gen + 1 \in Time
  BY BoundAssumption DEF Restart, TypeOK, Time
<1>3. web' \in [Url -> Document]
  <2>1. PICK changed \in SUBSET Url, new \in [Url -> UNION {Bodies[u] : u \in Url}] :
          web' = [u \in Url |-> IF u \in changed
                                THEN [ts |-> gen + 1, data |-> new[u]]
                                ELSE web[u]]
    BY DEF Restart
  <2>2. \A u \in Url : new[u] \in Data
    BY DataAssumption
  <2> QED
    BY <1>2, <2>1, <2>2 DEF TypeOK, Document
<1>4. IsMap(inflight, Url, Data)'
  BY EmptyMap DEF Restart, IsMap
<1>5. pending' \in [Request -> Nat] /\ asked' \in [Url -> 0 .. AskedCap]
  BY BoundAssumption DEF Restart
<1>6. /\ pc' \in [Thread -> PC] /\ page' \in [Thread -> Page]
      /\ todo' \in [Thread -> SUBSET Href] /\ link' \in [Thread -> Link]
      /\ writes' \in [Thread -> SUBSET Write] /\ failed' \subseteq Url
  BY <1>1 DEF Restart, PC
<1> QED
  BY <1>2, <1>3, <1>4, <1>5, <1>6 DEF Restart, TypeOK, storageVars, IsMap

LEMMA TypeNext == TypeOK /\ [Next]_vars => TypeOK'
<1> SUFFICES ASSUME TypeOK, [Next]_vars PROVE TypeOK'
  OBVIOUS
<1>1. CASE Next
  BY <1>1, TypeDeliver, TypeStepOfThread, TypeComplete, TypeRestart DEF Next
<1>2. CASE UNCHANGED vars
  BY <1>2 DEF vars, engineVars, threadVars, storageVars, faultVars, TypeOK, IsMap
<1> QED
  BY <1>1, <1>2

(* Every reachable state is well typed: in particular no request is         *)
(* answered that was not fed, and no document, page or index appears under  *)
(* a key that is no URL.                                                    *)
THEOREM TypeCorrect == Spec => []TypeOK
  BY TypeInit, TypeNext, PTL DEF Spec

-----------------------------------------------------------------------------
(* No document in the storage is newer than the running engine.             *)
StoredInPast == \A u \in DOMAIN store : store[u].ts <= gen

(* Timestamps in the storage: needed because CacheHit tells documents of    *)
(* this run from older ones by "before generation_time".                    *)
LEMMA StoredInPastNext ==
    TypeOK /\ StoredInPast /\ [Next]_vars => StoredInPast'
<1> SUFFICES ASSUME TypeOK, StoredInPast, [Next]_vars PROVE StoredInPast'
  OBVIOUS
<1> USE DEF StoredInPast, engineVars, threadVars, storageVars, faultVars
<1>1. ASSUME NEW t \in Thread, Deliver(t) PROVE UNCHANGED <<store, gen>>
  BY <1>1 DEF Deliver, FetchFailed, Fetched, NotModified, Reply
<1>2. ASSUME NEW t \in Thread, Step(t) PROVE UNCHANGED <<store, gen>>
  BY <1>2 DEF Step, SetIndexes, WriteText, ProcessorThrows, SkipLink, ClaimLink,
              CacheMiss, CacheHit, FoundInPageCache, Finish
<1>3. ASSUME NEW t \in Thread, Complete(t) PROVE StoredInPast'
  <2>1. PICK w \in Write : WriteDone(t, w) \/ WriteFailed(t, w)
    BY <1>3 DEF Complete
  <2>2. CASE WriteDone(t, w)
    BY <2>2 DEF WriteDone, TypeOK, IsMap, Put
  <2>3. CASE WriteFailed(t, w)
    BY <2>3 DEF WriteFailed
  <2> QED
    BY <2>1, <2>2, <2>3
<1>4. CASE Restart
  BY <1>4 DEF Restart, TypeOK, IsMap, Document, Time
<1>5. CASE UNCHANGED vars
  BY <1>5 DEF vars
<1> QED
  BY <1>1, <1>2, <1>3, <1>4, <1>5 DEF Next

LEMMA FreshFrame ==
    ASSUME NEW u, Fresh(u), UNCHANGED <<gen, store>>
    PROVE  Fresh(u)'
  BY DEF Fresh

(* What keeps every reason for an entry: no request taken, no lookup of     *)
(* its URL given up, nothing lost from the storage.                         *)
LEMMA JustifiedFrame ==
    ASSUME NEW u \in Url, Justified(u),
           \A r \in Request : pending[r] > 0 => pending'[r] > 0,
           \A q \in Thread : LookingUp(q, u) => LookingUp(q, u)',
           Fresh(u) => Fresh(u)'
    PROVE  Justified(u)'
<1>1. Pending(u) => Pending(u)'
  <2> SUFFICES ASSUME NEW s \in Time, pending[[url |-> u, since |-> s]] > 0
               PROVE  pending'[[url |-> u, since |-> s]] > 0
    BY DEF Pending
  <2> QED
    BY DEF Request
<1> QED
  BY <1>1 DEF Justified

(* A reply takes its own URL's entry with it.                               *)
LEMMA DeliverJustified ==
    ASSUME TypeOK, InflightJustified, NEW t \in Thread, Deliver(t)
    PROVE  InflightJustified'
<1>1. PICK r \in Request : \/ FetchFailed(t, r)
                          \/ Fetched(t, r)
                          \/ \E typed \in BOOLEAN : NotModified(t, r, typed)
  BY DEF Deliver
<1>2. /\ pc[t] = "idle" /\ Take(r)
      /\ \A q \in Thread \ {t} : pc'[q] = pc[q]
      /\ UNCHANGED <<gen, store, link>>
  BY <1>1 DEF FetchFailed, Fetched, NotModified, Reply, Goto, TypeOK,
              threadVars, storageVars
<1> SUFFICES ASSUME NEW u \in DOMAIN inflight' PROVE Justified(u)'
  BY DEF InflightJustified
<1>3. u \in DOMAIN inflight /\ u # r.url
  BY <1>2 DEF Take, InflightErase
<1>4. CASE Pending(u)
  <2>1. PICK s \in Time : pending[[url |-> u, since |-> s]] > 0
    BY <1>4 DEF Pending
  <2> DEFINE p == [url |-> u, since |-> s]
  <2>2. p \in Request /\ p # r
    BY <1>3 DEF Request, TypeOK, IsMap
  <2>3. pending'[p] > 0
    BY <1>2, <2>1, <2>2 DEF Take, TypeOK
  <2> QED
    BY <2>3 DEF Justified, Pending
<1>5. CASE \E q \in Thread : LookingUp(q, u)
  <2>1. PICK q \in Thread : LookingUp(q, u)
    BY <1>5
  <2>2. q # t
    BY <1>2, <2>1 DEF LookingUp
  <2>3. LookingUp(q, u)'
    BY <1>2, <2>1, <2>2 DEF LookingUp
  <2> QED
    BY <2>3 DEF Justified
<1>6. CASE Fresh(u)
  BY <1>2, <1>6, FreshFrame DEF Justified
<1> QED
  BY <1>3, <1>4, <1>5, <1>6 DEF InflightJustified, Justified

(* A thread that handles a page gives up a lookup only for a request or for *)
(* a fresh page.                                                            *)
LEMMA StepJustified ==
    ASSUME TypeOK, StoredInPast, InflightJustified, NEW t \in Thread, Step(t)
    PROVE  InflightJustified'
<1> USE DEF engineVars, threadVars, storageVars, faultVars
<1> SUFFICES ASSUME NEW u \in DOMAIN inflight' PROVE Justified(u)'
  BY DEF InflightJustified
<1>1. \A v \in DOMAIN inflight : v \in Url /\ Justified(v)
  BY DEF InflightJustified, TypeOK, IsMap
<1>2. page[t].url \in Url /\ link[t].url \in Url /\ link[t].doc.ts \in Time
      /\ 0 \in Time
  BY BoundAssumption DEF TypeOK, Page, Link, Document, Time
<1>3. ASSUME SetIndexes(t) \/ WriteText(t) \/ Finish(t)
             \/ \E h \in Href : SkipLink(t, h)
      PROVE  Justified(u)'
  <2>1. /\ u \in DOMAIN inflight /\ UNCHANGED <<pending, store, gen>>
        /\ \A q \in Thread : LookingUp(q, u) => LookingUp(q, u)'
    BY <1>3 DEF SetIndexes, WriteText, Finish, SkipLink, Goto, LookingUp, TypeOK
  <2> QED
    BY <1>1, <2>1, JustifiedFrame DEF Fresh
<1>4. CASE ProcessorThrows(t)
  <2>1. \A r \in Request : pending[r] > 0 => pending'[r] > 0
    BY <1>2, <1>4, FeedType DEF ProcessorThrows
  <2>2. /\ u \in DOMAIN inflight /\ UNCHANGED <<store, gen>>
        /\ \A q \in Thread : LookingUp(q, u) => LookingUp(q, u)'
    BY <1>4 DEF ProcessorThrows, Goto, LookingUp, TypeOK
  <2> QED
    BY <1>1, <2>1, <2>2, JustifiedFrame DEF Fresh
<1>5. ASSUME NEW h \in Href, ClaimLink(t, h) PROVE Justified(u)'
  <2>1. CASE u = Target[h]
    <3>1. LookingUp(t, u)'
      BY <1>5, <2>1 DEF ClaimLink, Goto, LookingUp, TypeOK
    <3> QED
      BY <3>1 DEF Justified
  <2>2. CASE u # Target[h]
    <3>1. u \in DOMAIN inflight
      BY <1>5, <2>2 DEF ClaimLink, InflightInsert
    <3>2. /\ UNCHANGED <<pending, store, gen>>
          /\ \A q \in Thread : LookingUp(q, u) => LookingUp(q, u)'
      BY <1>5 DEF ClaimLink, Goto, LookingUp, TypeOK
    <3> QED
      BY <1>1, <3>1, <3>2, JustifiedFrame DEF Fresh
  <2> QED
    BY <2>1, <2>2
<1>6. CASE CacheMiss(t)
  <2>1. /\ \A r \in Request : pending[r] > 0 => pending'[r] > 0
        /\ pending'[[url |-> link[t].url, since |-> 0]] > 0
    BY <1>2, <1>6, FeedType DEF CacheMiss
  <2>2. CASE u = link[t].url
    BY <1>2, <2>1, <2>2 DEF Justified, Pending
  <2>3. CASE u # link[t].url
    <3>1. /\ u \in DOMAIN inflight /\ UNCHANGED <<store, gen>>
          /\ \A q \in Thread : LookingUp(q, u) => LookingUp(q, u)'
      BY <1>6, <2>3 DEF CacheMiss, Goto, LookingUp, TypeOK
    <3> QED
      BY <1>1, <2>1, <3>1, JustifiedFrame DEF Fresh
  <2> QED
    BY <2>2, <2>3
<1>7. CASE CacheHit(t)
  <2>1. u \in DOMAIN inflight /\ UNCHANGED <<pending, store, gen>>
    BY <1>7 DEF CacheHit
  <2>2. CASE Outdated(store[link[t].url])
    <3>1. \A q \in Thread : LookingUp(q, u) => LookingUp(q, u)'
      BY <1>7, <2>2 DEF CacheHit, Goto, LookingUp, TypeOK, Link
    <3> QED
      BY <1>1, <2>1, <3>1, JustifiedFrame DEF Fresh
  <2>3. CASE ~ Outdated(store[link[t].url])
    <3>1. Fresh(link[t].url)
      <4>1. link[t].url \in DOMAIN store
        BY <1>7 DEF CacheHit
      <4>2. store[link[t].url].ts \in Time /\ gen \in Nat
        BY <4>1, BoundAssumption DEF TypeOK, IsMap, Document
      <4>3. store[link[t].url].ts <= gen
        BY <4>1 DEF StoredInPast
      <4> QED
        BY <2>3, <4>1, <4>2, <4>3 DEF Outdated, Fresh, Time
    <3>2. CASE u = link[t].url
      BY <2>1, <3>1, <3>2 DEF Justified, Fresh
    <3>3. CASE u # link[t].url
      <4>1. \A q \in Thread : LookingUp(q, u) => LookingUp(q, u)'
        BY <1>7, <2>3, <3>3 DEF CacheHit, Goto, LookingUp, TypeOK
      <4> QED
        BY <1>1, <2>1, <4>1, JustifiedFrame DEF Fresh
    <3> QED
      BY <3>2, <3>3
  <2> QED
    BY <2>2, <2>3
<1>8. CASE FoundInPageCache(t)
  <2>1. /\ \A r \in Request : pending[r] > 0 => pending'[r] > 0
        /\ pending'[[url |-> link[t].url, since |-> link[t].doc.ts]] > 0
    BY <1>2, <1>8, FeedType DEF FoundInPageCache
  <2>2. CASE u = link[t].url
    BY <1>2, <2>1, <2>2 DEF Justified, Pending
  <2>3. CASE u # link[t].url
    <3>1. u \in DOMAIN inflight
      BY <1>8, <2>3 DEF FoundInPageCache, InflightInsert
    <3>2. /\ UNCHANGED <<store, gen>>
          /\ \A q \in Thread : LookingUp(q, u) => LookingUp(q, u)'
      BY <1>8, <2>3 DEF FoundInPageCache, Goto, LookingUp, TypeOK
    <3> QED
      BY <1>1, <2>1, <3>1, <3>2, JustifiedFrame DEF Fresh
  <2> QED
    BY <2>2, <2>3
<1> QED
  BY <1>3, <1>4, <1>5, <1>6, <1>7, <1>8 DEF Step

LEMMA CompleteJustified ==
    ASSUME TypeOK, InflightJustified, NEW t \in Thread, Complete(t)
    PROVE  InflightJustified'
<1> SUFFICES ASSUME NEW u \in DOMAIN inflight' PROVE Justified(u)'
  BY DEF InflightJustified
<1>1. PICK w \in Write : WriteDone(t, w) \/ WriteFailed(t, w)
  BY DEF Complete
<1>2. /\ u \in DOMAIN inflight
      /\ UNCHANGED <<gen, pending, pc, link>>
  BY <1>1 DEF WriteDone, WriteFailed, engineVars, threadVars
<1>3. u \in Url /\ Justified(u)
  BY <1>2 DEF InflightJustified, TypeOK, IsMap
<1>4. Fresh(u) => Fresh(u)'
  BY <1>1, <1>2 DEF WriteDone, WriteFailed, storageVars, Fresh, Put
<1>5. \A q \in Thread : LookingUp(q, u) => LookingUp(q, u)'
  BY <1>2 DEF LookingUp
<1> QED
  BY <1>2, <1>3, <1>4, <1>5, JustifiedFrame

-----------------------------------------------------------------------------
IInv == TypeOK /\ StoredInPast /\ InflightJustified

LEMMA IInvInit == Init => IInv
<1> SUFFICES ASSUME Init PROVE IInv
  OBVIOUS
<1>1. TypeOK
  BY TypeInit
<1>2. StoredInPast /\ InflightJustified
  BY DEF Init, StoredInPast, InflightJustified
<1> QED
  BY <1>1, <1>2 DEF IInv

LEMMA IInvNext == IInv /\ [Next]_vars => IInv'
<1> SUFFICES ASSUME IInv, [Next]_vars PROVE IInv'
  OBVIOUS
<1>1. TypeOK' /\ StoredInPast'
  BY TypeNext, StoredInPastNext DEF IInv
<1>2. CASE \E t \in Thread : Deliver(t) \/ Step(t) \/ Complete(t)
  BY <1>1, <1>2, DeliverJustified, StepJustified, CompleteJustified DEF IInv
<1>3. CASE Restart
  BY <1>1, <1>3 DEF IInv, Restart, InflightJustified
<1>4. CASE UNCHANGED vars
  BY <1>1, <1>4 DEF IInv, InflightJustified, Justified, Pending, LookingUp, Fresh,
                    vars, engineVars, threadVars, storageVars
<1> QED
  BY <1>2, <1>3, <1>4 DEF Next

(* Whatever the threads do, whichever calls fail and whenever the engine is *)
(* restarted, an entry in inflight that makes threads skip a URL has a      *)
(* reason: the URL is being asked for, is about to be, or has been stored   *)
(* by this run.                                                             *)
THEOREM InflightAlwaysJustified == Spec => []InflightJustified
<1>1. IInv => InflightJustified
  BY DEF IInv
<1> QED
  BY <1>1, IInvInit, IInvNext, PTL DEF Spec

-----------------------------------------------------------------------------
(* While a thread handles a page, the page is stored under both URLs, or    *)
(* the write is under way, or it has failed.                                *)
WritesTracked ==
    \A t \in Thread : pc[t] # "idle" =>
        \A u \in {page[t].url, page[t].loc} :
            Fresh(u) \/ u \in failed \/ \E w \in writes[t] : w.key = u

(* What a page's thread still owes the storage, step by step.               *)
Tracked(t, u) ==
    Fresh(u) \/ u \in failed \/ \E w \in writes[t] : w.key = u

LEMMA DeliverTracked ==
    ASSUME TypeOK, WritesTracked, NEW t \in Thread, Deliver(t)
    PROVE  WritesTracked'
<1> USE DEF threadVars, storageVars, faultVars
<1>1. PICK r \in Request : \/ FetchFailed(t, r)
                          \/ Fetched(t, r)
                          \/ \E typed \in BOOLEAN : NotModified(t, r, typed)
  BY DEF Deliver
<1>2. CASE FetchFailed(t, r)
  BY <1>2 DEF FetchFailed, Fault, WritesTracked, Fresh
<1>3. ASSUME NEW data, NEW accepted, NEW modified,
             Reply(t, r, data, accepted, modified)
      PROVE  WritesTracked'
  <2> SUFFICES ASSUME NEW q \in Thread, pc'[q] # "idle",
                      NEW u \in {page'[q].url, page'[q].loc}
               PROVE  Tracked(q, u)'
    BY DEF WritesTracked, Tracked, Fresh
  <2>1. CASE q = t
    <3>1. u \in StoredUnder(r.url)
      BY <1>3, <2>1 DEF Reply, StoredUnder, TypeOK
    <3>2. [key |-> u, data |-> data] \in writes'[q]
      BY <1>3, <2>1, <3>1 DEF Reply, TypeOK
    <3> QED
      BY <3>2 DEF Tracked
  <2>2. CASE q # t
    BY <1>3, <2>2 DEF Reply, Goto, WritesTracked, Tracked, Fresh, TypeOK
  <2> QED
    BY <2>1, <2>2
<1> QED
  BY <1>1, <1>2, <1>3 DEF Fetched, NotModified

LEMMA StepTracked ==
    ASSUME TypeOK, WritesTracked, NEW t \in Thread, Step(t)
    PROVE  WritesTracked'
<1> USE DEF engineVars, threadVars, storageVars, faultVars
<1>1. /\ UNCHANGED <<gen, store, writes>>
      /\ failed \subseteq failed'
      /\ \A q \in Thread : pc'[q] # "idle" => pc[q] # "idle" /\ page'[q] = page[q]
  <2>1. CASE SetIndexes(t) \/ WriteText(t) \/ ProcessorThrows(t)
    BY <2>1 DEF SetIndexes, WriteText, ProcessorThrows, Fault, Goto, TypeOK
  <2>2. CASE \E h \in Href : SkipLink(t, h) \/ ClaimLink(t, h)
    BY <2>2 DEF SkipLink, ClaimLink, Goto, TypeOK
  <2>3. CASE CacheMiss(t) \/ CacheHit(t) \/ FoundInPageCache(t)
    BY <2>3 DEF CacheMiss, CacheHit, FoundInPageCache, Fault, Goto, TypeOK
  <2>4. CASE Finish(t)
    BY <2>4 DEF Finish, Goto, TypeOK
  <2> QED
    BY <2>1, <2>2, <2>3, <2>4 DEF Step
<1> QED
  BY <1>1 DEF WritesTracked, Fresh

LEMMA CompleteTracked ==
    ASSUME TypeOK, WritesTracked, NEW t \in Thread, Complete(t)
    PROVE  WritesTracked'
<1> USE DEF engineVars, threadVars, storageVars, faultVars
<1>1. PICK w \in Write : WriteDone(t, w) \/ WriteFailed(t, w)
  BY DEF Complete
<1> SUFFICES ASSUME NEW q \in Thread, pc'[q] # "idle",
                    NEW u \in {page'[q].url, page'[q].loc}
             PROVE  Tracked(q, u)'
  BY DEF WritesTracked, Tracked, Fresh
<1>2. Tracked(q, u)
  BY <1>1 DEF WriteDone, WriteFailed, WritesTracked, Tracked
<1>3. CASE u = w.key
  BY <1>1, <1>3 DEF WriteDone, WriteFailed, Fault, Put, Tracked, Fresh
<1>4. CASE u # w.key
  <2>1. Fresh(u) => Fresh(u)'
    BY <1>1, <1>4 DEF WriteDone, WriteFailed, Put, Fresh
  <2>2. failed \subseteq failed'
    BY <1>1 DEF WriteDone, WriteFailed, Fault
  <2>3. \A v \in writes[q] : v.key = u => v \in writes'[q]
    BY <1>1, <1>4 DEF WriteDone, WriteFailed, TypeOK
  <2> QED
    BY <1>2, <2>1, <2>2, <2>3 DEF Tracked
<1> QED
  BY <1>3, <1>4

LEMMA TrackedInit == Init => WritesTracked
  BY DEF Init, WritesTracked

LEMMA TrackedNext == TypeOK /\ WritesTracked /\ [Next]_vars => WritesTracked'
<1> SUFFICES ASSUME TypeOK, WritesTracked, [Next]_vars PROVE WritesTracked'
  OBVIOUS
<1>1. CASE \E t \in Thread : Deliver(t) \/ Step(t) \/ Complete(t)
  BY <1>1, DeliverTracked, StepTracked, CompleteTracked
<1>2. CASE Restart
  BY <1>2 DEF Restart, WritesTracked
<1>3. CASE UNCHANGED vars
  BY <1>3 DEF vars, engineVars, threadVars, storageVars, faultVars,
              WritesTracked, Fresh
<1> QED
  BY <1>1, <1>2, <1>3 DEF Next

(* A thread that goes idle was in Finish, with no write left under way.     *)
LEMMA IdleIsStored ==
    ASSUME TypeOK, WritesTracked, [Next]_vars, gen' = gen,
           NEW t \in Thread, pc[t] # "idle", pc'[t] = "idle",
           NEW u \in {page[t].url, page[t].loc}
    PROVE  Fresh(u) \/ u \in failed
<1> USE DEF engineVars, threadVars, storageVars, faultVars
<1>1. Finish(t)
  <2>1. ASSUME NEW q \in Thread, Deliver(q) PROVE FALSE
    BY <2>1 DEF Deliver, FetchFailed, Fetched, NotModified, Reply, Goto, TypeOK
  <2>2. ASSUME NEW q \in Thread, Complete(q) PROVE FALSE
    BY <2>2 DEF Complete, WriteDone, WriteFailed
  <2>3. ~ Restart
    BY DEF Restart, TypeOK
  <2>4. ASSUME NEW q \in Thread, Step(q) PROVE Finish(t)
    BY <2>4 DEF Step, SetIndexes, WriteText, ProcessorThrows, SkipLink, ClaimLink,
                CacheMiss, CacheHit, FoundInPageCache, Finish, Goto, TypeOK
  <2>5. ~ UNCHANGED vars
    BY DEF vars
  <2> QED
    BY <2>1, <2>2, <2>3, <2>4, <2>5 DEF Next
<1> QED
  BY <1>1 DEF Finish, WritesCompleted, WritesTracked

(* A downloader's thread does not turn to its next reply before the page it *)
(* has handled is in the storage under both its URLs, or the write failed.  *)
THEOREM AlwaysStoredBeforeNext == Spec => StoredBeforeNext
<1> DEFINE A == \A t \in Thread : pc[t] # "idle" /\ pc'[t] = "idle" /\ gen' = gen =>
                  \A u \in {page[t].url, page[t].loc} : Fresh(u) \/ u \in failed
<1>1. TypeOK /\ WritesTracked /\ [Next]_vars => [A]_vars
  BY IdleIsStored
<1>2. Spec => [][A]_vars
  BY <1>1, TypeInit, TypeNext, TrackedInit, TrackedNext, PTL DEF Spec
<1> QED
  BY <1>2 DEF StoredBeforeNext
=============================================================================
