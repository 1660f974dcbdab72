------------------------- MODULE CompletenessProofs -------------------------
(***************************************************************************)
(* What a crawl reaches, what it leaves in the indexes and how often it    *)
(* asks for a URL, proved for any web, number of threads, failed calls and *)
(* runs: the inductive invariants behind IndexedOwnContent, CrawlComplete, *)
(* StoredIsIndexed and BoundedDuplicates.                                  *)
(***************************************************************************)
EXTENDS CrawlerProofs, FiniteSetTheorems

(* Bodies never change between two runs without a change of time.           *)
BodiesCurrent ==
    \A u \in Url : web[u].ts <= gen /\ web[u].data \in Bodies[u]

(* A document of u kept since ts is empty, or it is what the server serves  *)
(* now if nothing has changed since.                                        *)
Honest(u, data, ts) ==
    data = NoData \/ (web[Location[u]].ts <= ts => data = web[Location[u]].data)

StoreHonest == \A u \in DOMAIN store : Honest(u, store[u].data, store[u].ts)

(* All that this run knows of u from earlier runs is one document: the one  *)
(* in the page cache until the first write, in the entry of inflight, with  *)
(* a thread that found it, and by its time in the conditional requests.     *)
IsOld(u, old) ==
    /\ old.ts < gen /\ Honest(u, old.data, old.ts)
    /\ u \in DOMAIN store => Fresh(u) \/ store[u] = old
    /\ u \in DOMAIN inflight => inflight[u] \in {NoData, old.data}
    /\ \A s \in Time : pending[[url |-> u, since |-> s]] > 0 => s \in {0, old.ts}
    /\ \A t \in Thread : pc[t] = "cached" /\ link[t].url = u => link[t].doc = old
OldKept == \A u \in Url : \E old \in Document : IsOld(u, old)

(* A page in a thread's hands is empty or what the server serves, and a     *)
(* text page has passed the filters.                                        *)
PageHonest(t) ==
    /\ page[t].loc = Location[page[t].url]
    /\ page[t].data \in {NoData, web[page[t].loc].data}
    /\ page[t].data \in TextData => page[t].accepted
PagesHonest == \A t \in Thread : pc[t] # "idle" => PageHonest(t)

(* A write that has not completed is one of the page in hand.               *)
WritesOwn ==
    \A t \in Thread : \A w \in writes[t] :
        /\ pc[t] # "idle"
        /\ w.data = page[t].data
        /\ w.key \in {page[t].url, page[t].loc}

HInv == BodiesCurrent /\ StoreHonest /\ OldKept /\ PagesHonest /\ WritesOwn

-----------------------------------------------------------------------------
LEMMA FeedPending ==
    ASSUME TypeOK, NEW u \in Url, NEW s \in Time, Feed(u, s),
           NEW q \in Request, pending'[q] > 0
    PROVE  pending[q] > 0 \/ q = [url |-> u, since |-> s]
<1> DEFINE r == [url |-> u, since |-> s]
<1>1. r \in Request
  BY DEF Request
<1>2. pending' = [pending EXCEPT ![r] = pending[r] + 1]
  BY DEF Feed
<1> HIDE DEF r
<1>3. pending[q] > 0 \/ q = r
  BY <1>1, <1>2 DEF TypeOK
<1> QED
  BY <1>3 DEF r

LEMMA TakePending ==
    ASSUME TypeOK, NEW r \in Request, Take(r), NEW q \in Request, pending'[q] > 0
    PROVE  pending[q] > 0
  BY DEF Take, TypeOK

LEMMA RequestOf ==
    ASSUME NEW u \in Url, NEW s \in Time
    PROVE  [url |-> u, since |-> s] \in Request
  BY DEF Request

(* A reply brings the body that is served now, or what was kept of the      *)
(* page's old document.                                                     *)
LEMMA ReplyHonest ==
    ASSUME TypeOK, HInv, NEW t \in Thread, NEW r \in Request,
           \/ Fetched(t, r)
           \/ \E typed \in BOOLEAN : NotModified(t, r, typed)
    PROVE  \E data \in Data, accepted \in BOOLEAN, modified \in BOOLEAN :
             /\ Reply(t, r, data, accepted, modified)
             /\ data \in {NoData, web[Location[r.url]].data}
             /\ data \in TextData => accepted
<1>1. /\ r.url \in Url /\ r.since \in Time
      /\ Location[r.url] \in Url
      /\ web[Location[r.url]].data \in Data
      /\ OldData(r.url) \in Data
  BY ReplyData, UrlAssumption DEF Request
<1>2. CASE Fetched(t, r)
  <2> DEFINE data == web[Location[r.url]].data
             accepted == data \in TextData
  <2>1. Reply(t, r, data, accepted, TRUE)
    BY <1>2 DEF Fetched
  <2>2. accepted \in BOOLEAN /\ data \in Data
    BY <1>1
  <2>3. data \in TextData => accepted
    OBVIOUS
  <2>4. data \in {NoData, web[Location[r.url]].data}
    OBVIOUS
  <2> HIDE DEF data, accepted
  <2> QED
    BY <2>1, <2>2, <2>3, <2>4
<1>3. CASE \E typed \in BOOLEAN : NotModified(t, r, typed)
  <2>1. PICK typed \in BOOLEAN : NotModified(t, r, typed)
    BY <1>3
  <2> DEFINE now == web[Location[r.url]]
             data == OldData(r.url)
             judged == IF typed THEN now.data ELSE data
             accepted == judged \in TextData
  <2>2. /\ r.since # 0 /\ now.ts <= r.since
        /\ Reply(t, r, data, accepted, FALSE)
    BY <2>1 DEF NotModified
  <2>3. pending[r] > 0 /\ r = [url |-> r.url, since |-> r.since]
    BY <2>2 DEF Reply, Take, Request
  <2>4. PICK old \in Document : IsOld(r.url, old)
    BY <1>1 DEF HInv, OldKept
  <2>5. r.since = old.ts
    BY <1>1, <2>2, <2>3, <2>4 DEF IsOld
  <2>6. data \in {NoData, old.data}
    BY <2>4 DEF OldData, IsOld
  <2>7. old.data \in {NoData, now.data}
    BY <2>2, <2>4, <2>5 DEF IsOld, Honest
  <2>8. data \in {NoData, now.data}
    BY <2>6, <2>7
  <2>9. data \in TextData => accepted
    BY <2>8, DataAssumption
  <2>10. accepted \in BOOLEAN /\ data \in Data
    BY <1>1
  <2> HIDE DEF data, accepted, now, judged
  <2>11. data \in {NoData, web[Location[r.url]].data}
    BY <2>8 DEF now
  <2> QED
    BY <2>2, <2>9, <2>10, <2>11
<1> QED
  BY <1>2, <1>3

(* What a step may do to the traces of u's old document.                    *)
LEMMA OldFrame ==
    ASSUME TypeOK, UNCHANGED <<gen, web>>,
           NEW u \in Url, NEW old \in Document, IsOld(u, old),
           \A s \in Time : pending'[[url |-> u, since |-> s]] > 0 =>
               pending[[url |-> u, since |-> s]] > 0 \/ s \in {0, old.ts},
           u \in DOMAIN inflight' =>
               \/ u \in DOMAIN inflight /\ inflight'[u] = inflight[u]
               \/ inflight'[u] \in {NoData, old.data},
           u \in DOMAIN store' =>
               Fresh(u)' \/ (u \in DOMAIN store /\ store'[u] = store[u]),
           \A q \in Thread : pc'[q] = "cached" /\ link'[q].url = u =>
               (pc[q] = "cached" /\ link[q] = link'[q]) \/ link'[q].doc = old
    PROVE  IsOld(u, old)'
<1>1. (old.ts < gen /\ Honest(u, old.data, old.ts))'
  BY DEF IsOld, Honest
<1>2. u \in DOMAIN store' => Fresh(u)' \/ store'[u] = old
  BY DEF IsOld, Fresh
<1>3. u \in DOMAIN inflight' => inflight'[u] \in {NoData, old.data}
  BY DEF IsOld
<1>4. \A s \in Time : pending'[[url |-> u, since |-> s]] > 0 => s \in {0, old.ts}
  BY DEF IsOld
<1>5. \A q \in Thread : pc'[q] = "cached" /\ link'[q].url = u => link'[q].doc = old
  BY DEF IsOld
<1> QED
  BY <1>1, <1>2, <1>3, <1>4, <1>5 DEF IsOld

LEMMA DeliverHonest ==
    ASSUME TypeOK, HInv, NEW t \in Thread, Deliver(t)
    PROVE  HInv'
<1> USE DEF threadVars, storageVars, faultVars
<1>1. PICK r \in Request : \/ FetchFailed(t, r)
                          \/ Fetched(t, r)
                          \/ \E typed \in BOOLEAN : NotModified(t, r, typed)
  BY DEF Deliver
<1>2. r.url \in Url
  BY DEF Request
<1>3. /\ pc[t] = "idle" /\ Take(r) /\ pc'[t] # "cached"
      /\ \A q \in Thread \ {t} : pc'[q] = pc[q] /\ page'[q] = page[q] /\ writes'[q] = writes[q]
      /\ UNCHANGED <<gen, web, store, link>>
  BY <1>1 DEF FetchFailed, Fetched, NotModified, Reply, Goto, TypeOK
<1>4. BodiesCurrent' /\ StoreHonest'
  BY <1>3 DEF HInv, BodiesCurrent, StoreHonest, Honest
<1>5. OldKept'
  <2> SUFFICES ASSUME NEW u \in Url PROVE (\E old \in Document : IsOld(u, old))'
    BY DEF OldKept
  <2>1. PICK old \in Document : IsOld(u, old)
    BY DEF HInv, OldKept
  <2>2. \A s \in Time : pending'[[url |-> u, since |-> s]] > 0 =>
                           pending[[url |-> u, since |-> s]] > 0
    BY <1>3, TakePending, RequestOf
  <2>3. u \in DOMAIN inflight' => u \in DOMAIN inflight /\ inflight'[u] = inflight[u]
    BY <1>3 DEF Take, InflightErase
  <2>4. u \in DOMAIN store' => u \in DOMAIN store /\ store'[u] = store[u]
    BY <1>3
  <2>5. \A q \in Thread : pc'[q] = "cached" => pc[q] = "cached" /\ link[q] = link'[q]
    BY <1>3
  <2>6. IsOld(u, old)'
    BY <1>3, <2>1, <2>2, <2>3, <2>4, <2>5, OldFrame
  <2>7. Document' = Document
    BY DEF Document, Time
  <2> QED
    BY <2>6, <2>7
<1>6. CASE FetchFailed(t, r)
  BY <1>3, <1>4, <1>5, <1>6 DEF FetchFailed, HInv, PagesHonest, PageHonest, WritesOwn
<1>7. CASE Fetched(t, r) \/ \E typed \in BOOLEAN : NotModified(t, r, typed)
  <2>1. PICK data \in Data, accepted \in BOOLEAN, modified \in BOOLEAN :
             /\ Reply(t, r, data, accepted, modified)
             /\ data \in {NoData, web[Location[r.url]].data}
             /\ data \in TextData => accepted
    BY <1>7, ReplyHonest
  <2>2. /\ page'[t] = [url |-> r.url, loc |-> Location[r.url], data |-> data,
                       accepted |-> accepted, modified |-> modified]
        /\ writes'[t] = {[key |-> u, data |-> data] : u \in StoredUnder(r.url)}
        /\ pc'[t] # "idle"
    BY <2>1 DEF Reply, Goto, TypeOK
  <2>3. PageHonest(t)'
    BY <1>3, <2>1, <2>2 DEF PageHonest
  <2>4. PagesHonest'
    BY <1>3, <2>3 DEF HInv, PagesHonest, PageHonest
  <2>5. WritesOwn'
    BY <1>3, <2>2 DEF HInv, WritesOwn, StoredUnder
  <2> QED
    BY <1>4, <1>5, <2>4, <2>5 DEF HInv
<1> QED
  BY <1>1, <1>6, <1>7

(* The steps of a thread that handles a page change neither page nor store. *)
LEMMA StepKeeps ==
    ASSUME TypeOK, NEW t \in Thread, Step(t)
    PROVE  /\ UNCHANGED <<gen, web, store, writes>>
           /\ \A q \in Thread \ {t} : /\ pc'[q] = pc[q] /\ page'[q] = page[q]
                                      /\ link'[q] = link[q] /\ todo'[q] = todo[q]
           /\ pc[t] # "idle"
           /\ pc'[t] = "idle" => Finish(t)
           /\ pc'[t] # "idle" => page'[t] = page[t]
           /\ todo'[t] \subseteq todo[t]
           /\ failed \subseteq failed'
<1> USE DEF engineVars, threadVars, storageVars, faultVars
<1>1. CASE SetIndexes(t) \/ WriteText(t) \/ ProcessorThrows(t)
  BY <1>1 DEF SetIndexes, WriteText, ProcessorThrows, Fault, Goto, TypeOK
<1>2. CASE \E h \in Href : SkipLink(t, h) \/ ClaimLink(t, h)
  BY <1>2 DEF SkipLink, ClaimLink, Goto, TypeOK
<1>3. CASE CacheMiss(t) \/ FoundInPageCache(t)
  BY <1>3 DEF CacheMiss, FoundInPageCache, Fault, Goto, TypeOK
<1>4. CASE CacheHit(t)
  BY <1>4 DEF CacheHit, Goto, TypeOK
<1>5. CASE Finish(t)
  BY <1>5 DEF Finish, Goto, TypeOK
<1> QED
  BY <1>1, <1>2, <1>3, <1>4, <1>5 DEF Step

LEMMA StepOld ==
    ASSUME TypeOK, HInv, NEW t \in Thread, Step(t)
    PROVE  OldKept'
<1> USE DEF engineVars, threadVars, storageVars, faultVars
<1>1. /\ UNCHANGED <<gen, web, store>>
      /\ \A q \in Thread \ {t} : pc'[q] = pc[q] /\ link'[q] = link[q]
  BY StepKeeps
<1>2. /\ page[t].url \in Url /\ link[t].url \in Url /\ link[t].doc \in Document
      /\ link[t].doc.ts \in Time /\ 0 \in Time
  BY BoundAssumption DEF TypeOK, Page, Link, Document, Time
<1> SUFFICES ASSUME NEW u \in Url PROVE (\E old \in Document : IsOld(u, old))'
  BY DEF OldKept
<1>3. PICK old \in Document : IsOld(u, old)
  BY DEF HInv, OldKept
<1> SUFFICES IsOld(u, old)'
  BY <1>3 DEF Document, Time
<1>4. \A s \in Time : [url |-> u, since |-> s] \in Request
  BY RequestOf
<1>5. CASE SetIndexes(t) \/ WriteText(t) \/ Finish(t) \/ \E h \in Href : SkipLink(t, h)
  <2>1. /\ UNCHANGED <<pending, inflight, link>>
        /\ pc'[t] = "cached" => pc[t] = "cached"
    BY <1>5 DEF SetIndexes, WriteText, Finish, SkipLink, Goto, TypeOK
  <2> QED
    BY <1>1, <1>3, <2>1, OldFrame
<1>6. CASE ProcessorThrows(t) \/ CacheMiss(t)
  <2>1. /\ UNCHANGED inflight /\ pc'[t] # "cached"
        /\ \E v \in Url : Feed(v, 0)
    BY <1>2, <1>6 DEF ProcessorThrows, CacheMiss, Goto, TypeOK
  <2>2. \A s \in Time : pending'[[url |-> u, since |-> s]] > 0 =>
                          pending[[url |-> u, since |-> s]] > 0 \/ s = 0
    BY <1>2, <1>4, <2>1, FeedPending
  <2> QED
    BY <1>1, <1>3, <2>1, <2>2, OldFrame
<1>7. ASSUME NEW h \in Href, ClaimLink(t, h) PROVE IsOld(u, old)'
  <2>1. UNCHANGED pending /\ pc'[t] # "cached"
    BY <1>7 DEF ClaimLink, Goto, TypeOK
  <2>2. u \in DOMAIN inflight' =>
               \/ u \in DOMAIN inflight /\ inflight'[u] = inflight[u]
               \/ inflight'[u] = NoData
    BY <1>7 DEF ClaimLink, InflightInsert
  <2> QED
    BY <1>1, <1>3, <2>1, <2>2, OldFrame
<1>8. CASE CacheHit(t)
  <2>1. UNCHANGED <<pending, inflight>>
    BY <1>8 DEF CacheHit
  <2>2. pc'[t] = "cached" =>
           /\ link'[t] = [link[t] EXCEPT !.doc = store[link[t].url]]
           /\ link[t].url \in DOMAIN store
           /\ store[link[t].url].ts < gen
    BY <1>8 DEF CacheHit, Outdated, Goto, TypeOK
  <2>3. pc'[t] = "cached" /\ link'[t].url = u => link'[t].doc = old
    <3> SUFFICES ASSUME pc'[t] = "cached", link'[t].url = u PROVE link'[t].doc = old
      OBVIOUS
    <3>1. link[t] \in Link
      BY DEF TypeOK
    <3>2. link[t].url = u /\ link'[t].doc = store[u]
      BY <2>2, <3>1 DEF Link
    <3>3. store[u] = old
      BY <1>3, <2>2, <3>2 DEF IsOld, Fresh, TypeOK, IsMap, Document, Time
    <3> QED
      BY <3>2, <3>3
  <2> QED
    BY <1>1, <1>3, <2>1, <2>3, OldFrame
<1>9. CASE FoundInPageCache(t)
  <2>1. /\ pc'[t] # "cached" /\ pc[t] = "cached"
        /\ InflightInsert(link[t].url, link[t].doc.data)
        /\ Feed(link[t].url, link[t].doc.ts)
    BY <1>9 DEF FoundInPageCache, Goto, TypeOK
  <2>2. link[t].url = u => link[t].doc = old
    BY <1>3, <2>1 DEF IsOld
  <2>3. \A s \in Time : pending'[[url |-> u, since |-> s]] > 0 =>
                          \/ pending[[url |-> u, since |-> s]] > 0
                          \/ u = link[t].url /\ s = link[t].doc.ts
    BY <1>2, <1>4, <2>1, FeedPending
  <2>4. u \in DOMAIN inflight' =>
               \/ u \in DOMAIN inflight /\ inflight'[u] = inflight[u]
               \/ u = link[t].url /\ inflight'[u] = link[t].doc.data
    BY <2>1 DEF InflightInsert
  <2> QED
    BY <1>1, <1>3, <2>1, <2>2, <2>3, <2>4, OldFrame
<1> QED
  BY <1>5, <1>6, <1>7, <1>8, <1>9 DEF Step

LEMMA StepHonest ==
    ASSUME TypeOK, HInv, NEW t \in Thread, Step(t)
    PROVE  HInv'
<1>1. BodiesCurrent' /\ StoreHonest'
  BY StepKeeps DEF HInv, BodiesCurrent, StoreHonest, Honest
<1>2. OldKept'
  BY StepOld
<1>3. PagesHonest'
  BY StepKeeps DEF HInv, PagesHonest, PageHonest
<1>4. WritesOwn'
  <2>1. pc'[t] = "idle" => writes[t] = {}
    BY StepKeeps DEF Finish, WritesCompleted
  <2> QED
    BY <2>1, StepKeeps DEF HInv, WritesOwn
<1> QED
  BY <1>1, <1>2, <1>3, <1>4 DEF HInv

(* What is written is honest under both URLs: redirects end at the one the  *)
(* page came from.                                                          *)
LEMMA CompleteHonest ==
    ASSUME TypeOK, HInv, NEW t \in Thread, Complete(t)
    PROVE  HInv'
<1> USE DEF engineVars, threadVars, storageVars, faultVars
<1>1. PICK w \in Write : WriteDone(t, w) \/ WriteFailed(t, w)
  BY DEF Complete
<1>2. /\ w \in writes[t] /\ UNCHANGED <<gen, web, inflight, pending, pc, page, link>>
      /\ writes' = [writes EXCEPT ![t] = @ \ {w}]
  BY <1>1 DEF WriteDone, WriteFailed
<1>3. w.key \in Url /\ w.data \in {NoData, web[Location[w.key]].data}
  <2>1. /\ PageHonest(t) /\ w.data = page[t].data /\ page[t].url \in Url
        /\ w.key \in {page[t].url, page[t].loc}
    BY <1>2 DEF HInv, WritesOwn, PagesHonest, TypeOK, Page
  <2>2. Location[w.key] = page[t].loc
    BY <2>1, UrlAssumption DEF PageHonest
  <2> QED
    BY <2>1, <2>2 DEF PageHonest, Write
<1>4. BodiesCurrent'
  BY <1>2 DEF HInv, BodiesCurrent
<1>5. PagesHonest'
  BY <1>2 DEF HInv, PagesHonest, PageHonest
<1>6. WritesOwn'
  BY <1>2 DEF HInv, WritesOwn, TypeOK
<1>7. \A u \in DOMAIN store' : \/ u \in DOMAIN store /\ store'[u] = store[u]
                               \/ /\ u = w.key /\ store'[u] = [ts |-> gen, data |-> w.data]
  BY <1>1 DEF WriteDone, WriteFailed, Put
<1>8. StoreHonest'
  BY <1>2, <1>3, <1>7 DEF HInv, StoreHonest, Honest
<1>9. OldKept'
  <2> SUFFICES ASSUME NEW u \in Url PROVE (\E old \in Document : IsOld(u, old))'
    BY DEF OldKept
  <2>1. PICK old \in Document : IsOld(u, old)
    BY DEF HInv, OldKept
  <2>2. u \in DOMAIN store' => Fresh(u)' \/ (u \in DOMAIN store /\ store'[u] = store[u])
    BY <1>2, <1>7 DEF Fresh
  <2>3. IsOld(u, old)'
    BY <1>2, <2>1, <2>2, OldFrame
  <2> QED
    BY <2>3 DEF Document, Time
<1> QED
  BY <1>4, <1>5, <1>6, <1>8, <1>9 DEF HInv

(* A new run: what is in the page cache is old now, and a page that changed *)
(* carries a later time than anything kept of it.                           *)
LEMMA RestartHonest ==
    ASSUME TypeOK, StoredInPast, HInv, Restart
    PROVE  HInv'
<1>1. PICK changed \in SUBSET Url, new \in [Url -> UNION {Bodies[u] : u \in Url}] :
         /\ \A u \in Url : IF u \in changed THEN new[u] \in Bodies[u]
                                            ELSE new[u] = web[u].data
         /\ web' = [u \in Url |-> IF u \in changed
                                  THEN [ts |-> gen + 1, data |-> new[u]]
                                  ELSE web[u]]
  BY DEF Restart
<1>2. /\ gen' = gen + 1 /\ gen \in Nat /\ inflight' = << >> /\ UNCHANGED store
      /\ pending' = [r \in Request |-> IF r = SeedRequest THEN 1 ELSE 0]
      /\ pc' = [t \in Thread |-> "idle"] /\ writes' = [t \in Thread |-> {}]
  BY BoundAssumption DEF Restart, TypeOK, storageVars
<1>3. \A u \in Url : web[u].ts \in Nat /\ web[u].ts <= gen
  BY BoundAssumption DEF TypeOK, Document, Time, HInv, BodiesCurrent
<1>4. BodiesCurrent'
  BY <1>1, <1>2, <1>3 DEF HInv, BodiesCurrent
<1>5. \A u \in Url, data \in Data, ts \in Nat :
          ts <= gen /\ Honest(u, data, ts) => Honest(u, data, ts)'
  <2> SUFFICES ASSUME NEW u \in Url, NEW data \in Data, NEW ts \in Nat,
                      ts <= gen, Honest(u, data, ts)
               PROVE  Honest(u, data, ts)'
    OBVIOUS
  <2>1. Location[u] \in Url
    BY UrlAssumption
  <2>2. CASE Location[u] \in changed
    BY <1>1, <1>2, <2>1, <2>2 DEF Honest
  <2>3. CASE Location[u] \notin changed
    BY <1>1, <2>1, <2>3 DEF Honest
  <2> QED
    BY <2>2, <2>3
<1>6. \A u \in DOMAIN store : /\ u \in Url /\ store[u] \in Document
                              /\ store[u].ts \in Nat /\ store[u].data \in Data
                              /\ store[u].ts <= gen
  BY BoundAssumption DEF TypeOK, IsMap, Document, Time, StoredInPast
<1>7. StoreHonest'
  BY <1>2, <1>5, <1>6 DEF HInv, StoreHonest
<1>8. OldKept'
  <2> SUFFICES ASSUME NEW u \in Url PROVE (\E old \in Document : IsOld(u, old))'
    BY DEF OldKept
  <2>1. EmptyDocument \in Document /\ EmptyDocument.ts = 0 /\ EmptyDocument.data = NoData
    BY DataAssumption, BoundAssumption DEF EmptyDocument, Document, Time
  <2>2. PICK old \in Document : old = IF u \in DOMAIN store THEN store[u] ELSE EmptyDocument
    BY <1>6, <2>1
  <2>3. old.ts < gen' /\ Honest(u, old.data, old.ts)'
    <3>1. CASE u \in DOMAIN store
      BY <1>2, <1>6, <1>7, <2>2, <3>1 DEF StoreHonest
    <3>2. CASE u \notin DOMAIN store
      BY <1>2, <2>1, <2>2, <3>2 DEF Honest
    <3> QED
      BY <3>1, <3>2
  <2>4. u \in DOMAIN store' => store'[u] = old
    BY <1>2, <2>2
  <2>5. \A s \in Time : pending'[[url |-> u, since |-> s]] > 0 => s = 0
    <3> SUFFICES ASSUME NEW s \in Time, pending'[[url |-> u, since |-> s]] > 0
                 PROVE  s = 0
      OBVIOUS
    <3>1. [url |-> u, since |-> s] \in Request
      BY RequestOf
    <3>2. [url |-> u, since |-> s] = SeedRequest
      BY <1>2, <3>1
    <3> QED
      BY <3>2 DEF SeedRequest
  <2>6. u \notin DOMAIN inflight' /\ \A t \in Thread : pc'[t] # "cached"
    BY <1>2
  <2>7. IsOld(u, old)'
    BY <2>3, <2>4, <2>5, <2>6 DEF IsOld
  <2> QED
    BY <2>7 DEF Document, Time
<1>9. PagesHonest' /\ WritesOwn'
  BY <1>2 DEF PagesHonest, WritesOwn
<1> QED
  BY <1>4, <1>7, <1>8, <1>9 DEF HInv

LEMMA HonestInit == Init => HInv
<1> SUFFICES ASSUME Init PROVE HInv
  OBVIOUS
<1>1. BodiesCurrent /\ StoreHonest /\ PagesHonest /\ WritesOwn
  BY DEF Init, BodiesCurrent, StoreHonest, PagesHonest, WritesOwn
<1>2. OldKept
  <2> SUFFICES ASSUME NEW u \in Url PROVE \E old \in Document : IsOld(u, old)
    BY DEF OldKept
  <2>1. EmptyDocument \in Document /\ EmptyDocument.ts = 0 /\ EmptyDocument.data = NoData
    BY DataAssumption, BoundAssumption DEF EmptyDocument, Document, Time
  <2>2. \A s \in Time : pending[[url |-> u, since |-> s]] > 0 => s = 0
    <3> SUFFICES ASSUME NEW s \in Time, pending[[url |-> u, since |-> s]] > 0
                 PROVE  s = 0
      OBVIOUS
    <3>1. [url |-> u, since |-> s] \in Request
      BY RequestOf
    <3>2. [url |-> u, since |-> s] = SeedRequest
      BY <3>1 DEF Init
    <3> QED
      BY <3>2 DEF SeedRequest
  <2>3. EmptyDocument.ts < gen /\ Honest(u, EmptyDocument.data, EmptyDocument.ts)
    BY <2>1 DEF Init, Honest
  <2>4. u \notin DOMAIN inflight /\ u \notin DOMAIN store /\ \A t \in Thread : pc[t] # "cached"
    BY DEF Init
  <2>5. IsOld(u, EmptyDocument)
    BY <2>1, <2>2, <2>3, <2>4 DEF IsOld
  <2> QED
    BY <2>1, <2>5
<1> QED
  BY <1>1, <1>2 DEF HInv

LEMMA HonestNext == IInv /\ HInv /\ [Next]_vars => HInv'
<1> SUFFICES ASSUME IInv, HInv, [Next]_vars PROVE HInv'
  OBVIOUS
<1>1. TypeOK /\ StoredInPast
  BY DEF IInv
<1>2. CASE Next
  BY <1>1, <1>2, DeliverHonest, StepHonest, CompleteHonest, RestartHonest DEF Next
<1>3. CASE UNCHANGED vars
  <2> USE <1>3 DEF vars, engineVars, threadVars, storageVars, faultVars
  <2>1. BodiesCurrent' /\ StoreHonest' /\ PagesHonest' /\ WritesOwn'
    BY DEF HInv, BodiesCurrent, StoreHonest, Honest, PagesHonest, PageHonest, WritesOwn
  <2>2. OldKept'
    BY DEF HInv, OldKept, IsOld, Honest, Fresh, Document, Time
  <2> QED
    BY <2>1, <2>2 DEF HInv
<1> QED
  BY <1>2, <1>3

LEMMA AlwaysHonest == Spec => [](IInv /\ HInv)
  BY IInvInit, IInvNext, HonestInit, HonestNext, PTL DEF Spec

-----------------------------------------------------------------------------
(* Only a thread that indexes its page changes the index.                   *)
LEMMA IndexedNext ==
    ASSUME TypeOK, HInv, IndexedOwnContent, [Next]_vars
    PROVE  IndexedOwnContent'
<1> USE DEF engineVars, threadVars, storageVars, faultVars
<1>1. ASSUME NEW t \in Thread, SetIndexes(t), index' # index
      PROVE  IndexedOwnContent'
  <2>1. index' = Put(index, page[t].loc, Content(t)) /\ pc[t] # "idle"
    BY <1>1 DEF SetIndexes
  <2>2. page[t].loc \in Url /\ Content(t) \in Bodies[page[t].loc] \cup {NoData}
    BY <2>1 DEF TypeOK, Page, HInv, PagesHonest, PageHonest, BodiesCurrent, Content
  <2> QED
    BY <2>1, <2>2 DEF IndexedOwnContent, Put
<1>2. \/ index' = index
      \/ \E t \in Thread : SetIndexes(t)
  <2>1. ASSUME NEW t \in Thread, Deliver(t) \/ Complete(t) PROVE index' = index
    BY <2>1 DEF Deliver, FetchFailed, Fetched, NotModified, Reply,
                Complete, WriteDone, WriteFailed
  <2>2. ASSUME NEW t \in Thread, Step(t) PROVE index' = index \/ SetIndexes(t)
    BY <2>2 DEF Step, WriteText, ProcessorThrows, SkipLink, ClaimLink,
                CacheMiss, CacheHit, FoundInPageCache, Finish
  <2>3. Restart \/ UNCHANGED vars => index' = index
    BY DEF Restart, vars
  <2> QED
    BY <2>1, <2>2, <2>3 DEF Next
<1> QED
  BY <1>1, <1>2 DEF IndexedOwnContent

(* Every index entry is made from a body of the page it is kept under, also *)
(* when the processors run once more for a link found in the page cache,    *)
(* and whatever pages other threads handle at the time.                     *)
THEOREM IndexAlwaysOwnContent == Spec => []IndexedOwnContent
<1>1. Init => IndexedOwnContent
  BY DEF Init, IndexedOwnContent
<1>2. IInv /\ HInv /\ IndexedOwnContent /\ [Next]_vars => IndexedOwnContent'
  BY IndexedNext DEF IInv
<1> QED
  BY <1>1, <1>2, AlwaysHonest, PTL DEF Spec

-----------------------------------------------------------------------------
(* A URL is being dealt with: there is a reason to skip it, or a thread has *)
(* its page in hand, or a call for it failed.                               *)
InHand(u)  == \E t \in Thread : pc[t] # "idle" /\ u \in {page[t].url, page[t].loc}
Handled(u) == Justified(u) \/ InHand(u) \/ u \in failed

Links(data) == HrefsIn[data] \cap Followable

(* Each link of a text page is handled or its thread has yet to come to it: *)
(* while the page is in hand, and when it is in the page cache.             *)
PagesFollowed ==
    \A t \in Thread : pc[t] # "idle" /\ page[t].data \in TextData =>
        \A h \in Links(page[t].data) : h \in todo[t] \/ Handled(Target[h])

ToCome(h, data) == \E t \in Thread : /\ pc[t] # "idle" /\ page[t].data = data
                                     /\ h \in todo[t]
StoreFollowed ==
    \A u \in DOMAIN store : Fresh(u) /\ store[u].data \in TextData =>
        \A h \in Links(store[u].data) : ToCome(h, store[u].data) \/ Handled(Target[h])

Followed == PagesFollowed /\ StoreFollowed

LEMMA LinkTarget ==
    ASSUME NEW data \in Data, NEW h \in Links(data)
    PROVE  h \in Href /\ Target[h] \in Url
  BY HrefAssumption DEF Links

(* A reply takes a request for a URL and has its page in hand.              *)
LEMMA DeliverHandled ==
    ASSUME TypeOK, NEW t \in Thread, Deliver(t), NEW u \in Url, Handled(u)
    PROVE  Handled(u)'
<1> USE DEF threadVars, storageVars, faultVars
<1>1. PICK r \in Request : \/ FetchFailed(t, r)
                          \/ Fetched(t, r)
                          \/ \E typed \in BOOLEAN : NotModified(t, r, typed)
  BY DEF Deliver
<1>2. /\ pc[t] = "idle" /\ Take(r)
      /\ \A q \in Thread \ {t} : pc'[q] = pc[q] /\ page'[q] = page[q]
      /\ UNCHANGED <<gen, store, link>>
      /\ failed \subseteq failed'
      /\ r.url \in failed' \/ (pc'[t] # "idle" /\ page'[t].url = r.url)
  BY <1>1 DEF FetchFailed, Fetched, NotModified, Reply, Goto, Fault, TypeOK
<1>3. CASE Pending(u)
  <2>1. PICK s \in Time : pending[[url |-> u, since |-> s]] > 0
    BY <1>3 DEF Pending
  <2> DEFINE p == [url |-> u, since |-> s]
  <2>2. CASE u = r.url
    BY <1>2, <2>2 DEF Handled, InHand
  <2>3. CASE u # r.url
    <3>1. p \in Request /\ p # r
      BY <2>3 DEF Request
    <3>2. pending'[p] > 0
      BY <1>2, <2>1, <3>1 DEF Take, TypeOK
    <3> QED
      BY <3>2 DEF Handled, Justified, Pending
  <2> QED
    BY <2>2, <2>3
<1>4. CASE \E q \in Thread : LookingUp(q, u)
  <2>1. PICK q \in Thread : LookingUp(q, u)
    BY <1>4
  <2>2. LookingUp(q, u)'
    BY <1>2, <2>1 DEF LookingUp
  <2> QED
    BY <2>2 DEF Handled, Justified
<1>5. CASE InHand(u)
  BY <1>2, <1>5 DEF Handled, InHand
<1>6. CASE Fresh(u) \/ u \in failed
  BY <1>2, <1>6, FreshFrame DEF Handled, Justified
<1> QED
  BY <1>3, <1>4, <1>5, <1>6 DEF Handled, Justified

(* A thread that lets go of its page has stored it or its write failed.     *)
LEMMA StepHandled ==
    ASSUME TypeOK, StoredInPast, WritesTracked, NEW t \in Thread, Step(t),
           NEW u \in Url, Handled(u)
    PROVE  Handled(u)'
<1> USE DEF engineVars, threadVars, storageVars, faultVars
<1>1. /\ UNCHANGED <<gen, store>> /\ failed \subseteq failed'
      /\ \A q \in Thread \ {t} : pc'[q] = pc[q] /\ page'[q] = page[q]
      /\ pc'[t] = "idle" => Finish(t)
      /\ pc'[t] # "idle" => page'[t] = page[t]
  BY StepKeeps
<1>2. CASE InHand(u)
  <2>1. PICK q \in Thread : pc[q] # "idle" /\ u \in {page[q].url, page[q].loc}
    BY <1>2 DEF InHand
  <2>2. CASE pc'[q] # "idle"
    BY <1>1, <2>1, <2>2 DEF Handled, InHand
  <2>3. CASE pc'[q] = "idle"
    <3>1. q = t /\ Finish(t)
      BY <1>1, <2>1, <2>3
    <3>2. Fresh(u) \/ u \in failed
      BY <2>1, <3>1 DEF WritesTracked, Finish, WritesCompleted
    <3> QED
      BY <1>1, <3>2, FreshFrame DEF Handled, Justified
  <2> QED
    BY <2>2, <2>3
<1>3. CASE u \in failed
  BY <1>1, <1>3 DEF Handled
<1>4. CASE Fresh(u)
  BY <1>1, <1>4, FreshFrame DEF Handled, Justified
<1>5. CASE Pending(u)
  <2>1. \A r \in Request : pending[r] > 0 => pending'[r] > 0
    <3>1. page[t].url \in Url /\ link[t].url \in Url /\ link[t].doc.ts \in Time /\ 0 \in Time
      BY BoundAssumption DEF TypeOK, Page, Link, Document, Time
    <3>2. UNCHANGED pending \/ \E v \in Url, s \in Time : Feed(v, s)
      BY <3>1 DEF Step, SetIndexes, WriteText, ProcessorThrows, SkipLink, ClaimLink,
                  CacheMiss, CacheHit, FoundInPageCache, Finish
    <3> QED
      BY <3>2, FeedType
  <2>2. Justified(u)'
    BY <1>5, <2>1, RequestOf DEF Justified, Pending
  <2> QED
    BY <2>2 DEF Handled
<1>6. CASE \E q \in Thread : LookingUp(q, u)
  <2>1. PICK q \in Thread : LookingUp(q, u)
    BY <1>6
  <2>2. CASE LookingUp(q, u)'
    BY <2>2 DEF Handled, Justified
  <2>3. CASE ~ LookingUp(q, u)'
    <3>1. q = t
      <4>1. q # t => pc'[q] = pc[q] /\ link'[q] = link[q]
        BY StepKeeps
      <4> QED
        BY <2>1, <2>3, <4>1 DEF LookingUp
    <3>2. CASE CacheMiss(t)
      <4>1. pending'[[url |-> u, since |-> 0]] > 0 /\ 0 \in Time
        BY <2>1, <3>1, <3>2, FeedType, BoundAssumption DEF CacheMiss, LookingUp, Time
      <4> QED
        BY <4>1 DEF Handled, Justified, Pending
    <3>3. CASE CacheHit(t)
      <4>1. u \in DOMAIN store /\ ~ Outdated(store[u])
        BY <2>1, <2>3, <3>1, <3>3 DEF CacheHit, LookingUp, Goto, TypeOK, Link
      <4>2. store[u].ts \in Time /\ gen \in Nat /\ store[u].ts <= gen
        BY <4>1, BoundAssumption DEF TypeOK, IsMap, Document, StoredInPast
      <4>3. Fresh(u)
        BY <4>1, <4>2 DEF Outdated, Fresh, Time
      <4> QED
        BY <1>1, <4>3, FreshFrame DEF Handled, Justified
    <3>4. CASE FoundInPageCache(t)
      <4>1. link[t].doc.ts \in Time
        BY DEF TypeOK, Link, Document
      <4>2. pending'[[url |-> u, since |-> link[t].doc.ts]] > 0
        BY <2>1, <3>1, <3>4, <4>1, FeedType DEF FoundInPageCache, LookingUp
      <4> QED
        BY <4>1, <4>2 DEF Handled, Justified, Pending
    <3>5. CASE \/ SetIndexes(t) \/ WriteText(t) \/ ProcessorThrows(t) \/ Finish(t)
               \/ \E h \in Href : SkipLink(t, h) \/ ClaimLink(t, h)
      BY <2>1, <3>1, <3>5 DEF LookingUp, SetIndexes, WriteText, ProcessorThrows,
                               Finish, SkipLink, ClaimLink
    <3> QED
      BY <3>2, <3>3, <3>4, <3>5 DEF Step
  <2> QED
    BY <2>2, <2>3
<1> QED
  BY <1>2, <1>3, <1>4, <1>5, <1>6 DEF Handled, Justified

LEMMA CompleteHandled ==
    ASSUME TypeOK, NEW t \in Thread, Complete(t), NEW u \in Url, Handled(u)
    PROVE  Handled(u)'
<1> USE DEF engineVars, threadVars, storageVars, faultVars
<1>1. PICK w \in Write : WriteDone(t, w) \/ WriteFailed(t, w)
  BY DEF Complete
<1>2. UNCHANGED <<gen, pending, pc, page, link>> /\ failed \subseteq failed'
  BY <1>1 DEF WriteDone, WriteFailed, Fault
<1>3. Fresh(u) => Fresh(u)'
  BY <1>1, <1>2 DEF WriteDone, WriteFailed, Fresh, Put
<1>4. Justified(u) => Justified(u)'
  BY <1>2, <1>3 DEF Justified, Pending, LookingUp
<1> QED
  BY <1>2, <1>4 DEF Handled, InHand

LEMMA DeliverFollowed ==
    ASSUME TypeOK, HInv, Followed, NEW t \in Thread, Deliver(t)
    PROVE  Followed'
<1> USE DEF threadVars, storageVars, faultVars
<1>1. PICK r \in Request : \/ FetchFailed(t, r)
                          \/ Fetched(t, r)
                          \/ \E typed \in BOOLEAN : NotModified(t, r, typed)
  BY DEF Deliver
<1>2. /\ pc[t] = "idle"
      /\ \A q \in Thread \ {t} : pc'[q] = pc[q] /\ page'[q] = page[q] /\ todo'[q] = todo[q]
      /\ UNCHANGED <<gen, store>>
  BY <1>1 DEF FetchFailed, Fetched, NotModified, Reply, Goto, TypeOK
<1>3. \A u \in Url : Handled(u) => Handled(u)'
  BY DeliverHandled
<1>4. \A h, data : ToCome(h, data) => ToCome(h, data)'
  BY <1>2 DEF ToCome
<1>5. StoreFollowed'
  BY <1>2, <1>3, <1>4, LinkTarget DEF Followed, StoreFollowed, Fresh, TypeOK, IsMap, Document
<1>6. \A h \in Href : pc'[t] # "idle" /\ page'[t].data \in TextData
                        /\ h \in Links(page'[t].data) => h \in todo'[t]
  <2>1. CASE FetchFailed(t, r)
    BY <1>2, <2>1 DEF FetchFailed
  <2>2. CASE Fetched(t, r) \/ \E typed \in BOOLEAN : NotModified(t, r, typed)
    <3>1. PICK data \in Data, accepted \in BOOLEAN, modified \in BOOLEAN :
               /\ Reply(t, r, data, accepted, modified)
               /\ data \in TextData => accepted
      BY <2>2, ReplyHonest
    <3>2. page'[t].data = data /\ (accepted => todo'[t] = HrefsIn[data])
      BY <3>1 DEF Reply, TypeOK
    <3> QED
      BY <3>1, <3>2 DEF Links
  <2> QED
    BY <1>1, <2>1, <2>2
<1>7. PagesFollowed'
  <2> SUFFICES ASSUME NEW q \in Thread, pc'[q] # "idle",
                      NEW data \in TextData, data = page'[q].data,
                      NEW h \in Links(data)
               PROVE  h \in todo'[q] \/ Handled(Target[h])'
    BY DEF PagesFollowed
  <2>1. h \in Href /\ Target[h] \in Url
    BY LinkTarget, DataAssumption
  <2>2. CASE q = t
    BY <1>6, <2>1, <2>2
  <2>3. CASE q # t
    BY <1>2, <1>3, <2>1, <2>3 DEF Followed, PagesFollowed
  <2> QED
    BY <2>2, <2>3
<1> QED
  BY <1>5, <1>7 DEF Followed

(* A link leaves the list of a thread that claims it, or finds it claimed,  *)
(* or finds that it leads to the page in hand.                              *)
LEMMA LinkHandled ==
    ASSUME TypeOK, StoredInPast, WritesTracked, InflightJustified,
           NEW t \in Thread, Step(t),
           NEW h \in Followable, h \in todo[t], h \notin todo'[t]
    PROVE  Handled(Target[h])'
<1> USE DEF engineVars, threadVars, storageVars, faultVars
<1>1. h \in Href /\ Target[h] \in Url
  BY HrefAssumption
<1>2. SkipLink(t, h) \/ ClaimLink(t, h)
  <2>1. UNCHANGED todo \/ \E g \in Href : SkipLink(t, g) \/ ClaimLink(t, g)
    BY DEF Step, SetIndexes, WriteText, ProcessorThrows, CacheMiss, CacheHit,
           FoundInPageCache, Finish
  <2>2. PICK g \in Href : SkipLink(t, g) \/ ClaimLink(t, g)
    BY <2>1
  <2>3. g = h
    BY <2>2 DEF SkipLink, ClaimLink, TypeOK
  <2> QED
    BY <2>2, <2>3
<1>3. CASE ClaimLink(t, h)
  <2>1. LookingUp(t, Target[h])'
    BY <1>3 DEF ClaimLink, Goto, LookingUp, TypeOK
  <2> QED
    BY <2>1 DEF Handled, Justified
<1>4. CASE SkipLink(t, h)
  <2>1. CASE Target[h] \in DOMAIN inflight
    <3>1. Handled(Target[h])
      BY <2>1 DEF InflightJustified, Handled
    <3> QED
      BY <1>1, <3>1, StepHandled
  <2>2. CASE Target[h] \notin DOMAIN inflight
    <3>1. Target[h] = page[t].loc /\ pc[t] # "idle"
      BY <1>4, <2>2 DEF SkipLink, Wanted
    <3>2. Handled(Target[h])
      BY <3>1 DEF Handled, InHand
    <3> QED
      BY <1>1, <3>2, StepHandled
  <2> QED
    BY <2>1, <2>2
<1> QED
  BY <1>2, <1>3, <1>4

LEMMA StepFollowed ==
    ASSUME TypeOK, StoredInPast, WritesTracked, InflightJustified, Followed,
           NEW t \in Thread, Step(t)
    PROVE  Followed'
<1>1. \A u \in Url : Handled(u) => Handled(u)'
  BY StepHandled
<1>2. \A h \in Followable : h \in todo[t] => h \in todo'[t] \/ Handled(Target[h])'
  BY LinkHandled
<1>3. PagesFollowed'
  <2> SUFFICES ASSUME NEW q \in Thread, pc'[q] # "idle",
                      NEW data \in TextData, data = page'[q].data,
                      NEW h \in Links(data)
               PROVE  h \in todo'[q] \/ Handled(Target[h])'
    BY DEF PagesFollowed
  <2>1. Target[h] \in Url /\ h \in Followable
    BY LinkTarget, DataAssumption DEF Links
  <2>2. page'[q] = page[q] /\ pc[q] # "idle"
    BY StepKeeps
  <2>3. h \in todo[q] \/ Handled(Target[h])
    BY <2>2 DEF Followed, PagesFollowed
  <2>4. q # t => todo'[q] = todo[q]
    BY StepKeeps
  <2> QED
    BY <1>1, <1>2, <2>1, <2>3, <2>4
<1>4. StoreFollowed'
  <2> SUFFICES ASSUME NEW u \in DOMAIN store', Fresh(u)',
                      NEW data \in TextData, data = store'[u].data,
                      NEW h \in Links(data)
               PROVE  ToCome(h, data)' \/ Handled(Target[h])'
    BY DEF StoreFollowed
  <2>1. Target[h] \in Url /\ h \in Followable
    BY LinkTarget, DataAssumption DEF Links
  <2>2. UNCHANGED <<store, gen>>
    BY StepKeeps
  <2>3. ToCome(h, data) \/ Handled(Target[h])
    BY <2>2 DEF Followed, StoreFollowed, Fresh
  <2>4. CASE ToCome(h, data)
    <3>1. PICK q \in Thread : /\ pc[q] # "idle" /\ page[q].data = data
                              /\ h \in todo[q]
      BY <2>4 DEF ToCome
    <3>2. CASE q # t
      BY <2>2, <3>1, <3>2, StepKeeps DEF ToCome
    <3>3. CASE q = t
      <4>1. pc'[t] # "idle" /\ page'[t] = page[t]
        BY <3>1, <3>3, StepKeeps DEF Finish
      <4> QED
        BY <1>2, <2>1, <2>2, <3>1, <3>3, <4>1 DEF ToCome
    <3> QED
      BY <3>2, <3>3
  <2> QED
    BY <1>1, <2>1, <2>3, <2>4
<1> QED
  BY <1>3, <1>4 DEF Followed

LEMMA CompleteFollowed ==
    ASSUME TypeOK, HInv, Followed, NEW t \in Thread, Complete(t)
    PROVE  Followed'
<1> USE DEF engineVars, threadVars, storageVars, faultVars
<1>1. PICK w \in Write : WriteDone(t, w) \/ WriteFailed(t, w)
  BY DEF Complete
<1>2. w \in writes[t] /\ UNCHANGED <<gen, pc, page, todo>>
  BY <1>1 DEF WriteDone, WriteFailed
<1>3. pc[t] # "idle" /\ w.data = page[t].data
  BY <1>2 DEF HInv, WritesOwn
<1>4. \A u \in Url : Handled(u) => Handled(u)'
  BY CompleteHandled
<1>5. \A h, data : ToCome(h, data)' <=> ToCome(h, data)
  BY <1>2 DEF ToCome
<1>6. PagesFollowed'
  BY <1>2, <1>4, LinkTarget, DataAssumption DEF Followed, PagesFollowed
<1>7. StoreFollowed'
  <2> SUFFICES ASSUME NEW u \in DOMAIN store', Fresh(u)',
                      NEW data \in TextData, data = store'[u].data,
                      NEW h \in Links(data)
               PROVE  ToCome(h, data)' \/ Handled(Target[h])'
    BY DEF StoreFollowed
  <2>1. Target[h] \in Url
    BY LinkTarget, DataAssumption
  <2>2. \/ u \in DOMAIN store /\ store'[u] = store[u]
        \/ store'[u] = [ts |-> gen, data |-> w.data]
    BY <1>1 DEF WriteDone, WriteFailed, Put
  <2>3. CASE u \in DOMAIN store /\ store'[u] = store[u]
    BY <1>2, <1>4, <1>5, <2>1, <2>3 DEF Followed, StoreFollowed, Fresh
  <2>4. CASE store'[u] = [ts |-> gen, data |-> w.data]
    <3>1. h \in todo[t] \/ Handled(Target[h])
      BY <1>3, <2>4 DEF Followed, PagesFollowed
    <3>2. h \in todo[t] => ToCome(h, data)
      BY <1>3, <2>4 DEF ToCome
    <3> QED
      BY <1>4, <1>5, <2>1, <3>1, <3>2
  <2> QED
    BY <2>2, <2>3, <2>4
<1> QED
  BY <1>6, <1>7 DEF Followed

LEMMA FollowedInit == Init => Followed
  BY DEF Init, Followed, PagesFollowed, StoreFollowed

LEMMA FollowedNext ==
    IInv /\ HInv /\ WritesTracked /\ Followed /\ [Next]_vars => Followed'
<1> SUFFICES ASSUME IInv, HInv, WritesTracked, Followed, [Next]_vars PROVE Followed'
  OBVIOUS
<1>1. TypeOK /\ StoredInPast /\ InflightJustified
  BY DEF IInv
<1>2. CASE \E t \in Thread : Deliver(t) \/ Step(t) \/ Complete(t)
  BY <1>1, <1>2, DeliverFollowed, StepFollowed, CompleteFollowed
<1>3. CASE Restart
  <2>1. \A t \in Thread : pc'[t] = "idle"
    BY <1>3 DEF Restart
  <2>2. \A u \in DOMAIN store' : ~ Fresh(u)'
    BY <1>1, <1>3, BoundAssumption
    DEF Restart, storageVars, StoredInPast, Fresh, TypeOK, IsMap, Document, Time
  <2> QED
    BY <2>1, <2>2 DEF Followed, PagesFollowed, StoreFollowed
<1>4. CASE UNCHANGED vars
  <2> USE <1>4 DEF vars, engineVars, threadVars, storageVars, faultVars
  <2>1. \A u : Handled(u)' <=> Handled(u)
    BY DEF Handled, Justified, Pending, LookingUp, Fresh, InHand
  <2>2. \A h, data : ToCome(h, data)' <=> ToCome(h, data)
    BY DEF ToCome
  <2> QED
    BY <2>1, <2>2 DEF Followed, PagesFollowed, StoreFollowed, Fresh
<1> QED
  BY <1>2, <1>3, <1>4 DEF Next

(* When the crawl has come to rest, every link that the loop would follow   *)
(* from a text page of this run leads to a page this run has stored, or to  *)
(* a URL that lost a call: for every web, whatever the threads interleave,  *)
(* whichever calls fail, in every run of the engine.                        *)
THEOREM CrawlAlwaysComplete == Spec => []CrawlComplete
<1>1. Followed => CrawlComplete
  <2> SUFFICES ASSUME Followed, Quiescent, NEW u \in DOMAIN store,
                      Fresh(u), store[u].data \in TextData,
                      NEW h \in Links(store[u].data)
               PROVE  Fresh(Target[h]) \/ Target[h] \in failed
    BY DEF CrawlComplete, Links
  <2>1. Target[h] \in Url
    BY LinkTarget, DataAssumption
  <2>2. ToCome(h, store[u].data) \/ Handled(Target[h])
    BY DEF Followed, StoreFollowed
  <2>3. ~ Pending(Target[h])
    <3>1. \A s \in Time : pending[[url |-> Target[h], since |-> s]] = 0
      BY <2>1, RequestOf DEF Quiescent
    <3>2. \A s \in Time : ~ (pending[[url |-> Target[h], since |-> s]] > 0)
      BY <3>1
    <3> QED
      BY <3>2, Zenon DEF Pending
  <2> QED
    BY <2>2, <2>3 DEF Quiescent, ToCome, Handled, Justified, LookingUp, InHand
<1>2. Spec => [](TypeOK /\ WritesTracked)
  BY TypeInit, TypeNext, TrackedInit, TrackedNext, PTL DEF Spec
<1> QED
  BY <1>1, <1>2, AlwaysHonest, FollowedInit, FollowedNext, PTL DEF Spec

-----------------------------------------------------------------------------
(* What the indexes are to say of u while the web stays as it is.           *)
Meant(u) == IF web[u].data \in TextData THEN web[u].data ELSE NoData

(* The first run starts with an empty storage and asks no server what has   *)
(* changed, so every page it handles is new to it.                          *)
NewPage(t) ==
    /\ page[t].modified
    /\ page[t].loc = Location[page[t].url]
    /\ page[t].data = web[page[t].loc].data
    /\ page[t].accepted <=> page[t].data \in TextData
FirstRun ==
    /\ \A r \in Request : pending[r] > 0 => r.since = 0
    /\ \A t \in Thread : pc[t] # "cached" /\ (pc[t] # "idle" => NewPage(t))
    /\ \A u \in DOMAIN store : store[u] = [ts |-> 1, data |-> web[Location[u]].data]
    /\ \A u \in DOMAIN index : index[u] = Meant(u)
    /\ \A u \in DOMAIN text : text[u] = Meant(u)

(* What makes a page appear in the indexes: a thread that is at it, or a    *)
(* request that leads to it.                                                *)
Indexing(t, u) == /\ page[t].loc = u
                  /\ \/ pc[t] = "process"
                     \/ pc[t] = "text" /\ u \in DOMAIN index
UnderWay(u) == \/ u \in DOMAIN index /\ u \in DOMAIN text
               \/ \E t \in Thread : Indexing(t, u)
               \/ \E v \in Url : Location[v] = u /\ Pending(v)

(* The pages whose processing no failed call cut short.                     *)
Spared(u) == Location[u] = u /\ \A v \in failed : Location[v] # u
Reached(u) == u \in DOMAIN store \/ \E t \in Thread : pc[t] # "idle" /\ page[t].loc = u
Covered == \A u \in Url : Spared(u) /\ Reached(u) => UnderWay(u)

NInv == gen = 1 => FirstRun /\ Covered

(* A reply of the first run is one to an unconditional request.             *)
LEMMA FirstReply ==
    ASSUME TypeOK, FirstRun, NEW t \in Thread, NEW r \in Request,
           \/ Fetched(t, r)
           \/ \E typed \in BOOLEAN : NotModified(t, r, typed)
    PROVE  \E data \in Data, accepted \in BOOLEAN :
             /\ Reply(t, r, data, accepted, TRUE)
             /\ data = web[Location[r.url]].data
             /\ accepted <=> data \in TextData
<1> DEFINE data == web[Location[r.url]].data
           accepted == data \in TextData
<1>1. Fetched(t, r)
  BY DEF NotModified, Reply, Take, FirstRun
<1>2. Reply(t, r, data, accepted, TRUE)
  BY <1>1 DEF Fetched
<1>3. data \in Data /\ accepted \in BOOLEAN
  BY ReplyData
<1>4. accepted <=> data \in TextData
  OBVIOUS
<1>5. data = web[Location[r.url]].data
  OBVIOUS
<1> HIDE DEF data, accepted
<1> QED
  BY <1>2, <1>3, <1>4, <1>5

LEMMA DeliverFirst ==
    ASSUME TypeOK, FirstRun, NEW t \in Thread, Deliver(t)
    PROVE  FirstRun'
<1> USE DEF threadVars, storageVars, faultVars
<1>1. PICK r \in Request : \/ FetchFailed(t, r)
                          \/ Fetched(t, r)
                          \/ \E typed \in BOOLEAN : NotModified(t, r, typed)
  BY DEF Deliver
<1>2. /\ \A q \in Request : pending'[q] > 0 => pending[q] > 0
      /\ \A q \in Thread \ {t} : pc'[q] = pc[q] /\ page'[q] = page[q]
      /\ UNCHANGED <<web, store, index, text>>
  BY <1>1, TakePending DEF FetchFailed, Fetched, NotModified, Reply, Goto, TypeOK
<1>3. \A q \in Request : pending'[q] > 0 => q.since = 0
  BY <1>2 DEF FirstRun
<1>4. \A u : Meant(u)' = Meant(u)
  BY <1>2 DEF Meant
<1>5. pc'[t] # "cached" /\ (pc'[t] # "idle" => NewPage(t)')
  <2>1. CASE FetchFailed(t, r)
    BY <2>1 DEF FetchFailed
  <2>2. CASE Fetched(t, r) \/ \E typed \in BOOLEAN : NotModified(t, r, typed)
    <3>1. PICK data \in Data, accepted \in BOOLEAN :
               /\ Reply(t, r, data, accepted, TRUE)
               /\ data = web[Location[r.url]].data
               /\ accepted <=> data \in TextData
      BY <2>2, FirstReply
    <3>2. /\ page'[t] = [url |-> r.url, loc |-> Location[r.url], data |-> data,
                         accepted |-> accepted, modified |-> TRUE]
          /\ pc'[t] \in {"links", "process"} /\ UNCHANGED web
      BY <3>1 DEF Reply, Goto, TypeOK
    <3> QED
      BY <3>1, <3>2 DEF NewPage
  <2> QED
    BY <1>1, <2>1, <2>2
<1>6. \A q \in Thread \ {t} : pc'[q] # "cached" /\ (pc'[q] # "idle" => NewPage(q)')
  BY <1>2 DEF FirstRun, NewPage
<1> QED
  BY <1>2, <1>3, <1>4, <1>5, <1>6 DEF FirstRun

LEMMA StepFirst ==
    ASSUME TypeOK, gen = 1, FirstRun, NEW t \in Thread, Step(t)
    PROVE  FirstRun'
<1> USE DEF engineVars, threadVars, storageVars, faultVars
<1>1. 0 \in Time /\ page[t].url \in Url /\ link[t].url \in Url
  BY BoundAssumption DEF Time, TypeOK, Page, Link
<1>2. \A r \in Request : pending'[r] > 0 => r.since = 0
  <2>1. CASE UNCHANGED pending
    BY <2>1 DEF FirstRun
  <2>2. CASE \E u \in Url : Feed(u, 0)
    <3>1. PICK u \in Url : Feed(u, 0)
      BY <2>2
    <3>2. \A r \in Request : pending'[r] > 0 =>
                 pending[r] > 0 \/ r = [url |-> u, since |-> 0]
      BY <1>1, <3>1, FeedPending
    <3> QED
      BY <3>2 DEF FirstRun
  <2> QED
    BY <1>1, <2>1, <2>2 DEF Step, SetIndexes, WriteText, ProcessorThrows, SkipLink,
       ClaimLink, CacheMiss, CacheHit, FoundInPageCache, Finish, FirstRun
<1>3. \A q \in Thread : pc'[q] # "idle" => NewPage(q)'
  BY StepKeeps DEF FirstRun, NewPage
<1>4. \A q \in Thread : pc'[q] # "cached"
  <2>1. pc'[t] # "cached"
    <3>1. CASE CacheHit(t)
      <4>1. store[link[t].url].ts = 1
        BY <3>1 DEF CacheHit, FirstRun
      <4> QED
        BY <3>1, <4>1 DEF CacheHit, Outdated, Goto, TypeOK
    <3>2. CASE ~ CacheHit(t)
      BY <3>2 DEF Step, SetIndexes, WriteText, ProcessorThrows, SkipLink,
         ClaimLink, CacheMiss, FoundInPageCache, Finish, Goto, TypeOK, FirstRun
    <3> QED
      BY <3>1, <3>2
  <2> QED
    BY <2>1, StepKeeps DEF FirstRun
<1>5. UNCHANGED <<web, store>> /\ \A u : Meant(u)' = Meant(u)
  BY StepKeeps DEF Meant
<1>6. pc[t] # "idle" => Content(t) = Meant(page[t].loc)
  BY DEF FirstRun, NewPage, Content, Meant
<1>7. (\A u \in DOMAIN index' : index'[u] = Meant(u))
  <2>1. CASE UNCHANGED index
    BY <2>1 DEF FirstRun
  <2>2. CASE SetIndexes(t)
    BY <1>6, <2>2 DEF SetIndexes, Put, FirstRun
  <2> QED
    BY <2>1, <2>2 DEF Step, WriteText, ProcessorThrows, SkipLink, ClaimLink,
       CacheMiss, CacheHit, FoundInPageCache, Finish
<1>8. \A u \in DOMAIN text' : text'[u] = Meant(u)
  <2>1. CASE UNCHANGED text
    BY <2>1 DEF FirstRun
  <2>2. CASE WriteText(t)
    BY <1>6, <2>2 DEF WriteText, Put, FirstRun
  <2> QED
    BY <2>1, <2>2 DEF Step, SetIndexes, ProcessorThrows, SkipLink, ClaimLink,
       CacheMiss, CacheHit, FoundInPageCache, Finish
<1> QED
  BY <1>2, <1>3, <1>4, <1>5, <1>7, <1>8 DEF FirstRun

LEMMA CompleteFirst ==
    ASSUME TypeOK, HInv, gen = 1, FirstRun, NEW t \in Thread, Complete(t)
    PROVE  FirstRun'
<1> USE DEF engineVars, threadVars, storageVars, faultVars
<1>1. PICK w \in Write : WriteDone(t, w) \/ WriteFailed(t, w)
  BY DEF Complete
<1>2. w \in writes[t] /\ UNCHANGED <<web, pending, pc, page, index, text>>
  BY <1>1 DEF WriteDone, WriteFailed
<1>3. /\ pc[t] # "idle" /\ w.data = page[t].data
      /\ w.key \in {page[t].url, page[t].loc} /\ NewPage(t)
  BY <1>2 DEF HInv, WritesOwn, FirstRun
<1>4. w.data = web[Location[w.key]].data
  BY <1>3, UrlAssumption DEF NewPage, TypeOK, Page
<1>5. \A u \in DOMAIN store' : store'[u] = [ts |-> 1, data |-> web[Location[u]].data]
  BY <1>1, <1>4 DEF WriteDone, WriteFailed, Put, FirstRun
<1>6. \A u : Meant(u)' = Meant(u)
  BY <1>2 DEF Meant
<1>7. \A q \in Thread : NewPage(q)' <=> NewPage(q)
  BY <1>2 DEF NewPage
<1> QED
  BY <1>2, <1>5, <1>6, <1>7 DEF FirstRun

LEMMA DeliverCovered ==
    ASSUME TypeOK, FirstRun, Covered, NEW t \in Thread, Deliver(t)
    PROVE  Covered'
<1> USE DEF threadVars, storageVars, faultVars
<1>1. PICK r \in Request : \/ FetchFailed(t, r)
                          \/ Fetched(t, r)
                          \/ \E typed \in BOOLEAN : NotModified(t, r, typed)
  BY DEF Deliver
<1>2. /\ \A q \in Thread \ {t} : pc'[q] = pc[q] /\ page'[q] = page[q]
      /\ UNCHANGED <<store, index, text>> /\ failed \subseteq failed'
      /\ pc[t] = "idle" /\ Take(r)
  BY <1>1 DEF FetchFailed, Fetched, NotModified, Reply, Fault, Goto, TypeOK
<1>3. \A v \in Url : v # r.url /\ Pending(v) => Pending(v)'
  <2> SUFFICES ASSUME NEW v \in Url, v # r.url, NEW s \in Time,
                      pending[[url |-> v, since |-> s]] > 0
               PROVE  pending'[[url |-> v, since |-> s]] > 0
    BY DEF Pending
  <2>1. [url |-> v, since |-> s] \in Request \ {r}
    BY DEF Request
  <2> QED
    BY <1>2, <2>1 DEF Take, TypeOK
<1>4. \A u : \A q \in Thread : Indexing(q, u) => Indexing(q, u)'
  BY <1>2 DEF Indexing
<1>5. r.url \in Url
  BY DEF Request
<1> SUFFICES ASSUME NEW u \in Url, Spared(u)', Reached(u)' PROVE UnderWay(u)'
  BY DEF Covered
<1>6. Spared(u)
  BY <1>2 DEF Spared
<1>7. CASE FetchFailed(t, r)
  <2>1. Reached(u) /\ Location[r.url] # u
    BY <1>7 DEF FetchFailed, Fault, Reached, Spared
  <2>2. UnderWay(u)
    BY <1>6, <2>1 DEF Covered
  <2> QED
    BY <1>2, <1>3, <1>4, <2>1, <2>2 DEF UnderWay
<1>8. CASE Fetched(t, r) \/ \E typed \in BOOLEAN : NotModified(t, r, typed)
  <2>1. PICK data \in Data, accepted \in BOOLEAN : Reply(t, r, data, accepted, TRUE)
    BY <1>8, FirstReply
  <2>2. pc'[t] = "process" /\ page'[t].loc = Location[r.url]
    BY <2>1 DEF Reply, Goto, TypeOK
  <2>3. CASE u = Location[r.url]
    <3>1. Indexing(t, u)'
      BY <2>2, <2>3 DEF Indexing
    <3> QED
      BY <3>1 DEF UnderWay
  <2>4. CASE u # Location[r.url]
    <3>1. Reached(u)
      BY <1>2, <2>2, <2>4 DEF Reached
    <3>2. UnderWay(u)
      BY <1>6, <3>1 DEF Covered
    <3> QED
      BY <1>2, <1>3, <1>4, <2>4, <3>2 DEF UnderWay
  <2> QED
    BY <2>3, <2>4
<1> QED
  BY <1>1, <1>7, <1>8

LEMMA StepCovered ==
    ASSUME TypeOK, FirstRun, Covered, NEW t \in Thread, Step(t)
    PROVE  Covered'
<1> USE DEF engineVars, threadVars, storageVars, faultVars
<1> SUFFICES ASSUME NEW u \in Url, Spared(u)', Reached(u)' PROVE UnderWay(u)'
  BY DEF Covered
<1>1. /\ DOMAIN index \subseteq DOMAIN index' /\ DOMAIN text \subseteq DOMAIN text'
      /\ \A v \in Url : Pending(v) => Pending(v)'
  <2>1. \A r \in Request : pending[r] > 0 => pending'[r] > 0
    <3>1. 0 \in Time /\ page[t].url \in Url /\ link[t].url \in Url
          /\ link[t].doc.ts \in Time
      BY BoundAssumption DEF Time, TypeOK, Page, Link, Document
    <3> QED
      BY <3>1, FeedType DEF Step, SetIndexes, WriteText, ProcessorThrows, SkipLink,
         ClaimLink, CacheMiss, CacheHit, FoundInPageCache, Finish
  <2>2. \A v \in Url : Pending(v) => Pending(v)'
    BY <2>1, RequestOf DEF Pending
  <2>3. DOMAIN index \subseteq DOMAIN index' /\ DOMAIN text \subseteq DOMAIN text'
    BY DEF Step, SetIndexes, WriteText, ProcessorThrows, SkipLink,
       ClaimLink, CacheMiss, CacheHit, FoundInPageCache, Finish, Put
  <2> QED
    BY <2>2, <2>3
<1>2. Spared(u) /\ Reached(u)
  <2>1. Reached(u)
    BY StepKeeps DEF Reached
  <2> QED
    BY <2>1, StepKeeps DEF Spared
<1>3. UnderWay(u)
  BY <1>2 DEF Covered
<1>4. \A q \in Thread \ {t} : Indexing(q, u) => Indexing(q, u)'
  BY <1>1, StepKeeps DEF Indexing
<1>5. CASE ~ Indexing(t, u)
  BY <1>1, <1>3, <1>4, <1>5 DEF UnderWay
<1>6. CASE Indexing(t, u)
  <2>1. page[t].loc = u /\ pc[t] \in {"process", "text"}
    BY <1>6 DEF Indexing
  <2>2. u \notin failed'
    BY DEF Spared
  <2>3. SetIndexes(t) \/ WriteText(t) \/ ProcessorThrows(t)
    BY <2>1 DEF Step, SkipLink, ClaimLink, CacheMiss, CacheHit, FoundInPageCache, Finish
  <2>4. CASE SetIndexes(t)
    <3>1. pc'[t] = "text" /\ page' = page /\ u \in DOMAIN index'
      BY <2>1, <2>2, <2>4 DEF SetIndexes, Fault, Put, Goto, TypeOK
    <3>2. Indexing(t, u)'
      BY <2>1, <3>1 DEF Indexing
    <3> QED
      BY <3>2 DEF UnderWay
  <2>5. CASE WriteText(t)
    <3>1. u \in DOMAIN index /\ u \in DOMAIN text'
      BY <1>6, <2>1, <2>2, <2>5 DEF Indexing, WriteText, Fault, Put
    <3> QED
      BY <1>1, <3>1 DEF UnderWay
  <2>6. CASE ProcessorThrows(t)
    <3>1. PICK v \in Url : v = page[t].url
      BY DEF TypeOK, Page
    <3>2. 0 \in Time /\ Feed(v, 0)
      BY <2>6, <3>1, BoundAssumption DEF ProcessorThrows, Time
    <3>3. pending'[[url |-> v, since |-> 0]] > 0
      BY <3>2, FeedType
    <3>4. Pending(v)'
      BY <3>2, <3>3 DEF Pending
    <3>5. Location[v] = u
      BY <2>1, <3>1 DEF FirstRun, NewPage
    <3> QED
      BY <3>4, <3>5 DEF UnderWay
  <2> QED
    BY <2>3, <2>4, <2>5, <2>6
<1> QED
  BY <1>5, <1>6

LEMMA CompleteCovered ==
    ASSUME TypeOK, HInv, FirstRun, Covered, NEW t \in Thread, Complete(t)
    PROVE  Covered'
<1> USE DEF engineVars, threadVars, storageVars, faultVars
<1> SUFFICES ASSUME NEW u \in Url, Spared(u)', Reached(u)' PROVE UnderWay(u)'
  BY DEF Covered
<1>1. PICK w \in Write : WriteDone(t, w) \/ WriteFailed(t, w)
  BY DEF Complete
<1>2. /\ w \in writes[t] /\ UNCHANGED <<pending, pc, page, index, text>>
      /\ failed \subseteq failed' /\ DOMAIN store' \subseteq DOMAIN store \cup {w.key}
  BY <1>1 DEF WriteDone, WriteFailed, Fault, Put
<1>3. pc[t] # "idle" /\ w.key \in {page[t].url, page[t].loc} /\ NewPage(t)
  BY <1>2 DEF HInv, WritesOwn, FirstRun
<1>4. Spared(u) /\ Reached(u)
  <2>1. Spared(u)
    BY <1>2 DEF Spared
  <2>2. w.key = u => page[t].loc = u
    BY <1>3, <2>1 DEF NewPage, Spared
  <2> QED
    BY <1>2, <1>3, <2>1, <2>2 DEF Reached
<1>5. UnderWay(u)
  BY <1>4 DEF Covered
<1> QED
  BY <1>2, <1>5 DEF UnderWay, Indexing, Pending

LEMMA NewInit == Init => NInv
<1> SUFFICES ASSUME Init PROVE FirstRun /\ Covered
  BY DEF NInv
<1>1. FirstRun
  BY DEF Init, FirstRun, SeedRequest
<1>2. \A u : ~ Reached(u)
  BY DEF Init, Reached
<1> QED
  BY <1>1, <1>2 DEF Covered

LEMMA NewNext == IInv /\ HInv /\ NInv /\ [Next]_vars => NInv'
<1> SUFFICES ASSUME IInv, HInv, NInv, [Next]_vars, gen' = 1
             PROVE  (FirstRun /\ Covered)'
  BY DEF NInv
<1>1. TypeOK
  BY DEF IInv
<1>2. CASE \E t \in Thread : Deliver(t) \/ Step(t) \/ Complete(t)
  <2>1. gen' = gen
    <3>1. \A t \in Thread : Deliver(t) => gen' = gen
      BY DEF Deliver, FetchFailed, Fetched, NotModified, Reply
    <3>2. \A t \in Thread : Complete(t) => gen' = gen
      BY DEF Complete, WriteDone, WriteFailed
    <3> QED
      BY <1>1, <1>2, <3>1, <3>2, StepKeeps
  <2>2. gen = 1 /\ FirstRun /\ Covered
    BY <2>1 DEF NInv
  <2> QED
    BY <1>1, <1>2, <2>2, DeliverFirst, StepFirst, CompleteFirst,
       DeliverCovered, StepCovered, CompleteCovered
<1>3. CASE Restart
  BY <1>1, <1>3 DEF Restart, TypeOK
<1>4. CASE UNCHANGED vars
  <2> USE <1>4 DEF vars, engineVars, threadVars, storageVars, faultVars
  <2>1. FirstRun' /\ gen = 1
    BY DEF FirstRun, NewPage, Meant, NInv
  <2>2. \A u : /\ Spared(u)' <=> Spared(u)
               /\ Reached(u)' <=> Reached(u)
               /\ UnderWay(u)' <=> UnderWay(u)
    BY DEF Spared, Reached, UnderWay, Indexing, Pending
  <2> QED
    BY <2>1, <2>2 DEF Covered, NInv
<1> QED
  BY <1>2, <1>3, <1>4 DEF Next

(* When the first run has come to rest, a stored page is in the index and   *)
(* in the text namespace with its own content, unless a call for a URL that *)
(* leads to it failed: for every web, every interleaving of the threads and *)
(* any number of failures.                                                  *)
THEOREM StoredAlwaysIndexed == Spec => []StoredIsIndexed
<1>1. TypeOK /\ NInv => StoredIsIndexed
  <2> SUFFICES ASSUME TypeOK, FirstRun, Covered, Quiescent, NEW u \in DOMAIN store,
                      Location[u] = u, \A v \in failed : Location[v] # u
               PROVE  /\ store[u].data = web[u].data
                      /\ u \in DOMAIN index /\ index[u] = Meant(u)
                      /\ u \in DOMAIN text /\ text[u] = Meant(u)
    BY DEF StoredIsIndexed, NInv, Meant
  <2>1. u \in Url /\ UnderWay(u)
    BY DEF Covered, Spared, Reached, TypeOK, IsMap
  <2>2. \A v \in Url, s \in Time : ~ (pending[[url |-> v, since |-> s]] > 0)
    <3> SUFFICES ASSUME NEW v \in Url, NEW s \in Time
                 PROVE  ~ (pending[[url |-> v, since |-> s]] > 0)
      OBVIOUS
    <3>1. pending[[url |-> v, since |-> s]] = 0
      BY RequestOf DEF Quiescent
    <3> QED
      BY <3>1
  <2>3. \A v \in Url : ~ Pending(v)
    BY <2>2, Zenon DEF Pending
  <2>4. \A t \in Thread : ~ Indexing(t, u)
    BY DEF Quiescent, Indexing
  <2>5. u \in DOMAIN index /\ u \in DOMAIN text
    BY <2>1, <2>3, <2>4 DEF UnderWay
  <2> QED
    BY <2>5 DEF FirstRun
<1> QED
  BY <1>1, AlwaysHonest, NewInit, NewNext, PTL DEF Spec, IInv

-----------------------------------------------------------------------------
(* How often a URL is downloaded.  The invariant pays for every request by a*)
(* thread that stores the page, by the entry in inflight, or by a failed    *)
(* call.                                                                    *)

(* The threads that have the page u was asked for in hand and have not seen *)
(* it stored under u.                                                       *)
Busy(u) == {t \in Thread : page[t].url = u /\ \E w \in writes[t] : w.key = u}

(* The threads that have claimed u; those that found its old document.      *)
Lookers(u) == {t \in Thread : LookingUp(t, u)}
Finders(u) == {t \in Thread : pc[t] = "cached" /\ link[t].url = u}

Entry(u) == IF u \in DOMAIN inflight THEN 1 ELSE 0
Again(u) == IF Location[u] = u THEN 0 ELSE 1

(* Nothing but the seed has been asked for.  The seed is fed past inflight. *)
AtStart ==
    /\ \A r \in Request : pending[r] > 0 => r = SeedRequest
    /\ asked = [u \in Url |-> IF u = Seed THEN 1 ELSE 0]
    /\ inflight = << >>
    /\ \A t \in Thread : pc[t] = "idle"

(* Until a page of this run is in the storage, whoever asked for it before  *)
(* is storing it, is waiting for it with the entry in inflight, or failed.  *)
Paid(u) == asked[u] + Cardinality(Lookers(u))
              <= Cardinality(Busy(u)) + Entry(u) + faults
AskedOnce == AtStart \/ \A u \in Url : Fresh(u) \/ Paid(u)

(* Threads that found an old document may still ask when the page has been  *)
(* stored, but those were all at it before.                                 *)
Bounded(u) == asked[u] + Cardinality(Finders(u))
                 <= Cardinality(Thread) + Again(u) + faults
AskedBounded == \A u \in Url : Bounded(u)

(* The loop skips links to the page in hand (engine.cpp:254).               *)
Elsewhere == \A t \in Thread : pc[t] \in {"lookup", "cached"} => link[t].url # page[t].loc

-----------------------------------------------------------------------------
LEMMA Sizes ==
    ASSUME NEW S \in SUBSET Thread
    PROVE  Cardinality(S) \in Nat /\ Cardinality(S) <= Cardinality(Thread)
<1>1. IsFiniteSet(S) /\ Cardinality(S) <= Cardinality(Thread)
  BY ThreadAssumption, FS_Subset
<1> QED
  BY <1>1, FS_CardinalityType

LEMMA SizeWithin ==
    ASSUME NEW S \in SUBSET Thread, NEW T \in SUBSET S
    PROVE  Cardinality(T) <= Cardinality(S)
<1>1. IsFiniteSet(S)
  BY ThreadAssumption, FS_Subset
<1> QED
  BY <1>1, FS_Subset

LEMMA SizeWithout ==
    ASSUME NEW S \in SUBSET Thread, NEW t \in S
    PROVE  Cardinality(S \ {t}) = Cardinality(S) - 1
<1>1. IsFiniteSet(S)
  BY ThreadAssumption, FS_Subset
<1> QED
  BY <1>1, FS_RemoveElement

LEMMA SizeWith ==
    ASSUME NEW S \in SUBSET Thread, NEW t \in Thread, t \notin S
    PROVE  Cardinality(S \cup {t}) = Cardinality(S) + 1
<1>1. IsFiniteSet(S)
  BY ThreadAssumption, FS_Subset
<1> QED
  BY <1>1, FS_AddElement

LEMMA Counts ==
    ASSUME TypeOK, NEW u \in Url
    PROVE  /\ asked[u] \in Nat /\ faults \in Nat
           /\ Entry(u) \in {0, 1} /\ Again(u) \in {0, 1}
           /\ Cardinality(Lookers(u)) \in Nat
           /\ Cardinality(Finders(u)) \in Nat
           /\ Cardinality(Busy(u)) \in Nat
           /\ Cardinality(Thread) \in Nat
<1>1. asked[u] \in Nat /\ faults \in Nat
  BY BoundAssumption DEF TypeOK
<1>2. Entry(u) \in {0, 1} /\ Again(u) \in {0, 1}
  BY DEF Entry, Again
<1>3. Cardinality(Lookers(u)) \in Nat
  BY Sizes DEF Lookers
<1>4. Cardinality(Finders(u)) \in Nat
  BY Sizes DEF Finders
<1>5. Cardinality(Busy(u)) \in Nat
  BY Sizes DEF Busy
<1> QED
  BY <1>1, <1>2, <1>3, <1>4, <1>5, Sizes

LEMMA FeedAsked ==
    ASSUME TypeOK, NEW v \in Url, NEW s \in Time, Feed(v, s), NEW u \in Url
    PROVE  /\ u # v => asked'[u] = asked[u]
           /\ asked'[u] <= asked[u] + 1
  BY BoundAssumption DEF Feed, TypeOK

(* A thread that looks up a page which is stored under no other URL cannot  *)
(* be storing it itself.                                                    *)
LEMMA LookerNotBusy ==
    ASSUME TypeOK, HInv, Elsewhere, NEW u \in Url,
           NEW t \in Thread, LookingUp(t, u), Paid(u)
    PROVE  asked[u] + Cardinality(Lookers(u))
              <= Cardinality(Thread) + Again(u) + faults
<1>1. CASE Location[u] = u
  <2>1. t \notin Busy(u)
    BY <1>1 DEF Busy, LookingUp, Elsewhere, HInv, PagesHonest, PageHonest
  <2>2. Busy(u) \in SUBSET (Thread \ {t}) /\ Thread \ {t} \in SUBSET Thread
    BY <2>1 DEF Busy
  <2>3. Cardinality(Busy(u)) <= Cardinality(Thread \ {t})
    BY <2>2, SizeWithin
  <2>4. Cardinality(Thread \ {t}) = Cardinality(Thread) - 1
    BY SizeWithout
  <2>5. Entry(u) <= 1 /\ Again(u) = 0
    BY <1>1 DEF Entry, Again
  <2> QED
    BY <2>3, <2>4, <2>5, Counts DEF Paid
<1>2. CASE Location[u] # u
  <2>1. Cardinality(Busy(u)) <= Cardinality(Thread)
    BY Sizes DEF Busy
  <2>2. Entry(u) <= 1 /\ Again(u) = 1
    BY <1>2 DEF Entry, Again
  <2> QED
    BY <2>1, <2>2, Counts DEF Paid
<1> QED
  BY <1>1, <1>2

LEMMA CountsNext ==
    ASSUME TypeOK', NEW u \in Url
    PROVE  /\ asked'[u] \in Nat /\ faults' \in Nat /\ Entry(u)' \in {0, 1}
           /\ Cardinality(Lookers(u)') \in Nat
           /\ Cardinality(Finders(u)') \in Nat
           /\ Cardinality(Busy(u)') \in Nat
<1>1. asked'[u] \in Nat /\ faults' \in Nat
  BY BoundAssumption DEF TypeOK
<1>2. Entry(u)' \in {0, 1}
  BY DEF Entry
<1>3. Cardinality(Lookers(u)') \in Nat
  BY Sizes DEF Lookers
<1>4. Cardinality(Finders(u)') \in Nat
  BY Sizes DEF Finders
<1>5. Cardinality(Busy(u)') \in Nat
  BY Sizes DEF Busy
<1> QED
  BY <1>1, <1>2, <1>3, <1>4, <1>5

(* A step of t moves nobody but t into a set of threads or out of it.       *)
LEMMA SizeChange ==
    ASSUME NEW t \in Thread, NEW S \in SUBSET Thread, NEW T \in SUBSET Thread,
           S \ {t} = T \ {t}
    PROVE  /\ (t \in S <=> t \in T) => Cardinality(T) = Cardinality(S)
           /\ t \in S /\ t \notin T => Cardinality(T) = Cardinality(S) - 1
           /\ t \notin S /\ t \in T => Cardinality(T) = Cardinality(S) + 1
<1>1. CASE t \in S <=> t \in T
  <2>1. S = T
    BY <1>1
  <2> QED
    BY <1>1, <2>1
<1>2. CASE t \in S /\ t \notin T
  <2>1. T = S \ {t}
    BY <1>2
  <2> QED
    BY <1>2, <2>1, SizeWithout
<1>3. CASE t \notin S /\ t \in T
  <2>1. T = S \cup {t}
    BY <1>3
  <2> QED
    BY <1>3, <2>1, SizeWith
<1> QED
  BY <1>1, <1>2, <1>3

LEMMA StepSets ==
    ASSUME TypeOK, NEW t \in Thread, Step(t), NEW u \in Url
    PROVE  /\ Lookers(u) \in SUBSET Thread /\ Lookers(u)' \in SUBSET Thread
           /\ Finders(u) \in SUBSET Thread /\ Finders(u)' \in SUBSET Thread
           /\ Lookers(u) \ {t} = Lookers(u)' \ {t}
           /\ Finders(u) \ {t} = Finders(u)' \ {t}
           /\ Busy(u)' = Busy(u)
           /\ Fresh(u)' <=> Fresh(u)
<1>1. Lookers(u) \ {t} = Lookers(u)' \ {t}
  BY StepKeeps DEF Lookers, LookingUp
<1>2. Finders(u) \ {t} = Finders(u)' \ {t}
  BY StepKeeps DEF Finders
<1>3. Busy(u)' = Busy(u)
  <2>1. CASE pc'[t] # "idle"
    <3>1. \A q \in Thread : page'[q] = page[q]
      BY <2>1, StepKeeps
    <3> QED
      BY <3>1, StepKeeps DEF Busy
  <2>2. CASE pc'[t] = "idle"
    <3>1. writes[t] = {} /\ writes'[t] = {}
      BY <2>2, StepKeeps DEF Finish, WritesCompleted
    <3>2. t \notin Busy(u) /\ t \notin Busy(u)'
      BY <3>1 DEF Busy
    <3>3. \A q \in Thread \ {t} : q \in Busy(u) <=> q \in Busy(u)'
      BY StepKeeps DEF Busy
    <3> QED
      BY <3>2, <3>3 DEF Busy
  <2> QED
    BY <2>1, <2>2
<1>4. Fresh(u)' <=> Fresh(u)
  BY StepKeeps DEF Fresh
<1> QED
  BY <1>1, <1>2, <1>3, <1>4 DEF Lookers, Finders

(* The steps that claim no URL and ask for none.                            *)
LEMMA QuietBounded ==
    ASSUME TypeOK, TypeOK', NEW t \in Thread, Step(t), NEW u \in Url,
           t \in Lookers(u) <=> t \in Lookers(u)',
           t \in Finders(u) <=> t \in Finders(u)',
           Entry(u) <= Entry(u)', faults <= faults',
           asked'[u] <= asked[u] + (faults' - faults),
           Bounded(u), Fresh(u) \/ Paid(u)
    PROVE  Bounded(u)' /\ (Fresh(u)' \/ Paid(u)')
<1>1. /\ Cardinality(Lookers(u)') = Cardinality(Lookers(u))
      /\ Cardinality(Finders(u)') = Cardinality(Finders(u))
  BY StepSets, SizeChange
<1>2. Busy(u)' = Busy(u) /\ (Fresh(u)' <=> Fresh(u))
  BY StepSets
<1> QED
  BY <1>1, <1>2, Counts, CountsNext DEF Bounded, Paid, Again

LEMMA StepBounded ==
    ASSUME TypeOK, TypeOK', HInv, Elsewhere, NEW t \in Thread, Step(t),
           NEW u \in Url, Bounded(u), Fresh(u) \/ Paid(u)
    PROVE  Bounded(u)' /\ (Fresh(u)' \/ Paid(u)')
<1> USE DEF engineVars, threadVars, storageVars, faultVars
<1>1. 0 \in Time /\ page[t].url \in Url /\ link[t].url \in Url
  BY BoundAssumption DEF Time, TypeOK, Page, Link
<1>2. CASE SetIndexes(t) \/ WriteText(t) \/ Finish(t) \/ \E h \in Href : SkipLink(t, h)
  <2>1. pc[t] \notin {"lookup", "cached"} /\ pc'[t] \notin {"lookup", "cached"}
    BY <1>2 DEF SetIndexes, WriteText, Finish, SkipLink, Goto, TypeOK
  <2>2. UNCHANGED <<inflight, asked>> /\ faults <= faults'
    BY <1>2 DEF SetIndexes, WriteText, Finish, SkipLink, Fault, TypeOK
  <2>3. Entry(u)' = Entry(u)
    BY <2>2 DEF Entry
  <2>4. asked'[u] <= asked[u] + (faults' - faults)
    BY <2>2, Counts, CountsNext
  <2>6. /\ t \notin Lookers(u) /\ t \notin Lookers(u)'
        /\ t \notin Finders(u) /\ t \notin Finders(u)'
    BY <2>1 DEF Lookers, Finders, LookingUp
  <2> QED
    BY  <2>2, <2>3, <2>4, <2>6, QuietBounded, Counts
<1>3. CASE ProcessorThrows(t)
  <2>1. pc[t] \notin {"lookup", "cached"} /\ pc'[t] \notin {"lookup", "cached"}
    BY <1>3 DEF ProcessorThrows, Goto, TypeOK
  <2>2. faults' = faults + 1 /\ UNCHANGED inflight
    BY <1>3 DEF ProcessorThrows, Fault
  <2>3. asked'[u] <= asked[u] + 1
    BY <1>1, <1>3, FeedAsked DEF ProcessorThrows
  <2>4. asked'[u] <= asked[u] + (faults' - faults) /\ faults <= faults'
    BY <2>2, <2>3, Counts, CountsNext
  <2>5. Entry(u)' = Entry(u)
    BY <2>2 DEF Entry
  <2>6. /\ t \notin Lookers(u) /\ t \notin Lookers(u)'
        /\ t \notin Finders(u) /\ t \notin Finders(u)'
    BY <2>1 DEF Lookers, Finders, LookingUp
  <2> QED
    BY  <2>4, <2>5, <2>6, QuietBounded, Counts
<1>4. CASE \E h \in Href : ClaimLink(t, h)
  <2>1. PICK h \in Href : ClaimLink(t, h)
    BY <1>4
  <2>2. /\ pc[t] = "links" /\ pc'[t] = "lookup" /\ link'[t].url = Target[h]
        /\ UNCHANGED <<asked, faults>>
    BY <2>1 DEF ClaimLink, Goto, TypeOK
  <2>3. /\ Target[h] \notin DOMAIN inflight
        /\ DOMAIN inflight' = DOMAIN inflight \cup {Target[h]}
    BY <2>1 DEF ClaimLink, InflightInsert
  <2>4. t \notin Lookers(u) /\ t \notin Finders(u) /\ t \notin Finders(u)'
    BY <2>2 DEF Lookers, Finders, LookingUp
  <2>5. CASE u # Target[h]
    <3>1. t \notin Lookers(u)'
      BY <2>2, <2>5 DEF Lookers, LookingUp
    <3>2. Entry(u)' = Entry(u)
      BY <2>3, <2>5 DEF Entry
    <3> QED
      BY <2>2, <2>4, <3>1, <3>2, QuietBounded, Counts
  <2>6. CASE u = Target[h]
    <3>1. t \in Lookers(u)'
      BY <2>2, <2>6 DEF Lookers, LookingUp
    <3>2. Entry(u) = 0 /\ Entry(u)' = 1
      BY <2>3, <2>6 DEF Entry
    <3>3. /\ Cardinality(Lookers(u)') = Cardinality(Lookers(u)) + 1
          /\ Cardinality(Finders(u)') = Cardinality(Finders(u))
      BY <2>4, <3>1, StepSets, SizeChange
    <3>4. Busy(u)' = Busy(u) /\ (Fresh(u)' <=> Fresh(u))
      BY StepSets
    <3> QED
      BY <2>2, <3>2, <3>3, <3>4, Counts DEF Bounded, Paid, Again
  <2> QED
    BY <2>5, <2>6
<1>5. CASE CacheMiss(t)
  <2>1. /\ pc[t] = "lookup" /\ pc'[t] = "links" /\ UNCHANGED inflight
        /\ IF link[t].url \in DOMAIN store THEN faults' = faults + 1
                                           ELSE faults' = faults
    BY <1>5 DEF CacheMiss, Fault, Goto, TypeOK
  <2>2. faults <= faults'
    BY <2>1, Counts
  <2>3. Entry(u)' = Entry(u)
    BY <2>1 DEF Entry
  <2>4. t \notin Lookers(u)' /\ t \notin Finders(u) /\ t \notin Finders(u)'
    BY <2>1 DEF Lookers, Finders, LookingUp
  <2>5. CASE u # link[t].url
    <3>1. asked'[u] = asked[u]
      BY <1>1, <1>5, <2>5, FeedAsked DEF CacheMiss
    <3>2. t \notin Lookers(u)
      BY <2>5 DEF Lookers, LookingUp
    <3>3. asked'[u] <= asked[u] + (faults' - faults)
      BY <2>2, <3>1, Counts, CountsNext
    <3> QED
      BY <2>2, <2>3, <2>4, <3>2, <3>3, QuietBounded, Counts
  <2>6. CASE u = link[t].url
    <3>1. asked'[u] <= asked[u] + 1
      BY <1>1, <1>5, FeedAsked DEF CacheMiss
    <3>2. LookingUp(t, u) /\ t \in Lookers(u)
      BY <2>1, <2>6 DEF Lookers, LookingUp
    <3>3. /\ Cardinality(Lookers(u)') = Cardinality(Lookers(u)) - 1
          /\ Cardinality(Finders(u)') = Cardinality(Finders(u))
      BY <2>4, <3>2, StepSets, SizeChange
    <3>4. Busy(u)' = Busy(u) /\ (Fresh(u)' <=> Fresh(u))
      BY StepSets
    <3>5. Fresh(u)' \/ Paid(u)'
      BY <2>2, <2>3, <3>1, <3>3, <3>4, Counts, CountsNext DEF Paid
    <3>6. CASE u \in DOMAIN store
      <4>1. faults' = faults + 1
        BY <2>1, <2>6, <3>6
      <4> QED
        BY <3>1, <3>3, <3>5, <4>1, Counts, CountsNext DEF Bounded, Again
    <3>7. CASE u \notin DOMAIN store
      <4>1. Paid(u)
        BY <3>7 DEF Fresh
      <4>2. asked[u] + Cardinality(Lookers(u))
               <= Cardinality(Thread) + Again(u) + faults
        BY <3>2, <4>1, LookerNotBusy
      <4>3. Cardinality(Finders(u)) + 1 <= Cardinality(Lookers(u))
        <5>1. Finders(u) \in SUBSET (Lookers(u) \ {t})
          BY <2>4 DEF Finders, Lookers, LookingUp
        <5>2. Cardinality(Finders(u)) <= Cardinality(Lookers(u) \ {t})
          BY <5>1, SizeWithin DEF Lookers
        <5>3. Cardinality(Lookers(u) \ {t}) = Cardinality(Lookers(u)) - 1
          BY <3>2, SizeWithout DEF Lookers
        <5> QED
          BY <5>2, <5>3, Counts
      <4> QED
        BY <2>2, <3>1, <3>3, <3>5, <4>2, <4>3, Counts, CountsNext DEF Bounded, Again
    <3> QED
      BY <3>6, <3>7
  <2> QED
    BY <2>5, <2>6
<1>6. CASE CacheHit(t)
  <2>1. /\ pc[t] = "lookup" /\ UNCHANGED <<inflight, asked, faults>>
        /\ link[t].url \in DOMAIN store
        /\ \/ pc'[t] = "links"
           \/ /\ pc'[t] = "cached" /\ link'[t].url = link[t].url
              /\ Outdated(store[link[t].url])
    BY <1>6 DEF CacheHit, Goto, TypeOK, Link
  <2>2. Entry(u)' = Entry(u)
    BY <2>1 DEF Entry
  <2>3. Busy(u)' = Busy(u) /\ (Fresh(u)' <=> Fresh(u))
    BY StepSets
  <2>4. t \notin Finders(u)
    BY <2>1 DEF Finders
  <2>5. CASE u # link[t].url \/ pc'[t] = "links"
    <3>1. t \notin Finders(u)' /\ t \notin Lookers(u)'
      BY <2>1, <2>5 DEF Finders, Lookers, LookingUp
    <3>2. /\ Cardinality(Lookers(u)') <= Cardinality(Lookers(u))
          /\ Cardinality(Finders(u)') = Cardinality(Finders(u))
      BY <2>4, <3>1, StepSets, SizeChange, Counts
    <3> QED
      BY <2>1, <2>2, <2>3, <3>2, Counts, CountsNext DEF Bounded, Paid, Again
  <2>6. CASE u = link[t].url /\ pc'[t] = "cached"
    <3>1. t \in Lookers(u) /\ t \in Lookers(u)' /\ t \in Finders(u)' /\ LookingUp(t, u)
      BY <2>1, <2>6 DEF Lookers, Finders, LookingUp
    <3>2. /\ Cardinality(Lookers(u)') = Cardinality(Lookers(u))
          /\ Cardinality(Finders(u)') <= Cardinality(Lookers(u)')
      <4>1. Finders(u)' \in SUBSET Lookers(u)'
        BY DEF Finders, Lookers, LookingUp
      <4>2. Cardinality(Finders(u)') <= Cardinality(Lookers(u)')
        BY <4>1, SizeWithin DEF Lookers
      <4>3. Cardinality(Lookers(u)') = Cardinality(Lookers(u))
        BY <3>1, StepSets, SizeChange
      <4> QED
        BY <4>2, <4>3
    <3>3. ~ Fresh(u)
      <4>1. store[u].ts < gen /\ store[u].ts \in Nat /\ gen \in Nat
        BY <2>1, <2>6, BoundAssumption DEF Outdated, TypeOK, IsMap, Document, Time
      <4> QED
        BY <4>1 DEF Fresh
    <3>4. asked[u] + Cardinality(Lookers(u))
             <= Cardinality(Thread) + Again(u) + faults
      BY <3>1, <3>3, LookerNotBusy
    <3> QED
      BY <2>1, <2>2, <2>3, <3>2, <3>4, Counts, CountsNext DEF Bounded, Paid, Again
  <2> QED
    BY <2>1, <2>5, <2>6
<1>7. CASE FoundInPageCache(t)
  <2>1. /\ pc[t] = "cached" /\ pc'[t] \in {"process", "links"} /\ faults' = faults
        /\ DOMAIN inflight' = DOMAIN inflight \cup {link[t].url}
    BY <1>7 DEF FoundInPageCache, InflightInsert, Goto, TypeOK
  <2>2. Entry(u) <= Entry(u)'
    BY <2>1 DEF Entry
  <2>3. t \notin Lookers(u)' /\ t \notin Finders(u)'
    BY <2>1 DEF Lookers, Finders, LookingUp
  <2>4. link[t].doc.ts \in Time
    BY DEF TypeOK, Link, Document
  <2>5. CASE u # link[t].url
    <3>1. asked'[u] = asked[u]
      BY <1>1, <1>7, <2>4, <2>5, FeedAsked DEF FoundInPageCache
    <3>2. t \notin Lookers(u) /\ t \notin Finders(u)
      BY <2>5 DEF Lookers, Finders, LookingUp
    <3>3. asked'[u] <= asked[u] + (faults' - faults)
      BY <2>1, <3>1, Counts, CountsNext
    <3> QED
      BY <2>1, <2>2, <2>3, <3>2, <3>3, QuietBounded, Counts
  <2>6. CASE u = link[t].url
    <3>1. asked'[u] <= asked[u] + 1
      BY <1>1, <1>7, <2>4, FeedAsked DEF FoundInPageCache
    <3>2. t \in Lookers(u) /\ t \in Finders(u)
      BY <2>1, <2>6 DEF Lookers, Finders, LookingUp
    <3>3. /\ Cardinality(Lookers(u)') = Cardinality(Lookers(u)) - 1
          /\ Cardinality(Finders(u)') = Cardinality(Finders(u)) - 1
      BY <2>3, <3>2, StepSets, SizeChange
    <3>4. Busy(u)' = Busy(u) /\ (Fresh(u)' <=> Fresh(u))
      BY StepSets
    <3> QED
      BY <2>1, <2>2, <3>1, <3>3, <3>4, Counts, CountsNext DEF Bounded, Paid, Again
  <2> QED
    BY <2>5, <2>6
<1> QED
  BY <1>2, <1>3, <1>4, <1>5, <1>6, <1>7 DEF Step

-----------------------------------------------------------------------------
(* A reply takes the entry with it that paid for its request, and puts a    *)
(* thread to work on the page, or it is a failed call.                      *)
LEMMA AnsweredPaid ==
    ASSUME TypeOK, AskedOnce, NEW r \in Request, pending[r] > 0,
           NEW u \in Url, ~ Fresh(u)
    PROVE  asked[u] + Cardinality(Lookers(u))
              <= Cardinality(Busy(u)) + (IF u = r.url THEN 1 ELSE Entry(u)) + faults
<1>1. CASE AtStart
  <2>1. r.url = Seed /\ asked[u] = IF u = Seed THEN 1 ELSE 0
    BY <1>1 DEF AtStart, SeedRequest
  <2>2. Cardinality(Lookers(u)) = 0
    <3>1. Lookers(u) = {}
      BY <1>1 DEF AtStart, Lookers, LookingUp
    <3> QED
      BY <3>1, FS_EmptySet
  <2> QED
    BY <2>1, <2>2, Counts
<1>2. CASE Paid(u)
  BY <1>2, Counts DEF Paid
<1> QED
  BY <1>1, <1>2 DEF AskedOnce

LEMMA DeliverBounded ==
    ASSUME TypeOK, TypeOK', HInv, NEW t \in Thread, Deliver(t),
           NEW u \in Url, Bounded(u), AskedOnce
    PROVE  Bounded(u)' /\ (Fresh(u)' \/ Paid(u)')
<1> USE DEF threadVars, storageVars, faultVars
<1>1. PICK r \in Request : \/ FetchFailed(t, r)
                          \/ Fetched(t, r)
                          \/ \E typed \in BOOLEAN : NotModified(t, r, typed)
  BY DEF Deliver
<1>2. /\ pending[r] > 0 /\ pc[t] = "idle" /\ pc'[t] \notin {"lookup", "cached"}
      /\ \A q \in Thread \ {t} : /\ pc'[q] = pc[q] /\ page'[q] = page[q]
                                 /\ writes'[q] = writes[q]
      /\ UNCHANGED <<gen, store, link, asked>>
      /\ DOMAIN inflight' = DOMAIN inflight \ {r.url}
  <2>1. CASE FetchFailed(t, r)
    BY <2>1 DEF FetchFailed, Take, InflightErase, Goto, TypeOK
  <2>2. ASSUME NEW data, NEW accepted, NEW modified, Reply(t, r, data, accepted, modified)
        PROVE  /\ pending[r] > 0 /\ pc[t] = "idle" /\ pc'[t] \notin {"lookup", "cached"}
               /\ \A q \in Thread \ {t} : /\ pc'[q] = pc[q] /\ page'[q] = page[q]
                                          /\ writes'[q] = writes[q]
               /\ UNCHANGED <<gen, store, link, asked>>
               /\ DOMAIN inflight' = DOMAIN inflight \ {r.url}
    BY <2>2 DEF Reply, Take, InflightErase, Goto, TypeOK
  <2>3. CASE Fetched(t, r)
    BY <2>2, <2>3, Zenon DEF Fetched
  <2>4. CASE \E typed \in BOOLEAN : NotModified(t, r, typed)
    BY <2>2, <2>4, Zenon DEF NotModified
  <2> QED
    BY <1>1, <2>1, <2>3, <2>4
<1>3. writes[t] = {} /\ t \notin Busy(u)
  BY <1>2 DEF HInv, WritesOwn, Busy
<1>4. Lookers(u)' = Lookers(u) /\ Finders(u)' = Finders(u)
  BY <1>2 DEF Lookers, Finders, LookingUp
<1>5. Fresh(u)' <=> Fresh(u)
  BY <1>2 DEF Fresh
<1>6. Entry(u)' = IF u = r.url THEN 0 ELSE Entry(u)
  BY <1>2 DEF Entry
<1>7. Busy(u) \ {t} = Busy(u)' \ {t}
  BY <1>2 DEF Busy
<1>8. /\ faults <= faults'
      /\ Cardinality(Busy(u)') + faults'
           >= Cardinality(Busy(u)) + (IF u = r.url THEN 1 ELSE 0) + faults
  <2>1. CASE FetchFailed(t, r)
    <3>1. faults' = faults + 1 /\ UNCHANGED <<page, writes>>
      BY <2>1 DEF FetchFailed, Fault
    <3>2. Busy(u)' = Busy(u)
      BY <3>1 DEF Busy
    <3> QED
      BY <3>1, <3>2, Counts
  <2>2. CASE Fetched(t, r) \/ \E typed \in BOOLEAN : NotModified(t, r, typed)
    <3>1. PICK data \in Data, accepted \in BOOLEAN, modified \in BOOLEAN :
               Reply(t, r, data, accepted, modified)
      BY <2>2, ReplyHonest
    <3>2. /\ faults' = faults /\ page'[t].url = r.url
          /\ writes'[t] = {[key |-> v, data |-> data] : v \in StoredUnder(r.url)}
      BY <3>1 DEF Reply, TypeOK
    <3>3. u = r.url => t \in Busy(u)'
      <4>1. [key |-> r.url, data |-> data] \in writes'[t]
        BY <3>2 DEF StoredUnder
      <4> QED
        BY <3>2, <4>1 DEF Busy
    <3>4. /\ Busy(u) \in SUBSET Thread /\ Busy(u)' \in SUBSET Thread
      BY DEF Busy
    <3>5. CASE t \in Busy(u)'
      <4>1. Cardinality(Busy(u)') = Cardinality(Busy(u)) + 1
        BY <1>3, <1>7, <3>4, <3>5, SizeChange
      <4> QED
        BY <3>2, <4>1, Counts, CountsNext
    <3>6. CASE t \notin Busy(u)'
      <4>1. Cardinality(Busy(u)') = Cardinality(Busy(u))
        BY <1>3, <1>7, <3>4, <3>6, SizeChange
      <4> QED
        BY <3>2, <3>3, <3>6, <4>1, Counts, CountsNext
    <3> QED
      BY <3>5, <3>6
  <2> QED
    BY <1>1, <2>1, <2>2
<1>9. Bounded(u)'
  BY <1>2, <1>4, <1>8, Counts, CountsNext DEF Bounded, Again
<1>10. Fresh(u)' \/ Paid(u)'
  <2> SUFFICES ASSUME ~ Fresh(u) PROVE Paid(u)'
    BY <1>5
  <2>1. asked[u] + Cardinality(Lookers(u))
          <= Cardinality(Busy(u)) + (IF u = r.url THEN 1 ELSE Entry(u)) + faults
    BY <1>2, AnsweredPaid
  <2> QED
    BY <1>2, <1>4, <1>6, <1>8, <2>1, Counts, CountsNext DEF Paid
<1> QED
  BY <1>9, <1>10

(* A write that succeeds stores the page; one that fails is a failed call.  *)
LEMMA CompleteBounded ==
    ASSUME TypeOK, TypeOK', NEW t \in Thread, Complete(t),
           NEW u \in Url, Bounded(u), Fresh(u) \/ Paid(u)
    PROVE  Bounded(u)' /\ (Fresh(u)' \/ Paid(u)')
<1> USE DEF engineVars, threadVars, storageVars, faultVars
<1>1. PICK w \in Write : WriteDone(t, w) \/ WriteFailed(t, w)
  BY DEF Complete
<1>2. /\ UNCHANGED <<gen, pc, page, link, asked, inflight>>
      /\ writes'[t] = writes[t] \ {w}
      /\ \A q \in Thread \ {t} : writes'[q] = writes[q]
  BY <1>1 DEF WriteDone, WriteFailed, TypeOK
<1>3. Lookers(u)' = Lookers(u) /\ Finders(u)' = Finders(u) /\ Entry(u)' = Entry(u)
  BY <1>2 DEF Lookers, Finders, LookingUp, Entry
<1>4. Busy(u) \ {t} = Busy(u)' \ {t}
  BY <1>2 DEF Busy
<1>5. u # w.key => (t \in Busy(u) <=> t \in Busy(u)')
  BY <1>2 DEF Busy
<1>6. t \in Busy(u)' => t \in Busy(u)
  BY <1>2 DEF Busy
<1>7. Busy(u) \in SUBSET Thread /\ Busy(u)' \in SUBSET Thread
  BY DEF Busy
<1>8. Fresh(u) => Fresh(u)'
  BY <1>1, <1>2 DEF WriteDone, WriteFailed, Fresh, Put
<1>9. CASE WriteDone(t, w)
  <2>1. faults' = faults
    BY <1>9 DEF WriteDone
  <2>2. CASE u = w.key
    <3>1. Fresh(u)'
      BY <1>9, <2>2 DEF WriteDone, Fresh, Put
    <3> QED
      BY <1>2, <1>3, <2>1, <3>1 DEF Bounded, Again
  <2>3. CASE u # w.key
    <3>1. Cardinality(Busy(u)') = Cardinality(Busy(u))
      BY <1>4, <1>5, <1>7, <2>3, SizeChange
    <3> QED
      BY <1>2, <1>3, <1>8, <2>1, <3>1 DEF Bounded, Paid, Again
  <2> QED
    BY <2>2, <2>3
<1>10. CASE WriteFailed(t, w)
  <2>1. faults' = faults + 1
    BY <1>10 DEF WriteFailed, Fault
  <2>2. Cardinality(Busy(u)) <= Cardinality(Busy(u)') + 1
    BY <1>4, <1>6, <1>7, SizeChange, Counts, CountsNext
  <2> QED
    BY <1>2, <1>3, <1>8, <2>1, <2>2, Counts, CountsNext DEF Bounded, Paid, Again
<1> QED
  BY <1>1, <1>9, <1>10

LEMMA StartBounded ==
    ASSUME TypeOK, NEW u \in Url, AtStart
    PROVE  Bounded(u)
<1>1. Cardinality(Finders(u)) = 0
  <2>1. Finders(u) = {}
    BY DEF AtStart, Finders
  <2> QED
    BY <2>1, FS_EmptySet
<1>2. Cardinality(Thread) # 0
  BY ThreadAssumption, FS_EmptySet
<1>3. asked[u] <= 1
  BY DEF AtStart
<1> QED
  BY <1>1, <1>2, <1>3, Counts DEF Bounded

LEMMA ElsewhereNext ==
    TypeOK /\ Elsewhere /\ [Next]_vars => Elsewhere'
<1> SUFFICES ASSUME TypeOK, Elsewhere, [Next]_vars PROVE Elsewhere'
  OBVIOUS
<1> USE DEF engineVars, threadVars, storageVars, faultVars
<1>1. CASE \E t \in Thread : Deliver(t) \/ Complete(t)
  <2>1. PICK t \in Thread : Deliver(t) \/ Complete(t)
    BY <1>1
  <2>2. /\ \A q \in Thread \ {t} : pc'[q] = pc[q] /\ page'[q] = page[q]
        /\ UNCHANGED link
        /\ pc'[t] \notin {"lookup", "cached"} \/ UNCHANGED <<pc, page>>
    <3>1. CASE Complete(t)
      BY <3>1 DEF Complete, WriteDone, WriteFailed
    <3>2. CASE \E r \in Request : FetchFailed(t, r)
      BY <3>2 DEF FetchFailed
    <3>3. CASE \E r \in Request : \/ Fetched(t, r)
                                  \/ \E typed \in BOOLEAN : NotModified(t, r, typed)
      BY <3>3 DEF Fetched, NotModified, Reply, Goto, TypeOK
    <3> QED
      BY <2>1, <3>1, <3>2, <3>3 DEF Deliver
  <2> QED
    BY <2>2 DEF Elsewhere
<1>2. ASSUME NEW t \in Thread, Step(t) PROVE Elsewhere'
  <2>1. CASE SetIndexes(t) \/ WriteText(t) \/ ProcessorThrows(t)
             \/ CacheMiss(t) \/ FoundInPageCache(t) \/ Finish(t)
    BY <2>1 DEF SetIndexes, WriteText, ProcessorThrows, CacheMiss, FoundInPageCache,
                Finish, Goto, TypeOK, Elsewhere
  <2>2. CASE \E h \in Href : SkipLink(t, h) \/ ClaimLink(t, h)
    BY <2>2 DEF SkipLink, ClaimLink, Wanted, Goto, TypeOK, Elsewhere
  <2>3. CASE CacheHit(t)
    BY <2>3 DEF CacheHit, Goto, TypeOK, Link, Elsewhere
  <2> QED
    BY <1>2, <2>1, <2>2, <2>3 DEF Step
<1>3. CASE Restart
  BY <1>3 DEF Restart, Elsewhere
<1>4. CASE UNCHANGED vars
  BY <1>4 DEF vars, Elsewhere
<1> QED
  BY <1>1, <1>2, <1>3, <1>4 DEF Next

DInv == Elsewhere /\ AskedOnce /\ AskedBounded

LEMMA RestartBounded ==
    ASSUME TypeOK', Restart
    PROVE  AtStart' /\ AskedBounded'
<1>1. AtStart'
  BY DEF Restart, AtStart
<1>2. \A u \in Url : Bounded(u)'
  <2> SUFFICES ASSUME NEW u \in Url PROVE Bounded(u)'
    OBVIOUS
  <2>1. Cardinality(Finders(u)') = 0
    <3>1. Finders(u)' = {}
      BY <1>1 DEF AtStart, Finders
    <3> QED
      BY <3>1, FS_EmptySet
  <2>2. Cardinality(Thread) # 0 /\ Cardinality(Thread) \in Nat
    BY ThreadAssumption, FS_EmptySet, FS_CardinalityType
  <2>3. asked'[u] <= 1
    BY <1>1 DEF AtStart
  <2> QED
    BY <2>1, <2>2, <2>3, CountsNext DEF Bounded, Again
<1> QED
  BY <1>1, <1>2 DEF AskedBounded

LEMMA DuplicatesInit == Init => DInv
<1>1. Init => AtStart
  BY DEF Init, AtStart
<1>2. Init => Elsewhere
  BY DEF Init, Elsewhere
<1> QED
  BY <1>1, <1>2, TypeInit, StartBounded DEF DInv, AskedOnce, AskedBounded

LEMMA DuplicatesNext == IInv /\ HInv /\ DInv /\ [Next]_vars => DInv'
<1> SUFFICES ASSUME IInv, HInv, DInv, [Next]_vars PROVE DInv'
  OBVIOUS
<1>1. TypeOK /\ TypeOK' /\ Elsewhere'
  BY TypeNext, ElsewhereNext DEF IInv, DInv
<1>2. CASE \E t \in Thread : Deliver(t)
  <2>1. \A u \in Url : Bounded(u)' /\ (Fresh(u)' \/ Paid(u)')
    BY <1>1, <1>2, DeliverBounded DEF DInv, AskedBounded
  <2> QED
    BY <1>1, <2>1 DEF DInv, AskedOnce, AskedBounded
<1>3. CASE \E t \in Thread : Step(t) \/ Complete(t)
  <2>1. \A u \in Url : Fresh(u) \/ Paid(u)
    <3>1. ~ AtStart
      BY <1>1, <1>3, StepKeeps
      DEF AtStart, Complete, WriteDone, WriteFailed, HInv, WritesOwn
    <3> QED
      BY <3>1 DEF DInv, AskedOnce
  <2>2. \A u \in Url : Bounded(u)' /\ (Fresh(u)' \/ Paid(u)')
    BY <1>1, <1>3, <2>1, StepBounded, CompleteBounded DEF DInv, AskedBounded
  <2> QED
    BY <1>1, <2>2 DEF DInv, AskedOnce, AskedBounded
<1>4. CASE Restart
  BY <1>1, <1>4, RestartBounded DEF DInv, AskedOnce, AskedBounded
<1>5. CASE UNCHANGED vars
  <2> USE <1>5 DEF vars, engineVars, threadVars, storageVars, faultVars
  <2>1. AtStart' <=> AtStart
    BY DEF AtStart
  <2>2. \A u \in Url : /\ Lookers(u)' = Lookers(u) /\ Finders(u)' = Finders(u)
                       /\ Busy(u)' = Busy(u) /\ Entry(u)' = Entry(u)
                       /\ Fresh(u)' <=> Fresh(u)
    BY DEF Lookers, Finders, LookingUp, Busy, Entry, Fresh
  <2>3. \A u \in Url : (Paid(u)' <=> Paid(u)) /\ (Bounded(u)' <=> Bounded(u))
    BY <2>2 DEF Paid, Bounded, Again
  <2> QED
    BY <1>1, <2>1, <2>2, <2>3 DEF DInv, AskedOnce, AskedBounded
<1> QED
  BY <1>2, <1>3, <1>4, <1>5 DEF Next

(* No URL is asked for more often in a run than there are threads and       *)
(* failed calls, once more for a URL that is redirected: for any number of  *)
(* threads, whatever they interleave and whatever links to what.            *)
THEOREM DuplicatesAlwaysBounded == Spec => []BoundedDuplicates
<1>1. TypeOK /\ DInv => BoundedDuplicates
  <2> SUFFICES ASSUME TypeOK, DInv, NEW u \in Url
               PROVE  asked[u] <= Cardinality(Thread) + faults + Again(u)
    BY DEF BoundedDuplicates, Again
  <2> QED
    BY Counts DEF DInv, AskedBounded, Bounded
<1> QED
  BY <1>1, AlwaysHonest, DuplicatesInit, DuplicatesNext, PTL DEF Spec, IInv
=============================================================================
