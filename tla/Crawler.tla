------------------------------ MODULE Crawler ------------------------------
(***************************************************************************)
(* The crawl loop of wookie::engine (lib/engine.cpp) with the downloader   *)
(* threads that run it (include/wookie/dmanager.hpp), the page cache it    *)
(* keeps in elliptics (lib/storage.cpp) and the reverse-index processor    *)
(* that test/rindex.cpp plugs into it.                                     *)
(*                                                                         *)
(* Every downloader owns an event loop and a thread; a reply is handled to *)
(* its end on that thread, so a thread is a program counter and several    *)
(* replies are in progress at a time.  What the threads share is the       *)
(* inflight map, the storage and the requests that have been fed.  A step  *)
(* here is the code between two points at which another thread, the        *)
(* storage or the network can be observed: taking inflight_lock, waiting   *)
(* for a storage call, feeding a request.                                  *)
(*                                                                         *)
(* Time is the generation: the number of the engine's current run.  Code   *)
(* compares timestamps only with generation_time (is this document older   *)
(* than this run?) and hands them to web servers as If-Modified-Since, so  *)
(* a timestamp is the generation it was taken in.                          *)
(***************************************************************************)
EXTENDS Naturals, FiniteSets

CONSTANTS
    Url,         \* the URLs, as strings: keys of inflight, storage and index
    Thread,      \* the downloaders' threads (--uthreads)
    Seed,        \* the URL given on the command line
    Location,    \* where following redirects from a URL ends
    Data,        \* bodies of pages
    NoData,      \* the empty string
    TextData,    \* the bodies the text filter takes for text
    Href,        \* the different href strings found on pages
    Target,      \* the URL an href resolves to
    Followable,  \* the hrefs that are valid http URLs and pass url_filters
    HrefsIn,     \* the hrefs the parsers find in a body
    Bodies,      \* the bodies a URL may have over the generations
    MaxGen,      \* bound: number of runs of the engine
    MaxFaults,   \* bound: failed calls (network, storage, processor)
    AskedCap     \* bound: where the ghost counter of requests saturates

ASSUME UrlAssumption ==
    /\ Seed \in Url
    /\ Location \in [Url -> Url]
    /\ \A u \in Url : Location[Location[u]] = Location[u]
(* With --uthreads 0 no downloader can be picked (dmanager.hpp:100).        *)
ASSUME ThreadAssumption == IsFiniteSet(Thread) /\ Thread # {}
ASSUME DataAssumption ==
    /\ NoData \in Data
    /\ TextData \subseteq Data \ {NoData}
    /\ Bodies \in [Url -> SUBSET (Data \ {NoData})]
    /\ \A u \in Url : Bodies[u] # {}
ASSUME HrefAssumption ==
    /\ Target \in [Href -> Url]
    /\ Followable \subseteq Href
    /\ HrefsIn \in [Data -> SUBSET Href]
    /\ HrefsIn[NoData] = {}
ASSUME BoundAssumption ==
    /\ MaxGen \in Nat \ {0}
    /\ MaxFaults \in Nat
    /\ AskedCap \in Nat \ {0}

VARIABLES
    gen,        \* generation of the running engine (generation_time)
    web,        \* what the servers serve: body and time of its last change
    inflight,   \* engine_data::inflight: URL -> data of the document kept there
    pending,    \* requests fed to a downloader, not answered yet (a bag)
    pc,         \* where each thread stands in process_url
    page,       \* the reply a thread is processing
    todo,       \* hrefs of that page the loop has not reached
    link,       \* the link being looked up, and the document read for it
    writes,     \* a thread's store_document calls that have not completed
    store,      \* page cache in elliptics: URL -> document
    index,      \* reverse index: URL -> body whose words index it
    text,       \* namespace "text": URL -> body whose text is kept
    faults,     \* failed calls so far
    failed,     \* ghost: URLs that lost a call in this generation
    asked       \* ghost: requests fed for a URL in this generation

engineVars  == <<inflight, pending, asked>>
threadVars  == <<pc, page, todo, link>>
storageVars == <<store, index, text>>
faultVars   == <<faults, failed>>
vars == <<gen, web, engineVars, threadVars, writes, storageVars, faultVars>>

-----------------------------------------------------------------------------
Time     == 0 .. MaxGen
Document == [ts : Time, data : Data]
Request  == [url : Url, since : Time]   \* since = 0: not conditional
Page     == [url : Url, loc : Url, data : Data, accepted : BOOLEAN,
             modified : BOOLEAN]
Link     == [url : Url, doc : Document]
Write    == [key : Url, data : Data]
PC       == {"idle", "process", "text", "links", "lookup", "cached"}

EmptyDocument == [ts |-> 0, data |-> NoData]
NoPage == [url |-> Seed, loc |-> Seed, data |-> NoData, accepted |-> FALSE,
           modified |-> FALSE]
NoLink == [url |-> Seed, doc |-> EmptyDocument]
SeedRequest == [url |-> Seed, since |-> 0]

(* The document of u was stored by the running engine. *)
Fresh(u) == u \in DOMAIN store /\ store[u].ts = gen

Pending(u) == \E s \in Time : pending[[url |-> u, since |-> s]] > 0

(* Thread t has claimed u and has not decided yet what to do with it. *)
LookingUp(t, u) == pc[t] \in {"lookup", "cached"} /\ link[t].url = u

(* No request is outstanding and no reply is being processed. *)
Quiescent == /\ \A r \in Request : pending[r] = 0
             /\ \A t \in Thread : pc[t] = "idle"

-----------------------------------------------------------------------------
(* Writing value under key k in the storage replaces what was there.        *)
Put(f, k, value) == [v \in DOMAIN f \cup {k} |-> IF v = k THEN value ELSE f[v]]

(* A definition marked "mutated" is no part of the specification: it is the *)
(* definition below it with a slip of the kind this code invites, and TLC   *)
(* finds the slip by a property.                                            *)

\* mutated: the map is not touched
InflightForget(u, data) == UNCHANGED inflight
(* std::map::insert leaves an entry that is already there alone.            *)
InflightInsert(u, data) ==
    inflight' = [v \in DOMAIN inflight \cup {u} |->
                   IF v \in DOMAIN inflight THEN inflight[v] ELSE data]

\* mutated: the entry stays
InflightKeep(u) == UNCHANGED inflight
InflightErase(u) == inflight' = [v \in DOMAIN inflight \ {u} |-> inflight[v]]

OldData(u) == IF u \in DOMAIN inflight THEN inflight[u] ELSE NoData

(* dmanager::feed picks a downloader at random when a request is fed.  Here *)
(* the choice is made when the reply is delivered, to a thread with no      *)
(* reply in hand: a request waits in its downloader until then anyway.      *)
Feed(u, since) ==
    /\ pending' = [pending EXCEPT ![[url |-> u, since |-> since]] = @ + 1]
    /\ asked' = [asked EXCEPT ![u] = IF @ < AskedCap THEN @ + 1 ELSE @]

(* One call fails, and what was asked for the URLs of lost is lost.         *)
Fault(lost) ==
    /\ faults < MaxFaults
    /\ faults' = faults + 1
    /\ failed' = failed \cup lost

Goto(t, label) == pc' = [pc EXCEPT ![t] = label]

-----------------------------------------------------------------------------
Init ==
    /\ gen = 1
    /\ web \in [Url -> Document]
    /\ \A u \in Url : web[u].ts = 1 /\ web[u].data \in Bodies[u]
    /\ inflight = << >>
    /\ pending = [r \in Request |-> IF r = SeedRequest THEN 1 ELSE 0]
    /\ asked = [u \in Url |-> IF u = Seed THEN 1 ELSE 0]
    /\ pc = [t \in Thread |-> "idle"]
    /\ page = [t \in Thread |-> NoPage]
    /\ todo = [t \in Thread |-> {}]
    /\ link = [t \in Thread |-> NoLink]
    /\ writes = [t \in Thread |-> {}]
    /\ store = << >>
    /\ index = << >>
    /\ text = << >>
    /\ faults = 0
    /\ failed = {}

\* mutated: a request may be answered more than once
TakeAgain(r) ==
    /\ pending' = [pending EXCEPT ![r] = @ - 1]
    /\ InflightErase(r.url)
    /\ UNCHANGED asked
(* process_url takes a request's URL out of inflight before it looks at the *)
(* outcome.                                                                 *)
Take(r) ==
    /\ pending[r] > 0
    /\ pending' = [pending EXCEPT ![r] = @ - 1]
    /\ InflightErase(r.url)
    /\ UNCHANGED asked

(* The fetch failed: process_url returns.  Nobody asks for the URL again    *)
(* unless another page links to it.                                         *)
FetchFailed(t, r) ==
    /\ pc[t] = "idle"
    /\ Take(r)
    /\ Fault({r.url})
    /\ UNCHANGED <<gen, web, threadVars, writes, storageVars>>

\* mutated: the requested URL is not stored after a redirect
StoredUnderLocation(u) == {Location[u]}
(* Where process_reply stores a page: under the URL it came from and, after *)
(* a redirect, under the requested URL.                                     *)
StoredUnder(u) == {Location[u], u}

(* process_reply up to the processors: the filters judge the data, and the  *)
(* page is sent to the storage without waiting.  An accepted 304 goes       *)
(* straight to its links; anything else goes to the processors, or, when    *)
(* rejected, to the fallback processors and to no links.                    *)
Reply(t, r, data, accepted, modified) ==
    LET loc == Location[r.url]
    IN  /\ pc[t] = "idle"
        /\ Take(r)
        /\ page' = [page EXCEPT ![t] =
              [url |-> r.url, loc |-> loc, data |-> data,
               accepted |-> accepted, modified |-> modified]]
        /\ writes' = [writes EXCEPT ![t] =
              {[key |-> u, data |-> data] : u \in StoredUnder(r.url)}]
        /\ todo' = [todo EXCEPT ![t] = IF accepted THEN HrefsIn[data] ELSE {}]
        /\ Goto(t, IF accepted /\ ~modified THEN "links" ELSE "process")
        /\ UNCHANGED <<gen, web, link, storageVars, faultVars>>

(* Any code but 304.  The code is not looked at: an error page is a page.   *)
(* The type of a URL's body is what its server's header or libmagic says.   *)
Fetched(t, r) ==
    LET data == web[Location[r.url]].data
    IN  Reply(t, r, data, data \in TextData, TRUE)

(* A conditional request for a page that has not changed since: the body is *)
(* empty and process_url takes the data kept in inflight.  The text filter  *)
(* goes by the Content-Type header when the reply is typed, else by the     *)
(* data.                                                                    *)
NotModified(t, r, typed) ==
    LET now == web[Location[r.url]]
        data == OldData(r.url)
        judged == IF typed THEN now.data ELSE data
    IN  /\ r.since # 0 /\ now.ts <= r.since
        /\ Reply(t, r, data, judged \in TextData, FALSE)

(* rindex_processor::process_text indexes what the parser extracts from an  *)
(* accepted page, and the fallback processor indexes the empty text.  The   *)
(* index is set and then the text is written, each call waited for and its  *)
(* error ignored.                                                           *)
\* mutated: the filters' verdict is ignored
ContentUnfiltered(t) == page[t].data
Content(t) == IF page[t].accepted THEN page[t].data ELSE NoData

SetIndexes(t) ==
    /\ pc[t] = "process"
    /\ Goto(t, "text")
    /\ UNCHANGED <<gen, web, engineVars, page, todo, link, writes, store, text>>
    /\ \/ /\ index' = Put(index, page[t].loc, Content(t))
          /\ UNCHANGED faultVars
       \/ /\ Fault({page[t].loc})
          /\ UNCHANGED index

WriteText(t) ==
    /\ pc[t] = "text"
    /\ Goto(t, "links")
    /\ UNCHANGED <<gen, web, engineVars, page, todo, link, writes, store, index>>
    /\ \/ /\ text' = Put(text, page[t].loc, Content(t))
          /\ UNCHANGED faultVars
       \/ /\ Fault({page[t].loc})
          /\ UNCHANGED text

(* An exception while the indexes are prepared: the page is downloaded      *)
(* again, past inflight, and the loop goes on with its links.               *)
ProcessorThrows(t) ==
    /\ pc[t] = "process"
    /\ Fault({})
    /\ Feed(page[t].url, 0)
    /\ Goto(t, "links")
    /\ UNCHANGED <<gen, web, inflight, page, todo, link, writes, storageVars>>

(* The checks of the loop over the links, before the URL is claimed.        *)
Wanted(t, h) == h \in Followable /\ Target[h] # page[t].loc

\* mutated: the loop is left where it should continue
SkipLinkReturns(t, h) ==
    /\ pc[t] = "links" /\ h \in todo[t]
    /\ Wanted(t, h) => Target[h] \in DOMAIN inflight
    /\ todo' = [todo EXCEPT ![t] = {}]
    /\ UNCHANGED <<gen, web, engineVars, pc, page, link, writes, storageVars,
                   faultVars>>
SkipLink(t, h) ==
    /\ pc[t] = "links" /\ h \in todo[t]
    /\ Wanted(t, h) => Target[h] \in DOMAIN inflight
    /\ todo' = [todo EXCEPT ![t] = @ \ {h}]
    /\ UNCHANGED <<gen, web, engineVars, pc, page, link, writes, storageVars,
                   faultVars>>

(* inflight_insert(request_url) puts an empty document in the map.          *)
ClaimLink(t, h) ==
    /\ pc[t] = "links" /\ h \in todo[t]
    /\ Wanted(t, h) /\ Target[h] \notin DOMAIN inflight
    /\ InflightInsert(Target[h], NoData)
    /\ todo' = [todo EXCEPT ![t] = @ \ {h}]
    /\ link' = [link EXCEPT ![t] = [url |-> Target[h], doc |-> EmptyDocument]]
    /\ Goto(t, "lookup")
    /\ UNCHANGED <<gen, web, pending, asked, page, writes, storageVars, faultVars>>

(* read_data fails, for a page that is not there or for another reason: the *)
(* URL is downloaded.                                                       *)
CacheMiss(t) ==
    /\ pc[t] = "lookup"
    /\ IF link[t].url \in DOMAIN store THEN Fault({}) ELSE UNCHANGED faultVars
    /\ Feed(link[t].url, 0)
    /\ link' = [link EXCEPT ![t] = NoLink]
    /\ Goto(t, "links")
    /\ UNCHANGED <<gen, web, inflight, page, todo, writes, storageVars>>

\* mutated: what is in the page cache is never asked for again
OutdatedNever(doc) == FALSE
(* dnet_time_before(&doc.ts, &generation_time)                              *)
Outdated(doc) == doc.ts < gen

(* read_data succeeds.  A document of this generation is left alone, and    *)
(* its URL stays in inflight; an older one is kept for the next step.       *)
CacheHit(t) ==
    /\ pc[t] = "lookup" /\ link[t].url \in DOMAIN store
    /\ LET doc == store[link[t].url]
       IN  IF Outdated(doc)
           THEN /\ link' = [link EXCEPT ![t].doc = doc]
                /\ Goto(t, "cached")
           ELSE /\ link' = [link EXCEPT ![t] = NoLink]
                /\ Goto(t, "links")
    /\ UNCHANGED <<gen, web, engineVars, page, todo, writes, storageVars,
                   faultVars>>

\* mutated: the processors are handed the document from the cache
FoundInPageCacheProcessed(t) ==
    LET doc == link[t].doc
    IN  /\ pc[t] = "cached"
        /\ InflightInsert(link[t].url, doc.data)
        /\ Feed(link[t].url, doc.ts)
        /\ link' = [link EXCEPT ![t] = NoLink]
        /\ page' = [page EXCEPT ![t].data = doc.data]
        /\ Goto(t, IF page[t].modified THEN "process" ELSE "links")
        /\ UNCHANGED <<gen, web, todo, writes, storageVars, faultVars>>
(* found_in_page_cache: a conditional request, and the processors once more *)
(* for the page the link is on.                                             *)
FoundInPageCache(t) ==
    LET doc == link[t].doc
    IN  /\ pc[t] = "cached"
        /\ InflightInsert(link[t].url, doc.data)
        /\ Feed(link[t].url, doc.ts)
        /\ link' = [link EXCEPT ![t] = NoLink]
        /\ Goto(t, IF page[t].modified THEN "process" ELSE "links")
        /\ UNCHANGED <<gen, web, page, todo, writes, storageVars, faultVars>>

\* mutated: process_reply returns without waiting
WritesIgnored(t) == TRUE
\* mutated: it waits until the page can be read
WritesVisible(t) == \A u \in StoredUnder(page[t].url) :
                       u \in DOMAIN store /\ store[u].ts = gen
WritesCompleted(t) == writes[t] = {}

(* process_reply returns when its writes have completed, whatever became of *)
(* them.                                                                    *)
Finish(t) ==
    /\ pc[t] = "links" /\ todo[t] = {} /\ WritesCompleted(t)
    /\ page' = [page EXCEPT ![t] = NoPage]
    /\ Goto(t, "idle")
    /\ UNCHANGED <<gen, web, engineVars, todo, link, writes, storageVars, faultVars>>

WriteDone(t, w) ==
    /\ w \in writes[t]
    /\ writes' = [writes EXCEPT ![t] = @ \ {w}]
    /\ store' = Put(store, w.key, [ts |-> gen, data |-> w.data])
    /\ UNCHANGED <<gen, web, engineVars, threadVars, index, text, faultVars>>

WriteFailed(t, w) ==
    /\ w \in writes[t]
    /\ writes' = [writes EXCEPT ![t] = @ \ {w}]
    /\ Fault({w.key})
    /\ UNCHANGED <<gen, web, engineVars, threadVars, storageVars>>

(* The process ends, at any point, and is started again on the same seed:   *)
(* what was in memory is gone, the storage is not.  Pages may have changed  *)
(* in between.                                                              *)
Restart ==
    /\ gen < MaxGen
    /\ gen' = gen + 1
    /\ \E changed \in SUBSET Url, new \in [Url -> UNION {Bodies[u] : u \in Url}] :
         /\ \A u \in Url : IF u \in changed THEN new[u] \in Bodies[u]
                                            ELSE new[u] = web[u].data
         /\ web' = [u \in Url |-> IF u \in changed
                                  THEN [ts |-> gen + 1, data |-> new[u]]
                                  ELSE web[u]]
    /\ inflight' = << >>
    /\ pending' = [r \in Request |-> IF r = SeedRequest THEN 1 ELSE 0]
    /\ asked' = [u \in Url |-> IF u = Seed THEN 1 ELSE 0]
    /\ pc' = [t \in Thread |-> "idle"]
    /\ page' = [t \in Thread |-> NoPage]
    /\ todo' = [t \in Thread |-> {}]
    /\ link' = [t \in Thread |-> NoLink]
    /\ writes' = [t \in Thread |-> {}]
    /\ failed' = {}
    /\ UNCHANGED <<storageVars, faults>>

-----------------------------------------------------------------------------
Deliver(t) == \E r \in Request :
    \/ FetchFailed(t, r)
    \/ Fetched(t, r)
    \/ \E typed \in BOOLEAN : NotModified(t, r, typed)

Step(t) ==
    \/ SetIndexes(t)
    \/ WriteText(t)
    \/ ProcessorThrows(t)
    \/ \E h \in Href : SkipLink(t, h) \/ ClaimLink(t, h)
    \/ CacheMiss(t)
    \/ CacheHit(t)
    \/ FoundInPageCache(t)
    \/ Finish(t)

Complete(t) == \E w \in Write : WriteDone(t, w) \/ WriteFailed(t, w)

Next == \/ \E t \in Thread : Deliver(t) \/ Step(t) \/ Complete(t)
        \/ Restart

(* An idle downloader takes the next reply, a thread that handles one goes  *)
(* on, and a call to the storage returns, with a result or a time-out       *)
(* (storage.cpp:24).  Nothing makes a call fail or the process end.         *)
Fairness == /\ WF_vars(\E t \in Thread : Deliver(t))
            /\ \A t \in Thread : WF_vars(Step(t)) /\ WF_vars(Complete(t))

Spec == Init /\ [][Next]_vars /\ Fairness
-----------------------------------------------------------------------------
IsMap(f, S, T) == DOMAIN f \subseteq S /\ f \in [DOMAIN f -> T]

TypeOK ==
    /\ gen \in 1 .. MaxGen
    /\ web \in [Url -> Document]
    /\ IsMap(inflight, Url, Data)
    /\ pending \in [Request -> Nat]
    /\ pc \in [Thread -> PC]
    /\ page \in [Thread -> Page]
    /\ todo \in [Thread -> SUBSET Href]
    /\ link \in [Thread -> Link]
    /\ writes \in [Thread -> SUBSET Write]
    /\ IsMap(store, Url, Document)
    /\ IsMap(index, Url, Data)
    /\ IsMap(text, Url, Data)
    /\ faults \in 0 .. MaxFaults
    /\ failed \subseteq Url
    /\ asked \in [Url -> 0 .. AskedCap]

(* An entry in inflight makes every thread skip the URL (engine.cpp:258).   *)
(* There is always a reason for it: a request for the URL is outstanding, a *)
(* thread is about to feed one, or this run has stored the page.  So no URL *)
(* is shut out of the crawl by an entry nobody will remove.                 *)
Justified(u) == \/ Pending(u)
                \/ \E t \in Thread : LookingUp(t, u)
                \/ Fresh(u)
InflightJustified == \A u \in DOMAIN inflight : Justified(u)

(* When the crawl has come to rest, every link the loop would follow from a *)
(* text page this run has stored leads to a page this run has stored, or to *)
(* a URL one of whose calls failed: no interleaving of the threads drops a  *)
(* link between inflight, the requests and the page cache.                  *)
CrawlComplete ==
    Quiescent => \A u \in DOMAIN store :
        Fresh(u) /\ store[u].data \in TextData =>
            \A h \in HrefsIn[store[u].data] \cap Followable :
                Fresh(Target[h]) \/ Target[h] \in failed

(* When the first run of the engine has come to rest, what the reverse      *)
(* index and the text namespace say of a page is what the page cache holds  *)
(* of it: the body of a text page, and nothing but membership of the        *)
(* collection for any other page.  Pages known only as the source of a      *)
(* redirect are not indexed.  A page is out of it when a URL that leads to  *)
(* it lost a call: one whose processors threw is asked for again under the  *)
(* URL it was requested by (rindex.cpp:87), and that request may fail.      *)
StoredIsIndexed ==
    Quiescent /\ gen = 1 => \A u \in DOMAIN store :
        Location[u] = u /\ (\A v \in failed : Location[v] # u) =>
            LET data == store[u].data
                content == IF data \in TextData THEN data ELSE NoData
            IN  /\ u \in DOMAIN index /\ index[u] = content
                /\ u \in DOMAIN text /\ text[u] = content

(* An index entry is made from a body of the page it is kept under, though  *)
(* the processors also run when a link is found in the page cache           *)
(* (engine.cpp:278-281) with two documents at hand, and threads overlap.    *)
IndexedOwnContent ==
    \A u \in DOMAIN index : index[u] \in Bodies[u] \cup {NoData}

(* A thread that is ready for its next reply has seen the last one stored   *)
(* (engine.cpp:291-296), under both URLs, or has seen the write fail.       *)
StoredBeforeNext ==
    [][\A t \in Thread : pc[t] # "idle" /\ pc'[t] = "idle" /\ gen' = gen =>
          \A u \in {page[t].url, page[t].loc} : Fresh(u) \/ u \in failed]_vars

(* Threads race between taking a URL out of inflight (engine.cpp:300) and   *)
(* its page becoming visible in the storage, and may download it again, but *)
(* no more than once for each thread and each failed call in a run; once    *)
(* more for a URL that is redirected to a page that links back to it.       *)
BoundedDuplicates ==
    \A u \in Url : asked[u] <= Cardinality(Thread) + faults
                               + (IF Location[u] = u THEN 0 ELSE 1)

(* The crawl of a finite set of pages comes to rest, though every page may  *)
(* link to every other and any page may be downloaded twice.                *)
CrawlTerminates == <>[]Quiescent

(* engine.cpp:269 says of a page found in the cache, stored before this     *)
(* run: "process it again".  When the server answers that it has not        *)
(* changed, what is processed is the document that was found (engine.cpp:   *)
(* 313).  It is not: the entry of engine.cpp:258 is in the way of the       *)
(* insertion in found_in_page_cache, and the page is overwritten with the   *)
(* empty string.                                                            *)
CachedProcessedAgain ==
    \A t \in Thread : pc[t] # "idle" /\ ~page[t].modified =>
        page[t].data \in Bodies[page[t].loc]

(* README:13: "after your data has been stored, it is guaranteed that it    *)
(* will appear in the search indexes".  It is not, when the process ends    *)
(* between the two: the next run asks with If-Modified-Since, and an        *)
(* unmodified page is not indexed (engine.cpp:214).                         *)
StoredAppears ==
    Quiescent => \A u \in DOMAIN store \ failed :
        Location[u] = u => u \in DOMAIN index
=============================================================================
