# wookie: models, checks and proofs

wookie is a search engine on top of elliptics, a distributed key-value store. It
crawls pages or takes documents over HTTP, stores them, indexes their words, runs
documents through a pipeline of queues, and answers queries. This directory holds
TLA+ modules of its components, the TLC runs that check them on small instances
and TLAPS proofs about them. Line numbers are those of the repository's files.

## The system

| part | source | state | operations |
|---|---|---|---|
| crawl engine | `lib/engine.cpp` | `inflight` (URL to document), `generation_time`, filters, processors | `download`, `found_in_page_cache`, `process_url`, `process_reply` |
| downloaders | `include/wookie/dmanager.hpp` | one event loop and thread each, requests fed and unanswered | `feed`, `enqueue`, shutdown |
| storage | `lib/storage.cpp`, `include/wookie/document.hpp` | documents in elliptics, secondary indexes | `write_document`, `read_data`, `find` |
| rindex processor | `test/rindex.cpp`, `lib/basic_elliptics_splitter.cpp` | index and namespace "text" | `process_text`, also as fallback |
| pipeline | `include/wookie/application.hpp`, `processors/*` | a queue per stage, elliptics `@push` and `@ack` | `push`, `finish`, `update` |
| recovery | `processors/recovery.cpp` | per request: connections, documents left, response | `on_request`, `process_next`, `finish_processor` |
| HTTP server | `httpserver/server.cpp` | stored documents and indexes | upload, get, search |
| search | `include/wookie/operators.hpp`, `split.hpp`, `index_data.hpp` | a query's quotes, tokens, results | `find`, `on_result_ready`, `wait` |
| similarity loaders | `test/similarity/*` | reader threads, pending requests, condition variables, word counts | read, parse, normalise, save |
| word counts | `include/wookie/tfidf.hpp`, `parser.hpp` | documents per word | `update_tfidf`, `merge` |
| algorithms | `score.hpp`, `lexical_cast.hpp`, `parser.hpp`, `iconv.hpp` | none | pure functions |

The engine feeds requests to randomly chosen downloaders. A downloader's thread
calls `process_url` for each reply, one at a time, and that call stores the page,
runs the processors, extracts links and feeds requests for them. Threads share
`inflight` (under a mutex) and the storage, which they call with and without
waiting. Pipeline stages talk only through elliptics queues and storage; recovery
reads what a stage has not acknowledged and pushes it again. The HTTP server and
search use the same storage and indexes.

What is hard, by part (PROJECT.json lists each hazard at its line):

- crawl: claims of the same URL, the window between leaving `inflight` and being
  visible in the storage, lost writes, conditional requests across restarts,
  circular links. Correct means: no link lost, duplicates bounded, the crawl ends,
  the index says what the storage says.
- recovery: a vector changed by the loop over it, chains of callbacks that stop.
  Correct means: each document pushed at most once and accounted for, a closed
  response complete, the user told of the end.
- pipeline: calls that fail after they were carried out, acknowledgements that race
  with redelivery, workers that die in between. Correct means: nothing that was taken
  is lost, copies are bounded, the queues run empty.
- HTTP server: an upload is two calls, which may mix with another upload's or stop
  half-way; a document's time is taken before it is written and compared in whole
  seconds. Correct means: storage and indexes agree, a client told 304 has what is
  stored, what is stored is found.
- search: quotes cut out of a text at places that have moved, quotes matched by
  position, an answer that races with the caller's wait. Correct means: what is
  found has the quotes, and the caller is woken.
- loader: callbacks that outrun the counter they lower, and notifications sent
  without the lock. Correct means: no document is left behind, the counts are right,
  the loader ends.

## Modules

`Crawler.tla` models the crawl. A thread is a program counter over `process_url`
and `process_reply`; a step is the code between two points at which the lock, the
storage or the network lets another thread act.

| in the module | in the code |
|---|---|
| `inflight`, `InflightInsert`, `InflightErase` | the map and `inflight_insert` / `inflight_erase`; insert keeps an entry that is there |
| `pending`, `Feed` | requests handed to a downloader; a bag, answered in any order by any thread that is free. The code picks the downloader when it feeds; the pick is invisible until the reply is handled |
| `Take`, `FetchFailed`, `Fetched`, `NotModified`, `Reply` | `process_url`, and `process_reply` to where the processors are called |
| `SetIndexes`, `WriteText`, `ProcessorThrows` | `rindex_processor`, as processor and as fallback |
| `SkipLink`, `ClaimLink`, `CacheMiss`, `CacheHit`, `FoundInPageCache` | the loop over links |
| `WriteDone`, `WriteFailed`, `Finish` | the asynchronous `store_document` calls and the wait for them at the end |
| `Restart` | the process ends anywhere and is started again on the same seed |
| `faults`, `failed`, `asked` | bound and bookkeeping for the properties, no part of the code |

Data is abstract: a body is a value with a set of links and a verdict of the text
filter; libtidy, libmagic and the URL filters are the constants `HrefsIn`,
`TextData` and `Followable`. Time is the number of the engine's run, because the
code compares times only with `generation_time` and passes them on as
If-Modified-Since; pages change between runs. HTTP status codes other than 304 are
one case, as in the code, which stores error pages like any others. The order of
links within a page is left open (the code sorts them). A crash loses writes that
have not completed; those that had are `WriteDone` before the crash.

`MCCrawler.tla` gives small webs. `CrawlerProofs.tla` and `CompletenessProofs.tla` hold the
proofs.

`Recovery.tla` models one request to the recovery application. Callbacks of the
storage and the processor are actions; the loop that starts the connections is
split into turns to show what its iterator does when the vector shrinks, and
nothing else happens while it runs. Reading past the end of the vector is
undefined; the model gives the outcome a connection that is not in the vector: the
null pointer that `vector::erase` leaves in a moved-from slot, or a pointer to an
erased connection. Both behave alike here. `MCRecovery.tla` instantiates it;
`RecoveryProofs.tla` holds the proofs.

In both modules a definition marked "mutated" is not part of the specification. It
is a variant of the definition after it with a plausible slip; PROJECT.json pairs
each checked property with a variant that violates it.

`Pipeline.tla` models the stages behind one another. `Delivery.tla` is what they
promise together, without stages and queues; `Pipeline` implements it under the
mapping `Promise`: a document is promised when its update was answered 200 and
processed when the last stage has finished it. `MCPipeline.tla` instantiates it and
`PipelineProofs.tla` holds the proofs.

| in the module | in the code |
|---|---|
| `queue`, `Deliver` | the `<stage>-queue` applications, which are not in this repository. Assumed: `@push` keeps a message until `@ack` with its context, and an unacknowledged message is handed out again |
| `handler` | a request being handled: `process_handler` or `update_handler` and the call it waits for |
| `Start`, `FirstCall` | `on_chunk` and `on_request` of a stage, up to its first call |
| `PushArrives`, `PushSucceeded`, `PushFailed` | `push_internal`, and both `push` overloads with success and error |
| `AckArrives`, `AckFailed` | `finish`: the reply goes out before either |
| `Update`, `UpdateRefused`, `Enqueue` | how documents come in: `update` over HTTP, or the crawler's `process_text` |
| `Die` | a worker dies with what it handles, or `on_chunk` throws |

A document is a request's: posting one URL twice is two documents. What a stage adds
to the metadata, and which stages there are, is not told apart: stages are numbered,
and the two in the middle behave alike. A call of a worker that has died may arrive
later in reality; the model lets it arrive before the death, and nothing in the
repository can see the difference.

`Query.tla` has no state: it says what a query means to this code, with recursive
functions over places and positions. `Find.tla` is one query with the thread that waits
for it, and `Server.tla` searches with the same operators. What `Query` computes is
proved in `QueryProofs.tla`, what a find does with it in `FindProofs.tla`. A word is one symbol and spaces are left out: what the code does to a text
depends on the places of the quotation marks only, and `boost::locale` finds the words
whatever their length. Places are therefore counted in symbols instead of bytes, for
the text and for its quotes alike.

| in the module | in the code |
|---|---|
| `Firsts`, `Tokens` | `split::feed`: each word once, in the order they come |
| `IndexNames` | `prepare_indexes`: one index per word and the base index |
| `Quotes`, `Cut`, `Left`, `OutOfRange` | `operators_found` and `prepare`: the inside of each quote is taken out at its place in the whole text, and `string::replace` throws when that is behind what is left |
| `Hits`, `Places`, `Ordered` | the map of positions to tokens in `on_result_ready`, which keeps them in order |
| `Advance`, `Turn`, `Turns`, `QuoteMatches`, `Matches` | `on_result_ready`: one pass over these positions, for each quote; a turn of the loop, and the state after each |
| `Answers`, `HasQuotes` | the reference, not code: each quote word for word, each other word somewhere |
| `Ask`, `Check`, `Complete` | the constructor of `find_result`, its wait and `on_wait_completion` |
| `ResultThrows` | the constructor of `index_data` throws out of the callback: the base index holds packed documents, not positions |

`Server.tla` models `httpserver/server.cpp`. Handlers share nothing but what is stored.

| in the module | in the code |
|---|---|
| `Receive` | a handler is made, and in it the document with its time (document.hpp:41) |
| `Refuse`, `Checked`, `WriteFinished`, `WriteFailed` | `checked` and `on_write_finished_update_index`; a call that fails may have been carried out |
| `IndexUpdated`, `IndexFailed` | `on_index_update_finished` |
| `stored`, `copy`, `Get`, `NotModified` | the storage, what a client got of a name with its Last-Modified, `on_get` |
| `Search`, `Searched` | `on_search`; the client is never answered |
| `latest`, `written`, `overlapped`, `rushed`, `failed`, `misread`, `misfound` | bookkeeping for the properties, no part of the code |

`process` passes the verdict `ok` to every handler (server.cpp:265), so that the branch
for another verdict is never taken and is left out. A get of a document that is not
there, or that fails, changes nothing and has no action. `ServerProofs.tla` holds the
proofs.

`Tfidf.tla` counts in how many documents a word comes. `Loader.tla` is
`elliptics_parse_docs` without a normaliser and uses it. A step of a reader ends where
a callback can act: after `write_data`, after `pending++`, after each test of `pending`,
and in the wait. A callback's decrement, test and notification are three steps.
`Wake` is a wake-up by a notification or a spurious one. The callbacks do not look at
errors, so that a failed call is no case of its own. `LoaderProofs.tla` holds the
proofs. `MCFind.tla`, `MCServer.tla`
and `MCLoader.tla` give the instances.

## Runs

| run | instance | checks |
|---|---|---|
| `crawl` | 2 threads, 4 URLs (one a redirect, one an image), one failed call, one run of the engine | `TypeOK`, `InflightJustified`, `CrawlComplete`, `StoredIsIndexed`, `BoundedDuplicates`, `StoredBeforeNext` |
| `crawl_restart` | 2 threads, 3 URLs, a restart at any point, a page that may change | `InflightJustified`, `CrawlComplete`, `IndexedOwnContent` |
| `crawl_liveness` | 2 threads, two pages that link to each other, a restart at any point, one failed call before or after it | `InflightJustified`, `CrawlComplete`, `CrawlTerminates` |
| `crawl_unmodified` | as `crawl_restart` | `CachedProcessedAgain` is violated |
| `crawl_guarantee` | as `crawl_restart` | `StoredAppears` is violated |
| `recovery` | 1 to 4 connections, 0 to 3 documents, up to 2 unreadable | `TypeOK`, `BytesAddUp`, `ClosedIsComplete`, `AllTried`, `ClosedWhenBusy` |
| `recovery_told` | the same, nothing unreadable | `AlwaysTold` is violated |
| `pipeline` | 2 documents, 3 stages, places for 2 requests, 2 faults | `TypeOK`, `NeverLost`, `BoundedCopies`, `DeliversAll` (refinement of `Delivery` with its liveness), `Drains` |
| `find` | every query of up to 6 symbols over 2 words and the mark, 3 that name the base index; every document of up to 3 words | `TypeOK`, `FoundExactly`, `QuotesHold`, `Answered` |
| `find_exact` | the same | `ExactMatch` is violated |
| `server` | 2 uploads of one name, 3 contents, 3 queries, 3 seconds, one failed call | `TypeOK`, `IndexAgrees`, `IndexedWasStored`, `NotModifiedHonest`, `SearchRight`, `StoredAppears` |
| `loader` | 2 readers, 7 documents, at most 2 outstanding before a reader sleeps | `TypeOK`, `LoadedWhenSaved`, `CountsDocuments`, `Throttled`, `Ends` |

What they show:

- No interleaving of two threads drops a link, also when any one call fails
  (`CrawlComplete`), and no entry in `inflight` is without a reason
  (`InflightJustified`).
- A URL is asked for at most once per thread and failed call in a run
  (`BoundedDuplicates`); the bound is reached. A redirected URL whose page links
  back to it can be asked for once more, because its own thread may claim it before
  it is stored.
- When the crawl is at rest in a first run, index and text namespace agree with the
  page cache for every page that no failed URL leads to (`StoredIsIndexed`). With a
  restart they need not, see below.
- The crawl ends (`CrawlTerminates`), because every page it stores is fresh from
  then on.
- In recovery the response is closed only when complete, whatever fails, and is
  closed when there are at most as many connections as documents and one.
- In the pipeline a document that was answered 200 or acknowledged is always in a
  later queue or processed (`NeverLost`), and is processed in the end
  (`DeliversAll`); a message never stays for ever (`Drains`). It may be processed
  several times: each fault at most doubles its copies (`BoundedCopies`), and two
  faults reach four.
- A query with at most one quote, in which no word comes twice, finds the documents
  that have the quote and the other words, and no others (`FoundExactly`). With more
  quotes the cuts may drop words outside of them or throw, but what is found has each
  quote (`QuotesHold`). The caller is always woken (`Answered`), except when the query
  names the base index and something is found: then unpacking throws in the callback,
  `m_ready` stays false and the thread waits for ever.
- On the HTTP server, uploads of one name that come one after the other without a
  failure leave the indexes of what is stored (`IndexAgrees`), it can be found
  (`SearchRight`, for queries as above) and stays so (`StoredAppears`: README:13). Two
  that overlap are both answered 200, and may leave the indexes of the one with the
  document of the other for ever; an empty document without base index leaves the
  indexes of the one it replaces. Whatever happens, no words are indexed that were not
  stored before (`IndexedWasStored`).
- 304 is honest when the uploads did not overlap and came in different seconds
  (`NotModifiedHonest`). Without either condition TLC finds a client that keeps an old
  copy: two uploads in one second have the same time, and of two that overlap the
  older one may be written last.
- The loader joins no reader with calls outstanding, though `pending` may be -1 in
  between (`LoadedWhenSaved`), and its merged counts are those of all documents
  (`CountsDocuments`). A reader exceeds the limit by one document, and one more for
  each early wake-up (`Throttled`). It ends, unless a notification falls between a
  reader's test and its sleep (`Ends`); without that exception TLC shows the reader
  asleep for ever.

Findings, each a run that TLC ends with a counterexample:

- `crawl_unmodified`: `found_in_page_cache` (engine.cpp:145) inserts the cached
  document under a key that the claim (engine.cpp:258) already holds, so nothing is
  inserted. When the server answers 304, the empty document of the claim is
  processed: the stored page is overwritten with the empty string and its links are
  not followed. engine.cpp:269 says the document is to be processed again.
- `crawl_guarantee`: a page is stored before it is indexed. After a crash in
  between, the next run asks for it conditionally, and a 304 is not given to the
  processors (engine.cpp:214). README:13 guarantees that stored data appears in the
  indexes. The failure does not need the first one: even with the right data the
  processors are not called.
- `recovery_told`: the loop at recovery.cpp:86 skips a connection each time
  `finish_processor` erases one. With two connections more than documents, one
  stays in the vector and the response is never closed, against recovery.cpp:142.
  (A document that cannot be read has the same effect, recovery.cpp:130: its
  connection stays in the vector.)
- `find_exact`: `split::feed` gives each word of a quote once (split.hpp:44), so the
  second occurrence is never looked for. The query "a a", in quotes, finds a page whose
  only word is a, though test/rindex.cpp:146 promises exact matches.

### Bounds

Two threads and a page reached by two ways are enough for every race over one URL:
claim against claim, claim against delivery, two deliveries of one URL. The
redirect makes one reply own two keys. Three threads have been run without faults
with the same result. `MaxFaults` counts failed calls in a whole behaviour; one
failure at every place shows what each error path leaves behind. The failed call and
the restart are combined on two pages; on the three of `crawl_restart` the same
properties hold with a failed call too, over 7.4 million states, which is too long to
repeat on every change. `MaxGen = 2` gives
documents of an older run, which is all that the code distinguishes. `AskedCap`
lies above the bound `BoundedDuplicates` states. In recovery, four connections and
up to three documents give each relation of the two numbers that the loop
distinguishes.

In the pipeline, two faults are enough for a fault that hits the copies another one
made. Three stages are a first, a middle and a last one; with four, the safety
properties hold over 8.8 million states. Two documents compete for two places, so
that a queue may have to wait. `MaxCopies` is larger than what two faults can make
of two documents in a queue, and never stops a push.

In `find`, six symbols are two quotes with a word each and one outside, or one quote of
two words with others around it, and long enough for a cut to be out of range. Three
words let a match begin, break and begin again. Documents do not depend on each
other, so one is enough. In `server`, two uploads give every pair of an overlap, a
failure and an order of times; with three (and interchangeable) uploads the invariants
hold over 3.0 million states. The contents are nothing, a word, and two words of which
one is the first's. In `loader`, `MaxPending` is 2 instead of 100, the least for which
a notification is ever sent (`PendingAssumption`); four documents of one reader exceed
it, and the second reader has one document and two files that are not text.

`CHECK_DEADLOCK FALSE` is set everywhere: a finished crawl, request, query or loader
stops.

### Fairness

In `Crawler`, an outstanding request is answered in the end by some idle thread
(the event loops run for ever and fetches time out), each thread goes on with the
page it handles, and each storage call completes (the session has a time-out,
storage.cpp:24). Failures and restarts are not fair; they are bounded. In
`Recovery`, a call to a service completes with a result or an error. In `Pipeline`,
a call completes, and a queue hands out what it holds while there is a free place;
faults are bounded and never fair. A queue that gives a message up would break
`DeliversAll`. In `Find`, the caller goes on and the storage answers or times out. In
`Server`, elliptics answers each upload's calls; that clients ask, search or tick is not
assumed. In `Loader`, threads run and calls are answered; a spurious wake-up can never
be counted on.

## Proofs

`CrawlerProofs.tla` proves for all values of the constants, any number of threads,
failures and restarts:

- `TypeCorrect`: `Spec => []TypeOK`. Helper lemmas type each part of an action
  (`FeedType`, `TakeType`, `FaultType`, `ReplyType`), then there is one step per
  action.
- `InflightAlwaysJustified`: `Spec => []InflightJustified`. The inductive invariant
  adds to it the types and `StoredInPast`: a document in the storage is not newer
  than the running engine. `CacheHit` needs that: the code leaves an entry in
  `inflight` when the document is not older than the run, and only with
  `StoredInPast` does it follow that the document is of this run. `JustifiedFrame`
  says what keeps a reason; each action then shows which reason it gives in
  exchange for the one it takes.
- `AlwaysStoredBeforeNext`: `Spec => StoredBeforeNext`, an action property. The
  invariant is `WritesTracked`: while a thread handles a page, each of its two keys
  is stored by this run, or being written, or its write has failed. `IdleIsStored`
  shows that a thread goes idle only by `Finish`, when nothing is being written.

`CompletenessProofs.tla` goes on, with the same generality:

- `IndexAlwaysOwnContent`: `Spec => []IndexedOwnContent`. All that a run knows of a page
  from earlier runs is one document, wherever it is kept: in the page cache until the
  first write, in the entry of `inflight`, with a thread that found it, and by its time in
  the conditional requests (`OldKept`). If the page has not changed since that time, the
  document is what the server serves now or empty (`Honest`), so a 304 is answered with a
  body of the page (`PagesHonest`) or with nothing.
- `CrawlAlwaysComplete`: `Spec => []CrawlComplete`. For each link of a text page that is
  fresh, or that a thread has in hand (`Followed`), a thread with that text has still to
  come to it, or its target is handled: there is a reason to skip it (`Justified`), a
  thread has its page in hand, or a call for it failed.
- `StoredAlwaysIndexed`: `Spec => []StoredIsIndexed`. In the first run nothing is known
  from before (`FirstRun`), so every page is processed: it is in both namespaces, a thread
  is at it, or a request that leads to it is outstanding (`UnderWay`), unless a URL that
  leads to it has failed (`Covered`). The attempt to
  prove it showed that the statement was too strong as it stood: it exempted a page only
  when the page itself had failed. With two failures (a processor throws for a page that
  was reached by a redirect, the requesting URL is asked for again, and that request
  fails) a stored page stays unindexed although its own URL never failed. The run has
  one failure and did not show it. The property now exempts pages a failed URL leads to.
- `DuplicatesAlwaysBounded`: `Spec => []BoundedDuplicates`. The invariant is an account:
  until the page is stored by this run, every request and every claim of its URL is paid
  for by a thread that is storing it, by the one entry in `inflight`, or by a failed call
  (`Paid`); after that, only threads that found its old document before can still ask
  (`AskedBounded`).

These proofs assume the named assumptions of `Crawler`: the seed and all redirects and
links lead into `Url`, bodies into `Data`, the empty body has no links and is not text,
`Location` is where redirects end (the last request of a chain is not redirected), and
there are finitely many threads, and one at least (dmanager.hpp:100 divides by their
number). TLC evaluates these on every run.

`PipelineProofs.tla` proves, for any number of stages, documents, places and faults:

- `TypeCorrect`: `Spec => []TypeOK`.
- `TakenIsNeverLost`: `Spec => []NeverLost`. `NeverLost` is not inductive: a push must
  be safe from the moment it arrives, also while its answer is on the way (`Safe`),
  and an update is only handled by the first stage (`Placed`). The core is
  `BehindStays`: what is behind a stage stays behind it. Only an acknowledgement takes
  a message away (`BehindAck`), and the acknowledging handler itself guarantees that
  the document is further on.
- `StagesImplementDelivery`: the pipeline's initial states are those of `Delivery` and
  each step is one of its steps or none. It needs `Known` (only documents that were
  handed in are anywhere) and `OneUpdate` (an update is answered once, so a promise is
  never taken back).

- `CopiesAlwaysBounded`: `Spec => []BoundedCopies`. The invariant (`Counts`) counts what
  may still become a processed copy: messages nobody handles, requests that have to push
  theirs on, and what is processed are together at most two to the number of faults
  (`Doubled`). A fault brings back messages whose document was pushed on already; each of
  these is paid for by a message further on or a processed copy (`PaidFor`). Powers of two are counted as subsets (`PowerDoubles`).

They assume that there are at least two stages and that the bounds are numbers; that
there are finitely many copies is part of the invariant, not an assumption.

`ServerProofs.tla` proves, for any names, uploads, contents, times and faults:

- `TypeCorrect`: `Spec => []TypeOK`.
- `IndexedAlwaysStored`: `Spec => []IndexedWasStored`, with `IndexingWasStored`: what an
  upload is about to index has been stored, for its first call was answered.
- `IndexAlwaysAgrees`: `Spec => []IndexAgrees`. The invariant adds `OneInHand` (of a name
  whose uploads never overlapped, at most one is at work) and `IndexesStored` (it is
  about to index what is stored). `Moves` says what every step of a handler leaves
  alone, so that each action only shows what it adds.
- `NotModifiedAlwaysHonest`: `Spec => []NotModifiedHonest`. `TimesAgree` orders the times
  of a name: what a client has, what is stored, what is at work, the newest upload, the
  clock. A second upload in the same second is what breaks the strict order between
  what is stored and what is at work (`NewerInHand`).

- `SearchAlwaysRight`: `Spec => []SearchRight`. A search under way is for something
  (`SearchAsks`); where the indexes agree with what is stored, it finds what
  `MatchesRight` says.

They assume that contents are sequences of words, that texts are sequences of words and
marks, and that the bounds are numbers.

`QueryProofs.tla` proves what the operators of `Query` compute, for texts and documents of
any length and any words:

- `OrderedRight`, `TokensWords`, `TokensPhrase`, `QuotesRight`, `CutRight`: the list of
  places in a set has each once and in order; the tokens of a text are its words, and are
  the text itself when its words differ; a quote stands between two marks with words in
  between; cutting it out leaves the words outside.
- `MatchIsPhrase`: a quote that matches is in the document word for word. The invariant of
  the loop is `Sound`: the words of the quote matched so far stand in the document right
  up to the last position seen.
- `PhraseIsMatched`: a quote of different words that is in the document matches. Where it
  begins, the loop begins it anew, whatever it was in the middle of (`TurnBegins`: only
  because the words differ), its positions are neighbours in the list of hits
  (`Neighbours`), so that the loop goes on to its end (`TurnGoesOn`), and it stays matched
  (`OkStays`).
- `MatchesRight`: a query with one quote at most, and no word twice in it, is matched by the
  documents that answer it, and by no others, unless it asks for nothing or names the base
  index.

Induction over places and positions is done with `Upwards`, induction as a fact about sets
of numbers, which follows from the well-foundedness of the order on numbers; so is the
existence of the recursive functions (`OrderedDefined`, `TurnsDefined`). A `CASE` of
`Advance` had overlapping arms, which TLC takes in their order and the logic does not; it
is a chain of conditions now, as in the code.

`FindProofs.tla` proves, for any texts, documents and contents:

- `TypeCorrect`: `Spec => []TypeOK`.
- `FoundAlwaysExactly` and `QuotesAlwaysHold`: `Spec => []FoundExactly`, `Spec =>
  []QuotesHold`. The invariant ties the answer, `m_ready`, `m_error` and the results
  together (`Unanswered`, `Concluded`, `FoundMatch`), and the caller to what it has seen
  (`ReturnedReady`).

They assume that texts are sequences of words and marks, contents sequences of words, and
that the mark is no word.

`LoaderProofs.tla` proves, for any readers, files and limit:

- `TypeCorrect`, `AlwaysLoadedWhenSaved`, `AlwaysCountsDocuments`: the types,
  `LoadedWhenSaved` and `CountsDocuments`. `PendingCounts`: the counter is the number of calls
  outstanding, and one too low while a write that has begun is not counted, which is why
  it may be -1. A reader ends with the counter at zero (`EndsDrained`) and is joined when
  it has ended (`JoinsEnded`). `Counted`: a word's count is the number of documents with it
  that the reader has sent, in the total those of the readers joined.
- `AlwaysThrottled`: `Throttled`. `HasRoom`: a reader about to send has room for one more, but for the
  times it was woken early.

They assume that there is a reader, that the limit is two at least, and that texts are
sequences of words.

`RecoveryProofs.tla` proves, for any documents, connections and unreadable metadata:

- `TypeCorrect`: `Spec => []TypeOK`. `position` stays in its range only because the loop
  never passes `end` (`Looping`).
- `BytesAlwaysAddUp`: `Spec => []BytesAddUp`. `Places` says that a document is in one
  place, `Total` adds the places up. A connection takes a document only when it waits
  for none: in the loop because the turns before have not come to it (`Looping`; the
  vector is whole as long as there are documents), later because it was just answered.
- `ClosedAlwaysComplete`: `Spec => []ClosedIsComplete`. The response is closed when the
  vector is empty. `Staying` says that every waiting connection is in it, and that the
  connection of an unreadable document never leaves it, so an empty vector means that
  every document was answered (`ClosedEmpty`).

`RemoveFirstIs` and `RemoveAtEffect` say what find and erase leave of the vector, whose
connections differ (`Distinct`). They assume that `Document` is finite and that at least
one connection may be asked for.

Every invariant and every action property of the passing runs is proved. Only
model-checked are the liveness properties, which are out of the prover's reach
(`CrawlTerminates`, `AllTried`, `ClosedWhenBusy`, `DeliversAll` as far as it says that
something happens, `Drains`, `Answered`, `StoredAppears`, `Ends`), and the four findings.

## Not modelled

The ten-connection limit and the start and stop of the event loops, which libev
decides; option parsing; libtidy, iconv, libmagic and boost::locale; the encodings
(data); frequencies and the ranking of tf-idf (floating-point formulas, and a comparator
that `std::sort` may do anything with); string conversions; test tools that only read
and print, `elliptics_load_docs` among them. The loader with a normaliser: its requests
run in the swarm library, are not counted in `pending` and share the reader's parser
without a lock. Data races inside shared third-party objects (the libmagic handle of the
text filter) are listed as hazards without a property.

## Plan

1. `Frontier`: what a crawl promises (every linked page is visited, a visited one is
   not lost), with `Crawler` shown to implement it for one run of the engine; the
   invariants of `CompletenessProofs` are what that proof needs.
2. `Downloader`: construction, the wake-up and the join.
3. What a query with several quotes drops: which words outside of the quotes are asked
   for after the cuts, as a lemma about `Left`.
