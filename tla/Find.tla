-------------------------------- MODULE Find --------------------------------
(***************************************************************************)
(* One query: a caller constructs a find_result and waits in its           *)
(* constructor (include/wookie/operators.hpp) until the answer of the      *)
(* storage has been processed by a thread of elliptics.  Both the HTTP     *)
(* server and rindex --find search this way.                               *)
(***************************************************************************)
EXTENDS Query

CONSTANTS
    Document,    \* ids of documents
    Texts,       \* bound: texts of queries
    Contents     \* bound: contents of documents

ASSUME TextAssumption ==
    Texts \subseteq Seq(Word \cup {Mark}) /\ Contents \subseteq Seq(Word)

VARIABLES
    text,        \* of the query
    indexed,     \* document -> its entry in the indexes
    caller,      \* where the constructor is
    answer,      \* what the storage is doing: "none", "pending", "handled"
    ready,       \* m_ready
    error,       \* m_error
    found        \* m_result_ids

vars == <<text, indexed, caller, answer, ready, error, found>>

Init ==
    /\ text \in Texts
    /\ indexed \in [Document -> [text : Contents, base : {TRUE}]]
    /\ caller = "constructing" /\ answer = "none"
    /\ ready = FALSE /\ error = FALSE /\ found = {}

-----------------------------------------------------------------------------
(* find: prepares the request, which may throw, and starts the search for   *)
(* documents in all indexes.                                                *)
Ask ==
    /\ caller = "constructing"
    /\ IF OutOfRange(text)
       THEN caller' = "thrown" /\ UNCHANGED answer
       ELSE caller' = "checking" /\ answer' = "pending"
    /\ UNCHANGED <<text, indexed, ready, error, found>>

(* The caller holds the lock and looks at m_ready; if it is not set, the    *)
(* wait lets the lock go and sleeps.                                        *)
Check ==
    /\ caller = "checking"
    /\ caller' = IF ~ready THEN "asleep"
                 ELSE IF error THEN "thrown" ELSE "returned"
    /\ UNCHANGED <<text, indexed, answer, ready, error, found>>

\* mutated: nobody is notified
CompleteSilently(failed) ==
    /\ answer' = "handled"
    /\ ready' = TRUE
    /\ error' = failed
    /\ UNCHANGED <<text, indexed, caller>>
\* mutated: a search that failed is not ready
CompleteUnready(failed) ==
    /\ answer' = "handled"
    /\ ready' = ~failed
    /\ error' = failed
    /\ caller' = IF caller = "asleep" THEN "checking" ELSE caller
    /\ UNCHANGED <<text, indexed>>
(* on_wait_completion, under the lock.                                      *)
Complete(failed) ==
    /\ answer' = "handled"
    /\ ready' = TRUE
    /\ error' = failed
    /\ caller' = IF caller = "asleep" THEN "checking" ELSE caller
    /\ UNCHANGED <<text, indexed>>

InAllIndexes == {d \in Document : AskedTokens(text) \subseteq IndexNames(indexed[d])}

(* on_result_ready with an error, or with nothing.  A search in no index    *)
(* at all has no result.                                                    *)
NothingFound(failed) ==
    /\ answer = "pending"
    /\ failed \/ AskedTokens(text) = {} \/ InAllIndexes = {}
    /\ Complete(failed)
    /\ UNCHANGED found

ResultReady ==
    /\ answer = "pending"
    /\ AskedTokens(text) # {} /\ InAllIndexes # {}
    /\ Unpackable(text)
    /\ found' = {d \in InAllIndexes : Matches(text, indexed[d])}
    /\ Complete(FALSE)

(* Unpacking throws out of the callback, and nobody completes.              *)
ResultThrows ==
    /\ answer = "pending"
    /\ AskedTokens(text) # {} /\ InAllIndexes # {}
    /\ ~Unpackable(text)
    /\ answer' = "handled"
    /\ UNCHANGED <<text, indexed, caller, ready, error, found>>

Caller  == Ask \/ Check
Storage == (\E failed \in BOOLEAN : NothingFound(failed)) \/ ResultReady \/ ResultThrows
Next    == Caller \/ Storage

(* The caller goes on, and the storage answers or times out.                *)
Fairness == WF_vars(Caller) /\ WF_vars(Storage)

Spec == Init /\ [][Next]_vars /\ Fairness

-----------------------------------------------------------------------------
TypeOK ==
    /\ text \in Texts
    /\ indexed \in [Document -> [text : Contents, base : BOOLEAN]]
    /\ caller \in {"constructing", "checking", "asleep", "returned", "thrown"}
    /\ answer \in {"none", "pending", "handled"}
    /\ ready \in BOOLEAN /\ error \in BOOLEAN /\ (error => ready)
    /\ found \subseteq Document

(* With one quote at most, and no word twice in it, a search that returns   *)
(* has found the documents the query asks for, and no others.               *)
FoundExactly ==
    caller = "returned" /\ Plain(text)
        => AskedTokens(text) = {} \/ found = {d \in Document : Answers(text, indexed[d].text)}

(* With any number of quotes, in which the cuts go astray, a document that  *)
(* is found has every quote word for word, as long as no quote has a word   *)
(* twice.                                                                   *)
QuotesHold ==
    QuotesDistinct(text) => \A d \in found : HasQuotes(text, indexed[d].text)

(* The caller is never left waiting, whatever the order of the answer and   *)
(* of its look at m_ready, unless the query names the base index.           *)
Answered == Unpackable(text) ~> caller \in {"returned", "thrown"}

(* test/rindex.cpp:146 says of the search "Find pages containing all tokens *)
(* (space separated, supports quotes for exact match)".  A word that comes  *)
(* twice in a quote is matched once: a page is found that does not have the *)
(* quote.                                                                   *)
ExactMatch == \A d \in found : HasQuotes(text, indexed[d].text)
=============================================================================
