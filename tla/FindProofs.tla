----------------------------- MODULE FindProofs -----------------------------
(***************************************************************************)
(* Proofs about Find for any texts of queries, any documents and any       *)
(* contents: types, that a search with one quote at most finds exactly     *)
(* what it asks for, and that what is found has every quote.  What a query *)
(* means is proved in QueryProofs; here it is tied to the answer, the flags*)
(* and the caller that waits for them.                                     *)
(***************************************************************************)
EXTENDS Find, QueryProofs

LEMMA InitType == ASSUME Init PROVE TypeOK
  BY DEF Init, TypeOK

LEMMA NextType == ASSUME TypeOK, Next PROVE TypeOK'
  <1>1. CASE Ask
    BY <1>1 DEF Ask, TypeOK
  <1>2. CASE Check
    BY <1>2 DEF Check, TypeOK
  <1>3. ASSUME NEW failed \in BOOLEAN, NothingFound(failed) PROVE TypeOK'
    BY <1>3 DEF NothingFound, Complete, TypeOK
  <1>4. CASE ResultReady
    BY <1>4 DEF ResultReady, Complete, InAllIndexes, TypeOK
  <1>5. CASE ResultThrows
    BY <1>5 DEF ResultThrows, TypeOK
  <1> QED  BY <1>1, <1>2, <1>3, <1>4, <1>5 DEF Next, Caller, Storage

(* Every reachable state of a find is well typed.                           *)
THEOREM TypeCorrect == Spec => []TypeOK
  <1>1. Init => TypeOK
    BY InitType
  <1>2. TypeOK /\ [Next]_vars => TypeOK'
    <2>1. ASSUME TypeOK, UNCHANGED vars PROVE TypeOK'
      BY <2>1 DEF TypeOK, vars
    <2> QED  BY <2>1, NextType
  <1> QED  BY <1>1, <1>2, PTL DEF Spec

-----------------------------------------------------------------------------
Matching == {d \in InAllIndexes : Matches(text, indexed[d])}

(* What m_ready, m_error and m_result_ids say together: nothing is found    *)
(* before the answer, and an answer without error has found what matches.   *)
Unanswered == answer # "handled" => ~ready /\ found = {}
Concluded == ready /\ ~error =>
    \/ AskedTokens(text) = {}
    \/ InAllIndexes = {} /\ found = {}
    \/ AskedTokens(text) # {} /\ Unpackable(text) /\ found = Matching
FoundMatch == found \subseteq Matching

(* The constructor returns after it has seen m_ready without m_error.       *)
ReturnedReady == caller = "returned" => ready /\ ~error
HandledOnce == caller = "constructing" => answer = "none"

FInv == Unanswered /\ Concluded /\ FoundMatch /\ ReturnedReady /\ HandledOnce

LEMMA InitFinds == ASSUME Init PROVE FInv
  BY DEF Init, FInv, Unanswered, Concluded, FoundMatch, ReturnedReady, HandledOnce

LEMMA NextFinds == ASSUME TypeOK, FInv, Next PROVE FInv'
  <1> DEFINE Same == /\ AskedTokens(text)' = AskedTokens(text)
                     /\ Unpackable(text)' = Unpackable(text)
                     /\ InAllIndexes' = InAllIndexes /\ Matching' = Matching
  <1>0. ASSUME UNCHANGED <<text, indexed>> PROVE Same
    BY <1>0 DEF InAllIndexes, Matching
  <1>1. CASE Ask
    <2>1. UNCHANGED <<text, indexed>>
      BY <1>1 DEF Ask
    <2>2. Same
      BY <1>0, <2>1
    <2> HIDE DEF Same
    <2>3. /\ caller' \in {"thrown", "checking"} /\ ~ready /\ found = {}
          /\ answer' \in {"none", "pending"} /\ UNCHANGED <<ready, error, found>>
      BY <1>1 DEF Ask, FInv, Unanswered, HandledOnce
    <2> QED
      BY <2>3 DEF FInv, Unanswered, Concluded, FoundMatch, ReturnedReady, HandledOnce
  <1>2. CASE Check
    <2>1. UNCHANGED <<text, indexed>>
      BY <1>2 DEF Check
    <2>2. Same
      BY <1>0, <2>1
    <2>3. /\ UNCHANGED <<answer, ready, error, found>> /\ caller' # "constructing"
          /\ caller' = "returned" => ready /\ ~error
      BY <1>2 DEF Check
    <2> QED
      BY <2>2, <2>3 DEF FInv, Unanswered, Concluded, FoundMatch, ReturnedReady, HandledOnce
  <1>3. ASSUME NEW failed \in BOOLEAN, NothingFound(failed) PROVE FInv'
    <2>1. UNCHANGED <<text, indexed>>
      BY <1>3 DEF NothingFound, Complete
    <2>2. Same
      BY <1>0, <2>1
    <2>3. answer = "pending" /\ ~ready /\ found = {} /\ found' = {}
      BY <1>3 DEF NothingFound, FInv, Unanswered
    <2>4. /\ answer' = "handled" /\ ready' = TRUE /\ error' = failed
          /\ caller \notin {"constructing", "returned"}
          /\ caller' \notin {"constructing", "returned"}
      BY <1>3, <2>3 DEF NothingFound, Complete, FInv, ReturnedReady, HandledOnce
    <2>5. failed \/ AskedTokens(text) = {} \/ InAllIndexes = {}
      BY <1>3 DEF NothingFound
    <2>6. Concluded'
      BY <2>2, <2>3, <2>4, <2>5 DEF Concluded
    <2> QED
      BY <2>3, <2>4, <2>6 DEF FInv, Unanswered, FoundMatch, ReturnedReady, HandledOnce
  <1>4. CASE ResultReady
    <2>1. UNCHANGED <<text, indexed>>
      BY <1>4 DEF ResultReady, Complete
    <2>2. Same
      BY <1>0, <2>1
    <2>3. answer = "pending" /\ ~ready
      BY <1>4 DEF ResultReady, FInv, Unanswered
    <2>4. /\ answer' = "handled" /\ ready' = TRUE /\ error' = FALSE
          /\ caller \notin {"constructing", "returned"}
          /\ caller' \notin {"constructing", "returned"}
      BY <1>4, <2>3 DEF ResultReady, Complete, FInv, ReturnedReady, HandledOnce
    <2>5. AskedTokens(text) # {} /\ Unpackable(text) /\ found' = Matching
      BY <1>4 DEF ResultReady, Matching
    <2> QED
      BY <2>2, <2>4, <2>5
         DEF FInv, Unanswered, Concluded, FoundMatch, ReturnedReady, HandledOnce
  <1>5. CASE ResultThrows
    <2>1. UNCHANGED <<text, indexed>>
      BY <1>5 DEF ResultThrows
    <2>2. Same
      BY <1>0, <2>1
    <2>3. answer = "pending" /\ answer' = "handled" /\ UNCHANGED <<caller, ready, error, found>>
      BY <1>5 DEF ResultThrows
    <2> QED
      BY <2>2, <2>3
         DEF FInv, Unanswered, Concluded, FoundMatch, ReturnedReady, HandledOnce
  <1> QED  BY <1>1, <1>2, <1>3, <1>4, <1>5 DEF Next, Caller, Storage

LEMMA AlwaysFInv == Spec => []FInv
  <1>1. Init => FInv
    BY InitFinds
  <1>2. TypeOK /\ FInv /\ [Next]_vars => FInv'
    <2>1. ASSUME FInv, UNCHANGED vars PROVE FInv'
      BY <2>1 DEF vars, FInv, Unanswered, Concluded, FoundMatch, Matching, InAllIndexes,
                  ReturnedReady, HandledOnce
    <2> QED  BY <2>1, NextFinds
  <1> QED  BY <1>1, <1>2, TypeCorrect, PTL DEF Spec

-----------------------------------------------------------------------------
LEMMA Texted ==
    ASSUME TypeOK
    PROVE  /\ text \in Seq(Word \cup {Mark})
           /\ \A d \in Document : indexed[d].text \in Seq(Word)
  BY TextAssumption DEF TypeOK

LEMMA FoundIsExact == ASSUME TypeOK, FInv PROVE FoundExactly
  <1> SUFFICES ASSUME caller = "returned", Plain(text), AskedTokens(text) # {}
               PROVE  found = {d \in Document : Answers(text, indexed[d].text)}
    BY DEF FoundExactly
  <1>1. text \in Seq(Word \cup {Mark})
    BY Texted
  <1>2. ASSUME NEW d \in Document, Answers(text, indexed[d].text)
        PROVE  d \in InAllIndexes
    <2>1. indexed[d].text \in Seq(Word)
      BY Texted
    <2>2. AskedTokens(text) \subseteq Range(indexed[d].text)
      BY <1>1, <1>2, <2>1, AnswersAsked
    <2> QED  BY <2>2 DEF InAllIndexes, IndexNames
  <1>3. CASE InAllIndexes = {} /\ found = {}
    BY <1>2, <1>3
  <1>4. CASE Unpackable(text) /\ found = Matching
    <2>1. ASSUME NEW d \in Document
          PROVE  Matches(text, indexed[d]) <=> Answers(text, indexed[d].text)
      <3>1. indexed[d].text \in Seq(Word)
        BY Texted
      <3> QED  BY <1>1, <1>4, <3>1, MatchesRight
    <2> QED  BY <1>2, <1>4, <2>1 DEF Matching, InAllIndexes
  <1> QED  BY <1>3, <1>4 DEF FInv, ReturnedReady, Concluded

(* A search with one quote at most, and no word twice in it, that returns   *)
(* has found the documents the query asks for and no others: whatever the   *)
(* length of the query and of the documents, and whatever the order of the  *)
(* answer and of the caller's look at m_ready.                              *)
THEOREM FoundAlwaysExactly == Spec => []FoundExactly
  <1>1. TypeOK /\ FInv => FoundExactly
    BY FoundIsExact
  <1> QED  BY <1>1, TypeCorrect, AlwaysFInv, PTL

LEMMA FoundHasQuotes == ASSUME TypeOK, FInv PROVE QuotesHold
  <1> SUFFICES ASSUME QuotesDistinct(text), NEW d \in found
               PROVE  HasQuotes(text, indexed[d].text)
    BY DEF QuotesHold
  <1>1. d \in Document /\ Matches(text, indexed[d])
    BY DEF FInv, FoundMatch, Matching, InAllIndexes
  <1>2. text \in Seq(Word \cup {Mark}) /\ indexed[d].text \in Seq(Word)
    BY <1>1, Texted
  <1> QED  BY <1>1, <1>2, QuotesFound

(* What is found has every quote of the query word for word, however many   *)
(* quotes there are and wherever their cuts have gone, as long as no quote  *)
(* has a word twice.                                                        *)
THEOREM QuotesAlwaysHold == Spec => []QuotesHold
  <1>1. TypeOK /\ FInv => QuotesHold
    BY FoundHasQuotes
  <1> QED  BY <1>1, TypeCorrect, AlwaysFInv, PTL
=============================================================================
