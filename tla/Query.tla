------------------------------- MODULE Query -------------------------------
(***************************************************************************)
(* What a query means: its text is split into quotes and words             *)
(* (include/wookie/operators.hpp, split.hpp), and a document is matched by *)
(* the positions its indexes hold (index_data.hpp,                         *)
(* lib/basic_elliptics_splitter.cpp).                                      *)
(*                                                                         *)
(* A word is one symbol long and spaces are left out: boost::locale finds  *)
(* the words, and what this code does to a text depends on the places of   *)
(* the quotation marks only.                                               *)
(***************************************************************************)
EXTENDS Integers, Sequences, FiniteSets, Functions

CONSTANTS
    Word,        \* words of texts
    Mark,        \* the quotation mark
    BaseIndex    \* name of the index that holds every document

ASSUME MarkAssumption == Mark \notin Word

(* The places of a text that are in S, one after the other.                 *)
Ordered(text, S) ==
    LET upto[i \in 0 .. Len(text)] ==
            IF i = 0 THEN << >>
            ELSE IF i \in S THEN Append(upto[i - 1], i) ELSE upto[i - 1]
    IN  upto[Len(text)]

Places(text, symbols) == {i \in DOMAIN text : text[i] \in symbols}

(* split::feed: the words of a text, each once, in the order they come.     *)
Firsts(text) == {i \in Places(text, Word) : \A j \in 1 .. i - 1 : text[j] # text[i]}
Tokens(text) == LET first == Ordered(text, Firsts(text))
                IN  [k \in DOMAIN first |-> text[first[k]]]

(* What prepare_indexes makes of a document: its words with their positions *)
(* and, if the base index has a name, an entry there.                       *)
Entry == [text : Seq(Word), base : BOOLEAN]
NoEntry == [text |-> << >>, base |-> FALSE]
IndexNames(entry) == Range(entry.text) \cup (IF entry.base THEN {BaseIndex} ELSE {})

-----------------------------------------------------------------------------
(* operators_found: pairs of marks; a last mark without a partner is no     *)
(* quote.                                                                   *)
Quotes(text) ==
    LET at == Ordered(text, Places(text, {Mark}))
    IN  [k \in 1 .. Len(at) \div 2 |-> [from |-> at[2 * k - 1], to |-> at[2 * k]]]
Inside(text, quote) == SubSeq(text, quote.from + 1, quote.to - 1)

(* A definition marked "mutated" is no part of the specification: it is a   *)
(* later definition with a slip of the kind this code invites, and TLC      *)
(* finds the slip by a property.                                            *)

\* mutated: the text behind the quote is lost
CutOff(text, quote) ==
    IF quote.from > Len(text) THEN text ELSE SubSeq(text, 1, quote.from)
(* string::replace in prepare: the inside of a quote is taken out, at its   *)
(* place in the whole text even when an earlier quote is out already.  The  *)
(* marks stay.                                                              *)
Cut(text, quote) ==
    IF quote.from > Len(text) THEN text
    ELSE SubSeq(text, 1, quote.from) \o SubSeq(text, quote.to, Len(text))

(* What is left of the text when k quotes are out.                          *)
Left(text) ==
    LET quotes == Quotes(text)
        left[k \in 0 .. Len(quotes)] ==
            IF k = 0 THEN text ELSE Cut(left[k - 1], quotes[k])
    IN  left

(* std::out_of_range: the place of a quote is behind what is left.          *)
OutOfRange(text) ==
    \E k \in DOMAIN Quotes(text) : Quotes(text)[k].from > Len(Left(text)[k - 1])

(* The indexes a query asks for: the words of its quotes and of the rest.   *)
Insides(text) == {Inside(text, q) : q \in Range(Quotes(text))}
AskedTokens(text) ==
    UNION {Range(Tokens(part)) : part \in {Left(text)[Len(Quotes(text))]} \cup Insides(text)}

-----------------------------------------------------------------------------
(* on_result_ready: the words asked for, by their position in the document. *)
Hits(entry, asked) ==
    LET at == Ordered(entry.text, Places(entry.text, asked))
    IN  [k \in DOMAIN at |-> [pos |-> at[k], word |-> entry.text[at[k]]]]

(* The place in a quote: state words have matched, the last of them at prev;*)
(* ok when the whole quote has.                                             *)
Nothing == [state |-> 0, prev |-> -1, ok |-> FALSE]

GoesOn(quote, m, hit) ==
    hit.word = quote[m.state + 1] /\ (m.prev = -1 \/ hit.pos = m.prev + 1)
Begins(quote, m, hit) == hit.word # quote[m.state + 1] /\ hit.word = quote[1]

\* mutated: a word that breaks a match is not looked at again
AdvanceOnce(quote, m, hit) ==
    IF m.state = Len(quote) THEN m
    ELSE IF GoesOn(quote, m, hit) THEN [m EXCEPT !.state = @ + 1, !.prev = hit.pos]
    ELSE Nothing
\* mutated: positions are not compared
AdvanceAnywhere(quote, m, hit) ==
    IF m.state = Len(quote) THEN m
    ELSE IF hit.word = quote[m.state + 1] THEN [m EXCEPT !.state = @ + 1, !.prev = hit.pos]
    ELSE IF Begins(quote, m, hit) THEN [Nothing EXCEPT !.state = 1, !.prev = hit.pos]
    ELSE Nothing
(* The loop over the positions, one turn of it for one quote.               *)
Advance(quote, m, hit) ==
    IF m.state = Len(quote) THEN m
    ELSE IF GoesOn(quote, m, hit) THEN [m EXCEPT !.state = @ + 1, !.prev = hit.pos]
    ELSE IF Begins(quote, m, hit) THEN [Nothing EXCEPT !.state = 1, !.prev = hit.pos]
    ELSE Nothing

Turn(quote, m, hit) ==
    IF m.ok THEN m
    ELSE LET next == Advance(quote, m, hit)
         IN  [next EXCEPT !.ok = next.state = Len(quote)]

(* The places in a quote after each of the positions.                       *)
Turns(quote, hits) ==
    LET after[k \in 0 .. Len(hits)] ==
            IF k = 0 THEN Nothing ELSE Turn(quote, after[k - 1], hits[k])
    IN  after
QuoteMatches(quote, hits) == Turns(quote, hits)[Len(hits)].ok

(* The find asks for the documents that are in all indexes; of these,       *)
(* on_result_ready keeps those in which every quote matches.                *)
Matches(text, entry) ==
    /\ AskedTokens(text) \subseteq IndexNames(entry)
    /\ \A quote \in {Tokens(inside) : inside \in Insides(text)} :
          QuoteMatches(quote, Hits(entry, AskedTokens(text)))

(* The base index does not hold positions but documents, which do not       *)
(* unpack as index data.                                                    *)
Unpackable(text) == BaseIndex \notin AskedTokens(text)

-----------------------------------------------------------------------------
(* The reference: the document has each quote word for word and has every   *)
(* word outside of them.                                                    *)
HasPhrase(content, phrase) ==
    \E i \in 0 .. Len(content) - Len(phrase) :
        SubSeq(content, i + 1, i + Len(phrase)) = phrase
Outside(text) ==
    {i \in DOMAIN text : text[i] \in Word /\
        \A q \in Range(Quotes(text)) : ~(q.from < i /\ i < q.to)}
HasQuotes(text, content) == \A inside \in Insides(text) : HasPhrase(content, inside)
Answers(text, content) ==
    HasQuotes(text, content) /\ {text[i] : i \in Outside(text)} \subseteq Range(content)

(* The words of each quote differ.                                          *)
QuotesDistinct(text) == \A inside \in Insides(text) : IsInjective(inside)

(* Queries this code answers as it should: one quote at most, for the cuts  *)
(* of several go astray, and no word twice in it.                           *)
Plain(text) == Len(Quotes(text)) <= 1 /\ QuotesDistinct(text)
=============================================================================
