------------------------------ MODULE Recovery ------------------------------
(***************************************************************************)
(* One request to the recovery application (processors/recovery.cpp): the  *)
(* handler finds the documents a stage of the pipeline has not             *)
(* acknowledged and pushes them to it again, over several connections, and *)
(* streams a byte per document to the user.                                *)
(*                                                                         *)
(* The handler is driven by callbacks of the storage and of the processor  *)
(* application; one callback runs to its end before the next.  The loop    *)
(* that starts the connections is such a callback; it has steps of its own *)
(* here because it changes the vector it runs over, and while it runs      *)
(* nothing else does.                                                      *)
(***************************************************************************)
EXTENDS Naturals, Sequences, FiniteSets, SequencesExt

CONSTANTS
    Document,        \* keys of documents (the urls of the code)
    MaxConnections,  \* bound: largest count a request asks for
    MaxFailures      \* bound: failed reads of metadata

ASSUME DocumentAssumption == IsFiniteSet(Document)
ASSUME BoundAssumption ==
    MaxConnections \in Nat \ {0} /\ MaxFailures \in Nat

Connection == 1 .. MaxConnections
Gone       == 0   \* a connection that is not in the vector

VARIABLES
    phase,       \* "received", "finding", "starting", "running", "over"
    processors,  \* the vector of connections
    position,    \* iterator and end of the loop that starts them
    end,
    urls,        \* documents nobody has taken
    job,         \* what each connection waits for, and for which document
    response,    \* status, Content-Length, bytes written, closed
    pushed,      \* ghost: how often each document was pushed
    unread       \* ghost: documents whose metadata could not be read

handlerVars == <<processors, position, end>>
vars == <<phase, handlerVars, urls, job, response, pushed, unread>>

NoJob == [waits |-> "nothing"]
Job   == {NoJob} \cup [waits : {"read", "push"}, url : Document]
Open  == [status |-> 0, length |-> 0, bytes |-> 0, closed |-> FALSE]

Init ==
    /\ phase = "received"
    /\ processors = << >> /\ position = 0 /\ end = 0
    /\ urls = {}
    /\ job = [c \in Connection |-> NoJob]
    /\ response = Open
    /\ pushed = [d \in Document |-> 0]
    /\ unread = {}

-----------------------------------------------------------------------------
(* 400 without a processor name or with count = 0, 500 when connecting to   *)
(* the processor throws.                                                    *)
Refuse(status) ==
    /\ phase = "received"
    /\ phase' = "over"
    /\ response' = [response EXCEPT !.status = status, !.closed = TRUE]
    /\ UNCHANGED <<handlerVars, urls, job, pushed, unread>>

(* on_request: connect, and ask the storage for the documents.              *)
Accept(count) ==
    /\ phase = "received"
    /\ phase' = "finding"
    /\ processors' = [c \in 1 .. count |-> c]
    /\ UNCHANGED <<position, end, urls, job, response, pushed, unread>>

(* The find fails, or writing the header throws: it is logged, and that is  *)
(* all.                                                                     *)
FindFailed ==
    /\ phase = "finding"
    /\ phase' = "over"
    /\ UNCHANGED <<handlerVars, urls, job, response, pushed, unread>>

(* The find succeeds: the header promises a byte per document, and the loop *)
(* over the connections takes its iterators.                                *)
Found(documents) ==
    /\ phase = "finding"
    /\ phase' = "starting"
    /\ urls' = documents
    /\ response' = [response EXCEPT !.status = 200, !.length = Cardinality(documents)]
    /\ position' = 1
    /\ end' = Len(processors) + 1
    /\ UNCHANGED <<processors, job, pushed, unread>>

(* A definition marked "mutated" is no part of the specification: it is a   *)
(* later definition with a slip of the kind this code invites, and TLC      *)
(* finds the slip by a property.                                            *)

\* mutated: the connection stays in the vector
FinishKeeps(c) ==
    /\ job' = IF c = Gone THEN job ELSE [job EXCEPT ![c] = NoJob]
    /\ UNCHANGED <<processors, urls>>
(* finish_processor finds the connection in the vector and erases it; what  *)
(* follows it moves up.                                                     *)
Finish(c) ==
    /\ processors' = RemoveFirst(processors, c)
    /\ job' = IF c = Gone THEN job ELSE [job EXCEPT ![c] = NoJob]
    /\ UNCHANGED urls

\* mutated: the first to go tells the user
SomeGone == processors' # processors
(* The last one to go tells the user that the handler has finished.         *)
AllGone == processors' = << >>

Write(written) ==
    response' = [response EXCEPT !.bytes = @ + written, !.closed = @ \/ AllGone]

\* mutated: the document is not taken off the list
TakeNot(c) ==
    \E d \in urls : /\ urls' = urls
                    /\ job' = [job EXCEPT ![c] = [waits |-> "read", url |-> d]]
                    /\ UNCHANGED processors
(* urls.back() and pop_back(): which document is last is up to the storage. *)
Take(c) ==
    \E d \in urls : /\ urls' = urls \ {d}
                    /\ job' = [job EXCEPT ![c] = [waits |-> "read", url |-> d]]
                    /\ UNCHANGED processors

\* mutated: a connection is used for one document
ProcessNextOnce(c, written) ==
    /\ IF urls # {} /\ written = 0 THEN Take(c) ELSE Finish(c)
    /\ Write(written)
(* process_next, after writing a number of bytes to the user.               *)
ProcessNext(c, written) ==
    /\ IF urls # {} THEN Take(c) ELSE Finish(c)
    /\ Write(written)

\* mutated: the loop runs one turn too many
LoopPastEnd == position > end
LoopAtEnd == position = end

(* One turn of the loop.  When a connection has been erased, the iterator   *)
(* has skipped the one behind it, and the end taken at the start is behind  *)
(* the end of the vector: reading there is undefined.  What is found is the *)
(* null pointer a moved-from slot holds, or a pointer to an erased          *)
(* connection: neither is in the vector.  There is nothing to take by then. *)
StartNext ==
    /\ phase = "starting" /\ ~LoopAtEnd
    /\ position' = position + 1
    /\ ProcessNext(IF position <= Len(processors) THEN processors[position] ELSE Gone, 0)
    /\ UNCHANGED <<phase, end, pushed, unread>>

Started ==
    /\ phase = "starting" /\ LoopAtEnd
    /\ phase' = "running"
    /\ UNCHANGED <<handlerVars, urls, job, response, pushed, unread>>

(* The metadata of a document arrives and is pushed to the processor.       *)
ReadDone(c) ==
    /\ phase = "running" /\ job[c].waits = "read"
    /\ job' = [job EXCEPT ![c].waits = "push"]
    /\ pushed' = [pushed EXCEPT ![job[c].url] = @ + 1]
    /\ UNCHANGED <<phase, handlerVars, urls, response, unread>>

(* The metadata cannot be read: it is logged.  No byte is written and the   *)
(* connection asks for nothing more, but it stays in the vector.            *)
ReadFailed(c) ==
    /\ phase = "running" /\ job[c].waits = "read"
    /\ Cardinality(unread) < MaxFailures
    /\ unread' = unread \cup {job[c].url}
    /\ job' = [job EXCEPT ![c] = NoJob]
    /\ UNCHANGED <<phase, handlerVars, urls, response, pushed>>

(* The processor answers, with success or an error: a byte goes to the user *)
(* either way, and the connection takes the next document or finishes.      *)
Answered(c) ==
    /\ phase = "running" /\ job[c].waits = "push"
    /\ ProcessNext(c, 1)
    /\ UNCHANGED <<phase, position, end, pushed, unread>>

-----------------------------------------------------------------------------
Answer == \/ \E status \in {400, 500} : Refuse(status)
          \/ \E count \in Connection : Accept(count)
          \/ FindFailed
          \/ \E documents \in SUBSET Document : Found(documents)
          \/ StartNext
          \/ Started

Callback(c) == ReadDone(c) \/ ReadFailed(c) \/ Answered(c)

Next == Answer \/ \E c \in Connection : Callback(c)

(* The storage and the processor answer what they are asked, one way or the *)
(* other, and the loop over the connections ends.                           *)
Fairness == /\ WF_vars(Answer)
            /\ \A c \in Connection : WF_vars(Callback(c))

Spec == Init /\ [][Next]_vars /\ Fairness

-----------------------------------------------------------------------------
TypeOK ==
    /\ phase \in {"received", "finding", "starting", "running", "over"}
    /\ processors \in Seq(Connection)
    /\ position \in 0 .. MaxConnections + 1 /\ end \in 0 .. MaxConnections + 1
    /\ urls \subseteq Document
    /\ job \in [Connection -> Job]
    /\ response \in [status : {0, 200, 400, 500}, length : Nat, bytes : Nat,
                     closed : BOOLEAN]
    /\ pushed \in [Document -> Nat]
    /\ unread \subseteq Document

Waiting == {c \in Connection : job[c] # NoJob}

(* Every document the header promised a byte for is somewhere, and in one   *)
(* place: still on the list, with one connection, answered with a byte, or  *)
(* unreadable.  So no document is pushed twice and the bytes are never more *)
(* than Content-Length, whatever the order of the answers.                  *)
BytesAddUp ==
    /\ response.status = 200 =>
          response.length = Cardinality(urls) + Cardinality(Waiting)
                            + response.bytes + Cardinality(unread)
    /\ \A d \in Document : pushed[d] <= 1

(* A response that was begun is closed only when every byte promised has    *)
(* been written: also when connections were skipped at the start, and when  *)
(* some died of unreadable metadata.                                        *)
ClosedIsComplete ==
    response.closed /\ response.status = 200 =>
        /\ response.bytes = response.length
        /\ Waiting = {} /\ urls = {}

(* An unreadable document costs its connection, but the rest are processed  *)
(* as long as a connection is left.                                         *)
AllTried ==
    phase = "starting" ~> urls = {} \/ Cardinality(unread) >= end - 1

(* With no more connections than documents and one, and no unreadable       *)
(* document, the user is told of the end.                                   *)
ClosedWhenBusy ==
    phase = "starting" /\ end - 1 <= response.length + 1
        ~> response.closed \/ unread # {}

(* recovery.cpp:142 says of the last connection to finish: "We were the     *)
(* last? Tell the user that we have finished".  With two connections more   *)
(* than documents nobody is told: the loop that starts the connections      *)
(* skips one, which stays in the vector for good.                           *)
AlwaysTold == phase = "starting" ~> response.closed
=============================================================================
