------------------------------ MODULE Handlers ------------------------------
(***************************************************************************)
(* The HTTP handlers that wait for the engine (api/app.py, api/batches.py, *)
(* EngineWorker.stream): each reads its requests' queues in turn, through  *)
(* the event loop's thread pool, where every `get` occupies a thread until *)
(* the worker has put an item.                                             *)
(*                                                                         *)
(* A client of /v1/completions or /v1/chat/completions waits for one       *)
(* request; a client of /v1/batches submits a line's request each, and     *)
(* then drains them one by one.  The worker is TokenStreams, which         *)
(* EngineWorker implements, with every stream ending after at most         *)
(* MaxTokens tokens.  Text and JSON are left out, except that a forced     *)
(* tool call cut off by max_tokens may not parse.                          *)
(***************************************************************************)
EXTENDS Integers, Sequences, FiniteSets, Functions, Lists

CONSTANTS
    Requests,
    Token,
    Clients,
    Jobs,       \* Jobs[c]: the requests of client c, in order
    BadLine,    \* a line of a batch that does not make a request
    Streaming,  \* clients with `stream`, whose disconnecting cancels the handler
    Batching,   \* clients of /v1/batches
    Forced,     \* requests with a forced tool_choice
    Threads,    \* threads of the event loop's default executor
    MaxTokens   \* bound: tokens of a request

ASSUME HandlerConstants ==
    /\ Jobs \in [Clients -> Seq(Requests \cup {BadLine})]
    /\ BadLine \notin Requests
    /\ Threads \in Nat \ {0}
    /\ MaxTokens \in Nat
    /\ \A c \in Clients \ Batching : Len(Jobs[c]) = 1 /\ Jobs[c][1] # BadLine
    /\ Streaming \subseteq Clients \ Batching
    /\ \A c, d \in Clients : \A i \in DOMAIN Jobs[c], j \in DOMAIN Jobs[d] :
          Jobs[c][i] = Jobs[d][j] /\ Jobs[c][i] # BadLine => c = d /\ i = j

VARIABLES
    out_queue,  \* everything the worker has put, per request
    live,       \* submitted requests
    taken,      \* items taken from each request's queue
    gets,       \* `get` calls queued for a thread of the executor
    busy,       \* `get` calls that occupy a thread
    handler     \* per client: pc, at (the job it is at), ids, out_lines

ErrorEntry == [ok |-> FALSE, ids |-> <<>>]

Reasons == {"length", "stop"}

Streams == INSTANCE TokenStreams

executorVars == <<gets, busy>>
vars == <<out_queue, live, taken, gets, busy, handler>>

Init ==
    /\ Streams!Init
    /\ live = {}
    /\ taken = [r \in Requests |-> 0]
    /\ gets = <<>>
    /\ busy = {}
    /\ handler = [c \in Clients |-> [pc |-> "new", at |-> 1, ids |-> <<>>, out_lines |-> <<>>]]

\* The worker: a submitted request gets its tokens, one at least, then its
\* Done.
Produce(r) ==
    /\ r \in live
    /\ \/ /\ Len(out_queue[r]) < MaxTokens
          /\ \E t \in Token : Streams!PutToken(r, t)
       \/ out_queue[r] # <<>> /\ Streams!PutDone(r, "stop")
       \/ Len(out_queue[r]) = MaxTokens /\ Streams!PutDone(r, "length")
    /\ UNCHANGED <<live, taken, executorVars, handler>>

\* _build_request raises, or makes a request of a line.
MakesRequest(line) == line # BadLine

\* The requests client c submits: all before it reads the first answer
\* (_submit_jobs).
Made(c) == {line \in Range(Jobs[c]) : MakesRequest(line)}

\* worker.submit for every line of a batch, or for the one request of
\* another client.
Submit(c) ==
    /\ handler[c].pc = "new"
    /\ live' = live \cup Made(c)
    /\ handler' = [handler EXCEPT ![c].pc = "ask"]
    /\ UNCHANGED <<out_queue, taken, executorVars>>

\* Job c is at, if it is not through.
At(c, r) == handler[c].at <= Len(Jobs[c]) /\ r = Jobs[c][handler[c].at]

\* Asks without waiting for the answer.
FaultyAsk(c) ==
    \E r \in Requests :
        /\ handler[c].pc \in {"ask", "wait"}
        /\ At(c, r)
        /\ Len(gets) <= Cardinality(Requests)
        /\ gets' = Append(gets, r)
        /\ handler' = [handler EXCEPT ![c].pc = "wait"]
        /\ UNCHANGED <<out_queue, live, taken, busy>>

\* `await loop.run_in_executor(None, out_q.get)`
Ask(c) ==
    \E r \in Requests :
        /\ handler[c].pc = "ask"
        /\ At(c, r)
        /\ gets' = Append(gets, r)
        /\ handler' = [handler EXCEPT ![c].pc = "wait"]
        /\ UNCHANGED <<out_queue, live, taken, busy>>

\* A thread of the executor takes up the next call.
StartGet ==
    /\ gets # <<>>
    /\ Cardinality(busy) < Threads
    /\ busy' = busy \cup {Head(gets)}
    /\ gets' = Tail(gets)
    /\ UNCHANGED <<out_queue, live, taken, handler>>

Line(ids) == [ok |-> TRUE, ids |-> ids]

\* What follows from the Done of a request: ids make a line, and the next
\* job has its turn.  A forced tool call that was cut off may not be JSON:
\* the handler raises and everything it has collected is lost.
AfterDone(h, r, reason) ==
    {[h EXCEPT !.pc = "ask", !.at = @ + 1, !.ids = <<>>, !.out_lines = Append(@, Line(h.ids))]}
        \cup (IF r \in Forced /\ reason = "length" THEN {[h EXCEPT !.pc = "failed"]} ELSE {})

\* The Done does not end the reading.
FaultyAfter(h, r, item) ==
    IF item[1] = "done"
    THEN {[h EXCEPT !.pc = "ask", !.out_lines = Append(@, Line(h.ids))]}
    ELSE {[h EXCEPT !.pc = "ask", !.ids = Append(@, item[2])]}

\* Collects the Done like a token.
FaultyAfterItem(h, r, item) == {[h EXCEPT !.pc = "ask", !.ids = Append(@, item)]}

\* One list of ids for all the jobs of a batch.
FaultyAfterShared(h, r, item) ==
    IF item[1] = "done"
    THEN {[h EXCEPT !.pc = "ask", !.at = @ + 1, !.out_lines = Append(@, Line(h.ids))]}
    ELSE {[h EXCEPT !.pc = "ask", !.ids = Append(@, item[2])]}

\* What the handler does with an item: collects the token, or ends the job.
After(h, r, item) ==
    IF item[1] = "done" THEN AfterDone(h, r, item[2])
                        ELSE {[h EXCEPT !.pc = "ask", !.ids = Append(@, item[2])]}

\* `get` returns; if the client is still there, its handler goes on.
Get(r) ==
    LET item == out_queue[r][taken[r] + 1] IN
    /\ r \in busy
    /\ taken[r] < Len(out_queue[r])
    /\ taken' = [taken EXCEPT ![r] = @ + 1]
    /\ busy' = busy \ {r}
    /\ \E c \in Clients :
        /\ r \in Range(Jobs[c])
        /\ IF handler[c].pc = "wait"
           THEN \E h \in After(handler[c], r, item) : handler' = [handler EXCEPT ![c] = h]
           ELSE UNCHANGED handler
    /\ UNCHANGED <<out_queue, live, gets>>

\* _drain_jobs: a line that made no request becomes an error entry.
ErrorLine(c) ==
    /\ handler[c].pc = "ask"
    /\ At(c, BadLine)
    /\ handler' = [handler EXCEPT ![c].at = @ + 1, ![c].out_lines = Append(@, ErrorEntry)]
    /\ UNCHANGED <<out_queue, live, taken, executorVars>>

\* The response is complete.
Respond(c) ==
    /\ handler[c].pc = "ask"
    /\ handler[c].at > Len(Jobs[c])
    /\ handler' = [handler EXCEPT ![c].pc = "returned"]
    /\ UNCHANGED <<out_queue, live, taken, executorVars>>

\* A client goes away.  A `get` that has no thread yet is cancelled; one
\* that has stays until the worker puts an item.
Disconnect(c) ==
    /\ c \in Streaming
    /\ handler[c].pc \in {"ask", "wait"}
    /\ handler' = [handler EXCEPT ![c].pc = "gone"]
    /\ \/ \E i \in DOMAIN gets : gets[i] \in Range(Jobs[c]) /\ gets' = Without(gets, i)
       \/ Range(gets) \cap Range(Jobs[c]) = {} /\ UNCHANGED gets
    /\ UNCHANGED <<out_queue, live, taken, busy>>

Loop(c) == Ask(c) \/ ErrorLine(c) \/ Respond(c)

Next ==
    \/ \E r \in Requests : Produce(r) \/ Get(r)
    \/ \E c \in Clients : Submit(c) \/ Loop(c) \/ Disconnect(c)
    \/ StartGet

Spec == Init /\ [][Next]_vars

\* The worker ends every stream, threads and event loop run; clients need
\* not come, and may stay or go.
FairSpec ==
    /\ Spec
    /\ \A r \in Requests : WF_vars(Produce(r)) /\ WF_vars(Get(r))
    /\ \A c \in Clients : WF_vars(Loop(c))
    /\ WF_vars(StartGet)

-----------------------------------------------------------------------------
\* What a queue holds before its Done.
Tokens(q) == [i \in 1..(IF Streams!Ended(q) THEN Len(q) - 1 ELSE Len(q)) |-> q[i][2]]

\* Types of the handlers' variables.
TypeOK ==
    /\ live \subseteq Requests
    /\ taken \in [Requests -> Nat]
    /\ gets \in Seq(Requests)
    /\ busy \subseteq Requests
    /\ handler \in [Clients -> [pc : {"new", "ask", "wait", "returned", "failed", "gone"},
                                at : Nat \ {0}, ids : Seq(Token),
                                out_lines : Seq([ok : BOOLEAN, ids : Seq(Token)])]]

\* What a connected client has read is what the worker put, in order, and
\* nothing of it is in a thread's hands twice: at most one `get` is out for
\* a queue, however many threads, clients and disconnects there are.
ReadsInOrder ==
    /\ NoDuplicates(gets)
    /\ Range(gets) \cap busy = {}
    /\ \A c \in Clients : \A r \in Requests :
        handler[c].pc \in {"ask", "wait"} /\ At(c, r) =>
            handler[c].ids = Tokens(SubSeq(out_queue[r], 1, taken[r]))

\* A batch's lines are in the order of its input, each with the whole
\* answer to its own request, or an error for a line that made none.
LinesAreAnswers ==
    \A c \in Clients : \A i \in DOMAIN handler[c].out_lines :
        LET r == Jobs[c][i] IN
        IF r = BadLine THEN handler[c].out_lines[i] = ErrorEntry
        ELSE Streams!Ended(out_queue[r]) /\ handler[c].out_lines[i] = Line(Tokens(out_queue[r]))

\* Every client that stays is answered, even with fewer threads than clients
\* and whoever goes away meanwhile; and the thread that a `get` occupies comes
\* back, also when its client has gone.
EveryoneServed ==
    /\ \A c \in Clients : handler[c].pc = "ask" ~> handler[c].pc \in {"returned", "failed", "gone"}
    /\ \A r \in Requests : r \in busy ~> r \notin busy
-----------------------------------------------------------------------------
(* The inductive invariant behind ReadsInOrder and LinesAreAnswers         *)

\* Only the last item of a queue may be its Done.
QueueShape ==
    /\ out_queue \in [Requests -> Seq({"token"} \X Token \cup {"done"} \X Reasons)]
    /\ \A r \in Requests : \A i \in 1..Len(out_queue[r]) - 1 : out_queue[r][i][1] = "token"

\* A client waits for every `get` that is out, but for those that had a
\* thread when their client went away.
GetsHaveReaders ==
    /\ NoDuplicates(gets)
    /\ Range(gets) \cap busy = {}
    /\ \A r \in Range(gets) : \E c \in Clients : handler[c].pc = "wait" /\ At(c, r)
    /\ \A r \in busy : \E c \in Clients :
        /\ r \in Range(Jobs[c])
        /\ handler[c].pc = "gone" \/ (handler[c].pc = "wait" /\ At(c, r))

\* Clients that read.
Reading(c) == handler[c].pc \in {"new", "ask", "wait"}

\* The tokens of the job at hand are the items taken for it; later jobs
\* have had nothing taken, and earlier ones a line each.
Progress ==
    \A c \in Clients :
        /\ Len(handler[c].out_lines) = handler[c].at - 1
        /\ handler[c].at <= Len(Jobs[c]) + 1
        /\ Reading(c) =>
            /\ \A i \in DOMAIN Jobs[c] :
                  i > handler[c].at /\ MakesRequest(Jobs[c][i]) => taken[Jobs[c][i]] = 0
            /\ At(c, BadLine) => handler[c].ids = <<>>
            /\ \A r \in Requests : At(c, r) =>
                /\ taken[r] = Len(handler[c].ids)
                /\ taken[r] <= Len(out_queue[r])
                /\ \A i \in 1..taken[r] : out_queue[r][i] = Streams!TokenItem(handler[c].ids[i])

HandlersInv == TypeOK /\ QueueShape /\ GetsHaveReaders /\ Progress /\ LinesAreAnswers
=============================================================================
