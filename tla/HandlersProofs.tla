--------------------------- MODULE HandlersProofs ---------------------------
(***************************************************************************)
(* Theorems about Handlers for any number of clients, batches of any       *)
(* length and any number of threads.                                       *)
(***************************************************************************)
EXTENDS Handlers, ListProofs

Items == {"token"} \X Token \cup {"done"} \X Reasons

States == {"new", "ask", "wait", "returned", "failed", "gone"}

Lines == [ok : BOOLEAN, ids : Seq(Token)]

HandlerSet == [pc : States, at : Nat \ {0}, ids : Seq(Token), out_lines : Seq(Lines)]

-----------------------------------------------------------------------------
(* Facts about jobs, handlers and queues *)

\* A client's jobs are requests of its own, once each, or bad lines.
LEMMA JobFacts ==
    ASSUME NEW c \in Clients
    PROVE  /\ Len(Jobs[c]) \in Nat /\ DOMAIN Jobs[c] = 1..Len(Jobs[c])
           /\ \A i \in DOMAIN Jobs[c] : Jobs[c][i] \in Requests \cup {BadLine}
           /\ \A i, j \in DOMAIN Jobs[c] :
                 Jobs[c][i] = Jobs[c][j] /\ Jobs[c][i] # BadLine => i = j
<1>1. Jobs[c] \in Seq(Requests \cup {BadLine})
  BY HandlerConstants
<1>2. \A i, j \in DOMAIN Jobs[c] : Jobs[c][i] = Jobs[c][j] /\ Jobs[c][i] # BadLine => i = j
  BY HandlerConstants
<1> QED BY <1>1, <1>2

\* A request is one client's.
LEMMA OneReader ==
    ASSUME NEW r \in Requests, NEW c \in Clients, NEW d \in Clients,
           r \in Range(Jobs[c]), r \in Range(Jobs[d])
    PROVE  c = d
<1>1. PICK i \in DOMAIN Jobs[c] : r = Jobs[c][i]
  BY DEF Range
<1>2. PICK j \in DOMAIN Jobs[d] : r = Jobs[d][j]
  BY DEF Range
<1>3. \A x \in DOMAIN Jobs[c], y \in DOMAIN Jobs[d] :
          Jobs[c][x] = Jobs[d][y] /\ Jobs[c][x] # BadLine => c = d
  BY HandlerConstants
<1>4. r # BadLine
  BY HandlerConstants
<1> QED BY <1>1, <1>2, <1>3, <1>4

\* The fields of a handler.
LEMMA HandlerFields ==
    ASSUME TypeOK, NEW c \in Clients
    PROVE  /\ handler[c] \in HandlerSet
           /\ handler[c].pc \in States /\ handler[c].at \in Nat \ {0}
           /\ handler[c].ids \in Seq(Token) /\ Len(handler[c].ids) \in Nat
           /\ handler[c].out_lines \in Seq(Lines) /\ Len(handler[c].out_lines) \in Nat
           /\ handler \in [Clients -> HandlerSet]
<1>1. handler \in [Clients -> HandlerSet]
  BY DEF TypeOK, HandlerSet, States, Lines
<1>2. handler[c] \in HandlerSet
  BY <1>1
<1> QED BY <1>1, <1>2 DEF HandlerSet

\* Being at a request means being at its job.
LEMMA AtFacts ==
    ASSUME TypeOK, NEW c \in Clients, NEW r, At(c, r)
    PROVE  /\ handler[c].at \in DOMAIN Jobs[c]
           /\ Jobs[c][handler[c].at] = r
           /\ r \in Range(Jobs[c])
<1>1. handler[c].at \in 1..Len(Jobs[c])
  BY HandlerFields, JobFacts DEF At
<1> QED BY <1>1, JobFacts DEF At, Range

\* A queue holds items, all but the last of them tokens.
LEMMA QueueFacts ==
    ASSUME QueueShape, NEW r \in Requests
    PROVE  /\ out_queue[r] \in Seq(Items) /\ Len(out_queue[r]) \in Nat
           /\ \A i \in 1..Len(out_queue[r]) : out_queue[r][i] \in Items
           /\ \A i \in 1..Len(out_queue[r]) - 1 : out_queue[r][i][1] = "token"
           /\ out_queue \in [Requests -> Seq(Items)]
<1>1. out_queue \in [Requests -> Seq(Items)]
  BY DEF QueueShape, Items
<1>2. out_queue[r] \in Seq(Items)
  BY <1>1
<1> QED BY <1>1, <1>2 DEF QueueShape

\* An item is a token or a Done.
LEMMA ItemFacts ==
    ASSUME NEW x \in Items
    PROVE  /\ x[1] = "token" => x[2] \in Token /\ x = Streams!TokenItem(x[2])
           /\ x[1] = "done" => x[2] \in Reasons /\ x = Streams!DoneItem(x[2])
           /\ x[1] \in {"token", "done"}
BY DEF Items, Streams!TokenItem, Streams!DoneItem

\* What the worker puts for a token.
LEMMA TokenItemFacts ==
    ASSUME NEW t \in Token
    PROVE  /\ Streams!TokenItem(t) \in Items
           /\ Streams!TokenItem(t)[1] = "token" /\ Streams!TokenItem(t)[2] = t
BY DEF Items, Streams!TokenItem

\* What the worker puts at the end.
LEMMA DoneItemFacts ==
    ASSUME NEW reason \in Reasons
    PROVE  /\ Streams!DoneItem(reason) \in Items
           /\ Streams!DoneItem(reason)[1] = "done"
BY DEF Items, Streams!DoneItem

-----------------------------------------------------------------------------
(* Frames *)

\* One client's part of Progress, and of LinesAreAnswers.
ProgressOf(c) ==
    /\ Len(handler[c].out_lines) = handler[c].at - 1
    /\ handler[c].at <= Len(Jobs[c]) + 1
    /\ Reading(c) =>
        /\ \A i \in DOMAIN Jobs[c] :
              i > handler[c].at /\ MakesRequest(Jobs[c][i]) => taken[Jobs[c][i]] = 0
        /\ At(c, BadLine) => handler[c].ids = <<>>
        /\ \A r \in Requests : At(c, r) =>
            /\ taken[r] = Len(handler[c].ids)
            /\ taken[r] <= Len(out_queue[r])
            /\ \A i \in 1..taken[r] : out_queue[r][i] = Streams!TokenItem(handler[c].ids[i])

LinesOf(c) ==
    \A i \in DOMAIN handler[c].out_lines :
        LET r == Jobs[c][i] IN
        IF r = BadLine THEN handler[c].out_lines[i] = ErrorEntry
        ELSE Streams!Ended(out_queue[r]) /\ handler[c].out_lines[i] = Line(Tokens(out_queue[r]))

\* Only appends to queues that have not ended.
QueuesGrow ==
    \A r \in Requests :
        \/ out_queue'[r] = out_queue[r]
        \/ /\ ~Streams!Ended(out_queue[r])
           /\ \E x \in Items : out_queue'[r] = Append(out_queue[r], x)

\* What a client has read is not disturbed by what others do.
LEMMA ProgressFrame ==
    ASSUME TypeOK, QueueShape, QueuesGrow, NEW c \in Clients, ProgressOf(c),
           handler'[c].at = handler[c].at, handler'[c].ids = handler[c].ids,
           handler'[c].out_lines = handler[c].out_lines,
           Reading(c)' => Reading(c),
           Reading(c)' => \A r \in Requests : r \in Range(Jobs[c]) => taken'[r] = taken[r]
    PROVE  ProgressOf(c)'
<1>1. /\ Len(handler'[c].out_lines) = handler'[c].at - 1
      /\ handler'[c].at <= Len(Jobs[c]) + 1
  BY DEF ProgressOf
<1>2. SUFFICES ASSUME Reading(c)'
               PROVE  /\ \A i \in DOMAIN Jobs[c] :
                            i > handler'[c].at /\ MakesRequest(Jobs[c][i]) => taken'[Jobs[c][i]] = 0
                      /\ At(c, BadLine)' => handler'[c].ids = <<>>
                      /\ \A r \in Requests : At(c, r)' =>
                          /\ taken'[r] = Len(handler'[c].ids)
                          /\ taken'[r] <= Len(out_queue'[r])
                          /\ \A i \in 1..taken'[r] :
                                out_queue'[r][i] = Streams!TokenItem(handler'[c].ids[i])
  BY <1>1 DEF ProgressOf
<1>3. \A r : At(c, r)' <=> At(c, r)
  BY DEF At
<1>4. ASSUME NEW i \in DOMAIN Jobs[c], i > handler'[c].at, MakesRequest(Jobs[c][i])
      PROVE  taken'[Jobs[c][i]] = 0
  <2>1. Jobs[c][i] \in Requests /\ Jobs[c][i] \in Range(Jobs[c])
    BY <1>4, JobFacts DEF MakesRequest, Range
  <2>2. taken[Jobs[c][i]] = 0
    BY <1>2, <1>4 DEF ProgressOf
  <2> QED BY <1>2, <2>1, <2>2
<1>5. ASSUME NEW r \in Requests, At(c, r)
      PROVE  /\ taken'[r] = Len(handler'[c].ids)
             /\ taken'[r] <= Len(out_queue'[r])
             /\ \A i \in 1..taken'[r] :
                   out_queue'[r][i] = Streams!TokenItem(handler'[c].ids[i])
  <2>1. taken'[r] = taken[r] /\ taken[r] \in Nat
    BY <1>2, <1>5, AtFacts DEF TypeOK
  <2>2. /\ taken[r] = Len(handler[c].ids) /\ taken[r] <= Len(out_queue[r])
        /\ \A i \in 1..taken[r] : out_queue[r][i] = Streams!TokenItem(handler[c].ids[i])
    BY <1>2, <1>5 DEF ProgressOf
  <2>3. /\ Len(out_queue[r]) <= Len(out_queue'[r])
        /\ \A i \in 1..Len(out_queue[r]) : out_queue'[r][i] = out_queue[r][i]
    <3>1. out_queue[r] \in Seq(Items) /\ Len(out_queue[r]) \in Nat
      BY QueueFacts
    <3> HIDE DEF Items
    <3>2. ASSUME NEW x \in Items, out_queue'[r] = Append(out_queue[r], x)
          PROVE  /\ Len(out_queue[r]) <= Len(out_queue'[r])
                 /\ \A i \in 1..Len(out_queue[r]) : out_queue'[r][i] = out_queue[r][i]
      BY <3>1, <3>2
    <3> QED BY <3>1, <3>2 DEF QueuesGrow
  <2>4. Len(out_queue[r]) \in Nat
    BY QueueFacts
  <2>5. \A i \in 1..taken[r] : i \in 1..Len(out_queue[r])
    BY <2>1, <2>2, <2>4
  <2>6. taken'[r] <= Len(out_queue'[r])
    <3>1. Len(out_queue'[r]) \in Nat
      <4>1. out_queue[r] \in Seq(Items)
        BY QueueFacts
      <4>2. ASSUME NEW x \in Items PROVE Len(Append(out_queue[r], x)) \in Nat
        BY <4>1
      <4> QED BY <2>4, <4>2 DEF QueuesGrow
    <3> QED BY <2>1, <2>2, <2>3, <2>4, <3>1
  <2> QED BY <2>1, <2>2, <2>3, <2>5, <2>6
<1> QED BY <1>2, <1>3, <1>4, <1>5 DEF ProgressOf

\* A queue that has ended stays as it is, and so do the lines made of it.
LEMMA LinesFrame ==
    ASSUME TypeOK, QueuesGrow, Progress, NEW c \in Clients, LinesOf(c),
           handler'[c].out_lines = handler[c].out_lines
    PROVE  LinesOf(c)'
<1>1. SUFFICES ASSUME NEW i \in DOMAIN handler[c].out_lines, Jobs[c][i] # BadLine
               PROVE  out_queue'[Jobs[c][i]] = out_queue[Jobs[c][i]]
  BY ZenonT(60) DEF LinesOf, Streams!Ended, Tokens
<1>2. /\ Len(handler[c].out_lines) = handler[c].at - 1
      /\ handler[c].at <= Len(Jobs[c]) + 1
      /\ handler[c].at \in Nat /\ DOMAIN handler[c].out_lines = 1..Len(handler[c].out_lines)
  BY HandlerFields DEF Progress
<1>3. i \in DOMAIN Jobs[c]
  BY <1>2, JobFacts
<1>4. Jobs[c][i] \in Requests
  BY <1>1, <1>3, JobFacts
<1>5. Streams!Ended(out_queue[Jobs[c][i]])
  BY <1>1 DEF LinesOf
<1> QED BY <1>4, <1>5 DEF QueuesGrow

-----------------------------------------------------------------------------
(* Queues and types *)

\* Queues only grow, and not past a Done.
LEMMA QueueStep ==
    ASSUME QueueShape, [Next]_vars
    PROVE  QueuesGrow /\ QueueShape'
<1>1. CASE out_queue' = out_queue
  BY <1>1 DEF QueuesGrow, QueueShape
<1>2. ASSUME NEW r \in Requests, NEW x \in Items, ~Streams!Ended(out_queue[r]),
             out_queue' = [out_queue EXCEPT ![r] = Append(@, x)]
      PROVE  QueuesGrow /\ QueueShape'
  <2> DEFINE q == out_queue[r]
  <2>1. /\ q \in Seq(Items) /\ Len(q) \in Nat /\ out_queue \in [Requests -> Seq(Items)]
        /\ \A i \in 1..Len(q) : q[i] \in Items
        /\ \A i \in 1..Len(q) - 1 : q[i][1] = "token"
    BY QueueFacts
  <2>2. QueuesGrow
    BY <1>2, <2>1 DEF QueuesGrow
  <2>3. Len(q) # 0 => q[Len(q)][1] = "token"
    <3>1. SUFFICES ASSUME Len(q) # 0 PROVE q[Len(q)][1] = "token"
      OBVIOUS
    <3>2. q # <<>> /\ Len(q) \in 1..Len(q)
      BY <2>1, <3>1, EmptySeq
    <3>3. q[Len(q)][1] # "done"
      BY <1>2, <3>2 DEF Streams!Ended
    <3> QED BY <2>1, <3>2, <3>3, ItemFacts
  <2>4. /\ Append(q, x) \in Seq(Items) /\ Len(Append(q, x)) = Len(q) + 1
        /\ \A i \in 1..Len(q) : Append(q, x)[i] = q[i]
    <3> HIDE DEF Items
    <3> QED BY <2>1
  <2>5. \A i \in 1..Len(Append(q, x)) - 1 : Append(q, x)[i][1] = "token"
    <3> SUFFICES ASSUME NEW i \in 1..Len(Append(q, x)) - 1
                 PROVE  Append(q, x)[i][1] = "token"
      OBVIOUS
    <3>1. i \in 1..Len(q) /\ Append(q, x)[i] = q[i]
      BY <2>1, <2>4
    <3>2. CASE i = Len(q)
      BY <2>1, <2>3, <3>1, <3>2
    <3>3. CASE i # Len(q)
      BY <2>1, <3>1, <3>3
    <3> QED BY <3>2, <3>3
  <2>6. out_queue' = [out_queue EXCEPT ![r] = Append(q, x)]
    BY <1>2
  <2> HIDE DEF Items, q
  <2>7. out_queue' \in [Requests -> Seq(Items)]
    BY <2>1, <2>4, <2>6
  <2>8. ASSUME NEW p \in Requests
        PROVE  \A i \in 1..Len(out_queue'[p]) - 1 : out_queue'[p][i][1] = "token"
    <3>1. CASE p = r
      BY <2>1, <2>5, <2>6, <3>1
    <3>2. CASE p # r
      BY <2>1, <2>6, <3>2 DEF QueueShape
    <3> QED BY <3>1, <3>2
  <2> QED BY <2>2, <2>7, <2>8 DEF QueueShape, Items
<1>3. ASSUME NEW r \in Requests, Produce(r) PROVE QueuesGrow /\ QueueShape'
  <2>1. ASSUME NEW t \in Token, Streams!PutToken(r, t) PROVE QueuesGrow /\ QueueShape'
    BY <1>2, <2>1, TokenItemFacts DEF Streams!PutToken
  <2>2. ASSUME NEW reason \in Reasons, Streams!PutDone(r, reason)
        PROVE  QueuesGrow /\ QueueShape'
    BY <1>2, <2>2, DoneItemFacts DEF Streams!PutDone
  <2> QED BY <1>3, <2>1, <2>2 DEF Produce, Reasons
<1>4. ASSUME NEW r \in Requests, Get(r) PROVE out_queue' = out_queue
  BY <1>4 DEF Get
<1>5. ASSUME NEW c \in Clients, Submit(c) \/ Loop(c) \/ Disconnect(c)
      PROVE  out_queue' = out_queue
  BY <1>5 DEF Submit, Loop, Ask, ErrorLine, Respond, Disconnect
<1>6. CASE StartGet
  BY <1>1, <1>6 DEF StartGet
<1>7. CASE UNCHANGED vars
  BY <1>1, <1>7 DEF vars
<1> QED BY <1>1, <1>3, <1>4, <1>5, <1>6, <1>7 DEF Next

\* What becomes of a handler that is given an item.
LEMMA AfterFacts ==
    ASSUME NEW h \in HandlerSet, NEW r, NEW x \in Items, NEW g \in After(h, r, x)
    PROVE  /\ g \in HandlerSet
           /\ \/ /\ x[1] = "token" /\ g.pc = "ask" /\ g.at = h.at
                 /\ g.ids = Append(h.ids, x[2]) /\ g.out_lines = h.out_lines
              \/ /\ x[1] = "done" /\ g.pc = "ask" /\ g.at = h.at + 1
                 /\ g.ids = <<>> /\ g.out_lines = Append(h.out_lines, Line(h.ids))
              \/ /\ x[1] = "done" /\ g.pc = "failed" /\ g.at = h.at
                 /\ g.ids = h.ids /\ g.out_lines = h.out_lines
<1>1. h.at \in Nat \ {0} /\ h.ids \in Seq(Token) /\ h.out_lines \in Seq(Lines) /\ h.pc \in States
  BY DEF HandlerSet
<1>2. h.at + 1 \in Nat \ {0}
  BY <1>1
<1>3. CASE x[1] = "token"
  <2>1. g = [h EXCEPT !.pc = "ask", !.ids = Append(@, x[2])]
    BY <1>3 DEF After
  <2>2. x[2] \in Token
    BY <1>3, ItemFacts
  <2>3. Append(h.ids, x[2]) \in Seq(Token)
    BY <1>1, <2>2
  <2> QED BY <1>1, <1>3, <2>1, <2>3 DEF HandlerSet, States
<1>4. CASE x[1] = "done"
  <2>1. CASE g = [h EXCEPT !.pc = "failed"]
    BY <1>1, <1>4, <2>1 DEF HandlerSet, States
  <2>2. CASE g = [h EXCEPT !.pc = "ask", !.at = @ + 1, !.ids = <<>>,
                           !.out_lines = Append(@, Line(h.ids))]
    <3>1. Line(h.ids) \in Lines
      BY <1>1 DEF Line, Lines
    <3>2. Append(h.out_lines, Line(h.ids)) \in Seq(Lines) /\ <<>> \in Seq(Token)
      <4> HIDE DEF Lines
      <4> QED BY <1>1, <3>1
    <3> QED BY <1>1, <1>2, <1>4, <2>2, <3>2 DEF HandlerSet, States
  <2> QED BY <1>4, <2>1, <2>2 DEF After, AfterDone
<1> QED BY <1>3, <1>4, ItemFacts

\* A `get` that returns: what it returns, and for whom.
LEMMA GetFacts ==
    ASSUME TypeOK, QueueShape, GetsHaveReaders, NEW r \in Requests, Get(r)
    PROVE  /\ r \in busy /\ taken[r] \in Nat
           /\ taken[r] + 1 \in 1..Len(out_queue[r])
           /\ out_queue[r][taken[r] + 1] \in Items
           /\ \E c \in Clients :
                /\ r \in Range(Jobs[c])
                /\ handler[c].pc = "wait" => At(c, r)
                /\ handler[c].pc \in {"wait", "gone"}
                /\ IF handler[c].pc = "wait"
                   THEN \E h \in After(handler[c], r, out_queue[r][taken[r] + 1]) :
                            handler' = [handler EXCEPT ![c] = h]
                   ELSE UNCHANGED handler
<1>1. r \in busy /\ taken[r] < Len(out_queue[r])
  BY DEF Get
<1>2. taken[r] \in Nat /\ taken[r] + 1 \in 1..Len(out_queue[r])
  BY <1>1, QueueFacts DEF TypeOK
<1>3. out_queue[r][taken[r] + 1] \in Items
  BY <1>2, QueueFacts
<1>4. PICK c \in Clients :
        /\ r \in Range(Jobs[c])
        /\ IF handler[c].pc = "wait"
           THEN \E h \in After(handler[c], r, out_queue[r][taken[r] + 1]) :
                    handler' = [handler EXCEPT ![c] = h]
           ELSE UNCHANGED handler
  BY DEF Get
<1>5. PICK d \in Clients :
        r \in Range(Jobs[d]) /\ (handler[d].pc = "gone" \/ (handler[d].pc = "wait" /\ At(d, r)))
  BY <1>1 DEF GetsHaveReaders
<1>6. d = c
  BY <1>4, <1>5, OneReader
<1>7. (handler[c].pc = "wait" => At(c, r)) /\ handler[c].pc \in {"wait", "gone"}
  BY <1>5, <1>6
<1> QED BY <1>1, <1>2, <1>3, <1>4, <1>7

\* Every step keeps the types.
LEMMA StepTypes ==
    ASSUME TypeOK, QueueShape, GetsHaveReaders, [Next]_vars
    PROVE  TypeOK'
<1> DEFINE Types == /\ live \subseteq Requests /\ taken \in [Requests -> Nat]
                    /\ gets \in Seq(Requests) /\ busy \subseteq Requests
                    /\ handler \in [Clients -> HandlerSet]
<1>1. Types /\ (Types' => TypeOK')
  BY DEF TypeOK, HandlerSet, States, Lines
<1>2. ASSUME NEW c \in Clients, NEW s \in States, handler' = [handler EXCEPT ![c].pc = s]
      PROVE  handler' \in [Clients -> HandlerSet]
  <2>1. [handler[c] EXCEPT !.pc = s] \in HandlerSet
    BY <1>1 DEF HandlerSet
  <2> QED BY <1>1, <1>2, <2>1
<1>3. ASSUME NEW r \in Requests, Produce(r) PROVE Types'
  BY <1>1, <1>3 DEF Produce, executorVars
<1>4. ASSUME NEW r \in Requests, Get(r) PROVE Types'
  <2>1. /\ live' = live /\ gets' = gets
        /\ busy' = busy \ {r} /\ taken' = [taken EXCEPT ![r] = @ + 1]
    BY <1>4 DEF Get
  <2>2. taken' \in [Requests -> Nat]
    <3>1. taken[r] + 1 \in Nat
      BY <1>1
    <3> QED BY <1>1, <2>1, <3>1
  <2>3. handler' \in [Clients -> HandlerSet]
    <3>1. ASSUME NEW c \in Clients,
                 NEW h \in After(handler[c], r, out_queue[r][taken[r] + 1]),
                 handler' = [handler EXCEPT ![c] = h]
          PROVE  handler' \in [Clients -> HandlerSet]
      <4>1. h \in HandlerSet
        BY <1>4, GetFacts, AfterFacts, HandlerFields
      <4> QED BY <1>1, <3>1, <4>1
    <3> QED BY <1>1, <1>4, <3>1, GetFacts
  <2> QED BY <1>1, <2>1, <2>2, <2>3
<1>5. ASSUME NEW c \in Clients, Submit(c) PROVE Types'
  <2>1. /\ taken' = taken /\ gets' = gets /\ busy' = busy
        /\ live' = live \cup Made(c) /\ handler' = [handler EXCEPT ![c].pc = "ask"]
    BY <1>5 DEF Submit, executorVars
  <2>2. Made(c) \subseteq Requests
    BY JobFacts DEF Made, MakesRequest, Range
  <2>3. handler' \in [Clients -> HandlerSet]
    BY <1>2, <2>1 DEF States
  <2> QED BY <1>1, <2>1, <2>2, <2>3
<1>6. ASSUME NEW c \in Clients, Ask(c) PROVE Types'
  <2>1. PICK r \in Requests :
            /\ taken' = taken /\ live' = live /\ busy' = busy
            /\ gets' = Append(gets, r) /\ handler' = [handler EXCEPT ![c].pc = "wait"]
    BY <1>6 DEF Ask
  <2>2. handler' \in [Clients -> HandlerSet]
    BY <1>2, <2>1 DEF States
  <2> QED BY <1>1, <2>1, <2>2
<1>7. ASSUME NEW c \in Clients, ErrorLine(c) PROVE Types'
  <2>1. /\ taken' = taken /\ live' = live /\ busy' = busy /\ gets' = gets
        /\ handler' = [handler EXCEPT ![c].at = @ + 1, ![c].out_lines = Append(@, ErrorEntry)]
    BY <1>7 DEF ErrorLine, executorVars
  <2>2. handler[c].at + 1 \in Nat \ {0} /\ handler[c] \in HandlerSet
    BY HandlerFields
  <2>3. Append(handler[c].out_lines, ErrorEntry) \in Seq(Lines)
    <3>1. ErrorEntry \in Lines
      BY DEF ErrorEntry, Lines
    <3> HIDE DEF Lines
    <3> QED BY <3>1, HandlerFields
  <2>4. [handler[c] EXCEPT !.at = @ + 1] \in HandlerSet
    BY <2>2 DEF HandlerSet
  <2>5. [handler[c] EXCEPT !.at = @ + 1, !.out_lines = Append(@, ErrorEntry)] \in HandlerSet
    BY <2>3, <2>4 DEF HandlerSet
  <2>6. handler' = [handler EXCEPT ![c] =
                       [handler[c] EXCEPT !.at = @ + 1, !.out_lines = Append(@, ErrorEntry)]]
    BY <1>1, <2>1
  <2>7. handler' \in [Clients -> HandlerSet]
    BY <1>1, <2>5, <2>6
  <2> QED BY <1>1, <2>1, <2>7
<1>8. ASSUME NEW c \in Clients, Respond(c) PROVE Types'
  <2>1. handler' \in [Clients -> HandlerSet]
    BY <1>2, <1>8 DEF Respond, States
  <2> QED BY <1>1, <1>8, <2>1 DEF Respond, executorVars
<1>9. ASSUME NEW c \in Clients, Disconnect(c) PROVE Types'
  <2>1. handler' \in [Clients -> HandlerSet]
    BY <1>2, <1>9 DEF Disconnect, States
  <2>2. gets' \in Seq(Requests)
    BY <1>1, <1>9, WithoutFacts DEF Disconnect
  <2> QED BY <1>1, <1>9, <2>1, <2>2 DEF Disconnect
<1>10. CASE StartGet
  <2>1. gets # <<>> /\ busy' = busy \cup {Head(gets)} /\ gets' = Tail(gets)
    BY <1>10 DEF StartGet
  <2>2. Head(gets) \in Requests /\ Tail(gets) \in Seq(Requests)
    BY <1>1, <2>1, HeadFacts
  <2>3. live' = live /\ taken' = taken /\ handler' = handler
    BY <1>10 DEF StartGet
  <2> QED BY <1>1, <2>1, <2>2, <2>3
<1>11. CASE UNCHANGED vars
  BY <1>1, <1>11 DEF vars
<1> HIDE DEF Types
<1>12. ASSUME NEW c \in Clients, Submit(c) \/ Loop(c) \/ Disconnect(c) PROVE Types'
  BY <1>5, <1>6, <1>7, <1>8, <1>9, <1>12 DEF Loop
<1>13. ASSUME NEW r \in Requests, Produce(r) \/ Get(r) PROVE Types'
  BY <1>3, <1>4, <1>13
<1>14. CASE Next
  BY <1>1, <1>10, <1>12, <1>13, <1>14 DEF Next
<1> QED BY <1>11, <1>14

-----------------------------------------------------------------------------
(* At most one `get` for a queue *)

\* Every step keeps one reader for each get.
LEMMA StepReaders ==
    ASSUME TypeOK, QueueShape, GetsHaveReaders, [Next]_vars
    PROVE  GetsHaveReaders'
<1> DEFINE Waits(c, r) == handler[c].pc = "wait" /\ At(c, r)
           Left(c, r) == r \in Range(Jobs[c]) /\ handler[c].pc = "gone"
           Parts == /\ NoDuplicates(gets)
                    /\ Range(gets) \cap busy = {}
                    /\ \A r \in Range(gets) : \E c \in Clients : Waits(c, r)
                    /\ \A r \in busy : \E c \in Clients : Waits(c, r) \/ Left(c, r)
<1>1. Parts /\ gets \in Seq(Requests) /\ Range(gets) \subseteq Requests /\ busy \subseteq Requests
  BY RangeOfList DEF GetsHaveReaders, TypeOK
<1>2. TypeOK'
  BY StepTypes
<1>3. Parts' => GetsHaveReaders'
  <2>1. \A c \in Clients : \A r : Waits(c, r)' => r \in Range(Jobs[c])
    <3> SUFFICES ASSUME NEW c \in Clients, NEW r, Waits(c, r)' PROVE r \in Range(Jobs[c])
      OBVIOUS
    <3>1. handler'[c].at \in Nat \ {0} /\ handler'[c].at <= Len(Jobs[c])
      BY <1>2 DEF At, TypeOK
    <3> QED BY <3>1, JobFacts DEF At, Range
  <2> QED BY <2>1 DEF GetsHaveReaders
<1>4. ASSUME NEW c \in Clients, NEW s, handler' = [handler EXCEPT ![c].pc = s]
      PROVE  /\ \A d \in Clients : \A r : d # c => (Waits(d, r)' <=> Waits(d, r))
                                            /\ (Left(d, r)' <=> Left(d, r))
             /\ handler'[c].pc = s /\ \A r : At(c, r)' <=> At(c, r)
  <2>1. handler \in [Clients -> HandlerSet] /\ handler[c] \in HandlerSet
    BY HandlerFields
  <2>2. /\ handler'[c] = [handler[c] EXCEPT !.pc = s]
        /\ \A d \in Clients : d # c => handler'[d] = handler[d]
    BY <1>4, <2>1
  <2>3. handler'[c].pc = s /\ handler'[c].at = handler[c].at
    BY <2>1, <2>2 DEF HandlerSet
  <2> QED BY <2>2, <2>3 DEF At
<1>5. ASSUME NEW r \in Requests, Produce(r) PROVE Parts'
  BY <1>1, <1>5 DEF Produce, executorVars, At
<1>6. ASSUME NEW r \in Requests, Get(r) PROVE Parts'
  <2>1. /\ gets' = gets /\ busy' = busy \ {r} /\ r \in busy
    BY <1>6 DEF Get
  <2>2. PICK c \in Clients :
            /\ r \in Range(Jobs[c])
            /\ \A d \in Clients : d # c => handler'[d] = handler[d]
            /\ handler' = handler \/ (handler[c].pc = "wait" /\ At(c, r))
    <3>1. PICK c \in Clients :
            /\ r \in Range(Jobs[c])
            /\ handler[c].pc = "wait" => At(c, r)
            /\ IF handler[c].pc = "wait"
               THEN \E h \in After(handler[c], r, out_queue[r][taken[r] + 1]) :
                        handler' = [handler EXCEPT ![c] = h]
               ELSE UNCHANGED handler
      BY <1>6, GetFacts
    <3>2. CASE handler[c].pc = "wait"
      <4>1. PICK h : handler' = [handler EXCEPT ![c] = h]
        BY <3>1, <3>2
      <4>2. \A d \in Clients : d # c => handler'[d] = handler[d]
        BY <4>1, HandlerFields
      <4> QED BY <3>1, <3>2, <4>2
    <3> QED BY <3>1, <3>2
  <2>3. ASSUME NEW q \in Requests, q # r, NEW d \in Clients, Waits(d, q) \/ Left(d, q)
        PROVE  (Waits(d, q) => Waits(d, q)') /\ (Left(d, q) => Left(d, q)')
    <3>1. CASE handler' = handler
      BY <3>1 DEF At
    <3>2. CASE d # c
      BY <2>2, <3>2 DEF At
    <3>3. CASE handler[c].pc = "wait" /\ At(c, r) /\ d = c
      BY <2>3, <3>3 DEF At
    <3> QED BY <2>2, <3>1, <3>2, <3>3
  <2>4. r \notin Range(gets)
    BY <1>1, <2>1
  <2> HIDE DEF Waits, Left
  <2> QED BY <1>1, <2>1, <2>3, <2>4
<1>7. ASSUME NEW c \in Clients, Submit(c) PROVE Parts'
  <2>1. /\ gets' = gets /\ busy' = busy /\ handler[c].pc = "new"
        /\ handler' = [handler EXCEPT ![c].pc = "ask"]
    BY <1>7 DEF Submit, executorVars
  <2>2. \A d \in Clients : \A r : (Waits(d, r) => Waits(d, r)') /\ (Left(d, r) => Left(d, r)')
    BY <1>4, <2>1
  <2> HIDE DEF Waits, Left
  <2> QED BY <1>1, <2>1, <2>2
<1>8. ASSUME NEW c \in Clients, Ask(c) PROVE Parts'
  <2>1. PICK r \in Requests :
            /\ handler[c].pc = "ask" /\ At(c, r) /\ busy' = busy
            /\ gets' = Append(gets, r) /\ handler' = [handler EXCEPT ![c].pc = "wait"]
    BY <1>8 DEF Ask
  <2>2. \A d \in Clients : \A q : (Waits(d, q) => Waits(d, q)') /\ (Left(d, q) => Left(d, q)')
    BY <1>4, <2>1
  <2>3. Waits(c, r)'
    BY <1>4, <2>1
  <2>4. ASSUME NEW d \in Clients PROVE ~Waits(d, r) /\ ~Left(d, r)
    <3>1. r \in Range(Jobs[c])
      BY <2>1, AtFacts
    <3>2. CASE Waits(d, r)
      BY <2>1, <3>1, <3>2, AtFacts, OneReader
    <3>3. CASE Left(d, r)
      BY <2>1, <3>1, <3>3, OneReader
    <3> QED BY <3>2, <3>3
  <2> HIDE DEF Waits, Left
  <2>5. r \notin Range(gets) /\ r \notin busy
    BY <1>1, <2>4
  <2>6. Range(gets') = Range(gets) \cup {r} /\ NoDuplicates(gets')
    BY <1>1, <2>1, <2>5, AppendFacts
  <2> QED BY <1>1, <2>1, <2>2, <2>3, <2>5, <2>6
<1>9. ASSUME NEW c \in Clients, ErrorLine(c) PROVE Parts'
  <2>1. /\ gets' = gets /\ busy' = busy /\ handler[c].pc = "ask"
        /\ handler' = [handler EXCEPT ![c].at = @ + 1, ![c].out_lines = Append(@, ErrorEntry)]
    BY <1>9 DEF ErrorLine, executorVars
  <2>2. \A d \in Clients : d # c => handler'[d] = handler[d]
    BY <2>1, HandlerFields
  <2>3. \A d \in Clients : \A r : (Waits(d, r) => Waits(d, r)') /\ (Left(d, r) => Left(d, r)')
    BY <2>1, <2>2 DEF At
  <2> HIDE DEF Waits, Left
  <2> QED BY <1>1, <2>1, <2>3
<1>10. ASSUME NEW c \in Clients, Respond(c) PROVE Parts'
  <2>1. /\ gets' = gets /\ busy' = busy /\ handler[c].pc = "ask"
        /\ handler' = [handler EXCEPT ![c].pc = "returned"]
    BY <1>10 DEF Respond, executorVars
  <2>2. \A d \in Clients : \A r : (Waits(d, r) => Waits(d, r)') /\ (Left(d, r) => Left(d, r)')
    BY <1>4, <2>1
  <2> HIDE DEF Waits, Left
  <2> QED BY <1>1, <2>1, <2>2
<1>11. ASSUME NEW c \in Clients, Disconnect(c) PROVE Parts'
  <2>1. /\ busy' = busy /\ handler' = [handler EXCEPT ![c].pc = "gone"]
        /\ c \in Clients \ Batching
        /\ handler[c].pc \in {"ask", "wait"}
    BY <1>11, HandlerConstants DEF Disconnect
  <2>2. Len(Jobs[c]) = 1
    BY <2>1, HandlerConstants
  <2>3. \A r, q : r \in Range(Jobs[c]) /\ q \in Range(Jobs[c]) => r = q
    BY <2>2, JobFacts DEF Range
  <2>4. /\ NoDuplicates(gets') /\ Range(gets') \subseteq Range(gets)
        /\ \A r \in Range(gets') : r \notin Range(Jobs[c])
    <3>1. ASSUME NEW i \in DOMAIN gets, gets[i] \in Range(Jobs[c]), gets' = Without(gets, i)
          PROVE  /\ NoDuplicates(gets') /\ Range(gets') \subseteq Range(gets)
                 /\ \A r \in Range(gets') : r \notin Range(Jobs[c])
      <4>1. NoDuplicates(gets') /\ Range(gets') = Range(gets) \ {gets[i]}
        BY <1>1, <3>1, WithoutRange
      <4> QED BY <2>3, <3>1, <4>1
    <3>2. CASE Range(gets) \cap Range(Jobs[c]) = {} /\ gets' = gets
      BY <1>1, <3>2
    <3> QED BY <1>11, <3>1, <3>2 DEF Disconnect
  <2>5. ASSUME NEW d \in Clients, NEW r, Waits(d, r), r \notin Range(Jobs[c])
        PROVE  Waits(d, r)'
    BY <1>4, <2>1, <2>5, AtFacts
  <2>6. ASSUME NEW d \in Clients, NEW r, Waits(d, r) \/ Left(d, r)
        PROVE  Waits(d, r)' \/ Left(d, r)'
    BY <1>4, <2>1, <2>6, AtFacts
  <2> HIDE DEF Waits, Left
  <2> QED BY <1>1, <2>1, <2>4, <2>5, <2>6
<1>12. ASSUME StartGet PROVE Parts'
  <2>1. gets # <<>> /\ busy' = busy \cup {Head(gets)} /\ gets' = Tail(gets) /\ handler' = handler
    BY <1>12 DEF StartGet
  <2>2. \A d \in Clients : \A r : (Waits(d, r) => Waits(d, r)') /\ (Left(d, r) => Left(d, r)')
    BY <2>1 DEF At
  <2>3. /\ Range(gets) = {Head(gets)} \cup Range(gets')
        /\ NoDuplicates(gets') /\ Head(gets) \notin Range(gets')
    BY <1>1, <2>1, HeadFacts
  <2> HIDE DEF Waits, Left
  <2> QED BY <1>1, <2>1, <2>2, <2>3
<1>13. ASSUME UNCHANGED vars PROVE Parts'
  BY <1>1, <1>13 DEF vars, At
<1> HIDE DEF Parts
<1>14. ASSUME NEW c \in Clients, Submit(c) \/ Loop(c) \/ Disconnect(c) PROVE Parts'
  BY <1>7, <1>8, <1>9, <1>10, <1>11, <1>14 DEF Loop
<1>15. ASSUME NEW r \in Requests, Produce(r) \/ Get(r) PROVE Parts'
  BY <1>5, <1>6, <1>15
<1>16. Parts'
  BY <1>12, <1>13, <1>14, <1>15 DEF Next
<1> QED BY <1>3, <1>16

-----------------------------------------------------------------------------
(* Clients read what was put for them *)

\* A list of tokens read off a queue is what the queue starts with.
LEMMA ReadTokens ==
    ASSUME NEW q \in Seq(Items), NEW ids \in Seq(Token), Len(ids) <= Len(q),
           \A i \in 1..Len(ids) : q[i] = Streams!TokenItem(ids[i])
    PROVE  /\ Tokens(SubSeq(q, 1, Len(ids))) = ids
           /\ Streams!Ended(q) /\ Len(q) = Len(ids) + 1 => Tokens(q) = ids
<1> DEFINE n == Len(ids)
           s == SubSeq(q, 1, n)
<1>1. /\ n \in Nat /\ Len(q) \in Nat /\ ids = [i \in 1..n |-> ids[i]]
      /\ \A i \in 1..n : ids[i] \in Token
  OBVIOUS
<1>2. \A i \in 1..n : q[i][1] = "token" /\ q[i][2] = ids[i]
  BY <1>1, TokenItemFacts
<1>3. s = [i \in 1..n |-> q[i]] /\ Len(s) = n
  <2> HIDE DEF Items
  <2> QED BY <1>1
<1>4. ~Streams!Ended(s)
  <2>1. SUFFICES ASSUME s # <<>> PROVE s[Len(s)][1] # "done"
    BY DEF Streams!Ended
  <2>2. n # 0
    BY <1>3, <2>1
  <2> QED BY <1>1, <1>2, <1>3, <2>2
<1>5. Tokens(s) = [i \in 1..n |-> s[i][2]]
  BY <1>3, <1>4 DEF Tokens
<1>6. Tokens(s) = ids
  BY <1>1, <1>2, <1>3, <1>5
<1>7. ASSUME Streams!Ended(q), Len(q) = n + 1 PROVE Tokens(q) = ids
  <2>1. Tokens(q) = [i \in 1..n |-> q[i][2]]
    BY <1>1, <1>7 DEF Tokens
  <2> QED BY <1>1, <1>2, <2>1
<1> QED BY <1>6, <1>7

\* The reader of a `get` that returned, where it is there to go on.
LEMMA ReaderFacts ==
    ASSUME TypeOK, QueueShape, Progress, NEW r \in Requests, NEW c \in Clients,
           handler[c].pc = "wait", At(c, r)
    PROVE  /\ handler[c].at \in DOMAIN Jobs[c] /\ Jobs[c][handler[c].at] = r
           /\ ~At(c, BadLine)
           /\ taken[r] = Len(handler[c].ids)
           /\ taken[r] <= Len(out_queue[r])
           /\ \A i \in 1..taken[r] : out_queue[r][i] = Streams!TokenItem(handler[c].ids[i])
           /\ \A i \in DOMAIN Jobs[c] :
                 i > handler[c].at /\ MakesRequest(Jobs[c][i]) =>
                     taken[Jobs[c][i]] = 0 /\ Jobs[c][i] # r /\ Jobs[c][i] \in Requests
           /\ Len(handler[c].out_lines) = handler[c].at - 1
<1>1. handler[c].at \in DOMAIN Jobs[c] /\ Jobs[c][handler[c].at] = r
  BY AtFacts
<1>2. r # BadLine
  BY HandlerConstants
<1>3. Reading(c)
  BY DEF Reading
<1>4. ~At(c, BadLine)
  BY <1>1, <1>2 DEF At
<1>5. ASSUME NEW i \in DOMAIN Jobs[c], i > handler[c].at, MakesRequest(Jobs[c][i])
      PROVE  taken[Jobs[c][i]] = 0 /\ Jobs[c][i] # r /\ Jobs[c][i] \in Requests
  <2>1. Jobs[c][i] \in Requests
    BY <1>5, JobFacts DEF MakesRequest
  <2>2. taken[Jobs[c][i]] = 0
    BY <1>3, <1>5 DEF Progress
  <2>3. Jobs[c][i] # r
    <3>1. i # handler[c].at
      BY <1>5, HandlerFields, JobFacts
    <3> QED BY <1>1, <1>2, <3>1, JobFacts
  <2> QED BY <2>1, <2>2, <2>3
<1> QED BY <1>1, <1>3, <1>4, <1>5 DEF Progress

\* A get that returns moves its client by one item.
LEMMA GetProgress ==
    ASSUME TypeOK, QueueShape, GetsHaveReaders, Progress, NEW r \in Requests, Get(r)
    PROVE  Progress'
<1> DEFINE x == out_queue[r][taken[r] + 1]
           q == out_queue[r]
<1>1. /\ taken[r] \in Nat /\ taken[r] + 1 \in 1..Len(q) /\ x \in Items
      /\ taken' = [taken EXCEPT ![r] = @ + 1] /\ out_queue' = out_queue
      /\ taken \in [Requests -> Nat]
  BY GetFacts DEF Get, TypeOK
<1>2. PICK c \in Clients :
        /\ r \in Range(Jobs[c])
        /\ handler[c].pc = "wait" => At(c, r)
        /\ handler[c].pc \in {"wait", "gone"}
        /\ IF handler[c].pc = "wait"
           THEN \E h \in After(handler[c], r, x) : handler' = [handler EXCEPT ![c] = h]
           ELSE UNCHANGED handler
  BY GetFacts
<1> HIDE DEF x
<1>3. QueuesGrow
  BY <1>1 DEF QueuesGrow
<1>4. /\ \A d \in Clients : ProgressOf(d)
      /\ (\A d \in Clients : ProgressOf(d)') => Progress'
  BY DEF Progress, ProgressOf
<1>5. ASSUME NEW d \in Clients, d # c PROVE ProgressOf(d)'
  <2>1. handler'[d] = handler[d]
    BY <1>2, <1>5, HandlerFields
  <2>2. \A p \in Requests : p \in Range(Jobs[d]) => taken'[p] = taken[p]
    BY <1>1, <1>2, <1>5, OneReader
  <2> QED BY <1>3, <1>4, <2>1, <2>2, ProgressFrame DEF Reading
<1>6. ProgressOf(c)'
  <2>1. CASE handler[c].pc = "gone"
    <3>1. handler' = handler
      BY <1>2, <2>1
    <3>2. ~Reading(c)'
      BY <2>1, <3>1 DEF Reading
    <3> QED BY <1>3, <1>4, <3>1, <3>2, ProgressFrame
  <2>2. CASE handler[c].pc = "wait"
    <3>1. PICK h \in After(handler[c], r, x) : handler' = [handler EXCEPT ![c] = h]
      BY <1>2, <2>2
    <3>2. handler'[c] = h /\ At(c, r)
      BY <1>2, <2>2, <3>1, HandlerFields
    <3>3. /\ handler[c].at \in DOMAIN Jobs[c] /\ Jobs[c][handler[c].at] = r
          /\ ~At(c, BadLine)
          /\ taken[r] = Len(handler[c].ids)
          /\ \A i \in 1..taken[r] : q[i] = Streams!TokenItem(handler[c].ids[i])
          /\ \A i \in DOMAIN Jobs[c] :
                i > handler[c].at /\ MakesRequest(Jobs[c][i]) =>
                    taken[Jobs[c][i]] = 0 /\ Jobs[c][i] # r /\ Jobs[c][i] \in Requests
          /\ Len(handler[c].out_lines) = handler[c].at - 1
      BY <2>2, <3>2, ReaderFacts
    <3>4. /\ handler[c].at \in Nat \ {0} /\ Len(Jobs[c]) \in Nat
          /\ DOMAIN Jobs[c] = 1..Len(Jobs[c])
          /\ handler[c].ids \in Seq(Token) /\ handler[c].out_lines \in Seq(Lines)
      BY HandlerFields, JobFacts
    <3>5. \A i \in DOMAIN Jobs[c] :
              i > handler[c].at /\ MakesRequest(Jobs[c][i]) =>
                  taken'[Jobs[c][i]] = 0 /\ Jobs[c][i] # r
      BY <1>1, <3>3
    <3>6. CASE x[1] = "token" /\ h.at = handler[c].at
               /\ h.ids = Append(handler[c].ids, x[2]) /\ h.out_lines = handler[c].out_lines
      <4>1. x[2] \in Token /\ x = Streams!TokenItem(x[2])
        BY <1>1, <3>6, ItemFacts
      <4>2. /\ Len(h.ids) = taken[r] + 1 /\ h.ids[taken[r] + 1] = x[2]
            /\ \A i \in 1..taken[r] : h.ids[i] = handler[c].ids[i]
        BY <3>3, <3>4, <3>6, <4>1
      <4>3. taken'[r] = taken[r] + 1 /\ taken'[r] <= Len(q)
        BY <1>1, QueueFacts
      <4>4. ASSUME NEW i \in 1..taken[r] + 1 PROVE q[i] = Streams!TokenItem(h.ids[i])
        <5>1. CASE i = taken[r] + 1
          BY <4>1, <4>2, <5>1 DEF x
        <5>2. CASE i # taken[r] + 1
          <6>1. i \in 1..taken[r]
            BY <1>1, <5>2
          <6> QED BY <3>3, <4>2, <6>1
        <5> QED BY <5>1, <5>2
      <4>5. \A p : At(c, p)' => p = r
        BY <3>2, <3>3, <3>6 DEF At
      <4>6. ~At(c, BadLine)'
        BY <4>5, HandlerConstants
      <4>7. /\ Len(handler'[c].out_lines) = handler'[c].at - 1
            /\ handler'[c].at <= Len(Jobs[c]) + 1
        BY <3>2, <3>3, <3>4, <3>6
      <4>8. \A p \in Requests : At(c, p)' =>
                /\ taken'[p] = Len(handler'[c].ids)
                /\ taken'[p] <= Len(out_queue'[p])
                /\ \A i \in 1..taken'[p] :
                      out_queue'[p][i] = Streams!TokenItem(handler'[c].ids[i])
        BY <1>1, <3>2, <4>2, <4>3, <4>4, <4>5
      <4> QED BY <3>2, <3>5, <3>6, <4>6, <4>7, <4>8 DEF ProgressOf
    <3>7. CASE x[1] = "done" /\ h.at = handler[c].at + 1 /\ h.ids = <<>>
               /\ h.out_lines = Append(handler[c].out_lines, Line(handler[c].ids))
      <4>1. Len(h.out_lines) = Len(handler[c].out_lines) + 1
        <5>1. Line(handler[c].ids) \in Lines
          BY <3>4 DEF Line, Lines
        <5> HIDE DEF Lines
        <5> QED BY <3>4, <3>7, <5>1
      <4>2. /\ Len(handler'[c].out_lines) = handler'[c].at - 1
            /\ handler'[c].at <= Len(Jobs[c]) + 1
        BY <3>2, <3>3, <3>4, <3>7, <4>1
      <4>3. ASSUME NEW p \in Requests, At(c, p)' PROVE taken'[p] = 0
        <5>1. /\ handler[c].at + 1 \in DOMAIN Jobs[c] /\ p = Jobs[c][handler[c].at + 1]
              /\ handler[c].at + 1 > handler[c].at
          BY <3>2, <3>4, <3>7, <4>3 DEF At
        <5>2. MakesRequest(p)
          BY HandlerConstants DEF MakesRequest
        <5> QED BY <3>5, <5>1, <5>2
      <4>4. ASSUME NEW p \in Requests, At(c, p)'
            PROVE  /\ taken'[p] = Len(handler'[c].ids)
                   /\ taken'[p] <= Len(out_queue'[p])
                   /\ \A i \in 1..taken'[p] :
                         out_queue'[p][i] = Streams!TokenItem(handler'[c].ids[i])
        <5>1. Len(out_queue'[p]) \in Nat
          BY <1>1, QueueFacts
        <5> QED BY <3>2, <3>7, <4>3, <4>4, <5>1
      <4>5. \A i \in DOMAIN Jobs[c] :
                i > handler'[c].at /\ MakesRequest(Jobs[c][i]) => taken'[Jobs[c][i]] = 0
        BY <3>2, <3>4, <3>5, <3>7
      <4> QED BY <3>2, <3>7, <4>2, <4>4, <4>5 DEF ProgressOf
    <3>8. CASE h.pc = "failed" /\ h.at = handler[c].at /\ h.ids = handler[c].ids
               /\ h.out_lines = handler[c].out_lines
      <4>1. ~Reading(c)'
        BY <3>2, <3>8 DEF Reading
      <4> QED BY <1>3, <1>4, <3>2, <3>8, <4>1, ProgressFrame
    <3> QED BY <1>1, <3>6, <3>7, <3>8, AfterFacts, HandlerFields, SMTT(30)
  <2> QED BY <1>2, <2>1, <2>2
<1> QED BY <1>4, <1>5, <1>6

\* Every step keeps how far each client has come.
LEMMA StepProgress ==
    ASSUME TypeOK, QueueShape, GetsHaveReaders, Progress, [Next]_vars
    PROVE  Progress'
<1>1. QueuesGrow
  BY QueueStep
<1>2. /\ \A d \in Clients : ProgressOf(d)
      /\ (\A d \in Clients : ProgressOf(d)') => Progress'
  BY DEF Progress, ProgressOf
<1>3. ASSUME NEW c \in Clients, NEW s \in States, s # "new",
             handler' = [handler EXCEPT ![c].pc = s], taken' = taken,
             s \in {"ask", "wait"} => Reading(c)
      PROVE  Progress'
  <2>1. /\ handler'[c] = [handler[c] EXCEPT !.pc = s] /\ handler[c] \in HandlerSet
        /\ \A d \in Clients : d # c => handler'[d] = handler[d]
    BY <1>3, HandlerFields
  <2>2. /\ handler'[c].pc = s /\ handler'[c].at = handler[c].at
        /\ handler'[c].ids = handler[c].ids /\ handler'[c].out_lines = handler[c].out_lines
    BY <2>1 DEF HandlerSet
  <2>3. Reading(c)' => Reading(c)
    BY <1>3, <2>2 DEF Reading
  <2>4. ASSUME NEW d \in Clients PROVE ProgressOf(d)'
    <3>1. CASE d = c
      BY <1>1, <1>2, <1>3, <2>2, <2>3, <3>1, ProgressFrame
    <3>2. CASE d # c
      <4>1. handler'[d] = handler[d]
        BY <2>1, <3>2
      <4> QED BY <1>1, <1>2, <1>3, <4>1, ProgressFrame DEF Reading
    <3> QED BY <3>1, <3>2
  <2> QED BY <1>2, <2>4
<1>4. ASSUME handler' = handler, taken' = taken PROVE Progress'
  <2>1. ASSUME NEW d \in Clients PROVE ProgressOf(d)'
    BY <1>1, <1>2, <1>4, ProgressFrame DEF Reading
  <2> QED BY <1>2, <2>1
<1>5. ASSUME NEW c \in Clients, Submit(c) PROVE Progress'
  BY <1>3, <1>5 DEF Submit, States, Reading
<1>6. ASSUME NEW c \in Clients, Ask(c) PROVE Progress'
  <2>1. /\ handler[c].pc = "ask" /\ taken' = taken
        /\ handler' = [handler EXCEPT ![c].pc = "wait"]
    BY <1>6 DEF Ask
  <2> QED BY <1>3, <2>1 DEF States, Reading
<1>7. ASSUME NEW c \in Clients, Respond(c) PROVE Progress'
  BY <1>3, <1>7 DEF Respond, States
<1>8. ASSUME NEW c \in Clients, Disconnect(c) PROVE Progress'
  <2>1. taken' = taken /\ handler' = [handler EXCEPT ![c].pc = "gone"]
    BY <1>8 DEF Disconnect
  <2> QED BY <1>3, <2>1 DEF States
<1>9. ASSUME NEW c \in Clients, ErrorLine(c) PROVE Progress'
  <2>1. /\ handler[c].pc = "ask" /\ At(c, BadLine) /\ taken' = taken /\ out_queue' = out_queue
        /\ handler' = [handler EXCEPT ![c].at = @ + 1, ![c].out_lines = Append(@, ErrorEntry)]
    BY <1>9 DEF ErrorLine
  <2>2. \A d \in Clients : d # c => handler'[d] = handler[d]
    BY <2>1, HandlerFields
  <2>3. /\ handler'[c].at = handler[c].at + 1 /\ handler'[c].ids = handler[c].ids
        /\ handler'[c].out_lines = Append(handler[c].out_lines, ErrorEntry)
    <3>1. /\ handler'[c] = [handler[c] EXCEPT !.at = @ + 1, !.out_lines = Append(@, ErrorEntry)]
          /\ handler[c] \in HandlerSet
      BY <2>1, HandlerFields
    <3> QED BY <3>1 DEF HandlerSet
  <2>4. Reading(c)
    BY <2>1 DEF Reading
  <2>5. /\ Len(handler[c].out_lines) = handler[c].at - 1
        /\ handler[c].ids = <<>>
        /\ \A i \in DOMAIN Jobs[c] :
              i > handler[c].at /\ MakesRequest(Jobs[c][i]) => taken[Jobs[c][i]] = 0
    BY <1>2, <2>1, <2>4 DEF ProgressOf
  <2>6. /\ handler[c].at \in DOMAIN Jobs[c] /\ handler[c].at \in Nat
        /\ DOMAIN Jobs[c] = 1..Len(Jobs[c]) /\ Len(Jobs[c]) \in Nat
    BY <2>1, AtFacts, HandlerFields, JobFacts
  <2>7. Len(handler'[c].out_lines) = Len(handler[c].out_lines) + 1
    <3>1. ErrorEntry \in Lines
      BY DEF ErrorEntry, Lines
    <3>2. handler[c].out_lines \in Seq(Lines)
      BY HandlerFields
    <3> HIDE DEF Lines
    <3> QED BY <2>3, <3>1, <3>2
  <2>8. ASSUME NEW p \in Requests, At(c, p)'
        PROVE  /\ taken'[p] = Len(handler'[c].ids)
               /\ taken'[p] <= Len(out_queue'[p])
               /\ \A i \in 1..taken'[p] :
                     out_queue'[p][i] = Streams!TokenItem(handler'[c].ids[i])
    <3>1. /\ handler[c].at + 1 \in DOMAIN Jobs[c] /\ p = Jobs[c][handler[c].at + 1]
          /\ handler[c].at + 1 > handler[c].at
      BY <2>3, <2>6, <2>8 DEF At
    <3>2. MakesRequest(p)
      BY HandlerConstants DEF MakesRequest
    <3>3. taken'[p] = 0
      BY <2>1, <2>5, <3>1, <3>2
    <3>4. Len(out_queue'[p]) \in Nat
      BY <2>1, QueueFacts
    <3> QED BY <2>3, <2>5, <3>3, <3>4
  <2>9. /\ Len(handler'[c].out_lines) = handler'[c].at - 1
        /\ handler'[c].at <= Len(Jobs[c]) + 1
    BY <2>3, <2>5, <2>6, <2>7
  <2>10. \A i \in DOMAIN Jobs[c] :
             i > handler'[c].at /\ MakesRequest(Jobs[c][i]) => taken'[Jobs[c][i]] = 0
    <3> SUFFICES ASSUME NEW i \in DOMAIN Jobs[c], i > handler'[c].at, MakesRequest(Jobs[c][i])
                 PROVE  taken'[Jobs[c][i]] = 0
      OBVIOUS
    <3>1. i > handler[c].at
      BY <2>3, <2>6
    <3> QED BY <2>1, <2>5, <3>1
  <2>11. ProgressOf(c)'
    BY <2>3, <2>5, <2>8, <2>9, <2>10 DEF ProgressOf
  <2>12. ASSUME NEW d \in Clients, d # c PROVE ProgressOf(d)'
    <3>1. handler'[d] = handler[d]
      BY <2>2, <2>12
    <3> QED BY <1>1, <1>2, <2>1, <3>1, ProgressFrame DEF Reading
  <2> QED BY <1>2, <2>11, <2>12
<1>10. ASSUME NEW c \in Clients, Submit(c) \/ Loop(c) \/ Disconnect(c) PROVE Progress'
  BY <1>5, <1>6, <1>7, <1>8, <1>9, <1>10 DEF Loop
<1>11. ASSUME NEW r \in Requests, Produce(r) \/ Get(r) PROVE Progress'
  BY <1>4, <1>11, GetProgress DEF Produce
<1>12. StartGet \/ UNCHANGED vars => Progress'
  BY <1>4 DEF StartGet, vars
<1> QED BY <1>10, <1>11, <1>12 DEF Next

-----------------------------------------------------------------------------
(* Lines are answers *)

\* The line of a client that reaches the end of a queue.
LEMMA GetLines ==
    ASSUME TypeOK, QueueShape, GetsHaveReaders, Progress, LinesAreAnswers,
           NEW r \in Requests, Get(r)
    PROVE  LinesAreAnswers'
<1> DEFINE x == out_queue[r][taken[r] + 1]
           q == out_queue[r]
<1>1. /\ taken[r] \in Nat /\ taken[r] + 1 \in 1..Len(q) /\ x \in Items
      /\ out_queue' = out_queue
  BY GetFacts DEF Get
<1>2. PICK c \in Clients :
        /\ r \in Range(Jobs[c])
        /\ handler[c].pc = "wait" => At(c, r)
        /\ handler[c].pc \in {"wait", "gone"}
        /\ IF handler[c].pc = "wait"
           THEN \E h \in After(handler[c], r, x) : handler' = [handler EXCEPT ![c] = h]
           ELSE UNCHANGED handler
  BY GetFacts
<1> HIDE DEF x
<1>3. QueuesGrow
  BY <1>1 DEF QueuesGrow
<1>4. /\ \A d \in Clients : LinesOf(d)
      /\ (\A d \in Clients : LinesOf(d)') => LinesAreAnswers'
  BY DEF LinesAreAnswers, LinesOf
<1>5. ASSUME NEW d \in Clients, handler'[d].out_lines = handler[d].out_lines
      PROVE  LinesOf(d)'
  BY <1>3, <1>4, <1>5, LinesFrame
<1>6. CASE handler[c].pc = "gone"
  BY <1>2, <1>4, <1>5, <1>6
<1>7. CASE handler[c].pc = "wait"
  <2>1. PICK h \in After(handler[c], r, x) : handler' = [handler EXCEPT ![c] = h]
    BY <1>2, <1>7
  <2>2. /\ handler'[c] = h /\ At(c, r)
        /\ \A d \in Clients : d # c => handler'[d] = handler[d]
    BY <1>2, <1>7, <2>1, HandlerFields
  <2>3. /\ x[1] = "done" /\ h.out_lines = Append(handler[c].out_lines, Line(handler[c].ids))
        \/ h.out_lines = handler[c].out_lines
    BY <1>1, AfterFacts, HandlerFields
  <2>4. CASE h.out_lines = handler[c].out_lines
    BY <1>4, <1>5, <2>2, <2>4
  <2>5. CASE x[1] = "done" /\ h.out_lines = Append(handler[c].out_lines, Line(handler[c].ids))
    <3> DEFINE lines == handler[c].out_lines
               ids == handler[c].ids
    <3>1. /\ ids \in Seq(Token) /\ lines \in Seq(Lines) /\ Len(lines) \in Nat
          /\ handler[c].at \in Nat \ {0}
      BY HandlerFields
    <3>2. /\ Jobs[c][handler[c].at] = r
          /\ taken[r] = Len(ids)
          /\ \A i \in 1..Len(ids) : q[i] = Streams!TokenItem(ids[i])
          /\ Len(lines) = handler[c].at - 1
      BY <1>7, <2>2, ReaderFacts
    <3>3. Len(q) = Len(ids) + 1
      <4>1. ~(taken[r] + 1 \in 1..Len(q) - 1)
        BY <2>5, QueueFacts DEF x
      <4> QED BY <1>1, <3>2, <4>1, QueueFacts
    <3>4. Streams!Ended(q)
      <4>1. q # <<>> /\ q[Len(q)][1] = "done"
        BY <1>1, <2>5, <3>2, <3>3, EmptySeq, QueueFacts DEF x
      <4> QED BY <4>1 DEF Streams!Ended
    <3>5. Tokens(q) = ids
      <4>1. Len(ids) \in Nat /\ Len(ids) <= Len(q) /\ q \in Seq(Items)
        BY <3>1, <3>3, QueueFacts
      <4> HIDE DEF Items, q, ids
      <4> QED BY <3>1, <3>2, <3>3, <3>4, <4>1, ReadTokens
    <3>6. r # BadLine
      BY HandlerConstants
    <3>7. /\ DOMAIN h.out_lines = 1..Len(lines) + 1
          /\ h.out_lines[Len(lines) + 1] = Line(ids)
          /\ \A i \in 1..Len(lines) : h.out_lines[i] = lines[i] /\ i \in DOMAIN lines
      <4>1. Line(ids) \in Lines
        BY <3>1 DEF Line, Lines
      <4> HIDE DEF Lines
      <4> QED BY <2>5, <3>1, <4>1
    <3>8. ASSUME NEW i \in DOMAIN h.out_lines
          PROVE  IF Jobs[c][i] = BadLine THEN h.out_lines[i] = ErrorEntry
                 ELSE /\ Streams!Ended(out_queue[Jobs[c][i]])
                      /\ h.out_lines[i] = Line(Tokens(out_queue[Jobs[c][i]]))
      <4>1. CASE i = Len(lines) + 1
        <5>1. i = handler[c].at
          BY <3>1, <3>2, <4>1
        <5> QED BY <3>2, <3>4, <3>5, <3>6, <3>7, <4>1, <5>1
      <4>2. CASE i # Len(lines) + 1
        <5>1. i \in 1..Len(lines)
          BY <3>1, <3>7, <4>2
        <5>2. h.out_lines[i] = lines[i] /\ i \in DOMAIN lines
          BY <3>7, <5>1
        <5> QED BY <1>4, <5>2 DEF LinesOf
      <4> QED BY <4>1, <4>2
    <3>9. LinesOf(c)'
      BY <1>1, <2>2, <3>8 DEF LinesOf, Streams!Ended, Tokens
    <3> QED BY <1>4, <1>5, <2>2, <3>9
  <2> QED BY <2>3, <2>4, <2>5
<1> QED BY <1>2, <1>6, <1>7

\* Every step keeps the lines of batches true.
LEMMA StepLines ==
    ASSUME TypeOK, QueueShape, GetsHaveReaders, Progress, LinesAreAnswers, [Next]_vars
    PROVE  LinesAreAnswers'
<1>1. QueuesGrow
  BY QueueStep
<1>2. /\ \A d \in Clients : LinesOf(d)
      /\ (\A d \in Clients : LinesOf(d)') => LinesAreAnswers'
  BY DEF LinesAreAnswers, LinesOf
<1>3. ASSUME NEW d \in Clients, handler'[d].out_lines = handler[d].out_lines
      PROVE  LinesOf(d)'
  BY <1>1, <1>2, <1>3, LinesFrame
<1>4. ASSUME NEW c \in Clients, NEW s, handler' = [handler EXCEPT ![c].pc = s]
      PROVE  LinesAreAnswers'
  <2>1. ASSUME NEW d \in Clients PROVE handler'[d].out_lines = handler[d].out_lines
    <3>1. handler \in [Clients -> HandlerSet] /\ handler[c] \in HandlerSet
      BY HandlerFields
    <3>2. handler'[d] = IF d = c THEN [handler[c] EXCEPT !.pc = s] ELSE handler[d]
      BY <1>4, <3>1
    <3> QED BY <3>1, <3>2 DEF HandlerSet
  <2> QED BY <1>2, <1>3, <2>1
<1>5. ASSUME NEW c \in Clients, Submit(c) \/ Ask(c) \/ Respond(c) \/ Disconnect(c)
      PROVE  LinesAreAnswers'
  BY <1>4, <1>5 DEF Submit, Ask, Respond, Disconnect
<1>6. ASSUME NEW c \in Clients, ErrorLine(c) PROVE LinesAreAnswers'
  <2> DEFINE lines == handler[c].out_lines
  <2>1. /\ At(c, BadLine) /\ out_queue' = out_queue
        /\ handler' = [handler EXCEPT ![c].at = @ + 1, ![c].out_lines = Append(@, ErrorEntry)]
    BY <1>6 DEF ErrorLine
  <2>2. /\ handler'[c].out_lines = Append(lines, ErrorEntry)
        /\ \A d \in Clients : d # c => handler'[d] = handler[d]
    <3>1. /\ handler'[c] = [handler[c] EXCEPT !.at = @ + 1, !.out_lines = Append(@, ErrorEntry)]
          /\ handler[c] \in HandlerSet
          /\ \A d \in Clients : d # c => handler'[d] = handler[d]
      BY <2>1, HandlerFields
    <3> QED BY <3>1 DEF HandlerSet
  <2>3. /\ lines \in Seq(Lines) /\ Len(lines) \in Nat /\ handler[c].at \in Nat \ {0}
        /\ Len(lines) = handler[c].at - 1 /\ Jobs[c][handler[c].at] = BadLine
    BY <2>1, HandlerFields, AtFacts DEF Progress
  <2>4. /\ DOMAIN handler'[c].out_lines = 1..Len(lines) + 1
        /\ handler'[c].out_lines[Len(lines) + 1] = ErrorEntry
        /\ \A i \in 1..Len(lines) : handler'[c].out_lines[i] = lines[i] /\ i \in DOMAIN lines
    <3>1. ErrorEntry \in Lines
      BY DEF ErrorEntry, Lines
    <3> HIDE DEF Lines
    <3> QED BY <2>2, <2>3, <3>1
  <2>5. ASSUME NEW i \in DOMAIN handler'[c].out_lines
        PROVE  IF Jobs[c][i] = BadLine THEN handler'[c].out_lines[i] = ErrorEntry
               ELSE /\ Streams!Ended(out_queue[Jobs[c][i]])
                    /\ handler'[c].out_lines[i] = Line(Tokens(out_queue[Jobs[c][i]]))
    <3>1. CASE i = Len(lines) + 1
      <4>1. i = handler[c].at
        BY <2>3, <3>1
      <4> QED BY <2>3, <2>4, <3>1, <4>1
    <3>2. CASE i # Len(lines) + 1
      <4>1. i \in 1..Len(lines)
        BY <2>3, <2>4, <3>2
      <4>2. handler'[c].out_lines[i] = lines[i] /\ i \in DOMAIN lines
        BY <2>4, <4>1
      <4> QED BY <1>2, <4>2 DEF LinesOf
    <3> QED BY <3>1, <3>2
  <2>6. LinesOf(c)'
    BY <2>1, <2>5 DEF LinesOf, Streams!Ended, Tokens
  <2> QED BY <1>2, <1>3, <2>2, <2>6
<1>7. ASSUME NEW c \in Clients, Submit(c) \/ Loop(c) \/ Disconnect(c) PROVE LinesAreAnswers'
  BY <1>5, <1>6, <1>7 DEF Loop
<1>8. ASSUME NEW r \in Requests, Produce(r) \/ Get(r) PROVE LinesAreAnswers'
  <2>1. CASE Produce(r)
    BY <1>2, <1>3, <2>1 DEF Produce
  <2> QED BY <1>8, <2>1, GetLines
<1>9. StartGet \/ UNCHANGED vars => LinesAreAnswers'
  BY <1>2, <1>3 DEF StartGet, vars
<1> QED BY <1>7, <1>8, <1>9 DEF Next

-----------------------------------------------------------------------------
(* The theorems *)

\* At first nobody has asked for anything.
LEMMA InitHandlers == Init => HandlersInv
<1> SUFFICES ASSUME Init PROVE HandlersInv
  OBVIOUS
<1> DEFINE new == [pc |-> "new", at |-> 1, ids |-> <<>>, out_lines |-> <<>>]
<1>1. /\ out_queue = [r \in Requests |-> <<>>] /\ live = {} /\ gets = <<>> /\ busy = {}
      /\ taken = [r \in Requests |-> 0] /\ handler = [c \in Clients |-> new]
  BY DEF Init, Streams!Init
<1>2. /\ <<>> \in Seq(Token) /\ <<>> \in Seq(Lines) /\ <<>> \in Seq(Items)
      /\ <<>> \in Seq(Requests)
      /\ Len(<<>>) = 0 /\ Range(<<>>) = {} /\ NoDuplicates(<<>>)
  <2>1. \A S : <<>> \in Seq(S)
    OBVIOUS
  <2>2. Range(<<>>) = {} /\ NoDuplicates(<<>>)
    BY <2>1, RangeOfList
  <2>3. Len(<<>>) = 0
    OBVIOUS
  <2> QED BY <2>1, <2>2, <2>3
<1>3. new \in HandlerSet /\ 1 \in Nat \ {0}
  BY <1>2 DEF HandlerSet, States
<1>4. handler \in [Clients -> HandlerSet]
  BY <1>1, <1>3
<1>5. TypeOK
  BY <1>1, <1>2, <1>4 DEF TypeOK, HandlerSet, States, Lines
<1>6. QueueShape
  <2>1. out_queue \in [Requests -> Seq(Items)]
    BY <1>1, <1>2
  <2>2. \A r \in Requests : \A i \in 1..Len(out_queue[r]) - 1 : FALSE
    BY <1>1, <1>2
  <2> QED BY <2>1, <2>2 DEF QueueShape, Items
<1>7. GetsHaveReaders
  BY <1>1, <1>2 DEF GetsHaveReaders
<1>8. Progress
  <2> SUFFICES ASSUME NEW c \in Clients PROVE ProgressOf(c)
    BY DEF Progress, ProgressOf
  <2>1. handler[c] = new
    BY <1>1
  <2>2. handler[c].at = 1 /\ handler[c].ids = <<>> /\ handler[c].out_lines = <<>>
    BY <2>1
  <2>3. Len(Jobs[c]) \in Nat
    BY JobFacts
  <2>4. \A i \in DOMAIN Jobs[c] : MakesRequest(Jobs[c][i]) => taken[Jobs[c][i]] = 0
    BY <1>1, JobFacts DEF MakesRequest
  <2>5. \A r \in Requests : taken[r] = 0 /\ Len(out_queue[r]) = 0
    BY <1>1, <1>2
  <2> QED BY <1>2, <2>2, <2>3, <2>4, <2>5 DEF ProgressOf
<1>9. LinesAreAnswers
  BY <1>1, <1>2 DEF LinesAreAnswers
<1> QED BY <1>5, <1>6, <1>7, <1>8, <1>9 DEF HandlersInv

\* The inductive invariant of the handlers.
THEOREM HandlersAlways == Spec => []HandlersInv
<1>1. Init => HandlersInv
  BY InitHandlers
<1>2. HandlersInv /\ [Next]_vars => HandlersInv'
  BY QueueStep, StepTypes, StepReaders, StepProgress, StepLines DEF HandlersInv
<1> QED BY <1>1, <1>2, PTL DEF Spec

\* Types of executor and handlers (api/app.py, api/batches.py).
THEOREM HandlerTypesHold == Spec => []TypeOK
<1>1. HandlersInv => TypeOK
  BY DEF HandlersInv
<1> QED BY <1>1, HandlersAlways, PTL

\* A connected client has read exactly what was put for it, in order, and at
\* most one `get` is out for a queue.
THEOREM AlwaysReadsInOrder == Spec => []ReadsInOrder
<1>1. HandlersInv => ReadsInOrder
  <2> SUFFICES ASSUME HandlersInv, NEW c \in Clients, NEW r \in Requests,
                      handler[c].pc \in {"ask", "wait"}, At(c, r)
               PROVE  handler[c].ids = Tokens(SubSeq(out_queue[r], 1, taken[r]))
    BY DEF ReadsInOrder, HandlersInv, GetsHaveReaders
  <2>1. /\ taken[r] = Len(handler[c].ids) /\ taken[r] <= Len(out_queue[r])
        /\ \A i \in 1..taken[r] : out_queue[r][i] = Streams!TokenItem(handler[c].ids[i])
    BY DEF HandlersInv, Progress, Reading
  <2>2. out_queue[r] \in Seq(Items) /\ handler[c].ids \in Seq(Token)
    BY QueueFacts, HandlerFields DEF HandlersInv
  <2> HIDE DEF Items
  <2> QED BY <2>1, <2>2, ReadTokens
<1> QED BY <1>1, HandlersAlways, PTL

\* The lines of a batch are in the order of its input, each the whole answer to
\* its own request.
THEOREM LinesAlwaysAnswers == Spec => []LinesAreAnswers
<1>1. HandlersInv => LinesAreAnswers
  BY DEF HandlersInv
<1> QED BY <1>1, HandlersAlways, PTL
=============================================================================
