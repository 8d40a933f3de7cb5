----------------------------- MODULE Telemetry -----------------------------
(***************************************************************************)
(* metrics.py and its callers in api/runtime.py and engine/llm_engine.py:  *)
(* the engine worker records steps and the life of requests, the HTTP      *)
(* thread and the heartbeat take snapshots.  A method reads the clock      *)
(* before it takes the lock, so time may pass and the other threads may    *)
(* get the lock first.  A prompt is one token; time is in ticks; the KV    *)
(* and GPU gauges, which are read after the lock, are left out.            *)
(***************************************************************************)
EXTENDS Lists, FiniteSets, SequencesExt

CONSTANTS
    Reqs,           \* requests
    MaxTokens,      \* tokens of each request
    Readers,        \* threads that take snapshots
    WindowS,        \* window_s of ThroughputWindow
    LatencyWindow,  \* latency_window: the length of the latency deques
    MaxClock        \* bound of this model

\* What these parameters are.
TelemetryConstants ==
    /\ IsFiniteSet(Reqs) /\ MaxTokens \in [Reqs -> Nat \ {0}]
    /\ WindowS \in Nat /\ LatencyWindow \in Nat /\ MaxClock \in Nat

VARIABLE tele

NoTime == -1
Kinds == {"prefill", "decode"}
Reading == [pc |-> "off", now |-> NoTime, seen |-> 0, counters |-> <<>>, samples |-> <<>>, e2e |-> <<>>]

Init ==
    tele = [clock |-> 0, pc |-> "top", now |-> NoTime, todo |-> <<>>, pending |-> <<>>,
            kind |-> "prefill", tokens |-> 0,
            req |-> [r \in Reqs |-> [st |-> "new", out |-> 0, sent |-> 0,
                                     start |-> NoTime, first |-> NoTime, end |-> NoTime]],
            inflight |-> {}, total |-> 0, finished |-> 0,
            counted |-> [k \in Kinds |-> 0], rows |-> 0, told |-> 0,
            window |-> [k \in Kinds |-> <<>>], recorded |-> {},
            ttft |-> <<>>, e2e |-> <<>>,
            reader |-> [t \in Readers |-> Reading]]

\* deque(maxlen=n).append
AppendBounded(q, x) == LET s == Append(q, x) IN
    SubSeq(s, IF Len(s) > LatencyWindow THEN 2 ELSE 1, Len(s))

\* _evict: samples older than the window leave at the front.
Evict(q, now) ==
    LET fresh == {i \in DOMAIN q : q[i].at >= now - WindowS} IN
    IF fresh = {} THEN <<>> ELSE SubSeq(q, CHOOSE i \in fresh : \A j \in fresh : i <= j, Len(q))

\* _percentile: nearest rank, q in per cent; round() takes halves to even.
Percentile(sorted, q) ==
    LET x    == q * (Len(sorted) - 1)
        half == (x \div 100) + (IF x % 100 > 50 \/ (x % 100 = 50 /\ (x \div 100) % 2 = 1) THEN 1 ELSE 0) IN
    IF sorted = <<>> THEN 0 ELSE sorted[half + 1]

\* sorted(): a value goes where as many are before it, equal ones in order.
Rank(q, i) == Cardinality({j \in DOMAIN q : q[j] < q[i] \/ (q[j] = q[i] /\ j <= i)})
Ordered(q) == [k \in DOMAIN q |-> q[CHOOSE i \in DOMAIN q : Rank(q, i) = k]]

Tick ==
    /\ tele.clock < MaxClock
    /\ tele' = [tele EXCEPT !.clock = @ + 1]

-----------------------------------------------------------------------------
(* The worker *)

\* _register: add_request, then record_request_start.
Register(r) ==
    /\ tele.pc = "top"
    /\ tele.req[r].st = "new"
    /\ tele' = [tele EXCEPT
            !.req[r] = [tele.req[r] EXCEPT !.st = "waiting", !.start = tele.clock],
            !.pending = Append(@, r), !.total = @ + 1, !.inflight = @ \cup {r}]

In(st) == {r \in Reqs : tele.req[r].st = st}

\* step up to record_step: a prefill of waiting requests or a decode of all
\* running ones, a token for each.
Step(batch) ==
    LET prefill == In("waiting") # {} IN
    /\ tele.pc = "top"
    /\ IF prefill THEN batch \subseteq In("waiting") ELSE batch = In("running")
    /\ batch # {}
    /\ tele' = [tele EXCEPT
            !.pc = "step", !.kind = IF prefill THEN "prefill" ELSE "decode",
            !.tokens = Cardinality(batch),
            !.rows = @ + IF prefill THEN Cardinality(batch) ELSE 0,
            !.req = [r \in Reqs |-> IF r \in batch
                        THEN [tele.req[r] EXCEPT !.out = tele.req[r].out + 1,
                                                 !.st = IF tele.req[r].out + 1 = MaxTokens[r]
                                                        THEN "finished" ELSE "running"]
                        ELSE tele.req[r]]]

\* Done is put before the finish is recorded.
FaultyFollowing(pc, fin) ==
    CASE pc = "first"  -> "put"
      [] pc = "put"    -> IF fin THEN "done" ELSE "next"
      [] pc = "done"   -> "finish"
      [] pc = "finish" -> "next"

\* What _dispatch does for a request, in this order.
Following(pc, fin) ==
    CASE pc = "first"  -> "put"
      [] pc = "put"    -> IF fin THEN "finish" ELSE "next"
      [] pc = "finish" -> "done"
      [] pc = "done"   -> "next"

This == Head(tele.todo)
OnFrom(pc) == Following(pc, tele.req[This].st = "finished")

\* `now = time.perf_counter()`, before the lock.
ReadClock ==
    /\ tele.pc \in {"step", "first", "finish"}
    /\ tele.now = NoTime
    /\ tele' = [tele EXCEPT !.now = tele.clock]

\* record_step under the lock; _dispatch begins.
RecordStep ==
    /\ tele.pc = "step"
    /\ tele.now # NoTime
    /\ LET sample == [at |-> tele.now, tokens |-> tele.tokens] IN
       tele' = [tele EXCEPT
            !.counted[tele.kind] = tele.counted[tele.kind] + tele.tokens,
            !.window[tele.kind] = Evict(Append(tele.window[tele.kind], sample), tele.now),
            !.recorded = @ \cup {<<tele.kind, sample>>},
            !.pc = "next", !.todo = tele.pending, !.now = NoTime]

\* The loop over the pending requests; those that are done leave it at the end.
NextRequest ==
    /\ tele.pc = "next"
    /\ tele' = IF tele.todo = <<>>
               THEN [tele EXCEPT !.pc = "top",
                        !.pending = Picked(tele.pending, {i \in DOMAIN tele.pending :
                                        tele.req[tele.pending[i]].st # "finished"})]
               ELSE [tele EXCEPT !.pc = IF tele.req[This].sent = 0 /\ tele.req[This].out > 0
                                        THEN "first" ELSE "put"]

RecordFirst ==
    LET q == tele.req[This] IN
    /\ tele.pc = "first"
    /\ tele.now # NoTime
    /\ IF This \in tele.inflight /\ q.first = NoTime
       THEN tele' = [tele EXCEPT !.req[This].first = tele.now, !.now = NoTime, !.pc = OnFrom("first"),
                                 !.ttft = AppendBounded(tele.ttft, tele.now - q.start)]
       ELSE tele' = [tele EXCEPT !.now = NoTime, !.pc = OnFrom("first")]

PutTokens ==
    /\ tele.pc = "put"
    /\ tele' = [tele EXCEPT !.req[This].sent = tele.req[This].out, !.pc = OnFrom("put"),
                            !.todo = IF OnFrom("put") = "next" THEN Tail(tele.todo) ELSE tele.todo]

RecordFinish ==
    /\ tele.pc = "finish"
    /\ tele.now # NoTime
    /\ tele' = [tele EXCEPT
            !.inflight = @ \ {This}, !.finished = @ + 1, !.req[This].end = tele.now,
            !.e2e = AppendBounded(tele.e2e, tele.now - tele.req[This].start),
            !.now = NoTime, !.pc = OnFrom("finish"),
            !.todo = IF OnFrom("finish") = "next" THEN Tail(tele.todo) ELSE tele.todo]

\* out_queue.put(Done): the client knows.
PutDone ==
    /\ tele.pc = "done"
    /\ tele' = [tele EXCEPT !.told = @ + 1, !.pc = OnFrom("done"),
                            !.todo = IF OnFrom("done") = "next" THEN Tail(tele.todo) ELSE tele.todo]

-----------------------------------------------------------------------------
(* snapshot, on a thread of its own *)

SnapshotClock(t) ==
    /\ tele.reader[t].pc = "off"
    /\ tele' = [tele EXCEPT !.reader[t] =
                    [Reading EXCEPT !.pc = "lock", !.now = tele.clock, !.seen = tele.told]]

\* The locked part; rate() evicts too.
SnapshotRead(t) ==
    LET now == tele.reader[t].now
        win == [k \in Kinds |-> Evict(tele.window[k], now)] IN
    /\ tele.reader[t].pc = "lock"
    /\ tele' = [tele EXCEPT
            !.window = win,
            !.reader[t] = [pc |-> "read", now |-> now, seen |-> tele.reader[t].seen,
                counters |-> <<tele.total, tele.finished, Cardinality(tele.inflight)>>,
                samples |-> win, e2e |-> Ordered(tele.e2e)]]

SnapshotDone(t) ==
    /\ tele.reader[t].pc = "read"
    /\ tele' = [tele EXCEPT !.reader[t] = Reading]

Next ==
    \/ Tick
    \/ \E r \in Reqs : Register(r)
    \/ \E batch \in SUBSET Reqs : Step(batch)
    \/ ReadClock
    \/ RecordStep
    \/ NextRequest
    \/ RecordFirst
    \/ PutTokens
    \/ RecordFinish
    \/ PutDone
    \/ \E t \in Readers : SnapshotClock(t) \/ SnapshotRead(t) \/ SnapshotDone(t)

-----------------------------------------------------------------------------
\* Whoever was told Done before a snapshot began is counted as finished in
\* it; its counters add up; its rates take samples of the window only, and no
\* sample of the window is ever missing; between steps the tokens counted for
\* decoding, plus one a prefilled row, are the tokens generated; a request's
\* first token is timed once, between its start and its end.
MetricsAgree ==
    /\ \A t \in Readers : tele.reader[t].pc = "read" =>
        LET r == tele.reader[t] IN
        /\ r.counters[2] >= r.seen
        /\ r.counters[1] = r.counters[2] + r.counters[3]
        /\ \A k \in Kinds : \A i \in DOMAIN r.samples[k] : r.samples[k][i].at >= r.now - WindowS
        /\ Percentile(r.e2e, 50) <= Percentile(r.e2e, 99)
    /\ \A x \in tele.recorded : x[2].at >= tele.clock - WindowS => x[2] \in ToSet(tele.window[x[1]])
    /\ tele.pc = "top" => tele.counted["decode"] + tele.rows =
            SumFunction([r \in Reqs |-> tele.req[r].out])
    /\ \A r \in Reqs : tele.req[r].end # NoTime =>
            tele.req[r].first \in tele.req[r].start..tele.req[r].end
    /\ Len(tele.ttft) <= LatencyWindow /\ Len(tele.e2e) <= LatencyWindow
=============================================================================
