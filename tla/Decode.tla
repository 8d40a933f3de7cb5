------------------------------- MODULE Decode -------------------------------
(***************************************************************************)
(* The ways EngineRunner has to decode a batch: eagerly, by replaying a    *)
(* captured CUDA graph, and speculatively with the drafts of MTP heads;    *)
(* over the K/V of each slot and, for models with recurrent layers, the    *)
(* state per slot that RecurrentStateCache keeps.                          *)
(*                                                                         *)
(* What is abstracted.                                                     *)
(*  - A forward pass reads K/V and recurrent state and yields the most     *)
(*    likely next token, Argmax of the context, if what it reads is the    *)
(*    context; from anything else it may yield any token.                  *)
(*  - K/V computed for the last token of the context w is w; K/V that is   *)
(*    not what plain decoding computes is Rough.  Recurrent state is the   *)
(*    tokens it has consumed.                                              *)
(*  - The verify forward quantises the prefix again: what it writes is     *)
(*    Rough, but its most likely tokens are those of plain decoding.       *)
(*  - Blocks are PagedKVCache's business: a slot has room for              *)
(*    capacity[slot] blocks, and admission is one prompt at a time.        *)
(***************************************************************************)
EXTENDS Integers, Sequences, FiniteSets, Functions, Lists

CONSTANTS
    Requests, Prompt, MaxTokens, IgnoreEos, Eos, Token,
    Sampled,            \* requests with temperature > 0
    Argmax,             \* the most likely token after a context
    Models,             \* models to serve: [depths, recurrent, static]
    Slots,
    MaxNumSeqs,
    BlockSize, MaxBlocksPerSeq,
    BatchBuckets, ContextBucketSize, MaxGraphs,
    MaxDepths           \* bound: MTP heads of a model

NoSlot == "none"

ASSUME DecodeConstants ==
    /\ Prompt \in [Requests -> Seq(Token) \ {<<>>}]
    /\ MaxTokens \in [Requests -> Nat \ {0}]
    /\ IgnoreEos \subseteq Requests
    /\ Sampled \subseteq Requests
    /\ Models \subseteq [depths : 0..MaxDepths, recurrent : BOOLEAN, static : BOOLEAN]
    \* LLMEngine: one slot more than max_num_seqs, for the padding rows.
    /\ Cardinality(Slots) = MaxNumSeqs + 1
    /\ BatchBuckets \subseteq Nat \ {0}
    /\ {BlockSize, MaxBlocksPerSeq, ContextBucketSize} \subseteq Nat \ {0}
    /\ {MaxGraphs, MaxDepths} \subseteq Nat
    /\ NoSlot \notin Slots

VARIABLES
    model,       \* the model served; never changes
    running,     \* Scheduler.running
    slot,        \* Sequence.slot
    output_ids,  \* Sequence.output_ids
    length,      \* Sequence.length
    freeSlots,   \* _free_slots
    capacity,    \* blocks per slot
    kv,          \* K/V per slot and position
    state,       \* RecurrentStateCache: state and convolution tail per slot
    bound,       \* the slots its rows stand for: _slots or _row_idx
    graphs,      \* GraphedDecode._graphs, each with the contents of slot_idx
    scratch,     \* GraphedDecode._scratch_slot
    call         \* the decode under way: see Idle

vars == <<model, running, slot, output_ids, length, freeSlots, capacity, kv,
          state, bound, graphs, scratch, call>>

Rough == <<>>

\* `canon` lists, per request, the tokens of _canonicalize_accepted_kv from
\* position `from` on; `round` is its loop variable.
Idle == [pc |-> "idle", base |-> <<>>, drafts |-> <<>>,
         canon |-> <<>>, from |-> <<>>, round |-> 1]

MaxOf(S) == CHOOSE n \in S : \A m \in S : m <= n

\* Room in kv for every position that any path writes.
Positions == 1..MaxBlocksPerSeq * BlockSize + MaxDepths + 2

Init ==
    /\ model \in Models
    /\ running = <<>>
    /\ slot = [r \in Requests |-> NoSlot]
    /\ output_ids = [r \in Requests |-> <<>>]
    /\ length = [r \in Requests |-> 0]
    /\ freeSlots = Slots
    /\ capacity = [s \in Slots |-> 0]
    /\ kv = [s \in Slots |-> [p \in Positions |-> Rough]]
    /\ state = [s \in Slots |-> <<>>]
    /\ bound = <<>>
    /\ graphs = <<>>
    /\ scratch = NoSlot
    /\ call = Idle

-----------------------------------------------------------------------------
(* Sequences, slots and forward passes *)

BlocksFor(n) == (n + BlockSize - 1) \div BlockSize

\* Sequence.is_finished.
Finished(r) ==
    LET out == output_ids[r] IN
    \/ Len(out) >= MaxTokens[r]
    \/ r \notin IgnoreEos /\ out # <<>> /\ out[Len(out)] = Eos

\* Sequence.last_token, of the members of a batch; their slots and lengths.
LastTokens(batch) == [i \in DOMAIN batch |-> output_ids[batch[i]][Len(output_ids[batch[i]])]]
SlotsOf(batch)    == [i \in DOMAIN batch |-> slot[batch[i]]]
LengthsOf(batch)  == [i \in DOMAIN batch |-> length[batch[i]]]

\* ensure_capacity: the table of each member holds n[i] tokens.
Ensured(batch, n) ==
    LET Row(s) == CHOOSE i \in DOMAIN batch : slot[batch[i]] = s IN
    [s \in Slots |->
        IF s \in Range(SlotsOf(batch)) THEN MaxOf({capacity[s], BlocksFor(n[Row(s)])})
        ELSE capacity[s]]

\* A row of the block table has max_blocks_per_seq columns.
Fits(batch, blocks) == \A r \in Range(batch) : blocks[slot[r]] <= MaxBlocksPerSeq

\* The n tokens in the K/V of slot s, if the recurrent state of slot q is theirs.
Context(s, n, q) ==
    LET w == kv[s][n] IN
    IF /\ Len(w) = n
       /\ \A i \in 1..n : kv[s][i] = SubSeq(w, 1, i)
       /\ model.recurrent => state[q] = w
    THEN w ELSE Rough

Extend(w, u) == IF w = Rough THEN Rough ELSE w \o u

\* What sampling may return after the context w.
Sample(r, w) == {t \in Token : r \in Sampled \/ w = Rough \/ t = Argmax[w]}

\* The contexts in which rows, n[i] tokens into slot rows[i], predict after
\* tok[i].
Contexts(n, tok, rows) ==
    [i \in DOMAIN tok |-> Extend(Context(rows[i], n[i], rows[i]), <<tok[i]>>)]

\* K/V and state after a decode forward of these rows; further rows are
\* padding, at position 0.
RowOf(tok, rows, s) == CHOOSE i \in DOMAIN tok : rows[i] = s

Real(tok, rows) == {rows[i] : i \in DOMAIN tok}

KVAfter(n, tok, rows) ==
    [s \in Slots |->
        LET i == RowOf(tok, rows, s) IN
        IF s \in Real(tok, rows) THEN [kv[s] EXCEPT ![n[i] + 1] = Contexts(n, tok, rows)[i]]
        ELSE IF s \in Range(rows) THEN [kv[s] EXCEPT ![1] = Rough]
        ELSE kv[s]]

StateAfter(tok, rows) ==
    [s \in Slots |->
        IF ~model.recurrent THEN state[s]
        ELSE IF s \in Real(tok, rows) THEN Append(state[s], tok[RowOf(tok, rows, s)])
        ELSE IF s \in Range(rows) THEN <<>>
        ELSE state[s]]

Forward(n, tok, rows) ==
    /\ kv' = KVAfter(n, tok, rows)
    /\ state' = StateAfter(tok, rows)

\* Every member's sampled token is appended.
Append1(batch, tok) ==
    output_ids' = [r \in Requests |->
        IF \E i \in DOMAIN batch : batch[i] = r
        THEN Append(output_ids[r], tok[CHOOSE i \in DOMAIN batch : batch[i] = r])
        ELSE output_ids[r]]

Advance(batch) ==
    length' = [r \in Requests |-> IF r \in Range(batch) THEN length[r] + 1 ELSE length[r]]

\* One token for each row of `batch`, sampled after the contexts x.
Samples(batch, x) ==
    {tok \in [DOMAIN batch -> Token] : \A i \in DOMAIN batch : tok[i] \in Sample(batch[i], x[i])}

-----------------------------------------------------------------------------
(* prefill *)

\* A prompt is admitted and prefilled, from a cleared state (clear_slot);
\* its first token is sampled.
Prefill(r) ==
    LET w == Prompt[r] IN
    /\ call.pc = "idle"
    /\ output_ids[r] = <<>>
    /\ Len(running) < MaxNumSeqs
    \* Longer prompts do not get this far: see PastTable in Engine.
    /\ BlocksFor(Len(w)) <= MaxBlocksPerSeq
    /\ \E s \in freeSlots :
        /\ slot' = [slot EXCEPT ![r] = s]
        /\ freeSlots' = freeSlots \ {s}
        /\ capacity' = [capacity EXCEPT ![s] = BlocksFor(Len(w))]
        /\ kv' = [kv EXCEPT ![s] = [p \in Positions |->
                     IF p <= Len(w) THEN SubSeq(w, 1, p) ELSE @[p]]]
        /\ state' = [state EXCEPT ![s] = IF model.recurrent THEN w ELSE @]
        /\ bound' = <<s>>
    /\ \E t \in Sample(r, w) : output_ids' = [output_ids EXCEPT ![r] = <<t>>]
    /\ length' = [length EXCEPT ![r] = Len(w)]
    /\ running' = Append(running, r)
    /\ call' = [Idle EXCEPT !.pc = "post"]
    /\ UNCHANGED <<model, graphs, scratch>>

\* postprocess: what is finished gives its slot back, in order.
FreeFinished ==
    LET done == {i \in DOMAIN running : Finished(running[i])} IN
    /\ call.pc = "post"
    /\ \E i \in done :
        /\ \A j \in done : i <= j
        /\ running' = Without(running, i)
        /\ freeSlots' = freeSlots \cup {slot[running[i]]}
        /\ capacity' = [capacity EXCEPT ![slot[running[i]]] = 0]
    /\ UNCHANGED <<model, slot, output_ids, length, kv, state, bound, graphs, scratch, call>>

Postprocessed ==
    /\ call.pc = "post"
    /\ \A r \in Range(running) : ~Finished(r)
    /\ call' = Idle
    /\ UNCHANGED <<model, running, slot, output_ids, length, freeSlots, capacity,
                   kv, state, bound, graphs, scratch>>

-----------------------------------------------------------------------------
(* decode, by _decode_eager *)

\* decode: all members are greedy and the model has MTP heads.
Speculative == model.depths > 0 /\ \A r \in Range(running) : r \notin Sampled

\* GraphedDecode.batch_buckets: those the engine could schedule.
Buckets == {b \in BatchBuckets : b <= Cardinality(Slots)}

\* _check_supported: the device and every layer of the model can be captured
\* (no experts, latent cache or window), and there is a bucket.
Supported == model.static /\ Buckets # {}

\* try_decode's key: the smallest bucket of rows that holds the batch, and
\* the context rounded up.  <<0, 0>>: the batch exceeds all buckets.
Key ==
    LET fit == {b \in Buckets : Len(running) <= b}
        ctx == MaxOf({length[r] : r \in Range(running)}) + 1
        up  == ((ctx + ContextBucketSize - 1) \div ContextBucketSize) * ContextBucketSize
        cap == MaxBlocksPerSeq * BlockSize
    IN IF fit = {} THEN <<0, 0>>
       ELSE <<CHOOSE b \in fit : \A c \in fit : b <= c, IF up <= cap THEN up ELSE cap>>

\* try_decode returns None.
GraphMiss ==
    \/ ~Supported
    \/ Key = <<0, 0>>
    \/ Key \notin DOMAIN graphs /\ Cardinality(DOMAIN graphs) >= MaxGraphs

DecodeEager ==
    LET rows == SlotsOf(running)
        n    == LengthsOf(running)
        room == Ensured(running, [i \in DOMAIN n |-> n[i] + 1])
    IN
    /\ call.pc = "idle"
    /\ running # <<>>
    /\ ~Speculative
    /\ GraphMiss
    /\ Fits(running, room)
    /\ capacity' = room
    /\ bound' = rows
    /\ Forward(n, LastTokens(running), rows)
    /\ \E tok \in Samples(running, Contexts(n, LastTokens(running), rows)) :
        Append1(running, tok)
    /\ Advance(running)
    /\ call' = [Idle EXCEPT !.pc = "post"]
    /\ UNCHANGED <<model, running, slot, freeSlots, graphs, scratch>>

-----------------------------------------------------------------------------
(* decode, by GraphedDecode.try_decode *)

\* _capture of a new key: its rows stand for the scratch slot, which is
\* allocated the first time.  The warm-up writes there.
Capture ==
    /\ call.pc = "idle"
    /\ running # <<>>
    /\ ~Speculative
    /\ ~GraphMiss
    /\ Key \notin DOMAIN graphs
    /\ IF scratch = NoSlot
       THEN \E s \in freeSlots :
            /\ scratch' = s
            /\ freeSlots' = freeSlots \ {s}
            /\ capacity' = [capacity EXCEPT ![s] = 1]
       ELSE UNCHANGED <<scratch, freeSlots, capacity>>
    /\ LET rows == [i \in 1..Key[1] |-> scratch'] IN
        /\ graphs' = [k \in DOMAIN graphs \cup {Key} |-> IF k = Key THEN rows ELSE graphs[k]]
        /\ bound' = IF model.recurrent THEN rows ELSE bound
        /\ Forward(<<>>, <<>>, rows)
    /\ call' = [Idle EXCEPT !.pc = "replay"]
    /\ UNCHANGED <<model, running, slot, output_ids, length>>

\* No padding rows.
FaultyUnpadded(old) == SlotsOf(running)

\* Padding rows are left as they were.
FaultyFilled(old) ==
    [i \in DOMAIN old |-> IF i <= Len(running) THEN slot[running[i]] ELSE old[i]]

\* _fill_inputs: the members' slots, then the scratch slot.
Filled(old) ==
    [i \in DOMAIN old |-> IF i <= Len(running) THEN slot[running[i]] ELSE scratch]

\* _fill_inputs and replay.
Replay ==
    LET n    == LengthsOf(running)
        room == Ensured(running, [i \in DOMAIN n |-> n[i] + 1])
        rows == Filled(graphs[Key])
    IN
    /\ call.pc \in {"idle", "replay"}
    /\ running # <<>>
    /\ ~Speculative
    /\ Key \in DOMAIN graphs
    /\ Fits(running, room)
    /\ capacity' = room
    /\ graphs' = [graphs EXCEPT ![Key] = rows]
    /\ bound' = IF model.recurrent THEN rows ELSE bound
    /\ Forward(n, LastTokens(running), rows)
    /\ \E tok \in Samples(running, Contexts(n, LastTokens(running), rows)) :
        Append1(running, tok)
    /\ Advance(running)
    /\ call' = [Idle EXCEPT !.pc = "post"]
    /\ UNCHANGED <<model, running, slot, freeSlots, scratch>>

-----------------------------------------------------------------------------
(* decode, by _spec_decode_eager *)

\* The base forward, on the last token; then the MTP heads draft.  They keep
\* no K/V.
SpecBase ==
    LET rows == SlotsOf(running)
        n    == LengthsOf(running)
        room == Ensured(running, [i \in DOMAIN n |-> n[i] + 1])
    IN
    /\ call.pc = "idle"
    /\ running # <<>>
    /\ Speculative
    /\ Fits(running, room)
    /\ capacity' = room
    /\ bound' = rows
    /\ Forward(n, LastTokens(running), rows)
    /\ \E base \in Samples(running, Contexts(n, LastTokens(running), rows)),
          drafts \in [DOMAIN running -> [1..model.depths -> Token]] :
        call' = [Idle EXCEPT !.pc = "verify", !.base = base, !.drafts = drafts]
    /\ UNCHANGED <<model, running, slot, output_ids, length, freeSlots, graphs, scratch>>

\* Row i of the verify forward: the base token and the drafts.
VerifyIds(i) == <<call.base[i]>> \o call.drafts[i]

\* One position short.
FaultyVerifyRoom(n) == n + 1 + model.depths

\* The verify forward writes positions n + 1 to n + 1 + depths.
VerifyRoom(n) == n + 1 + (model.depths + 1)

\* The number of drafts that verification accepts, if the row's K/V and
\* state are the context w of the base token.
Matches(i, w) ==
    LET Accepted(m) == \A t \in 1..m :
            call.drafts[i][t] = Argmax[w \o SubSeq(VerifyIds(i), 1, t)]
    IN MaxOf({m \in 0..model.depths : Accepted(m)})

\* What it may accept: anything, if it reads anything else.
Verdicts(i) ==
    LET w == Context(slot[running[i]], length[running[i]] + 1, bound[i]) IN
    IF w = Rough THEN 0..model.depths ELSE {Matches(i, w)}

\* Accepted tokens are not capped by the budget.
FaultyAccepted(i, m) == SubSeq(VerifyIds(i), 1, m + 1)

\* The base token and m drafts, within max_tokens.
Accepted(i, m) ==
    LET r == running[i]
        left == MaxTokens[r] - Len(output_ids[r])
    IN SubSeq(VerifyIds(i), 1, MaxOf({1, IF m + 1 <= left THEN m + 1 ELSE left}))

\* All accepted tokens' K/V stays as verification wrote it.
FaultyIntermediate(accepted) == <<>>

\* canon_rows: the accepted tokens but the last, which the next base forward
\* writes.
Intermediate(accepted) == SubSeq(accepted, 1, Len(accepted) - 1)

\* The verify forward and the commitment of what it accepts.
SpecVerify ==
    LET n    == LengthsOf(running)
        room == Ensured(running, [i \in DOMAIN n |-> VerifyRoom(n[i])])
        Row(s) == CHOOSE i \in DOMAIN running : slot[running[i]] = s
        Fed(s) == CHOOSE i \in DOMAIN running : bound[i] = s
        Index(r) == CHOOSE i \in DOMAIN running : running[i] = r
    IN
    /\ call.pc = "verify"
    /\ capacity' = room
    /\ kv' = [s \in Slots |-> [p \in Positions |->
                 IF s \in Range(SlotsOf(running)) /\ p - n[Row(s)] \in 2..model.depths + 2
                 THEN Rough ELSE kv[s][p]]]
    /\ state' = [s \in Slots |->
                 IF model.recurrent /\ s \in Range(bound)
                 THEN state[s] \o VerifyIds(Fed(s)) ELSE state[s]]
    /\ \E m \in [DOMAIN running -> 0..model.depths] :
        /\ \A i \in DOMAIN running : m[i] \in Verdicts(i)
        /\ LET new == [i \in DOMAIN running |-> Accepted(i, m[i])] IN
            /\ output_ids' = [r \in Requests |->
                   IF r \in Range(running) THEN output_ids[r] \o new[Index(r)] ELSE output_ids[r]]
            /\ length' = [r \in Requests |->
                   IF r \in Range(running) THEN length[r] + Len(new[Index(r)]) ELSE length[r]]
            /\ call' = [call EXCEPT !.pc = "canon",
                   !.canon = [i \in DOMAIN running |-> Intermediate(new[i])],
                   !.from = [i \in DOMAIN running |-> n[i] + 1]]
    /\ UNCHANGED <<model, running, slot, freeSlots, bound, graphs, scratch>>

\* The members that _canonicalize_accepted_kv decodes again in this round; a
\* row keeps the index it had in the batch.
CanonRows == {i \in DOMAIN running : call.round <= Len(call.canon[i])}

\* A round of it: one batched decode forward whose logits are discarded.
Canonicalize ==
    LET batch == [i \in CanonRows |-> running[i]]
        n     == [i \in CanonRows |-> call.from[i] + call.round - 1]
        tok   == [i \in CanonRows |-> call.canon[i][call.round]]
        rows  == SlotsOf(batch)
        room  == Ensured(batch, [i \in CanonRows |-> n[i] + 1])
    IN
    /\ call.pc = "canon"
    /\ CanonRows # {}
    /\ Fits(batch, room)
    /\ capacity' = room
    /\ bound' = rows
    /\ Forward(n, tok, rows)
    /\ call' = [call EXCEPT !.round = @ + 1]
    /\ UNCHANGED <<model, running, slot, output_ids, length, freeSlots, graphs, scratch>>

CanonicalizeDone ==
    /\ call.pc = "canon"
    /\ CanonRows = {}
    /\ call' = [Idle EXCEPT !.pc = "post"]
    /\ UNCHANGED <<model, running, slot, output_ids, length, freeSlots, capacity,
                   kv, state, bound, graphs, scratch>>

\* A decode forward whose block table is too wide: RuntimeError, out of
\* step(), after which nothing is served any more (see EngineWorker).
TooWide ==
    /\ \/ /\ call.pc \in {"idle", "replay"}
          /\ running # <<>>
          /\ ~Fits(running, Ensured(running, [i \in DOMAIN running |-> length[running[i]] + 1]))
          /\ ~Speculative => GraphMiss \/ Key \in DOMAIN graphs
       \/ /\ call.pc = "canon"
          /\ CanonRows # {}
          /\ ~Fits([i \in CanonRows |-> running[i]], capacity)
    /\ call' = [Idle EXCEPT !.pc = "too_wide"]
    /\ UNCHANGED <<model, running, slot, output_ids, length, freeSlots, capacity,
                   kv, state, bound, graphs, scratch>>

Next ==
    \/ \E r \in Requests : Prefill(r)
    \/ FreeFinished
    \/ Postprocessed
    \/ DecodeEager
    \/ Capture
    \/ Replay
    \/ SpecBase
    \/ SpecVerify
    \/ Canonicalize
    \/ CanonicalizeDone
    \/ TooWide

Spec == Init /\ [][Next]_vars

-----------------------------------------------------------------------------
\* Types of the variables of Decode.
TypeOK ==
    /\ model \in Models
    /\ running \in Seq(Requests)
    /\ slot \in [Requests -> Slots \cup {NoSlot}]
    /\ output_ids \in [Requests -> Seq(Token)]
    /\ length \in [Requests -> Nat]
    /\ freeSlots \subseteq Slots
    /\ capacity \in [Slots -> Nat]
    /\ kv \in [Slots -> [Positions -> Seq(Token)]]
    /\ state \in [Slots -> Seq(Token)]
    /\ DOMAIN bound \subseteq Nat /\ Range(bound) \subseteq Slots
    /\ \A k \in DOMAIN graphs : graphs[k] \in [1..k[1] -> Slots]
    /\ scratch \in Slots \cup {NoSlot}
    /\ call \in [pc : {"idle", "replay", "verify", "canon", "post", "too_wide"},
                base : Seq(Token), drafts : Seq(Seq(Token)),
                canon : Seq(Seq(Token)), from : Seq(Nat), round : Nat \ {0}]

Greedy == INSTANCE GreedyDecoding

\* Whichever way each batch is decoded, and however batches and ways
\* alternate, a greedy request gets the tokens of plain greedy decoding, no
\* more than it asked for and none after eos_id.
ImplementsGreedyDecoding == Greedy!Spec

\* The prompt and everything generated so far.
History(r) == Prompt[r] \o output_ids[r]

\* Between calls the K/V of a running request is what plain decoding would
\* have left for all its tokens but the last, and its recurrent state has
\* consumed exactly these, each once.
CommittedIsHistory ==
    call.pc = "idle" => \A r \in Range(running) :
        LET w == SubSeq(History(r), 1, Len(History(r)) - 1) IN
        /\ length[r] = Len(w)
        /\ \A i \in 1..Len(w) : kv[slot[r]][i] = SubSeq(w, 1, i)
        /\ model.recurrent => state[slot[r]] = w

\* No forward pass writes K/V or state of a slot that no member owns, but
\* for the scratch slot; and nobody else owns that one.
OnlyMembersWritten ==
    [][\A s \in Slots :
          /\ kv'[s] # kv[s] \/ state'[s] # state[s] =>
                s \in {slot'[r] : r \in Range(running')} \cup {scratch'}
          /\ s = scratch' => s \notin {slot'[r] : r \in Range(running')} \cup freeSlots']_vars

\* The tables hold every position that a verify forward writes ("the earlier
\* `n + 1 + k` was one short and could IndexError").
VerifyHasRoom ==
    call.pc = "canon" => \A i \in DOMAIN running :
        capacity[slot[running[i]]] * BlockSize >= call.from[i] + model.depths + 1

-----------------------------------------------------------------------------
(* The inductive invariants behind them *)

\* Members have a slot each that is theirs alone, and a token that is not in
\* the K/V yet.
Members ==
    /\ NoDuplicates(running)
    /\ scratch \notin freeSlots
    /\ \A r \in Range(running) :
        /\ slot[r] \in Slots \ (freeSlots \cup {scratch})
        /\ output_ids[r] # <<>>
        /\ length[r] + 1 = Len(History(r))
    /\ \A q, r \in Range(running) : slot[q] = slot[r] => q = r

\* A graph has a bucket of rows, and a scratch slot for those that are spare.
GraphShape == \A k \in DOMAIN graphs : k[1] \in Buckets /\ scratch \in Slots

\* What a speculative step has in hand between its forwards.
SpecShape ==
    /\ call.pc = "verify" =>
        /\ Speculative
        /\ bound = SlotsOf(running)
        /\ call.round = 1
        /\ call.base \in [DOMAIN running -> Token]
        /\ call.drafts \in [DOMAIN running -> [1..model.depths -> Token]]
    /\ call.pc = "canon" =>
        /\ model.depths > 0
        /\ call.canon \in [DOMAIN running -> Seq(Token)]
        /\ call.from \in [DOMAIN running -> Nat \ {0}]

\* The accepted tokens but the last, which have still to be decoded again, are
\* those of the history.
CanonFollows ==
    call.pc = "canon" => \A i \in DOMAIN running :
        /\ call.from[i] + Len(call.canon[i]) = length[running[i]]
        /\ \A j \in 1..Len(call.canon[i]) :
              call.canon[i][j] = History(running[i])[call.from[i] + j]

ShapeInv == TypeOK /\ Members /\ GraphShape /\ SpecShape

\* Position p of r's slot is that of its history.
HoldsAt(r, p) == p \in Positions /\ kv[slot[r]][p] = SubSeq(History(r), 1, p)

\* CommittedIsHistory at each point of a call.
HistoryInv ==
    /\ CanonFollows
    /\ call.pc \in {"idle", "replay", "post"} => \A r \in Range(running) :
        /\ \A p \in 1..length[r] : HoldsAt(r, p)
        /\ model.recurrent => state[slot[r]] = SubSeq(History(r), 1, length[r])
    /\ call.pc = "verify" =>
        \A r \in Range(running) : \A p \in 1..length[r] + 1 : HoldsAt(r, p)
    /\ call.pc = "canon" => \A i \in DOMAIN running :
        \A p \in 1..length[running[i]] :
            p < call.from[i] + call.round => HoldsAt(running[i], p)

\* A member of a batch that is not decoded yet has not reached its end, and
\* the base token of a speculative step is that of plain decoding.
GreedyInv ==
    /\ \A r \in Requests :
        /\ r \notin Sampled => Greedy!IsGreedy(r, output_ids[r])
        /\ Greedy!StopsInTime(r, output_ids[r])
    /\ call.pc \in {"idle", "replay", "verify"} =>
        \A r \in Range(running) : ~Finished(r)
    /\ call.pc = "verify" => \A i \in DOMAIN running :
        call.base[i] = Argmax[History(running[i])]
=============================================================================
