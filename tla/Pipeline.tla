------------------------------- MODULE Pipeline -------------------------------
(***************************************************************************)
(* dist/pipeline.py: PipelineEngine, two stages of one model on two        *)
(* devices with a PagedKVCache each.                                       *)
(*                                                                         *)
(* The scheduler is that of Engine and knows the cache of stage 0 only,    *)
(* which is the cache of Engine.  PipelineEngine never calls alloc, free   *)
(* or share_blocks on the cache of stage 1: it uses its slots by index,    *)
(* and a table there only ever grows.  `far` is that cache.                *)
(*                                                                         *)
(* A forward of a micro-batch (all of a prefill, at most Micro sequences   *)
(* of a decode) goes through stage 0, over the wire and through stage 1.   *)
(* Hidden states are the token string they were computed from, or Garbage  *)
(* when a layer read something else; what is sampled is any token.         *)
(*                                                                         *)
(* What is abstracted: store_prefix on stage 1 adds references to blocks   *)
(* that no one releases and entries that no one looks up, so neither is    *)
(* kept.  The recurrent state of stage 0, which every micro-batch resets,  *)
(* is left out: the layers are attention layers.  The transport is the     *)
(* subject of Transport.                                                   *)
(***************************************************************************)
EXTENDS Engine

CONSTANT Micro  \* microbatch_size

ASSUME PipelineConstants == Micro \in Nat \ {0}

VARIABLES
    far,   \* cache of stage 1: free blocks, block table per slot, contents
    pipe   \* the forward under way: stage, members done there, the wire

pipeVars  == <<far, pipe>>
stageVars == <<vars, pipeVars>>

Garbage == <<>>

\* No micro-batch under way.
NoFlight == [stage |-> 0, done |-> 0, wire |-> <<>>]

PInit ==
    /\ Init
    /\ far = [free |-> Blocks, table |-> [s \in Slots |-> <<>>],
              kv |-> [b \in Blocks |-> Garbage]]
    /\ pipe = NoFlight

\* The members that go through the stages together: micros[k] of a decode.
Flight ==
    IF step.prefill THEN step.batch
    ELSE SubSeq(step.batch, step.cursor, Cache!MinOf(step.cursor + Micro - 1, Len(step.batch)))

PNeeded(r) == IF step.prefill THEN Len(prompt_ids[r]) ELSE Len(committed[slot[r]]) + 1

TableAt(stage, r) == IF stage = 0 THEN slotBlocks[slot[r]] ELSE far.table[slot[r]]

\* The stages whose tables ensure_capacity has to extend at this point: both
\* before a prefill, each before its own part of a decode.
Due == IF step.prefill THEN (IF pipe.stage = 0 THEN {0, 1} ELSE {}) ELSE {pipe.stage}

\* <<member, stage>> whose table is too short; members come first.
Lacking ==
    {w \in (DOMAIN Flight) \X Due :
        Len(TableAt(w[2], Flight[w[1]])) < Cache!BlocksFor(PNeeded(Flight[w[1]]))}

Neediest == CHOOSE w \in Lacking : \A v \in Lacking :
                w[1] < v[1] \/ (w[1] = v[1] /\ w[2] <= v[2])

InForward == step.pc = "forward"

\* A round of ensure_capacity of the first stage.
ExtendNear ==
    /\ InForward
    /\ Lacking # {}
    /\ Neediest[2] = 0
    /\ Cache!Grow(slot[Flight[Neediest[1]]])
    /\ UNCHANGED <<queueVars, step, seqVars, pipeVars>>

\* Reads the free list without taking the block off it.
FaultyExtendFar ==
    /\ InForward
    /\ Lacking # {}
    /\ Neediest[2] = 1
    /\ \E b \in far.free :
        far' = [far EXCEPT !.table[slot[Flight[Neediest[1]]]] = Append(@, b)]
    /\ UNCHANGED <<cacheVars, queueVars, step, seqVars, pipe>>

\* A round of ensure_capacity of the second.
ExtendFar ==
    /\ InForward
    /\ Lacking # {}
    /\ Neediest[2] = 1
    /\ \E b \in far.free :
        far' = [far EXCEPT !.free = @ \ {b},
                           !.table[slot[Flight[Neediest[1]]]] = Append(@, b)]
    /\ UNCHANGED <<cacheVars, queueVars, step, seqVars, pipe>>

\* ensure_capacity of either cache finds its pool dry and raises.
PoolDry ==
    /\ InForward
    /\ Lacking # {}
    /\ IF Neediest[2] = 0 THEN freeBlocks = {} ELSE far.free = {}
    /\ step' = Raised
    /\ pipe' = NoFlight
    /\ UNCHANGED <<cacheVars, queueVars, seqVars, far>>

\* A row of the micro-batch is wider than the block table of its stage.
RowTooWide ==
    /\ ~step.prefill
    /\ \E r \in Range(Flight) : Len(TableAt(pipe.stage, r)) > MaxBlocksPerSeq

TableRaises ==
    /\ InForward
    /\ Lacking = {}
    /\ RowTooWide
    /\ step' = Raised
    /\ pipe' = NoFlight
    /\ UNCHANGED <<cacheVars, queueVars, seqVars, far>>

\* What layers read that attend over the first n tokens of a table: the
\* string those were computed from, if the blocks fit together.
Reading(contents, table, n) ==
    LET w == contents[table[Cache!BlocksFor(n)]] IN
    IF /\ Len(w) = n
       /\ \A i \in 1..Cache!BlocksFor(n) :
            LET v == contents[table[i]]
                m == Cache!MinOf(n, i * BlockSize) IN
            Len(v) >= m /\ SubSeq(v, 1, m) = SubSeq(w, 1, m)
    THEN w ELSE Garbage

\* Stage 0 writes the K/V of the next member: of the whole prompt, shared
\* blocks included, or of its last token.
ForwardNear ==
    LET r == Flight[pipe.done + 1] IN
    /\ InForward
    /\ pipe.stage = 0
    /\ pipe.done < Len(Flight)
    /\ Lacking = {}
    /\ ~RowTooWide
    /\ IF step.prefill THEN Cache!WritePrefill(slot[r], 0)
                       ELSE Cache!WriteDecode(slot[r], LastToken(r))
    /\ pipe' = [pipe EXCEPT !.done = @ + 1]
    /\ UNCHANGED <<queueVars, step, seqVars, far>>

\* The hidden states that leave stage 0.  A prefill attends over the K/V it
\* has just computed, a decode over the blocks.
Leaving(r) ==
    IF step.prefill THEN prompt_ids[r]
    ELSE Reading(kv, slotBlocks[slot[r]], Len(committed[slot[r]]))

\* send and recv, in the order of the members.
Cross ==
    /\ InForward
    /\ pipe.stage = 0
    /\ pipe.done = Len(Flight)
    /\ pipe' = [stage |-> 1, done |-> 0, wire |-> [i \in DOMAIN Flight |-> Leaving(Flight[i])]]
    /\ UNCHANGED <<cacheVars, queueVars, step, seqVars, far>>

\* Uses the block table of stage 0.
FaultyFarTable(r) == slotBlocks[slot[r]]

\* The block table whose mapping stage 1 writes through.
FarTable(r) == far.table[slot[r]]

\* Stage 1 writes the K/V of the next member, computed from what came over
\* the wire.
ForwardFar ==
    LET r == Flight[pipe.done + 1]
        h == pipe.wire[pipe.done + 1]
        last == Cache!BlocksFor(Len(h)) IN
    /\ InForward
    /\ pipe.stage = 1
    /\ pipe.done < Len(Flight)
    /\ Lacking = {}
    /\ ~RowTooWide
    /\ far' = [far EXCEPT !.kv = [b \in Blocks |->
            IF \E i \in (IF step.prefill THEN 1 ELSE last)..last : FarTable(r)[i] = b
            THEN SubSeq(h, 1, Cache!MinOf(Len(h),
                    BlockSize * CHOOSE i \in 1..last : FarTable(r)[i] = b))
            ELSE @[b]]]
    /\ pipe' = [pipe EXCEPT !.done = @ + 1]
    /\ UNCHANGED <<cacheVars, queueVars, step, seqVars>>

\* Where the next micro-batch of a decode begins.
NextFlight == step.cursor + Len(Flight)

\* Sampling: a token for every member; then the next micro-batch.
SampleFlight ==
    /\ InForward
    /\ pipe.stage = 1
    /\ pipe.done = Len(Flight)
    /\ \E tok \in [Range(Flight) -> Token] :
        output_ids' = [r \in Requests |->
                          IF r \in Range(Flight) THEN Append(output_ids[r], tok[r])
                                                 ELSE output_ids[r]]
    /\ step' = CASE step.prefill -> [step EXCEPT !.pc = "store", !.cursor = 1]
                 [] ~step.prefill /\ NextFlight <= Len(step.batch) ->
                        [step EXCEPT !.cursor = NextFlight]
                 [] OTHER -> [step EXCEPT !.pc = "post", !.cursor = 1]
    /\ pipe' = NoFlight
    /\ UNCHANGED <<cacheVars, queueVars, status, seq_id, slot, prompt_ids, evictions, far>>

\* add_request, schedule, store_prefix on stage 0 and postprocess, which the
\* second stage does not hear of.
SchedulerPart ==
    /\ \/ \E r \in Requests : AddRequest(r)
       \/ BeginStep
       \/ AdmitHead
       \/ StartPrefill
       \/ PreemptOne
       \/ StartDecode
       \/ StoreNext
       \/ StoreLoop
       \/ StoreDone
       \/ FreeFinished
       \/ EndStep
    /\ UNCHANGED pipeVars

PNext ==
    \/ SchedulerPart
    \/ ExtendNear
    \/ ExtendFar
    \/ PoolDry
    \/ TableRaises
    \/ ForwardNear
    \/ Cross
    \/ ForwardFar
    \/ SampleFlight

PSpec == PInit /\ [][PNext]_stageVars

-----------------------------------------------------------------------------
\* The two stages compute what one model would, although the tables of
\* stage 1 still have the blocks of whoever used a slot before.  What comes
\* over the wire for a member is computed from its own history, the row of
\* nobody else, and between calls both stages hold the K/V of that history
\* (for sequences preempted at most once, as in HistoryInKV).
StagesHoldHistory ==
    /\ pipe.stage = 1 => \A i \in DOMAIN Flight :
        LET r == Flight[i] IN
        evictions[r] <= 1 => pipe.wire[i] = Prompt[r] \o output_ids[r]
    /\ step.pc = "idle" => \A r \in Range(running) :
        LET w == committed[slot[r]] IN
        evictions[r] <= 1 =>
            KVIsHistory(r) /\ Reading(far.kv, far.table[slot[r]], Len(w)) = w

\* Although the scheduler frees and reassigns slots behind its back, stage 1
\* never lends a block to two slots, twice to one, or loses one.
FarBlocksAreOwned ==
    /\ \A s, t \in Slots : \A i \in DOMAIN far.table[s], j \in DOMAIN far.table[t] :
            far.table[s][i] = far.table[t][j] => s = t /\ i = j
    /\ far.free = Blocks \ UNION {Range(far.table[s]) : s \in Slots}

-----------------------------------------------------------------------------
(* The inductive invariant behind StagesHoldHistory, with those of Engine  *)
(* and of PagedKVCache and with FarBlocksAreOwned                           *)

\* When a forward is under way, and how far it is.
FlightShape ==
    /\ ~InForward => pipe = NoFlight
    /\ InForward => step.batch # <<>> /\ pipe.done <= Len(Flight)
    /\ step.pc = "schedule" => step.cursor = 1

\* Member r of the micro-batch has been through a stage.
Through(stage, r) ==
    /\ InForward
    /\ \E i \in DOMAIN Flight :
        /\ Flight[i] = r
        /\ stage < pipe.stage \/ (stage = pipe.stage /\ i <= pipe.done)

\* What the slot of an active sequence has at stage 0: its prompt, and K/V
\* unless it has still to be prefilled.
SlotFollows(r) ==
    /\ prompt[slot[r]] = prompt_ids[r]
    /\ committed[slot[r]] = <<>> <=> Fresh(r) /\ ~Through(0, r)
    /\ Fresh(r) /\ Through(0, r) => committed[slot[r]] = prompt_ids[r]

\* What is on the wire: the context of each member.
WireFollows ==
    pipe.stage = 1 => pipe.wire = [i \in DOMAIN Flight |-> committed[slot[Flight[i]]]]

\* A prefill that has begun has the blocks it needs at stage 1.
FarRoom ==
    InForward /\ step.prefill /\ (pipe.stage = 1 \/ pipe.done > 0) =>
        \A i \in DOMAIN Flight :
            Cache!BlocksFor(Len(prompt_ids[Flight[i]])) <= Len(far.table[slot[Flight[i]]])

\* The context of an active sequence at stage 1: that of stage 0 but for
\* what has not crossed yet.
FarContext(r) ==
    LET w == committed[slot[r]] IN
    IF Through(1, r) THEN w
    ELSE IF Fresh(r) THEN <<>>
    ELSE IF Through(0, r) THEN ButLast(w)
    ELSE w

FarHolds(r) ==
    LET w == FarContext(r) IN
    w # <<>> =>
        /\ Cache!BlocksFor(Len(w)) <= Len(far.table[slot[r]])
        /\ Reading(far.kv, far.table[slot[r]], Len(w)) = w

\* KeepsHistory of Engine, at stage 0.
InNear(r) ==
    IF Through(0, r) THEN History(r) ELSE IF Fresh(r) THEN <<>> ELSE ButLast(History(r))

NearHistory(r) ==
    /\ evictions[r] = 0 => prompt_ids[r] = Prompt[r]
    /\ status[r] \in {"new", "waiting"} \/ Fresh(r) => prompt_ids[r] = History(r)
    /\ r \in ActiveSet => committed[slot[r]] = InNear(r)

StagesInv ==
    /\ FlightShape
    /\ step.pc # "dead" =>
        /\ WireFollows
        /\ FarRoom
        /\ \A r \in ActiveSet : SlotFollows(r) /\ FarHolds(r)
        /\ \A r \in Requests : evictions[r] <= 1 => NearHistory(r)
=============================================================================
