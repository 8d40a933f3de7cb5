------------------------------- MODULE Engine -------------------------------
(***************************************************************************)
(* LLMEngine.step with its Scheduler: continuous batching of requests over *)
(* the paged KV cache.                                                     *)
(*                                                                         *)
(* One call of step() is a run of actions, in the order the code makes     *)
(* its calls: admit or preempt (Scheduler.schedule), grow block tables,    *)
(* forward pass, sample, store prefixes, postprocess.  step.pc says where  *)
(* the call is.  Each action performs at most one action of PagedKVCache,  *)
(* so that every behaviour of the engine is a behaviour of the cache.      *)
(*                                                                         *)
(* What is abstracted.                                                     *)
(*  - The model: a forward pass samples any token for each batch member.   *)
(*  - Sequence.length is Len(committed[slot]) and prefix_matched_len is    *)
(*    matched[slot] of the cache module.                                   *)
(*  - Requests arrive between two calls of step only, as EngineWorker and  *)
(*    generate() arrange.                                                  *)
(* Not modelled here: encode(), speculative, captured-graph and diffusion  *)
(* decoding, the MLA cache.                                                *)
(*                                                                         *)
(* "Faulty" operators are plausible bugs, as in PagedKVCache.              *)
(***************************************************************************)
EXTENDS Integers, Sequences, FiniteSets, Functions, Lists

CONSTANTS
    Requests,
    Prompt,          \* Prompt[r]: prompt_ids as submitted
    MaxTokens,       \* MaxTokens[r]: params.max_tokens
    IgnoreEos,       \* requests with params.ignore_eos
    Eos,             \* eos_id
    MaxNumSeqs,      \* max_num_seqs
    MaxBatchTokens,  \* max_batch_tokens
    HasRecurrent     \* the model has recurrent layers: no packed prefill

\* Of PagedKVCache.
CONSTANTS Token, Prompts, Blocks, Slots, BlockSize, MaxBlocksPerSeq,
          MaxPrefixEntries, NoLimit, MaxClock

ASSUME EngineConstants ==
    /\ Prompt \in [Requests -> Prompts]
    /\ MaxTokens \in [Requests -> Nat \ {0}]
    /\ IgnoreEos \subseteq Requests
    /\ MaxNumSeqs \in Nat \ {0}
    /\ MaxBatchTokens \in Nat
    /\ HasRecurrent \in BOOLEAN
    /\ Prompts \subseteq Seq(Token) \ {<<>>}
    /\ IsFiniteSet(Blocks)
    /\ IsFiniteSet(Slots)
    /\ BlockSize \in Nat \ {0}
    /\ MaxBlocksPerSeq \in Nat \ {0}
    /\ MaxPrefixEntries \in Nat \cup {NoLimit}
    /\ MaxClock \in Nat

\* The cache, as in PagedKVCache.
VARIABLES freeBlocks, freeSlots, slotBlocks, refcount, prefixes, clock, store,
          kv, prompt, matched, committed

VARIABLES
    waiting,     \* Scheduler.waiting
    running,     \* Scheduler.running
    step,        \* the call of step() under way: see Returned
    status,      \* Sequence.status, or "new" before it is submitted
    seq_id,      \* Sequence.seq_id: order of arrival
    slot,        \* Sequence.slot
    prompt_ids,  \* Sequence.prompt_ids
    output_ids,  \* Sequence.output_ids
    evictions    \* history: how often a request was preempted

Cache == INSTANCE PagedKVCache

cacheVars == <<freeBlocks, freeSlots, slotBlocks, refcount, prefixes, clock,
               store, kv, prompt, matched, committed>>
queueVars == <<waiting, running>>
seqVars   == <<status, seq_id, slot, prompt_ids, output_ids, evictions>>
vars      == <<cacheVars, queueVars, step, seqVars>>

NoSlot == "none"

\* The cursor starts one too low.
FaultyReturned == [pc |-> "idle", batch |-> <<>>, prefill |-> FALSE,
                   tokens |-> 0, preempted |-> 0, cursor |-> 0]

\* No call of step() under way.  `batch` and `tokens` are schedule's own,
\* `preempted` counts its preemptions, `cursor` is the batch member at hand.
Returned == [pc |-> "idle", batch |-> <<>>, prefill |-> FALSE,
             tokens |-> 0, preempted |-> 0, cursor |-> 1]

\* An exception left step(): nobody calls it again.
Raised == [Returned EXCEPT !.pc = "dead"]

Init ==
    /\ Cache!Init
    /\ waiting = <<>>
    /\ running = <<>>
    /\ step = Returned
    /\ status = [r \in Requests |-> "new"]
    /\ seq_id = [r \in Requests |-> 0]
    /\ slot = [r \in Requests |-> NoSlot]
    /\ prompt_ids = Prompt
    /\ output_ids = [r \in Requests |-> <<>>]
    /\ evictions = [r \in Requests |-> 0]

\* Overlooks eos_id.
FaultyFinished(r) == Len(output_ids[r]) >= MaxTokens[r]

\* Sequence.is_finished.
Finished(r) ==
    LET out == output_ids[r] IN
    \/ Len(out) >= MaxTokens[r]
    \/ r \notin IgnoreEos /\ out # <<>> /\ out[Len(out)] = Eos

\* add_request.
AddRequest(r) ==
    /\ step.pc = "idle"
    /\ status[r] = "new"
    /\ status' = [status EXCEPT ![r] = "waiting"]
    /\ seq_id' = [seq_id EXCEPT ![r] = Cardinality({q \in Requests : status[q] # "new"})]
    /\ waiting' = Append(waiting, r)
    /\ UNCHANGED <<cacheVars, running, step, slot, prompt_ids, output_ids, evictions>>

-----------------------------------------------------------------------------
(* Scheduler.schedule *)

\* step() is called whenever has_work().
BeginStep ==
    /\ step.pc = "idle"
    /\ waiting # <<>> \/ running # <<>>
    /\ step' = [Returned EXCEPT !.pc = "schedule"]
    /\ UNCHANGED <<cacheVars, queueVars, seqVars>>

\* The condition of schedule's inner loop, and its break.
CanAdmit ==
    /\ waiting # <<>>
    /\ Len(running) + Len(step.batch) < MaxNumSeqs
    /\ freeSlots # {}
    /\ freeBlocks # {}
    /\ step.batch # <<>> => step.tokens + Len(prompt_ids[Head(waiting)]) <= MaxBatchTokens

\* Admit the head of the queue: slot, prefix lookup, shared blocks.
AdmitHead ==
    LET r == Head(waiting) IN
    /\ step.pc = "schedule"
    /\ CanAdmit
    /\ \E s \in freeSlots :
        /\ Cache!Admit(s, prompt_ids[r])
        /\ slot' = [slot EXCEPT ![r] = s]
    /\ waiting' = Tail(waiting)
    /\ status' = [status EXCEPT ![r] = "running"]
    /\ step' = [step EXCEPT !.batch = Append(@, r), !.tokens = @ + Len(prompt_ids[r])]
    /\ UNCHANGED <<running, seq_id, prompt_ids, output_ids, evictions>>

\* schedule returns a batch to prefill.
StartPrefill ==
    /\ step.pc = "schedule"
    /\ ~CanAdmit
    /\ step.batch # <<>>
    /\ step' = [step EXCEPT !.pc = "forward", !.prefill = TRUE]
    /\ UNCHANGED <<cacheVars, queueVars, seqVars>>

BlockPressure ==
    /\ waiting # <<>>
    /\ running # <<>>
    /\ freeSlots # {}
    /\ freeBlocks = {}

\* Of two running sequences the one with fewer generated tokens goes first,
\* of equals the earlier one.
GoesFirst(i, j) ==
    LET n(k) == Len(output_ids[running[k]]) IN
    \/ n(i) < n(j)
    \/ n(i) = n(j) /\ i <= j

VictimAt == CHOOSE i \in DOMAIN running : \A j \in DOMAIN running : GoesFirst(i, j)

\* The victim keeps its prompt as it was.
FaultyRequeue(r) ==
    /\ status' = [status EXCEPT ![r] = "waiting"]
    /\ slot' = [slot EXCEPT ![r] = NoSlot]
    /\ waiting' = Append(waiting, r)
    /\ evictions' = [evictions EXCEPT ![r] = @ + 1]
    /\ UNCHANGED <<prompt_ids, output_ids>>

\* The victim is queued again, last, with all its tokens for a prompt.
Requeue(r) ==
    /\ status' = [status EXCEPT ![r] = "waiting"]
    /\ prompt_ids' = [prompt_ids EXCEPT ![r] = @ \o output_ids[r]]
    /\ slot' = [slot EXCEPT ![r] = NoSlot]
    /\ waiting' = Append(waiting, r)
    /\ evictions' = [evictions EXCEPT ![r] = @ + 1]
    /\ UNCHANGED output_ids

\* _preempt_one; schedule then goes back to admitting.
PreemptOne ==
    LET r == running[VictimAt] IN
    /\ step.pc = "schedule"
    /\ ~CanAdmit
    /\ step.batch = <<>>
    /\ BlockPressure
    /\ step.preempted < MaxNumSeqs
    /\ running' = Without(running, VictimAt)
    /\ Cache!Free(slot[r])
    /\ IF Finished(r)
       THEN /\ status' = [status EXCEPT ![r] = "finished"]
            /\ UNCHANGED <<waiting, slot, prompt_ids, output_ids, evictions>>
       ELSE Requeue(r)
    /\ step' = [step EXCEPT !.preempted = @ + 1]
    /\ UNCHANGED seq_id

\* schedule returns the running set; step() returns at once if it is empty.
StartDecode ==
    /\ step.pc = "schedule"
    /\ ~CanAdmit
    /\ step.batch = <<>>
    /\ ~(BlockPressure /\ step.preempted < MaxNumSeqs)
    /\ step' = IF running = <<>> THEN Returned
               ELSE [step EXCEPT !.pc = "forward", !.batch = running]
    /\ UNCHANGED <<cacheVars, queueVars, seqVars>>

-----------------------------------------------------------------------------
(* EngineRunner.prefill, _prefill_varlen and _decode_eager *)

\* Tokens that member r must have room for in this forward pass.
Needed(r) ==
    IF step.prefill THEN Len(prompt_ids[r]) ELSE Len(committed[slot[r]]) + 1

\* Members whose tables ensure_capacity still has to grow.  The packed
\* prefill and decode grow all members first; a model with recurrent layers
\* prefills its members one by one.
Short ==
    {i \in DOMAIN step.batch :
        /\ i >= step.cursor
        /\ step.prefill /\ HasRecurrent => i = step.cursor
        /\ Len(slotBlocks[slot[step.batch[i]]]) < Cache!BlocksFor(Needed(step.batch[i]))}

FirstShort == step.batch[CHOOSE i \in Short : \A j \in Short : i <= j]

\* A round of the loop of ensure_capacity.
GrowTable ==
    /\ step.pc = "forward"
    /\ Short # {}
    /\ Cache!Grow(slot[FirstShort])
    /\ UNCHANGED <<queueVars, step, seqVars>>

\* ensure_capacity finds the pool dry: RuntimeError, out of step().
OutOfBlocks ==
    /\ step.pc = "forward"
    /\ Short # {}
    /\ freeBlocks = {}
    /\ step' = Raised
    /\ UNCHANGED <<cacheVars, queueVars, seqVars>>

\* Decode builds the batch's block table: max_blocks_per_seq columns.
TooWide ==
    /\ ~step.prefill
    /\ \E r \in Range(step.batch) : Len(slotBlocks[slot[r]]) > MaxBlocksPerSeq

\* A row does not fit its columns: RuntimeError, out of step().
PastTable ==
    /\ step.pc = "forward"
    /\ Short = {}
    /\ TooWide
    /\ step' = Raised
    /\ UNCHANGED <<cacheVars, queueVars, seqVars>>

Member == step.batch[step.cursor]

\* Sequence.last_token.
LastToken(r) ==
    LET ids == IF output_ids[r] # <<>> THEN output_ids[r] ELSE prompt_ids[r] IN
    ids[Len(ids)]

\* The forward pass writes one member's K/V.
WriteKV ==
    /\ step.pc = "forward"
    /\ step.cursor <= Len(step.batch)
    /\ Short = {}
    /\ ~TooWide
    /\ IF step.prefill
       THEN Cache!WritePrefill(slot[Member],
                IF Len(step.batch) > 1 /\ ~HasRecurrent THEN 0 ELSE matched[slot[Member]])
       ELSE Cache!WriteDecode(slot[Member], LastToken(Member))
    /\ step' = [step EXCEPT !.cursor = @ + 1]
    /\ UNCHANGED <<queueVars, seqVars>>

\* The token sampled by a prefill is dropped.
FaultyEmit ==
    /\ step.pc = "forward"
    /\ step.cursor > Len(step.batch)
    /\ \E tok \in [Range(step.batch) -> Token] :
        output_ids' = [r \in Requests |->
                          IF r \in Range(step.batch) /\ ~step.prefill
                          THEN Append(output_ids[r], tok[r])
                          ELSE output_ids[r]]
    /\ step' = [step EXCEPT !.pc = IF step.prefill THEN "store" ELSE "post", !.cursor = 1]
    /\ UNCHANGED <<cacheVars, queueVars, status, seq_id, slot, prompt_ids, evictions>>

\* Sampling: every member gets a token.
Emit ==
    /\ step.pc = "forward"
    /\ step.cursor > Len(step.batch)
    /\ \E tok \in [Range(step.batch) -> Token] :
        output_ids' = [r \in Requests |->
                          IF r \in Range(step.batch) THEN Append(output_ids[r], tok[r])
                                                     ELSE output_ids[r]]
    /\ step' = [step EXCEPT !.pc = IF step.prefill THEN "store" ELSE "post", !.cursor = 1]
    /\ UNCHANGED <<cacheVars, queueVars, status, seq_id, slot, prompt_ids, evictions>>

-----------------------------------------------------------------------------
(* After a prefill, store_prefix for each member; then postprocess *)

\* store_prefix of the next member: it returns at once if its prompt does
\* not fill a block.
StoreNext ==
    /\ step.pc = "store"
    /\ store = Cache!Idle
    /\ step.cursor <= Len(step.batch)
    /\ IF Cache!FullBlocks(prompt_ids[Member]) > 0
       THEN Cache!StoreBegin(slot[Member])
       ELSE UNCHANGED cacheVars
    /\ step' = [step EXCEPT !.cursor = @ + 1]
    /\ UNCHANGED <<queueVars, seqVars>>

\* The loop of store_prefix.
StoreLoop ==
    /\ step.pc = "store"
    /\ Cache!StoreBump \/ Cache!StoreEvict \/ Cache!StoreAdd
    /\ UNCHANGED <<queueVars, step, seqVars>>

\* Puts the new sequences before the old.
FaultyStoreDone ==
    /\ step.pc = "store"
    /\ store = Cache!Idle
    /\ step.cursor > Len(step.batch)
    /\ running' = step.batch \o running
    /\ step' = [step EXCEPT !.pc = "post"]
    /\ UNCHANGED <<cacheVars, waiting, seqVars>>

\* postprocess takes the prefilled batch over.
StoreDone ==
    /\ step.pc = "store"
    /\ store = Cache!Idle
    /\ step.cursor > Len(step.batch)
    /\ running' = running \o step.batch
    /\ step' = [step EXCEPT !.pc = "post"]
    /\ UNCHANGED <<cacheVars, waiting, seqVars>>

\* postprocess frees what is finished, in order.
FreeFinished ==
    LET done == {i \in DOMAIN running : Finished(running[i])} IN
    /\ step.pc = "post"
    /\ \E i \in done :
        /\ \A j \in done : i <= j
        /\ Cache!Free(slot[running[i]])
        /\ status' = [status EXCEPT ![running[i]] = "finished"]
        /\ running' = Without(running, i)
    /\ UNCHANGED <<waiting, step, seq_id, slot, prompt_ids, output_ids, evictions>>

EndStep ==
    /\ step.pc = "post"
    /\ \A r \in Range(running) : ~Finished(r)
    /\ step' = Returned
    /\ UNCHANGED <<cacheVars, queueVars, seqVars>>

StepCall ==
    \/ BeginStep
    \/ AdmitHead
    \/ StartPrefill
    \/ PreemptOne
    \/ StartDecode
    \/ GrowTable
    \/ OutOfBlocks
    \/ PastTable
    \/ WriteKV
    \/ Emit
    \/ StoreNext
    \/ StoreLoop
    \/ StoreDone
    \/ FreeFinished
    \/ EndStep

Next == StepCall \/ \E r \in Requests : AddRequest(r)

Spec == Init /\ [][Next]_vars

\* `while has_work(): step()`: the loop never pauses; callers may.
FairSpec == Spec /\ WF_vars(StepCall)

-----------------------------------------------------------------------------
\* Sequences schedule has admitted that postprocess has not taken over yet.
Prefilling ==
    IF step.pc = "schedule" \/ (step.prefill /\ step.pc \in {"forward", "store"})
    THEN step.batch ELSE <<>>

Active == running \o Prefilling

\* Types of the engine's own variables.
TypeOK ==
    /\ waiting \in Seq(Requests)
    /\ running \in Seq(Requests)
    /\ step \in [pc : {"idle", "schedule", "forward", "store", "post", "dead"},
                 batch : Seq(Requests), prefill : BOOLEAN,
                 tokens : Nat, preempted : Nat, cursor : Nat \ {0}]
    /\ status \in [Requests -> {"new", "waiting", "running", "finished"}]
    /\ seq_id \in [Requests -> Nat]
    /\ slot \in [Requests -> Slots \cup {NoSlot}]
    /\ prompt_ids \in [Requests -> Seq(Token)]
    /\ output_ids \in [Requests -> Seq(Token)]
    /\ evictions \in [Requests -> Nat]

\* Every allocated slot belongs to exactly one active sequence, at every
\* point of a call of step(), through preemptions and re-admissions: no slot
\* leaks, is freed twice, or is shared by two sequences.
SlotsOwned ==
    step.pc # "dead" =>
        /\ Cache!Allocated = {slot[r] : r \in Range(Active)}
        /\ \A q, r \in Range(Active) : slot[q] = slot[r] => q = r

\* A submitted request is in exactly one place: queued once, active once, or
\* finished; none is lost or scheduled twice.
EachInOnePlace ==
    step.pc # "dead" =>
        /\ NoDuplicates(waiting \o Active)
        /\ \A r \in Requests :
            /\ status[r] = "waiting" <=> r \in Range(waiting)
            /\ status[r] = "running" <=> r \in Range(Active)

History(r) == Prompt[r] \o output_ids[r]

ButLast(h) == SubSeq(h, 1, Len(h) - 1)

\* Whether a running sequence decodes from its own history: the blocks of
\* its slot hold the K/V of prompt and generation but for the last token,
\* and that is the token it feeds next.
KVIsHistory(r) ==
    LET h == History(r)
        w == ButLast(h) IN
    /\ LastToken(r) = h[Len(h)]
    /\ committed[slot[r]] = w
    /\ \A i \in 1..Cache!BlocksFor(Len(w)) : Cache!Holds(slotBlocks[slot[r]][i], w, i)

\* Between calls every sequence that was preempted at most once decodes from
\* its own history.  (At a second preemption _preempt_one appends to prompt_ids
\* tokens that stand in it already: see MatcherFollowsOutput in Structured.)
HistoryInKV ==
    step.pc = "idle" => \A r \in Range(running) : evictions[r] <= 1 => KVIsHistory(r)

\* Nothing is generated past max_tokens or past eos_id, whatever batches a
\* request went through, and between calls exactly the requests that reached
\* one of them have finished.
OutputEndsAtStop ==
    \A r \in Requests :
        /\ Len(output_ids[r]) <= MaxTokens[r]
        /\ \A i \in 1..Len(output_ids[r]) - 1 : output_ids[r][i] = Eos => r \in IgnoreEos
        /\ step.pc = "idle" => (status[r] = "finished" <=> Finished(r))

\* Preemption cannot thrash: each time a request is evicted it has generated
\* at least one token more than at the eviction before.
EvictionsPaidFor == \A r \in Requests : evictions[r] <= Len(output_ids[r])

\* "WAIT in FIFO" (Scheduler): requests that were never preempted are active
\* and queued in order of arrival, so none of them overtakes another.
ArrivalOrder ==
    LET line == Active \o waiting IN
    step.pc # "dead" =>
        \A i, j \in DOMAIN line :
            i < j /\ evictions[line[i]] = 0 /\ evictions[line[j]] = 0
                => seq_id[line[i]] < seq_id[line[j]]

-----------------------------------------------------------------------------
(* The inductive invariants behind them *)

\* Requests that have been submitted.
Arrived == {r \in Requests : status[r] # "new"}

\* What a call of step() has in hand at each point of it.
StepShape ==
    /\ step.pc = "schedule" => ~step.prefill
    /\ step.pc = "forward" /\ ~step.prefill => step.batch = running
    /\ step.pc = "store" => step.prefill
    /\ step.pc \in {"idle", "dead"} => step.batch = <<>>

ActiveSet == Range(running) \cup Range(Prefilling)

\* EachInOnePlace, list by list.
Places ==
    step.pc # "dead" =>
        /\ NoDuplicates(waiting) /\ NoDuplicates(running) /\ NoDuplicates(Prefilling)
        /\ Range(running) \cap Range(Prefilling) = {}
        /\ \A r \in Requests :
            /\ status[r] = "waiting" <=> r \in Range(waiting)
            /\ status[r] = "running" <=> r \in ActiveSet

\* Active sequences have the allocated slots, one each.
SlotOfEach ==
    /\ freeSlots \subseteq Slots
    /\ step.pc # "dead" =>
        /\ Slots \ freeSlots = {slot[r] : r \in ActiveSet}
        /\ \A q, r \in ActiveSet : slot[q] = slot[r] => q = r

PlacesInv == TypeOK /\ IsFiniteSet(Arrived) /\ StepShape /\ Places /\ SlotOfEach

\* When a sequence has reached its end, between sampling and postprocess it
\* may be active; at any other time it has finished.
EndIsNoticed ==
    \A r \in Requests :
        /\ Len(output_ids[r]) <= MaxTokens[r]
        /\ \A i \in 1..Len(output_ids[r]) - 1 : output_ids[r][i] = Eos => r \in IgnoreEos
        /\ status[r] = "finished" => Finished(r)
        /\ status[r] \in {"new", "waiting"} => ~Finished(r)
        /\ status[r] = "running" /\ step.pc \in {"idle", "schedule", "forward"} => ~Finished(r)

\* A sequence in the running list has a token from its last admission.
EvictionsPaidInv ==
    \A r \in Requests :
        /\ evictions[r] <= Len(output_ids[r])
        /\ r \in Range(running) => evictions[r] < Len(output_ids[r])
        /\ step.pc = "store" /\ r \in Range(step.batch) => evictions[r] < Len(output_ids[r])

\* Of two sequences in this order that were never preempted, the first came
\* first.
InOrder(q, r) == evictions[q] = 0 /\ evictions[r] = 0 => seq_id[q] < seq_id[r]

Ordered(line) == \A i, j \in DOMAIN line : i < j => InOrder(line[i], line[j])

Before(p, q) == \A x \in Range(p), y \in Range(q) : InOrder(x, y)

\* ArrivalOrder, list by list.
ArrivalInv ==
    /\ \A r \in Arrived : seq_id[r] < Cardinality(Arrived)
    /\ step.pc # "dead" =>
        /\ Ordered(running) /\ Ordered(Prefilling) /\ Ordered(waiting)
        /\ Before(running, Prefilling) /\ Before(running, waiting)
        /\ Before(Prefilling, waiting)

\* Members of a prefill that have no K/V and no token of it yet, and members
\* of either kind of batch whose K/V this forward pass has written.
Fresh(r) ==
    /\ r \in Range(step.batch)
    /\ step.pc = "schedule" \/ (step.pc = "forward" /\ step.prefill)

Written(r) ==
    /\ step.pc = "forward"
    /\ \E i \in DOMAIN step.batch : i < step.cursor /\ step.batch[i] = r

\* The part of its history that the slot of an active sequence has in KV.
InKV(r) ==
    IF Written(r) THEN History(r) ELSE IF Fresh(r) THEN <<>> ELSE ButLast(History(r))

\* HistoryInKV inside a call, and what it takes: the prompt of a sequence
\* that waits is all of its history.
KeepsHistory(r) ==
    /\ evictions[r] = 0 => prompt_ids[r] = Prompt[r]
    /\ status[r] \in {"new", "waiting"} \/ Fresh(r) => prompt_ids[r] = History(r)
    /\ r \in ActiveSet => prompt[slot[r]] = prompt_ids[r] /\ committed[slot[r]] = InKV(r)

HistoryInv ==
    step.pc # "dead" =>
        /\ step.pc = "schedule" => step.cursor = 1
        /\ \A r \in Requests : evictions[r] <= 1 => KeepsHistory(r)

-----------------------------------------------------------------------------
(* What comments in the code say and the code does not do *)

\* "bounded LAST RESORT for genuine KV-block-pool exhaustion ... so it can
\* never livelock" (Scheduler): a queued request is eventually admitted, or
\* step() has raised.
NeverLivelocks ==
    \A r \in Requests :
        status[r] = "waiting" ~> status[r] \in {"running", "finished"} \/ step.pc = "dead"
=============================================================================
