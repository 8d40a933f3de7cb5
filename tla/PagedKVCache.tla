----------------------------- MODULE PagedKVCache -----------------------------
(***************************************************************************)
(* engine/kv_cache.py, class PagedKVCache: a pool of fixed-size physical   *)
(* blocks, a block table per decode slot, reference counts, and a cache of *)
(* block-aligned prompt prefixes with LRU eviction.                        *)
(*                                                                         *)
(* What is abstracted.                                                     *)
(*  - The two free lists are sets: which free block or slot is popped is   *)
(*    any of them (the code pops the last).                                *)
(*  - refcount[b] = 0 stands for "b has no key in _block_refcount".        *)
(*  - The radix trie is the function from the token prefixes that carry an *)
(*    "_entry" to that entry; nodes without an entry hold no state.        *)
(*  - The int8 K/V tensors are one token string per block: kv[b] = w says  *)
(*    that the offsets of b written so far hold the K/V of the last tokens *)
(*    of w, computed in the context of all of w.  The contents of a block  *)
(*    nobody holds are garbage, <<>>.                                      *)
(*  - prompt, matched and committed are what the slot's Sequence knows     *)
(*    (prompt_ids, prefix_matched_len, and the tokens behind `length`).    *)
(*                                                                         *)
(* One Python call is one action, except store_prefix, which is one action *)
(* per block boundary (and per eviction); while one is under way `store`   *)
(* lets nothing else run, as in the single-threaded code.                  *)
(*                                                                         *)
(* Operators with "Faulty" in their name are not part of the               *)
(* specification: each is a plausible bug, kept beside the definition it   *)
(* stands in for, with which a property of this module must fail.          *)
(***************************************************************************)
EXTENDS Integers, Sequences, FiniteSets, Functions

CONSTANTS
    Token,             \* vocabulary
    Prompts,           \* prompts the callers may submit
    Blocks,            \* physical blocks (num_blocks of them)
    Slots,             \* decode slots
    BlockSize,         \* tokens per block
    MaxBlocksPerSeq,   \* width of the block table, ceil(max_len / block_size)
    MaxPrefixEntries,  \* max_prefix_entries, or NoLimit for Python's None
    NoLimit,
    MaxClock           \* bound: LRU ticks explored

ASSUME CacheConstants ==
    /\ IsFiniteSet(Blocks)
    /\ IsFiniteSet(Slots)
    /\ BlockSize \in Nat \ {0}
    /\ MaxBlocksPerSeq \in Nat \ {0}
    /\ MaxPrefixEntries \in Nat \cup {NoLimit}
    /\ MaxClock \in Nat
    /\ Prompts \subseteq Seq(Token) \ {<<>>}

VARIABLES
    freeBlocks,  \* _free_blocks
    freeSlots,   \* _free_slots
    slotBlocks,  \* _slot_blocks[slot]: block table of each slot
    refcount,    \* _block_refcount
    prefixes,    \* trie entries: token prefix -> [blocks, lru]
    clock,       \* the trie's "_lru" counter
    store,       \* the store_prefix call under way, or Idle
    kv,          \* contents of each block
    prompt,      \* prompt_ids of the sequence in each slot
    matched,     \* prefix_matched_len of the sequence in each slot
    committed    \* tokens whose K/V the slot has written (Len = length)

trieVars  == <<prefixes, clock, store>>
ownerVars == <<prompt, matched, committed>>
vars      == <<freeBlocks, freeSlots, slotBlocks, refcount,
               prefixes, clock, store, kv, prompt, matched, committed>>

Idle == [slot |-> "none"]

Allocated == Slots \ freeSlots

MinOf(a, b) == IF a <= b THEN a ELSE b

\* Blocks needed to hold n tokens.
BlocksFor(n) == (n + BlockSize - 1) \div BlockSize

\* Boundaries of a token string at which store_prefix keeps an entry.
FullBlocks(w) == Len(w) \div BlockSize

\* The first k blocks' worth of a token string: the key of an entry.
Boundary(w, k) == SubSeq(w, 1, k * BlockSize)

\* self._block_refcount.get(b, 1)
Ref(b) == IF refcount[b] = 0 THEN 1 ELSE refcount[b]

\* share_blocks without its increment.
FaultyIncref(B) == UNCHANGED refcount

\* Add a reference to every block of B (share_blocks, a new prefix entry).
Incref(B) ==
    refcount' = [b \in Blocks |-> IF b \in B THEN Ref(b) + 1 ELSE refcount[b]]

\* Frees the blocks without asking for their count.
FaultyReleaseShared(B) ==
    /\ refcount' = [b \in Blocks |-> IF b \in B THEN Ref(b) - 1 ELSE refcount[b]]
    /\ freeBlocks' = freeBlocks \cup B
    /\ kv' = [b \in Blocks |-> IF b \in B THEN <<>> ELSE kv[b]]

\* `c < 0` for `c <= 0`: the last reference never frees.
FaultyReleaseLeak(B) ==
    /\ refcount' = [b \in Blocks |-> IF b \in B THEN Ref(b) - 1 ELSE refcount[b]]
    /\ UNCHANGED <<freeBlocks, kv>>

\* Drop a reference to every block of B; what reaches zero is free again
\* (the loops of free and of _evict_one_prefix).
Release(B) ==
    LET dead == {b \in B : Ref(b) - 1 <= 0} IN
    /\ refcount' = [b \in Blocks |-> IF b \in B THEN Ref(b) - 1 ELSE refcount[b]]
    /\ freeBlocks' = freeBlocks \cup dead
    /\ kv' = [b \in Blocks |-> IF b \in dead THEN <<>> ELSE kv[b]]

-----------------------------------------------------------------------------
Init ==
    /\ freeBlocks = Blocks
    /\ freeSlots = Slots
    /\ slotBlocks = [s \in Slots |-> <<>>]
    /\ refcount = [b \in Blocks |-> 0]
    /\ prefixes = << >>
    /\ clock = 0
    /\ store = Idle
    /\ kv = [b \in Blocks |-> <<>>]
    /\ prompt = [s \in Slots |-> <<>>]
    /\ matched = [s \in Slots |-> 0]
    /\ committed = [s \in Slots |-> <<>>]

\* Block counts at which a stored prefix of w is found.
Matches(w) == {k \in 1..FullBlocks(w) : Boundary(w, k) \in DOMAIN prefixes}

LongestMatch(w) == CHOOSE k \in Matches(w) : \A j \in Matches(w) : j <= k

\* lookup_prefix: every entry met on the way down is bumped.
TouchMatches(w) ==
    LET hit == {Boundary(w, k) : k \in Matches(w)} IN
    prefixes' = [q \in DOMAIN prefixes |->
                    IF q \in hit THEN [prefixes[q] EXCEPT !.lru = clock + 1]
                                 ELSE prefixes[q]]

\* One admission of Scheduler.schedule: alloc a slot, look the prompt up,
\* share the blocks of the longest stored prefix.
Admit(s, w) ==
    /\ store = Idle
    /\ s \in freeSlots
    /\ clock < MaxClock
    /\ freeSlots' = freeSlots \ {s}
    /\ TouchMatches(w)
    /\ clock' = clock + 1
    /\ IF Matches(w) = {}
       THEN UNCHANGED <<slotBlocks, refcount, matched>>
       ELSE LET shared == prefixes[Boundary(w, LongestMatch(w))].blocks IN
            /\ slotBlocks' = [slotBlocks EXCEPT ![s] = shared]
            /\ Incref(Range(shared))
            /\ matched' = [matched EXCEPT ![s] = LongestMatch(w) * BlockSize]
    /\ prompt' = [prompt EXCEPT ![s] = w]
    /\ UNCHANGED <<freeBlocks, store, kv, committed>>

\* One round of the loop of ensure_capacity: a block from the pool goes to
\* the end of the slot's table.  With the pool empty the code raises
\* instead and nothing changes; the caller's module says what then happens.
\* Nothing here keeps a table within MaxBlocksPerSeq: Next assumes callers do.
Grow(s) ==
    /\ store = Idle
    /\ s \in Allocated
    /\ \E b \in freeBlocks :
        /\ freeBlocks' = freeBlocks \ {b}
        /\ slotBlocks' = [slotBlocks EXCEPT ![s] = Append(@, b)]
        /\ refcount' = [refcount EXCEPT ![b] = 1]
    /\ UNCHANGED <<freeSlots, prefixes, clock, store, kv, prompt, matched, committed>>

\* Skips a block beyond the shared prefix.
FaultyWrites(i, start) == i * BlockSize > start + BlockSize

\* `if pos < start: continue`: the i-th block of a table is written to.
Writes(i, start) == i * BlockSize > start

\* _slot_mapping of the next position, not of the one written.
FaultyBlockAt(s, n) == slotBlocks[s][n \div BlockSize]

\* _slot_mapping: the block of the n-th token of a slot.
BlockAt(s, n) == slotBlocks[s][BlocksFor(n)]

\* Prefill writes the K/V of the prompt into the slot's blocks, from token
\* position start on: prefix_matched_len in write_prefill, which skips what
\* a shared prefix already holds, and 0 in write_prefill_varlen.
WritePrefill(s, start) ==
    LET w == prompt[s] IN
    /\ store = Idle
    /\ s \in Allocated
    /\ committed[s] = <<>>
    /\ BlocksFor(Len(w)) <= Len(slotBlocks[s])
    /\ kv' = [b \in Blocks |->
                IF \E i \in 1..BlocksFor(Len(w)) :
                        slotBlocks[s][i] = b /\ Writes(i, start)
                THEN SubSeq(w, 1, MinOf(Len(w),
                        BlockSize * CHOOSE i \in 1..BlocksFor(Len(w)) : slotBlocks[s][i] = b))
                ELSE kv[b]]
    /\ committed' = [committed EXCEPT ![s] = w]
    /\ UNCHANGED <<freeBlocks, freeSlots, slotBlocks, refcount,
                   prefixes, clock, store, prompt, matched>>

\* Decode commits one more token: its K/V goes to position `length`.
WriteDecode(s, t) ==
    LET w == Append(committed[s], t)
        b == BlockAt(s, Len(w)) IN
    /\ store = Idle
    /\ s \in Allocated
    /\ committed[s] # <<>>
    /\ BlocksFor(Len(w)) <= Len(slotBlocks[s])
    /\ kv' = [kv EXCEPT ![b] = w]
    /\ committed' = [committed EXCEPT ![s] = w]
    /\ UNCHANGED <<freeBlocks, freeSlots, slotBlocks, refcount,
                   prefixes, clock, store, prompt, matched>>

-----------------------------------------------------------------------------
\* store_prefix(prompt_ids, slot), up to its loop.
StoreBegin(s) ==
    /\ store = Idle
    /\ s \in Allocated
    /\ committed[s] # <<>>
    /\ FullBlocks(prompt[s]) > 0
    /\ clock < MaxClock
    /\ clock' = clock + 1
    /\ store' = [slot |-> s, k |-> 1, lru |-> clock + 1]
    /\ UNCHANGED <<freeBlocks, freeSlots, slotBlocks, refcount, prefixes, kv, ownerVars>>

\* A key one token short of the boundary.
FaultyStoreKey == SubSeq(prompt[store.slot], 1, store.k * BlockSize - 1)

StoreKey == Boundary(prompt[store.slot], store.k)

NextBoundary ==
    store' = IF store.k < FullBlocks(prompt[store.slot])
             THEN [store EXCEPT !.k = @ + 1]
             ELSE Idle

PrefixesFull ==
    /\ MaxPrefixEntries # NoLimit
    /\ Cardinality(DOMAIN prefixes) >= MaxPrefixEntries

\* The boundary is cached already: only its LRU stamp moves.
StoreBump ==
    /\ store # Idle
    /\ StoreKey \in DOMAIN prefixes
    /\ prefixes' = [prefixes EXCEPT ![StoreKey].lru = store.lru]
    /\ NextBoundary
    /\ UNCHANGED <<freeBlocks, freeSlots, slotBlocks, refcount, clock, kv, ownerVars>>

\* The entries _evict_one_prefix may pick: of the oldest, the first in
\* pre-order.  Entries of equal age were stamped by one call for one token
\* string, so the first in pre-order is the shortest.
Oldest == {q \in DOMAIN prefixes :
              \A r \in DOMAIN prefixes :
                  \/ prefixes[q].lru < prefixes[r].lru
                  \/ prefixes[q].lru = prefixes[r].lru /\ Len(q) <= Len(r)}

\* The boundary is new and the cache is full: _evict_one_prefix.
StoreEvict ==
    /\ store # Idle
    /\ StoreKey \notin DOMAIN prefixes
    /\ PrefixesFull
    /\ \E q \in Oldest :
        /\ prefixes' = [r \in DOMAIN prefixes \ {q} |-> prefixes[r]]
        /\ Release(Range(prefixes[q].blocks))
    /\ UNCHANGED <<freeSlots, slotBlocks, clock, store, ownerVars>>

\* The boundary is new and there is room, or nothing left to evict.
StoreAdd ==
    LET blocks == SubSeq(slotBlocks[store.slot], 1, store.k) IN
    /\ store # Idle
    /\ StoreKey \notin DOMAIN prefixes
    /\ PrefixesFull => DOMAIN prefixes = {}
    /\ prefixes' = [q \in DOMAIN prefixes \cup {StoreKey} |->
                       IF q = StoreKey THEN [blocks |-> blocks, lru |-> store.lru]
                                       ELSE prefixes[q]]
    /\ Incref(Range(blocks))
    /\ NextBoundary
    /\ UNCHANGED <<freeBlocks, freeSlots, slotBlocks, clock, kv, ownerVars>>

\* free(slot): drop the slot's references and return the slot.
Free(s) ==
    /\ store = Idle
    /\ s \in Allocated
    /\ Release(Range(slotBlocks[s]))
    /\ slotBlocks' = [slotBlocks EXCEPT ![s] = <<>>]
    /\ freeSlots' = freeSlots \cup {s}
    /\ prompt' = [prompt EXCEPT ![s] = <<>>]
    /\ matched' = [matched EXCEPT ![s] = 0]
    /\ committed' = [committed EXCEPT ![s] = <<>>]
    /\ UNCHANGED trieVars

Next ==
    \/ \E s \in Slots :
        \/ \E w \in Prompts : Admit(s, w)
        \/ Len(slotBlocks[s]) < MaxBlocksPerSeq /\ Grow(s)
        \/ \E start \in {0, matched[s]} : WritePrefill(s, start)
        \/ \E t \in Token : WriteDecode(s, t)
        \/ StoreBegin(s)
        \/ Free(s)
    \/ StoreBump
    \/ StoreEvict
    \/ StoreAdd

Spec == Init /\ [][Next]_vars

-----------------------------------------------------------------------------
\* What the entries are keyed by, whoever stored them.
PrefixKeys == UNION {{Boundary(w, k) : k \in 1..FullBlocks(w)} : w \in Prompts}

SlotHolders(b)   == {s \in Slots : b \in Range(slotBlocks[s])}
PrefixHolders(b) == {q \in DOMAIN prefixes : b \in Range(prefixes[q].blocks)}

\* Block b, as the i-th of a table, holds the K/V of w as far as w goes.
Holds(b, w, i) ==
    LET n == MinOf(Len(w), i * BlockSize) IN
    /\ BlocksFor(Len(kv[b])) = i
    /\ Len(kv[b]) >= n
    /\ SubSeq(kv[b], 1, n) = SubSeq(w, 1, n)

\* Types of the variables of PagedKVCache.
TypeOK ==
    /\ freeBlocks \subseteq Blocks
    /\ freeSlots \subseteq Slots
    /\ slotBlocks \in [Slots -> Seq(Blocks)]
    /\ refcount \in [Blocks -> Nat]
    /\ DOMAIN prefixes \subseteq PrefixKeys
    /\ prefixes \in [DOMAIN prefixes -> [blocks : Seq(Blocks), lru : Nat]]
    /\ clock \in Nat
    /\ store \in {Idle} \cup [slot : Slots, k : Nat \ {0}, lru : Nat]
    /\ kv \in [Blocks -> Seq(Token)]
    /\ prompt \in [Slots -> Prompts \cup {<<>>}]
    /\ matched \in [Slots -> Nat]
    /\ committed \in [Slots -> Seq(Token)]

\* A block's reference count is exactly the number of slots and cached
\* prefixes that point at it, through every order of admissions, growth,
\* stores, evictions and frees: neither a leak nor an early free.
RefcountExact ==
    \A b \in Blocks :
        refcount[b] = Cardinality(SlotHolders(b)) + Cardinality(PrefixHolders(b))

\* "blocks shared via prefix cache are only freed when the last reference
\* is gone" (free), and then they are: the free list is exactly the blocks
\* that no slot and no entry points at.
FreeIffUnheld ==
    \A b \in Blocks :
        b \in freeBlocks <=> SlotHolders(b) = {} /\ PrefixHolders(b) = {}

\* Attention of a slot reads K/V of that slot's own tokens: each block of
\* its table holds the slot's context, whatever else shared, freed, evicted
\* or rewrote blocks in between.
ReadsOwnContext ==
    \A s \in Allocated : \A i \in 1..BlocksFor(Len(committed[s])) :
        Holds(slotBlocks[s][i], committed[s], i)

\* A cached prefix leads to blocks that hold exactly its tokens, so the
\* next prompt that matches it may skip writing them.
PrefixesHoldTheirTokens ==
    \A q \in DOMAIN prefixes :
        /\ Len(prefixes[q].blocks) = FullBlocks(q)
        /\ \A i \in DOMAIN prefixes[q].blocks : kv[prefixes[q].blocks[i]] = Boundary(q, i)

\* What several holders share is never changed under them by a write of one.
SharedBlocksImmutable ==
    [][\A b \in Blocks :
          Cardinality(SlotHolders(b)) + Cardinality(PrefixHolders(b)) > 1
              => kv'[b] = kv[b] \/ b \in freeBlocks']_vars

-----------------------------------------------------------------------------
\* The inductive invariant behind RefcountExact and FreeIffUnheld.

\* A slot nobody uses points at nothing.
FreeSlotsBlank ==
    \A s \in freeSlots :
        slotBlocks[s] = <<>> /\ prompt[s] = <<>> /\ committed[s] = <<>>

\* Once prefilled, a slot has blocks for all of its prompt.
PrefilledFits ==
    \A s \in Slots : committed[s] # <<>> =>
        /\ prompt[s] \in Prompts
        /\ BlocksFor(Len(prompt[s])) <= Len(slotBlocks[s])

\* The store_prefix call under way is at a boundary of a prefilled slot.
StoreInRange ==
    store # Idle =>
        /\ store.slot \in Allocated
        /\ committed[store.slot] # <<>>
        /\ store.k \in 1..FullBlocks(prompt[store.slot])

\* Types, shape of slots and of the call under way, and the exact ledger of
\* references: what every step of the cache preserves.
LedgerInv ==
    /\ TypeOK
    /\ IsFiniteSet(DOMAIN prefixes)
    /\ FreeSlotsBlank
    /\ PrefilledFits
    /\ StoreInRange
    /\ RefcountExact
    /\ FreeIffUnheld

-----------------------------------------------------------------------------
\* The inductive invariant behind ReadsOwnContext, PrefixesHoldTheirTokens
\* and SharedBlocksImmutable.

\* Blocks of the stored prefix a slot was admitted with.
MatchedBlocks(s) == matched[s] \div BlockSize

\* The leading blocks of a slot that others may point at too: those it was
\* admitted with until it is prefilled, then every full block of its prompt.
SharedUpTo(s) ==
    IF committed[s] = <<>> THEN MatchedBlocks(s) ELSE FullBlocks(prompt[s])

\* The table of s names no block twice.
NamesOnce(s) ==
    \A i, j \in DOMAIN slotBlocks[s] : slotBlocks[s][i] = slotBlocks[s][j] => i = j

\* The blocks s was admitted with hold the leading blocks of its prompt.
HoldsMatched(s) ==
    /\ s \in freeSlots => matched[s] = 0
    /\ s \in Allocated =>
        /\ prompt[s] \in Prompts
        /\ matched[s] = MatchedBlocks(s) * BlockSize
        /\ MatchedBlocks(s) <= FullBlocks(prompt[s])
        /\ MatchedBlocks(s) <= Len(slotBlocks[s])
        /\ \A i \in 1..MatchedBlocks(s) : kv[slotBlocks[s][i]] = Boundary(prompt[s], i)

\* The i-th block of a slot whose context is w holds w, as far as it reaches.
HoldsExactly(b, w, i) == kv[b] = SubSeq(w, 1, MinOf(Len(w), i * BlockSize))

\* What s has committed starts with its prompt, and its blocks hold it.
HoldsContext(s) ==
    committed[s] # <<>> =>
        /\ Len(prompt[s]) <= Len(committed[s])
        /\ SubSeq(committed[s], 1, Len(prompt[s])) = prompt[s]
        /\ BlocksFor(Len(committed[s])) <= Len(slotBlocks[s])
        /\ \A i \in 1..BlocksFor(Len(committed[s])) :
              HoldsExactly(slotBlocks[s][i], committed[s], i)

\* Past its shared part s is the only holder of its blocks.
OwnsTail(s) ==
    \A i \in DOMAIN slotBlocks[s] : i > SharedUpTo(s) =>
        /\ SlotHolders(slotBlocks[s][i]) = {s}
        /\ PrefixHolders(slotBlocks[s][i]) = {}

ContentsInv ==
    /\ PrefixesHoldTheirTokens
    /\ \A s \in Slots :
        NamesOnce(s) /\ HoldsMatched(s) /\ HoldsContext(s) /\ OwnsTail(s)

-----------------------------------------------------------------------------
\* The reference counts implement a pool of shared blocks that has none.
SlotHolder(s)   == <<"slot", s>>
PrefixHolder(q) == <<"prefix", q>>

HolderSet == {SlotHolder(s) : s \in Slots} \cup {PrefixHolder(q) : q \in PrefixKeys}

HeldBy(h) ==
    IF h[1] = "slot" THEN Range(slotBlocks[h[2]])
    ELSE IF h[2] \in DOMAIN prefixes THEN Range(prefixes[h[2]].blocks)
    ELSE {}

Pool == INSTANCE SharedBlockPool WITH
            Holders <- HolderSet,
            pool    <- freeBlocks,
            held    <- [h \in HolderSet |-> HeldBy(h)]

\* Every step of the cache is a step of SharedBlockPool, or none: sharing,
\* eviction and free hand blocks on and back at exactly the right step.
ImplementsSharedBlockPool == Pool!Spec
=============================================================================
