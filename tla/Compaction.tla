----------------------------- MODULE Compaction -----------------------------
(***************************************************************************)
(* engine/kv_cache.py, class KVEviction: after a prefill some positions of *)
(* a slot are chosen and the slot's blocks are rewritten without the rest. *)
(*                                                                         *)
(* Attention scores are free: snapkv_selection may keep any set of its     *)
(* budget's size.  Dequantizing, undoing the rotation and quantizing again *)
(* is what a row goes through when it is copied; a row is the position and *)
(* slot it was written for, and whether its K is rotated.                  *)
(***************************************************************************)
EXTENDS Lists, FiniteSets, SequencesExt

CONSTANTS
    BlockSize,   \* cache.block_size
    NBlocks,     \* blocks of the pool
    Lengths,     \* prefill lengths
    Budgets,     \* eviction_config.kv_budget
    Layers,      \* layers of the cache, for Ada-KV's schedule
    MinBudget,   \* eviction_config.adakv_min_budget
    MaxBudget,   \* eviction_config.adakv_max_budget
    Window       \* eviction_config.duoattn_window

\* What the configuration of an eviction is.
CompactionConstants ==
    /\ BlockSize \in Nat \ {0} /\ NBlocks \in Nat /\ Lengths \subseteq Nat /\ Budgets \subseteq Nat
    /\ Layers \in Nat /\ MinBudget \in Nat \ {0} /\ MaxBudget \in Nat /\ MinBudget <= MaxBudget
    /\ Window \in Nat

Slots  == {1, 2}
Blocks == 1..NBlocks
Policies == {"snapkv", "adakv", "duoattn", "other"}

VARIABLE comp  \* the cache: free, table, ref, cell, lost; the call: pc, slot, keep, got

BlocksFor(n) == (n + BlockSize - 1) \div BlockSize

\* Row `p` of a slot's table, as read_dense finds it.
RowAt(cell, table, p) == cell[table[(p \div BlockSize) + 1]][p % BlockSize]

Empty == [slot |-> 0, pos |-> 0, rotated |-> FALSE]
Row(s, p) == [slot |-> s, pos |-> p, rotated |-> TRUE]

\* Slot 1 holds the first blocks, slot 2 the next ones; slot 2 may have taken
\* its first block from slot 1, as admission does for a stored prefix.
Init ==
    \E n1, n2 \in Lengths, shared \in BOOLEAN :
        LET b1  == BlocksFor(n1)
            b2  == BlocksFor(n2)
            off == IF shared THEN b1 - 1 ELSE b1
            t1  == [i \in 1..b1 |-> i]
            t2  == [i \in 1..b2 |-> IF shared /\ i = 1 THEN 1 ELSE off + i]
            in1 == {t1[i] : i \in 1..b1}
            in2 == {t2[i] : i \in 1..b2} IN
        /\ shared => BlockSize \in 1..n1 \cap 1..n2
        /\ off + b2 <= NBlocks
        /\ comp = [
            free  |-> SetToSeq(Blocks \ (in1 \cup in2)),
            table |-> <<t1, t2>>,
            ref   |-> [b \in Blocks |-> Cardinality({s \in Slots : b \in <<in1, in2>>[s]})],
            cell  |-> [b \in Blocks |-> [o \in 0..BlockSize - 1 |->
                        IF b \in in1 THEN Row(1, (b - 1) * BlockSize + o)
                        ELSE IF b \in in2 THEN Row(2, (b - off - 1) * BlockSize + o)
                        ELSE Empty]],
            lens  |-> <<n1, n2>>, shared |-> shared, lost |-> {}, tried |-> {}, freed |-> {},
            pc |-> "idle", slot |-> 0, keep |-> <<>>, got |-> <<>>,
            allowed |-> 0, before |-> <<>>]

-----------------------------------------------------------------------------
(* Which positions to keep *)

First(n) == [i \in 1..n |-> i - 1]
Smaller(m, n) == IF m < n THEN m ELSE n
Sorted(s) == \A i, j \in DOMAIN s : i < j => s[i] < s[j]

\* The best `budget` positions by score, whichever they are, in order.
Snapkv(n, budget) ==
    IF n <= budget THEN {First(n)} ELSE {s \in [1..budget -> 0..n - 1] : Sorted(s)}

\* adakv_budgets: a linear ramp scaled to the total, at least 1 a layer.
Ramp(i) == MinBudget + (i * (MaxBudget - MinBudget)) \div (Layers - 1)
AdakvBudgets(total) ==
    IF Layers <= 1 THEN <<total>>
    ELSE LET sum == SumFunction([i \in 1..Layers |-> Ramp(i - 1)]) IN
         [i \in 1..Layers |-> LET b == (Ramp(i - 1) * total) \div sum IN IF b < 1 THEN 1 ELSE b]

\* The streaming window of the last positions.
Recent(n) == {p \in 0..n - 1 : p >= n - Window}

\* What evict may choose: scores are there (q_last and k_full) or not.
Selections(policy, scores, n, budget) ==
    CASE policy = "snapkv" /\ scores -> Snapkv(n, budget)
      [] policy = "adakv" ->
            IF n <= budget THEN {First(n)}
            ELSE IF scores THEN Snapkv(n, AdakvBudgets(budget)[1])
            ELSE {First(Smaller(AdakvBudgets(budget)[1], n))}
      [] policy = "duoattn" ->
            UNION {LET S == Recent(n) \cup ToSet(snap) IN
                   {s \in [1..Cardinality(S) -> S] : Sorted(s)} :
                snap \in IF scores THEN Snapkv(n, budget) ELSE {First(Smaller(budget, n))}}
      [] OTHER -> {First(Smaller(budget, n))}

\* What the policy's budget allows to keep.
Allowed(policy, n, budget) ==
    CASE policy = "adakv"   -> IF n <= budget THEN n ELSE AdakvBudgets(budget)[1]
      [] policy = "duoattn" -> budget + Window
      [] OTHER              -> budget

-----------------------------------------------------------------------------
(* evict, compact *)

\* What slot t holds, position by position.
RowsOf(t) == [p \in 0..comp.lens[t] - 1 |-> RowAt(comp.cell, comp.table[t], p)]

\* `len(positions) >= seq_len`, and compact's own early returns.
WorthIt(positions, n) ==
    /\ Len(positions) < n
    /\ positions # <<>>
    /\ BlocksFor(Len(positions)) < BlocksFor(n)

\* evict, once after the prefill of a slot.  It goes on only if eviction is
\* enabled and the recall gate, when it is armed, lets it pass.
Evict(s) ==
    /\ comp.pc = "idle"
    /\ s \notin comp.tried
    /\ \E enabled, gated, scores \in BOOLEAN, policy \in Policies, budget \in Budgets :
        \E positions \in Selections(policy, scores, comp.lens[s], budget) :
            comp' = IF enabled /\ ~gated /\ WorthIt(positions, comp.lens[s])
                    THEN [comp EXCEPT
                            !.pc = "pop", !.slot = s, !.keep = positions, !.got = <<>>,
                            !.allowed = Allowed(policy, comp.lens[s], budget),
                            !.before = [t \in Slots |-> RowsOf(t)],
                            !.tried = @ \cup {s}]
                    ELSE [comp EXCEPT !.tried = @ \cup {s}]

\* One round of the allocation loop; a dry pool raises and what was popped is
\* in no table.
PopBlock ==
    /\ comp.pc = "pop"
    /\ Len(comp.got) < BlocksFor(Len(comp.keep))
    /\ comp' = IF comp.free = <<>>
               THEN [comp EXCEPT !.pc = "idle", !.lost = @ \cup ToSet(comp.got), !.got = <<>>]
               ELSE [comp EXCEPT !.got = Append(@, Last(comp.free)), !.free = Front(@)]

\* The copy without rotate_last: quantize_kv_write_paged rotates again.
FaultyCopied(row) == [row EXCEPT !.rotated = ~@]

\* Dequantize, undo the rotation, quantize with it.
Copied(row) == [row EXCEPT !.rotated = ~(~@)]

\* Old blocks go back before the table changes, whatever still refers to them.
Rewrite ==
    LET old  == comp.table[comp.slot]
        nth(b, o) == ((CHOOSE i \in DOMAIN comp.got : comp.got[i] = b) - 1) * BlockSize + o + 1
        cell == [b \in Blocks |-> [o \in 0..BlockSize - 1 |->
                    IF b \in ToSet(comp.got) /\ nth(b, o) <= Len(comp.keep)
                    THEN Copied(RowAt(comp.cell, old, comp.keep[nth(b, o)]))
                    ELSE comp.cell[b][o]]] IN
    /\ comp.pc = "pop"
    /\ Len(comp.got) = BlocksFor(Len(comp.keep))
    /\ comp' = [comp EXCEPT
            !.pc = "done", !.cell = cell,
            !.ref = [b \in Blocks |-> IF b \in ToSet(old) THEN 0 ELSE comp.ref[b]],
            !.free = @ \o old,
            !.table = [@ EXCEPT ![comp.slot] = comp.got]]

\* The caller has the metrics and takes the slot to be as long as what was kept.
Return ==
    /\ comp.pc = "done"
    /\ comp' = [comp EXCEPT !.pc = "idle", !.got = <<>>, !.keep = <<>>, !.before = <<>>,
                            !.lens = [@ EXCEPT ![comp.slot] = Len(comp.keep)]]

\* ensure_capacity as decoding goes on: the first block past a slot's prefill.
Grow(s) ==
    /\ comp.pc = "idle"
    /\ s \in comp.tried \ comp.freed
    /\ comp.free # <<>> /\ Len(comp.table[s]) = BlocksFor(comp.lens[s])
    /\ LET b == Last(comp.free) IN
       comp' = [comp EXCEPT !.free = Front(@), !.ref = [@ EXCEPT ![b] = 1],
                            !.table = [@ EXCEPT ![s] = Append(comp.table[s], b)]]

\* _block_refcount.get(blk, 1) - 1
Left(b) == (IF comp.ref[b] = 0 THEN 1 ELSE comp.ref[b]) - 1

\* PagedKVCache.free at the end of the sequence.
Free(s) ==
    LET old == comp.table[s] IN
    /\ comp.pc = "idle"
    /\ s \in comp.tried \ comp.freed
    /\ comp' = [comp EXCEPT
            !.freed = @ \cup {s}, !.lens = [@ EXCEPT ![s] = 0], !.table = [@ EXCEPT ![s] = <<>>],
            !.free = @ \o Picked(old, {i \in DOMAIN old : Left(old[i]) <= 0}),
            !.ref = [b \in Blocks |-> IF b \in ToSet(old) THEN Left(b) ELSE comp.ref[b]]]

Done == comp.freed = Slots /\ UNCHANGED comp

Next ==
    \/ \E s \in Slots : Evict(s) \/ Grow(s) \/ Free(s)
    \/ PopBlock
    \/ Rewrite
    \/ Return
    \/ Done

-----------------------------------------------------------------------------
\* After a compaction the slot holds the rows of the kept positions in their
\* order, with K rotated once, within the policy's budget and in fewer blocks,
\* and the other slot still reads what it read (two slots that shared a block
\* may lose it once one of them was compacted).  As long as no block is shared
\* every block is at every point free once, in one table once, popped by the
\* call under way or lost by one that raised.
CompactionKeeps ==
    /\ comp.pc = "done" /\ (comp.shared => Cardinality(comp.tried) = 1) =>
        LET s == comp.slot  o == 3 - comp.slot IN
        /\ Len(comp.keep) <= comp.allowed
        /\ \A i, j \in DOMAIN comp.keep : i < j => comp.keep[i] < comp.keep[j]
        /\ Len(comp.table[s]) < BlocksFor(comp.lens[s])
        /\ \A i \in DOMAIN comp.keep :
              RowAt(comp.cell, comp.table[s], i - 1) = comp.before[s][comp.keep[i]]
        /\ RowsOf(o) = comp.before[o]
    /\ ~comp.shared =>
        \A b \in Blocks :
            Cardinality({x \in (1..4) \X (1..NBlocks) :
                LET q == <<comp.free, comp.table[1], comp.table[2], comp.got>>[x[1]] IN
                x[2] \in DOMAIN q /\ q[x[2]] = b /\ (x[1] = 4 => comp.pc = "pop")})
            = IF b \in comp.lost THEN 0 ELSE 1
=============================================================================
