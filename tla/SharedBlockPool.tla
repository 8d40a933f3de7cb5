--------------------------- MODULE SharedBlockPool ---------------------------
(***************************************************************************)
(* What a paged KV cache promises about its physical blocks, with no       *)
(* reference counts at all: a fixed pool of blocks, and holders (decode    *)
(* slots and cached prefixes) that each hold a set of them.  A block is    *)
(* taken from the pool by one holder, may be shared by further holders,    *)
(* and goes back to the pool at the step its last holder lets go.          *)
(*                                                                         *)
(* PagedKVCache implements this specification with free lists and a        *)
(* refcount dictionary; see PagedKVCacheProofs.                            *)
(***************************************************************************)

CONSTANTS
    Blocks,     \* physical block ids
    Holders     \* whoever can hold blocks: decode slots and cached prefixes

VARIABLES
    pool,       \* blocks nobody holds
    held        \* held[h]: the blocks holder h holds

vars == <<pool, held>>

HeldByOthers(h) == UNION {held[g] : g \in Holders \ {h}}

Init ==
    /\ pool = Blocks
    /\ held = [h \in Holders |-> {}]

\* A holder takes one unused block.
Take(h) ==
    \E b \in pool :
        /\ pool' = pool \ {b}
        /\ held' = [held EXCEPT ![h] = @ \cup {b}]

\* A holder that holds nothing starts to share blocks that others hold.
Share(h) ==
    /\ held[h] = {}
    /\ \E B \in SUBSET HeldByOthers(h) : held' = [held EXCEPT ![h] = B]
    /\ UNCHANGED pool

\* A holder lets go of everything; what nobody else holds is unused again.
Release(h) ==
    /\ held' = [held EXCEPT ![h] = {}]
    /\ pool' = pool \cup (held[h] \ HeldByOthers(h))

Next == \E h \in Holders : Take(h) \/ Share(h) \/ Release(h)

Spec == Init /\ [][Next]_vars
=============================================================================
