-------------------------- MODULE PagedKVCacheProofs --------------------------
(***************************************************************************)
(* Theorems about PagedKVCache for every pool, slot set, block size,       *)
(* prefix limit and set of prompts: the ledger of references, the pool it  *)
(* implements, and what the blocks hold.                                   *)
(***************************************************************************)
EXTENDS PagedKVCache, TLAPS, FiniteSetTheorems, SequenceTheorems

-----------------------------------------------------------------------------
\* Facts about the operators of the model.

\* ceil is at least floor: a prefilled slot has every full block.
LEMMA FullBlocksFit ==
    ASSUME NEW w \in Seq(Token)
    PROVE  /\ FullBlocks(w) \in Nat
           /\ BlocksFor(Len(w)) \in Nat
           /\ FullBlocks(w) <= BlocksFor(Len(w))
           /\ \A k \in 1..FullBlocks(w) : k * BlockSize \in 1..Len(w)
<1>1. Len(w) \in Nat /\ BlockSize \in Nat \ {0}
  BY CacheConstants
<1>2. \A n \in Nat, d \in Nat \ {0} : n \div d \in Nat /\ n \div d <= (n + d - 1) \div d
  BY SMTT(20)
<1>3. \A n \in Nat, d \in Nat \ {0} : (n + d - 1) \div d \in Nat
  BY SMTT(20)
<1>4. ASSUME NEW k \in 1..FullBlocks(w) PROVE k * BlockSize \in 1..Len(w)
  <2>1. \A n \in Nat, d \in Nat \ {0} : (n \div d) * d <= n
    BY SMTT(20)
  <2>2. \A i \in Nat \ {0}, j \in Nat, d \in Nat \ {0} : i <= j => i * d <= j * d /\ i * d \in Nat \ {0}
    BY SMTT(20)
  <2>3. FullBlocks(w) * BlockSize <= Len(w) /\ FullBlocks(w) \in Nat
    BY <1>1, <1>2, <2>1 DEF FullBlocks
  <2>4. k \in Nat \ {0} /\ k <= FullBlocks(w)
    BY <2>3
  <2>5. k * BlockSize <= FullBlocks(w) * BlockSize /\ k * BlockSize \in Nat \ {0}
    BY <1>1, <2>2, <2>3, <2>4
  <2>6. FullBlocks(w) * BlockSize \in Nat
    BY <1>1, <2>3
  <2> QED BY <1>1, <2>3, <2>5, <2>6
<1> QED BY <1>1, <1>2, <1>3, <1>4 DEF FullBlocks, BlocksFor

\* Appending an element adds it to the range.
LEMMA RangeAppend ==
    ASSUME NEW S, NEW t \in Seq(S), NEW x \in S
    PROVE  Range(Append(t, x)) = Range(t) \cup {x}
<1> DEFINE u == Append(t, x)
<1>1. /\ DOMAIN t = 1..Len(t)
      /\ DOMAIN u = 1..(Len(t) + 1)
      /\ Len(t) \in Nat
      /\ \A i \in 1..Len(t) : u[i] = t[i]
      /\ u[Len(t) + 1] = x
  OBVIOUS
<1> HIDE DEF u
<1>2. ASSUME NEW y \in Range(u) PROVE y \in Range(t) \cup {x}
  <2>1. PICK i \in DOMAIN u : y = u[i]
    BY DEF Range
  <2>2. CASE i = Len(t) + 1
    BY <1>1, <2>1, <2>2
  <2>3. CASE i \in 1..Len(t)
    BY <1>1, <2>1, <2>3 DEF Range
  <2> QED BY <1>1, <2>1, <2>2, <2>3
<1>3. Range(t) \subseteq Range(u)
  BY <1>1 DEF Range
<1>4. x \in Range(u)
  <2>1. Len(t) + 1 \in DOMAIN u
    BY <1>1
  <2> QED BY <1>1, <2>1 DEF Range
<1> QED BY <1>2, <1>3, <1>4 DEF u

\* A leading part of a table is a table, with blocks of the table only.
LEMMA LeadingPart ==
    ASSUME NEW S, NEW t \in Seq(S), NEW k \in 0..Len(t)
    PROVE  /\ SubSeq(t, 1, k) \in Seq(S)
           /\ Len(SubSeq(t, 1, k)) = k
           /\ Range(SubSeq(t, 1, k)) \subseteq Range(t)
<1>1. SubSeq(t, 1, k) \in Seq(S) /\ Len(SubSeq(t, 1, k)) = k
  OBVIOUS
<1>2. \A i \in 1..k : SubSeq(t, 1, k)[i] = t[i] /\ i \in DOMAIN t
  OBVIOUS
<1> QED BY <1>1, <1>2 DEF Range

\* A boundary of a submitted prompt is the key of some entry.
LEMMA BoundaryIsKey ==
    ASSUME NEW w \in Prompts, NEW k \in 1..FullBlocks(w)
    PROVE  Boundary(w, k) \in PrefixKeys
BY DEF PrefixKeys

-----------------------------------------------------------------------------
\* The ledger is exact at the start: nothing is held or referenced.
LEMMA InitLedger == Init => LedgerInv
<1> SUFFICES ASSUME Init PROVE LedgerInv
  OBVIOUS
<1> USE DEF Init
<1>1. prefixes = << >> /\ DOMAIN prefixes = {}
  OBVIOUS
<1>2. TypeOK
  BY <1>1 DEF TypeOK
<1>3. IsFiniteSet(DOMAIN prefixes)
  BY <1>1, FS_EmptySet
<1>4. FreeSlotsBlank /\ PrefilledFits /\ StoreInRange
  BY DEF FreeSlotsBlank, PrefilledFits, StoreInRange
<1>5. \A b \in Blocks : SlotHolders(b) = {} /\ PrefixHolders(b) = {}
  BY <1>1 DEF SlotHolders, PrefixHolders, Range
<1>6. RefcountExact
  <2>1. Cardinality({}) = 0
    BY FS_EmptySet
  <2> QED BY <1>5, <2>1, SMTT(30) DEF RefcountExact
<1>7. FreeIffUnheld
  BY <1>5 DEF FreeIffUnheld
<1> QED BY <1>2, <1>3, <1>4, <1>6, <1>7 DEF LedgerInv

-----------------------------------------------------------------------------
\* A nonempty set of naturals below a bound has a largest element.
LEMMA BoundedHasMax ==
    ASSUME NEW n \in Nat, NEW M, M \subseteq 1..n, M # {}
    PROVE  \E k \in M : \A j \in M : j <= k
<1> DEFINE D == {n - k : k \in M}
<1>1. D \subseteq Nat /\ D # {}
  <2>1. \A k \in M : n - k \in Nat
    OBVIOUS
  <2> QED BY <2>1
<1>2. PICK d \in D : \A e \in D : ~ (<<e, d>> \in OpToRel(<, Nat))
  <2> HIDE DEF D
  <2> QED BY <1>1, NatLessThanWellFounded, WFMin
<1>3. \A e \in D : ~ (e < d)
  BY <1>1, <1>2 DEF OpToRel
<1>4. PICK k \in M : d = n - k
  BY <1>2
<1>5. ASSUME NEW j \in M PROVE j <= k
  <2>1. n - j \in D
    OBVIOUS
  <2>2. ~ (n - j < n - k)
    BY <1>3, <1>4, <2>1
  <2> QED BY <2>2
<1> QED BY <1>5

\* The longest stored prefix of a prompt that has one.
LEMMA LongestMatchMatches ==
    ASSUME NEW w \in Seq(Token), Matches(w) # {}
    PROVE  LongestMatch(w) \in Matches(w)
<1>1. FullBlocks(w) \in Nat
  BY FullBlocksFit
<1>2. Matches(w) \subseteq 1..FullBlocks(w)
  BY DEF Matches
<1>3. \E k \in Matches(w) : \A j \in Matches(w) : j <= k
  BY <1>1, <1>2, BoundedHasMax
<1> QED BY <1>3 DEF LongestMatch

\* Holders are finitely many; a block with a holder is not free and has a
\* key in the refcount dictionary.
LEMMA HoldersCount ==
    ASSUME LedgerInv, NEW b \in Blocks
    PROVE  /\ IsFiniteSet(SlotHolders(b)) /\ IsFiniteSet(PrefixHolders(b))
           /\ Cardinality(SlotHolders(b)) \in Nat
           /\ Cardinality(PrefixHolders(b)) \in Nat
           /\ refcount[b] \in Nat
           /\ refcount[b] = Cardinality(SlotHolders(b)) + Cardinality(PrefixHolders(b))
           /\ SlotHolders(b) # {} => Cardinality(SlotHolders(b)) >= 1
           /\ PrefixHolders(b) # {} => Cardinality(PrefixHolders(b)) >= 1
           /\ SlotHolders(b) # {} \/ PrefixHolders(b) # {} =>
                 refcount[b] >= 1 /\ Ref(b) = refcount[b] /\ b \notin freeBlocks
<1>1. IsFiniteSet(SlotHolders(b)) /\ Cardinality(SlotHolders(b)) \in Nat
  <2>1. SlotHolders(b) \in SUBSET Slots
    BY DEF SlotHolders
  <2> QED BY <2>1, CacheConstants, FS_Subset, FS_CardinalityType
<1>2. IsFiniteSet(PrefixHolders(b)) /\ Cardinality(PrefixHolders(b)) \in Nat
  <2>1. PrefixHolders(b) \in SUBSET (DOMAIN prefixes)
    BY DEF PrefixHolders
  <2>2. IsFiniteSet(DOMAIN prefixes)
    BY DEF LedgerInv
  <2> QED BY <2>1, <2>2, FS_Subset, FS_CardinalityType
<1>3. /\ refcount[b] \in Nat
      /\ refcount[b] = Cardinality(SlotHolders(b)) + Cardinality(PrefixHolders(b))
  BY DEF LedgerInv, TypeOK, RefcountExact
<1>4. SlotHolders(b) # {} => Cardinality(SlotHolders(b)) >= 1
  <2>1. Cardinality(SlotHolders(b)) = 0 <=> SlotHolders(b) = {}
    BY <1>1, FS_EmptySet
  <2> QED BY <1>1, <2>1
<1>5. PrefixHolders(b) # {} => Cardinality(PrefixHolders(b)) >= 1
  <2>1. Cardinality(PrefixHolders(b)) = 0 <=> PrefixHolders(b) = {}
    BY <1>2, FS_EmptySet
  <2> QED BY <1>2, <2>1
<1>6. SlotHolders(b) # {} \/ PrefixHolders(b) # {} =>
         refcount[b] >= 1 /\ Ref(b) = refcount[b]
  BY <1>1, <1>2, <1>3, <1>4, <1>5 DEF Ref
<1>7. SlotHolders(b) # {} \/ PrefixHolders(b) # {} => b \notin freeBlocks
  BY DEF LedgerInv, FreeIffUnheld
<1> QED BY <1>1, <1>2, <1>3, <1>4, <1>5, <1>6, <1>7

-----------------------------------------------------------------------------
\* The ledger after one slot s has gained exactly the blocks B.
LEMMA SlotGains ==
    ASSUME LedgerInv, NEW s \in Slots, NEW B \in SUBSET Blocks,
           \A b \in B : s \notin SlotHolders(b),
           \A b \in Blocks : SlotHolders(b)' = IF b \in B THEN SlotHolders(b) \cup {s}
                                                          ELSE SlotHolders(b),
           \A b \in Blocks : PrefixHolders(b)' = PrefixHolders(b),
           \A b \in Blocks : refcount'[b] = IF b \in B THEN refcount[b] + 1 ELSE refcount[b]
    PROVE  RefcountExact'
<1> SUFFICES ASSUME NEW b \in Blocks
             PROVE  refcount'[b] = Cardinality(SlotHolders(b)') + Cardinality(PrefixHolders(b)')
  BY DEF RefcountExact
<1>1. CASE b \in B
  <2>1. Cardinality(SlotHolders(b) \cup {s}) = Cardinality(SlotHolders(b)) + 1
    BY <1>1, HoldersCount, FS_AddElement
  <2>2. /\ SlotHolders(b)' = SlotHolders(b) \cup {s}
        /\ PrefixHolders(b)' = PrefixHolders(b)
        /\ refcount'[b] = refcount[b] + 1
    BY <1>1
  <2>3. /\ refcount[b] = Cardinality(SlotHolders(b)) + Cardinality(PrefixHolders(b))
        /\ Cardinality(SlotHolders(b)) \in Nat /\ Cardinality(PrefixHolders(b)) \in Nat
    BY HoldersCount
  <2> QED BY <2>1, <2>2, <2>3
<1>2. CASE b \notin B
  BY <1>2, HoldersCount
<1> QED BY <1>1, <1>2

\* The ledger after one slot s has lost exactly the blocks B it had.
LEMMA SlotLoses ==
    ASSUME LedgerInv, NEW s \in Slots, NEW B \in SUBSET Blocks,
           \A b \in B : s \in SlotHolders(b),
           \A b \in Blocks : SlotHolders(b)' = IF b \in B THEN SlotHolders(b) \ {s}
                                                          ELSE SlotHolders(b),
           \A b \in Blocks : PrefixHolders(b)' = PrefixHolders(b),
           \A b \in Blocks : refcount'[b] = IF b \in B THEN refcount[b] - 1 ELSE refcount[b]
    PROVE  RefcountExact'
<1> SUFFICES ASSUME NEW b \in Blocks
             PROVE  refcount'[b] = Cardinality(SlotHolders(b)') + Cardinality(PrefixHolders(b)')
  BY DEF RefcountExact
<1>1. CASE b \in B
  <2>1. Cardinality(SlotHolders(b) \ {s}) = Cardinality(SlotHolders(b)) - 1
    BY <1>1, HoldersCount, FS_RemoveElement
  <2>2. /\ SlotHolders(b)' = SlotHolders(b) \ {s}
        /\ PrefixHolders(b)' = PrefixHolders(b)
        /\ refcount'[b] = refcount[b] - 1
    BY <1>1
  <2>3. /\ refcount[b] = Cardinality(SlotHolders(b)) + Cardinality(PrefixHolders(b))
        /\ Cardinality(SlotHolders(b)) \in Nat /\ Cardinality(PrefixHolders(b)) \in Nat
    BY HoldersCount
  <2> QED BY <2>1, <2>2, <2>3
<1>2. CASE b \notin B
  BY <1>2, HoldersCount
<1> QED BY <1>1, <1>2

\* The ledger after one cached prefix q has appeared with the blocks B.
LEMMA PrefixGains ==
    ASSUME LedgerInv, NEW q, NEW B \in SUBSET Blocks,
           \A b \in B : q \notin PrefixHolders(b),
           \A b \in Blocks : PrefixHolders(b)' = IF b \in B THEN PrefixHolders(b) \cup {q}
                                                            ELSE PrefixHolders(b),
           \A b \in Blocks : SlotHolders(b)' = SlotHolders(b),
           \A b \in Blocks : refcount'[b] = IF b \in B THEN refcount[b] + 1 ELSE refcount[b]
    PROVE  RefcountExact'
<1> SUFFICES ASSUME NEW b \in Blocks
             PROVE  refcount'[b] = Cardinality(SlotHolders(b)') + Cardinality(PrefixHolders(b)')
  BY DEF RefcountExact
<1>1. CASE b \in B
  <2>1. Cardinality(PrefixHolders(b) \cup {q}) = Cardinality(PrefixHolders(b)) + 1
    BY <1>1, HoldersCount, FS_AddElement
  <2>2. /\ PrefixHolders(b)' = PrefixHolders(b) \cup {q}
        /\ SlotHolders(b)' = SlotHolders(b)
        /\ refcount'[b] = refcount[b] + 1
    BY <1>1
  <2>3. /\ refcount[b] = Cardinality(SlotHolders(b)) + Cardinality(PrefixHolders(b))
        /\ Cardinality(SlotHolders(b)) \in Nat /\ Cardinality(PrefixHolders(b)) \in Nat
    BY HoldersCount
  <2> QED BY <2>1, <2>2, <2>3
<1>2. CASE b \notin B
  BY <1>2, HoldersCount
<1> QED BY <1>1, <1>2

\* The ledger after the cached prefix q, which had the blocks B, is gone.
LEMMA PrefixLoses ==
    ASSUME LedgerInv, NEW q, NEW B \in SUBSET Blocks,
           \A b \in B : q \in PrefixHolders(b),
           \A b \in Blocks : PrefixHolders(b)' = IF b \in B THEN PrefixHolders(b) \ {q}
                                                            ELSE PrefixHolders(b),
           \A b \in Blocks : SlotHolders(b)' = SlotHolders(b),
           \A b \in Blocks : refcount'[b] = IF b \in B THEN refcount[b] - 1 ELSE refcount[b]
    PROVE  RefcountExact'
<1> SUFFICES ASSUME NEW b \in Blocks
             PROVE  refcount'[b] = Cardinality(SlotHolders(b)') + Cardinality(PrefixHolders(b)')
  BY DEF RefcountExact
<1>1. CASE b \in B
  <2>1. Cardinality(PrefixHolders(b) \ {q}) = Cardinality(PrefixHolders(b)) - 1
    BY <1>1, HoldersCount, FS_RemoveElement
  <2>2. /\ PrefixHolders(b)' = PrefixHolders(b) \ {q}
        /\ SlotHolders(b)' = SlotHolders(b)
        /\ refcount'[b] = refcount[b] - 1
    BY <1>1
  <2>3. /\ refcount[b] = Cardinality(SlotHolders(b)) + Cardinality(PrefixHolders(b))
        /\ Cardinality(SlotHolders(b)) \in Nat /\ Cardinality(PrefixHolders(b)) \in Nat
    BY HoldersCount
  <2> QED BY <2>1, <2>2, <2>3
<1>2. CASE b \notin B
  BY <1>2, HoldersCount
<1> QED BY <1>1, <1>2

\* What Incref and Release do to blocks that are held, as plain counting.
LEMMA IncrefHeld ==
    ASSUME LedgerInv, NEW B \in SUBSET Blocks, Incref(B),
           \A b \in B : SlotHolders(b) # {} \/ PrefixHolders(b) # {}
    PROVE  /\ refcount' \in [Blocks -> Nat]
           /\ \A b \in Blocks : refcount'[b] = IF b \in B THEN refcount[b] + 1 ELSE refcount[b]
<1>1. \A b \in B : Ref(b) = refcount[b]
  BY HoldersCount
<1>2. \A b \in Blocks : refcount[b] \in Nat
  BY HoldersCount
<1> QED BY <1>1, <1>2 DEF Incref

\* What Release does to blocks that are held: the count falls by one, and
\* the block is free exactly when the count was one.
LEMMA ReleaseHeld ==
    ASSUME LedgerInv, NEW B \in SUBSET Blocks, Release(B),
           \A b \in B : SlotHolders(b) # {} \/ PrefixHolders(b) # {}
    PROVE  /\ refcount' \in [Blocks -> Nat]
           /\ \A b \in Blocks : refcount'[b] = IF b \in B THEN refcount[b] - 1 ELSE refcount[b]
           /\ freeBlocks' = freeBlocks \cup {b \in B : refcount[b] = 1}
           /\ freeBlocks' \subseteq Blocks
           /\ kv' \in [Blocks -> Seq(Token)]
<1>1. \A b \in B : Ref(b) = refcount[b] /\ refcount[b] >= 1
  BY HoldersCount
<1>2. \A b \in Blocks : refcount[b] \in Nat
  BY HoldersCount
<1>3. \A b \in Blocks : refcount'[b] = IF b \in B THEN refcount[b] - 1 ELSE refcount[b]
  BY <1>1, <1>2 DEF Release
<1>4. refcount' \in [Blocks -> Nat]
  <2>1. refcount' = [b \in Blocks |-> IF b \in B THEN Ref(b) - 1 ELSE refcount[b]]
    BY DEF Release
  <2>2. \A b \in B : Ref(b) - 1 \in Nat
    BY <1>1, <1>2
  <2> QED BY <1>2, <2>1, <2>2
<1>5. freeBlocks' = freeBlocks \cup {b \in B : refcount[b] = 1}
  <2>1. \A b \in B : (Ref(b) - 1 <= 0) <=> (refcount[b] = 1)
    BY <1>1, <1>2
  <2> QED BY <2>1 DEF Release
<1>6. freeBlocks' \subseteq Blocks
  BY <1>5 DEF LedgerInv, TypeOK
<1>7. kv' \in [Blocks -> Seq(Token)]
  <2>1. <<>> \in Seq(Token) /\ kv \in [Blocks -> Seq(Token)]
    BY EmptySeq DEF LedgerInv, TypeOK
  <2> QED BY <2>1 DEF Release
<1> QED BY <1>3, <1>4, <1>5, <1>6, <1>7

-----------------------------------------------------------------------------
\* One lemma per action: it preserves the ledger.

\* A lookup moves LRU stamps only.
LEMMA TouchKeepsBlocks ==
    ASSUME TypeOK, NEW w, TouchMatches(w)
    PROVE  /\ DOMAIN prefixes' = DOMAIN prefixes
           /\ \A q \in DOMAIN prefixes : prefixes'[q].blocks = prefixes[q].blocks
           /\ \A q \in DOMAIN prefixes : prefixes'[q] \in [blocks : Seq(Blocks), lru : Nat]
           /\ prefixes' \in [DOMAIN prefixes' -> [blocks : Seq(Blocks), lru : Nat]]
<1> DEFINE Entry == [blocks : Seq(Blocks), lru : Nat]
           hit   == {Boundary(w, k) : k \in Matches(w)}
<1>1. prefixes' = [q \in DOMAIN prefixes |->
                      IF q \in hit THEN [prefixes[q] EXCEPT !.lru = clock + 1]
                                   ELSE prefixes[q]]
  BY DEF TouchMatches
<1>2. ASSUME NEW e \in Entry
      PROVE  /\ [e EXCEPT !.lru = clock + 1] \in Entry
             /\ [e EXCEPT !.lru = clock + 1].blocks = e.blocks
  <2>1. clock + 1 \in Nat
    BY DEF TypeOK
  <2>2. [e EXCEPT !.lru = clock + 1] = [blocks |-> e.blocks, lru |-> clock + 1]
    OBVIOUS
  <2> QED BY <2>1, <2>2
<1>3. \A q \in DOMAIN prefixes : prefixes[q] \in Entry
  BY DEF TypeOK
<1>4. \A q \in DOMAIN prefixes : prefixes'[q] \in Entry /\ prefixes'[q].blocks = prefixes[q].blocks
  <2> HIDE DEF hit, Entry
  <2> QED BY <1>1, <1>2, <1>3
<1> QED BY <1>1, <1>4

\* alloc + lookup_prefix + share_blocks preserve the ledger.
LEMMA AdmitLedger ==
    ASSUME LedgerInv, NEW s \in Slots, NEW w \in Prompts, Admit(s, w)
    PROVE  LedgerInv'
<1> DEFINE key    == Boundary(w, LongestMatch(w))
           shared == prefixes[key].blocks
           B      == IF Matches(w) = {} THEN {} ELSE Range(shared)
<1> USE DEF Admit
<1>1. w \in Seq(Token) /\ s \in freeSlots /\ slotBlocks[s] = <<>> /\ TypeOK
  BY CacheConstants DEF LedgerInv, FreeSlotsBlank
<1>2. Matches(w) # {} => key \in DOMAIN prefixes /\ shared \in Seq(Blocks)
  <2>1. Matches(w) # {} => LongestMatch(w) \in Matches(w)
    BY <1>1, LongestMatchMatches
  <2> QED BY <1>1, <2>1 DEF Matches, TypeOK
<1>3. B \in SUBSET Blocks
  BY <1>2, RangeOfSeq
<1>4. /\ DOMAIN prefixes' = DOMAIN prefixes
      /\ \A q \in DOMAIN prefixes : prefixes'[q].blocks = prefixes[q].blocks
      /\ \A q \in DOMAIN prefixes : prefixes'[q] \in [blocks : Seq(Blocks), lru : Nat]
      /\ prefixes' \in [DOMAIN prefixes' -> [blocks : Seq(Blocks), lru : Nat]]
  BY <1>1, TouchKeepsBlocks
<1>5. \A b \in Blocks : PrefixHolders(b)' = PrefixHolders(b)
  BY <1>4 DEF PrefixHolders
<1>6. \A b \in B : PrefixHolders(b) # {}
  BY <1>2 DEF PrefixHolders
<1>7. \A b \in Blocks : s \notin SlotHolders(b)
  BY <1>1 DEF SlotHolders, Range
<1>8. slotBlocks' = IF Matches(w) = {} THEN slotBlocks ELSE [slotBlocks EXCEPT ![s] = shared]
  OBVIOUS
<1>9. \A b \in Blocks : SlotHolders(b)' = IF b \in B THEN SlotHolders(b) \cup {s} ELSE SlotHolders(b)
  <2>1. CASE Matches(w) = {}
    BY <1>8, <2>1 DEF SlotHolders
  <2>2. CASE Matches(w) # {}
    <3> SUFFICES ASSUME NEW b \in Blocks
                 PROVE  SlotHolders(b)' = IF b \in B THEN SlotHolders(b) \cup {s} ELSE SlotHolders(b)
      OBVIOUS
    <3>1. \A r \in Slots : slotBlocks'[r] = IF r = s THEN shared ELSE slotBlocks[r]
      BY <1>1, <1>8, <2>2 DEF TypeOK
    <3>2. s \notin SlotHolders(b)
      BY <1>7
    <3> HIDE DEF shared
    <3> QED BY <2>2, <3>1, <3>2 DEF SlotHolders
  <2> QED BY <2>1, <2>2
<1>10. /\ refcount' \in [Blocks -> Nat]
       /\ \A b \in Blocks : refcount'[b] = IF b \in B THEN refcount[b] + 1 ELSE refcount[b]
  <2>1. CASE Matches(w) = {}
    BY <1>1, <2>1 DEF TypeOK
  <2>2. CASE Matches(w) # {}
    BY <1>3, <1>6, <2>2, IncrefHeld
  <2> QED BY <2>1, <2>2
<1> HIDE DEF B, shared, key
<1>11. RefcountExact'
  BY <1>3, <1>5, <1>7, <1>9, <1>10, SlotGains
<1>12. FreeIffUnheld'
  <2> SUFFICES ASSUME NEW b \in Blocks
               PROVE  b \in freeBlocks' <=> SlotHolders(b)' = {} /\ PrefixHolders(b)' = {}
    BY DEF FreeIffUnheld
  <2>1. b \in freeBlocks <=> SlotHolders(b) = {} /\ PrefixHolders(b) = {}
    BY DEF LedgerInv, FreeIffUnheld
  <2>2. freeBlocks' = freeBlocks
    OBVIOUS
  <2> QED BY <1>5, <1>6, <1>9, <2>1, <2>2
<1>13. TypeOK'
  <2>1. slotBlocks' \in [Slots -> Seq(Blocks)]
    BY <1>1, <1>2, <1>8 DEF TypeOK
  <2>2. matched' \in [Slots -> Nat]
    <3>1. CASE Matches(w) = {}
      BY <1>1, <3>1 DEF TypeOK
    <3>2. CASE Matches(w) # {}
      <4>1. LongestMatch(w) \in Nat
        BY <1>1, <3>2, LongestMatchMatches, FullBlocksFit DEF Matches
      <4>2. LongestMatch(w) * BlockSize \in Nat
        BY <4>1, CacheConstants
      <4> QED BY <1>1, <3>2, <4>2 DEF TypeOK
    <3> QED BY <3>1, <3>2
  <2> QED BY <1>1, <1>4, <1>10, <2>1, <2>2 DEF TypeOK
<1>14. IsFiniteSet(DOMAIN prefixes')
  BY <1>4 DEF LedgerInv
<1>15. FreeSlotsBlank'
  BY <1>1, <1>8 DEF LedgerInv, FreeSlotsBlank, TypeOK
<1>16. PrefilledFits'
  BY <1>1, <1>8 DEF LedgerInv, FreeSlotsBlank, PrefilledFits, TypeOK
<1>17. StoreInRange'
  BY DEF StoreInRange
<1> QED BY <1>11, <1>12, <1>13, <1>14, <1>15, <1>16, <1>17 DEF LedgerInv

\* Steps that touch neither tables, entries' blocks, counts nor free list.
LEMMA LedgerFrame ==
    ASSUME LedgerInv,
           UNCHANGED <<freeBlocks, slotBlocks, refcount>>,
           DOMAIN prefixes' = DOMAIN prefixes,
           \A q \in DOMAIN prefixes : prefixes'[q].blocks = prefixes[q].blocks
    PROVE  RefcountExact' /\ FreeIffUnheld' /\ IsFiniteSet(DOMAIN prefixes')
<1>1. \A b \in Blocks : SlotHolders(b)' = SlotHolders(b) /\ PrefixHolders(b)' = PrefixHolders(b)
  BY DEF SlotHolders, PrefixHolders
<1>2. RefcountExact'
  BY <1>1 DEF LedgerInv, RefcountExact
<1>3. FreeIffUnheld'
  BY <1>1 DEF LedgerInv, FreeIffUnheld
<1> QED BY <1>2, <1>3 DEF LedgerInv

\* A round of ensure_capacity preserves the ledger.
LEMMA GrowLedger ==
    ASSUME LedgerInv, NEW s \in Slots, Grow(s)
    PROVE  LedgerInv'
<1> USE DEF Grow
<1>1. TypeOK /\ s \notin freeSlots
  BY DEF LedgerInv, Allocated
<1>2. PICK b \in freeBlocks :
        /\ freeBlocks' = freeBlocks \ {b}
        /\ slotBlocks' = [slotBlocks EXCEPT ![s] = Append(@, b)]
        /\ refcount' = [refcount EXCEPT ![b] = 1]
  OBVIOUS
<1>3. b \in Blocks /\ slotBlocks[s] \in Seq(Blocks) /\ Append(slotBlocks[s], b) \in Seq(Blocks)
  BY <1>1, <1>2 DEF TypeOK
<1>4. /\ SlotHolders(b) = {} /\ PrefixHolders(b) = {} /\ refcount[b] = 0
  <2>1. SlotHolders(b) = {} /\ PrefixHolders(b) = {}
    BY <1>2, <1>3 DEF LedgerInv, FreeIffUnheld
  <2>2. Cardinality({}) = 0
    BY FS_EmptySet
  <2>3. refcount[b] = Cardinality(SlotHolders(b)) + Cardinality(PrefixHolders(b))
    BY <1>3, HoldersCount
  <2> QED BY <2>1, <2>2, <2>3
<1>5. \A c \in Blocks : PrefixHolders(c)' = PrefixHolders(c)
  BY DEF PrefixHolders
<1>6. \A c \in Blocks : SlotHolders(c)' = IF c \in {b} THEN SlotHolders(c) \cup {s} ELSE SlotHolders(c)
  <2>1. \A r \in Slots : Range(slotBlocks'[r]) = IF r = s THEN Range(slotBlocks[r]) \cup {b}
                                                        ELSE Range(slotBlocks[r])
    <3>1. \A r \in Slots : slotBlocks'[r] = IF r = s THEN Append(slotBlocks[s], b) ELSE slotBlocks[r]
      BY <1>1, <1>2 DEF TypeOK
    <3>2. Range(Append(slotBlocks[s], b)) = Range(slotBlocks[s]) \cup {b}
      BY <1>3, RangeAppend
    <3> QED BY <3>1, <3>2
  <2> QED BY <2>1 DEF SlotHolders
<1>7. /\ refcount' \in [Blocks -> Nat]
      /\ \A c \in Blocks : refcount'[c] = IF c \in {b} THEN refcount[c] + 1 ELSE refcount[c]
  BY <1>1, <1>2, <1>3, <1>4 DEF TypeOK
<1>8. RefcountExact'
  <2>1. {b} \in SUBSET Blocks /\ \A c \in {b} : s \notin SlotHolders(c)
    BY <1>3, <1>4
  <2> QED BY <2>1, <1>5, <1>6, <1>7, SlotGains
<1>9. FreeIffUnheld'
  BY <1>2, <1>5, <1>6 DEF LedgerInv, FreeIffUnheld
<1>10. TypeOK'
  BY <1>1, <1>2, <1>3, <1>7 DEF TypeOK
<1>11. FreeSlotsBlank'
  BY <1>1, <1>2 DEF LedgerInv, FreeSlotsBlank, TypeOK
<1>12. PrefilledFits'
  <2>1. \A r \in Slots : Len(slotBlocks'[r]) >= Len(slotBlocks[r]) /\ Len(slotBlocks[r]) \in Nat
                         /\ Len(slotBlocks'[r]) \in Nat
    BY <1>1, <1>2, <1>3, AppendProperties DEF TypeOK
  <2>2. \A r \in Slots : committed[r] # <<>> =>
            prompt[r] \in Prompts /\ BlocksFor(Len(prompt[r])) <= Len(slotBlocks[r])
    BY DEF LedgerInv, PrefilledFits
  <2>3. \A r \in Slots : prompt[r] \in Prompts => BlocksFor(Len(prompt[r])) \in Nat
    BY FullBlocksFit, CacheConstants
  <2>4. ASSUME NEW r \in Slots, committed[r] # <<>>
        PROVE  BlocksFor(Len(prompt[r])) <= Len(slotBlocks'[r])
    BY <2>1, <2>2, <2>3, <2>4
  <2> QED BY <2>2, <2>4 DEF PrefilledFits, BlocksFor
<1>13. StoreInRange'
  BY DEF StoreInRange
<1>14. IsFiniteSet(DOMAIN prefixes')
  BY DEF LedgerInv
<1> QED BY <1>8, <1>9, <1>10, <1>11, <1>12, <1>13, <1>14 DEF LedgerInv

\* write_prefill preserves the ledger: the slot has blocks for its prompt.
LEMMA WritePrefillLedger ==
    ASSUME LedgerInv, NEW s \in Slots, NEW start, WritePrefill(s, start)
    PROVE  LedgerInv'
<1> USE DEF WritePrefill
<1>1. TypeOK /\ s \notin freeSlots
  BY DEF LedgerInv, Allocated
<1>2. prompt[s] \in Prompts \cup {<<>>} /\ prompt[s] \in Seq(Token)
  BY <1>1, CacheConstants DEF TypeOK
<1>3. \A n \in Int : SubSeq(prompt[s], 1, MinOf(Len(prompt[s]), n)) \in Seq(Token)
  <2> SUFFICES ASSUME NEW n \in Int
               PROVE  SubSeq(prompt[s], 1, MinOf(Len(prompt[s]), n)) \in Seq(Token)
    OBVIOUS
  <2>1. /\ MinOf(Len(prompt[s]), n) \in Int
        /\ \A i \in 1..MinOf(Len(prompt[s]), n) : prompt[s][i] \in Token
    BY <1>2 DEF MinOf
  <2> QED BY <2>1, SubSeqProperties
<1>4. kv' \in [Blocks -> Seq(Token)]
  <2>1. ASSUME NEW b \in Blocks, NEW i \in 1..BlocksFor(Len(prompt[s])), slotBlocks[s][i] = b
        PROVE  BlockSize * (CHOOSE j \in 1..BlocksFor(Len(prompt[s])) : slotBlocks[s][j] = b) \in Int
    BY <2>1, CacheConstants
  <2> QED BY <1>1, <1>3, <2>1 DEF TypeOK
<1>5. RefcountExact' /\ FreeIffUnheld' /\ IsFiniteSet(DOMAIN prefixes')
  BY LedgerFrame
<1>6. TypeOK'
  BY <1>1, <1>2, <1>4 DEF TypeOK
<1>7. FreeSlotsBlank' /\ StoreInRange'
  BY <1>1 DEF LedgerInv, FreeSlotsBlank, StoreInRange, TypeOK
<1>8. PrefilledFits'
  BY <1>1, <1>2 DEF LedgerInv, PrefilledFits, TypeOK, BlocksFor
<1> QED BY <1>5, <1>6, <1>7, <1>8 DEF LedgerInv

\* write_decode preserves the ledger.
LEMMA WriteDecodeLedger ==
    ASSUME LedgerInv, NEW s \in Slots, NEW t \in Token, WriteDecode(s, t)
    PROVE  LedgerInv'
<1> USE DEF WriteDecode
<1>1. TypeOK /\ s \notin freeSlots
  BY DEF LedgerInv, Allocated
<1>2. Append(committed[s], t) \in Seq(Token) /\ Append(committed[s], t) # <<>>
  <2>1. committed[s] \in Seq(Token)
    BY <1>1 DEF TypeOK
  <2> QED BY <2>1, AppendProperties
<1>3. RefcountExact' /\ FreeIffUnheld' /\ IsFiniteSet(DOMAIN prefixes')
  BY LedgerFrame
<1>4. TypeOK'
  BY <1>1, <1>2 DEF TypeOK
<1>5. FreeSlotsBlank' /\ StoreInRange'
  BY <1>1 DEF LedgerInv, FreeSlotsBlank, StoreInRange, TypeOK
<1>6. PrefilledFits'
  BY <1>1 DEF LedgerInv, PrefilledFits, TypeOK
<1> QED BY <1>3, <1>4, <1>5, <1>6 DEF LedgerInv

\* Entering store_prefix preserves the ledger.
LEMMA StoreBeginLedger ==
    ASSUME LedgerInv, NEW s \in Slots, StoreBegin(s)
    PROVE  LedgerInv'
<1> USE DEF StoreBegin, ownerVars
<1>1. TypeOK /\ s \in Allocated
  BY DEF LedgerInv
<1>2. FullBlocks(prompt[s]) \in Nat
  BY <1>1, FullBlocksFit, CacheConstants, EmptySeq DEF TypeOK
<1>3. RefcountExact' /\ FreeIffUnheld' /\ IsFiniteSet(DOMAIN prefixes')
  BY LedgerFrame
<1>4. TypeOK'
  BY <1>1 DEF TypeOK
<1>5. FreeSlotsBlank' /\ PrefilledFits'
  BY DEF LedgerInv, FreeSlotsBlank, PrefilledFits
<1>6. StoreInRange'
  BY <1>1, <1>2 DEF StoreInRange, FullBlocks, Allocated
<1> QED BY <1>3, <1>4, <1>5, <1>6 DEF LedgerInv

\* Facts about the store_prefix call under way.
LEMMA StoreFacts ==
    ASSUME LedgerInv, store # Idle
    PROVE  /\ store \in [slot : Slots, k : Nat \ {0}, lru : Nat]
           /\ store.slot \in Slots
           /\ store.slot \in Allocated
           /\ prompt[store.slot] \in Prompts
           /\ FullBlocks(prompt[store.slot]) \in Nat
           /\ store.k \in 1..FullBlocks(prompt[store.slot])
           /\ slotBlocks[store.slot] \in Seq(Blocks)
           /\ store.k \in 0..Len(slotBlocks[store.slot])
           /\ StoreKey \in PrefixKeys
<1>1. TypeOK /\ StoreInRange /\ PrefilledFits
  BY DEF LedgerInv
<1>2. /\ store \in [slot : Slots, k : Nat \ {0}, lru : Nat]
      /\ store.slot \in Slots /\ store.slot \in Allocated
      /\ slotBlocks[store.slot] \in Seq(Blocks)
      /\ store.k \in 1..FullBlocks(prompt[store.slot])
  BY <1>1 DEF TypeOK, StoreInRange
<1>3. /\ prompt[store.slot] \in Prompts
      /\ BlocksFor(Len(prompt[store.slot])) <= Len(slotBlocks[store.slot])
  BY <1>1, <1>2 DEF StoreInRange, PrefilledFits
<1>4. /\ FullBlocks(prompt[store.slot]) \in Nat
      /\ BlocksFor(Len(prompt[store.slot])) \in Nat
      /\ FullBlocks(prompt[store.slot]) <= BlocksFor(Len(prompt[store.slot]))
  BY <1>3, FullBlocksFit, CacheConstants
<1>5. store.k \in 0..Len(slotBlocks[store.slot])
  <2>1. Len(slotBlocks[store.slot]) \in Nat
    BY <1>2, LenProperties
  <2> QED BY <1>2, <1>3, <1>4, <2>1
<1>6. StoreKey \in PrefixKeys
  BY <1>2, <1>3, BoundaryIsKey DEF StoreKey
<1> QED BY <1>2, <1>3, <1>4, <1>5, <1>6

\* Moving on to the next boundary keeps the call in range.
LEMMA NextBoundaryInRange ==
    ASSUME LedgerInv, store # Idle, NextBoundary,
           UNCHANGED <<freeSlots, prompt, committed>>
    PROVE  /\ store' \in {Idle} \cup [slot : Slots, k : Nat \ {0}, lru : Nat]
           /\ StoreInRange'
<1>1. /\ store \in [slot : Slots, k : Nat \ {0}, lru : Nat]
      /\ FullBlocks(prompt[store.slot]) \in Nat
      /\ store.k \in 1..FullBlocks(prompt[store.slot])
  BY StoreFacts
<1>2. CASE store.k < FullBlocks(prompt[store.slot])
  <2>1. store' = [slot |-> store.slot, k |-> store.k + 1, lru |-> store.lru]
    BY <1>1, <1>2 DEF NextBoundary
  <2>2. store'.k \in 1..FullBlocks(prompt[store.slot]) /\ store'.slot = store.slot
    BY <1>1, <1>2, <2>1
  <2> QED BY <1>1, <2>1, <2>2 DEF LedgerInv, StoreInRange, FullBlocks, Allocated
<1>3. CASE ~ (store.k < FullBlocks(prompt[store.slot]))
  BY <1>3 DEF NextBoundary, StoreInRange
<1> QED BY <1>2, <1>3

\* Re-stamping an existing entry preserves the ledger.
LEMMA StoreBumpLedger ==
    ASSUME LedgerInv, StoreBump
    PROVE  LedgerInv'
<1> USE DEF StoreBump, ownerVars
<1>1. TypeOK /\ store # Idle /\ store.lru \in Nat
  BY StoreFacts DEF LedgerInv
<1> DEFINE Entry == [blocks : Seq(Blocks), lru : Nat]
<1>2. ASSUME NEW e \in Entry
      PROVE  /\ [e EXCEPT !.lru = store.lru] \in Entry
             /\ [e EXCEPT !.lru = store.lru].blocks = e.blocks
  <2>1. [e EXCEPT !.lru = store.lru] = [blocks |-> e.blocks, lru |-> store.lru]
    OBVIOUS
  <2> QED BY <1>1, <2>1
<1>3. \A q \in DOMAIN prefixes : prefixes[q] \in Entry
  BY <1>1 DEF TypeOK
<1>4. prefixes' = [q \in DOMAIN prefixes |->
                      IF q = StoreKey THEN [prefixes[q] EXCEPT !.lru = store.lru] ELSE prefixes[q]]
  BY <1>1 DEF TypeOK
<1>5. \A q \in DOMAIN prefixes : prefixes'[q] \in Entry /\ prefixes'[q].blocks = prefixes[q].blocks
  <2> HIDE DEF Entry
  <2> QED BY <1>2, <1>3, <1>4
<1>6. DOMAIN prefixes' = DOMAIN prefixes
  BY <1>4
<1>7. RefcountExact' /\ FreeIffUnheld' /\ IsFiniteSet(DOMAIN prefixes')
  BY <1>5, <1>6, LedgerFrame
<1>8. store' \in {Idle} \cup [slot : Slots, k : Nat \ {0}, lru : Nat] /\ StoreInRange'
  BY <1>1, NextBoundaryInRange
<1>9. TypeOK'
  BY <1>1, <1>4, <1>5, <1>6, <1>8 DEF TypeOK
<1>10. FreeSlotsBlank' /\ PrefilledFits'
  BY DEF LedgerInv, FreeSlotsBlank, PrefilledFits
<1> QED BY <1>7, <1>8, <1>9, <1>10 DEF LedgerInv

\* A block a holder has just let go of is free exactly when it was the
\* holder's alone: the count that reached zero was the number of holders.
LEMMA FreedWhenLast ==
    ASSUME LedgerInv, NEW B \in SUBSET Blocks, RefcountExact',
           IsFiniteSet(DOMAIN prefixes'),
           freeBlocks' = freeBlocks \cup {b \in B : refcount[b] = 1},
           \A b \in Blocks : refcount[b] \in Nat,
           \A b \in B : b \notin freeBlocks /\ refcount'[b] = refcount[b] - 1,
           \A b \in Blocks \ B : SlotHolders(b)' = SlotHolders(b)
                                 /\ PrefixHolders(b)' = PrefixHolders(b)
    PROVE  FreeIffUnheld'
<1> SUFFICES ASSUME NEW b \in Blocks
             PROVE  b \in freeBlocks' <=> SlotHolders(b)' = {} /\ PrefixHolders(b)' = {}
  BY DEF FreeIffUnheld
<1>1. CASE b \notin B
  BY <1>1 DEF LedgerInv, FreeIffUnheld
<1>2. CASE b \in B
  <2>1. IsFiniteSet(SlotHolders(b)') /\ IsFiniteSet(PrefixHolders(b)')
    <3>1. SlotHolders(b)' \in SUBSET Slots /\ PrefixHolders(b)' \in SUBSET (DOMAIN prefixes')
      BY DEF SlotHolders, PrefixHolders
    <3> QED BY <3>1, CacheConstants, FS_Subset
  <2>2. /\ Cardinality(SlotHolders(b)') \in Nat /\ Cardinality(PrefixHolders(b)') \in Nat
        /\ Cardinality(SlotHolders(b)') = 0 <=> SlotHolders(b)' = {}
        /\ Cardinality(PrefixHolders(b)') = 0 <=> PrefixHolders(b)' = {}
    BY <2>1, FS_CardinalityType, FS_EmptySet
  <2>3. refcount'[b] = Cardinality(SlotHolders(b)') + Cardinality(PrefixHolders(b)')
    BY DEF RefcountExact
  <2>4. b \in freeBlocks' <=> refcount[b] = 1
    BY <1>2
  <2>5. refcount[b] = 1 <=> refcount'[b] = 0
    BY <1>2
  <2> QED BY <2>2, <2>3, <2>4, <2>5
<1> QED BY <1>1, <1>2

\* _evict_one_prefix preserves the ledger.
LEMMA StoreEvictLedger ==
    ASSUME LedgerInv, StoreEvict
    PROVE  LedgerInv'
<1> USE DEF StoreEvict, ownerVars
<1>1. TypeOK
  BY DEF LedgerInv
<1>2. PICK q \in DOMAIN prefixes :
        /\ prefixes' = [r \in DOMAIN prefixes \ {q} |-> prefixes[r]]
        /\ Release(Range(prefixes[q].blocks))
  BY DEF Oldest
<1> DEFINE B == Range(prefixes[q].blocks)
<1>3. B \in SUBSET Blocks
  BY <1>1, <1>2, RangeOfSeq DEF TypeOK
<1>4. \A b \in B : q \in PrefixHolders(b)
  BY <1>2 DEF PrefixHolders
<1>5. \A b \in Blocks : SlotHolders(b)' = SlotHolders(b)
  BY DEF SlotHolders
<1>6. \A b \in Blocks : PrefixHolders(b)' = IF b \in B THEN PrefixHolders(b) \ {q} ELSE PrefixHolders(b)
  BY <1>2 DEF PrefixHolders
<1>7. /\ refcount' \in [Blocks -> Nat]
      /\ \A b \in Blocks : refcount'[b] = IF b \in B THEN refcount[b] - 1 ELSE refcount[b]
      /\ freeBlocks' = freeBlocks \cup {b \in B : refcount[b] = 1}
      /\ freeBlocks' \subseteq Blocks
      /\ kv' \in [Blocks -> Seq(Token)]
  BY <1>2, <1>3, <1>4, ReleaseHeld
<1> HIDE DEF B
<1>8. RefcountExact'
  BY <1>3, <1>4, <1>5, <1>6, <1>7, PrefixLoses
<1>9. IsFiniteSet(DOMAIN prefixes')
  BY <1>2, FS_Subset DEF LedgerInv
<1>10. FreeIffUnheld'
  <2>1. \A b \in B : b \notin freeBlocks
    BY <1>3, <1>4, HoldersCount
  <2>2. \A b \in Blocks : refcount[b] \in Nat
    BY HoldersCount
  <2> QED BY <1>3, <1>5, <1>6, <1>7, <1>8, <1>9, <2>1, <2>2, FreedWhenLast
<1>11. TypeOK'
  BY <1>1, <1>2, <1>7 DEF TypeOK
<1>12. FreeSlotsBlank' /\ PrefilledFits' /\ StoreInRange'
  BY DEF LedgerInv, FreeSlotsBlank, PrefilledFits, StoreInRange, FullBlocks, Allocated
<1> QED BY <1>8, <1>9, <1>10, <1>11, <1>12 DEF LedgerInv

\* A new prefix entry preserves the ledger.
LEMMA StoreAddLedger ==
    ASSUME LedgerInv, StoreAdd
    PROVE  LedgerInv'
<1> DEFINE table == SubSeq(slotBlocks[store.slot], 1, store.k)
           B     == Range(table)
           entry == [blocks |-> table, lru |-> store.lru]
<1> USE DEF StoreAdd, ownerVars
<1>1. TypeOK /\ store # Idle /\ store.lru \in Nat /\ StoreKey \in PrefixKeys /\ store.slot \in Slots
  BY StoreFacts DEF LedgerInv
<1>2. table \in Seq(Blocks) /\ B \subseteq Range(slotBlocks[store.slot])
  BY <1>1, StoreFacts, LeadingPart
<1>3. B \in SUBSET Blocks
  BY <1>2, RangeOfSeq
<1>4. \A b \in B : SlotHolders(b) # {}
  BY <1>1, <1>2 DEF SlotHolders
<1>5. /\ refcount' \in [Blocks -> Nat]
      /\ \A b \in Blocks : refcount'[b] = IF b \in B THEN refcount[b] + 1 ELSE refcount[b]
  BY <1>3, <1>4, IncrefHeld
<1>6. /\ StoreKey \notin DOMAIN prefixes
      /\ prefixes' = [q \in DOMAIN prefixes \cup {StoreKey} |->
                         IF q = StoreKey THEN entry ELSE prefixes[q]]
  OBVIOUS
<1>7. entry \in [blocks : Seq(Blocks), lru : Nat] /\ Range(entry.blocks) = B
  BY <1>1, <1>2
<1> HIDE DEF entry, B, table
<1>8. \A b \in Blocks : SlotHolders(b)' = SlotHolders(b)
  BY DEF SlotHolders
<1>9. \A b \in Blocks : StoreKey \notin PrefixHolders(b)
  BY <1>6 DEF PrefixHolders
<1>10. \A b \in Blocks : PrefixHolders(b)' = IF b \in B THEN PrefixHolders(b) \cup {StoreKey}
                                                        ELSE PrefixHolders(b)
  BY <1>6, <1>7 DEF PrefixHolders
<1>11. RefcountExact'
  BY <1>3, <1>5, <1>8, <1>9, <1>10, PrefixGains
<1>12. FreeIffUnheld'
  BY <1>3, <1>4, <1>8, <1>10 DEF LedgerInv, FreeIffUnheld
<1>13. IsFiniteSet(DOMAIN prefixes')
  BY <1>6, FS_AddElement DEF LedgerInv
<1>14. store' \in {Idle} \cup [slot : Slots, k : Nat \ {0}, lru : Nat] /\ StoreInRange'
  BY <1>1, NextBoundaryInRange
<1>15. TypeOK'
  <2>1. DOMAIN prefixes' = DOMAIN prefixes \cup {StoreKey} /\ DOMAIN prefixes' \subseteq PrefixKeys
    BY <1>1, <1>6 DEF TypeOK
  <2>2. \A q \in DOMAIN prefixes' : prefixes'[q] \in [blocks : Seq(Blocks), lru : Nat]
    BY <1>1, <1>6, <1>7 DEF TypeOK
  <2>3. prefixes' \in [DOMAIN prefixes' -> [blocks : Seq(Blocks), lru : Nat]]
    BY <1>6, <2>2
  <2> QED BY <1>1, <1>5, <1>14, <2>1, <2>3 DEF TypeOK
<1>16. FreeSlotsBlank' /\ PrefilledFits'
  BY DEF LedgerInv, FreeSlotsBlank, PrefilledFits
<1> QED BY <1>11, <1>12, <1>13, <1>14, <1>15, <1>16 DEF LedgerInv

\* free(slot) preserves the ledger.
LEMMA FreeLedger ==
    ASSUME LedgerInv, NEW s \in Slots, Free(s)
    PROVE  LedgerInv'
<1> DEFINE B == Range(slotBlocks[s])
<1> USE DEF Free, trieVars
<1>1. TypeOK /\ s \notin freeSlots
  BY DEF LedgerInv, Allocated
<1>2. B \in SUBSET Blocks
  BY <1>1, RangeOfSeq DEF TypeOK
<1>3. \A b \in B : s \in SlotHolders(b)
  BY DEF SlotHolders
<1>4. \A b \in Blocks : PrefixHolders(b)' = PrefixHolders(b)
  BY DEF PrefixHolders
<1>5. \A b \in Blocks : SlotHolders(b)' = IF b \in B THEN SlotHolders(b) \ {s} ELSE SlotHolders(b)
  <2>1. \A r \in Slots : slotBlocks'[r] = IF r = s THEN <<>> ELSE slotBlocks[r]
    BY <1>1 DEF TypeOK
  <2>2. Range(<<>>) = {}
    BY DEF Range
  <2> QED BY <2>1, <2>2 DEF SlotHolders
<1>6. /\ refcount' \in [Blocks -> Nat]
      /\ \A b \in Blocks : refcount'[b] = IF b \in B THEN refcount[b] - 1 ELSE refcount[b]
      /\ freeBlocks' = freeBlocks \cup {b \in B : refcount[b] = 1}
      /\ freeBlocks' \subseteq Blocks
      /\ kv' \in [Blocks -> Seq(Token)]
  BY <1>2, <1>3, ReleaseHeld
<1> HIDE DEF B
<1>7. RefcountExact'
  BY <1>2, <1>3, <1>4, <1>5, <1>6, SlotLoses
<1>8. IsFiniteSet(DOMAIN prefixes')
  BY DEF LedgerInv
<1>9. FreeIffUnheld'
  <2>1. \A b \in B : b \notin freeBlocks
    BY <1>2, <1>3, HoldersCount
  <2>2. \A b \in Blocks : refcount[b] \in Nat
    BY HoldersCount
  <2> QED BY <1>2, <1>4, <1>5, <1>6, <1>7, <1>8, <2>1, <2>2, FreedWhenLast
<1>10. TypeOK'
  <2>1. slotBlocks' \in [Slots -> Seq(Blocks)] /\ committed' \in [Slots -> Seq(Token)]
    BY <1>1, EmptySeq DEF TypeOK
  <2>2. prompt' \in [Slots -> Prompts \cup {<<>>}] /\ matched' \in [Slots -> Nat]
    BY <1>1 DEF TypeOK
  <2>3. freeSlots' \subseteq Slots
    BY <1>1 DEF TypeOK
  <2> QED BY <1>1, <1>6, <2>1, <2>2, <2>3 DEF TypeOK
<1>11. FreeSlotsBlank'
  BY <1>1 DEF LedgerInv, FreeSlotsBlank, TypeOK
<1>12. PrefilledFits'
  BY <1>1 DEF LedgerInv, PrefilledFits, TypeOK
<1>13. StoreInRange'
  BY DEF StoreInRange
<1> QED BY <1>7, <1>8, <1>9, <1>10, <1>11, <1>12, <1>13 DEF LedgerInv

-----------------------------------------------------------------------------
\* The ledger is inductive.
LEMMA NextLedger == LedgerInv /\ [Next]_vars => LedgerInv'
<1> SUFFICES ASSUME LedgerInv, [Next]_vars PROVE LedgerInv'
  OBVIOUS
<1>1. ASSUME NEW s \in Slots, NEW w \in Prompts, Admit(s, w) PROVE LedgerInv'
  BY <1>1, AdmitLedger
<1>2. ASSUME NEW s \in Slots, Grow(s) PROVE LedgerInv'
  BY <1>2, GrowLedger
<1>3. ASSUME NEW s \in Slots, NEW start \in {0, matched[s]}, WritePrefill(s, start) PROVE LedgerInv'
  BY <1>3, WritePrefillLedger
<1>4. ASSUME NEW s \in Slots, NEW t \in Token, WriteDecode(s, t) PROVE LedgerInv'
  BY <1>4, WriteDecodeLedger
<1>5. ASSUME NEW s \in Slots, StoreBegin(s) PROVE LedgerInv'
  BY <1>5, StoreBeginLedger
<1>6. ASSUME NEW s \in Slots, Free(s) PROVE LedgerInv'
  BY <1>6, FreeLedger
<1>7. CASE StoreBump \/ StoreEvict \/ StoreAdd
  BY <1>7, StoreBumpLedger, StoreEvictLedger, StoreAddLedger
<1>8. CASE UNCHANGED vars
  <2> USE <1>8 DEF vars
  <2>1. RefcountExact' /\ FreeIffUnheld' /\ IsFiniteSet(DOMAIN prefixes')
    BY LedgerFrame
  <2>2. TypeOK' /\ FreeSlotsBlank' /\ PrefilledFits' /\ StoreInRange'
    BY DEF LedgerInv, TypeOK, FreeSlotsBlank, PrefilledFits, StoreInRange, FullBlocks, Allocated
  <2> QED BY <2>1, <2>2 DEF LedgerInv
<1> QED BY <1>1, <1>2, <1>3, <1>4, <1>5, <1>6, <1>7, <1>8 DEF Next

\* For every pool, slot set, block size and prefix limit: the types hold,
\* each reference count equals the number of slots and cached prefixes that
\* point at the block, and the free list is exactly the unreferenced blocks.
THEOREM LedgerAlways == Spec => []LedgerInv
BY InitLedger, NextLedger, PTL DEF Spec

\* The types hold, whatever the constants.
THEOREM TypesAlways == Spec => []TypeOK
<1>1. LedgerInv => TypeOK
  BY DEF LedgerInv
<1> QED BY <1>1, LedgerAlways, PTL

\* No leak and no early free of a shared block ("blocks shared via prefix
\* cache are only freed when the last reference is gone").
THEOREM RefcountAlwaysExact == Spec => []RefcountExact
<1>1. LedgerInv => RefcountExact
  BY DEF LedgerInv
<1> QED BY <1>1, LedgerAlways, PTL

\* The free list is exactly the blocks no slot and no prefix points at.
THEOREM FreeListAlwaysExact == Spec => []FreeIffUnheld
<1>1. LedgerInv => FreeIffUnheld
  BY DEF LedgerInv
<1> QED BY <1>1, LedgerAlways, PTL

-----------------------------------------------------------------------------
(***************************************************************************)
(* Refinement: a step of the cache is a step of SharedBlockPool or none.   *)
(***************************************************************************)

\* `held` of SharedBlockPool under the refinement mapping.
Held == [h \in HolderSet |-> HeldBy(h)]

\* Slots and prefixes are distinct holders, and what each holds is read off
\* slotBlocks and prefixes.
LEMMA HolderFacts ==
    /\ \A s \in Slots : SlotHolder(s) \in HolderSet /\ HeldBy(SlotHolder(s)) = Range(slotBlocks[s])
    /\ \A q \in PrefixKeys :
          /\ PrefixHolder(q) \in HolderSet
          /\ HeldBy(PrefixHolder(q)) = IF q \in DOMAIN prefixes THEN Range(prefixes[q].blocks) ELSE {}
    /\ \A h \in HolderSet : \/ \E s \in Slots : h = SlotHolder(s)
                            \/ \E q \in PrefixKeys : h = PrefixHolder(q)
    /\ \A s, r : SlotHolder(s) = SlotHolder(r) => s = r
    /\ \A q, r : PrefixHolder(q) = PrefixHolder(r) => q = r
    /\ \A s, q : SlotHolder(s) # PrefixHolder(q)
BY DEF SlotHolder, PrefixHolder, HolderSet, HeldBy

\* The holdings after only holder g changed, to the blocks B.
LEMMA HeldChanges ==
    ASSUME NEW g \in HolderSet, NEW B, HeldBy(g)' = B,
           \A h \in HolderSet : h # g => HeldBy(h)' = HeldBy(h)
    PROVE  Held' = [Held EXCEPT ![g] = B]
BY DEF Held, HolderSet, PrefixKeys, SlotHolder, PrefixHolder

\* Slot s alone changed its table.
LEMMA SlotChanges ==
    ASSUME NEW s \in Slots, slotBlocks \in [Slots -> Seq(Blocks)],
           NEW t, slotBlocks' = [slotBlocks EXCEPT ![s] = t],
           DOMAIN prefixes' = DOMAIN prefixes,
           \A q \in DOMAIN prefixes : prefixes'[q].blocks = prefixes[q].blocks
    PROVE  Held' = [Held EXCEPT ![SlotHolder(s)] = Range(t)]
<1>1. SlotHolder(s) \in HolderSet
  BY HolderFacts
<1>2. slotBlocks'[s] = t /\ \A r \in Slots : r # s => slotBlocks'[r] = slotBlocks[r]
  OBVIOUS
<1>3. HeldBy(SlotHolder(s))' = Range(t)
  BY <1>2 DEF HeldBy, SlotHolder
<1>4. ASSUME NEW h \in HolderSet, h # SlotHolder(s) PROVE HeldBy(h)' = HeldBy(h)
  <2>1. CASE \E r \in Slots : h = SlotHolder(r)
    BY <1>2, <1>4, <2>1 DEF HeldBy, SlotHolder
  <2>2. CASE \E q \in PrefixKeys : h = PrefixHolder(q)
    BY <2>2 DEF HeldBy, PrefixHolder
  <2> QED BY <2>1, <2>2, HolderFacts
<1> QED BY <1>1, <1>3, <1>4, HeldChanges

\* Nobody's holdings changed.
LEMMA HeldFrame ==
    ASSUME UNCHANGED slotBlocks, DOMAIN prefixes' = DOMAIN prefixes,
           \A q \in DOMAIN prefixes : prefixes'[q].blocks = prefixes[q].blocks
    PROVE  Held' = Held
<1>1. ASSUME NEW h \in HolderSet PROVE HeldBy(h)' = HeldBy(h)
  BY DEF HeldBy
<1> QED BY <1>1 DEF Held, HolderSet, PrefixKeys, SlotHolder, PrefixHolder

\* A block is free iff no holder has it; the same one step later.
LEMMA FreeIffNotHeld ==
    ASSUME LedgerInv, NEW b \in Blocks
    PROVE  b \in freeBlocks <=> \A h \in HolderSet : b \notin HeldBy(h)
<1>1. b \in freeBlocks <=> SlotHolders(b) = {} /\ PrefixHolders(b) = {}
  BY DEF LedgerInv, FreeIffUnheld
<1>2. DOMAIN prefixes \subseteq PrefixKeys
  BY DEF LedgerInv, TypeOK
<1> QED BY <1>1, <1>2, HolderFacts DEF SlotHolders, PrefixHolders

\* FreeIffNotHeld one step later.
LEMMA FreeIffNotHeldNext ==
    ASSUME LedgerInv', NEW b \in Blocks
    PROVE  b \in freeBlocks' <=> \A h \in HolderSet : b \notin HeldBy(h)'
<1>1. b \in freeBlocks' <=> SlotHolders(b)' = {} /\ PrefixHolders(b)' = {}
  BY DEF LedgerInv, FreeIffUnheld
<1>2. (DOMAIN prefixes)' \subseteq PrefixKeys
  BY DEF LedgerInv, TypeOK, PrefixKeys
<1>3. /\ \A s \in Slots : SlotHolder(s) \in HolderSet /\ HeldBy(SlotHolder(s))' = Range(slotBlocks'[s])
      /\ \A q \in PrefixKeys :
          /\ PrefixHolder(q) \in HolderSet
          /\ HeldBy(PrefixHolder(q))' = IF q \in DOMAIN prefixes' THEN Range(prefixes'[q].blocks) ELSE {}
  BY DEF SlotHolder, PrefixHolder, HolderSet, HeldBy
<1> QED BY <1>1, <1>2, <1>3, HolderFacts DEF SlotHolders, PrefixHolders

\* Letting go: what goes back to the pool is what no other holder has.
LEMMA ReleaseStep ==
    ASSUME LedgerInv, LedgerInv', NEW g \in HolderSet,
           Held' = [Held EXCEPT ![g] = {}],
           HeldBy(g) \subseteq Blocks,
           freeBlocks \subseteq freeBlocks', freeBlocks' \subseteq freeBlocks \cup HeldBy(g)
    PROVE  Pool!Release(g)
<1>1. \A h \in HolderSet : HeldBy(h)' = IF h = g THEN {} ELSE HeldBy(h)
  <2>1. \A h \in HolderSet : Held[h] = HeldBy(h) /\ Held'[h] = HeldBy(h)'
    BY DEF Held, HolderSet, PrefixKeys, SlotHolder, PrefixHolder
  <2>2. Held' = [h \in HolderSet |-> IF h = g THEN {} ELSE Held[h]]
    BY DEF Held
  <2> QED BY <2>1, <2>2
<1>2. Pool!HeldByOthers(g) = UNION {HeldBy(h) : h \in HolderSet \ {g}}
  BY DEF Pool!HeldByOthers
<1>3. \A b \in HeldBy(g) : b \in freeBlocks' <=> b \notin Pool!HeldByOthers(g)
  BY <1>1, <1>2, FreeIffNotHeldNext
<1>4. freeBlocks' = freeBlocks \cup (HeldBy(g) \ Pool!HeldByOthers(g))
  BY <1>3
<1> QED BY <1>4 DEF Pool!Release, Held

\* The initial cache is the initial pool: everything free, nothing held.
LEMMA InitRefines == Init => Pool!Init
<1> SUFFICES ASSUME Init PROVE Pool!Init
  OBVIOUS
<1>1. \A s \in Slots : Range(slotBlocks[s]) = {}
  BY DEF Init, Range
<1>2. DOMAIN prefixes = {}
  BY DEF Init
<1>3. \A h \in HolderSet : HeldBy(h) = {}
  BY <1>1, <1>2, HolderFacts
<1> QED BY <1>3 DEF Init, Pool!Init

\* What the prover sees of Pool's variables, in terms of Held.
LEMMA StutterRefines ==
    ASSUME Held' = Held, freeBlocks' = freeBlocks
    PROVE  [Pool!Next]_(Pool!vars)
BY DEF Held, Pool!vars

\* An admission that finds a prefix is the abstract Share; else a stutter.
LEMMA AdmitRefines ==
    ASSUME LedgerInv, NEW s \in Slots, NEW w \in Prompts, Admit(s, w)
    PROVE  [Pool!Next]_(Pool!vars)
<1> DEFINE key    == Boundary(w, LongestMatch(w))
           shared == prefixes[key].blocks
<1>1. /\ w \in Seq(Token) /\ TypeOK /\ slotBlocks[s] = <<>>
      /\ DOMAIN prefixes' = DOMAIN prefixes
      /\ \A q \in DOMAIN prefixes : prefixes'[q].blocks = prefixes[q].blocks
  BY CacheConstants, TouchKeepsBlocks DEF LedgerInv, FreeSlotsBlank, Admit
<1>2. freeBlocks' = freeBlocks
  BY DEF Admit
<1>3. CASE Matches(w) = {}
  BY <1>1, <1>2, <1>3, HeldFrame, StutterRefines DEF Admit
<1>4. CASE Matches(w) # {}
  <2>1. key \in DOMAIN prefixes /\ key \in PrefixKeys
    BY <1>1, <1>4, LongestMatchMatches DEF Matches, TypeOK
  <2>2. slotBlocks' = [slotBlocks EXCEPT ![s] = shared]
    BY <1>4 DEF Admit
  <2>3. Held' = [Held EXCEPT ![SlotHolder(s)] = Range(shared)]
    <3> HIDE DEF shared, key
    <3> QED BY <1>1, <2>2, SlotChanges DEF TypeOK
  <2>4. /\ SlotHolder(s) \in HolderSet /\ Held[SlotHolder(s)] = {}
        /\ PrefixHolder(key) \in HolderSet \ {SlotHolder(s)}
        /\ Held[PrefixHolder(key)] = Range(shared)
    <3>1. Range(<<>>) = {}
      BY DEF Range
    <3> QED BY <1>1, <2>1, <3>1, HolderFacts DEF Held
  <2>5. Range(shared) \in SUBSET Pool!HeldByOthers(SlotHolder(s))
    <3> HIDE DEF shared, key
    <3> QED BY <2>4 DEF Pool!HeldByOthers, Held
  <2>6. Pool!Share(SlotHolder(s))
    <3> HIDE DEF shared, key
    <3> QED BY <1>2, <2>3, <2>4, <2>5 DEF Pool!Share, Held
  <2> QED BY <2>4, <2>6 DEF Pool!Next
<1> QED BY <1>3, <1>4

\* A round of ensure_capacity is the abstract Take.
LEMMA GrowRefines ==
    ASSUME LedgerInv, NEW s \in Slots, Grow(s)
    PROVE  [Pool!Next]_(Pool!vars)
<1>1. TypeOK /\ SlotHolder(s) \in HolderSet /\ Held[SlotHolder(s)] = Range(slotBlocks[s])
  BY HolderFacts DEF LedgerInv, Held
<1>2. PICK b \in freeBlocks :
        /\ freeBlocks' = freeBlocks \ {b}
        /\ slotBlocks' = [slotBlocks EXCEPT ![s] = Append(slotBlocks[s], b)]
  BY DEF Grow
<1>3. b \in Blocks /\ slotBlocks[s] \in Seq(Blocks)
  BY <1>1, <1>2 DEF TypeOK
<1>4. Range(Append(slotBlocks[s], b)) = Range(slotBlocks[s]) \cup {b}
  BY <1>3, RangeAppend
<1>5. Held' = [Held EXCEPT ![SlotHolder(s)] = Range(Append(slotBlocks[s], b))]
  BY <1>1, <1>2, SlotChanges DEF Grow, TypeOK
<1>6. Pool!Take(SlotHolder(s))
  BY <1>1, <1>2, <1>4, <1>5 DEF Pool!Take, Held
<1> QED BY <1>1, <1>6 DEF Pool!Next

\* Entry q alone changed, to hold the blocks B.
LEMMA PrefixChanges ==
    ASSUME NEW q \in PrefixKeys, NEW B, UNCHANGED slotBlocks,
           HeldBy(PrefixHolder(q))' = B,
           \A r \in PrefixKeys \ {q} :
               /\ r \in DOMAIN prefixes' <=> r \in DOMAIN prefixes
               /\ r \in DOMAIN prefixes => prefixes'[r] = prefixes[r]
    PROVE  Held' = [Held EXCEPT ![PrefixHolder(q)] = B]
<1>1. PrefixHolder(q) \in HolderSet
  BY HolderFacts
<1>2. ASSUME NEW h \in HolderSet, h # PrefixHolder(q) PROVE HeldBy(h)' = HeldBy(h)
  <2>1. CASE \E s \in Slots : h = SlotHolder(s)
    BY <2>1 DEF HeldBy, SlotHolder
  <2>2. CASE \E r \in PrefixKeys : h = PrefixHolder(r)
    <3>1. PICK r \in PrefixKeys : h = PrefixHolder(r)
      BY <2>2
    <3>2. r \in PrefixKeys \ {q}
      BY <1>2, <3>1
    <3>3. HeldBy(h) = IF r \in DOMAIN prefixes THEN Range(prefixes[r].blocks) ELSE {}
      BY <3>1, HolderFacts
    <3>4. HeldBy(h)' = IF r \in DOMAIN prefixes' THEN Range(prefixes'[r].blocks) ELSE {}
      BY <3>1 DEF HeldBy, PrefixHolder
    <3> QED BY <3>2, <3>3, <3>4
  <2> QED BY <2>1, <2>2, HolderFacts
<1> QED BY <1>1, <1>2, HeldChanges

\* free(slot) is the abstract Release of that slot.
LEMMA FreeRefines ==
    ASSUME LedgerInv, NEW s \in Slots, Free(s)
    PROVE  [Pool!Next]_(Pool!vars)
<1>1. TypeOK /\ LedgerInv'
  BY FreeLedger DEF LedgerInv
<1>2. SlotHolder(s) \in HolderSet /\ HeldBy(SlotHolder(s)) = Range(slotBlocks[s])
  BY HolderFacts
<1>3. HeldBy(SlotHolder(s)) \subseteq Blocks
  BY <1>1, <1>2, RangeOfSeq DEF TypeOK
<1>4. Range(<<>>) = {}
  BY DEF Range
<1>5. Held' = [Held EXCEPT ![SlotHolder(s)] = {}]
  <2>1. Held' = [Held EXCEPT ![SlotHolder(s)] = Range(<<>>)]
    BY <1>1, SlotChanges DEF Free, trieVars, TypeOK
  <2> QED BY <1>4, <2>1
<1>6. freeBlocks \subseteq freeBlocks' /\ freeBlocks' \subseteq freeBlocks \cup HeldBy(SlotHolder(s))
  BY <1>2 DEF Free, Release
<1>7. Pool!Release(SlotHolder(s))
  BY <1>1, <1>2, <1>3, <1>5, <1>6, ReleaseStep
<1> QED BY <1>2, <1>7 DEF Pool!Next

\* An eviction is the abstract Release of the evicted entry.
LEMMA StoreEvictRefines ==
    ASSUME LedgerInv, StoreEvict
    PROVE  [Pool!Next]_(Pool!vars)
<1>1. TypeOK /\ LedgerInv'
  BY StoreEvictLedger DEF LedgerInv
<1>2. PICK q \in DOMAIN prefixes :
        /\ prefixes' = [r \in DOMAIN prefixes \ {q} |-> prefixes[r]]
        /\ Release(Range(prefixes[q].blocks))
  BY DEF StoreEvict, Oldest
<1>3. q \in PrefixKeys
  BY <1>1 DEF TypeOK
<1>4. PrefixHolder(q) \in HolderSet /\ HeldBy(PrefixHolder(q)) = Range(prefixes[q].blocks)
  BY <1>3, HolderFacts
<1>5. HeldBy(PrefixHolder(q)) \subseteq Blocks
  BY <1>1, <1>4, RangeOfSeq DEF TypeOK
<1>6. HeldBy(PrefixHolder(q))' = {}
  BY <1>2 DEF HeldBy, PrefixHolder
<1>7. Held' = [Held EXCEPT ![PrefixHolder(q)] = {}]
  BY <1>2, <1>3, <1>6, PrefixChanges DEF StoreEvict
<1>8. freeBlocks \subseteq freeBlocks' /\ freeBlocks' \subseteq freeBlocks \cup HeldBy(PrefixHolder(q))
  BY <1>2, <1>4 DEF Release
<1>9. Pool!Release(PrefixHolder(q))
  BY <1>1, <1>4, <1>5, <1>7, <1>8, ReleaseStep
<1> QED BY <1>4, <1>9 DEF Pool!Next

\* A new entry is the abstract Share, of blocks that the storing slot holds.
LEMMA StoreAddRefines ==
    ASSUME LedgerInv, StoreAdd
    PROVE  [Pool!Next]_(Pool!vars)
<1> DEFINE table == SubSeq(slotBlocks[store.slot], 1, store.k)
           entry == [blocks |-> table, lru |-> store.lru]
<1>1. PICK key \in PrefixKeys, s \in Slots, B \in {Range(table)} :
           key = StoreKey /\ s = store.slot /\ B = Range(table)
  BY StoreFacts DEF StoreAdd
<1>2. /\ key \notin DOMAIN prefixes
      /\ prefixes' = [q \in DOMAIN prefixes \cup {key} |->
                         IF q = key THEN entry ELSE prefixes[q]]
      /\ UNCHANGED <<freeBlocks, slotBlocks>>
  BY <1>1 DEF StoreAdd
<1>3. B \subseteq Range(slotBlocks[s])
  BY <1>1, StoreFacts, LeadingPart DEF StoreAdd
<1>4. Range(entry.blocks) = B
  BY <1>1
<1> HIDE DEF entry, table
<1>5. /\ PrefixHolder(key) \in HolderSet /\ HeldBy(PrefixHolder(key)) = {}
      /\ SlotHolder(s) \in HolderSet \ {PrefixHolder(key)}
      /\ HeldBy(SlotHolder(s)) = Range(slotBlocks[s])
  BY <1>2, HolderFacts
<1>6. HeldBy(PrefixHolder(key))' = B
  <2>1. key \in DOMAIN prefixes' /\ prefixes'[key] = entry
    BY <1>2
  <2> QED BY <1>4, <2>1 DEF HeldBy, PrefixHolder
<1>7. Held' = [Held EXCEPT ![PrefixHolder(key)] = B]
  BY <1>2, <1>6, PrefixChanges
<1>8. B \in SUBSET Pool!HeldByOthers(PrefixHolder(key))
  <2>1. Held[SlotHolder(s)] = Range(slotBlocks[s])
    BY <1>5 DEF Held
  <2> QED BY <1>3, <1>5, <2>1 DEF Pool!HeldByOthers, Held
<1>9. Pool!Share(PrefixHolder(key))
  BY <1>2, <1>5, <1>7, <1>8 DEF Pool!Share, Held
<1> QED BY <1>5, <1>9 DEF Pool!Next

\* Every step of the cache is a step of the abstract pool or none.
LEMMA NextRefines == LedgerInv /\ [Next]_vars => [Pool!Next]_(Pool!vars)
<1> SUFFICES ASSUME LedgerInv, [Next]_vars PROVE [Pool!Next]_(Pool!vars)
  OBVIOUS
<1>1. ASSUME NEW s \in Slots, NEW w \in Prompts, Admit(s, w) PROVE [Pool!Next]_(Pool!vars)
  BY <1>1, AdmitRefines
<1>2. ASSUME NEW s \in Slots, Grow(s) PROVE [Pool!Next]_(Pool!vars)
  BY <1>2, GrowRefines
<1>3. ASSUME NEW s \in Slots, Free(s) PROVE [Pool!Next]_(Pool!vars)
  BY <1>3, FreeRefines
<1>4. CASE StoreEvict \/ StoreAdd
  BY <1>4, StoreEvictRefines, StoreAddRefines
<1>5. CASE UNCHANGED <<freeBlocks, slotBlocks, prefixes>>
  BY <1>5, HeldFrame, StutterRefines
<1>6. CASE StoreBump
  <2>1. /\ DOMAIN prefixes' = DOMAIN prefixes
        /\ \A q \in DOMAIN prefixes : prefixes'[q].blocks = prefixes[q].blocks
    BY <1>6 DEF StoreBump, LedgerInv, TypeOK
  <2> QED BY <1>6, <2>1, HeldFrame, StutterRefines DEF StoreBump
<1>7. ASSUME NEW s \in Slots,
             \/ \E start \in {0, matched[s]} : WritePrefill(s, start)
             \/ \E t \in Token : WriteDecode(s, t)
             \/ StoreBegin(s)
      PROVE  UNCHANGED <<freeBlocks, slotBlocks, prefixes>>
  BY <1>7 DEF WritePrefill, WriteDecode, StoreBegin
<1>8. CASE UNCHANGED vars
  BY <1>5, <1>8 DEF vars
<1> QED BY <1>1, <1>2, <1>3, <1>4, <1>5, <1>6, <1>7, <1>8 DEF Next

\* Reference counts implement sharing: for every pool, slot set and prefix
\* limit, the cache's free list and tables behave as the pool of
\* SharedBlockPool, in which a block returns at exactly the step its last
\* holder lets go (alloc, share_blocks, store_prefix, eviction and free).
THEOREM CacheImplementsPool == Spec => ImplementsSharedBlockPool
<1>1. Init => Pool!Init
  BY InitRefines
<1>2. LedgerInv /\ [Next]_vars => [Pool!Next]_(Pool!vars)
  BY NextRefines
<1> QED BY <1>1, <1>2, LedgerAlways, PTL DEF Spec, ImplementsSharedBlockPool, Pool!Spec

-----------------------------------------------------------------------------
(* What the blocks hold.  Block arithmetic first.                          *)

\* Comparing and counting whole blocks.
LEMMA WholeBlocks ==
    ASSUME NEW i \in Nat, NEW j \in Nat
    PROVE  /\ i * BlockSize \in Nat
           /\ i <= j <=> i * BlockSize <= j * BlockSize
           /\ i > j <=> i * BlockSize > j * BlockSize
           /\ (i * BlockSize) \div BlockSize = i
<1>1. \A k, l \in Nat, d \in Nat \ {0} : k <= l => k * d <= l * d
  BY SMTT(20)
<1>2. \A k, l \in Nat, d \in Nat \ {0} : k < l => k * d < l * d
  BY SMTT(20)
<1>3. \A k \in Nat, d \in Nat \ {0} : k * d \in Nat /\ (k * d) \div d = k
  BY SMTT(20)
<1> QED BY <1>1, <1>2, <1>3, CacheConstants

\* The full blocks and all the blocks of n tokens.
LEMMA BlockBounds ==
    ASSUME NEW n \in Nat
    PROVE  /\ n \div BlockSize \in Nat /\ BlocksFor(n) \in Nat
           /\ n \div BlockSize <= BlocksFor(n)
           /\ BlocksFor(n + 1) = (n \div BlockSize) + 1
           /\ \A i \in Nat : i <= n \div BlockSize <=> i * BlockSize <= n
           /\ \A i \in Nat : i <= BlocksFor(n) /\ i >= 1 => (i - 1) * BlockSize < n
           /\ n >= 1 => BlocksFor(n) >= 1
<1>1. \A m \in Nat, d \in Nat \ {0} : m \div d \in Nat
  BY SMTT(20)
<1>2. \A m \in Nat, d \in Nat \ {0} : (m + 1 + d - 1) \div d = (m \div d) + 1
  BY SMTT(20)
<1>3. \A m \in Nat, d \in Nat \ {0} : (m + d - 1) \div d \in Nat /\ m \div d <= (m + d - 1) \div d
  BY SMTT(20)
<1>4. \A i \in Nat, m \in Nat, d \in Nat \ {0} : i <= m \div d => i * d <= m
  BY SMTT(20)
<1>5. \A i \in Nat, m \in Nat, d \in Nat \ {0} : i * d <= m => i <= m \div d
  BY SMTT(20)
<1>6. \A i \in Nat \ {0}, m \in Nat, d \in Nat \ {0} : i <= (m + d - 1) \div d => (i - 1) * d < m
  BY SMTT(20)
<1>7. \A m \in Nat \ {0}, d \in Nat \ {0} : (m + d - 1) \div d >= 1
  BY SMTT(20)
<1>8. BlockSize \in Nat \ {0} /\ n + 1 \in Nat
  BY CacheConstants
<1>9. n \div BlockSize \in Nat /\ BlocksFor(n) \in Nat /\ n \div BlockSize <= BlocksFor(n)
  BY <1>1, <1>3, <1>8 DEF BlocksFor
<1>10. BlocksFor(n + 1) = (n \div BlockSize) + 1
  BY <1>2, <1>8 DEF BlocksFor
<1>11. \A i \in Nat : i <= n \div BlockSize <=> i * BlockSize <= n
  BY <1>4, <1>5, <1>8
<1>12. \A i \in Nat : i <= BlocksFor(n) /\ i >= 1 => (i - 1) * BlockSize < n
  <2>1. \A i \in Nat : i >= 1 => i \in Nat \ {0}
    OBVIOUS
  <2> QED BY <1>6, <1>8, <2>1 DEF BlocksFor
<1>13. n >= 1 => BlocksFor(n) >= 1
  BY <1>7, <1>8 DEF BlocksFor
<1> QED BY <1>9, <1>10, <1>11, <1>12, <1>13

-----------------------------------------------------------------------------
\* Leading parts of token strings.

\* Strings that agree up to n have the same first n elements.
LEMMA SamePrefix ==
    ASSUME NEW S, NEW u \in Seq(S), NEW w \in Seq(S), NEW n \in Nat,
           n <= Len(u), n <= Len(w), \A j \in 1..n : u[j] = w[j]
    PROVE  SubSeq(u, 1, n) = SubSeq(w, 1, n)
OBVIOUS

\* A leading part of a leading part.
LEMMA PrefixOfPrefix ==
    ASSUME NEW S, NEW w \in Seq(S), NEW m \in 0..Len(w), NEW n \in 0..m
    PROVE  /\ SubSeq(w, 1, m) \in Seq(S) /\ Len(SubSeq(w, 1, m)) = m
           /\ SubSeq(SubSeq(w, 1, m), 1, n) = SubSeq(w, 1, n)
<1> DEFINE u == SubSeq(w, 1, m)
<1>1. u \in Seq(S) /\ Len(u) = m /\ \A j \in 1..m : u[j] = w[j]
  BY LeadingPart
<1>2. n \in Nat /\ n <= Len(u) /\ n <= Len(w) /\ \A j \in 1..n : u[j] = w[j]
  BY <1>1
<1> HIDE DEF u
<1>3. SubSeq(u, 1, n) = SubSeq(w, 1, n)
  BY <1>1, <1>2, SamePrefix
<1> QED BY <1>1, <1>3 DEF u

\* The first k blocks' worth of a string, when it has them.
LEMMA BoundaryFacts ==
    ASSUME NEW w \in Seq(Token), NEW k \in 0..FullBlocks(w)
    PROVE  /\ Boundary(w, k) \in Seq(Token)
           /\ Len(Boundary(w, k)) = k * BlockSize
           /\ k * BlockSize \in 0..Len(w)
           /\ FullBlocks(Boundary(w, k)) = k
           /\ \A i \in 0..k : Boundary(Boundary(w, k), i) = Boundary(w, i)
<1>1. Len(w) \in Nat /\ k \in Nat /\ k <= FullBlocks(w)
  BY FullBlocksFit
<1>2. k * BlockSize \in 0..Len(w)
  <2>1. k * BlockSize \in Nat
    BY <1>1, WholeBlocks
  <2>2. k * BlockSize <= Len(w)
    BY <1>1, BlockBounds DEF FullBlocks
  <2> QED BY <1>1, <2>1, <2>2
<1>3. Boundary(w, k) \in Seq(Token) /\ Len(Boundary(w, k)) = k * BlockSize
  BY <1>2, LeadingPart DEF Boundary
<1>4. FullBlocks(Boundary(w, k)) = k
  BY <1>1, <1>3, WholeBlocks DEF FullBlocks
<1>5. ASSUME NEW i \in 0..k PROVE Boundary(Boundary(w, k), i) = Boundary(w, i)
  <2>1. i \in Nat /\ i <= k
    BY <1>1
  <2>2. i * BlockSize \in 0..(k * BlockSize)
    BY <1>1, <2>1, WholeBlocks
  <2> QED BY <1>2, <2>2, PrefixOfPrefix DEF Boundary
<1> QED BY <1>2, <1>3, <1>4, <1>5

\* A key of the cache is a nonempty string of whole blocks.
LEMMA KeyFacts ==
    ASSUME NEW q \in PrefixKeys
    PROVE  q \in Seq(Token) /\ FullBlocks(q) \in Nat \ {0}
<1>1. PICK w \in Prompts : q \in {Boundary(w, k) : k \in 1..FullBlocks(w)}
  BY DEF PrefixKeys
<1>4. PICK k \in 1..FullBlocks(w) : q = Boundary(w, k)
  BY <1>1
<1>2. w \in Seq(Token) /\ FullBlocks(w) \in Nat
  BY CacheConstants, FullBlocksFit
<1>3. k \in 0..FullBlocks(w) /\ k \in Nat \ {0}
  BY <1>2
<1> QED BY <1>2, <1>3, <1>4, BoundaryFacts

\* Boundaries of one string at different blocks differ.
LEMMA BoundariesDiffer ==
    ASSUME NEW w \in Seq(Token), NEW i \in 0..FullBlocks(w), NEW j \in 0..FullBlocks(w),
           Boundary(w, i) = Boundary(w, j)
    PROVE  i = j
BY BoundaryFacts

\* How far into w its i-th block reaches.
LEMMA BlockEnd ==
    ASSUME NEW n \in Nat, NEW i \in 1..BlocksFor(n)
    PROVE  /\ MinOf(n, i * BlockSize) \in 1..n
           /\ i * BlockSize \in Nat
           /\ BlocksFor(MinOf(n, i * BlockSize)) = i
           /\ i <= n \div BlockSize => MinOf(n, i * BlockSize) = i * BlockSize
<1>1. i \in Nat /\ i >= 1 /\ BlocksFor(n) \in Nat /\ BlockSize \in Nat \ {0}
  BY BlockBounds, CacheConstants
<1>2. (i - 1) * BlockSize < n /\ i * BlockSize \in Nat
  BY <1>1, BlockBounds, WholeBlocks
<1>3. \A k \in Nat \ {0}, d \in Nat \ {0} : k * d = (k - 1) * d + d /\ (k - 1) * d \in Nat
  BY SMTT(20)
<1>4. i * BlockSize = (i - 1) * BlockSize + BlockSize /\ (i - 1) * BlockSize \in Nat
  BY <1>1, <1>3
<1>5. MinOf(n, i * BlockSize) \in 1..n
  BY <1>1, <1>2, <1>4 DEF MinOf
<1>6. \A k \in Nat \ {0}, m \in Nat, d \in Nat \ {0} :
         (k - 1) * d < m /\ m <= (k - 1) * d + d => (m + d - 1) \div d = k
  BY SMTT(20)
<1>7. BlocksFor(MinOf(n, i * BlockSize)) = i
  <2> DEFINE m == MinOf(n, i * BlockSize)
  <2>1. m \in Nat /\ (i - 1) * BlockSize < m /\ m <= (i - 1) * BlockSize + BlockSize
    BY <1>1, <1>2, <1>4 DEF MinOf
  <2>2. i \in Nat \ {0}
    BY <1>1
  <2> HIDE DEF m
  <2>3. BlocksFor(m) = i
    BY <1>1, <1>6, <2>1, <2>2 DEF BlocksFor
  <2> QED BY <2>3 DEF m
<1>8. i <= n \div BlockSize => MinOf(n, i * BlockSize) = i * BlockSize
  <2>1. i <= n \div BlockSize => i * BlockSize <= n
    BY <1>1, BlockBounds
  <2> QED BY <1>2, <2>1 DEF MinOf
<1> QED BY <1>2, <1>5, <1>7, <1>8

-----------------------------------------------------------------------------
\* What a step keeps.

\* Types of what a table and an entry lead to.
LEMMA TableTypes ==
    ASSUME LedgerInv, ContentsInv, NEW s \in Slots
    PROVE  /\ slotBlocks[s] \in Seq(Blocks)
           /\ Len(slotBlocks[s]) \in Nat
           /\ DOMAIN slotBlocks[s] = 1..Len(slotBlocks[s])
           /\ \A i \in DOMAIN slotBlocks[s] :
                 slotBlocks[s][i] \in Blocks /\ s \in SlotHolders(slotBlocks[s][i])
           /\ prompt[s] \in Seq(Token) /\ committed[s] \in Seq(Token)
           /\ FullBlocks(prompt[s]) \in Nat
           /\ BlocksFor(Len(committed[s])) \in Nat
           /\ MatchedBlocks(s) \in Nat
           /\ s \in Allocated => prompt[s] \in Prompts
           /\ committed[s] # <<>> => s \in Allocated
<1>1. /\ slotBlocks[s] \in Seq(Blocks)
      /\ prompt[s] \in Prompts \cup {<<>>}
      /\ committed[s] \in Seq(Token)
      /\ matched[s] \in Nat
  BY DEF LedgerInv, TypeOK
<1>2. /\ Len(slotBlocks[s]) \in Nat
      /\ DOMAIN slotBlocks[s] = 1..Len(slotBlocks[s])
      /\ \A i \in DOMAIN slotBlocks[s] : slotBlocks[s][i] \in Blocks
  BY <1>1
<1>3. \A i \in DOMAIN slotBlocks[s] : s \in SlotHolders(slotBlocks[s][i])
  BY DEF SlotHolders, Range
<1>4. prompt[s] \in Seq(Token)
  BY <1>1, CacheConstants, EmptySeq
<1>5. FullBlocks(prompt[s]) \in Nat /\ BlocksFor(Len(committed[s])) \in Nat
  BY <1>1, <1>4, FullBlocksFit
<1>6. MatchedBlocks(s) \in Nat
  BY <1>1, BlockBounds DEF MatchedBlocks
<1>7. s \in Allocated => prompt[s] \in Prompts
  BY DEF ContentsInv, HoldsMatched
<1>8. committed[s] # <<>> => s \in Allocated
  BY DEF LedgerInv, FreeSlotsBlank, Allocated
<1> QED BY <1>1, <1>2, <1>3, <1>4, <1>5, <1>6, <1>7, <1>8

\* A stored prefix holds blocks, and is among the holders of each.
LEMMA EntryTypes ==
    ASSUME LedgerInv, NEW q \in DOMAIN prefixes
    PROVE  /\ q \in PrefixKeys
           /\ prefixes[q].blocks \in Seq(Blocks)
           /\ \A i \in DOMAIN prefixes[q].blocks :
                 /\ prefixes[q].blocks[i] \in Blocks
                 /\ q \in PrefixHolders(prefixes[q].blocks[i])
<1>1. q \in PrefixKeys /\ prefixes[q] \in [blocks : Seq(Blocks), lru : Nat]
  BY DEF LedgerInv, TypeOK
<1>2. prefixes[q].blocks \in Seq(Blocks)
  BY <1>1
<1>3. \A i \in DOMAIN prefixes[q].blocks : prefixes[q].blocks[i] \in Blocks
  BY <1>2
<1>4. \A i \in DOMAIN prefixes[q].blocks : q \in PrefixHolders(prefixes[q].blocks[i])
  BY DEF PrefixHolders, Range
<1> QED BY <1>1, <1>2, <1>3, <1>4

\* A block that is still held keeps its contents when others let go of it.
LEMMA ReleaseKeepsHeld ==
    ASSUME LedgerInv', NEW B, Release(B), NEW b \in Blocks,
           SlotHolders(b)' # {} \/ PrefixHolders(b)' # {}
    PROVE  kv'[b] = kv[b]
<1>1. b \notin freeBlocks'
  BY DEF LedgerInv, FreeIffUnheld
<1> QED BY <1>1 DEF Release

\* Entries that stay hold their tokens as long as held blocks keep theirs.
LEMMA EntriesKept ==
    ASSUME LedgerInv, ContentsInv,
           DOMAIN prefixes' \subseteq DOMAIN prefixes,
           \A q \in DOMAIN prefixes' : prefixes'[q].blocks = prefixes[q].blocks,
           \A b \in Blocks : PrefixHolders(b)' # {} => kv'[b] = kv[b]
    PROVE  /\ PrefixesHoldTheirTokens'
           /\ \A b \in Blocks : PrefixHolders(b)' \subseteq PrefixHolders(b)
<1>1. \A b \in Blocks : PrefixHolders(b)' \subseteq PrefixHolders(b)
  BY DEF PrefixHolders
<1>2. ASSUME NEW q \in DOMAIN prefixes', NEW i \in DOMAIN prefixes'[q].blocks
      PROVE  kv'[prefixes'[q].blocks[i]] = kv[prefixes[q].blocks[i]]
  <2>1. q \in DOMAIN prefixes /\ i \in DOMAIN prefixes[q].blocks /\ prefixes'[q].blocks = prefixes[q].blocks
    BY <1>2
  <2>2. prefixes[q].blocks[i] \in Blocks
    BY <2>1, EntryTypes
  <2>3. q \in PrefixHolders(prefixes[q].blocks[i])'
    BY <2>1, <1>2 DEF PrefixHolders, Range
  <2> QED BY <2>1, <2>2, <2>3
<1>3. PrefixesHoldTheirTokens
  BY DEF ContentsInv
<1>4. PrefixesHoldTheirTokens'
  BY <1>2, <1>3 DEF PrefixesHoldTheirTokens, FullBlocks, Boundary
<1> QED BY <1>1, <1>4

\* So do the tables of the slots a step leaves alone.
LEMMA SlotKept ==
    ASSUME LedgerInv, ContentsInv, NEW s \in Slots,
           s \in freeSlots' <=> s \in freeSlots,
           slotBlocks'[s] = slotBlocks[s], prompt'[s] = prompt[s],
           matched'[s] = matched[s], committed'[s] = committed[s],
           \A i \in DOMAIN slotBlocks[s] : kv'[slotBlocks[s][i]] = kv[slotBlocks[s][i]]
    PROVE  /\ NamesOnce(s)' /\ HoldsMatched(s)' /\ HoldsContext(s)'
           /\ SharedUpTo(s)' = SharedUpTo(s)
<1>1. MatchedBlocks(s)' = MatchedBlocks(s) /\ SharedUpTo(s)' = SharedUpTo(s)
  BY DEF MatchedBlocks, SharedUpTo, FullBlocks
<1>2. HoldsMatched(s)'
  <2>1. HoldsMatched(s)
    BY DEF ContentsInv
  <2>2. MatchedBlocks(s) \in Nat /\ Len(slotBlocks[s]) \in Nat /\ DOMAIN slotBlocks[s] = 1..Len(slotBlocks[s])
    BY TableTypes
  <2>3. ASSUME s \in Allocated PROVE \A i \in 1..MatchedBlocks(s) : i \in DOMAIN slotBlocks[s]
    BY <2>1, <2>2, <2>3 DEF HoldsMatched
  <2>4. s \in Allocated' <=> s \in Allocated
    BY DEF Allocated
  <2> QED BY <1>1, <2>1, <2>3, <2>4 DEF HoldsMatched, FullBlocks, Boundary
<1>3. HoldsContext(s)'
  <2>1. HoldsContext(s)
    BY DEF ContentsInv
  <2>2. ASSUME committed[s] # <<>>
        PROVE  \A i \in 1..BlocksFor(Len(committed[s])) : i \in DOMAIN slotBlocks[s]
    BY <2>1, <2>2, TableTypes DEF HoldsContext
  <2> QED BY <2>1, <2>2 DEF HoldsContext, HoldsExactly, BlocksFor
<1>4. NamesOnce(s)'
  BY DEF ContentsInv, NamesOnce
<1> QED BY <1>1, <1>2, <1>3, <1>4

\* Steps that change no table and share nothing new keep all contents in
\* place, as long as held blocks keep theirs.
LEMMA ContentsFrame ==
    ASSUME LedgerInv, ContentsInv,
           UNCHANGED <<freeSlots, slotBlocks, prompt, matched, committed>>,
           DOMAIN prefixes' \subseteq DOMAIN prefixes,
           \A q \in DOMAIN prefixes' : prefixes'[q].blocks = prefixes[q].blocks,
           \A b \in Blocks : SlotHolders(b)' # {} \/ PrefixHolders(b)' # {} => kv'[b] = kv[b]
    PROVE  ContentsInv'
<1>1. /\ PrefixesHoldTheirTokens'
      /\ \A b \in Blocks : PrefixHolders(b)' \subseteq PrefixHolders(b)
  BY EntriesKept
<1>2. \A b \in Blocks : SlotHolders(b)' = SlotHolders(b)
  BY DEF SlotHolders
<1>3. ASSUME NEW s \in Slots
      PROVE  NamesOnce(s)' /\ HoldsMatched(s)' /\ HoldsContext(s)' /\ OwnsTail(s)'
  <2>1. \A i \in DOMAIN slotBlocks[s] :
           slotBlocks[s][i] \in Blocks /\ s \in SlotHolders(slotBlocks[s][i])
    BY TableTypes
  <2>2. \A i \in DOMAIN slotBlocks[s] : kv'[slotBlocks[s][i]] = kv[slotBlocks[s][i]]
    BY <1>2, <2>1
  <2>3. /\ NamesOnce(s)' /\ HoldsMatched(s)' /\ HoldsContext(s)'
        /\ SharedUpTo(s)' = SharedUpTo(s)
    BY <2>2, SlotKept
  <2>4. OwnsTail(s)
    BY DEF ContentsInv
  <2>5. ASSUME NEW i \in DOMAIN slotBlocks[s], i > SharedUpTo(s)
        PROVE  SlotHolders(slotBlocks[s][i])' = {s} /\ PrefixHolders(slotBlocks[s][i])' = {}
    <3>1. SlotHolders(slotBlocks[s][i]) = {s} /\ PrefixHolders(slotBlocks[s][i]) = {}
      BY <2>4, <2>5 DEF OwnsTail
    <3>2. /\ SlotHolders(slotBlocks[s][i])' = SlotHolders(slotBlocks[s][i])
          /\ PrefixHolders(slotBlocks[s][i])' \subseteq PrefixHolders(slotBlocks[s][i])
      BY <1>1, <1>2, <2>1 DEF SlotHolders, PrefixHolders
    <3> QED BY <3>1, <3>2
  <2>6. OwnsTail(s)'
    BY <2>3, <2>5 DEF OwnsTail, SlotHolders, PrefixHolders
  <2> QED BY <2>3, <2>6
<1> QED BY <1>1, <1>3 DEF ContentsInv

-----------------------------------------------------------------------------
\* One lemma per action: it preserves the contents.

\* At first nothing is held.
LEMMA InitContents == Init => ContentsInv
<1> SUFFICES ASSUME Init PROVE ContentsInv
  OBVIOUS
<1> USE DEF Init
<1>1. PrefixesHoldTheirTokens
  BY DEF PrefixesHoldTheirTokens
<1>2. ASSUME NEW s \in Slots
      PROVE  NamesOnce(s) /\ HoldsMatched(s) /\ HoldsContext(s) /\ OwnsTail(s)
  BY DEF NamesOnce, HoldsMatched, HoldsContext, OwnsTail, Allocated
<1> QED BY <1>1, <1>2 DEF ContentsInv

\* The start of a store changes no blocks.
LEMMA StoreBeginContents ==
    ASSUME LedgerInv, ContentsInv, NEW s \in Slots, StoreBegin(s)
    PROVE  ContentsInv'
BY ContentsFrame DEF StoreBegin, ownerVars

\* A store that finds its prefix there changes its LRU stamp only.
LEMMA StoreBumpContents ==
    ASSUME LedgerInv, ContentsInv, StoreBump
    PROVE  ContentsInv'
<1>1. /\ DOMAIN prefixes' = DOMAIN prefixes
      /\ \A q \in DOMAIN prefixes : prefixes'[q].blocks = prefixes[q].blocks
  BY EntryTypes DEF StoreBump, LedgerInv, TypeOK
<1> QED BY <1>1, ContentsFrame DEF StoreBump, ownerVars

\* _evict_one_prefix takes no block from under a slot or another entry.
LEMMA StoreEvictContents ==
    ASSUME LedgerInv, LedgerInv', ContentsInv, StoreEvict
    PROVE  ContentsInv'
<1>1. PICK q \in Oldest :
        /\ prefixes' = [r \in DOMAIN prefixes \ {q} |-> prefixes[r]]
        /\ Release(Range(prefixes[q].blocks))
  BY DEF StoreEvict
<1>2. \A b \in Blocks : SlotHolders(b)' # {} \/ PrefixHolders(b)' # {} => kv'[b] = kv[b]
  BY <1>1, ReleaseKeepsHeld
<1> QED BY <1>1, <1>2, ContentsFrame DEF StoreEvict, ownerVars

\* free takes no block from under another slot or an entry.
LEMMA FreeContents ==
    ASSUME LedgerInv, LedgerInv', ContentsInv, NEW s \in Slots, Free(s)
    PROVE  ContentsInv'
<1> USE DEF Free, trieVars
<1>1. \A b \in Blocks : SlotHolders(b)' # {} \/ PrefixHolders(b)' # {} => kv'[b] = kv[b]
  BY ReleaseKeepsHeld
<1>2. PrefixesHoldTheirTokens'
  BY <1>1, EntriesKept
<1>3. /\ slotBlocks'[s] = <<>> /\ matched'[s] = 0 /\ committed'[s] = <<>>
      /\ s \in freeSlots'
      /\ \A r \in Slots \ {s} :
            /\ slotBlocks'[r] = slotBlocks[r] /\ prompt'[r] = prompt[r]
            /\ matched'[r] = matched[r] /\ committed'[r] = committed[r]
            /\ r \in freeSlots' <=> r \in freeSlots
  BY DEF LedgerInv, TypeOK
<1>4. NamesOnce(s)' /\ HoldsMatched(s)' /\ HoldsContext(s)' /\ OwnsTail(s)'
  BY <1>3 DEF NamesOnce, HoldsMatched, HoldsContext, OwnsTail, Allocated
<1>5. ASSUME NEW r \in Slots \ {s}
      PROVE  NamesOnce(r)' /\ HoldsMatched(r)' /\ HoldsContext(r)' /\ OwnsTail(r)'
  <2>1. \A i \in DOMAIN slotBlocks[r] :
           /\ slotBlocks[r][i] \in Blocks /\ r \in SlotHolders(slotBlocks[r][i])
           /\ r \in SlotHolders(slotBlocks[r][i])'
    BY <1>3, TableTypes DEF SlotHolders
  <2>2. \A i \in DOMAIN slotBlocks[r] : kv'[slotBlocks[r][i]] = kv[slotBlocks[r][i]]
    BY <1>1, <2>1
  <2>3. /\ NamesOnce(r)' /\ HoldsMatched(r)' /\ HoldsContext(r)'
        /\ SharedUpTo(r)' = SharedUpTo(r)
    BY <1>3, <2>2, SlotKept
  <2>4. ASSUME NEW i \in DOMAIN slotBlocks[r], i > SharedUpTo(r)
        PROVE  SlotHolders(slotBlocks[r][i])' = {r} /\ PrefixHolders(slotBlocks[r][i])' = {}
    <3>1. SlotHolders(slotBlocks[r][i]) = {r} /\ PrefixHolders(slotBlocks[r][i]) = {}
      BY <2>4 DEF ContentsInv, OwnsTail
    <3>2. PrefixHolders(slotBlocks[r][i])' = PrefixHolders(slotBlocks[r][i])
      BY <1>3 DEF PrefixHolders
    <3>3. \A x \in Slots : slotBlocks'[x] = IF x = s THEN <<>> ELSE slotBlocks[x]
      BY <1>3
    <3>4. SlotHolders(slotBlocks[r][i])' \subseteq SlotHolders(slotBlocks[r][i])
      BY <1>3, <3>3 DEF SlotHolders, Range
    <3> QED BY <2>1, <3>1, <3>2, <3>4
  <2>5. OwnsTail(r)'
    BY <1>3, <2>3, <2>4 DEF OwnsTail, SlotHolders, PrefixHolders
  <2> QED BY <2>3, <2>5
<1> QED BY <1>2, <1>4, <1>5 DEF ContentsInv

\* A block that joins a table was nobody's.
LEMMA GrowContents ==
    ASSUME LedgerInv, ContentsInv, NEW s \in Slots, Grow(s)
    PROVE  ContentsInv'
<1> USE DEF Grow
<1>1. PICK b \in freeBlocks : slotBlocks' = [slotBlocks EXCEPT ![s] = Append(@, b)]
  OBVIOUS
<1>2. b \in Blocks /\ SlotHolders(b) = {} /\ PrefixHolders(b) = {}
  BY DEF LedgerInv, TypeOK, FreeIffUnheld
<1>3. PrefixesHoldTheirTokens'
  BY EntriesKept
<1> DEFINE n == Len(slotBlocks[s])
<1>4. /\ n \in Nat
      /\ DOMAIN slotBlocks[s] = 1..n /\ DOMAIN slotBlocks'[s] = 1..(n + 1)
      /\ Len(slotBlocks'[s]) = n + 1
      /\ \A i \in 1..n : slotBlocks'[s][i] = slotBlocks[s][i] /\ slotBlocks[s][i] \in Blocks
      /\ slotBlocks'[s][n + 1] = b
      /\ \A r \in Slots \ {s} : slotBlocks'[r] = slotBlocks[r]
  BY <1>1, <1>2 DEF LedgerInv, TypeOK
<1>5. \A c \in Blocks : PrefixHolders(c)' = PrefixHolders(c)
  BY DEF PrefixHolders
<1>6. \A c \in Blocks \ {b} : SlotHolders(c)' = SlotHolders(c)
  <2>1. Range(slotBlocks'[s]) = Range(slotBlocks[s]) \cup {b}
    <3>1. slotBlocks[s] \in Seq(Blocks) /\ slotBlocks'[s] = Append(slotBlocks[s], b)
      BY <1>1 DEF LedgerInv, TypeOK
    <3> QED BY <1>2, <3>1, RangeAppend
  <2> QED BY <1>4, <2>1 DEF SlotHolders
<1>7. SlotHolders(b)' = {s}
  <2>1. s \in SlotHolders(b)'
    BY <1>4 DEF SlotHolders, Range
  <2>2. \A r \in Slots \ {s} : r \notin SlotHolders(b)'
    BY <1>2, <1>4 DEF SlotHolders
  <2> QED BY <2>1, <2>2 DEF SlotHolders
<1>8. ASSUME NEW r \in Slots, NEW i \in DOMAIN slotBlocks[r], i > SharedUpTo(r)
      PROVE  SlotHolders(slotBlocks[r][i])' = {r} /\ PrefixHolders(slotBlocks[r][i])' = {}
  <2>1. SlotHolders(slotBlocks[r][i]) = {r} /\ PrefixHolders(slotBlocks[r][i]) = {}
    BY <1>8 DEF ContentsInv, OwnsTail
  <2>2. slotBlocks[r][i] \in Blocks \ {b}
    BY <1>2, <2>1, TableTypes
  <2> QED BY <1>5, <1>6, <2>1, <2>2 DEF SlotHolders, PrefixHolders
<1>9. ASSUME NEW r \in Slots \ {s}
      PROVE  NamesOnce(r)' /\ HoldsMatched(r)' /\ HoldsContext(r)' /\ OwnsTail(r)'
  <2>1. /\ NamesOnce(r)' /\ HoldsMatched(r)' /\ HoldsContext(r)'
        /\ SharedUpTo(r)' = SharedUpTo(r)
    BY <1>4, SlotKept
  <2>2. OwnsTail(r)'
    BY <1>4, <1>8, <2>1 DEF OwnsTail, SlotHolders, PrefixHolders
  <2> QED BY <2>1, <2>2
<1>10. NamesOnce(s)'
  <2>1. \A i \in 1..n : slotBlocks[s][i] # b
    BY <1>2, <1>4, TableTypes
  <2> QED BY <1>4, <2>1 DEF ContentsInv, NamesOnce
<1>11. HoldsMatched(s)'
  <2>1. HoldsMatched(s) /\ s \in Allocated /\ s \in Allocated' /\ MatchedBlocks(s) \in Nat
    BY TableTypes DEF ContentsInv, Allocated
  <2>2. MatchedBlocks(s)' = MatchedBlocks(s)
    BY DEF MatchedBlocks
  <2>3. MatchedBlocks(s) <= n /\ \A i \in 1..MatchedBlocks(s) : i \in 1..n
    BY <1>4, <2>1 DEF HoldsMatched
  <2>4. \A i \in 1..MatchedBlocks(s) : kv[slotBlocks'[s][i]] = Boundary(prompt[s], i)
    BY <1>4, <2>1, <2>3 DEF HoldsMatched
  <2>5. MatchedBlocks(s) <= Len(slotBlocks'[s])
    BY <1>4, <2>1, <2>3
  <2> HIDE DEF n
  <2> QED BY <2>1, <2>2, <2>4, <2>5 DEF HoldsMatched, Allocated, FullBlocks, Boundary
<1>12. HoldsContext(s)'
  <2> DEFINE m == BlocksFor(Len(committed[s]))
  <2>1. HoldsContext(s) /\ m \in Nat
    BY TableTypes DEF ContentsInv
  <2> SUFFICES ASSUME committed[s] # <<>>
               PROVE  /\ m <= Len(slotBlocks'[s])
                      /\ \A i \in 1..m : HoldsExactly(slotBlocks'[s][i], committed[s], i)
    BY <2>1 DEF HoldsContext, HoldsExactly, BlocksFor
  <2>2. m <= n /\ \A i \in 1..m : i \in 1..n /\ HoldsExactly(slotBlocks[s][i], committed[s], i)
    BY <1>4, <2>1 DEF HoldsContext
  <2> HIDE DEF m, n
  <2> QED BY <1>4, <2>1, <2>2
<1>13. OwnsTail(s)'
  <2>1. SharedUpTo(s)' = SharedUpTo(s)
    BY DEF SharedUpTo, MatchedBlocks, FullBlocks
  <2>2. ASSUME NEW i \in 1..(n + 1), i > SharedUpTo(s)
        PROVE  SlotHolders(slotBlocks[s][i])' = {s} /\ PrefixHolders(slotBlocks[s][i])' = {}
    <3>1. CASE i = n + 1
      BY <1>2, <1>4, <1>5, <1>7, <3>1 DEF SlotHolders, PrefixHolders
    <3>2. CASE i \in 1..n
      BY <1>4, <1>8, <2>2, <3>2 DEF SlotHolders, PrefixHolders
    <3>3. i = n + 1 \/ i \in 1..n
      <4> HIDE DEF n
      <4> QED BY <1>4
    <3> QED BY <3>1, <3>2, <3>3
  <2> QED BY <1>4, <2>1, <2>2 DEF OwnsTail, SlotHolders, PrefixHolders
<1> QED BY <1>3, <1>9, <1>10, <1>11, <1>12, <1>13 DEF ContentsInv

\* A new slot shares blocks that hold the leading blocks of its prompt.
LEMMA AdmitContents ==
    ASSUME LedgerInv, ContentsInv, NEW s \in Slots, NEW w \in Prompts, Admit(s, w)
    PROVE  ContentsInv'
<1> DEFINE k      == LongestMatch(w)
           key    == Boundary(w, k)
           shared == prefixes[key].blocks
<1> USE DEF Admit
<1>1. /\ w \in Seq(Token) /\ FullBlocks(w) \in Nat
      /\ s \in freeSlots /\ s \notin freeSlots'
      /\ slotBlocks[s] = <<>> /\ committed[s] = <<>> /\ matched[s] = 0
      /\ prompt'[s] = w /\ committed'[s] = <<>>
  <2>1. HoldsMatched(s) /\ FreeSlotsBlank /\ TypeOK
    BY DEF LedgerInv, ContentsInv
  <2>2. w \in Seq(Token)
    BY CacheConstants
  <2>3. FullBlocks(w) \in Nat
    BY <2>2, FullBlocksFit
  <2> QED BY <2>1, <2>2, <2>3 DEF HoldsMatched, FreeSlotsBlank, TypeOK
<1>2. /\ DOMAIN prefixes' = DOMAIN prefixes
      /\ \A q \in DOMAIN prefixes : prefixes'[q].blocks = prefixes[q].blocks
  BY TouchKeepsBlocks DEF LedgerInv
<1>3. PrefixesHoldTheirTokens'
  BY <1>2, EntriesKept
<1>4. ASSUME Matches(w) # {}
      PROVE  /\ k \in 1..FullBlocks(w) /\ k \in 0..FullBlocks(w)
             /\ key \in DOMAIN prefixes /\ FullBlocks(key) = k
             /\ shared \in Seq(Blocks) /\ Len(shared) = k
             /\ \A i \in 1..k : kv[shared[i]] = Boundary(w, i) /\ i \in 0..FullBlocks(w)
  <2>1. k \in 1..FullBlocks(w) /\ key \in DOMAIN prefixes
    BY <1>1, <1>4, LongestMatchMatches DEF Matches
  <2>2. k \in 0..FullBlocks(w)
    BY <1>1, <2>1
  <2>3. FullBlocks(key) = k /\ \A i \in 0..k : Boundary(key, i) = Boundary(w, i)
    BY <1>1, <2>2, BoundaryFacts
  <2>4. shared \in Seq(Blocks)
    BY <2>1, EntryTypes
  <2>5. Len(shared) = k /\ \A i \in DOMAIN shared : kv[shared[i]] = Boundary(key, i)
    BY <2>1, <2>3 DEF ContentsInv, PrefixesHoldTheirTokens
  <2> HIDE DEF k, key, shared
  <2>6. DOMAIN shared = 1..k /\ \A i \in 1..k : i \in 0..k /\ i \in 0..FullBlocks(w)
    BY <1>1, <2>2, <2>4, <2>5
  <2> QED BY <2>1, <2>2, <2>3, <2>4, <2>5, <2>6
<1>5. /\ \A r \in Slots \ {s} :
            /\ slotBlocks'[r] = slotBlocks[r] /\ prompt'[r] = prompt[r]
            /\ matched'[r] = matched[r] /\ committed'[r] = committed[r]
            /\ r \in freeSlots' <=> r \in freeSlots
      /\ Matches(w) = {} => slotBlocks'[s] = <<>> /\ matched'[s] = 0
      /\ Matches(w) # {} => slotBlocks'[s] = shared /\ matched'[s] = k * BlockSize
  BY <1>1 DEF LedgerInv, TypeOK
<1>6. ASSUME NEW r \in Slots \ {s}
      PROVE  NamesOnce(r)' /\ HoldsMatched(r)' /\ HoldsContext(r)' /\ OwnsTail(r)'
  <2>1. /\ NamesOnce(r)' /\ HoldsMatched(r)' /\ HoldsContext(r)'
        /\ SharedUpTo(r)' = SharedUpTo(r)
    BY <1>5, SlotKept
  <2>2. ASSUME NEW i \in DOMAIN slotBlocks[r], i > SharedUpTo(r)
        PROVE  SlotHolders(slotBlocks[r][i])' = {r} /\ PrefixHolders(slotBlocks[r][i])' = {}
    <3>1. SlotHolders(slotBlocks[r][i]) = {r} /\ PrefixHolders(slotBlocks[r][i]) = {}
      BY <2>2 DEF ContentsInv, OwnsTail
    <3>2. PrefixHolders(slotBlocks[r][i])' = PrefixHolders(slotBlocks[r][i])
      BY <1>2, <1>5 DEF PrefixHolders
    <3>3. slotBlocks[r][i] \notin Range(slotBlocks'[s])
      <4>1. CASE Matches(w) = {}
        BY <1>5, <4>1 DEF Range
      <4>2. CASE Matches(w) # {}
        <5>1. key \in DOMAIN prefixes /\ slotBlocks'[s] = shared
          BY <1>4, <1>5, <4>2
        <5> HIDE DEF key
        <5> QED BY <3>1, <5>1 DEF PrefixHolders
      <4> QED BY <4>1, <4>2
    <3>4. SlotHolders(slotBlocks[r][i])' = SlotHolders(slotBlocks[r][i])
      <4>1. s \notin SlotHolders(slotBlocks[r][i])
        BY <3>1
      <4> QED BY <1>5, <3>3, <4>1 DEF SlotHolders
    <3> QED BY <3>1, <3>2, <3>4
  <2>3. OwnsTail(r)'
    BY <1>5, <2>1, <2>2 DEF OwnsTail, SlotHolders, PrefixHolders
  <2> QED BY <2>1, <2>3
<1>7. CASE Matches(w) = {}
  <2>1. MatchedBlocks(s)' = 0
    BY <1>5, <1>7, CacheConstants DEF MatchedBlocks
  <2>2. NamesOnce(s)' /\ HoldsContext(s)' /\ OwnsTail(s)'
    BY <1>1, <1>5, <1>7 DEF NamesOnce, HoldsContext, OwnsTail
  <2>3. HoldsMatched(s)'
    <3>1. s \in Allocated' /\ FullBlocks(prompt'[s]) >= 0
      BY <1>1 DEF Allocated
    <3>2. 0 * BlockSize = 0
      BY CacheConstants
    <3>3. slotBlocks'[s] = <<>> /\ matched'[s] = 0 /\ Len(slotBlocks'[s]) = 0
      BY <1>5, <1>7
    <3> QED BY <1>1, <2>1, <3>1, <3>2, <3>3 DEF HoldsMatched, FullBlocks, Boundary
  <2> QED BY <1>3, <1>6, <2>2, <2>3 DEF ContentsInv
<1>8. CASE Matches(w) # {}
  <2>1. MatchedBlocks(s)' = k /\ SharedUpTo(s)' = k
    <3>1. k \in Nat /\ matched'[s] = k * BlockSize
      BY <1>4, <1>5, <1>8
    <3> HIDE DEF k
    <3> QED BY <1>1, <3>1, WholeBlocks DEF MatchedBlocks, SharedUpTo
  <2>2. /\ k \in 0..FullBlocks(w)
        /\ slotBlocks'[s] = shared /\ matched'[s] = k * BlockSize
        /\ shared \in Seq(Blocks) /\ Len(shared) = k /\ DOMAIN shared = 1..k
        /\ \A i \in 1..k : kv[shared[i]] = Boundary(w, i) /\ i \in 0..FullBlocks(w)
    BY <1>4, <1>5, <1>8
  <2> HIDE DEF shared, key, k
  <2>3. NamesOnce(s)'
    <3>1. ASSUME NEW i \in 1..k, NEW j \in 1..k, shared[i] = shared[j]
          PROVE  i = j
      BY <1>1, <2>2, <3>1, BoundariesDiffer
    <3> QED BY <2>2, <3>1 DEF NamesOnce
  <2>4. HoldsMatched(s)'
    BY <1>1, <2>1, <2>2 DEF HoldsMatched, Allocated, FullBlocks, Boundary
  <2>5. HoldsContext(s)'
    BY <1>1 DEF HoldsContext
  <2>6. OwnsTail(s)'
    BY <1>1, <2>1, <2>2 DEF OwnsTail
  <2> QED BY <1>3, <1>6, <2>3, <2>4, <2>5, <2>6 DEF ContentsInv
<1> QED BY <1>7, <1>8

\* A new entry is given blocks that hold its key, and leaves the slots'
\* private blocks private.
LEMMA StoreAddContents ==
    ASSUME LedgerInv, ContentsInv, StoreAdd
    PROVE  ContentsInv'
<1> DEFINE s      == store.slot
           k      == store.k
           blocks == SubSeq(slotBlocks[s], 1, k)
<1> USE DEF StoreAdd, ownerVars
<1>1. /\ store # Idle /\ s \in Slots /\ s \in Allocated
      /\ prompt[s] \in Prompts /\ prompt[s] \in Seq(Token)
      /\ FullBlocks(prompt[s]) \in Nat
      /\ k \in 1..FullBlocks(prompt[s])
      /\ slotBlocks[s] \in Seq(Blocks) /\ k \in 0..Len(slotBlocks[s])
      /\ committed[s] # <<>>
  BY StoreFacts, CacheConstants DEF LedgerInv, StoreInRange
<1>2. /\ DOMAIN prefixes' = DOMAIN prefixes \cup {StoreKey}
      /\ StoreKey \notin DOMAIN prefixes
      /\ prefixes'[StoreKey].blocks = blocks
      /\ \A q \in DOMAIN prefixes : prefixes'[q].blocks = prefixes[q].blocks
  OBVIOUS
<1>3. \A b \in Blocks : SlotHolders(b)' = SlotHolders(b)
  BY DEF SlotHolders
<1> HIDE DEF s, k
<1>4. /\ blocks \in Seq(Blocks) /\ Len(blocks) = k /\ DOMAIN blocks = 1..k
      /\ Range(blocks) \subseteq Range(slotBlocks[s])
      /\ \A i \in 1..k : blocks[i] = slotBlocks[s][i]
  BY <1>1, LeadingPart
<1>5. /\ StoreKey = Boundary(prompt[s], k) /\ FullBlocks(StoreKey) = k
      /\ \A i \in 0..k : Boundary(StoreKey, i) = Boundary(prompt[s], i)
  <2>1. StoreKey = Boundary(prompt[s], k)
    BY DEF StoreKey, s, k
  <2>2. k \in 0..FullBlocks(prompt[s])
    BY <1>1
  <2> QED BY <1>1, <2>1, <2>2, BoundaryFacts
<1>6. ASSUME NEW i \in 1..k PROVE kv[blocks[i]] = Boundary(prompt[s], i)
  <2> DEFINE c == committed[s]
             n == Len(c)
  <2>1. /\ c \in Seq(Token) /\ n \in Nat /\ Len(prompt[s]) \in Nat
        /\ Len(prompt[s]) <= n /\ SubSeq(c, 1, Len(prompt[s])) = prompt[s]
        /\ \A j \in 1..BlocksFor(n) : kv[slotBlocks[s][j]] = SubSeq(c, 1, MinOf(n, j * BlockSize))
    BY <1>1, TableTypes DEF ContentsInv, HoldsContext, HoldsExactly
  <2> HIDE DEF c, n
  <2>2. i \in Nat /\ i >= 1 /\ i <= FullBlocks(prompt[s])
    BY <1>1
  <2>3. i * BlockSize <= Len(prompt[s]) /\ i * BlockSize \in Nat
    BY <2>1, <2>2, BlockBounds, WholeBlocks DEF FullBlocks
  <2>4. i <= n \div BlockSize
    <3>1. i * BlockSize <= n
      BY <2>1, <2>3
    <3> QED BY <2>1, <2>2, <3>1, BlockBounds
  <2>5. i \in 1..BlocksFor(n)
    BY <2>1, <2>2, <2>4, BlockBounds
  <2>6. kv[slotBlocks[s][i]] = SubSeq(c, 1, i * BlockSize)
    BY <2>1, <2>4, <2>5, BlockEnd
  <2>7. SubSeq(SubSeq(c, 1, Len(prompt[s])), 1, i * BlockSize) = SubSeq(c, 1, i * BlockSize)
    <3>1. Len(prompt[s]) \in 0..Len(c) /\ i * BlockSize \in 0..Len(prompt[s])
      BY <2>1, <2>3 DEF n
    <3> QED BY <2>1, <3>1, PrefixOfPrefix
  <2> QED BY <1>4, <2>1, <2>6, <2>7 DEF Boundary
<1>7. PrefixesHoldTheirTokens'
  <2>1. ASSUME NEW q \in DOMAIN prefixes'
        PROVE  /\ Len(prefixes'[q].blocks) = FullBlocks(q)
               /\ \A i \in DOMAIN prefixes'[q].blocks : kv'[prefixes'[q].blocks[i]] = Boundary(q, i)
    <3>1. CASE q = StoreKey
      <4>1. \A i \in 1..k : i \in 0..k
        BY <1>1
      <4> HIDE DEF blocks
      <4> QED BY <1>2, <1>4, <1>5, <1>6, <3>1, <4>1
    <3>2. CASE q \in DOMAIN prefixes
      BY <1>2, <3>2 DEF ContentsInv, PrefixesHoldTheirTokens
    <3> QED BY <1>2, <3>1, <3>2
  <2> QED BY <2>1 DEF PrefixesHoldTheirTokens, FullBlocks, Boundary
<1>8. ASSUME NEW r \in Slots
      PROVE  NamesOnce(r)' /\ HoldsMatched(r)' /\ HoldsContext(r)' /\ OwnsTail(r)'
  <2>1. /\ NamesOnce(r)' /\ HoldsMatched(r)' /\ HoldsContext(r)'
        /\ SharedUpTo(r)' = SharedUpTo(r)
    BY SlotKept
  <2>2. ASSUME NEW i \in DOMAIN slotBlocks[r], i > SharedUpTo(r)
        PROVE  SlotHolders(slotBlocks[r][i])' = {r} /\ PrefixHolders(slotBlocks[r][i])' = {}
    <3>1. SlotHolders(slotBlocks[r][i]) = {r} /\ PrefixHolders(slotBlocks[r][i]) = {}
      BY <2>2 DEF ContentsInv, OwnsTail
    <3>2. slotBlocks[r][i] \notin Range(blocks)
      <4> SUFFICES ASSUME slotBlocks[r][i] \in Range(blocks) PROVE FALSE
        OBVIOUS
      <4>1. PICK j \in 1..k : slotBlocks[r][i] = slotBlocks[s][j]
        BY <1>4 DEF Range
      <4>2. j \in DOMAIN slotBlocks[s]
        BY <1>1, <4>1
      <4>3. r = s
        BY <1>1, <3>1, <4>1, <4>2, TableTypes
      <4>4. i = j
        BY <1>1, <4>1, <4>2, <4>3 DEF ContentsInv, NamesOnce
      <4>5. SharedUpTo(r) = FullBlocks(prompt[s])
        BY <1>1, <4>3 DEF SharedUpTo
      <4> QED BY <1>1, <2>2, <4>1, <4>4, <4>5
    <3>3. PrefixHolders(slotBlocks[r][i])' = {}
      <4> HIDE DEF blocks
      <4> QED BY <1>2, <3>1, <3>2 DEF PrefixHolders
    <3>4. slotBlocks[r][i] \in Blocks
      BY TableTypes
    <3> QED BY <1>3, <3>1, <3>3, <3>4 DEF SlotHolders
  <2>3. OwnsTail(r)'
    BY <2>1, <2>2 DEF OwnsTail, SlotHolders, PrefixHolders
  <2> QED BY <2>1, <2>3
<1> QED BY <1>7, <1>8 DEF ContentsInv

\* A slot that writes only its own blocks disturbs nobody else's contents.
LEMMA OthersKept ==
    ASSUME LedgerInv, ContentsInv, NEW s \in Slots,
           UNCHANGED <<freeSlots, slotBlocks, prefixes, prompt, matched>>,
           \A r \in Slots \ {s} : committed'[r] = committed[r],
           \A b \in Blocks : PrefixHolders(b) # {} \/ (\E r \in Slots \ {s} : r \in SlotHolders(b))
                                 => kv'[b] = kv[b]
    PROVE  /\ PrefixesHoldTheirTokens'
           /\ \A r \in Slots \ {s} :
                 NamesOnce(r)' /\ HoldsMatched(r)' /\ HoldsContext(r)' /\ OwnsTail(r)'
           /\ NamesOnce(s)'
<1>1. \A b \in Blocks : SlotHolders(b)' = SlotHolders(b) /\ PrefixHolders(b)' = PrefixHolders(b)
  BY DEF SlotHolders, PrefixHolders
<1>2. PrefixesHoldTheirTokens'
  BY <1>1, EntriesKept
<1>3. NamesOnce(s)'
  BY DEF ContentsInv, NamesOnce
<1>4. ASSUME NEW r \in Slots \ {s}
      PROVE  NamesOnce(r)' /\ HoldsMatched(r)' /\ HoldsContext(r)' /\ OwnsTail(r)'
  <2>1. \A i \in DOMAIN slotBlocks[r] : kv'[slotBlocks[r][i]] = kv[slotBlocks[r][i]]
    BY TableTypes
  <2>2. /\ NamesOnce(r)' /\ HoldsMatched(r)' /\ HoldsContext(r)'
        /\ SharedUpTo(r)' = SharedUpTo(r)
    BY <2>1, SlotKept
  <2>3. OwnsTail(r)'
    BY <2>2 DEF ContentsInv, OwnsTail, SlotHolders, PrefixHolders
  <2> QED BY <2>2, <2>3
<1> QED BY <1>2, <1>3, <1>4

\* What write_prefill leaves in each block: the slot's prompt in the slot's
\* blocks, and in every block somebody else points at what it held before.
LEMMA PrefillWrites ==
    ASSUME LedgerInv, ContentsInv, NEW s \in Slots, NEW start \in {0, matched[s]},
           WritePrefill(s, start)
    PROVE  /\ \A i \in 1..BlocksFor(Len(prompt[s])) :
                 kv'[slotBlocks[s][i]] = SubSeq(prompt[s], 1, MinOf(Len(prompt[s]), i * BlockSize))
           /\ \A b \in Blocks :
                 PrefixHolders(b) # {} \/ (\E r \in Slots \ {s} : r \in SlotHolders(b))
                     => kv'[b] = kv[b]
<1> DEFINE w == prompt[s]
           n == BlocksFor(Len(w))
           T == slotBlocks[s]
           m == MatchedBlocks(s)
<1>1. /\ s \in Allocated /\ committed[s] = <<>>
      /\ n \in Nat /\ n <= Len(T) /\ DOMAIN T = 1..Len(T) /\ Len(T) \in Nat
      /\ \A i \in DOMAIN T : T[i] \in Blocks
      /\ w \in Seq(Token) /\ Len(w) \in Nat /\ FullBlocks(w) \in Nat /\ FullBlocks(w) <= n
      /\ m \in Nat /\ m <= FullBlocks(w) /\ matched[s] = m * BlockSize
      /\ \A i \in 1..m : kv[T[i]] = Boundary(w, i)
  BY TableTypes, FullBlocksFit, SMTT(30) DEF WritePrefill, ContentsInv, HoldsMatched
<1>2. \A i, j \in 1..n : T[i] = T[j] => i = j
  BY <1>1 DEF ContentsInv, NamesOnce
<1>3. kv' = [b \in Blocks |->
                IF \E i \in 1..n : T[i] = b /\ Writes(i, start)
                THEN SubSeq(w, 1, MinOf(Len(w), BlockSize * CHOOSE i \in 1..n : T[i] = b))
                ELSE kv[b]]
  BY DEF WritePrefill
<1>4. \A i \in 1..n : i > m => SlotHolders(T[i]) = {s} /\ PrefixHolders(T[i]) = {}
  <2>1. OwnsTail(s) /\ SharedUpTo(s) = m
    BY <1>1 DEF ContentsInv, SharedUpTo
  <2>2. \A i \in 1..n : i \in DOMAIN T
    <3> HIDE DEF n, T
    <3> QED BY <1>1
  <2> QED BY <2>1, <2>2 DEF OwnsTail
<1> HIDE DEF w, n, T, m
<1>5. ASSUME NEW i \in 1..n
      PROVE  (CHOOSE j \in 1..n : T[j] = T[i]) = i
  BY <1>2
<1>6. ASSUME NEW i \in 1..n
      PROVE  kv'[T[i]] = SubSeq(w, 1, MinOf(Len(w), i * BlockSize))
  <2>1. T[i] \in Blocks /\ i \in Nat /\ i >= 1
    BY <1>1
  <2>2. CASE Writes(i, start)
    <3>1. kv'[T[i]] = SubSeq(w, 1, MinOf(Len(w), BlockSize * CHOOSE j \in 1..n : T[j] = T[i]))
      BY <1>3, <2>1, <2>2
    <3>2. BlockSize * i = i * BlockSize
      BY <2>1, CacheConstants
    <3> QED BY <1>5, <3>1, <3>2
  <2>3. CASE ~ Writes(i, start)
    <3>1. ~ (\E j \in 1..n : T[j] = T[i] /\ Writes(j, start))
      BY <1>2, <2>3
    <3>2. kv'[T[i]] = kv[T[i]]
      BY <1>3, <2>1, <3>1
    <3>3. i * BlockSize \in Nat /\ i * BlockSize > 0
      <4>1. 0 * BlockSize = 0
        BY CacheConstants
      <4> QED BY <2>1, <4>1, WholeBlocks
    <3>4. ~ (i * BlockSize > m * BlockSize)
      BY <1>1, <2>3, <3>3 DEF Writes
    <3>5. i <= m
      BY <1>1, <2>1, <3>4, WholeBlocks
    <3>6. kv[T[i]] = Boundary(w, i)
      BY <1>1, <2>1, <3>5
    <3>7. MinOf(Len(w), i * BlockSize) = i * BlockSize
      BY <1>1, <2>1, <3>5, BlockEnd DEF n, FullBlocks
    <3> QED BY <3>2, <3>6, <3>7 DEF Boundary
  <2> QED BY <2>2, <2>3
<1>7. ASSUME NEW b \in Blocks,
             PrefixHolders(b) # {} \/ (\E r \in Slots \ {s} : r \in SlotHolders(b))
      PROVE  kv'[b] = kv[b]
  <2>1. CASE ~ \E i \in 1..n : T[i] = b
    BY <1>3, <2>1
  <2>2. ASSUME NEW i \in 1..n, T[i] = b PROVE kv'[b] = kv[b]
    <3>1. i <= m /\ i \in Nat /\ i >= 1
      <4>1. ~ (SlotHolders(T[i]) = {s} /\ PrefixHolders(T[i]) = {})
        BY <1>7, <2>2
      <4>2. ~ (i > m)
        BY <1>4, <4>1
      <4>3. n \in Nat /\ m \in Nat
        BY <1>1
      <4> QED BY <4>2, <4>3
    <3>2. kv[b] = Boundary(w, i)
      BY <1>1, <2>2, <3>1
    <3>3. MinOf(Len(w), i * BlockSize) = i * BlockSize
      BY <1>1, <2>2, <3>1, BlockEnd DEF n, FullBlocks
    <3> QED BY <1>6, <2>2, <3>2, <3>3 DEF Boundary
  <2> QED BY <2>1, <2>2
<1> QED BY <1>6, <1>7 DEF w, n, T

\* Prefill writes a slot's own prompt into its own blocks.
LEMMA WritePrefillContents ==
    ASSUME LedgerInv, ContentsInv, NEW s \in Slots, NEW start \in {0, matched[s]},
           WritePrefill(s, start)
    PROVE  ContentsInv'
<1> DEFINE w == prompt[s]
           n == BlocksFor(Len(w))
           T == slotBlocks[s]
           m == MatchedBlocks(s)
<1> USE DEF WritePrefill
<1>1. /\ s \in Allocated /\ s \in Allocated' /\ committed[s] = <<>>
      /\ n \in Nat /\ n <= Len(T) /\ DOMAIN T = 1..Len(T) /\ Len(T) \in Nat
      /\ w \in Prompts /\ w \in Seq(Token) /\ Len(w) \in Nat
      /\ FullBlocks(w) \in Nat /\ FullBlocks(w) <= n
      /\ m \in Nat /\ m <= FullBlocks(w) /\ m <= Len(T) /\ matched[s] = m * BlockSize
      /\ OwnsTail(s)
  BY TableTypes, FullBlocksFit DEF ContentsInv, HoldsMatched, Allocated
<1>2. /\ \A i \in 1..n : kv'[T[i]] = SubSeq(w, 1, MinOf(Len(w), i * BlockSize))
      /\ \A b \in Blocks :
            PrefixHolders(b) # {} \/ (\E r \in Slots \ {s} : r \in SlotHolders(b))
                => kv'[b] = kv[b]
  BY PrefillWrites, ZenonT(60)
<1>3. committed'[s] = w /\ \A r \in Slots \ {s} : committed'[r] = committed[r]
  BY DEF LedgerInv, TypeOK
<1>4. /\ PrefixesHoldTheirTokens'
      /\ \A r \in Slots \ {s} :
            NamesOnce(r)' /\ HoldsMatched(r)' /\ HoldsContext(r)' /\ OwnsTail(r)'
      /\ NamesOnce(s)'
  BY <1>2, <1>3, OthersKept
<1>5. HoldsMatched(s)'
  <2>1. MatchedBlocks(s)' = m
    BY DEF MatchedBlocks
  <2>2. ASSUME NEW i \in 1..m PROVE kv'[T[i]] = Boundary(w, i)
    <3> HIDE DEF w, T, m
    <3>1. i \in 1..n /\ i <= FullBlocks(w)
      BY <1>1
    <3>2. MinOf(Len(w), i * BlockSize) = i * BlockSize
      BY <1>1, <3>1, BlockEnd DEF FullBlocks
    <3> HIDE DEF n
    <3> QED BY <1>2, <3>1, <3>2 DEF Boundary
  <2> QED BY <1>1, <2>1, <2>2 DEF HoldsMatched, Allocated, FullBlocks, Boundary
<1>6. HoldsContext(s)'
  <2>1. SubSeq(w, 1, Len(w)) = w
    BY <1>1
  <2>2. \A i \in 1..n : kv'[slotBlocks'[s][i]] = SubSeq(w, 1, MinOf(Len(w), i * BlockSize))
    BY <1>2
  <2>3. n <= Len(slotBlocks'[s]) /\ Len(w) <= Len(w) /\ prompt'[s] = w
    BY <1>1
  <2> HIDE DEF w
  <2> QED BY <1>3, <2>1, <2>2, <2>3 DEF HoldsContext, HoldsExactly, BlocksFor
<1>7. OwnsTail(s)'
  <2>1. w # <<>>
    BY <1>1, CacheConstants
  <2>2. SharedUpTo(s)' = FullBlocks(w) /\ SharedUpTo(s) = m
    BY <1>1, <1>3, <2>1 DEF SharedUpTo, FullBlocks
  <2>3. \A i \in DOMAIN T : i > FullBlocks(w) => i > m
    BY <1>1
  <2> QED BY <1>1, <2>2, <2>3 DEF OwnsTail, SlotHolders, PrefixHolders
<1> QED BY <1>4, <1>5, <1>6, <1>7 DEF ContentsInv

\* A decode step writes behind the slot's prompt, where nobody else points.
LEMMA DecodeWrites ==
    ASSUME LedgerInv, ContentsInv, NEW s \in Slots, NEW t \in Token, WriteDecode(s, t)
    PROVE  /\ BlocksFor(Len(committed[s]) + 1) \in DOMAIN slotBlocks[s]
           /\ BlocksFor(Len(committed[s]) + 1) = (Len(committed[s]) \div BlockSize) + 1
           /\ FullBlocks(prompt[s]) <= Len(committed[s]) \div BlockSize
           /\ SlotHolders(slotBlocks[s][BlocksFor(Len(committed[s]) + 1)]) = {s}
           /\ PrefixHolders(slotBlocks[s][BlocksFor(Len(committed[s]) + 1)]) = {}
           /\ kv' = [kv EXCEPT ![slotBlocks[s][BlocksFor(Len(committed[s]) + 1)]] =
                                   Append(committed[s], t)]
<1> DEFINE c == committed[s]
           n == Len(c)
           j == BlocksFor(n + 1)
<1>1. /\ c \in Seq(Token) /\ n \in Nat /\ c # <<>>
      /\ Len(Append(c, t)) = n + 1
      /\ slotBlocks[s] \in Seq(Blocks) /\ DOMAIN slotBlocks[s] = 1..Len(slotBlocks[s])
      /\ prompt[s] \in Seq(Token) /\ Len(prompt[s]) \in Nat /\ Len(prompt[s]) <= n
      /\ OwnsTail(s)
  BY TableTypes DEF ContentsInv, HoldsContext, WriteDecode
<1>2. j <= Len(slotBlocks[s]) /\ kv' = [kv EXCEPT ![slotBlocks[s][j]] = Append(c, t)]
  BY <1>1 DEF WriteDecode, BlockAt
<1> HIDE DEF c
<1>3. j = (n \div BlockSize) + 1 /\ n \div BlockSize \in Nat
  BY <1>1, BlockBounds
<1>4. FullBlocks(prompt[s]) <= n \div BlockSize /\ FullBlocks(prompt[s]) \in Nat
  <2>1. \A a, b \in Nat, d \in Nat \ {0} : a <= b => a \div d <= b \div d
    BY SMTT(20)
  <2>2. FullBlocks(prompt[s]) \in Nat
    BY <1>1, FullBlocksFit
  <2> HIDE DEF n
  <2> QED BY <1>1, <2>1, <2>2, CacheConstants DEF FullBlocks
<1> HIDE DEF n
<1>5. j \in DOMAIN slotBlocks[s] /\ j > FullBlocks(prompt[s])
  <2>1. Len(slotBlocks[s]) \in Nat
    BY <1>1
  <2> HIDE DEF j
  <2> QED BY <1>1, <1>2, <1>3, <1>4, <2>1
<1>6. SharedUpTo(s) = FullBlocks(prompt[s])
  BY <1>1 DEF SharedUpTo, c
<1> HIDE DEF j
<1>7. SlotHolders(slotBlocks[s][j]) = {s} /\ PrefixHolders(slotBlocks[s][j]) = {}
  BY <1>1, <1>5, <1>6 DEF OwnsTail
<1> QED BY <1>2, <1>3, <1>4, <1>5, <1>7 DEF c, n, j

\* A decoded token goes to a block that its slot alone holds.
LEMMA WriteDecodeContents ==
    ASSUME LedgerInv, ContentsInv, NEW s \in Slots, NEW t \in Token, WriteDecode(s, t)
    PROVE  ContentsInv'
<1> DEFINE c == committed[s]
           n == Len(c)
           w == Append(c, t)
           j == BlocksFor(n + 1)
           T == slotBlocks[s]
           m == MatchedBlocks(s)
<1>1. /\ s \in Allocated /\ c \in Seq(Token) /\ n \in Nat /\ c # <<>>
      /\ w \in Seq(Token) /\ Len(w) = n + 1 /\ w # <<>> /\ w[n + 1] = t
      /\ \A i \in 1..n : w[i] = c[i]
      /\ T \in Seq(Blocks) /\ DOMAIN T = 1..Len(T) /\ Len(T) \in Nat
      /\ \A i \in DOMAIN T : T[i] \in Blocks
      /\ prompt[s] \in Prompts /\ prompt[s] \in Seq(Token) /\ Len(prompt[s]) \in Nat
      /\ Len(prompt[s]) <= n /\ SubSeq(c, 1, Len(prompt[s])) = prompt[s]
      /\ m \in Nat /\ HoldsMatched(s) /\ m <= FullBlocks(prompt[s]) /\ FullBlocks(prompt[s]) \in Nat
      /\ \A i \in 1..BlocksFor(n) : kv[T[i]] = SubSeq(c, 1, MinOf(n, i * BlockSize))
      /\ OwnsTail(s) /\ NamesOnce(s)
  <2>1. /\ s \in Allocated /\ c \in Seq(Token) /\ n \in Nat /\ c # <<>>
        /\ T \in Seq(Blocks) /\ DOMAIN T = 1..Len(T) /\ Len(T) \in Nat
        /\ \A i \in DOMAIN T : T[i] \in Blocks
        /\ prompt[s] \in Prompts /\ prompt[s] \in Seq(Token) /\ Len(prompt[s]) \in Nat
        /\ m \in Nat /\ FullBlocks(prompt[s]) \in Nat
    BY TableTypes DEF WriteDecode
  <2>2. /\ w \in Seq(Token) /\ Len(w) = n + 1 /\ w # <<>> /\ w[n + 1] = t
        /\ \A i \in 1..n : w[i] = c[i]
    BY <2>1
  <2>3. OwnsTail(s) /\ NamesOnce(s) /\ HoldsMatched(s) /\ HoldsContext(s)
    BY DEF ContentsInv
  <2>4. m <= FullBlocks(prompt[s])
    BY <2>1, <2>3 DEF HoldsMatched
  <2>5. /\ Len(prompt[s]) <= n /\ SubSeq(c, 1, Len(prompt[s])) = prompt[s]
        /\ \A i \in 1..BlocksFor(n) : kv[T[i]] = SubSeq(c, 1, MinOf(n, i * BlockSize))
    BY <2>1, <2>3 DEF HoldsContext, HoldsExactly
  <2> HIDE DEF c, n, w, T, m
  <2> QED BY <2>1, <2>2, <2>3, <2>4, <2>5
<1>2. /\ j \in DOMAIN T /\ j = (n \div BlockSize) + 1 /\ n \div BlockSize \in Nat
      /\ FullBlocks(prompt[s]) <= n \div BlockSize
      /\ SlotHolders(T[j]) = {s} /\ PrefixHolders(T[j]) = {}
      /\ kv' = [kv EXCEPT ![T[j]] = w]
  BY <1>1, DecodeWrites, BlockBounds
<1>3. /\ committed'[s] = w /\ \A r \in Slots \ {s} : committed'[r] = committed[r]
      /\ UNCHANGED <<freeSlots, slotBlocks, prefixes, prompt, matched>>
  BY DEF WriteDecode, LedgerInv, TypeOK
<1>4. /\ kv'[T[j]] = w
      /\ \A b \in Blocks : b # T[j] => kv'[b] = kv[b]
  BY <1>1, <1>2 DEF LedgerInv, TypeOK
<1> HIDE DEF c, n, w, j, m
<1>5. /\ PrefixesHoldTheirTokens'
      /\ \A r \in Slots \ {s} :
            NamesOnce(r)' /\ HoldsMatched(r)' /\ HoldsContext(r)' /\ OwnsTail(r)'
      /\ NamesOnce(s)'
  <2>1. \A b \in Blocks :
           PrefixHolders(b) # {} \/ (\E r \in Slots \ {s} : r \in SlotHolders(b))
               => kv'[b] = kv[b]
    BY <1>2, <1>4
  <2> QED BY <1>3, <2>1, OthersKept
<1>6. \A i \in DOMAIN T : i < j => kv'[T[i]] = kv[T[i]]
  BY <1>1, <1>2, <1>4 DEF NamesOnce
<1>7. HoldsMatched(s)'
  <2>1. MatchedBlocks(s)' = m
    BY <1>3 DEF MatchedBlocks, m
  <2>2. \A i \in 1..m : i \in DOMAIN T /\ i < j
    BY <1>1, <1>2
  <2>3. \A i \in 1..m : kv'[T[i]] = Boundary(prompt[s], i)
    BY <1>1, <1>6, <2>2 DEF HoldsMatched, m
  <2> QED BY <1>1, <1>3, <2>1, <2>3 DEF HoldsMatched, Allocated, FullBlocks, Boundary, m
<1>8. HoldsContext(s)'
  <2>1. Len(prompt[s]) <= Len(w)
    BY <1>1
  <2>2. SubSeq(w, 1, Len(prompt[s])) = prompt[s]
    <3>1. SubSeq(w, 1, Len(prompt[s])) = SubSeq(c, 1, Len(prompt[s]))
      <4>1. /\ Len(prompt[s]) <= Len(c) /\ Len(prompt[s]) <= Len(w)
            /\ \A i \in 1..Len(prompt[s]) : w[i] = c[i]
        BY <1>1 DEF n
      <4> QED BY <1>1, <4>1, SamePrefix
    <3> QED BY <1>1, <3>1
  <2>3. BlocksFor(Len(w)) = j
    BY <1>1 DEF j
  <2>4. ASSUME NEW i \in 1..j
        PROVE  kv'[T[i]] = SubSeq(w, 1, MinOf(n + 1, i * BlockSize))
    <3>1. i \in Nat /\ i >= 1 /\ i \in DOMAIN T
      BY <1>1, <1>2
    <3>2. CASE i = j
      <4>1. ~ (j <= n \div BlockSize) /\ j \in Nat
        BY <1>2
      <4>2. j * BlockSize > n /\ j * BlockSize \in Nat
        <5>1. j * BlockSize \in Nat
          BY <4>1, WholeBlocks
        <5>2. ~ (j * BlockSize <= n)
          BY <1>1, <4>1, BlockBounds
        <5> QED BY <1>1, <5>1, <5>2
      <4>3. MinOf(n + 1, j * BlockSize) = n + 1
        BY <1>1, <4>2 DEF MinOf
      <4>4. SubSeq(w, 1, n + 1) = w
        BY <1>1
      <4> QED BY <1>4, <3>2, <4>3, <4>4
    <3>3. CASE i < j
      <4>1. i <= n \div BlockSize
        BY <1>2, <3>1, <3>3
      <4>2. i * BlockSize <= n /\ i * BlockSize \in Nat
        BY <1>1, <3>1, <4>1, BlockBounds, WholeBlocks
      <4>3. MinOf(n, i * BlockSize) = i * BlockSize /\ MinOf(n + 1, i * BlockSize) = i * BlockSize
        BY <1>1, <4>2 DEF MinOf
      <4>4. i \in 1..BlocksFor(n)
        <5>1. BlocksFor(n) \in Nat /\ n \div BlockSize <= BlocksFor(n)
          BY <1>1, BlockBounds
        <5> QED BY <1>2, <3>1, <4>1, <5>1
      <4>5. kv'[T[i]] = SubSeq(c, 1, i * BlockSize)
        BY <1>1, <1>6, <3>1, <3>3, <4>3, <4>4
      <4>6. SubSeq(w, 1, i * BlockSize) = SubSeq(c, 1, i * BlockSize)
        <5>1. /\ i * BlockSize <= Len(c) /\ i * BlockSize <= Len(w)
              /\ \A l \in 1..(i * BlockSize) : w[l] = c[l]
          BY <1>1, <4>2 DEF n
        <5> QED BY <1>1, <4>2, <5>1, SamePrefix
      <4> QED BY <4>3, <4>5, <4>6
    <3> QED BY <1>2, <3>1, <3>2, <3>3
  <2>5. j <= Len(T)
    BY <1>1, <1>2
  <2> QED BY <1>1, <1>3, <2>1, <2>2, <2>3, <2>4, <2>5 DEF HoldsContext, HoldsExactly, BlocksFor
<1>9. OwnsTail(s)'
  <2>1. SharedUpTo(s)' = SharedUpTo(s)
    BY <1>1, <1>3 DEF SharedUpTo, FullBlocks, c
  <2> QED BY <1>1, <1>3, <2>1 DEF OwnsTail, SlotHolders, PrefixHolders
<1> QED BY <1>5, <1>7, <1>8, <1>9 DEF ContentsInv

-----------------------------------------------------------------------------
\* Every step of the cache keeps the contents of all blocks in place.
LEMMA NextContents ==
    ASSUME LedgerInv, LedgerInv', ContentsInv, [Next]_vars
    PROVE  ContentsInv'
<1>1. ASSUME NEW s \in Slots, NEW w \in Prompts, Admit(s, w) PROVE ContentsInv'
  BY <1>1, AdmitContents
<1>2. ASSUME NEW s \in Slots, Grow(s) PROVE ContentsInv'
  BY <1>2, GrowContents
<1>3. ASSUME NEW s \in Slots, NEW start \in {0, matched[s]}, WritePrefill(s, start)
      PROVE  ContentsInv'
  BY <1>3, WritePrefillContents
<1>4. ASSUME NEW s \in Slots, NEW t \in Token, WriteDecode(s, t) PROVE ContentsInv'
  BY <1>4, WriteDecodeContents
<1>5. ASSUME NEW s \in Slots, StoreBegin(s) PROVE ContentsInv'
  BY <1>5, StoreBeginContents
<1>6. ASSUME NEW s \in Slots, Free(s) PROVE ContentsInv'
  BY <1>6, FreeContents
<1>7. CASE StoreBump
  BY <1>7, StoreBumpContents
<1>8. CASE StoreEvict
  BY <1>8, StoreEvictContents
<1>9. CASE StoreAdd
  BY <1>9, StoreAddContents
<1>10. CASE UNCHANGED vars
  BY <1>10, ContentsFrame DEF vars
<1> QED BY <1>1, <1>2, <1>3, <1>4, <1>5, <1>6, <1>7, <1>8, <1>9, <1>10 DEF Next

\* Every block is where its readers expect it and holds what they expect,
\* through every order of admissions, growth, writes, stores, evictions and
\* frees.
THEOREM ContentsAlways == Spec => []ContentsInv
<1>1. Init => ContentsInv
  BY InitContents
<1>2. LedgerInv /\ LedgerInv' /\ ContentsInv /\ [Next]_vars => ContentsInv'
  BY NextContents
<1>3. Spec => []LedgerInv
  BY LedgerAlways
<1> QED BY <1>1, <1>2, <1>3, PTL DEF Spec

\* lookup_prefix never hands out blocks that hold anything but the tokens
\* of the prefix it matched.
THEOREM PrefixesAlwaysHoldTheirTokens == Spec => []PrefixesHoldTheirTokens
<1>1. ContentsInv => PrefixesHoldTheirTokens
  BY DEF ContentsInv
<1> QED BY <1>1, ContentsAlways, PTL

\* A table that holds the context of its slot is read as that context.
LEMMA ContentsRead == LedgerInv /\ ContentsInv => ReadsOwnContext
<1> SUFFICES ASSUME LedgerInv, ContentsInv, NEW s \in Allocated,
                    NEW i \in 1..BlocksFor(Len(committed[s]))
             PROVE  Holds(slotBlocks[s][i], committed[s], i)
  BY DEF ReadsOwnContext
<1> DEFINE c == committed[s]
           n == Len(c)
           e == MinOf(n, i * BlockSize)
<1>1. s \in Slots /\ c \in Seq(Token) /\ n \in Nat /\ i \in 1..BlocksFor(n)
  BY TableTypes DEF Allocated
<1>2. e \in 1..n /\ BlocksFor(e) = i /\ e \in 0..Len(c)
  BY <1>1, BlockEnd
<1>3. c # <<>>
  <2>1. 1..n # {}
    BY <1>2
  <2>2. n # 0
    BY <2>1
  <2> QED BY <2>2
<1>4. kv[slotBlocks[s][i]] = SubSeq(c, 1, e)
  BY <1>1, <1>3 DEF ContentsInv, HoldsContext, HoldsExactly
<1> HIDE DEF e, n, c
<1>5. Len(SubSeq(c, 1, e)) = e /\ SubSeq(SubSeq(c, 1, e), 1, e) = SubSeq(c, 1, e)
  BY <1>1, <1>2, PrefixOfPrefix
<1> QED BY <1>1, <1>2, <1>4, <1>5 DEF Holds, e, n, c

\* Attention of a slot always reads the K/V of that slot's own tokens.
THEOREM AlwaysReadsOwnContext == Spec => []ReadsOwnContext
BY ContentsRead, LedgerAlways, ContentsAlways, PTL

\* What several holders point at is never changed under them.
THEOREM SharedBlocksNeverChange == Spec => SharedBlocksImmutable
<1> DEFINE Keeps == \A b \in Blocks :
              Cardinality(SlotHolders(b)) + Cardinality(PrefixHolders(b)) > 1
                  => kv'[b] = kv[b] \/ b \in freeBlocks'
<1>1. LedgerInv /\ ContentsInv /\ [Next]_vars => Keeps
  <2> SUFFICES ASSUME LedgerInv, ContentsInv, [Next]_vars, NEW b \in Blocks,
                      Cardinality(SlotHolders(b)) + Cardinality(PrefixHolders(b)) > 1
               PROVE  kv'[b] = kv[b] \/ b \in freeBlocks'
    OBVIOUS
  <2>1. ASSUME NEW s \in Slots PROVE ~ (SlotHolders(b) \subseteq {s} /\ PrefixHolders(b) = {})
    <3>1. Cardinality({s}) = 1 /\ Cardinality({}) = 0 /\ IsFiniteSet({s})
      BY FS_Singleton, FS_EmptySet
    <3>2. SlotHolders(b) \subseteq {s} => Cardinality(SlotHolders(b)) <= 1
      BY <3>1, FS_Subset
    <3>3. Cardinality(SlotHolders(b)) \in Nat
      BY HoldersCount
    <3> QED BY <3>1, <3>2, <3>3
  <2>2. ASSUME NEW s \in Slots
        PROVE  PrefixHolders(b) # {} \/ (\E r \in Slots \ {s} : r \in SlotHolders(b))
    BY <2>1 DEF SlotHolders
  <2>3. ASSUME NEW s \in Slots, NEW start \in {0, matched[s]}, WritePrefill(s, start)
        PROVE  kv'[b] = kv[b]
    BY <2>2, <2>3, PrefillWrites
  <2>4. ASSUME NEW s \in Slots, NEW t \in Token, WriteDecode(s, t) PROVE kv'[b] = kv[b]
    <3> DEFINE c == slotBlocks[s][BlocksFor(Len(committed[s]) + 1)]
               w == Append(committed[s], t)
    <3>1. SlotHolders(c) = {s} /\ PrefixHolders(c) = {} /\ kv' = [kv EXCEPT ![c] = w]
      BY <2>4, DecodeWrites
    <3>2. b # c
      BY <2>1, <3>1
    <3> HIDE DEF c, w
    <3> QED BY <3>1, <3>2 DEF LedgerInv, TypeOK
  <2>5. ASSUME NEW s \in Slots, Free(s) PROVE kv'[b] = kv[b] \/ b \in freeBlocks'
    BY <2>5 DEF Free, Release
  <2>6. CASE StoreEvict
    BY <2>6 DEF StoreEvict, Release
  <2>7. CASE \/ StoreBump \/ StoreAdd \/ UNCHANGED vars
             \/ \E s \in Slots : \/ \E w \in Prompts : Admit(s, w)
                                 \/ Grow(s) \/ StoreBegin(s)
    BY <2>7 DEF StoreBump, StoreAdd, vars, Admit, Grow, StoreBegin
  <2> QED BY <2>3, <2>4, <2>5, <2>6, <2>7 DEF Next
<1>2. LedgerInv /\ ContentsInv /\ [Next]_vars => [Keeps]_vars
  BY <1>1
<1> QED BY <1>2, LedgerAlways, ContentsAlways, PTL DEF Spec, SharedBlocksImmutable
=============================================================================
