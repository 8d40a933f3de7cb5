----------------------------- MODULE EngineProofs -----------------------------
(***************************************************************************)
(* Theorems about Engine for every set of requests, pool, batch limit and  *)
(* vocabulary: its lists and slots, and HistoryInKV, which is what they    *)
(* and the block contents of PagedKVCacheProofs come to together.          *)
(***************************************************************************)
EXTENDS Engine, ListProofs

-----------------------------------------------------------------------------
(* Where the requests are *)

\* The members of a batch under way are requests.
LEMMA ListTypes ==
    ASSUME TypeOK
    PROVE  /\ running \in Seq(Requests) /\ waiting \in Seq(Requests)
           /\ step.batch \in Seq(Requests) /\ Prefilling \in Seq(Requests)
           /\ step.pc \in {"idle", "schedule", "forward", "store", "post", "dead"}
           /\ step.prefill \in BOOLEAN /\ step.tokens \in Nat
           /\ step.preempted \in Nat /\ step.cursor \in Nat \ {0}
           /\ ActiveSet \subseteq Requests
<1>1. /\ running \in Seq(Requests) /\ waiting \in Seq(Requests)
      /\ step.batch \in Seq(Requests)
      /\ step.pc \in {"idle", "schedule", "forward", "store", "post", "dead"}
      /\ step.prefill \in BOOLEAN /\ step.tokens \in Nat
      /\ step.preempted \in Nat /\ step.cursor \in Nat \ {0}
  BY DEF TypeOK
<1>2. Prefilling \in Seq(Requests)
  BY <1>1, EmptySeq DEF Prefilling
<1> QED BY <1>1, <1>2, RangeOfList DEF ActiveSet

\* A running list has a victim.
LEMMA VictimIsRunning ==
    ASSUME TypeOK, running # <<>>
    PROVE  VictimAt \in DOMAIN running
<1> DEFINE G(i) == Len(output_ids[running[i]])
           Sizes == {G(i) : i \in DOMAIN running}
<1>1. /\ DOMAIN running = 1..Len(running) /\ Len(running) \in Nat
      /\ 1 \in DOMAIN running
      /\ \A i \in DOMAIN running : running[i] \in Requests
  <2>1. running \in Seq(Requests)
    BY DEF TypeOK
  <2> QED BY <2>1, EmptySeq
<1>2. \A i \in DOMAIN running : G(i) \in Nat
  <2>1. \A r \in Requests : output_ids[r] \in Seq(Token)
    BY DEF TypeOK
  <2> QED BY <1>1, <2>1
<1>3. PICK m \in Sizes : \A n \in Sizes : m <= n
  <2>1. Sizes \subseteq Nat /\ Sizes # {}
    BY <1>1, <1>2
  <2> HIDE DEF Sizes
  <2> QED BY <2>1, HasLeast
<1> DEFINE Few == {i \in DOMAIN running : G(i) = m}
<1>4. PICK i \in Few : \A j \in Few : i <= j
  <2>1. Few # {} /\ Few \subseteq Nat
    BY <1>1, <1>3
  <2> HIDE DEF Few
  <2> QED BY <2>1, HasLeast
<1>5. i \in DOMAIN running /\ G(i) = m
  BY <1>4
<1>6. ASSUME NEW j \in DOMAIN running PROVE GoesFirst(i, j)
  <2>1. m <= G(j) /\ m \in Nat /\ G(j) \in Nat
    BY <1>2, <1>3
  <2>2. CASE G(j) = m
    <3>1. j \in Few
      BY <2>2
    <3>2. i <= j
      BY <1>4, <3>1
    <3> QED BY <1>5, <2>2, <3>2 DEF GoesFirst
  <2>3. CASE G(j) # m
    BY <1>5, <2>1, <2>3 DEF GoesFirst
  <2> QED BY <2>2, <2>3
<1> QED BY <1>5, <1>6 DEF VictimAt

\* At the start no request has been submitted.
LEMMA InitPlaces == Init => PlacesInv
<1> SUFFICES ASSUME Init PROVE PlacesInv
  OBVIOUS
<1>1. Range(<<>>) = {} /\ NoDuplicates(<<>>)
  BY DEF Range, NoDuplicates
<1>2. /\ running = <<>> /\ waiting = <<>> /\ step.pc = "idle" /\ step.batch = <<>>
      /\ ~step.prefill /\ freeSlots = Slots /\ Prefilling = <<>>
  BY DEF Init, Returned, Cache!Init, Prefilling
<1>3. TypeOK
  <2>1. prompt_ids \in [Requests -> Seq(Token)]
    BY EngineConstants DEF Init
  <2>2. /\ waiting \in Seq(Requests) /\ running \in Seq(Requests)
        /\ output_ids \in [Requests -> Seq(Token)]
    BY EmptySeq DEF Init
  <2>3. step \in [pc : {"idle", "schedule", "forward", "store", "post", "dead"},
                   batch : Seq(Requests), prefill : BOOLEAN,
                   tokens : Nat, preempted : Nat, cursor : Nat \ {0}]
    BY EmptySeq DEF Init, Returned
  <2> QED BY <2>1, <2>2, <2>3 DEF Init, TypeOK
<1>4. StepShape
  BY <1>2 DEF StepShape
<1>5. Places
  BY <1>1, <1>2 DEF Init, Places, ActiveSet
<1>6. SlotOfEach
  BY <1>1, <1>2 DEF SlotOfEach, ActiveSet
<1>7. Arrived = {} /\ IsFiniteSet(Arrived)
  <2>1. Arrived = {}
    BY DEF Init, Arrived
  <2> QED BY <2>1, FS_EmptySet
<1> QED BY <1>3, <1>4, <1>5, <1>6, <1>7 DEF PlacesInv

\* What no list, status or slot notices leaves every request in its place.
LEMMA PlacesFrame ==
    ASSUME PlacesInv, step.pc # "dead" \/ step'.pc = "dead",
           UNCHANGED <<running, waiting, status, slot, freeSlots>>,
           step'.pc # "dead" => Prefilling' = Prefilling
    PROVE  Places' /\ SlotOfEach'
<1>1. CASE step'.pc = "dead"
  BY <1>1 DEF PlacesInv, Places, SlotOfEach
<1>2. CASE step'.pc # "dead"
  <2>1. ActiveSet' = ActiveSet /\ Prefilling' = Prefilling
    BY <1>2 DEF ActiveSet
  <2>2. Places'
    BY <1>2, <2>1 DEF PlacesInv, Places
  <2>3. SlotOfEach'
    BY <1>2, <2>1 DEF PlacesInv, SlotOfEach
  <2> QED BY <2>2, <2>3
<1> QED BY <1>1, <1>2

\* add_request puts a new request at the end of the queue.
LEMMA AddRequestPlaces ==
    ASSUME PlacesInv, NEW r \in Requests, AddRequest(r)
    PROVE  PlacesInv'
<1> USE DEF AddRequest, cacheVars
<1>1. /\ waiting' = Append(waiting, r) /\ status[r] = "new" /\ step.pc = "idle"
      /\ status' = [status EXCEPT ![r] = "waiting"]
      /\ UNCHANGED <<running, step, slot, freeSlots, prompt_ids, output_ids, evictions>>
  OBVIOUS
<1>2. TypeOK /\ IsFiniteSet(Arrived) /\ StepShape /\ Places /\ SlotOfEach
  BY DEF PlacesInv
<1>3. /\ waiting' \in Seq(Requests) /\ Range(waiting') = Range(waiting) \cup {r}
      /\ r \notin Range(waiting) => NoDuplicates(waiting')
  <2>1. waiting \in Seq(Requests)
    BY <1>2, ListTypes
  <2>2. NoDuplicates(waiting)
    BY <1>1, <1>2 DEF Places
  <2> QED BY <1>1, <2>1, <2>2, AppendFacts
<1>4. Prefilling' = Prefilling /\ ActiveSet' = ActiveSet
  BY <1>1 DEF Prefilling, ActiveSet
<1>5. TypeOK'
  <2>1. Cardinality({q \in Requests : status[q] # "new"}) \in Nat
    BY <1>2, FS_CardinalityType DEF Arrived
  <2>2. seq_id' \in [Requests -> Nat]
    BY <1>2, <2>1 DEF TypeOK
  <2> QED BY <1>1, <1>2, <1>3, <2>2 DEF TypeOK
<1>6. StepShape'
  BY <1>1, <1>2 DEF StepShape
<1>7. Places'
  <2>1. status \in [Requests -> {"new", "waiting", "running", "finished"}]
    BY <1>2 DEF TypeOK
  <2> QED BY <1>1, <1>2, <1>3, <1>4, <2>1 DEF Places
<1>8. SlotOfEach'
  BY <1>1, <1>2, <1>4 DEF SlotOfEach
<1>9. IsFiniteSet(Arrived')
  <2>1. Arrived' = Arrived \cup {r}
    BY <1>1, <1>2 DEF Arrived, TypeOK
  <2> QED BY <1>2, <2>1, FS_AddElement
<1> QED BY <1>5, <1>6, <1>7, <1>8, <1>9 DEF PlacesInv

\* schedule moves the head of the queue into the batch, with a slot that
\* was free.
LEMMA AdmitHeadPlaces ==
    ASSUME PlacesInv, AdmitHead
    PROVE  PlacesInv'
<1> DEFINE r == Head(waiting)
<1>1. PICK s \in freeSlots :
          /\ Cache!Admit(s, prompt_ids[r])
          /\ slot' = [slot EXCEPT ![r] = s]
  BY DEF AdmitHead
<1>2. /\ step.pc = "schedule" /\ waiting # <<>> /\ waiting' = Tail(waiting)
      /\ status' = [status EXCEPT ![r] = "running"]
      /\ step' = [step EXCEPT !.batch = Append(@, r), !.tokens = @ + Len(prompt_ids[r])]
      /\ UNCHANGED <<running, seq_id, prompt_ids, output_ids, evictions>>
  BY DEF AdmitHead, CanAdmit
<1>3. freeSlots' = freeSlots \ {s}
  BY <1>1 DEF Cache!Admit
<1>4. TypeOK /\ IsFiniteSet(Arrived) /\ StepShape /\ Places /\ SlotOfEach
  BY DEF PlacesInv
<1>5. /\ r \in Requests /\ waiting' \in Seq(Requests)
      /\ Range(waiting) = {r} \cup Range(waiting')
      /\ NoDuplicates(waiting') /\ r \notin Range(waiting')
  <2>1. waiting \in Seq(Requests) /\ NoDuplicates(waiting)
    BY <1>2, <1>4, ListTypes DEF Places
  <2> QED BY <1>2, <2>1, HeadFacts
<1>6. status[r] = "waiting" /\ r \notin ActiveSet
  BY <1>2, <1>4, <1>5 DEF Places
<1> HIDE DEF r
<1>7. /\ Prefilling = step.batch /\ Prefilling' = Append(step.batch, r)
      /\ step'.pc = "schedule" /\ step'.prefill = step.prefill
  BY <1>2, <1>4 DEF Prefilling, TypeOK
<1>8. /\ Append(step.batch, r) \in Seq(Requests)
      /\ Range(Prefilling') = Range(Prefilling) \cup {r}
      /\ NoDuplicates(Prefilling')
  <2>1. step.batch \in Seq(Requests) /\ NoDuplicates(step.batch) /\ r \notin Range(step.batch)
    BY <1>2, <1>4, <1>6, <1>7, ListTypes DEF Places, ActiveSet
  <2> QED BY <1>5, <1>7, <2>1, AppendFacts
<1>9. ActiveSet' = ActiveSet \cup {r} /\ r \notin Range(running)
  BY <1>2, <1>6, <1>8 DEF ActiveSet
<1>10. TypeOK'
  <2>1. slot' \in [Requests -> Slots \cup {NoSlot}]
    BY <1>1, <1>4 DEF TypeOK, SlotOfEach
  <2>2. step' \in [pc : {"idle", "schedule", "forward", "store", "post", "dead"},
                   batch : Seq(Requests), prefill : BOOLEAN,
                   tokens : Nat, preempted : Nat, cursor : Nat \ {0}]
    <3>1. Len(prompt_ids[r]) \in Nat
      <4>1. prompt_ids[r] \in Seq(Token)
        BY <1>4, <1>5 DEF TypeOK
      <4> QED BY <4>1
    <3>2. step \in [pc : {"idle", "schedule", "forward", "store", "post", "dead"},
                    batch : Seq(Requests), prefill : BOOLEAN,
                    tokens : Nat, preempted : Nat, cursor : Nat \ {0}]
      BY <1>4 DEF TypeOK
    <3>3. step.tokens + Len(prompt_ids[r]) \in Nat
      BY <3>1, <3>2
    <3> QED BY <1>2, <1>8, <3>2, <3>3
  <2> QED BY <1>2, <1>4, <1>5, <2>1, <2>2 DEF TypeOK
<1>11. StepShape'
  BY <1>2, <1>4, <1>7 DEF StepShape
<1>12. Places'
  <2>1. status \in [Requests -> {"new", "waiting", "running", "finished"}]
    BY <1>4 DEF TypeOK
  <2>2. /\ NoDuplicates(running) /\ Range(running) \cap Range(Prefilling) = {}
        /\ \A q \in Requests :
              /\ status[q] = "waiting" <=> q \in Range(waiting)
              /\ status[q] = "running" <=> q \in ActiveSet
    BY <1>2, <1>4 DEF Places
  <2>3. \A q \in Requests :
            /\ status'[q] = "waiting" <=> q \in Range(waiting')
            /\ status'[q] = "running" <=> q \in ActiveSet'
    BY <1>2, <1>5, <1>9, <2>1, <2>2
  <2> QED BY <1>2, <1>5, <1>8, <1>9, <2>2, <2>3 DEF Places
<1>13. SlotOfEach'
  <2>1. slot \in [Requests -> Slots \cup {NoSlot}] /\ ActiveSet \subseteq Requests
    BY <1>4, ListTypes DEF TypeOK
  <2>2. /\ freeSlots \subseteq Slots
        /\ Slots \ freeSlots = {slot[q] : q \in ActiveSet}
        /\ \A p, q \in ActiveSet : slot[p] = slot[q] => p = q
    BY <1>2, <1>4 DEF SlotOfEach
  <2>3. slot'[r] = s /\ \A q \in ActiveSet : slot'[q] = slot[q] /\ slot[q] # s
    BY <1>1, <1>5, <1>6, <2>1, <2>2
  <2>4. Slots \ freeSlots' = {slot'[q] : q \in ActiveSet'}
    BY <1>3, <1>9, <2>2, <2>3
  <2>5. \A p, q \in ActiveSet' : slot'[p] = slot'[q] => p = q
    BY <1>9, <2>2, <2>3
  <2> QED BY <1>3, <2>2, <2>4, <2>5 DEF SlotOfEach
<1>14. Arrived' = Arrived
  BY <1>2, <1>4, <1>5, <1>6 DEF Arrived, TypeOK
<1> QED BY <1>4, <1>10, <1>11, <1>12, <1>13, <1>14 DEF PlacesInv

\* The record a call of step() is.
StepSet == [pc : {"idle", "schedule", "forward", "store", "post", "dead"},
            batch : Seq(Requests), prefill : BOOLEAN,
            tokens : Nat, preempted : Nat, cursor : Nat \ {0}]

\* Steps that move no request and no slot.
LEMMA QuietPlaces ==
    ASSUME PlacesInv, step.pc # "dead",
           UNCHANGED <<queueVars, status, seq_id, slot, prompt_ids, evictions, freeSlots>>,
           output_ids' \in [Requests -> Seq(Token)],
           step' \in StepSet, StepShape',
           step'.pc # "dead" => Prefilling' = Prefilling
    PROVE  PlacesInv'
<1>1. UNCHANGED <<running, waiting, status, slot, freeSlots>>
  BY DEF queueVars
<1>2. Places' /\ SlotOfEach'
  BY <1>1, PlacesFrame
<1>3. TypeOK'
  BY DEF queueVars, PlacesInv, TypeOK, StepSet
<1>4. IsFiniteSet(Arrived')
  BY <1>1 DEF PlacesInv, Arrived
<1> QED BY <1>2, <1>3, <1>4 DEF PlacesInv

\* The steps of schedule that only move the call on.
LEMMA CallPlaces ==
    ASSUME PlacesInv, BeginStep \/ StartPrefill \/ StartDecode \/ EndStep
    PROVE  PlacesInv'
<1>1. /\ UNCHANGED <<queueVars, status, seq_id, slot, prompt_ids, evictions, freeSlots>>
      /\ output_ids' \in [Requests -> Seq(Token)]
  BY DEF BeginStep, StartPrefill, StartDecode, EndStep, seqVars, cacheVars, PlacesInv, TypeOK
<1>2. step \in StepSet /\ StepShape /\ running \in Seq(Requests)
  BY DEF PlacesInv, TypeOK, StepSet
<1>3. Returned \in StepSet /\ Returned.pc = "idle" /\ Returned.batch = <<>> /\ ~Returned.prefill
  BY EmptySeq DEF Returned, StepSet
<1>4. CASE BeginStep
  <2>1. step.pc = "idle" /\ step' = [Returned EXCEPT !.pc = "schedule"] /\ step.batch = <<>>
    BY <1>2, <1>4 DEF BeginStep, StepShape
  <2>2. /\ step' \in StepSet /\ step'.pc = "schedule" /\ step'.batch = <<>> /\ ~step'.prefill
    BY <1>3, <2>1 DEF StepSet
  <2>3. Prefilling' = Prefilling
    BY <2>1, <2>2 DEF Prefilling
  <2>4. StepShape'
    BY <2>2 DEF StepShape
  <2> QED BY <1>1, <2>1, <2>2, <2>3, <2>4, QuietPlaces
<1>5. CASE StartPrefill
  <2>1. step.pc = "schedule" /\ step' = [step EXCEPT !.pc = "forward", !.prefill = TRUE]
    BY <1>5 DEF StartPrefill
  <2>2. /\ step' \in StepSet /\ step'.pc = "forward" /\ step'.batch = step.batch /\ step'.prefill
    BY <1>2, <2>1 DEF StepSet
  <2>3. Prefilling' = Prefilling
    BY <2>1, <2>2 DEF Prefilling
  <2>4. StepShape'
    BY <2>2 DEF StepShape
  <2> QED BY <1>1, <2>1, <2>2, <2>3, <2>4, QuietPlaces
<1>6. CASE StartDecode
  <2>1. /\ step.pc = "schedule" /\ step.batch = <<>> /\ ~step.prefill
        /\ step' = IF running = <<>> THEN Returned
                   ELSE [step EXCEPT !.pc = "forward", !.batch = running]
    BY <1>2, <1>6 DEF StartDecode, StepShape
  <2>2. CASE running = <<>>
    <3>1. step' = Returned
      BY <2>1, <2>2
    <3>2. Prefilling' = Prefilling
      BY <1>3, <2>1, <3>1 DEF Prefilling
    <3>3. StepShape'
      BY <1>3, <3>1 DEF StepShape
    <3> QED BY <1>1, <1>3, <2>1, <3>1, <3>2, <3>3, QuietPlaces
  <2>3. CASE running # <<>>
    <3>1. /\ step' \in StepSet /\ step'.pc = "forward" /\ step'.batch = running
          /\ ~step'.prefill
      BY <1>2, <2>1, <2>3 DEF StepSet
    <3>2. Prefilling' = Prefilling
      BY <2>1, <3>1 DEF Prefilling
    <3>3. StepShape'
      BY <1>1, <3>1 DEF StepShape, queueVars
    <3> QED BY <1>1, <2>1, <3>1, <3>2, <3>3, QuietPlaces
  <2> QED BY <2>2, <2>3
<1>7. CASE EndStep
  <2>1. step.pc = "post" /\ step' = Returned
    BY <1>7 DEF EndStep
  <2>2. Prefilling' = Prefilling
    BY <1>3, <2>1 DEF Prefilling
  <2>3. StepShape'
    BY <1>3, <2>1 DEF StepShape
  <2> QED BY <1>1, <1>3, <2>1, <2>2, <2>3, QuietPlaces
<1> QED BY <1>4, <1>5, <1>6, <1>7

\* Growth, writes and stores of the cache allocate and free no slot.
LEMMA CacheKeepsSlots ==
    /\ \A s : Cache!Grow(s) => freeSlots' = freeSlots
    /\ \A s, n : Cache!WritePrefill(s, n) => freeSlots' = freeSlots
    /\ \A s, t : Cache!WriteDecode(s, t) => freeSlots' = freeSlots
    /\ \A s : Cache!StoreBegin(s) => freeSlots' = freeSlots
    /\ Cache!StoreBump \/ Cache!StoreEvict \/ Cache!StoreAdd => freeSlots' = freeSlots
<1>1. \A s : Cache!Grow(s) => freeSlots' = freeSlots
  BY DEF Cache!Grow
<1>2. \A s, n : Cache!WritePrefill(s, n) => freeSlots' = freeSlots
  BY DEF Cache!WritePrefill
<1>3. \A s, t : Cache!WriteDecode(s, t) => freeSlots' = freeSlots
  BY DEF Cache!WriteDecode
<1>4. \A s : Cache!StoreBegin(s) => freeSlots' = freeSlots
  BY DEF Cache!StoreBegin
<1>5. Cache!StoreBump \/ Cache!StoreEvict \/ Cache!StoreAdd => freeSlots' = freeSlots
  BY DEF Cache!StoreBump, Cache!StoreEvict, Cache!StoreAdd
<1> QED BY <1>1, <1>2, <1>3, <1>4, <1>5

\* The forward pass and the stores move no request.
LEMMA ForwardPlaces ==
    ASSUME PlacesInv,
           GrowTable \/ OutOfBlocks \/ PastTable \/ WriteKV \/ StoreNext \/ StoreLoop
    PROVE  PlacesInv'
<1>1. freeSlots' = freeSlots
  <2>1. CASE GrowTable
    BY <2>1, CacheKeepsSlots DEF GrowTable
  <2>2. CASE OutOfBlocks \/ PastTable
    BY <2>2 DEF OutOfBlocks, PastTable, cacheVars
  <2>3. CASE WriteKV
    BY <2>3, CacheKeepsSlots DEF WriteKV
  <2>4. CASE StoreNext
    BY <2>4, CacheKeepsSlots DEF StoreNext, cacheVars
  <2>5. CASE StoreLoop
    BY <2>5, CacheKeepsSlots DEF StoreLoop
  <2> QED BY <2>1, <2>2, <2>3, <2>4, <2>5
<1>2. UNCHANGED <<queueVars, status, seq_id, slot, prompt_ids, output_ids, evictions>>
  BY DEF GrowTable, OutOfBlocks, PastTable, WriteKV, StoreNext, StoreLoop, seqVars
<1>3. step \in StepSet /\ StepShape /\ output_ids \in [Requests -> Seq(Token)]
  BY DEF PlacesInv, TypeOK, StepSet
<1>4. CASE step' = step
  <2>1. StepShape'
    BY <1>2, <1>3, <1>4 DEF StepShape, queueVars
  <2>2. Prefilling' = Prefilling
    BY <1>4 DEF Prefilling
  <2>3. step.pc # "dead"
    BY DEF GrowTable, OutOfBlocks, PastTable, WriteKV, StoreNext, StoreLoop
  <2> QED BY <1>1, <1>2, <1>3, <1>4, <2>1, <2>2, <2>3, QuietPlaces
<1>5. CASE step' = Raised
  <2>1. step' \in StepSet /\ step'.pc = "dead" /\ step'.batch = <<>>
    <3>1. Returned \in StepSet /\ Returned.batch = <<>>
      BY EmptySeq DEF Returned, StepSet
    <3> QED BY <1>5, <3>1 DEF Raised, StepSet
  <2>2. StepShape'
    BY <2>1 DEF StepShape
  <2>3. step.pc # "dead"
    BY DEF GrowTable, OutOfBlocks, PastTable, WriteKV, StoreNext, StoreLoop
  <2> QED BY <1>1, <1>2, <1>3, <2>1, <2>2, <2>3, QuietPlaces
<1>6. CASE step' = [step EXCEPT !.cursor = @ + 1]
  <2>1. step.cursor + 1 \in Nat \ {0}
    BY <1>3 DEF StepSet
  <2>2. /\ step' \in StepSet /\ step'.pc = step.pc /\ step'.batch = step.batch
        /\ step'.prefill = step.prefill
    BY <1>3, <1>6, <2>1 DEF StepSet
  <2>3. StepShape'
    BY <1>2, <1>3, <2>2 DEF StepShape, queueVars
  <2>4. Prefilling' = Prefilling
    BY <2>2 DEF Prefilling
  <2>5. step.pc # "dead"
    BY DEF GrowTable, OutOfBlocks, PastTable, WriteKV, StoreNext, StoreLoop
  <2> QED BY <1>1, <1>2, <1>3, <2>2, <2>3, <2>4, <2>5, QuietPlaces
<1>7. step' = step \/ step' = Raised \/ step' = [step EXCEPT !.cursor = @ + 1]
  BY DEF GrowTable, OutOfBlocks, PastTable, WriteKV, StoreNext, StoreLoop
<1> QED BY <1>4, <1>5, <1>6, <1>7

\* Sampling gives members a token and moves nobody.
LEMMA EmitPlaces ==
    ASSUME PlacesInv, Emit
    PROVE  PlacesInv'
<1>1. /\ UNCHANGED <<queueVars, status, seq_id, slot, prompt_ids, evictions, freeSlots>>
      /\ step.pc = "forward"
      /\ step' = [step EXCEPT !.pc = IF step.prefill THEN "store" ELSE "post", !.cursor = 1]
  BY DEF Emit, cacheVars
<1>2. step \in StepSet /\ StepShape /\ output_ids \in [Requests -> Seq(Token)]
  BY DEF PlacesInv, TypeOK, StepSet
<1>3. /\ step' \in StepSet /\ step'.batch = step.batch /\ step'.prefill = step.prefill
      /\ step'.pc = IF step.prefill THEN "store" ELSE "post"
  <2>1. PICK pc \in {"store", "post"} :
            /\ pc = IF step.prefill THEN "store" ELSE "post"
            /\ step' = [step EXCEPT !.pc = pc, !.cursor = 1]
    BY <1>1
  <2>2. /\ step' \in StepSet /\ step'.batch = step.batch /\ step'.prefill = step.prefill
        /\ step'.pc = pc
    <3> DEFINE moved == [step EXCEPT !.pc = pc]
    <3>1. /\ moved \in StepSet /\ moved.pc = pc /\ moved.batch = step.batch
          /\ moved.prefill = step.prefill
      BY <1>2, <2>1 DEF StepSet
    <3>2. step' = [moved EXCEPT !.cursor = 1]
      BY <2>1
    <3> HIDE DEF moved
    <3> QED BY <3>1, <3>2 DEF StepSet
  <2> QED BY <2>1, <2>2
<1>4. output_ids' \in [Requests -> Seq(Token)]
  <2>1. PICK tok \in [Range(step.batch) -> Token] :
            output_ids' = [r \in Requests |->
                              IF r \in Range(step.batch) THEN Append(output_ids[r], tok[r])
                                                         ELSE output_ids[r]]
    BY DEF Emit
  <2>2. ASSUME NEW r \in Requests
        PROVE  (IF r \in Range(step.batch) THEN Append(output_ids[r], tok[r])
                                           ELSE output_ids[r]) \in Seq(Token)
    <3>1. output_ids[r] \in Seq(Token)
      BY <1>2
    <3>2. CASE r \in Range(step.batch)
      <4>1. tok[r] \in Token
        BY <3>2
      <4> QED BY <3>1, <3>2, <4>1
    <3> QED BY <3>1, <3>2
  <2> QED BY <2>1, <2>2
<1>5. StepShape'
  BY <1>3 DEF StepShape
<1>6. Prefilling' = Prefilling
  BY <1>1, <1>2, <1>3 DEF Prefilling, StepSet
<1> QED BY <1>1, <1>3, <1>4, <1>5, <1>6, QuietPlaces

\* A sequence that leaves the running list gives its slot back, and no other.
LEMMA DeparturePlaces ==
    ASSUME PlacesInv, step.pc \in {"schedule", "post"}, Prefilling = <<>>, Prefilling' = <<>>,
           NEW i \in DOMAIN running, running' = Without(running, i),
           Cache!Free(slot[running[i]]),
           \A q \in Requests \ {running[i]} : slot'[q] = slot[q]
    PROVE  /\ running' \in Seq(Requests) /\ NoDuplicates(running')
           /\ running[i] \in Requests
           /\ ActiveSet = Range(running)
           /\ Range(running') = Range(running) \ {running[i]}
           /\ ActiveSet' = ActiveSet \ {running[i]}
           /\ status[running[i]] = "running" /\ running[i] \notin Range(waiting)
           /\ SlotOfEach'
<1> DEFINE r == running[i]
<1>1. /\ running \in Seq(Requests) /\ NoDuplicates(running)
      /\ r \in Requests /\ r \in Range(running) /\ ActiveSet \subseteq Requests
  BY ListTypes, RangeOfList DEF PlacesInv, Places
<1>2. /\ running' \in Seq(Requests) /\ NoDuplicates(running')
      /\ Range(running') = Range(running) \ {r}
  BY <1>1, WithoutFacts, WithoutRange
<1>3. ActiveSet = Range(running) /\ ActiveSet' = ActiveSet \ {r}
  <2>1. Range(<<>>) = {}
    BY DEF Range
  <2> QED BY <1>2, <2>1 DEF ActiveSet
<1>4. status[r] = "running" /\ r \notin Range(waiting)
  BY <1>1, <1>3 DEF PlacesInv, Places
<1>5. freeSlots' = freeSlots \cup {slot[r]}
  BY DEF Cache!Free
<1>6. SlotOfEach'
  <2>1. /\ freeSlots \subseteq Slots
        /\ Slots \ freeSlots = {slot[q] : q \in ActiveSet}
        /\ \A p, q \in ActiveSet : slot[p] = slot[q] => p = q
    BY DEF PlacesInv, SlotOfEach
  <2>2. \A q \in ActiveSet' : slot'[q] = slot[q] /\ slot[q] # slot[r]
    BY <1>1, <1>3, <2>1
  <2>3. slot[r] \in Slots
    BY <1>1, <1>3, <2>1
  <2>4. Slots \ freeSlots' = {slot'[q] : q \in ActiveSet'}
    BY <1>3, <1>5, <2>1, <2>2
  <2>5. \A p, q \in ActiveSet' : slot'[p] = slot'[q] => p = q
    BY <1>3, <2>1, <2>2
  <2> QED BY <1>5, <2>1, <2>3, <2>4, <2>5 DEF SlotOfEach
<1> QED BY <1>1, <1>2, <1>3, <1>4, <1>6

\* postprocess lets a finished sequence go.
LEMMA FreeFinishedPlaces ==
    ASSUME PlacesInv, FreeFinished
    PROVE  PlacesInv'
<1>1. PICK i \in DOMAIN running :
          /\ Finished(running[i])
          /\ Cache!Free(slot[running[i]])
          /\ status' = [status EXCEPT ![running[i]] = "finished"]
          /\ running' = Without(running, i)
  BY DEF FreeFinished
<1>2. /\ step.pc = "post"
      /\ UNCHANGED <<waiting, step, seq_id, slot, prompt_ids, output_ids, evictions>>
  BY DEF FreeFinished
<1>3. TypeOK /\ IsFiniteSet(Arrived) /\ StepShape /\ Places /\ SlotOfEach
  BY DEF PlacesInv
<1>4. Prefilling = <<>> /\ Prefilling' = <<>>
  BY <1>2 DEF Prefilling
<1>5. /\ running' \in Seq(Requests) /\ NoDuplicates(running')
      /\ running[i] \in Requests
      /\ ActiveSet' = ActiveSet \ {running[i]}
      /\ status[running[i]] = "running" /\ running[i] \notin Range(waiting)
      /\ SlotOfEach'
  BY <1>1, <1>2, <1>4, DeparturePlaces
<1>6. status \in [Requests -> {"new", "waiting", "running", "finished"}]
  BY <1>3 DEF TypeOK
<1>7. TypeOK'
  BY <1>1, <1>2, <1>3, <1>5 DEF TypeOK
<1>8. StepShape'
  BY <1>2, <1>3 DEF StepShape
<1>9. Places'
  <2>1. \A q \in Requests :
            /\ status'[q] = "waiting" <=> q \in Range(waiting')
            /\ status'[q] = "running" <=> q \in ActiveSet'
    BY <1>1, <1>2, <1>3, <1>5, <1>6 DEF Places
  <2> QED BY <1>2, <1>3, <1>4, <1>5, <2>1, RangeOfList DEF Places, Range, NoDuplicates
<1>10. Arrived' = Arrived
  BY <1>1, <1>5, <1>6 DEF Arrived
<1> QED BY <1>3, <1>5, <1>7, <1>8, <1>9, <1>10 DEF PlacesInv

\* A preempted sequence goes to the end of the queue, or is done.
LEMMA PreemptOnePlaces ==
    ASSUME PlacesInv, PreemptOne
    PROVE  PlacesInv'
<1> DEFINE i == VictimAt
           r == running[i]
<1>1. TypeOK /\ IsFiniteSet(Arrived) /\ StepShape /\ Places /\ SlotOfEach
  BY DEF PlacesInv
<1>2. /\ step.pc = "schedule" /\ step.batch = <<>> /\ running # <<>>
      /\ running' = Without(running, i) /\ Cache!Free(slot[r])
      /\ step' = [step EXCEPT !.preempted = @ + 1] /\ UNCHANGED seq_id
      /\ IF Finished(r)
         THEN /\ status' = [status EXCEPT ![r] = "finished"]
              /\ UNCHANGED <<waiting, slot, prompt_ids, output_ids, evictions>>
         ELSE Requeue(r)
  BY DEF PreemptOne, BlockPressure
<1>3. i \in DOMAIN running
  BY <1>1, <1>2, VictimIsRunning
<1> HIDE DEF i
<1>4. /\ step' \in StepSet /\ step'.pc = "schedule" /\ step'.batch = <<>>
      /\ step'.prefill = step.prefill
  <2>1. step \in StepSet
    BY <1>1 DEF TypeOK, StepSet
  <2>2. step.preempted + 1 \in Nat
    BY <2>1 DEF StepSet
  <2> QED BY <1>2, <2>1, <2>2 DEF StepSet
<1>5. Prefilling = <<>> /\ Prefilling' = <<>>
  BY <1>2, <1>4 DEF Prefilling
<1>6. \A q \in Requests \ {r} : slot'[q] = slot[q]
  BY <1>1, <1>2 DEF Requeue, TypeOK
<1>7. /\ running' \in Seq(Requests) /\ NoDuplicates(running')
      /\ r \in Requests
      /\ ActiveSet' = ActiveSet \ {r}
      /\ status[r] = "running" /\ r \notin Range(waiting)
      /\ SlotOfEach'
  BY <1>2, <1>3, <1>5, <1>6, DeparturePlaces
<1> HIDE DEF r
<1>8. /\ status \in [Requests -> {"new", "waiting", "running", "finished"}]
      /\ waiting \in Seq(Requests) /\ NoDuplicates(waiting)
  BY <1>1, <1>2 DEF TypeOK, Places
<1>9. ASSUME Finished(r)
      PROVE  /\ TypeOK' /\ NoDuplicates(waiting') /\ Arrived' = Arrived
             /\ \A q \in Requests :
                   /\ status'[q] = "waiting" <=> q \in Range(waiting')
                   /\ status'[q] = "running" <=> q \in ActiveSet'
  <2>1. /\ status' = [status EXCEPT ![r] = "finished"]
        /\ UNCHANGED <<waiting, slot, prompt_ids, output_ids, evictions>>
    BY <1>2, <1>9
  <2>2. TypeOK'
    BY <1>1, <1>2, <1>4, <1>7, <2>1 DEF TypeOK, StepSet
  <2>3. \A q \in Requests :
            /\ status'[q] = "waiting" <=> q \in Range(waiting')
            /\ status'[q] = "running" <=> q \in ActiveSet'
    BY <1>1, <1>2, <1>7, <1>8, <2>1 DEF Places
  <2>4. NoDuplicates(waiting') /\ Arrived' = Arrived
    BY <1>7, <1>8, <2>1 DEF Arrived
  <2> QED BY <2>2, <2>3, <2>4
<1>10. ASSUME ~Finished(r)
      PROVE  /\ TypeOK' /\ NoDuplicates(waiting') /\ Arrived' = Arrived
             /\ \A q \in Requests :
                   /\ status'[q] = "waiting" <=> q \in Range(waiting')
                   /\ status'[q] = "running" <=> q \in ActiveSet'
  <2>1. /\ status' = [status EXCEPT ![r] = "waiting"]
        /\ prompt_ids' = [prompt_ids EXCEPT ![r] = @ \o output_ids[r]]
        /\ slot' = [slot EXCEPT ![r] = NoSlot]
        /\ waiting' = Append(waiting, r)
        /\ evictions' = [evictions EXCEPT ![r] = @ + 1]
        /\ UNCHANGED output_ids
    BY <1>2, <1>10 DEF Requeue
  <2>2. /\ waiting' \in Seq(Requests) /\ Range(waiting') = Range(waiting) \cup {r}
        /\ NoDuplicates(waiting')
    BY <1>7, <1>8, <2>1, AppendFacts
  <2>3. TypeOK'
    <3>1. prompt_ids' \in [Requests -> Seq(Token)]
      <4>1. prompt_ids[r] \in Seq(Token) /\ output_ids[r] \in Seq(Token)
        BY <1>1, <1>7 DEF TypeOK
      <4>2. prompt_ids[r] \o output_ids[r] \in Seq(Token)
        BY <4>1
      <4> QED BY <1>1, <2>1, <4>2 DEF TypeOK
    <3>2. evictions' \in [Requests -> Nat]
      BY <1>1, <1>7, <2>1 DEF TypeOK
    <3>3. slot' \in [Requests -> Slots \cup {NoSlot}]
      BY <1>1, <2>1 DEF TypeOK
    <3>4. status' \in [Requests -> {"new", "waiting", "running", "finished"}]
      BY <1>8, <2>1
    <3> QED BY <1>1, <1>2, <1>4, <1>7, <2>1, <2>2, <3>1, <3>2, <3>3, <3>4 DEF TypeOK, StepSet
  <2>4. \A q \in Requests :
            /\ status'[q] = "waiting" <=> q \in Range(waiting')
            /\ status'[q] = "running" <=> q \in ActiveSet'
    BY <1>1, <1>2, <1>7, <1>8, <2>1, <2>2 DEF Places
  <2>5. Arrived' = Arrived
    BY <1>7, <1>8, <2>1 DEF Arrived
  <2> QED BY <2>2, <2>3, <2>4, <2>5
<1>11. StepShape'
  BY <1>1, <1>2, <1>4 DEF StepShape
<1>12. Places'
  <2>1. NoDuplicates(<<>>) /\ Range(<<>>) = {}
    BY DEF NoDuplicates, Range
  <2> QED BY <1>5, <1>7, <1>9, <1>10, <2>1 DEF Places
<1> QED BY <1>1, <1>7, <1>9, <1>10, <1>11, <1>12 DEF PlacesInv

\* postprocess takes over what was prefilled.
LEMMA StoreDonePlaces ==
    ASSUME PlacesInv, StoreDone
    PROVE  PlacesInv'
<1>1. /\ step.pc = "store" /\ running' = running \o step.batch
      /\ step' = [step EXCEPT !.pc = "post"]
      /\ UNCHANGED <<cacheVars, waiting, seqVars>>
  BY DEF StoreDone
<1>2. TypeOK /\ IsFiniteSet(Arrived) /\ StepShape /\ Places /\ SlotOfEach
  BY DEF PlacesInv
<1>3. Prefilling = step.batch
  BY <1>1, <1>2 DEF StepShape, Prefilling
<1>4. /\ step' \in StepSet /\ step'.pc = "post"
  BY <1>1, <1>2 DEF TypeOK, StepSet
<1>5. Prefilling' = <<>>
  BY <1>4 DEF Prefilling
<1>6. /\ running' \in Seq(Requests) /\ NoDuplicates(running')
      /\ Range(running') = Range(running) \cup Range(Prefilling)
  <2>1. /\ running \in Seq(Requests) /\ step.batch \in Seq(Requests)
        /\ NoDuplicates(running) /\ NoDuplicates(step.batch)
        /\ Range(running) \cap Range(step.batch) = {}
    BY <1>1, <1>2, <1>3, ListTypes DEF Places
  <2> QED BY <1>1, <1>3, <2>1, ConcatFacts
<1>7. Range(<<>>) = {} /\ NoDuplicates(<<>>)
  BY DEF Range, NoDuplicates
<1>8. ActiveSet' = ActiveSet
  BY <1>5, <1>6, <1>7 DEF ActiveSet
<1>9. UNCHANGED <<freeSlots, waiting, status, slot>>
  BY <1>1 DEF cacheVars, seqVars
<1>10. TypeOK'
  BY <1>1, <1>2, <1>4, <1>6 DEF TypeOK, StepSet, seqVars
<1>11. StepShape'
  BY <1>4 DEF StepShape
<1>12. Places'
  BY <1>1, <1>2, <1>5, <1>6, <1>7, <1>8, <1>9 DEF Places
<1>13. SlotOfEach'
  BY <1>1, <1>2, <1>8, <1>9 DEF SlotOfEach
<1>14. Arrived' = Arrived
  BY <1>9 DEF Arrived
<1> QED BY <1>2, <1>10, <1>11, <1>12, <1>13, <1>14 DEF PlacesInv

\* Every step of the engine keeps every request and every slot in one place.
LEMMA NextPlaces == PlacesInv /\ [Next]_vars => PlacesInv'
<1> SUFFICES ASSUME PlacesInv, [Next]_vars PROVE PlacesInv'
  OBVIOUS
<1>1. CASE UNCHANGED vars
  <2>1. UNCHANGED <<waiting, running, step, status, seq_id, slot, prompt_ids, output_ids,
                    evictions, freeSlots>>
    BY <1>1 DEF vars, cacheVars, queueVars, seqVars
  <2>2. TypeOK' /\ StepShape' /\ Arrived' = Arrived
    BY <2>1 DEF PlacesInv, TypeOK, StepShape, Arrived
  <2>3. Prefilling' = Prefilling
    BY <2>1 DEF Prefilling
  <2>4. Places' /\ SlotOfEach'
    BY <2>1, <2>3, PlacesFrame
  <2> QED BY <2>2, <2>4 DEF PlacesInv
<1>2. CASE \E r \in Requests : AddRequest(r)
  BY <1>2, AddRequestPlaces
<1>3. CASE AdmitHead
  BY <1>3, AdmitHeadPlaces
<1>4. CASE BeginStep \/ StartPrefill \/ StartDecode \/ EndStep
  BY <1>4, CallPlaces
<1>5. CASE PreemptOne
  BY <1>5, PreemptOnePlaces
<1>6. CASE GrowTable \/ OutOfBlocks \/ PastTable \/ WriteKV \/ StoreNext \/ StoreLoop
  BY <1>6, ForwardPlaces
<1>7. CASE Emit
  BY <1>7, EmitPlaces
<1>8. CASE StoreDone
  BY <1>8, StoreDonePlaces
<1>9. CASE FreeFinished
  BY <1>9, FreeFinishedPlaces
<1> QED BY <1>1, <1>2, <1>3, <1>4, <1>5, <1>6, <1>7, <1>8, <1>9 DEF Next, StepCall

\* Types, requests and slots, in every reachable state.
LEMMA PlacesAlways == Spec => []PlacesInv
<1>1. Init => PlacesInv
  BY InitPlaces
<1>2. PlacesInv /\ [Next]_vars => PlacesInv'
  BY NextPlaces
<1> QED BY <1>1, <1>2, PTL DEF Spec

\* The queues, the call under way and every sequence keep their types,
\* however long requests arrive, run and are preempted.
THEOREM EngineTypesHold == Spec => []TypeOK
<1>1. PlacesInv => TypeOK
  BY DEF PlacesInv
<1> QED BY <1>1, PlacesAlways, PTL

\* The active sequences of both lists.
LEMMA ActiveRange ==
    ASSUME TypeOK
    PROVE  /\ Active \in Seq(Requests) /\ Range(Active) = ActiveSet
           /\ NoDuplicates(running) /\ NoDuplicates(Prefilling)
              /\ Range(running) \cap Range(Prefilling) = {} => NoDuplicates(Active)
<1>1. running \in Seq(Requests) /\ Prefilling \in Seq(Requests)
  BY ListTypes
<1> QED BY <1>1, ConcatFacts DEF Active, ActiveSet

\* No slot leaks, is freed twice or is shared by two sequences, at any point
\* of any call of step(): SlotsOwned for every instance.
THEOREM SlotsAlwaysOwned == Spec => []SlotsOwned
<1>1. PlacesInv => SlotsOwned
  BY ActiveRange DEF PlacesInv, SlotOfEach, SlotsOwned, Cache!Allocated
<1> QED BY <1>1, PlacesAlways, PTL

\* No submitted request is lost, queued twice, or queued and active at once:
\* EachInOnePlace for every instance.
THEOREM AlwaysInOnePlace == Spec => []EachInOnePlace
<1>1. PlacesInv => EachInOnePlace
  <2> SUFFICES ASSUME PlacesInv, step.pc # "dead"
               PROVE  /\ NoDuplicates(waiting \o Active)
                      /\ \A r \in Requests :
                            /\ status[r] = "waiting" <=> r \in Range(waiting)
                            /\ status[r] = "running" <=> r \in Range(Active)
    BY DEF EachInOnePlace
  <2>1. TypeOK /\ Places
    BY DEF PlacesInv
  <2>2. /\ Active \in Seq(Requests) /\ Range(Active) = ActiveSet /\ NoDuplicates(Active)
        /\ waiting \in Seq(Requests) /\ NoDuplicates(waiting)
    BY <2>1, ActiveRange, ListTypes DEF Places
  <2>3. \A r \in Requests :
            /\ status[r] = "waiting" <=> r \in Range(waiting)
            /\ status[r] = "running" <=> r \in Range(Active)
    BY <2>1, <2>2 DEF Places
  <2>4. Range(waiting) \cap Range(Active) = {}
    BY <2>2, <2>3, RangeOfList
  <2> QED BY <2>2, <2>3, <2>4, ConcatFacts
<1> QED BY <1>1, PlacesAlways, PTL

-----------------------------------------------------------------------------
(* When a generation ends *)

\* At the start nothing is generated and nothing has finished.
LEMMA InitEnds == Init => EndIsNoticed
<1> SUFFICES ASSUME Init, NEW r \in Requests
             PROVE  /\ output_ids[r] = <<>> /\ status[r] = "new" /\ MaxTokens[r] \in Nat \ {0}
    BY EmptySeq DEF EndIsNoticed, Finished, Init
<1> QED BY EngineConstants DEF Init

\* Whether a sequence has reached its end is decided by its output.
LEMMA FinishedFrame ==
    ASSUME output_ids' = output_ids, NEW r
    PROVE  Finished(r)' <=> Finished(r)
BY DEF Finished

\* Sampling gives tokens to running sequences only, none of which had ended.
LEMMA EmitEnds ==
    ASSUME PlacesInv, EndIsNoticed, Emit
    PROVE  EndIsNoticed'
<1>1. PICK tok \in [Range(step.batch) -> Token] :
          output_ids' = [r \in Requests |->
                            IF r \in Range(step.batch) THEN Append(output_ids[r], tok[r])
                                                       ELSE output_ids[r]]
  BY DEF Emit
<1>2. /\ step.pc = "forward" /\ UNCHANGED status /\ step \in StepSet
      /\ step' = [step EXCEPT !.pc = IF step.prefill THEN "store" ELSE "post", !.cursor = 1]
  BY DEF Emit, PlacesInv, TypeOK, StepSet
<1>3. step'.pc \notin {"idle", "schedule", "forward"}
  BY <1>2 DEF StepSet
<1> SUFFICES ASSUME NEW r \in Requests
             PROVE  /\ Len(output_ids'[r]) <= MaxTokens[r]
                    /\ \A i \in 1..Len(output_ids'[r]) - 1 :
                          output_ids'[r][i] = Eos => r \in IgnoreEos
                    /\ status'[r] = "finished" => Finished(r)'
                    /\ status'[r] \in {"new", "waiting"} => ~Finished(r)'
  BY <1>3 DEF EndIsNoticed
<1>4. /\ Len(output_ids[r]) <= MaxTokens[r]
      /\ \A i \in 1..Len(output_ids[r]) - 1 : output_ids[r][i] = Eos => r \in IgnoreEos
      /\ status[r] = "finished" => Finished(r)
      /\ status[r] \in {"new", "waiting"} => ~Finished(r)
      /\ status[r] = "running" => ~Finished(r)
  BY <1>2 DEF EndIsNoticed
<1>5. CASE r \notin Range(step.batch)
  <2>1. output_ids'[r] = output_ids[r]
    BY <1>1, <1>5
  <2> QED BY <1>2, <1>4, <2>1 DEF Finished
<1>6. CASE r \in Range(step.batch)
  <2>1. status[r] = "running"
    BY <1>2, <1>6 DEF PlacesInv, StepShape, Places, ActiveSet, Prefilling
  <2>2. ~Finished(r)
    BY <1>4, <2>1
  <2>3. /\ output_ids[r] \in Seq(Token) /\ tok[r] \in Token /\ MaxTokens[r] \in Nat
    BY <1>6, EngineConstants DEF PlacesInv, TypeOK
  <2>4. Len(output_ids[r]) < MaxTokens[r]
    BY <2>2, <2>3 DEF Finished
  <2>5. output_ids'[r] = Append(output_ids[r], tok[r])
    BY <1>1, <1>6
  <2>6. /\ Len(output_ids'[r]) = Len(output_ids[r]) + 1
        /\ \A i \in 1..Len(output_ids[r]) : output_ids'[r][i] = output_ids[r][i]
    BY <2>3, <2>5
  <2>7. ASSUME NEW i \in 1..Len(output_ids'[r]) - 1, output_ids'[r][i] = Eos
        PROVE  r \in IgnoreEos
    <3>1. Len(output_ids[r]) \in Nat /\ i \in 1..Len(output_ids[r]) /\ output_ids[r][i] = Eos
      BY <2>3, <2>6, <2>7
    <3>2. CASE i = Len(output_ids[r])
      <4>1. output_ids[r] # <<>>
        BY <3>1, EmptySeq
      <4> QED BY <2>2, <3>1, <3>2, <4>1 DEF Finished
    <3>3. CASE i # Len(output_ids[r])
      BY <1>4, <3>1, <3>3
    <3> QED BY <3>2, <3>3
  <2>8. Len(output_ids'[r]) <= MaxTokens[r]
    BY <2>3, <2>4, <2>6
  <2> QED BY <1>2, <2>1, <2>7, <2>8
<1> QED BY <1>5, <1>6

\* Steps that give no token: a status moves on as the output says.
LEMMA SameOutputEnds ==
    ASSUME EndIsNoticed, output_ids' = output_ids,
           \A r \in Requests :
               /\ status'[r] = "finished" => status[r] = "finished" \/ Finished(r)
               /\ status'[r] \in {"new", "waiting"} =>
                     status[r] \in {"new", "waiting"} \/ ~Finished(r)
               /\ status'[r] = "running" /\ step'.pc \in {"idle", "schedule", "forward"} =>
                     ~Finished(r)
    PROVE  EndIsNoticed'
<1> SUFFICES ASSUME NEW r \in Requests
             PROVE  /\ Len(output_ids'[r]) <= MaxTokens[r]
                    /\ \A i \in 1..Len(output_ids'[r]) - 1 :
                          output_ids'[r][i] = Eos => r \in IgnoreEos
                    /\ status'[r] = "finished" => Finished(r)'
                    /\ status'[r] \in {"new", "waiting"} => ~Finished(r)'
                    /\ status'[r] = "running" /\ step'.pc \in {"idle", "schedule", "forward"}
                          => ~Finished(r)'
  BY DEF EndIsNoticed
<1>1. Finished(r)' <=> Finished(r)
  BY FinishedFrame
<1>2. /\ Len(output_ids[r]) <= MaxTokens[r]
      /\ \A i \in 1..Len(output_ids[r]) - 1 : output_ids[r][i] = Eos => r \in IgnoreEos
      /\ status[r] = "finished" => Finished(r)
      /\ status[r] \in {"new", "waiting"} => ~Finished(r)
  BY DEF EndIsNoticed
<1> QED BY <1>1, <1>2

\* Every step notices the end of a generation.
LEMMA NextEnds == PlacesInv /\ EndIsNoticed /\ [Next]_vars => EndIsNoticed'
<1> SUFFICES ASSUME PlacesInv, EndIsNoticed, [Next]_vars PROVE EndIsNoticed'
  OBVIOUS
<1>1. CASE Emit
  BY <1>1, EmitEnds
<1>2. status \in [Requests -> {"new", "waiting", "running", "finished"}] /\ step \in StepSet
  BY DEF PlacesInv, TypeOK, StepSet
<1>3. \A r \in Requests :
          /\ status[r] \in {"new", "waiting"} => ~Finished(r)
          /\ status[r] = "running" /\ step.pc \in {"idle", "schedule", "forward"} => ~Finished(r)
  BY DEF EndIsNoticed
<1>4. CASE \E r \in Requests : AddRequest(r)
  <2>1. PICK q \in Requests : AddRequest(q)
    BY <1>4
  <2>2. /\ output_ids' = output_ids /\ step' = step /\ step.pc = "idle" /\ status[q] = "new"
        /\ status' = [status EXCEPT ![q] = "waiting"]
    BY <2>1 DEF AddRequest
  <2> QED BY <1>2, <1>3, <2>2, SameOutputEnds
<1>5. CASE AdmitHead
  <2> DEFINE q == Head(waiting)
  <2>1. /\ output_ids' = output_ids /\ step.pc = "schedule" /\ waiting # <<>>
        /\ status' = [status EXCEPT ![q] = "running"]
    BY <1>5 DEF AdmitHead, CanAdmit
  <2>2. q \in Requests /\ q \in Range(waiting)
    <3>1. waiting \in Seq(Requests)
      BY ListTypes DEF PlacesInv
    <3> QED BY <2>1, <3>1, HeadFacts
  <2>3. status[q] = "waiting"
    BY <2>1, <2>2 DEF PlacesInv, Places
  <2> HIDE DEF q
  <2> QED BY <1>2, <1>3, <2>1, <2>2, <2>3, SameOutputEnds
<1>6. CASE PreemptOne
  <2> DEFINE q == running[VictimAt]
  <2>1. /\ output_ids' = output_ids /\ step.pc = "schedule" /\ running # <<>>
        /\ status' = [status EXCEPT ![q] = IF Finished(q) THEN "finished" ELSE "waiting"]
    BY <1>6 DEF PreemptOne, BlockPressure, Requeue
  <2> HIDE DEF q
  <2> QED BY <1>2, <1>3, <2>1, SameOutputEnds
<1>7. CASE FreeFinished
  <2>1. PICK i \in DOMAIN running :
            /\ Finished(running[i])
            /\ status' = [status EXCEPT ![running[i]] = "finished"]
    BY <1>7 DEF FreeFinished
  <2>2. output_ids' = output_ids /\ step' = step /\ step.pc = "post"
    BY <1>7 DEF FreeFinished
  <2> QED BY <1>2, <1>3, <2>1, <2>2, SameOutputEnds
<1>8. CASE EndStep
  <2>1. /\ output_ids' = output_ids /\ status' = status /\ step.pc = "post"
        /\ \A r \in Range(running) : ~Finished(r)
    BY <1>8 DEF EndStep, seqVars
  <2>2. \A r \in Requests : status[r] = "running" => r \in Range(running)
    BY <2>1 DEF PlacesInv, Places, ActiveSet, Prefilling, Range
  <2> QED BY <1>3, <2>1, <2>2, SameOutputEnds
<1>9. CASE \/ BeginStep \/ StartPrefill \/ StartDecode \/ GrowTable \/ OutOfBlocks \/ PastTable
           \/ WriteKV \/ StoreNext \/ StoreLoop \/ StoreDone \/ UNCHANGED vars
  <2>1. output_ids' = output_ids /\ status' = status
    BY <1>9 DEF BeginStep, StartPrefill, StartDecode, GrowTable, OutOfBlocks, PastTable,
                WriteKV, StoreNext, StoreLoop, StoreDone, vars, seqVars
  <2>2. step'.pc \in {"idle", "schedule", "forward"} =>
            step.pc \in {"idle", "schedule", "forward"}
    <3>1. CASE BeginStep \/ StartPrefill \/ StartDecode
      BY <3>1 DEF BeginStep, StartPrefill, StartDecode
    <3>2. CASE GrowTable \/ StoreLoop \/ UNCHANGED vars
      BY <3>2 DEF GrowTable, StoreLoop, vars
    <3>3. CASE OutOfBlocks \/ PastTable
      BY <3>3 DEF OutOfBlocks, PastTable
    <3>4. CASE WriteKV \/ StoreNext
      <4>1. step' = [step EXCEPT !.cursor = @ + 1]
        BY <3>4 DEF WriteKV, StoreNext
      <4> QED BY <1>2, <4>1 DEF StepSet
    <3>5. CASE StoreDone
      <4>1. step' = [step EXCEPT !.pc = "post"]
        BY <3>5 DEF StoreDone
      <4> QED BY <1>2, <4>1 DEF StepSet
    <3> QED BY <1>9, <3>1, <3>2, <3>3, <3>4, <3>5
  <2> QED BY <1>2, <1>3, <2>1, <2>2, SameOutputEnds
<1> QED BY <1>1, <1>4, <1>5, <1>6, <1>7, <1>8, <1>9 DEF Next, StepCall

\* Nothing is generated past max_tokens or eos_id through any sequence of
\* batches and preemptions, and between calls exactly the requests that
\* reached one of them have finished: OutputEndsAtStop for every instance.
THEOREM OutputAlwaysEndsAtStop == Spec => []OutputEndsAtStop
<1>1. Init => PlacesInv /\ EndIsNoticed
  BY InitPlaces, InitEnds
<1>2. PlacesInv /\ EndIsNoticed /\ [Next]_vars => PlacesInv' /\ EndIsNoticed'
  BY NextPlaces, NextEnds
<1>3. PlacesInv /\ EndIsNoticed => OutputEndsAtStop
  <2> SUFFICES ASSUME PlacesInv, EndIsNoticed, NEW r \in Requests
               PROVE  /\ Len(output_ids[r]) <= MaxTokens[r]
                      /\ \A i \in 1..Len(output_ids[r]) - 1 :
                            output_ids[r][i] = Eos => r \in IgnoreEos
                      /\ step.pc = "idle" => (status[r] = "finished" <=> Finished(r))
    BY DEF OutputEndsAtStop
  <2>1. status[r] \in {"new", "waiting", "running", "finished"}
    BY DEF PlacesInv, TypeOK
  <2> QED BY <2>1 DEF EndIsNoticed
<1> QED BY <1>1, <1>2, <1>3, PTL DEF Spec

-----------------------------------------------------------------------------
(* What a preemption costs *)

\* At the start nobody was preempted.
LEMMA InitPaid == Init => EvictionsPaidInv
<1> SUFFICES ASSUME Init, NEW r \in Requests
             PROVE  /\ evictions[r] <= Len(output_ids[r])
                    /\ r \notin Range(running)
                    /\ step.pc # "store"
  BY DEF EvictionsPaidInv
<1>1. evictions[r] = 0 /\ output_ids[r] = <<>> /\ running = <<>> /\ step.pc = "idle"
  BY DEF Init, Returned
<1> QED BY <1>1, EmptySeq, RangeOfList DEF Range

\* Every member of a batch is paid for with the token sampled for it.
LEMMA EmitPaid ==
    ASSUME PlacesInv, EvictionsPaidInv, Emit
    PROVE  EvictionsPaidInv'
<1>1. PICK tok \in [Range(step.batch) -> Token] :
          output_ids' = [r \in Requests |->
                            IF r \in Range(step.batch) THEN Append(output_ids[r], tok[r])
                                                       ELSE output_ids[r]]
  BY DEF Emit
<1>2. /\ step.pc = "forward" /\ UNCHANGED <<running, evictions>> /\ step \in StepSet
      /\ step' = [step EXCEPT !.pc = IF step.prefill THEN "store" ELSE "post", !.cursor = 1]
  BY DEF Emit, queueVars, PlacesInv, TypeOK, StepSet
<1>3. step'.batch = step.batch
  BY <1>2 DEF StepSet
<1> SUFFICES ASSUME NEW r \in Requests
             PROVE  /\ evictions[r] <= Len(output_ids'[r])
                    /\ r \in Range(running) => evictions[r] < Len(output_ids'[r])
                    /\ r \in Range(step.batch) => evictions[r] < Len(output_ids'[r])
  BY <1>2, <1>3 DEF EvictionsPaidInv
<1>4. /\ evictions[r] <= Len(output_ids[r])
      /\ r \in Range(running) => evictions[r] < Len(output_ids[r])
  BY DEF EvictionsPaidInv
<1>5. output_ids[r] \in Seq(Token) /\ evictions[r] \in Nat
  BY DEF PlacesInv, TypeOK
<1>6. CASE r \in Range(step.batch)
  <2>1. output_ids'[r] = Append(output_ids[r], tok[r]) /\ tok[r] \in Token
    BY <1>1, <1>6
  <2>2. Len(output_ids'[r]) = Len(output_ids[r]) + 1
    BY <1>5, <2>1
  <2> QED BY <1>4, <1>5, <2>2
<1>7. CASE r \notin Range(step.batch)
  <2>1. output_ids'[r] = output_ids[r]
    BY <1>1, <1>7
  <2> QED BY <1>4, <1>7, <2>1
<1> QED BY <1>6, <1>7

\* A step that evicts nobody and lets nobody run who was not paid for.
LEMMA SamePaid ==
    ASSUME EvictionsPaidInv, UNCHANGED <<output_ids, evictions>>,
           \A r \in Range(running') :
               r \in Range(running) \/ (step.pc = "store" /\ r \in Range(step.batch)),
           step'.pc = "store" => step.pc = "store" /\ step'.batch = step.batch
    PROVE  EvictionsPaidInv'
<1>1. ASSUME NEW r \in Requests
      PROVE  /\ evictions'[r] <= Len(output_ids'[r])
             /\ r \in Range(running') => evictions'[r] < Len(output_ids'[r])
             /\ step'.pc = "store" /\ r \in Range(step'.batch) =>
                    evictions'[r] < Len(output_ids'[r])
  BY DEF EvictionsPaidInv
<1> QED BY <1>1 DEF EvictionsPaidInv

\* A victim was in the running list, so its token was paid before.
LEMMA PreemptOnePaid ==
    ASSUME PlacesInv, EvictionsPaidInv, PreemptOne
    PROVE  EvictionsPaidInv'
<1> DEFINE i == VictimAt
           q == running[i]
<1>1. /\ step.pc = "schedule" /\ running # <<>> /\ running' = Without(running, i)
      /\ step' = [step EXCEPT !.preempted = @ + 1] /\ output_ids' = output_ids
      /\ evictions' = evictions \/ evictions' = [evictions EXCEPT ![q] = @ + 1]
  BY DEF PreemptOne, BlockPressure, Requeue
<1>2. TypeOK /\ running \in Seq(Requests) /\ step \in StepSet /\ NoDuplicates(running)
  BY <1>1, ListTypes DEF PlacesInv, TypeOK, StepSet, Places
<1>3. i \in DOMAIN running
  BY <1>1, <1>2, VictimIsRunning
<1> HIDE DEF i
<1>4. q \in Range(running) /\ q \in Requests /\ Range(running') = Range(running) \ {q}
  BY <1>1, <1>2, <1>3, RangeOfList, WithoutRange
<1> HIDE DEF q
<1>5. step'.pc = "schedule"
  BY <1>1, <1>2 DEF StepSet
<1>6. ASSUME NEW r \in Requests
      PROVE  /\ evictions'[r] <= Len(output_ids[r])
             /\ r \in Range(running') => evictions'[r] < Len(output_ids[r])
  <2>1. /\ evictions[r] <= Len(output_ids[r])
        /\ r \in Range(running) => evictions[r] < Len(output_ids[r])
    BY DEF EvictionsPaidInv
  <2>2. evictions \in [Requests -> Nat] /\ output_ids[r] \in Seq(Token)
    BY <1>2 DEF TypeOK
  <2>3. Len(output_ids[r]) \in Nat
    BY <2>2
  <2>4. CASE r = q
    <3>1. evictions'[r] <= evictions[r] + 1 /\ evictions'[r] \in Nat
      BY <1>1, <2>2, <2>4
    <3> QED BY <1>4, <2>1, <2>2, <2>3, <2>4, <3>1
  <2>5. CASE r # q
    <3>1. evictions'[r] = evictions[r]
      BY <1>1, <2>2, <2>5
    <3> QED BY <1>4, <2>1, <2>5, <3>1
  <2> QED BY <2>4, <2>5
<1> QED BY <1>1, <1>5, <1>6 DEF EvictionsPaidInv

\* No step evicts a sequence that was not paid for.
LEMMA NextPaid == PlacesInv /\ EvictionsPaidInv /\ [Next]_vars => EvictionsPaidInv'
<1> SUFFICES ASSUME PlacesInv, EvictionsPaidInv, [Next]_vars PROVE EvictionsPaidInv'
  OBVIOUS
<1>1. step \in StepSet /\ running \in Seq(Requests) /\ step.batch \in Seq(Requests)
  BY ListTypes DEF PlacesInv, TypeOK, StepSet
<1>2. CASE Emit
  BY <1>2, EmitPaid
<1>3. CASE PreemptOne
  BY <1>3, PreemptOnePaid
<1>4. CASE FreeFinished
  <2>1. PICK i \in DOMAIN running : running' = Without(running, i)
    BY <1>4 DEF FreeFinished
  <2>2. UNCHANGED <<output_ids, evictions, step>>
    BY <1>4 DEF FreeFinished
  <2>3. Range(running') \subseteq Range(running)
    BY <1>1, <2>1, WithoutRange
  <2> QED BY <2>2, <2>3, SamePaid
<1>5. CASE StoreDone
  <2>1. /\ running' = running \o step.batch /\ UNCHANGED <<output_ids, evictions>>
        /\ step.pc = "store" /\ step' = [step EXCEPT !.pc = "post"]
    BY <1>5 DEF StoreDone, seqVars
  <2>2. Range(running') = Range(running) \cup Range(step.batch)
    BY <1>1, <2>1, ConcatFacts
  <2>3. step'.pc = "post"
    BY <1>1, <2>1 DEF StepSet
  <2> QED BY <2>1, <2>2, <2>3, SamePaid
<1>6. CASE \/ BeginStep \/ AdmitHead \/ StartPrefill \/ StartDecode \/ GrowTable \/ OutOfBlocks
           \/ PastTable \/ WriteKV \/ StoreNext \/ StoreLoop \/ EndStep
           \/ (\E r \in Requests : AddRequest(r)) \/ UNCHANGED vars
  <2>1. UNCHANGED <<output_ids, evictions, running>>
    BY <1>6 DEF BeginStep, AdmitHead, StartPrefill, StartDecode, GrowTable, OutOfBlocks,
                PastTable, WriteKV, StoreNext, StoreLoop, EndStep, AddRequest, vars, seqVars,
                queueVars
  <2>2. step'.pc = "store" => step.pc = "store" /\ step'.batch = step.batch
    <3>1. CASE BeginStep \/ StartPrefill \/ StartDecode \/ EndStep
      <4>1. Returned.pc = "idle" /\ [Returned EXCEPT !.pc = "schedule"].pc = "schedule"
        BY DEF Returned
      <4>2. CASE BeginStep \/ EndStep
        BY <4>1, <4>2 DEF BeginStep, EndStep
      <4>3. CASE StartPrefill
        <5>1. step' = [step EXCEPT !.pc = "forward", !.prefill = TRUE]
          BY <4>3 DEF StartPrefill
        <5> QED BY <1>1, <5>1 DEF StepSet
      <4>4. CASE StartDecode
        <5>1. step' = Returned \/ step' = [step EXCEPT !.pc = "forward", !.batch = running]
          BY <4>4 DEF StartDecode
        <5> QED BY <1>1, <4>1, <5>1 DEF StepSet
      <4> QED BY <3>1, <4>2, <4>3, <4>4
    <3>2. CASE GrowTable \/ StoreLoop \/ (\E r \in Requests : AddRequest(r)) \/ UNCHANGED vars
      BY <3>2 DEF GrowTable, StoreLoop, AddRequest, vars
    <3>3. CASE OutOfBlocks \/ PastTable
      BY <3>3 DEF OutOfBlocks, PastTable, Raised, Returned
    <3>4. CASE WriteKV \/ StoreNext
      <4>1. step' = [step EXCEPT !.cursor = @ + 1]
        BY <3>4 DEF WriteKV, StoreNext
      <4> QED BY <1>1, <4>1 DEF StepSet
    <3>5. CASE AdmitHead
      <4> DEFINE more == step.tokens + Len(prompt_ids[Head(waiting)])
                 batch == Append(step.batch, Head(waiting))
      <4>1. step.pc = "schedule" /\ step' = [step EXCEPT !.batch = batch, !.tokens = more]
        BY <3>5 DEF AdmitHead
      <4> HIDE DEF more, batch
      <4> QED BY <1>1, <4>1 DEF StepSet
    <3> QED BY <1>6, <3>1, <3>2, <3>3, <3>4, <3>5
  <2> QED BY <2>1, <2>2, SamePaid
<1> QED BY <1>2, <1>3, <1>4, <1>5, <1>6 DEF Next, StepCall

\* Preemption cannot thrash: each eviction of a request follows a token
\* generated since the one before.  EvictionsPaidFor for every instance.
THEOREM EvictionsAlwaysPaidFor == Spec => []EvictionsPaidFor
<1>1. Init => PlacesInv /\ EvictionsPaidInv
  BY InitPlaces, InitPaid
<1>2. PlacesInv /\ EvictionsPaidInv /\ [Next]_vars => PlacesInv' /\ EvictionsPaidInv'
  BY NextPlaces, NextPaid
<1>3. EvictionsPaidInv => EvictionsPaidFor
  BY DEF EvictionsPaidInv, EvictionsPaidFor
<1> QED BY <1>1, <1>2, <1>3, PTL DEF Spec

-----------------------------------------------------------------------------
(* Who overtakes whom *)

\* At the start there is no order to keep.
LEMMA InitArrival == Init => ArrivalInv
<1> SUFFICES ASSUME Init PROVE ArrivalInv
  OBVIOUS
<1>1. running = <<>> /\ waiting = <<>> /\ Prefilling = <<>> /\ Arrived = {}
  BY DEF Init, Returned, Prefilling, Arrived
<1>2. Ordered(<<>>) /\ Before(<<>>, <<>>)
  BY DEF Ordered, Before, Range
<1> QED BY <1>1, <1>2 DEF ArrivalInv

\* Two ordered lists in a row, the first before the second.
LEMMA OrderedConcat ==
    ASSUME NEW p \in Seq(Requests), NEW q \in Seq(Requests),
           Ordered(p), Ordered(q), Before(p, q)
    PROVE  Ordered(p \o q)
<1> DEFINE w == p \o q
<1>1. /\ DOMAIN w = 1..Len(p) + Len(q) /\ Len(p) \in Nat /\ Len(q) \in Nat
      /\ DOMAIN p = 1..Len(p)
      /\ \A j \in DOMAIN w :
            \/ j \in DOMAIN p /\ w[j] = p[j]
            \/ j > Len(p) /\ j - Len(p) \in DOMAIN q /\ w[j] = q[j - Len(p)]
  BY ConcatFacts
<1> HIDE DEF w
<1>2. ASSUME NEW i \in DOMAIN w, NEW j \in DOMAIN w, i < j PROVE InOrder(w[i], w[j])
  <2>1. CASE i \in DOMAIN p /\ j \in DOMAIN p
    <3>1. w[i] = p[i] /\ w[j] = p[j]
      BY <1>1, <2>1
    <3> QED BY <1>2, <2>1, <3>1 DEF Ordered
  <2>2. CASE i \in DOMAIN p /\ j > Len(p)
    <3>1. w[i] = p[i] /\ w[j] = q[j - Len(p)] /\ j - Len(p) \in DOMAIN q
      BY <1>1, <2>2
    <3>2. w[i] \in Range(p) /\ w[j] \in Range(q)
      BY <2>2, <3>1 DEF Range
    <3> QED BY <3>2 DEF Before
  <2>3. CASE i > Len(p) /\ j > Len(p)
    <3>1. /\ w[i] = q[i - Len(p)] /\ i - Len(p) \in DOMAIN q
          /\ w[j] = q[j - Len(p)] /\ j - Len(p) \in DOMAIN q
          /\ i - Len(p) < j - Len(p)
      BY <1>1, <1>2, <2>3
    <3> QED BY <3>1 DEF Ordered
  <2> QED BY <1>1, <1>2, <2>1, <2>2, <2>3
<1> QED BY <1>2 DEF Ordered, w

\* Nobody moves and nobody is preempted.
LEMMA SameArrival ==
    ASSUME ArrivalInv, UNCHANGED <<running, waiting, status, evictions, seq_id>>,
           step'.pc # "dead" => step.pc # "dead" /\ Prefilling' = Prefilling
    PROVE  ArrivalInv'
<1>1. Arrived' = Arrived
  BY DEF Arrived
<1>2. \A x, y : InOrder(x, y)' <=> InOrder(x, y)
  BY DEF InOrder
<1>3. ASSUME step'.pc # "dead"
      PROVE  /\ Ordered(running)' /\ Ordered(Prefilling)' /\ Ordered(waiting)'
             /\ Before(running, Prefilling)' /\ Before(running, waiting)'
             /\ Before(Prefilling, waiting)'
  BY <1>2, <1>3 DEF ArrivalInv, Ordered, Before, InOrder
<1> QED BY <1>1, <1>3 DEF ArrivalInv

\* A new request comes after all that are there.
LEMMA AddRequestArrival ==
    ASSUME PlacesInv, ArrivalInv, NEW r \in Requests, AddRequest(r)
    PROVE  ArrivalInv'
<1>1. /\ waiting' = Append(waiting, r) /\ status[r] = "new" /\ step.pc = "idle"
      /\ status' = [status EXCEPT ![r] = "waiting"]
      /\ seq_id' = [seq_id EXCEPT ![r] = Cardinality(Arrived)]
      /\ UNCHANGED <<running, step, evictions>>
  BY DEF AddRequest, Arrived
<1>2. /\ TypeOK /\ IsFiniteSet(Arrived) /\ waiting \in Seq(Requests)
      /\ Prefilling' = Prefilling /\ Prefilling \in Seq(Requests) /\ running \in Seq(Requests)
  BY <1>1, ListTypes DEF PlacesInv, Prefilling
<1>3. /\ r \notin Arrived /\ Arrived' = Arrived \cup {r} /\ Arrived \subseteq Requests
      /\ Cardinality(Arrived) \in Nat /\ Cardinality(Arrived') = Cardinality(Arrived) + 1
  <2>1. r \notin Arrived /\ Arrived' = Arrived \cup {r} /\ Arrived \subseteq Requests
    BY <1>1, <1>2 DEF Arrived, TypeOK
  <2> QED BY <1>2, <2>1, FS_AddElement, FS_CardinalityType
<1>4. seq_id \in [Requests -> Nat] /\ seq_id'[r] = Cardinality(Arrived)
  BY <1>1, <1>2 DEF TypeOK
<1>5. \A q \in Arrived : seq_id'[q] = seq_id[q] /\ seq_id[q] < Cardinality(Arrived)
  BY <1>1, <1>3, <1>4 DEF ArrivalInv
<1>6. \A q \in Arrived' : seq_id'[q] < Cardinality(Arrived')
  <2>1. ASSUME NEW q \in Arrived PROVE seq_id'[q] < Cardinality(Arrived')
    <3>1. seq_id[q] \in Nat
      BY <1>3, <1>4
    <3> QED BY <1>3, <1>5, <3>1
  <2> QED BY <1>3, <1>4, <2>1
<1>7. Range(running) \subseteq Arrived /\ Range(Prefilling) \subseteq Arrived
      /\ Range(waiting) \subseteq Arrived
  <2>1. /\ Range(running) \subseteq Requests /\ Range(Prefilling) \subseteq Requests
        /\ Range(waiting) \subseteq Requests
    BY <1>2, RangeOfList
  <2> QED BY <1>1, <2>1 DEF PlacesInv, Places, ActiveSet, Arrived
<1>8. \A x \in Arrived, y \in Arrived' : (y = r \/ InOrder(x, y)) => InOrder(x, y)'
  <2>1. ASSUME NEW x \in Arrived PROVE InOrder(x, r)'
    BY <1>1, <1>4, <1>5 DEF InOrder
  <2>2. ASSUME NEW x \in Arrived, NEW y \in Arrived, InOrder(x, y) PROVE InOrder(x, y)'
    BY <1>1, <1>5, <2>2 DEF InOrder
  <2> QED BY <1>3, <2>1, <2>2
<1>9. Ordered(running)' /\ Ordered(Prefilling)' /\ Before(running, Prefilling)'
  <2>1. Ordered(running) /\ Ordered(Prefilling) /\ Before(running, Prefilling)
    BY <1>1 DEF ArrivalInv
  <2>2. \A j \in DOMAIN running : running[j] \in Arrived
    BY <1>2, <1>7, RangeOfList
  <2>3. \A j \in DOMAIN Prefilling : Prefilling[j] \in Arrived
    BY <1>2, <1>7, RangeOfList
  <2>4. \A x, y \in Arrived : InOrder(x, y) => InOrder(x, y)'
    BY <1>3, <1>8
  <2>5. Ordered(running)'
    BY <1>1, <2>1, <2>2, <2>4 DEF Ordered, InOrder
  <2>6. Ordered(Prefilling)'
    BY <1>2, <2>1, <2>3, <2>4 DEF Ordered, InOrder
  <2>7. Before(running, Prefilling)'
    BY <1>1, <1>2, <1>7, <2>1, <2>4 DEF Before, InOrder
  <2> QED BY <2>5, <2>6, <2>7
<1>10. /\ Range(waiting') = Range(waiting) \cup {r}
       /\ DOMAIN waiting' = 1..Len(waiting) + 1 /\ Len(waiting) \in Nat
       /\ DOMAIN waiting = 1..Len(waiting)
       /\ \A j \in 1..Len(waiting) : waiting'[j] = waiting[j] /\ waiting[j] \in Arrived
       /\ waiting'[Len(waiting) + 1] = r
  <2>1. \A j \in DOMAIN waiting : waiting[j] \in Arrived
    BY <1>2, <1>7, RangeOfList
  <2>2. Range(waiting') = Range(waiting) \cup {r}
    BY <1>1, <1>2, AppendFacts
  <2> QED BY <1>1, <1>2, <2>1, <2>2
<1>11. Before(running, waiting)' /\ Before(Prefilling, waiting)'
  <2>1. Before(running, waiting) /\ Before(Prefilling, waiting)
    BY <1>1 DEF ArrivalInv
  <2>2. Range(waiting') \subseteq Arrived'
    BY <1>3, <1>7, <1>10
  <2>3. \A x \in Range(running), y \in Range(waiting') : InOrder(x, y)'
    BY <1>7, <1>8, <1>10, <2>1, <2>2 DEF Before
  <2>4. \A x \in Range(Prefilling), y \in Range(waiting') : InOrder(x, y)'
    BY <1>7, <1>8, <1>10, <2>1, <2>2 DEF Before
  <2> QED BY <1>1, <1>2, <2>3, <2>4 DEF Before
<1>12. Ordered(waiting)'
  <2>1. Ordered(waiting)
    BY <1>1 DEF ArrivalInv
  <2>2. ASSUME NEW i \in DOMAIN waiting', NEW j \in DOMAIN waiting', i < j
        PROVE  InOrder(waiting[i], waiting[j])'
    <3>1. i \in 1..Len(waiting)
      BY <1>10, <2>2
    <3>2. CASE j = Len(waiting) + 1
      <4>1. waiting'[i] \in Arrived /\ waiting'[j] = r
        BY <1>10, <3>1, <3>2
      <4> QED BY <1>3, <1>8, <4>1 DEF InOrder
    <3>3. CASE j \in 1..Len(waiting)
      <4>1. InOrder(waiting[i], waiting[j])
        BY <1>10, <2>1, <2>2, <3>1, <3>3 DEF Ordered
      <4>2. waiting'[i] = waiting[i] /\ waiting'[j] = waiting[j]
            /\ waiting[i] \in Arrived /\ waiting[j] \in Arrived
        BY <1>10, <3>1, <3>3
      <4> QED BY <1>3, <1>8, <4>1, <4>2 DEF InOrder
    <3> QED BY <1>10, <3>2, <3>3
  <2> QED BY <2>2 DEF Ordered
<1> QED BY <1>6, <1>9, <1>11, <1>12 DEF ArrivalInv

\* Taking one out does not disturb the order of the others.
LEMMA OrderedWithout ==
    ASSUME NEW q \in Seq(Requests), NEW i \in DOMAIN q, Ordered(q)
    PROVE  Ordered(Without(q, i))
<1> DEFINE w == Without(q, i)
<1>1. \A j, k \in DOMAIN w : j < k =>
          \E x, y \in DOMAIN q : x < y /\ w[j] = q[x] /\ w[k] = q[y]
  BY WithoutFacts
<1> HIDE DEF w
<1>2. \A j, k \in DOMAIN w : j < k => InOrder(w[j], w[k])
  BY <1>1 DEF Ordered
<1> QED BY <1>2 DEF Ordered, w

\* The head of the queue is before the rest, and the batch before both.
LEMMA AdmitHeadArrival ==
    ASSUME PlacesInv, ArrivalInv, AdmitHead
    PROVE  ArrivalInv'
<1> DEFINE r == Head(waiting)
<1>1. /\ step.pc = "schedule" /\ waiting # <<>> /\ waiting' = Tail(waiting)
      /\ status' = [status EXCEPT ![r] = "running"]
      /\ step' = [step EXCEPT !.batch = Append(@, r), !.tokens = @ + Len(prompt_ids[r])]
      /\ UNCHANGED <<running, seq_id, evictions>>
  BY DEF AdmitHead, CanAdmit
<1>2. /\ waiting \in Seq(Requests) /\ running \in Seq(Requests) /\ step.batch \in Seq(Requests)
      /\ step \in StepSet
      /\ status \in [Requests -> {"new", "waiting", "running", "finished"}]
  BY ListTypes DEF PlacesInv, TypeOK, StepSet
<1>3. /\ r \in Requests /\ r = waiting[1] /\ 1 \in DOMAIN waiting
      /\ DOMAIN waiting' \subseteq Nat \ {0}
      /\ \A j \in DOMAIN waiting' : waiting'[j] = waiting[j + 1] /\ j + 1 \in DOMAIN waiting
      /\ Range(waiting) = {r} \cup Range(waiting')
  <2>1. Tail(waiting) \in Seq(Requests)
    BY <1>1, <1>2, HeadFacts
  <2>2. DOMAIN Tail(waiting) \subseteq Nat \ {0}
    BY <2>1
  <2> QED BY <1>1, <1>2, <2>2, HeadFacts
<1> HIDE DEF r
<1>4. status[r] = "waiting" /\ Arrived' = Arrived
  <2>1. status[r] = "waiting"
    BY <1>1, <1>3 DEF PlacesInv, Places
  <2> QED BY <1>1, <1>2, <1>3, <2>1 DEF Arrived
<1>5. Prefilling = step.batch /\ Prefilling' = Append(step.batch, r)
  <2>1. step'.pc = "schedule" /\ step'.batch = Append(step.batch, r)
    BY <1>1, <1>2 DEF StepSet
  <2> QED BY <1>1, <2>1 DEF Prefilling
<1>6. /\ Ordered(running) /\ Ordered(step.batch) /\ Ordered(waiting)
      /\ Before(running, step.batch) /\ Before(running, waiting)
      /\ Before(step.batch, waiting)
  BY <1>1, <1>5 DEF ArrivalInv
<1>7. Ordered(running)' /\ Before(running, waiting)'
  <2>1. Ordered(running)'
    BY <1>1, <1>6 DEF Ordered, InOrder
  <2>2. \A x \in Range(running), y \in Range(waiting') : InOrder(x, y)
    BY <1>3, <1>6 DEF Before
  <2>3. Before(running, waiting)'
    BY <1>1, <2>2 DEF Before, InOrder
  <2> QED BY <2>1, <2>3
<1>8. Ordered(waiting)'
  <2>1. ASSUME NEW i \in DOMAIN waiting', NEW j \in DOMAIN waiting', i < j
        PROVE  InOrder(waiting'[i], waiting'[j])
    <3>1. i + 1 \in DOMAIN waiting /\ j + 1 \in DOMAIN waiting /\ i + 1 < j + 1
      BY <1>3, <2>1
    <3>2. InOrder(waiting[i + 1], waiting[j + 1])
      BY <1>6, <3>1 DEF Ordered
    <3> QED BY <1>3, <3>2
  <2> QED BY <1>1, <2>1 DEF Ordered, InOrder
<1>9. Range(Prefilling') = Range(step.batch) \cup {r}
  BY <1>2, <1>3, <1>5, AppendFacts
<1>10. Before(running, Prefilling)'
  <2>1. \A x \in Range(running), y \in Range(Prefilling') : InOrder(x, y)
    BY <1>3, <1>6, <1>9 DEF Before
  <2> QED BY <1>1, <2>1 DEF Before, InOrder
<1>11. Before(Prefilling, waiting)'
  <2>1. ASSUME NEW y \in Range(waiting') PROVE InOrder(r, y)
    <3>1. PICK j \in DOMAIN waiting' : y = waiting'[j]
      BY DEF Range
    <3>2. j + 1 \in DOMAIN waiting /\ 1 < j + 1 /\ y = waiting[j + 1]
      BY <1>3, <3>1
    <3> QED BY <1>3, <1>6, <3>2 DEF Ordered
  <2>2. \A x \in Range(Prefilling'), y \in Range(waiting') : InOrder(x, y)
    BY <1>3, <1>6, <1>9, <2>1 DEF Before
  <2> QED BY <1>1, <2>2 DEF Before, InOrder
<1>12. Ordered(Prefilling)'
  <2>1. Ordered(<<r>>)
    BY DEF Ordered
  <2>2. Before(step.batch, <<r>>)
    <3>1. Range(<<r>>) = {r}
      BY DEF Range
    <3> QED BY <1>3, <1>6, <3>1 DEF Before
  <2>3. <<r>> \in Seq(Requests) /\ Append(step.batch, r) = step.batch \o <<r>>
    BY <1>2, <1>3, AppendIsConcat
  <2>4. Ordered(Prefilling')
    BY <1>2, <1>5, <1>6, <2>1, <2>2, <2>3, OrderedConcat
  <2> QED BY <1>1, <2>4 DEF Ordered, InOrder
<1> QED BY <1>1, <1>4, <1>7, <1>8, <1>10, <1>11, <1>12 DEF ArrivalInv

\* A sequence that is through leaves the order of the others as it is.
LEMMA FreeFinishedArrival ==
    ASSUME PlacesInv, ArrivalInv, FreeFinished
    PROVE  ArrivalInv'
<1>1. PICK i \in DOMAIN running :
          /\ status' = [status EXCEPT ![running[i]] = "finished"]
          /\ running' = Without(running, i)
  BY DEF FreeFinished
<1>2. step.pc = "post" /\ UNCHANGED <<waiting, step, seq_id, evictions>>
  BY DEF FreeFinished
<1>3. /\ running \in Seq(Requests) /\ Prefilling' = Prefilling
      /\ status \in [Requests -> {"new", "waiting", "running", "finished"}]
  BY <1>2, ListTypes DEF PlacesInv, TypeOK, Prefilling
<1>4. running[i] \in Requests /\ running[i] \in Range(running)
  BY <1>3, RangeOfList
<1>5. status[running[i]] = "running" /\ Arrived' = Arrived
  <2>1. status[running[i]] = "running"
    BY <1>2, <1>4 DEF PlacesInv, Places, ActiveSet
  <2> QED BY <1>1, <1>3, <1>4, <2>1 DEF Arrived
<1>6. /\ Ordered(running) /\ Ordered(Prefilling) /\ Ordered(waiting)
      /\ Before(running, Prefilling) /\ Before(running, waiting)
      /\ Before(Prefilling, waiting)
  BY <1>2 DEF ArrivalInv
<1>7. Ordered(running') /\ Range(running') \subseteq Range(running)
  BY <1>1, <1>3, <1>6, OrderedWithout, WithoutRange
<1>8. Ordered(running)' /\ Ordered(Prefilling)' /\ Ordered(waiting)'
  BY <1>2, <1>3, <1>6, <1>7 DEF Ordered, InOrder
<1>9. Before(running, Prefilling)' /\ Before(running, waiting)' /\ Before(Prefilling, waiting)'
  BY <1>2, <1>3, <1>6, <1>7 DEF Before, InOrder
<1> QED BY <1>2, <1>5, <1>8, <1>9 DEF ArrivalInv

\* The batch that was prefilled goes behind those that run.
LEMMA StoreDoneArrival ==
    ASSUME PlacesInv, ArrivalInv, StoreDone
    PROVE  ArrivalInv'
<1>1. /\ step.pc = "store" /\ running' = running \o step.batch
      /\ step' = [step EXCEPT !.pc = "post"]
      /\ UNCHANGED <<waiting, status, seq_id, evictions>>
  BY DEF StoreDone, seqVars
<1>2. /\ running \in Seq(Requests) /\ step.batch \in Seq(Requests) /\ step \in StepSet
  BY ListTypes DEF PlacesInv, TypeOK, StepSet
<1>3. Prefilling = step.batch /\ Prefilling' = <<>>
  <2>1. step'.pc = "post"
    BY <1>1, <1>2 DEF StepSet
  <2> QED BY <1>1, <2>1 DEF PlacesInv, StepShape, Prefilling
<1>4. Arrived' = Arrived
  BY <1>1 DEF Arrived
<1>5. /\ Ordered(running) /\ Ordered(step.batch) /\ Ordered(waiting)
      /\ Before(running, step.batch) /\ Before(running, waiting)
      /\ Before(step.batch, waiting)
  BY <1>1, <1>3 DEF ArrivalInv
<1>6. Ordered(running') /\ Range(running') = Range(running) \cup Range(step.batch)
  BY <1>1, <1>2, <1>5, OrderedConcat, ConcatFacts
<1>7. Range(<<>>) = {} /\ DOMAIN <<>> = {}
  BY DEF Range
<1>8. Ordered(running)' /\ Ordered(waiting)' /\ Ordered(Prefilling)'
  BY <1>1, <1>3, <1>5, <1>6, <1>7 DEF Ordered, InOrder
<1>9. Before(running, waiting)'
  BY <1>1, <1>5, <1>6 DEF Before, InOrder
<1>10. Before(running, Prefilling)' /\ Before(Prefilling, waiting)'
  BY <1>3, <1>7 DEF Before
<1> QED BY <1>1, <1>4, <1>8, <1>9, <1>10 DEF ArrivalInv

\* A victim goes behind everybody, and is no longer one of the never
\* preempted.
LEMMA PreemptOneArrival ==
    ASSUME PlacesInv, ArrivalInv, PreemptOne
    PROVE  ArrivalInv'
<1>0. PICK i, r : i = VictimAt /\ r = running[i]
  OBVIOUS
<1>1. /\ step.pc = "schedule" /\ step.batch = <<>> /\ running # <<>>
      /\ running' = Without(running, i)
      /\ step' = [step EXCEPT !.preempted = @ + 1] /\ UNCHANGED seq_id
      /\ IF Finished(r)
         THEN /\ status' = [status EXCEPT ![r] = "finished"]
              /\ UNCHANGED <<waiting, evictions>>
         ELSE /\ status' = [status EXCEPT ![r] = "waiting"]
              /\ waiting' = Append(waiting, r)
              /\ evictions' = [evictions EXCEPT ![r] = @ + 1]
  BY <1>0 DEF PreemptOne, BlockPressure, Requeue
<1>2. /\ TypeOK /\ running \in Seq(Requests) /\ waiting \in Seq(Requests) /\ step \in StepSet
      /\ status \in [Requests -> {"new", "waiting", "running", "finished"}]
      /\ evictions \in [Requests -> Nat]
  BY ListTypes DEF PlacesInv, TypeOK, StepSet
<1>3. i \in DOMAIN running
  BY <1>0, <1>1, <1>2, VictimIsRunning
<1>4. /\ Ordered(running) /\ Ordered(waiting) /\ Before(running, waiting)
  BY <1>1 DEF ArrivalInv
<1>5. Ordered(running') /\ Range(running') \subseteq Range(running)
  BY <1>0, <1>1, <1>2, <1>3, <1>4, OrderedWithout, WithoutRange
<1>6. r \in Requests /\ r \in Range(running)
  BY <1>0, <1>2, <1>3, RangeOfList
<1>7. Prefilling' = <<>>
  <2>1. step'.pc = "schedule" /\ step'.batch = <<>>
    BY <1>1, <1>2 DEF StepSet
  <2> QED BY <2>1 DEF Prefilling
<1>8. status[r] = "running" /\ Arrived' = Arrived
  <2>1. status[r] = "running"
    BY <1>1, <1>6 DEF PlacesInv, Places, ActiveSet
  <2> QED BY <1>1, <1>2, <1>6, <2>1 DEF Arrived
<1>9. \A x, y \in Requests : InOrder(x, y) => InOrder(x, y)'
  <2> SUFFICES ASSUME NEW x \in Requests, NEW y \in Requests, InOrder(x, y)
               PROVE  InOrder(x, y)'
    OBVIOUS
  <2>1. \A q \in Requests : evictions'[q] = 0 => evictions[q] = 0
    BY <1>1, <1>2, <1>6
  <2> QED BY <1>1, <2>1 DEF InOrder
<1>10. \A j \in DOMAIN running' : running'[j] \in Requests
  BY <1>1, <1>2, <1>3, WithoutFacts
<1>11. Ordered(running)'
  BY <1>5, <1>9, <1>10 DEF Ordered, InOrder
<1>12. Ordered(Prefilling)' /\ Before(running, Prefilling)' /\ Before(Prefilling, waiting)'
  <2>1. Range(<<>>) = {} /\ DOMAIN <<>> = {}
    BY DEF Range
  <2> QED BY <1>7, <2>1 DEF Before, Ordered
<1>13. Range(running') \subseteq Requests /\ Range(waiting) \subseteq Requests
  BY <1>2, <1>5, RangeOfList
<1>14. CASE Finished(r)
  <2>1. waiting' = waiting
    BY <1>1, <1>14
  <2>2. \A j \in DOMAIN waiting : waiting[j] \in Requests
    BY <1>2
  <2>3. Ordered(waiting)'
    BY <1>4, <1>9, <2>1, <2>2 DEF Ordered, InOrder
  <2>4. Before(running, waiting)'
    BY <1>4, <1>5, <1>9, <1>13, <2>1 DEF Before, InOrder
  <2>5. \A q \in Arrived' : seq_id'[q] < Cardinality(Arrived')
    BY <1>1, <1>8 DEF ArrivalInv
  <2> QED BY <1>11, <1>12, <2>3, <2>4, <2>5 DEF ArrivalInv
<1>15. CASE ~Finished(r)
  <2>1. waiting' = Append(waiting, r) /\ evictions' = [evictions EXCEPT ![r] = @ + 1]
    BY <1>1, <1>15
  <2>2. \A x : InOrder(x, r)'
    <3>1. evictions'[r] # 0
      BY <1>2, <1>6, <2>1
    <3> QED BY <3>1 DEF InOrder
  <2>3. /\ Range(waiting') = Range(waiting) \cup {r}
        /\ DOMAIN waiting' = 1..Len(waiting) + 1 /\ Len(waiting) \in Nat
        /\ DOMAIN waiting = 1..Len(waiting)
        /\ \A j \in 1..Len(waiting) : waiting'[j] = waiting[j] /\ waiting[j] \in Requests
        /\ waiting'[Len(waiting) + 1] = r
    BY <1>2, <1>6, <2>1, AppendFacts
  <2>4. Ordered(waiting)'
    <3>1. ASSUME NEW j \in DOMAIN waiting', NEW k \in DOMAIN waiting', j < k
          PROVE  InOrder(waiting[j], waiting[k])'
      <4>1. j \in 1..Len(waiting)
        BY <2>3, <3>1
      <4>2. CASE k = Len(waiting) + 1
        BY <2>2, <2>3, <4>2 DEF InOrder
      <4>3. CASE k \in 1..Len(waiting)
        <5>1. InOrder(waiting[j], waiting[k])
          BY <1>4, <2>3, <3>1, <4>1, <4>3 DEF Ordered
        <5>2. /\ waiting'[j] = waiting[j] /\ waiting'[k] = waiting[k]
              /\ waiting[j] \in Requests /\ waiting[k] \in Requests
          BY <2>3, <4>1, <4>3
        <5> QED BY <1>9, <5>1, <5>2 DEF InOrder
      <4> QED BY <2>3, <4>2, <4>3
    <3> QED BY <3>1 DEF Ordered
  <2>5. Before(running, waiting)'
    <3>1. \A x \in Range(running'), y \in Range(waiting) : InOrder(x, y)'
      BY <1>4, <1>5, <1>9, <1>13 DEF Before
    <3>2. \A x \in Range(running'), y \in Range(waiting') : InOrder(x, y)'
      BY <2>2, <2>3, <3>1
    <3> QED BY <3>2 DEF Before
  <2>6. \A q \in Arrived' : seq_id'[q] < Cardinality(Arrived')
    BY <1>1, <1>8 DEF ArrivalInv
  <2> QED BY <1>11, <1>12, <2>4, <2>5, <2>6 DEF ArrivalInv
<1> QED BY <1>14, <1>15

\* Every step keeps the never-preempted in order of arrival.
LEMMA NextArrival == PlacesInv /\ ArrivalInv /\ [Next]_vars => ArrivalInv'
<1> SUFFICES ASSUME PlacesInv, ArrivalInv, [Next]_vars PROVE ArrivalInv'
  OBVIOUS
<1>1. step \in StepSet /\ StepShape
  BY DEF PlacesInv, TypeOK, StepSet
<1>2. CASE \E r \in Requests : AddRequest(r)
  BY <1>2, AddRequestArrival
<1>3. CASE AdmitHead
  BY <1>3, AdmitHeadArrival
<1>4. CASE PreemptOne
  BY <1>4, PreemptOneArrival
<1>5. CASE StoreDone
  BY <1>5, StoreDoneArrival
<1>6. CASE FreeFinished
  BY <1>6, FreeFinishedArrival
<1>7. CASE \/ BeginStep \/ StartPrefill \/ StartDecode \/ EndStep \/ GrowTable \/ OutOfBlocks
           \/ PastTable \/ WriteKV \/ StoreNext \/ StoreLoop \/ Emit \/ UNCHANGED vars
  <2>1. UNCHANGED <<running, waiting, status, evictions, seq_id>>
    BY <1>7 DEF BeginStep, StartPrefill, StartDecode, GrowTable, OutOfBlocks, PastTable,
                WriteKV, StoreNext, StoreLoop, EndStep, Emit, vars, seqVars, queueVars
  <2>2. step'.pc # "dead" => step.pc # "dead" /\ Prefilling' = Prefilling
    <3>1. /\ Returned.pc = "idle" /\ [Returned EXCEPT !.pc = "schedule"].pc = "schedule"
          /\ [Returned EXCEPT !.pc = "schedule"].batch = <<>>
      BY DEF Returned
    <3>2. CASE BeginStep
      <4>1. step.pc = "idle" /\ step' = [Returned EXCEPT !.pc = "schedule"]
        BY <3>2 DEF BeginStep
      <4> QED BY <1>1, <3>1, <4>1 DEF StepShape, Prefilling
    <3>3. CASE EndStep
      BY <3>1, <3>3 DEF EndStep, Prefilling
    <3>4. CASE StartPrefill
      <4>1. step.pc = "schedule" /\ step' = [step EXCEPT !.pc = "forward", !.prefill = TRUE]
        BY <3>4 DEF StartPrefill
      <4> QED BY <1>1, <4>1 DEF StepSet, Prefilling
    <3>5. CASE StartDecode
      <4>1. /\ step.pc = "schedule" /\ step.batch = <<>>
            /\ \/ step' = Returned
               \/ step' = [step EXCEPT !.pc = "forward", !.batch = running]
        BY <3>5 DEF StartDecode
      <4> QED BY <1>1, <3>1, <4>1 DEF StepSet, StepShape, Prefilling
    <3>6. CASE GrowTable \/ StoreLoop
      BY <3>6 DEF GrowTable, StoreLoop, Prefilling
    <3>7. CASE UNCHANGED vars
      BY <3>7 DEF vars, Prefilling
    <3>8. CASE OutOfBlocks \/ PastTable
      BY <3>8 DEF OutOfBlocks, PastTable, Raised, Returned
    <3>9. CASE WriteKV \/ StoreNext
      <4>1. step.pc # "dead" /\ step' = [step EXCEPT !.cursor = @ + 1]
        BY <3>9 DEF WriteKV, StoreNext
      <4> QED BY <1>1, <4>1 DEF StepSet, Prefilling
    <3>10. CASE Emit
      <4>1. PICK pc \in {"store", "post"} :
                /\ step.pc = "forward" /\ pc = IF step.prefill THEN "store" ELSE "post"
                /\ step' = [step EXCEPT !.pc = pc, !.cursor = 1]
        BY <3>10 DEF Emit
      <4>2. step'.pc = pc /\ step'.batch = step.batch /\ step'.prefill = step.prefill
        BY <1>1, <4>1 DEF StepSet
      <4> QED BY <4>1, <4>2 DEF Prefilling
    <3> QED BY <1>7, <3>2, <3>3, <3>4, <3>5, <3>6, <3>7, <3>8, <3>9, <3>10
  <2> QED BY <2>1, <2>2, SameArrival
<1> QED BY <1>2, <1>3, <1>4, <1>5, <1>6, <1>7 DEF Next, StepCall

\* "WAIT in FIFO": requests that were never preempted are served in order of
\* arrival.  ArrivalOrder for every instance.
THEOREM ArrivalOrderAlways == Spec => []ArrivalOrder
<1>1. Init => PlacesInv /\ ArrivalInv
  BY InitPlaces, InitArrival
<1>2. PlacesInv /\ ArrivalInv /\ [Next]_vars => PlacesInv' /\ ArrivalInv'
  BY NextPlaces, NextArrival
<1>3. PlacesInv /\ ArrivalInv => ArrivalOrder
  <2> SUFFICES ASSUME PlacesInv, ArrivalInv, step.pc # "dead"
               PROVE  Ordered(Active \o waiting)
    BY DEF ArrivalOrder, Ordered, InOrder
  <2>1. /\ running \in Seq(Requests) /\ Prefilling \in Seq(Requests)
        /\ waiting \in Seq(Requests) /\ Active \in Seq(Requests)
        /\ Range(Active) = Range(running) \cup Range(Prefilling)
    BY ListTypes, ActiveRange DEF PlacesInv, ActiveSet
  <2>2. Ordered(Active)
    BY <2>1, OrderedConcat DEF ArrivalInv, Active
  <2>3. Before(Active, waiting)
    BY <2>1 DEF ArrivalInv, Before
  <2> QED BY <2>1, <2>2, <2>3, OrderedConcat DEF ArrivalInv
<1> QED BY <1>1, <1>2, <1>3, PTL DEF Spec

-----------------------------------------------------------------------------
(* The history of a sequence in the cache *)

\* The theorems about the cache, for the cache of the engine.
KV == INSTANCE PagedKVCacheProofs

\* Types, the ledger of references and the contents of the blocks.
CacheInv == KV!LedgerInv /\ KV!ContentsInv

-----------------------------------------------------------------------------
(* The cache of the engine is the cache of those theorems *)

\* Both modules count and list alike.
LEMMA SameSets ==
    /\ \A S : Cache!Cardinality(S) = KV!Cardinality(S)
    /\ \A S : IsFiniteSet(S) <=> KV!IsFiniteSet(S)
    /\ \A f : Cache!Range(f) = KV!Range(f)
<1>1. \A S : Cache!Cardinality(S) = KV!Cardinality(S)
  BY DEF Cache!Cardinality, KV!Cardinality
<1>2. \A S : IsFiniteSet(S) <=> KV!IsFiniteSet(S)
  BY DEF IsFiniteSet, KV!IsFiniteSet
<1>3. \A f : Cache!Range(f) = KV!Range(f)
  BY DEF Cache!Range, KV!Range
<1> QED BY <1>1, <1>2, <1>3

\* Both modules name the same initial state.
LEMMA InitCache == Cache!Init => KV!Init
BY DEF Cache!Init, KV!Init, Cache!Idle, KV!Idle

\* Both modules name the same actions.
LEMMA SameAdmit == ASSUME NEW s, NEW w, Cache!Admit(s, w) PROVE KV!Admit(s, w)
<1>1. Cache!Matches(w) = KV!Matches(w) /\ Cache!LongestMatch(w) = KV!LongestMatch(w)
  BY DEF Cache!Matches, KV!Matches, Cache!LongestMatch, KV!LongestMatch, Cache!FullBlocks,
         KV!FullBlocks, Cache!Boundary, KV!Boundary
<1>2. \A k : Cache!Boundary(w, k) = KV!Boundary(w, k)
  BY DEF Cache!Boundary, KV!Boundary
<1>3. Cache!TouchMatches(w) => KV!TouchMatches(w)
  BY <1>1, <1>2 DEF Cache!TouchMatches, KV!TouchMatches
<1>4. \A B : Cache!Incref(B) => KV!Incref(B)
  BY DEF Cache!Incref, KV!Incref, Cache!Ref, KV!Ref
<1> QED BY <1>1, <1>2, <1>3, <1>4, SameSets DEF Cache!Admit, KV!Admit, Cache!Idle, KV!Idle

\* The same of the other operations that the engine calls.
LEMMA SameGrow == ASSUME NEW s, Cache!Grow(s) PROVE KV!Grow(s)
BY DEF Cache!Grow, KV!Grow, Cache!Idle, KV!Idle, Cache!Allocated, KV!Allocated

\* Writing a prefill.
LEMMA SameWritePrefill ==
    ASSUME NEW s, NEW start, Cache!WritePrefill(s, start)
    PROVE  KV!WritePrefill(s, start)
BY DEF Cache!WritePrefill, KV!WritePrefill, Cache!Idle, KV!Idle, Cache!Allocated, KV!Allocated,
       Cache!BlocksFor, KV!BlocksFor, Cache!Writes, KV!Writes, Cache!MinOf, KV!MinOf

\* Writing a decoded token.
LEMMA SameWriteDecode ==
    ASSUME NEW s, NEW t, Cache!WriteDecode(s, t)
    PROVE  KV!WriteDecode(s, t)
BY DEF Cache!WriteDecode, KV!WriteDecode, Cache!Idle, KV!Idle, Cache!Allocated, KV!Allocated,
       Cache!BlocksFor, KV!BlocksFor, Cache!BlockAt, KV!BlockAt

\* The start of a store.
LEMMA SameStoreBegin == ASSUME NEW s, Cache!StoreBegin(s) PROVE KV!StoreBegin(s)
BY DEF Cache!StoreBegin, KV!StoreBegin, Cache!Idle, KV!Idle, Cache!Allocated, KV!Allocated,
       Cache!FullBlocks, KV!FullBlocks, Cache!ownerVars, KV!ownerVars

\* Dropping references.
LEMMA SameRelease == ASSUME NEW B, Cache!Release(B) PROVE KV!Release(B)
BY DEF Cache!Release, KV!Release, Cache!Ref, KV!Ref

\* Freeing a slot.
LEMMA SameFree == ASSUME NEW s, Cache!Free(s) PROVE KV!Free(s)
BY SameRelease, SameSets
   DEF Cache!Free, KV!Free, Cache!Idle, KV!Idle, Cache!Allocated, KV!Allocated,
       Cache!trieVars, KV!trieVars

\* The rounds of a store.
LEMMA SameStores ==
    /\ Cache!StoreBump => KV!StoreBump
    /\ Cache!StoreEvict => KV!StoreEvict
    /\ Cache!StoreAdd => KV!StoreAdd
<1>1. Cache!StoreKey = KV!StoreKey /\ Cache!Idle = KV!Idle
  BY DEF Cache!StoreKey, KV!StoreKey, Cache!Boundary, KV!Boundary, Cache!Idle, KV!Idle
<1>2. Cache!NextBoundary => KV!NextBoundary
  BY DEF Cache!NextBoundary, KV!NextBoundary, Cache!FullBlocks, KV!FullBlocks,
         Cache!Idle, KV!Idle
<1>3. Cache!PrefixesFull <=> KV!PrefixesFull
  BY SameSets DEF Cache!PrefixesFull, KV!PrefixesFull
<1>4. Cache!Oldest = KV!Oldest
  BY DEF Cache!Oldest, KV!Oldest
<1>5. \A B : Cache!Incref(B) => KV!Incref(B)
  BY DEF Cache!Incref, KV!Incref, Cache!Ref, KV!Ref
<1>6. Cache!StoreBump => KV!StoreBump
  BY <1>1, <1>2 DEF Cache!StoreBump, KV!StoreBump, Cache!ownerVars, KV!ownerVars
<1>7. Cache!StoreEvict => KV!StoreEvict
  <2>1. \A B : Cache!Release(B) => KV!Release(B)
    BY SameRelease
  <2> QED BY <1>1, <1>3, <1>4, <2>1, SameSets
             DEF Cache!StoreEvict, KV!StoreEvict, Cache!ownerVars, KV!ownerVars
<1>8. Cache!StoreAdd => KV!StoreAdd
  BY <1>1, <1>2, <1>3, <1>5, SameSets DEF Cache!StoreAdd, KV!StoreAdd, Cache!ownerVars, KV!ownerVars
<1> QED BY <1>6, <1>7, <1>8

-----------------------------------------------------------------------------
(* The cache stays in order *)

\* Whatever a request's prompt becomes when it is preempted is a prompt the
\* cache may be given: that set is not cut off at a length.
PromptsClosed == \A w \in Prompts, v \in Seq(Token) : w \o v \in Prompts

\* The requests come with such prompts.
PromptsFit == \A r \in Requests : prompt_ids[r] \in Prompts

\* At the start the pool is full and no block holds anything.
LEMMA CacheStarts == Cache!Init => CacheInv
BY InitCache, KV!InitLedger, KV!InitContents, EngineConstants, SameSets DEF CacheInv

\* A call that leaves the cache alone.
LEMMA CacheFrame == ASSUME CacheInv, UNCHANGED cacheVars PROVE CacheInv'
<1>1. UNCHANGED KV!vars
  BY DEF cacheVars, KV!vars
<1>2. KV!LedgerInv'
  BY <1>1, KV!NextLedger, EngineConstants, SameSets DEF CacheInv
<1>3. KV!ContentsInv'
  BY <1>1, <1>2, KV!NextContents, EngineConstants, SameSets DEF CacheInv
<1> QED BY <1>2, <1>3 DEF CacheInv

\* An admission with a prompt of the cache.
LEMMA CacheAdmits ==
    ASSUME CacheInv, NEW s, NEW w \in Prompts, Cache!Admit(s, w)
    PROVE  CacheInv'
<1>1. KV!Admit(s, w)
  BY SameAdmit
<1>2. s \in Slots
  BY <1>1 DEF CacheInv, KV!LedgerInv, KV!TypeOK, KV!Admit
<1>3. KV!LedgerInv' /\ KV!ContentsInv'
  BY <1>1, <1>2, KV!AdmitLedger, KV!AdmitContents, EngineConstants, SameSets DEF CacheInv
<1> QED BY <1>3 DEF CacheInv

\* The calls that name an allocated slot.
LEMMA CacheServes ==
    ASSUME CacheInv, NEW s,
           \/ Cache!Grow(s)
           \/ \E start \in {0, matched[s]} : Cache!WritePrefill(s, start)
           \/ \E t \in Token : Cache!WriteDecode(s, t)
           \/ Cache!StoreBegin(s)
           \/ Cache!Free(s)
    PROVE  CacheInv'
<1>1. CASE Cache!Grow(s)
  <2>1. KV!Grow(s)
    BY <1>1, SameGrow
  <2>2. s \in Slots
    BY <2>1 DEF KV!Grow, KV!Allocated
  <2> QED BY <2>1, <2>2, KV!GrowLedger, KV!GrowContents, EngineConstants, SameSets DEF CacheInv
<1>2. CASE \E start \in {0, matched[s]} : Cache!WritePrefill(s, start)
  <2>1. PICK start \in {0, matched[s]} : KV!WritePrefill(s, start)
    BY <1>2, SameWritePrefill
  <2>2. s \in Slots
    BY <2>1 DEF KV!WritePrefill, KV!Allocated
  <2> QED BY <2>1, <2>2, KV!WritePrefillLedger, KV!WritePrefillContents, EngineConstants, SameSets
             DEF CacheInv
<1>3. CASE \E t \in Token : Cache!WriteDecode(s, t)
  <2>1. PICK t \in Token : KV!WriteDecode(s, t)
    BY <1>3, SameWriteDecode
  <2>2. s \in Slots
    BY <2>1 DEF KV!WriteDecode, KV!Allocated
  <2> QED BY <2>1, <2>2, KV!WriteDecodeLedger, KV!WriteDecodeContents, EngineConstants, SameSets
             DEF CacheInv
<1>4. CASE Cache!StoreBegin(s)
  <2>1. KV!StoreBegin(s)
    BY <1>4, SameStoreBegin
  <2>2. s \in Slots
    BY <2>1 DEF KV!StoreBegin, KV!Allocated
  <2> QED BY <2>1, <2>2, KV!StoreBeginLedger, KV!StoreBeginContents, EngineConstants, SameSets
             DEF CacheInv
<1>5. CASE Cache!Free(s)
  <2>1. KV!Free(s)
    BY <1>5, SameFree
  <2>2. s \in Slots
    BY <2>1 DEF KV!Free, KV!Allocated
  <2>3. KV!LedgerInv'
    BY <2>1, <2>2, KV!FreeLedger, EngineConstants, SameSets DEF CacheInv
  <2> QED BY <2>1, <2>2, <2>3, KV!FreeContents, EngineConstants, SameSets DEF CacheInv
<1> QED BY <1>1, <1>2, <1>3, <1>4, <1>5

\* The loop of store_prefix.
LEMMA CacheStores ==
    ASSUME CacheInv, Cache!StoreBump \/ Cache!StoreEvict \/ Cache!StoreAdd
    PROVE  CacheInv'
<1>1. CASE Cache!StoreBump
  BY <1>1, SameStores, KV!StoreBumpLedger, KV!StoreBumpContents, EngineConstants, SameSets
     DEF CacheInv
<1>2. CASE Cache!StoreEvict
  <2>1. KV!StoreEvict
    BY <1>2, SameStores
  <2>2. KV!LedgerInv'
    BY <2>1, KV!StoreEvictLedger, EngineConstants, SameSets DEF CacheInv
  <2> QED BY <2>1, <2>2, KV!StoreEvictContents, EngineConstants, SameSets DEF CacheInv
<1>3. CASE Cache!StoreAdd
  BY <1>3, SameStores, KV!StoreAddLedger, KV!StoreAddContents, EngineConstants, SameSets
     DEF CacheInv
<1> QED BY <1>1, <1>2, <1>3

\* The token a member feeds next is a token: its last, or the last of its
\* prompt.
LEMMA LastTokenType ==
    ASSUME PlacesInv, PromptsFit, NEW r \in Requests
    PROVE  LastToken(r) \in Token
<1>1. output_ids[r] \in Seq(Token)
  BY DEF PlacesInv, TypeOK
<1>2. prompt_ids[r] \in Seq(Token) /\ prompt_ids[r] # <<>>
  BY EngineConstants DEF PromptsFit
<1>3. \A ids \in Seq(Token) : ids # <<>> => ids[Len(ids)] \in Token
  BY EmptySeq
<1> QED BY <1>1, <1>2, <1>3 DEF LastToken

\* Every step of the engine is an orderly step of the cache.
LEMMA NextCache ==
    ASSUME PlacesInv, PromptsFit, CacheInv, [Next]_vars
    PROVE  CacheInv'
<1>1. CASE AdmitHead
  <2>1. PICK s \in freeSlots : Cache!Admit(s, prompt_ids[Head(waiting)])
    BY <1>1 DEF AdmitHead
  <2>2. Head(waiting) \in Requests
    <3>1. waiting \in Seq(Requests) /\ waiting # <<>>
      BY <1>1, ListTypes DEF PlacesInv, AdmitHead, CanAdmit
    <3> QED BY <3>1, HeadFacts
  <2> QED BY <2>1, <2>2, CacheAdmits DEF PromptsFit
<1>2. CASE PreemptOne \/ FreeFinished
  <2>1. PICK s : Cache!Free(s)
    BY <1>2 DEF PreemptOne, FreeFinished
  <2> QED BY <2>1, CacheServes
<1>3. CASE GrowTable
  <2>1. PICK s : Cache!Grow(s)
    BY <1>3 DEF GrowTable
  <2> QED BY <2>1, CacheServes
<1>4. CASE WriteKV
  <2>1. Member \in Requests
    <3>1. step.batch \in Seq(Requests) /\ step.cursor \in Nat \ {0}
      BY ListTypes DEF PlacesInv
    <3>2. step.cursor \in DOMAIN step.batch
      BY <1>4, <3>1 DEF WriteKV
    <3> QED BY <3>1, <3>2 DEF Member
  <2>2. CASE step.prefill
    <3>1. PICK start \in {0, matched[slot[Member]]} : Cache!WritePrefill(slot[Member], start)
      BY <1>4, <2>2 DEF WriteKV
    <3> QED BY <3>1, CacheServes
  <2>3. CASE ~step.prefill
    <3>1. Cache!WriteDecode(slot[Member], LastToken(Member)) /\ LastToken(Member) \in Token
      BY <1>4, <2>1, <2>3, LastTokenType DEF WriteKV
    <3> QED BY <3>1, CacheServes
  <2> QED BY <2>2, <2>3
<1>5. CASE StoreNext
  <2>1. CASE Cache!StoreBegin(slot[Member])
    BY <2>1, CacheServes
  <2>2. CASE UNCHANGED cacheVars
    BY <2>2, CacheFrame
  <2> QED BY <1>5, <2>1, <2>2 DEF StoreNext
<1>6. CASE StoreLoop
  BY <1>6, CacheStores DEF StoreLoop
<1>7. CASE \/ BeginStep \/ StartPrefill \/ StartDecode \/ OutOfBlocks \/ PastTable \/ Emit
           \/ StoreDone \/ EndStep \/ (\E r \in Requests : AddRequest(r)) \/ UNCHANGED vars
  <2>1. UNCHANGED cacheVars
    BY <1>7 DEF BeginStep, StartPrefill, StartDecode, OutOfBlocks, PastTable, Emit, StoreDone,
                EndStep, AddRequest, vars
  <2> QED BY <2>1, CacheFrame
<1> QED BY <1>1, <1>2, <1>3, <1>4, <1>5, <1>6, <1>7 DEF Next, StepCall

\* Preemption turns prompts into prompts.
LEMMA NextPrompts ==
    ASSUME PromptsClosed, PlacesInv, PromptsFit, [Next]_vars
    PROVE  PromptsFit'
<1>1. CASE PreemptOne
  <2>1. prompt_ids \in [Requests -> Seq(Token)] /\ output_ids \in [Requests -> Seq(Token)]
    BY DEF PlacesInv, TypeOK
  <2>2. \/ prompt_ids' = prompt_ids
        \/ \E q : prompt_ids' = [prompt_ids EXCEPT ![q] = @ \o output_ids[q]]
    BY <1>1 DEF PreemptOne, Requeue
  <2>3. ASSUME NEW r \in Requests PROVE prompt_ids'[r] \in Prompts
    <3>1. prompt_ids'[r] = prompt_ids[r] \/ prompt_ids'[r] = prompt_ids[r] \o output_ids[r]
      BY <2>1, <2>2
    <3> QED BY <2>1, <3>1 DEF PromptsFit, PromptsClosed
  <2> QED BY <2>3 DEF PromptsFit
<1>2. CASE ~PreemptOne
  <2>1. prompt_ids' = prompt_ids
    BY <1>2 DEF Next, StepCall, BeginStep, AdmitHead, StartPrefill, StartDecode, GrowTable,
                OutOfBlocks, PastTable, WriteKV, Emit, StoreNext, StoreLoop, StoreDone,
                FreeFinished, EndStep, AddRequest, vars, seqVars
  <2> QED BY <2>1 DEF PromptsFit
<1> QED BY <1>1, <1>2

-----------------------------------------------------------------------------
(* A slot has the history of its sequence in KV *)

\* Before anybody asks, there is nothing to keep.
LEMMA InitHistory == Init => HistoryInv
<1> SUFFICES ASSUME Init, NEW r \in Requests PROVE KeepsHistory(r)
  BY DEF HistoryInv, Init, Returned
<1>1. /\ step.pc = "idle" /\ running = <<>> /\ Prefilling = <<>>
      /\ prompt_ids[r] = Prompt[r] /\ output_ids[r] = <<>>
  BY DEF Init, Returned, Prefilling
<1>2. r \notin ActiveSet
  BY <1>1 DEF ActiveSet, Range
<1>3. History(r) = Prompt[r]
  <2>1. Prompt[r] \in Seq(Token)
    BY EngineConstants
  <2>2. \A w \in Seq(Token) : w \o <<>> = w
    OBVIOUS
  <2> QED BY <1>1, <2>1, <2>2 DEF History
<1> QED BY <1>1, <1>2, <1>3 DEF KeepsHistory

\* Types of what HistoryInv relates.
LEMMA HistoryTypes ==
    ASSUME PlacesInv, NEW r \in Requests
    PROVE  /\ Prompt[r] \in Seq(Token) /\ Prompt[r] # <<>>
           /\ output_ids[r] \in Seq(Token) /\ prompt_ids[r] \in Seq(Token)
           /\ History(r) \in Seq(Token) /\ Len(History(r)) = Len(Prompt[r]) + Len(output_ids[r])
           /\ evictions[r] \in Nat
<1>1. Prompt[r] \in Seq(Token) /\ Prompt[r] # <<>>
  BY EngineConstants
<1>2. /\ output_ids[r] \in Seq(Token) /\ prompt_ids[r] \in Seq(Token)
      /\ evictions[r] \in Nat
  BY DEF PlacesInv, TypeOK
<1>3. \A v, w \in Seq(Token) : v \o w \in Seq(Token) /\ Len(v \o w) = Len(v) + Len(w)
  OBVIOUS
<1> QED BY <1>1, <1>2, <1>3 DEF History

\* A step keeps what it leaves alone of one request: its tokens, and its slot
\* as long as it is active.
LEMMA HistoryFrame ==
    ASSUME HistoryInv, step.pc # "dead", NEW r \in Requests,
           evictions'[r] = evictions[r] /\ evictions[r] <= 1,
           prompt_ids'[r] = prompt_ids[r], output_ids'[r] = output_ids[r],
           status'[r] \in {"new", "waiting"} => status[r] \in {"new", "waiting"},
           Fresh(r)' => Fresh(r),
           r \in ActiveSet' =>
               /\ r \in ActiveSet /\ slot'[r] = slot[r]
               /\ prompt'[slot[r]] = prompt[slot[r]]
               /\ committed'[slot[r]] = committed[slot[r]]
               /\ Written(r)' <=> Written(r)
               /\ Fresh(r)' <=> Fresh(r)
    PROVE  KeepsHistory(r)'
<1>1. KeepsHistory(r)
  BY DEF HistoryInv
<1>2. History(r)' = History(r)
  BY DEF History
<1>3. r \in ActiveSet' => InKV(r)' = InKV(r)
  BY <1>2 DEF InKV
<1> QED BY <1>1, <1>2, <1>3 DEF KeepsHistory

\* The actions that only move the call on.
LEMMA CallHistory ==
    ASSUME PlacesInv, HistoryInv, step.pc # "dead", step'.pc # "dead",
           UNCHANGED <<status, slot, prompt_ids, output_ids, evictions, prompt, committed>>,
           ActiveSet' \subseteq ActiveSet,
           step'.pc = "schedule" => step'.cursor = 1,
           \A r \in Requests : /\ Fresh(r)' <=> Fresh(r)
                               /\ Written(r)' <=> Written(r)
    PROVE  HistoryInv'
<1>1. ASSUME NEW r \in Requests, evictions'[r] <= 1 PROVE KeepsHistory(r)'
  BY <1>1, HistoryFrame
<1> QED BY <1>1 DEF HistoryInv

\* The actions that move a call on from where it is leave every active
\* sequence what it has.
LEMMA StepKeeps ==
    ASSUME PlacesInv, step.pc = "schedule" => step.cursor = 1,
           \/ BeginStep \/ StartPrefill \/ StartDecode \/ GrowTable
           \/ StoreNext \/ StoreLoop \/ StoreDone \/ EndStep
    PROVE  /\ step.pc # "dead" /\ step'.pc # "dead"
           /\ UNCHANGED <<status, slot, prompt_ids, output_ids, evictions, prompt, committed>>
           /\ ActiveSet' \subseteq ActiveSet
           /\ step'.pc = "schedule" => step'.cursor = 1
           /\ \A r : /\ Fresh(r)' <=> Fresh(r)
                     /\ Written(r)' <=> Written(r)
<1>1. /\ step \in StepSet /\ StepShape /\ step.batch \in Seq(Requests)
      /\ UNCHANGED <<status, slot, prompt_ids, output_ids, evictions, prompt, committed>>
  <2>1. UNCHANGED <<status, slot, prompt_ids, output_ids, evictions>>
    BY DEF BeginStep, StartPrefill, StartDecode, GrowTable, StoreNext, StoreLoop, StoreDone,
           EndStep, seqVars
  <2>2. UNCHANGED <<prompt, committed>>
    <3>1. CASE StoreNext \/ StoreLoop
      BY <3>1 DEF StoreNext, StoreLoop, cacheVars, Cache!StoreBegin, Cache!StoreBump,
                  Cache!StoreEvict, Cache!StoreAdd, Cache!ownerVars
    <3>2. CASE GrowTable
      BY <3>2 DEF GrowTable, Cache!Grow
    <3>3. CASE \/ BeginStep \/ StartPrefill \/ StartDecode \/ StoreDone \/ EndStep
      BY <3>3 DEF BeginStep, StartPrefill, StartDecode, StoreDone, EndStep, cacheVars
    <3> QED BY <3>1, <3>2, <3>3
  <2> QED BY <2>1, <2>2, ListTypes DEF PlacesInv, TypeOK, StepSet
<1>2. Range(<<>>) = {}
  BY DEF Range
<1>3. CASE GrowTable \/ StoreLoop
  <2>1. UNCHANGED <<running, step>> /\ step.pc # "dead" /\ step.pc # "schedule"
    BY <1>3 DEF GrowTable, StoreLoop, queueVars
  <2>2. \A r : (Fresh(r)' <=> Fresh(r)) /\ (Written(r)' <=> Written(r))
    BY <2>1 DEF Fresh, Written
  <2>3. ActiveSet' = ActiveSet
    BY <2>1 DEF ActiveSet, Prefilling
  <2> QED BY <1>1, <2>1, <2>2, <2>3
<1>4. CASE BeginStep
  <2>1. /\ step' = [Returned EXCEPT !.pc = "schedule"] /\ running' = running
        /\ step.pc = "idle" /\ step.batch = <<>>
    BY <1>1, <1>4 DEF BeginStep, queueVars, StepShape
  <2>2. /\ step'.pc = "schedule" /\ step'.batch = <<>> /\ step'.cursor = 1
    BY <2>1 DEF Returned
  <2>3. \A r : ~Fresh(r) /\ ~Fresh(r)' /\ ~Written(r) /\ ~Written(r)'
    BY <1>2, <2>1, <2>2 DEF Fresh, Written
  <2>4. ActiveSet' = ActiveSet
    BY <2>1, <2>2 DEF ActiveSet, Prefilling
  <2> QED BY <1>1, <2>1, <2>2, <2>3, <2>4
<1>5. CASE StartPrefill \/ StartDecode
  <2>1. step.pc = "schedule" /\ step.cursor = 1 /\ ~step.prefill /\ running' = running
    BY <1>1, <1>5 DEF StartPrefill, StartDecode, StepShape, queueVars
  <2>2. CASE StartPrefill
    <3>1. /\ step'.pc = "forward" /\ step'.batch = step.batch /\ step'.prefill = TRUE
          /\ step'.cursor = 1
      BY <1>1, <2>1, <2>2 DEF StartPrefill, StepSet
    <3>2. \A r : (Fresh(r)' <=> Fresh(r)) /\ ~Written(r) /\ ~Written(r)'
      <4>1. \A i \in DOMAIN step.batch : ~ (i < 1)
        BY <1>1
      <4> QED BY <2>1, <3>1, <4>1 DEF Fresh, Written
    <3>3. ActiveSet' = ActiveSet
      BY <2>1, <3>1 DEF ActiveSet, Prefilling
    <3> QED BY <1>1, <2>1, <3>1, <3>2, <3>3
  <2>3. CASE StartDecode
    <3>1. /\ step.batch = <<>> /\ step'.prefill = FALSE /\ step'.cursor = 1
          /\ \/ step'.pc = "idle" /\ step'.batch = <<>>
             \/ step'.pc = "forward" /\ step'.batch = running
      BY <1>1, <2>1, <2>3 DEF StartDecode, StepSet, Returned
    <3>2. \A r : ~Fresh(r) /\ ~Fresh(r)' /\ ~Written(r) /\ ~Written(r)'
      <4>1. running \in Seq(Requests)
        BY ListTypes DEF PlacesInv
      <4>2. \A i \in DOMAIN running : ~ (i < 1)
        BY <4>1
      <4> QED BY <1>2, <2>1, <3>1, <4>2 DEF Fresh, Written
    <3>3. ActiveSet' = ActiveSet
      BY <2>1, <3>1 DEF ActiveSet, Prefilling
    <3> QED BY <1>1, <2>1, <3>1, <3>2, <3>3
  <2> QED BY <1>5, <2>2, <2>3
<1>6. CASE StoreNext \/ StoreDone \/ EndStep
  <2>1. /\ step.pc \in {"store", "post"} /\ step'.pc \in {"store", "post", "idle"}
        /\ ActiveSet' \subseteq ActiveSet
    <3>1. CASE StoreNext
      <4>1. /\ step.pc = "store" /\ step' = [step EXCEPT !.cursor = @ + 1]
            /\ running' = running
        BY <3>1 DEF StoreNext, queueVars
      <4>2. /\ step'.pc = "store" /\ step'.batch = step.batch /\ step'.prefill = step.prefill
        BY <1>1, <4>1 DEF StepSet
      <4> QED BY <4>1, <4>2 DEF ActiveSet, Prefilling
    <3>2. CASE StoreDone
      <4>1. /\ step.pc = "store" /\ step' = [step EXCEPT !.pc = "post"]
            /\ running' = running \o step.batch
        BY <3>2 DEF StoreDone
      <4>2. step'.pc = "post"
        BY <1>1, <4>1 DEF StepSet
      <4>3. Range(running') = Range(running) \cup Range(step.batch)
        BY <4>1, <1>1, ListTypes, ConcatFacts DEF PlacesInv
      <4>4. Prefilling = step.batch /\ Prefilling' = <<>>
        BY <1>1, <4>1, <4>2 DEF Prefilling, StepShape
      <4> QED BY <1>2, <4>1, <4>2, <4>3, <4>4 DEF ActiveSet
    <3>3. CASE EndStep
      <4>1. step.pc = "post" /\ step' = Returned /\ running' = running
        BY <3>3 DEF EndStep, queueVars
      <4>2. step'.pc = "idle"
        BY <4>1 DEF Returned
      <4> QED BY <4>1, <4>2 DEF ActiveSet, Prefilling
    <3> QED BY <1>6, <3>1, <3>2, <3>3
  <2>2. \A r : ~Fresh(r) /\ ~Fresh(r)' /\ ~Written(r) /\ ~Written(r)'
    BY <2>1 DEF Fresh, Written
  <2> QED BY <1>1, <2>1, <2>2
<1> QED BY <1>3, <1>4, <1>5, <1>6

\* And so they keep its history.
LEMMA StepHistory ==
    ASSUME PlacesInv, HistoryInv,
           \/ BeginStep \/ StartPrefill \/ StartDecode \/ GrowTable
           \/ StoreNext \/ StoreLoop \/ StoreDone \/ EndStep
    PROVE  HistoryInv'
<1>1. step.pc = "schedule" => step.cursor = 1
  BY DEF HistoryInv
<1> QED BY <1>1, StepKeeps, CallHistory

\* A sequence that gives its slot back leaves the others theirs.
LEMMA LeavingKeeps ==
    ASSUME PlacesInv, step.pc \in {"schedule", "post"},
           Prefilling = <<>>, Prefilling' = <<>>, step'.pc = step.pc, step'.batch = step.batch,
           NEW i \in DOMAIN running, running' = Without(running, i),
           Cache!Free(slot[running[i]]),
           \A r \in Requests \ {running[i]} : slot'[r] = slot[r]
    PROVE  /\ running[i] \in Requests
           /\ \A r : ~Fresh(r) /\ ~Fresh(r)' /\ ~Written(r) /\ ~Written(r)'
           /\ \A r \in ActiveSet' :
                 /\ r \in ActiveSet /\ r \in Requests \ {running[i]}
                 /\ prompt'[slot[r]] = prompt[slot[r]]
                 /\ committed'[slot[r]] = committed[slot[r]]
<1>1. PICK q : q = running[i]
  OBVIOUS
<1>2. q \in Requests /\ q \in ActiveSet /\ ActiveSet' = ActiveSet \ {q}
  <2>1. running \in Seq(Requests) /\ q \in Range(running)
    BY <1>1, ListTypes, RangeOfList DEF PlacesInv
  <2> QED BY <1>1, <2>1, DeparturePlaces DEF ActiveSet
<1>3. /\ prompt' = [prompt EXCEPT ![slot[q]] = <<>>]
      /\ committed' = [committed EXCEPT ![slot[q]] = <<>>]
  BY <1>1 DEF Cache!Free
<1>4. ASSUME NEW r \in ActiveSet'
      PROVE  /\ r \in ActiveSet /\ r \in Requests \ {q} /\ prompt'[slot[r]] = prompt[slot[r]]
             /\ committed'[slot[r]] = committed[slot[r]]
  <2>1. r \in ActiveSet /\ slot[r] # slot[q]
    BY <1>2, <1>4 DEF PlacesInv, SlotOfEach
  <2>2. r \in Requests
    BY <2>1, ListTypes, RangeOfList DEF PlacesInv, ActiveSet
  <2> QED BY <1>2, <1>3, <2>1, <2>2
<1>5. \A r : ~Fresh(r) /\ ~Fresh(r)' /\ ~Written(r) /\ ~Written(r)'
  <2>1. step.pc = "schedule" => step.batch = <<>>
    BY DEF Prefilling
  <2>2. Range(<<>>) = {}
    BY DEF Range
  <2> QED BY <2>1, <2>2 DEF Fresh, Written
<1> QED BY <1>1, <1>2, <1>4, <1>5

\* And so does not disturb their history.
LEMMA LeavingHistory ==
    ASSUME PlacesInv, HistoryInv, step.pc \in {"schedule", "post"},
           Prefilling = <<>>, Prefilling' = <<>>, step'.pc = step.pc, step'.batch = step.batch,
           NEW i \in DOMAIN running, running' = Without(running, i),
           Cache!Free(slot[running[i]]),
           \A r \in Requests \ {running[i]} :
               /\ status'[r] = status[r] /\ slot'[r] = slot[r] /\ evictions'[r] = evictions[r]
               /\ prompt_ids'[r] = prompt_ids[r] /\ output_ids'[r] = output_ids[r]
    PROVE  \A r \in Requests \ {running[i]} : evictions'[r] <= 1 => KeepsHistory(r)'
<1>1. SUFFICES ASSUME NEW r \in Requests \ {running[i]}, evictions'[r] <= 1
               PROVE  KeepsHistory(r)'
  OBVIOUS
<1>2. /\ ~Fresh(r) /\ ~Fresh(r)' /\ ~Written(r) /\ ~Written(r)'
      /\ r \in ActiveSet' => /\ r \in ActiveSet /\ prompt'[slot[r]] = prompt[slot[r]]
                             /\ committed'[slot[r]] = committed[slot[r]]
  BY LeavingKeeps
<1> QED BY <1>1, <1>2, HistoryFrame

\* postprocess frees the slot of a finished sequence.
LEMMA FreeFinishedHistory ==
    ASSUME PlacesInv, HistoryInv, FreeFinished
    PROVE  HistoryInv'
<1>1. PICK i \in DOMAIN running :
          /\ Cache!Free(slot[running[i]])
          /\ status' = [status EXCEPT ![running[i]] = "finished"]
          /\ running' = Without(running, i)
  BY DEF FreeFinished
<1>2. /\ step.pc = "post"
      /\ UNCHANGED <<waiting, step, seq_id, slot, prompt_ids, output_ids, evictions>>
  BY DEF FreeFinished
<1>3. PICK q : q = running[i]
  OBVIOUS
<1>4. /\ status \in [Requests -> {"new", "waiting", "running", "finished"}]
      /\ slot \in [Requests -> Slots \cup {NoSlot}]
  BY DEF PlacesInv, TypeOK
<1>5. Prefilling = <<>> /\ Prefilling' = <<>>
  BY <1>2 DEF Prefilling
<1>6. \A r \in Requests \ {q} : evictions'[r] <= 1 => KeepsHistory(r)'
  BY <1>1, <1>2, <1>3, <1>4, <1>5, LeavingHistory
<1>7. ASSUME q \in Requests, evictions'[q] <= 1 PROVE KeepsHistory(q)'
  <2>1. KeepsHistory(q) /\ History(q)' = History(q) /\ status'[q] = "finished"
    BY <1>1, <1>2, <1>3, <1>4, <1>7 DEF HistoryInv, History
  <2>2. q \notin ActiveSet'
    BY <1>1, <1>2, <1>3, <1>4, <1>5, DeparturePlaces
  <2>3. ~Fresh(q)'
    BY <1>2 DEF Fresh
  <2> QED BY <1>2, <2>1, <2>2, <2>3 DEF KeepsHistory
<1> QED BY <1>2, <1>6, <1>7 DEF HistoryInv

\* Preemption makes the prompt of its victim all of its history, the first
\* time.
LEMMA PreemptOneHistory ==
    ASSUME PlacesInv, HistoryInv, PreemptOne
    PROVE  HistoryInv'
<1>1. PICK i, q : i = VictimAt /\ q = running[i]
  OBVIOUS
<1>2. /\ step.pc = "schedule" /\ step.batch = <<>> /\ running # <<>>
      /\ running' = Without(running, i)
      /\ Cache!Free(slot[q])
      /\ \/ /\ status' = [status EXCEPT ![q] = "finished"]
            /\ UNCHANGED <<waiting, slot, prompt_ids, output_ids, evictions>>
         \/ Requeue(q)
      /\ step' = [step EXCEPT !.preempted = @ + 1]
  BY <1>1 DEF PreemptOne, BlockPressure
<1>3. /\ status \in [Requests -> {"new", "waiting", "running", "finished"}]
      /\ slot \in [Requests -> Slots \cup {NoSlot}]
      /\ evictions \in [Requests -> Nat]
      /\ prompt_ids \in [Requests -> Seq(Token)]
      /\ step \in StepSet
  BY DEF PlacesInv, TypeOK, StepSet
<1>4. /\ step'.pc = "schedule" /\ step'.batch = <<>> /\ step'.cursor = step.cursor
      /\ Prefilling = <<>> /\ Prefilling' = <<>>
  <2>1. step'.pc = "schedule" /\ step'.batch = <<>> /\ step'.cursor = step.cursor
    BY <1>2, <1>3 DEF StepSet
  <2> QED BY <1>2, <2>1 DEF Prefilling
<1>5. i \in DOMAIN running
  BY <1>1, <1>2, VictimIsRunning DEF PlacesInv
<1>6. \A r \in Requests \ {q} :
          /\ status'[r] = status[r] /\ slot'[r] = slot[r] /\ evictions'[r] = evictions[r]
          /\ prompt_ids'[r] = prompt_ids[r] /\ output_ids'[r] = output_ids[r]
  BY <1>2, <1>3 DEF Requeue
<1>7. \A r \in Requests \ {q} : evictions'[r] <= 1 => KeepsHistory(r)'
  BY <1>1, <1>2, <1>4, <1>5, <1>6, LeavingHistory
<1>8. q \in Requests /\ q \notin ActiveSet'
  BY <1>1, <1>2, <1>4, <1>5, <1>6, DeparturePlaces
<1>9. ~Fresh(q)' /\ output_ids' = output_ids /\ History(q)' = History(q)
  <2>1. Range(<<>>) = {}
    BY DEF Range
  <2> QED BY <1>2, <1>4, <2>1 DEF Fresh, Requeue, History
<1>10. ASSUME evictions'[q] <= 1 PROVE KeepsHistory(q)'
  <2>1. CASE /\ status' = [status EXCEPT ![q] = "finished"]
             /\ UNCHANGED <<waiting, slot, prompt_ids, output_ids, evictions>>
    <3>1. KeepsHistory(q) /\ status'[q] = "finished"
      BY <1>3, <1>8, <1>10, <1>2, <2>1 DEF HistoryInv
    <3> QED BY <1>8, <1>9, <2>1, <3>1 DEF KeepsHistory
  <2>2. CASE Requeue(q)
    <3>1. /\ evictions'[q] = evictions[q] + 1 /\ evictions[q] \in Nat
          /\ prompt_ids'[q] = prompt_ids[q] \o output_ids[q]
      BY <1>3, <1>8, <2>2 DEF Requeue
    <3>2. evictions[q] = 0 /\ evictions'[q] # 0
      BY <1>10, <3>1
    <3>3. prompt_ids[q] = Prompt[q]
      BY <1>2, <1>8, <3>2 DEF HistoryInv, KeepsHistory
    <3>4. prompt_ids'[q] = History(q)
      BY <3>1, <3>3 DEF History
    <3> QED BY <1>8, <1>9, <3>2, <3>4 DEF KeepsHistory
  <2> QED BY <1>2, <2>1, <2>2
<1> QED BY <1>2, <1>4, <1>7, <1>10 DEF HistoryInv

\* A request that arrives has a prompt and no slot.
LEMMA AddRequestHistory ==
    ASSUME PlacesInv, HistoryInv, NEW q \in Requests, AddRequest(q)
    PROVE  HistoryInv'
<1>1. /\ step.pc = "idle" /\ status[q] = "new"
      /\ status' = [status EXCEPT ![q] = "waiting"]
      /\ UNCHANGED <<running, step, slot, prompt_ids, output_ids, evictions, prompt, committed>>
  BY DEF AddRequest, cacheVars
<1>2. status \in [Requests -> {"new", "waiting", "running", "finished"}]
  BY DEF PlacesInv, TypeOK
<1>3. ActiveSet' = ActiveSet
  BY <1>1 DEF ActiveSet, Prefilling
<1>4. \A r : (Fresh(r)' <=> Fresh(r)) /\ (Written(r)' <=> Written(r))
  BY <1>1 DEF Fresh, Written
<1>5. ASSUME NEW r \in Requests, evictions'[r] <= 1 PROVE KeepsHistory(r)'
  <2>1. status'[r] \in {"new", "waiting"} => status[r] \in {"new", "waiting"}
    BY <1>1, <1>2
  <2> QED BY <1>1, <1>3, <1>4, <1>5, <2>1, HistoryFrame
<1> QED BY <1>1, <1>5 DEF HistoryInv

\* An admission gives the head of the queue a blank slot, for its prompt.
LEMMA AdmitHeadKeeps ==
    ASSUME PlacesInv, CacheInv, AdmitHead, NEW q, q = Head(waiting)
    PROVE  /\ step.pc = "schedule" /\ step'.pc = "schedule" /\ step'.cursor = step.cursor
           /\ q \in Requests /\ status[q] = "waiting" /\ q \in ActiveSet' /\ q \notin ActiveSet
           /\ Fresh(q)' /\ prompt'[slot'[q]] = prompt_ids[q] /\ committed'[slot'[q]] = <<>>
           /\ UNCHANGED <<prompt_ids, output_ids, evictions>>
           /\ \A r \in Requests \ {q} :
                 /\ status'[r] = status[r] /\ slot'[r] = slot[r] /\ (Fresh(r)' <=> Fresh(r))
                 /\ r \in ActiveSet' => /\ r \in ActiveSet /\ prompt'[slot[r]] = prompt[slot[r]]
                                        /\ committed'[slot[r]] = committed[slot[r]]
<1>1. PICK s \in freeSlots :
          /\ Cache!Admit(s, prompt_ids[q])
          /\ slot' = [slot EXCEPT ![q] = s]
  BY DEF AdmitHead
<1>2. /\ step.pc = "schedule" /\ waiting # <<>>
      /\ status' = [status EXCEPT ![q] = "running"]
      /\ step' = [step EXCEPT !.batch = Append(@, q), !.tokens = @ + Len(prompt_ids[q])]
      /\ UNCHANGED <<running, prompt_ids, output_ids, evictions>>
  BY DEF AdmitHead, CanAdmit
<1>3. /\ status \in [Requests -> {"new", "waiting", "running", "finished"}]
      /\ slot \in [Requests -> Slots \cup {NoSlot}]
      /\ step \in StepSet /\ step.batch \in Seq(Requests) /\ waiting \in Seq(Requests)
  BY ListTypes DEF PlacesInv, TypeOK, StepSet
<1>4. q \in Requests /\ status[q] = "waiting" /\ q \notin ActiveSet
  <2>1. q \in Requests /\ q \in Range(waiting)
    BY <1>2, <1>3, HeadFacts
  <2> QED BY <1>2, <2>1 DEF PlacesInv, Places
<1>5. /\ step'.pc = "schedule" /\ step'.batch = Append(step.batch, q)
      /\ step'.cursor = step.cursor
  BY <1>2, <1>3 DEF StepSet
<1>6. /\ Range(step'.batch) = Range(step.batch) \cup {q}
      /\ ActiveSet' = ActiveSet \cup {q}
  <2>1. Range(step'.batch) = Range(step.batch) \cup {q}
    BY <1>3, <1>4, <1>5, AppendFacts
  <2>2. Prefilling = step.batch /\ Prefilling' = step'.batch
    BY <1>2, <1>5 DEF Prefilling
  <2> QED BY <1>2, <2>1, <2>2 DEF ActiveSet
<1>7. prompt' = [prompt EXCEPT ![s] = prompt_ids[q]] /\ committed' = committed
  BY <1>1 DEF Cache!Admit
<1>8. slot'[q] = s /\ prompt'[s] = prompt_ids[q] /\ committed'[s] = <<>>
  BY <1>1, <1>3, <1>4, <1>7 DEF CacheInv, KV!LedgerInv, KV!FreeSlotsBlank, KV!TypeOK
<1>9. Fresh(q)'
  BY <1>5, <1>6 DEF Fresh
<1>10. ASSUME NEW r \in Requests \ {q}
       PROVE  /\ status'[r] = status[r] /\ slot'[r] = slot[r] /\ (Fresh(r)' <=> Fresh(r))
              /\ r \in ActiveSet' => /\ r \in ActiveSet /\ prompt'[slot[r]] = prompt[slot[r]]
                                     /\ committed'[slot[r]] = committed[slot[r]]
  <2>1. status'[r] = status[r] /\ slot'[r] = slot[r]
    BY <1>1, <1>2, <1>3
  <2>2. Fresh(r)' <=> Fresh(r)
    BY <1>2, <1>5, <1>6 DEF Fresh
  <2>3. ASSUME r \in ActiveSet'
        PROVE  /\ r \in ActiveSet /\ prompt'[slot[r]] = prompt[slot[r]]
               /\ committed'[slot[r]] = committed[slot[r]]
    <3>1. r \in ActiveSet /\ slot[r] \notin freeSlots
      BY <1>2, <1>6, <2>3 DEF PlacesInv, SlotOfEach
    <3> QED BY <1>1, <1>7, <3>1
  <2> QED BY <2>1, <2>2, <2>3
<1> QED BY <1>2, <1>4, <1>5, <1>6, <1>8, <1>9, <1>10

\* Nothing of its history is in that slot yet, and all of it in its prompt.
LEMMA AdmitHeadHistory ==
    ASSUME PlacesInv, CacheInv, HistoryInv, AdmitHead
    PROVE  HistoryInv'
<1>1. PICK q : q = Head(waiting)
  OBVIOUS
<1>2. /\ step.pc = "schedule" /\ step'.pc = "schedule" /\ step'.cursor = step.cursor
      /\ q \in Requests /\ status[q] = "waiting" /\ q \in ActiveSet'
      /\ Fresh(q)' /\ prompt'[slot'[q]] = prompt_ids[q] /\ committed'[slot'[q]] = <<>>
      /\ UNCHANGED <<prompt_ids, output_ids, evictions>>
      /\ \A r \in Requests \ {q} :
            /\ status'[r] = status[r] /\ slot'[r] = slot[r] /\ (Fresh(r)' <=> Fresh(r))
            /\ r \in ActiveSet' => /\ r \in ActiveSet /\ prompt'[slot[r]] = prompt[slot[r]]
                                   /\ committed'[slot[r]] = committed[slot[r]]
  BY <1>1, AdmitHeadKeeps
<1>3. \A r : ~Written(r) /\ ~Written(r)'
  BY <1>2 DEF Written
<1>4. ASSUME evictions'[q] <= 1 PROVE KeepsHistory(q)'
  <2>1. KeepsHistory(q) /\ History(q)' = History(q)
    BY <1>2, <1>4 DEF HistoryInv, History
  <2>2. InKV(q)' = <<>>
    BY <1>2, <1>3 DEF InKV
  <2> QED BY <1>2, <2>1, <2>2 DEF KeepsHistory
<1>5. ASSUME NEW r \in Requests \ {q}, evictions'[r] <= 1 PROVE KeepsHistory(r)'
  BY <1>2, <1>3, <1>5, HistoryFrame
<1> QED BY <1>2, <1>4, <1>5 DEF HistoryInv

\* Sampling adds one token to the history of each member, whose K/V the
\* forward pass has just completed.
LEMMA EmitHistory ==
    ASSUME PlacesInv, HistoryInv, Emit
    PROVE  HistoryInv'
<1>1. PICK tok \in [Range(step.batch) -> Token] :
          output_ids' = [r \in Requests |->
                            IF r \in Range(step.batch) THEN Append(output_ids[r], tok[r])
                                                       ELSE output_ids[r]]
  BY DEF Emit
<1>2. /\ step.pc = "forward" /\ step.cursor > Len(step.batch)
      /\ step' = [step EXCEPT !.pc = IF step.prefill THEN "store" ELSE "post", !.cursor = 1]
      /\ UNCHANGED <<running, status, slot, prompt_ids, evictions, prompt, committed>>
  BY DEF Emit, cacheVars, queueVars
<1>3. /\ step \in StepSet /\ step.batch \in Seq(Requests) /\ StepShape
      /\ step.cursor \in Nat
  BY ListTypes DEF PlacesInv, TypeOK, StepSet
<1>4. /\ step'.pc \in {"store", "post"} /\ step'.batch = step.batch
      /\ step'.prefill = step.prefill
      /\ step.prefill => step'.pc = "store"
      /\ ~step.prefill => step'.pc = "post"
  <2> DEFINE to == IF step.prefill THEN "store" ELSE "post"
             moved == [step EXCEPT !.pc = to]
  <2>1. /\ to \in {"store", "post"}
        /\ step.prefill => to = "store"
        /\ ~step.prefill => to = "post"
    OBVIOUS
  <2>2. step' = [moved EXCEPT !.cursor = 1]
    BY <1>2
  <2> HIDE DEF to
  <2>3. /\ moved.pc = to /\ moved.batch = step.batch /\ moved.prefill = step.prefill
        /\ moved \in StepSet
    BY <1>3, <2>1 DEF StepSet
  <2> HIDE DEF moved
  <2>4. step'.pc = to /\ step'.batch = step.batch /\ step'.prefill = step.prefill
    BY <2>2, <2>3 DEF StepSet
  <2> QED BY <2>1, <2>4
<1>5. ActiveSet' = ActiveSet /\ Range(step.batch) \subseteq ActiveSet
  <2>1. Range(<<>>) = {}
    BY DEF Range
  <2>2. CASE step.prefill
    <3>1. Prefilling = step.batch /\ Prefilling' = step.batch
      BY <1>2, <1>4, <2>2 DEF Prefilling
    <3> QED BY <1>2, <3>1 DEF ActiveSet
  <2>3. CASE ~step.prefill
    <3>1. Prefilling = <<>> /\ Prefilling' = <<>> /\ step.batch = running
      BY <1>2, <1>3, <1>4, <2>3 DEF Prefilling, StepShape
    <3> QED BY <1>2, <3>1 DEF ActiveSet
  <2> QED BY <2>2, <2>3
<1>6. \A r : /\ ~Fresh(r)' /\ ~Written(r)'
             /\ Written(r) <=> r \in Range(step.batch)
  <2>1. \A i \in DOMAIN step.batch : i < step.cursor
    BY <1>2, <1>3
  <2>2. \A r : r \in Range(step.batch) <=> \E i \in DOMAIN step.batch : step.batch[i] = r
    BY DEF Range
  <2>3. \A r : Written(r) <=> r \in Range(step.batch)
    BY <1>2, <2>1, <2>2 DEF Written
  <2>4. \A r : ~Fresh(r)' /\ ~Written(r)'
    BY <1>4 DEF Fresh, Written
  <2> QED BY <2>3, <2>4
<1>7. SUFFICES ASSUME NEW r \in Requests, evictions'[r] <= 1 PROVE KeepsHistory(r)'
  BY <1>4 DEF HistoryInv
<1>8. CASE r \notin Range(step.batch)
  <2>1. output_ids'[r] = output_ids[r] /\ ~Written(r) /\ ~Fresh(r)
    BY <1>1, <1>6, <1>8 DEF Fresh
  <2> QED BY <1>2, <1>5, <1>6, <1>7, <2>1, HistoryFrame
<1>9. CASE r \in Range(step.batch)
  <2>1. r \in ActiveSet /\ status[r] = "running" /\ status'[r] = "running"
    BY <1>2, <1>5, <1>9 DEF PlacesInv, Places
  <2>2. KeepsHistory(r) /\ InKV(r) = History(r)
    BY <1>2, <1>6, <1>7, <1>9 DEF HistoryInv, InKV
  <2>3. ButLast(History(r)') = History(r)
    <3>1. output_ids'[r] = Append(output_ids[r], tok[r]) /\ tok[r] \in Token
      BY <1>1, <1>9
    <3>2. Prompt[r] \in Seq(Token) /\ output_ids[r] \in Seq(Token)
      BY HistoryTypes
    <3>3. \A p, o \in Seq(Token), t \in Token :
             SubSeq(p \o Append(o, t), 1, Len(p \o Append(o, t)) - 1) = p \o o
      OBVIOUS
    <3> QED BY <3>1, <3>2, <3>3 DEF ButLast, History
  <2>4. InKV(r)' = History(r)
    BY <1>6, <2>3 DEF InKV, ButLast
  <2> QED BY <1>2, <1>5, <1>6, <2>1, <2>2, <2>4 DEF KeepsHistory
<1> QED BY <1>8, <1>9

\* The token fed last is the last of the history.
LEMMA LastOfHistory ==
    ASSUME PlacesInv, NEW r \in Requests, output_ids[r] # <<>>
    PROVE  /\ LastToken(r) = History(r)[Len(History(r))]
           /\ Append(ButLast(History(r)), LastToken(r)) = History(r)
<1>1. /\ Prompt[r] \in Seq(Token) /\ output_ids[r] \in Seq(Token)
      /\ LastToken(r) = output_ids[r][Len(output_ids[r])]
  BY HistoryTypes DEF LastToken
<1>2. ASSUME NEW p \in Seq(Token), NEW o \in Seq(Token), o # <<>>
      PROVE  /\ (p \o o)[Len(p \o o)] = o[Len(o)]
             /\ Append(SubSeq(p \o o, 1, Len(p \o o) - 1), o[Len(o)]) = p \o o
  <2> DEFINE h == p \o o
             v == SubSeq(h, 1, Len(h) - 1)
             u == Append(v, o[Len(o)])
  <2>1. /\ h \in Seq(Token) /\ Len(h) = Len(p) + Len(o) /\ Len(o) \in Nat \ {0}
        /\ Len(p) \in Nat /\ h[Len(h)] = o[Len(o)] /\ o[Len(o)] \in Token
    <3>1. Len(o) \in Nat \ {0} /\ Len(p) \in Nat
      BY <1>2, EmptySeq
    <3> QED BY <3>1
  <2> HIDE DEF h
  <2>2. v \in Seq(Token) /\ Len(v) = Len(h) - 1 /\ \A i \in 1..Len(h) - 1 : v[i] = h[i]
    BY <2>1
  <2> HIDE DEF v
  <2>3. u \in Seq(Token) /\ Len(u) = Len(h) /\ \A i \in 1..Len(h) : u[i] = h[i]
    BY <2>1, <2>2, SMTT(30)
  <2> HIDE DEF u
  <2>4. u = h
    BY <2>1, <2>3, SeqEqual
  <2> QED BY <2>1, <2>4 DEF u, v, h
<1> QED BY <1>1, <1>2 DEF History, ButLast

\* The forward pass completes the K/V of one member's history: its prompt,
\* or the token it feeds.
LEMMA WriteKVHistory ==
    ASSUME PlacesInv, EvictionsPaidInv, HistoryInv, CacheInv, WriteKV
    PROVE  HistoryInv'
<1>1. /\ step.pc = "forward" /\ step.cursor <= Len(step.batch)
      /\ step' = [step EXCEPT !.cursor = @ + 1]
      /\ UNCHANGED <<running, status, slot, prompt_ids, output_ids, evictions>>
  BY DEF WriteKV, queueVars, seqVars
<1>2. /\ step \in StepSet /\ step.batch \in Seq(Requests) /\ StepShape
      /\ step.cursor \in Nat \ {0} /\ step.cursor \in DOMAIN step.batch
  BY <1>1, ListTypes DEF PlacesInv, TypeOK, StepSet
<1>3. PICK m : m = Member
  OBVIOUS
<1>4. /\ step'.pc = "forward" /\ step'.batch = step.batch /\ step'.prefill = step.prefill
      /\ step'.cursor = step.cursor + 1
  BY <1>1, <1>2 DEF StepSet
<1>5. ActiveSet' = ActiveSet /\ m \in ActiveSet /\ m \in Requests /\ m \in Range(step.batch)
      /\ NoDuplicates(step.batch)
  <2>1. m \in Range(step.batch) /\ m \in Requests
    BY <1>2, <1>3, RangeOfList DEF Member
  <2>2. Prefilling' = Prefilling
    BY <1>1, <1>4 DEF Prefilling
  <2>3. CASE step.prefill
    <3>1. Prefilling = step.batch
      BY <1>1, <2>3 DEF Prefilling
    <3> QED BY <1>1, <2>1, <2>2, <3>1 DEF ActiveSet, PlacesInv, Places
  <2>4. CASE ~step.prefill
    <3>1. step.batch = running
      BY <1>1, <1>2, <2>4 DEF StepShape
    <3> QED BY <1>1, <2>1, <2>2, <3>1 DEF ActiveSet, PlacesInv, Places
  <2> QED BY <2>3, <2>4
<1>6. \A r : Fresh(r)' <=> Fresh(r)
  BY <1>1, <1>4 DEF Fresh
<1>7. ~Written(m) /\ \A r : Written(r)' <=> (Written(r) \/ r = m)
  <2>1. m = step.batch[step.cursor]
    BY <1>3 DEF Member
  <2>2. \A i \in DOMAIN step.batch : i < step.cursor + 1 <=> (i < step.cursor \/ i = step.cursor)
    BY <1>2
  <2>3. \A r : Written(r)' <=> (Written(r) \/ r = m)
    BY <1>1, <1>2, <1>4, <2>1, <2>2 DEF Written
  <2>4. \A i \in DOMAIN step.batch : step.batch[i] = m => i = step.cursor
    BY <1>2, <1>5, <2>1 DEF NoDuplicates
  <2>5. ~ (step.cursor < step.cursor)
    BY <1>2
  <2> QED BY <2>3, <2>4, <2>5 DEF Written
<1>8. PICK w : prompt' = prompt /\ committed' = [committed EXCEPT ![slot[m]] = w]
               /\ (evictions[m] <= 1 => w = History(m))
  <2>1. CASE step.prefill
    <3>1. PICK start : Cache!WritePrefill(slot[m], start)
      BY <1>3, <2>1 DEF WriteKV
    <3>2. /\ prompt' = prompt
          /\ committed' = [committed EXCEPT ![slot[m]] = prompt[slot[m]]]
      BY <3>1 DEF Cache!WritePrefill
    <3>3. evictions[m] <= 1 => prompt[slot[m]] = History(m)
      BY <1>1, <1>5, <2>1 DEF HistoryInv, KeepsHistory, Fresh
    <3> QED BY <3>2, <3>3
  <2>2. CASE ~step.prefill
    <3>1. Cache!WriteDecode(slot[m], LastToken(m))
      BY <1>3, <2>2 DEF WriteKV
    <3>2. /\ prompt' = prompt
          /\ committed' = [committed EXCEPT ![slot[m]] =
                              Append(committed[slot[m]], LastToken(m))]
      BY <3>1 DEF Cache!WriteDecode
    <3>3. output_ids[m] # <<>>
      <4>1. evictions[m] < Len(output_ids[m]) /\ evictions[m] \in Nat
        BY <1>1, <1>2, <1>5, <2>2, HistoryTypes DEF EvictionsPaidInv, StepShape
      <4> QED BY <4>1
    <3>4. evictions[m] <= 1 => committed[slot[m]] = ButLast(History(m))
      BY <1>1, <1>5, <1>7, <2>2 DEF HistoryInv, KeepsHistory, Fresh, InKV
    <3> QED BY <1>5, <3>2, <3>3, <3>4, LastOfHistory
  <2> QED BY <2>1, <2>2
<1>9. ASSUME NEW r \in Requests \ {m}, evictions'[r] <= 1 PROVE KeepsHistory(r)'
  <2>1. ASSUME r \in ActiveSet' PROVE committed'[slot[r]] = committed[slot[r]]
    <3>1. slot[r] # slot[m]
      BY <1>1, <1>5, <2>1 DEF PlacesInv, SlotOfEach
    <3> QED BY <1>8, <3>1
  <2> QED BY <1>1, <1>5, <1>6, <1>7, <1>8, <1>9, <2>1, HistoryFrame
<1>10. ASSUME evictions'[m] <= 1 PROVE KeepsHistory(m)'
  <2>1. KeepsHistory(m) /\ History(m)' = History(m)
    BY <1>1, <1>5, <1>10 DEF HistoryInv, History
  <2>2. InKV(m)' = History(m)
    BY <1>7, <2>1 DEF InKV
  <2>3. committed'[slot[m]] = History(m)
    <3>1. slot[m] \in Slots
      BY <1>1, <1>5 DEF PlacesInv, SlotOfEach
    <3>2. committed \in [Slots -> Seq(Token)]
      BY DEF CacheInv, KV!LedgerInv, KV!TypeOK
    <3> QED BY <1>1, <1>8, <1>10, <3>1, <3>2
  <2> QED BY <1>1, <1>5, <1>6, <1>8, <2>1, <2>2, <2>3 DEF KeepsHistory
<1> QED BY <1>4, <1>9, <1>10 DEF HistoryInv

\* Every step keeps the history of every sequence in its slot.
LEMMA NextHistory ==
    ASSUME PlacesInv, EvictionsPaidInv, CacheInv, HistoryInv, [Next]_vars
    PROVE  HistoryInv'
<1>1. CASE \E r \in Requests : AddRequest(r)
  BY <1>1, AddRequestHistory
<1>2. CASE AdmitHead
  BY <1>2, AdmitHeadHistory
<1>3. CASE PreemptOne
  BY <1>3, PreemptOneHistory
<1>4. CASE WriteKV
  BY <1>4, WriteKVHistory
<1>5. CASE Emit
  BY <1>5, EmitHistory
<1>6. CASE FreeFinished
  BY <1>6, FreeFinishedHistory
<1>7. CASE \/ BeginStep \/ StartPrefill \/ StartDecode \/ GrowTable
           \/ StoreNext \/ StoreLoop \/ StoreDone \/ EndStep
  BY <1>7, StepHistory
<1>8. CASE OutOfBlocks \/ PastTable
  <2>1. step' = Raised
    BY <1>8 DEF OutOfBlocks, PastTable
  <2>2. step'.pc = "dead"
    BY <2>1 DEF Raised, Returned
  <2> QED BY <2>2 DEF HistoryInv
<1>9. CASE UNCHANGED vars
  <2>1. UNCHANGED <<running, step, status, slot, prompt_ids, output_ids, evictions, prompt,
                    committed>>
    BY <1>9 DEF vars, cacheVars, queueVars, seqVars
  <2>2. \A r : (Fresh(r)' <=> Fresh(r)) /\ (Written(r)' <=> Written(r))
    BY <2>1 DEF Fresh, Written
  <2>3. ActiveSet' = ActiveSet
    BY <2>1 DEF ActiveSet, Prefilling
  <2> QED BY <2>1, <2>2, <2>3, CallHistory DEF HistoryInv
<1> QED BY <1>1, <1>2, <1>3, <1>4, <1>5, <1>6, <1>7, <1>8, <1>9 DEF Next, StepCall

\* Between calls a sequence in the running list has all of its history but the
\* last token in its slot, and reads it there.
LEMMA HistoryRead ==
    ASSUME PlacesInv, EvictionsPaidInv, CacheInv, HistoryInv, step.pc = "idle",
           NEW r \in Range(running), evictions[r] <= 1
    PROVE  KVIsHistory(r)
<1>1. r \in ActiveSet /\ r \in Requests
  BY ListTypes, RangeOfList DEF PlacesInv, ActiveSet
<1>2. committed[slot[r]] = ButLast(History(r))
  BY <1>1 DEF HistoryInv, KeepsHistory, InKV, Fresh, Written
<1>3. LastToken(r) = History(r)[Len(History(r))]
  <2>1. evictions[r] < Len(output_ids[r]) /\ evictions[r] \in Nat
    BY <1>1, HistoryTypes DEF EvictionsPaidInv
  <2>2. output_ids[r] # <<>>
    BY <2>1
  <2> QED BY <1>1, <2>2, LastOfHistory
<1>4. ASSUME NEW i \in 1..Cache!BlocksFor(Len(committed[slot[r]]))
      PROVE  Cache!Holds(slotBlocks[slot[r]][i], committed[slot[r]], i)
  <2>1. slot[r] \in KV!Allocated
    BY <1>1 DEF PlacesInv, SlotOfEach, KV!Allocated
  <2>2. i \in 1..KV!BlocksFor(Len(committed[slot[r]]))
    BY DEF Cache!BlocksFor, KV!BlocksFor
  <2>3. KV!Holds(slotBlocks[slot[r]][i], committed[slot[r]], i)
    BY <2>1, <2>2, KV!ContentsRead, EngineConstants, SameSets DEF CacheInv, KV!ReadsOwnContext
  <2> QED BY <2>3 DEF Cache!Holds, KV!Holds, Cache!BlocksFor, KV!BlocksFor, Cache!MinOf, KV!MinOf
<1> QED BY <1>2, <1>3, <1>4 DEF KVIsHistory

\* Between calls every sequence preempted at most once decodes from its own
\* history, in blocks that others share, store, evict and rewrite: HistoryInKV
\* for every instance in which a preempted sequence may be queued again.
THEOREM HistoryAlwaysInKV ==
    ASSUME PromptsClosed
    PROVE  Spec => []HistoryInKV
<1> DEFINE All == /\ PlacesInv /\ EvictionsPaidInv /\ PromptsFit
                  /\ CacheInv /\ HistoryInv
<1>1. Init => All
  <2>1. Init => PromptsFit
    BY EngineConstants DEF Init, PromptsFit
  <2>2. Init => CacheInv
    BY CacheStarts DEF Init
  <2> QED BY <2>1, <2>2, InitPlaces, InitPaid, InitHistory
<1>2. All /\ [Next]_vars => All'
  BY NextPlaces, NextPaid, NextPrompts, NextCache, NextHistory
<1>3. All => HistoryInKV
  BY HistoryRead DEF HistoryInKV
<1> HIDE DEF All
<1> QED BY <1>1, <1>2, <1>3, PTL DEF Spec

\* Nothing is ever read in the engine's cache but the context of the slot that
\* reads it: the ledger and the contents of the cache, under the engine.
THEOREM EngineCacheInOrder ==
    ASSUME PromptsClosed
    PROVE  Spec => []CacheInv
<1> DEFINE All == PlacesInv /\ PromptsFit /\ CacheInv
<1>1. Init => All
  <2>1. Init => PromptsFit
    BY EngineConstants DEF Init, PromptsFit
  <2>2. Init => CacheInv
    BY CacheStarts DEF Init
  <2> QED BY <2>1, <2>2, InitPlaces
<1>2. All /\ [Next]_vars => All'
  BY NextPlaces, NextPrompts, NextCache
<1>3. All => CacheInv
  OBVIOUS
<1> HIDE DEF All
<1> QED BY <1>1, <1>2, <1>3, PTL DEF Spec
=============================================================================
