----------------------------- MODULE PartsProofs -----------------------------
(***************************************************************************)
(* The parts of Parts.tla, one machine after the other: the inductive      *)
(* invariant of each, that its steps keep it, and what follows from it in  *)
(* every behaviour of PartsSpec, whatever the constants.                   *)
(***************************************************************************)
EXTENDS Parts, ListProofs

\* What the modules of the machines take from the libraries are the same
\* operators as here.
LEMMA Libraries ==
    /\ \A S : Forging!IsFiniteSet(S) = IsFiniteSet(S)
    /\ \A S : Denoising!Cardinality(S) = Cardinality(S)
    /\ \A f : Forging!SumFunction(f) = SumFunction(f)
    /\ \A f, S : Forging!SumFunctionOnSet(f, S) = SumFunctionOnSet(f, S)
    /\ \A S : Compacting!Cardinality(S) = Cardinality(S)
    /\ \A f : Compacting!IsInjective(f) = IsInjective(f)
    /\ \A f : Compacting!SumFunction(f) = SumFunction(f)
    /\ \A q, K : Compacting!Picked(q, K) = Picked(q, K)
    /\ \A S : Metrics!IsFiniteSet(S) = IsFiniteSet(S)
    /\ \A S : Metrics!Cardinality(S) = Cardinality(S)
    /\ \A f : Metrics!SumFunction(f) = SumFunction(f)
    /\ \A q, K : Metrics!Picked(q, K) = Picked(q, K)
<1>1. \A S : Forging!IsFiniteSet(S) = IsFiniteSet(S)
  BY DEF IsFiniteSet, Forging!IsFiniteSet
<1>2. \A S : Denoising!Cardinality(S) = Cardinality(S)
  BY DEF Cardinality, Denoising!Cardinality
<1>3. \A f, S : Forging!SumFunctionOnSet(f, S) = SumFunctionOnSet(f, S)
  BY DEF SumFunctionOnSet, Forging!SumFunctionOnSet, FoldFunctionOnSet,
         Forging!FoldFunctionOnSet, MapThenFoldSet, Forging!MapThenFoldSet
<1>4. \A f : Forging!SumFunction(f) = SumFunction(f)
  BY <1>3 DEF SumFunction, Forging!SumFunction
<1>5. \A S : Compacting!Cardinality(S) = Cardinality(S)
  BY DEF Cardinality, Compacting!Cardinality
<1>6. \A f : Compacting!IsInjective(f) = IsInjective(f)
  BY DEF IsInjective, Compacting!IsInjective
<1>7. \A f, S : Compacting!SumFunctionOnSet(f, S) = SumFunctionOnSet(f, S)
  BY DEF SumFunctionOnSet, Compacting!SumFunctionOnSet, FoldFunctionOnSet,
         Compacting!FoldFunctionOnSet, MapThenFoldSet, Compacting!MapThenFoldSet
<1>8. \A f : Compacting!SumFunction(f) = SumFunction(f)
  BY <1>7 DEF SumFunction, Compacting!SumFunction
<1>9. \A q, K : Compacting!Picked(q, K) = Picked(q, K)
  BY DEF Picked, Compacting!Picked, Cardinality, Compacting!Cardinality
<1>10. \A S : Metrics!IsFiniteSet(S) = IsFiniteSet(S)
  BY DEF IsFiniteSet, Metrics!IsFiniteSet
<1>11. \A S : Metrics!Cardinality(S) = Cardinality(S)
  BY DEF Cardinality, Metrics!Cardinality
<1>12. \A f, S : Metrics!SumFunctionOnSet(f, S) = SumFunctionOnSet(f, S)
  BY DEF SumFunctionOnSet, Metrics!SumFunctionOnSet, FoldFunctionOnSet,
         Metrics!FoldFunctionOnSet, MapThenFoldSet, Metrics!MapThenFoldSet
<1>13. \A f : Metrics!SumFunction(f) = SumFunction(f)
  BY <1>12 DEF SumFunction, Metrics!SumFunction
<1>14. \A q, K : Metrics!Picked(q, K) = Picked(q, K)
  BY DEF Picked, Metrics!Picked, Cardinality, Metrics!Cardinality
<1> QED BY <1>1, <1>2, <1>3, <1>4, <1>5, <1>6, <1>8, <1>9, <1>10, <1>11, <1>13, <1>14

-----------------------------------------------------------------------------
(* Forge *)

-----------------------------------------------------------------------------
(* The invariant *)

Places == {"idle", "next", "begin", "download", "shard", "remove", "dit", "finalize", "record",
           "failing", "purge"}
Stored == UNION {Forging!Expected(o) : o \in Forging!Outs}

\* The types; a staging directory holds shards of its checkpoint.
ForgeType ==
    [pc : Places, queue : Seq(Forging!Lines), batch : BOOLEAN, launches : Nat, disk : Disks,
     job : Forging!Lines \cup {Forging!NoJob}, at : Nat, probed : BOOLEAN, orderly : BOOLEAN,
     direct : BOOLEAN, staged : [Forging!Repos -> SUBSET Nat],
     weights : [Forging!Outs -> [state : {"absent", "partial", "whole"}, tensors : SUBSET Stored]],
     status : [Forging!Repos -> {"none", "skipped_disk", "downloading", "done", "failed"}],
     outputs : SUBSET Forging!Outs, torn : BOOLEAN]
ForgeTyped ==
    /\ forge \in ForgeType
    /\ \A r \in Forging!Repos : forge.staged[r] \subseteq DOMAIN Checkpoint[r]

\* What the output of a job has before its shard n.
Earlier(n) ==
    UNION {Forging!Quantized(Checkpoint[Forging!Job.repo][k], Forging!Job.bits, Forging!ScalesOf(Forging!Job.repo, k)) : k \in 1..n - 1}

Converting == forge.pc \in {"shard", "remove", "dit", "finalize"}

\* What every file has.
Files ==
    \A o \in Forging!Outs :
        /\ forge.weights[o].tensors \subseteq Forging!Expected(o)
        /\ forge.weights[o].state = "whole" => forge.weights[o].tensors = Forging!Expected(o)
        /\ forge.weights[o].state = "partial" => forge.direct
        /\ forge.weights[o].state = "absent" /\ ~(Converting /\ o = Forging!Out) =>
              forge.weights[o].tensors = {}
        /\ o \in forge.outputs => forge.weights[o].state = "whole"

\* What the file of the job at hand has.
Working ==
    /\ forge.pc \notin {"idle", "next"} => Forging!Job \in Forging!Lines
    /\ forge.pc = "download" => forge.weights[Forging!Out].state = "absent"
    /\ Converting => forge.weights[Forging!Out].state = IF forge.direct THEN "partial" ELSE "absent"
    /\ forge.pc \in {"shard", "remove"} =>
          /\ Forging!Job.kind = "llm"
          /\ forge.at \in Forging!Shards
          /\ forge.staged[Forging!Job.repo] = forge.at..Len(Checkpoint[Forging!Job.repo])
          /\ forge.weights[Forging!Out].tensors = Earlier(IF forge.pc = "shard" THEN forge.at ELSE forge.at + 1)
    /\ forge.pc = "dit" => Forging!Job.kind = "dit"
    /\ forge.pc = "finalize" => forge.weights[Forging!Out].tensors = Forging!Expected(Forging!Out)
    /\ forge.pc = "record" => forge.weights[Forging!Out].state = "whole"

\* A batch has the staging of the job at hand only.
Stages ==
    /\ forge.pc # "idle" => ~forge.orderly
    /\ forge.batch /\ forge.pc \in {"next", "begin"} => \A r \in Forging!Repos : forge.staged[r] = {}
    /\ forge.batch /\ forge.pc # "idle" => \A r \in Forging!Repos : forge.staged[r] # {} => r = Forging!Job.repo
    /\ forge.batch /\ forge.pc = "idle" /\ forge.orderly => \A r \in Forging!Repos : forge.staged[r] = {}

\* The space that was probed for a download is there, or taken by what of
\* it has arrived.
Space ==
    /\ forge.pc = "begin" => ~forge.probed
    /\ forge.probed /\ Forging!Job.kind = "llm" =>
          /\ forge.pc = "download" =>
                Forging!Free + SumFunctionOnSet(Forging!ShardSizes(Forging!Job.repo), forge.staged[Forging!Job.repo])
                    >= Floor + Forging!RepoSize(Forging!Job.repo)
          /\ forge.pc \in {"shard", "finalize"} => Forging!Free >= Floor
          /\ forge.pc = "remove" =>
                Forging!Free + Forging!OutputSize(Forging!Quantized(Checkpoint[Forging!Job.repo][forge.at], Forging!Job.bits,
                                            Forging!ScalesOf(Forging!Job.repo, forge.at))) >= Floor

ForgeInv == ForgeTyped /\ Files /\ Working /\ Stages /\ Space

-----------------------------------------------------------------------------
(* Sizes *)

\* The shards of a checkpoint have sizes.
LEMMA ShardFacts ==
    ASSUME Forging!ForgeConstants, NEW r \in Forging!Repos
    PROVE  /\ IsFiniteSet(DOMAIN Checkpoint[r])
           /\ DOMAIN Checkpoint[r] = 1..Len(Checkpoint[r]) /\ Len(Checkpoint[r]) \in Nat \ {0}
           /\ \A k \in DOMAIN Checkpoint[r] :
                 Forging!ShardSizes(r)[k] = Forging!ShardSize(r, k) /\ Forging!ShardSize(r, k) \in Nat
           /\ DOMAIN Forging!ShardSizes(r) = DOMAIN Checkpoint[r]
<1>1. DOMAIN Checkpoint[r] = 1..Len(Checkpoint[r]) /\ Len(Checkpoint[r]) \in Nat \ {0}
  BY Libraries DEF Forging!ForgeConstants
<1>2. IsFiniteSet(1..Len(Checkpoint[r]))
  BY <1>1, FS_Interval
<1>3. ASSUME NEW k \in DOMAIN Checkpoint[r] PROVE Forging!ShardSize(r, k) \in Nat
  <2> DEFINE f == [t \in Checkpoint[r][k] |-> Forging!SizeOf(t)]
  <2>1. \A t \in Checkpoint[r][k] : Forging!SizeOf(t) \in Nat
    BY DEF Forging!SizeOf
  <2>2. IsFiniteSet(Checkpoint[r][k])
    BY Libraries DEF Forging!ForgeConstants
  <2>3. DOMAIN f = Checkpoint[r][k] /\ \A t \in Checkpoint[r][k] : f[t] \in Nat
    BY <2>1
  <2> HIDE DEF f
  <2>4. SumFunctionOnSet(f, DOMAIN f) \in Nat
    BY <2>2, <2>3, SumFacts
  <2> QED BY <2>4, Libraries DEF f, Forging!ShardSize, SumFunction
<1> QED BY <1>1, <1>2, <1>3 DEF Forging!ShardSizes

\* What a shard is quantized to is finite and takes no more than the shard.
LEMMA QuantizedFits ==
    ASSUME Forging!ForgeConstants, NEW r \in Forging!Repos, NEW k \in DOMAIN Checkpoint[r], NEW bits, NEW scales
    PROVE  /\ IsFiniteSet(Forging!Quantized(Checkpoint[r][k], bits, scales))
           /\ Forging!OutputSize(Forging!Quantized(Checkpoint[r][k], bits, scales)) \in Nat
           /\ Forging!OutputSize(Forging!Quantized(Checkpoint[r][k], bits, scales)) <= Forging!ShardSize(r, k)
<1> DEFINE S == Checkpoint[r][k]
           R == {u \in S : u.form # "scale"}
           Of(t) == {[name |-> n, scheme |-> Forging!Scheme(t, bits), valued |-> Forging!Valued(t, scales)] :
                        n \in Forging!Renamed(t)}
           F == [t \in R |-> Of(t)]
           v == [t \in S |-> Forging!SizeOf(t)]
           Q == Forging!Quantized(S, bits, scales)
           w == [x \in Q |-> Forging!StoredSize(x)]
<1>1. IsFiniteSet(S) /\ IsFiniteSet(R) /\ \A t \in S : t.fp8 \in BOOLEAN /\ (t.fp8 => t.form # "raw")
  <2>1. IsFiniteSet(S) /\ \A t \in S : t.fp8 \in BOOLEAN /\ (t.fp8 => t.form # "raw")
    BY Libraries DEF Forging!ForgeConstants
  <2> QED BY <2>1, FS_Subset
<1>2. Q = UNION {F[t] : t \in R}
  BY ZenonT(60) DEF Forging!Quantized
<1>3. \A x \in Q : w[x] = Forging!StoredSize(x) /\ w[x] \in Nat
  BY DEF Forging!StoredSize
<1>4. \A t \in S : v[t] = Forging!SizeOf(t) /\ v[t] \in Nat
  BY DEF Forging!SizeOf
<1>5. ASSUME NEW t \in R
      PROVE  /\ IsFiniteSet(F[t])
             /\ F[t] \subseteq Q
             /\ SumFunctionOnSet(w, F[t]) <= v[t]
  <2> DEFINE One(n) == [name |-> n, scheme |-> Forging!Scheme(t, bits), valued |-> Forging!Valued(t, scales)]
  <2>1. F[t] = {One(n) : n \in Forging!Renamed(t)} /\ F[t] \subseteq Q
    BY <1>2
  <2>2. \A n : Forging!StoredSize(One(n)) = (CASE Forging!Scheme(t, bits) = "raw" -> 4
                                       [] Forging!Scheme(t, bits) = "per_row_i8" -> 2 [] OTHER -> 1)
    BY DEF Forging!StoredSize
  <2>3. \A n : /\ Forging!StoredSize(One(n)) \in Nat
               /\ Forging!StoredSize(One(n)) <= (IF t.fp8 THEN 2 ELSE 4)
    BY <1>1, <2>2 DEF Forging!Scheme
  <2>4. \A n : One(n) \in F[t] => w[One(n)] = Forging!StoredSize(One(n))
    BY <1>3, <2>1
  <2>5. \A n : One(n) \in F[t] =>
            SumFunctionOnSet(w, {One(n)}) = Forging!StoredSize(One(n)) /\ IsFiniteSet({One(n)})
    <3> SUFFICES ASSUME NEW n, One(n) \in F[t]
                 PROVE  SumFunctionOnSet(w, {One(n)}) = Forging!StoredSize(One(n)) /\ IsFiniteSet({One(n)})
      OBVIOUS
    <3> DEFINE e == One(n)
    <3>1. w[e] = Forging!StoredSize(e) /\ w[e] \in Nat
      BY <2>3, <2>4
    <3> HIDE DEF One, w, e
    <3>2. IsFiniteSet({e})
      BY FS_Singleton
    <3>3. SumFunctionOnSet(w, {e}) = w[e] + SumFunctionOnSet(w, {e} \ {e})
      <4>1. \A x \in {e} : w[x] \in Nat
        BY <3>1
      <4> QED BY <3>2, <4>1, SumFacts
    <3>4. SumFunctionOnSet(w, {e} \ {e}) = 0
      <4>1. IsFiniteSet({}) /\ \A x \in {} : w[x] \in Nat
        BY FS_EmptySet
      <4>2. SumFunctionOnSet(w, {}) = 0
        BY <4>1, SumFacts
      <4>3. {e} \ {e} = {}
        OBVIOUS
      <4> HIDE DEF e
      <4> QED BY <4>2, <4>3
    <3>5. SumFunctionOnSet(w, {e}) = w[e]
      BY <3>1, <3>3, <3>4
    <3> QED BY <3>1, <3>2, <3>5 DEF e
  <2>6. CASE t.form # "fused"
    <3>1. F[t] = {One(<<t.name>>)}
      BY <2>1, <2>6 DEF Forging!Renamed
    <3>2. One(<<t.name>>) \in F[t]
      BY <3>1
    <3>3. v[t] = IF t.fp8 THEN 2 ELSE 4
      BY <1>4, <2>6 DEF Forging!SizeOf
    <3> HIDE DEF One, F, v, w
    <3> QED BY <2>1, <2>3, <2>5, <3>1, <3>2, <3>3
  <2>7. CASE t.form = "fused"
    <3> DEFINE a == One(<<t.name, "qkv">>)
               b == One(<<t.name, "z">>)
    <3>1. F[t] = {a} \cup {b}
      BY <2>1, <2>7 DEF Forging!Renamed
    <3>2. v[t] = IF t.fp8 THEN 4 ELSE 8
      BY <1>4, <2>7 DEF Forging!SizeOf
    <3>3. IsFiniteSet({a}) /\ IsFiniteSet({b}) /\ IsFiniteSet({a} \cup {b})
      BY FS_Singleton, FS_Union
    <3>4. \A x \in {a} \cup {b} : w[x] \in Nat
      BY <2>3, <2>4, <3>1
    <3>5. SumFunctionOnSet(w, {a} \cup {b}) <= SumFunctionOnSet(w, {a}) + SumFunctionOnSet(w, {b})
      <4> HIDE DEF a, b, w, One
      <4> QED BY <3>3, <3>4, SumUnion
    <3>6. SumFunctionOnSet(w, {a} \cup {b}) \in Nat
      <4> HIDE DEF a, b, w, One
      <4> QED BY <3>3, <3>4, SumFacts
    <3>7. /\ SumFunctionOnSet(w, {a}) = Forging!StoredSize(a)
          /\ SumFunctionOnSet(w, {b}) = Forging!StoredSize(b)
      <4>1. a \in F[t] /\ b \in F[t]
        BY <3>1
      <4> QED BY <2>5, <4>1
    <3>8. /\ Forging!StoredSize(a) \in Nat /\ Forging!StoredSize(a) <= (IF t.fp8 THEN 2 ELSE 4)
          /\ Forging!StoredSize(b) \in Nat /\ Forging!StoredSize(b) <= (IF t.fp8 THEN 2 ELSE 4)
      BY <2>3
    <3> HIDE DEF a, b, F, v, w, One
    <3>9. SumFunctionOnSet(w, F[t]) <= v[t]
      <4>1. Forging!StoredSize(a) + Forging!StoredSize(b) <= (IF t.fp8 THEN 4 ELSE 8)
        BY <3>8
      <4>2. SumFunctionOnSet(w, F[t]) <= Forging!StoredSize(a) + Forging!StoredSize(b)
        BY <3>1, <3>5, <3>7
      <4>3. SumFunctionOnSet(w, F[t]) \in Nat
        BY <3>1, <3>6
      <4> QED BY <3>2, <3>8, <4>1, <4>2, <4>3
    <3> QED BY <2>1, <3>1, <3>3, <3>9
  <2> QED BY <2>6, <2>7
<1>6. /\ IsFiniteSet(Q) /\ SumFunctionOnSet(w, Q) \in Nat
      /\ SumFunctionOnSet(w, Q) <= SumFunctionOnSet(v, R)
  <2>1. \A t \in R : /\ IsFiniteSet(F[t]) /\ v[t] \in Nat
                     /\ \A x \in F[t] : w[x] \in Nat
                     /\ SumFunctionOnSet(w, F[t]) <= v[t]
    BY <1>3, <1>4, <1>5
  <2> HIDE DEF R, F, v, w, Q
  <2>2. /\ IsFiniteSet(UNION {F[t] : t \in R})
        /\ SumFunctionOnSet(w, UNION {F[t] : t \in R}) \in Nat
        /\ SumFunctionOnSet(w, UNION {F[t] : t \in R}) <= SumFunctionOnSet(v, R)
    <3> HIDE <1>2
    <3> QED BY <1>1, <2>1, SumOfUnion
  <2> QED BY <1>2, <2>2
<1>7. SumFunctionOnSet(v, R) <= SumFunctionOnSet(v, S) /\ SumFunctionOnSet(v, R) \in Nat
      /\ SumFunctionOnSet(v, S) \in Nat
  <2>1. R \cup S = S
    OBVIOUS
  <2> HIDE DEF v, R, S
  <2>2. \A x \in R \cup S : v[x] \in Nat
    BY <1>4, <2>1
  <2>3. SumFunctionOnSet(v, R) <= SumFunctionOnSet(v, R \cup S)
    BY <1>1, <2>2, SumUnion
  <2>4. SumFunctionOnSet(v, R) \in Nat /\ SumFunctionOnSet(v, S) \in Nat
    BY <1>1, <2>1, <2>2, SumFacts
  <2> QED BY <2>1, <2>3, <2>4
<1>8. /\ Forging!OutputSize(Q) = SumFunctionOnSet(w, Q)
      /\ Forging!ShardSize(r, k) = SumFunctionOnSet(v, S)
  BY Libraries DEF Forging!OutputSize, Forging!ShardSize, SumFunction
<1> HIDE DEF Q, w, v, R, S
<1>9. IsFiniteSet(Q) /\ Forging!OutputSize(Q) \in Nat /\ Forging!OutputSize(Q) <= Forging!ShardSize(r, k)
  BY <1>6, <1>7, <1>8
<1> QED BY <1>9 DEF Q, S

\* What the builder needs of a checkpoint is what its shards are quantized to,
\* with the scales of all of them, or with none where nothing is in fp8.
LEMMA ExpectedFacts ==
    ASSUME Forging!ForgeConstants, NEW l \in Forging!Lines, NEW o, o = [repo |-> l.repo, bits |-> l.bits]
    PROVE  /\ o \in Forging!Outs /\ l.repo \in Forging!Repos
           /\ Forging!Expected(o) = UNION {Forging!Quantized(Checkpoint[l.repo][k], l.bits, Forging!ScalesOf(l.repo, k)) :
                                      k \in DOMAIN Checkpoint[l.repo]}
           /\ l.kind = "dit" => Forging!Expected(o) = UNION {Forging!Quantized(Checkpoint[l.repo][k], l.bits, {}) :
                                                        k \in DOMAIN Checkpoint[l.repo]}
           /\ IsFiniteSet(Forging!Expected(o))
<1> DEFINE C == Checkpoint[l.repo]
           D == DOMAIN C
           Of(t, s) == {[name |-> n, scheme |-> Forging!Scheme(t, l.bits), valued |-> Forging!Valued(t, s)] :
                           n \in Forging!Renamed(t)}
           Whole(t) == {[name |-> n, scheme |-> Forging!Scheme(t, l.bits), valued |-> TRUE] :
                           n \in Forging!Renamed(t)}
           Q == {Forging!Quantized(C[k], l.bits, Forging!ScalesOf(l.repo, k)) : k \in D}
<1>1. o \in Forging!Outs /\ l.repo \in Forging!Repos /\ o.repo = l.repo /\ o.bits = l.bits
  BY Libraries DEF Forging!Outs, Forging!ForgeConstants
<1>2. \A k \in D : \A t \in C[k] :
          t.fp8 \in BOOLEAN
          /\ (t.form # "scale" => /\ Forging!Valued(t, Forging!ScalesOf(l.repo, k)) = TRUE
                                  /\ l.kind = "dit" => Forging!Valued(t, {}) = TRUE)
  <2> SUFFICES ASSUME NEW k \in D, NEW t \in C[k]
               PROVE  t.fp8 \in BOOLEAN
                      /\ (t.form # "scale" => /\ Forging!Valued(t, Forging!ScalesOf(l.repo, k)) = TRUE
                                              /\ l.kind = "dit" => Forging!Valued(t, {}) = TRUE)
    OBVIOUS
  <2>1. t.fp8 \in BOOLEAN
    BY <1>1, Libraries DEF Forging!ForgeConstants
  <2>2. ASSUME t.fp8, t.form # "scale"
        PROVE  l.kind = "llm" /\ \E s \in Forging!ScalesOf(l.repo, k) : s.name = t.name
    <3>1. l.kind = "llm" /\ \E i \in D : \E s \in C[i] : s.form = "scale" /\ s.name = t.name
      BY <2>2, Libraries DEF Forging!ForgeConstants
    <3> QED BY <3>1 DEF Forging!ScalesOf
  <2> QED BY <2>1, <2>2 DEF Forging!Valued
<1>3. Forging!Expected(o) = UNION {Whole(t) : t \in {u \in UNION {C[k] : k \in D} : u.form # "scale"}}
  BY <1>1 DEF Forging!Expected
<1>4. \A k \in D : Forging!Quantized(C[k], l.bits, Forging!ScalesOf(l.repo, k)) =
                       UNION {Whole(t) : t \in {u \in C[k] : u.form # "scale"}}
  <2> SUFFICES ASSUME NEW k \in D
               PROVE  Forging!Quantized(C[k], l.bits, Forging!ScalesOf(l.repo, k)) =
                          UNION {Whole(t) : t \in {u \in C[k] : u.form # "scale"}}
    OBVIOUS
  <2>1. \A t \in {u \in C[k] : u.form # "scale"} : Of(t, Forging!ScalesOf(l.repo, k)) = Whole(t)
    BY <1>2
  <2>2. Forging!Quantized(C[k], l.bits, Forging!ScalesOf(l.repo, k)) =
            UNION {Of(t, Forging!ScalesOf(l.repo, k)) : t \in {u \in C[k] : u.form # "scale"}}
    BY DEF Forging!Quantized
  <2> HIDE DEF Of, Whole
  <2> QED BY <2>1, <2>2
<1>5. ASSUME NEW k \in D, l.kind = "dit"
      PROVE  Forging!Quantized(C[k], l.bits, {}) = UNION {Whole(t) : t \in {u \in C[k] : u.form # "scale"}}
  <2>1. \A t \in {u \in C[k] : u.form # "scale"} : Of(t, {}) = Whole(t)
    BY <1>2, <1>5
  <2>2. Forging!Quantized(C[k], l.bits, {}) = UNION {Of(t, {}) : t \in {u \in C[k] : u.form # "scale"}}
    BY DEF Forging!Quantized
  <2> HIDE DEF Of, Whole
  <2> QED BY <2>1, <2>2
<1>6. Forging!Expected(o) = UNION {UNION {Whole(t) : t \in {u \in C[k] : u.form # "scale"}} : k \in D}
  <2> HIDE DEF Whole, C
  <2> QED BY <1>3
<1>7. Forging!Expected(o) = UNION Q
  <2> HIDE DEF Whole, C
  <2> QED BY <1>4, <1>6
<1>8. l.kind = "dit" => Forging!Expected(o) = UNION {Forging!Quantized(C[k], l.bits, {}) : k \in D}
  <2> HIDE DEF Whole, C
  <2> QED BY <1>5, <1>6
<1>9. IsFiniteSet(Forging!Expected(o))
  <2>1. IsFiniteSet(D)
    BY <1>1, ShardFacts
  <2>2. IsFiniteSet(Q)
    <3> DEFINE q == [k \in D |-> Forging!Quantized(C[k], l.bits, Forging!ScalesOf(l.repo, k))]
    <3>1. Q = {q[k] : k \in D}
      OBVIOUS
    <3> HIDE DEF q, Q, D
    <3> QED BY <2>1, <3>1, FiniteImage
  <2>3. \A s \in Q : IsFiniteSet(s)
    BY <1>1, QuantizedFits
  <2> HIDE DEF Q
  <2> QED BY <1>7, <2>2, <2>3, FS_UNION
<1> QED BY <1>1, <1>7, <1>8, <1>9

\* Every output is that of a line.
LEMMA OutFacts ==
    ASSUME Forging!ForgeConstants, NEW o \in Forging!Outs
    PROVE  /\ IsFiniteSet(Forging!Expected(o)) /\ Forging!Expected(o) \subseteq Stored
           /\ IsFiniteSet(Forging!Repos) /\ IsFiniteSet(Forging!Outs)
<1>1. PICK l \in Forging!Lines : o = [repo |-> l.repo, bits |-> l.bits]
  BY DEF Forging!Outs
<1>2. IsFiniteSet(Forging!Expected(o))
  BY <1>1, ExpectedFacts
<1>3. IsFiniteSet(Forging!Outs)
  <2>1. Jobs \in Seq(Forging!Lines)
    BY Libraries DEF Forging!ForgeConstants
  <2>2. IsFiniteSet(DOMAIN Jobs)
    BY <2>1, FS_Interval
  <2> DEFINE q == [j \in DOMAIN Jobs |-> [repo |-> Jobs[j].repo, bits |-> Jobs[j].bits]]
  <2>3. Forging!Outs = {q[j] : j \in DOMAIN Jobs}
    BY DEF Forging!Outs, Forging!Lines
  <2> HIDE DEF q
  <2> QED BY <2>2, <2>3, FiniteImage
<1>4. IsFiniteSet(Forging!Repos)
  BY Libraries DEF Forging!ForgeConstants
<1> QED BY <1>2, <1>3, <1>4 DEF Stored

\* The size of an output that a shard is added to.
LEMMA OutputSizes ==
    ASSUME NEW S, NEW R, IsFiniteSet(S), IsFiniteSet(R)
    PROVE  /\ Forging!OutputSize(S) \in Nat
           /\ Forging!OutputSize(S \cup R) <= Forging!OutputSize(S) + Forging!OutputSize(R)
<1> DEFINE w == [x \in S \cup R |-> Forging!StoredSize(x)]
<1>1. \A x \in S \cup R : w[x] = Forging!StoredSize(x) /\ w[x] \in Nat
  BY DEF Forging!StoredSize
<1>2. ASSUME NEW T \in SUBSET (S \cup R), IsFiniteSet(T) PROVE Forging!OutputSize(T) = SumFunctionOnSet(w, T)
  <2> DEFINE v == [x \in T |-> Forging!StoredSize(x)]
  <2>1. \A x \in T : w[x] \in Nat /\ w[x] = v[x]
    BY <1>1
  <2>2. Forging!OutputSize(T) = SumFunctionOnSet(v, T)
    BY Libraries DEF Forging!OutputSize, SumFunction
  <2> HIDE DEF w, v
  <2> QED BY <1>2, <2>1, <2>2, SumSame
<1> HIDE DEF w
<1>3. IsFiniteSet(S \cup R)
  BY FS_Union
<1>4. /\ Forging!OutputSize(S) = SumFunctionOnSet(w, S)
      /\ Forging!OutputSize(R) = SumFunctionOnSet(w, R)
      /\ Forging!OutputSize(S \cup R) = SumFunctionOnSet(w, S \cup R)
  BY <1>2, <1>3
<1>5. SumFunctionOnSet(w, S) \in Nat
  BY <1>1, SumFacts
<1>6. SumFunctionOnSet(w, S \cup R) <= SumFunctionOnSet(w, S) + SumFunctionOnSet(w, R)
  BY <1>1, SumUnion
<1> QED BY <1>4, <1>5, <1>6

-----------------------------------------------------------------------------
(* Space *)

\* What a checkpoint has in staging, and what staging and outputs use.
StagedSize(r, shards) == SumFunctionOnSet(Forging!ShardSizes(r), shards)
UsedBy(staged, weights) ==
    SumFunction([r \in Forging!Repos |-> StagedSize(r, staged[r])])
    + SumFunction([o \in Forging!Outs |-> Forging!OutputSize(weights[o].tensors)])

\* Directories and files of shards and tensors that exist.
OnDisk(staged, weights) ==
    /\ \A r \in Forging!Repos : staged[r] \subseteq DOMAIN Checkpoint[r]
    /\ \A o \in Forging!Outs : weights[o].tensors \subseteq Forging!Expected(o)

\* What a staging directory has, with one shard more or less.
LEMMA StagedFacts ==
    ASSUME Forging!ForgeConstants, NEW r \in Forging!Repos, NEW T \in SUBSET DOMAIN Checkpoint[r]
    PROVE  /\ StagedSize(r, T) \in Nat
           /\ \A k \in T : StagedSize(r, T) = Forging!ShardSize(r, k) + StagedSize(r, T \ {k})
           /\ StagedSize(r, {}) = 0
           /\ Forging!RepoSize(r) = StagedSize(r, DOMAIN Checkpoint[r])
           /\ Forging!RepoSize(r) \in Nat /\ StagedSize(r, T) <= Forging!RepoSize(r)
<1> DEFINE f == Forging!ShardSizes(r)
           D == DOMAIN Checkpoint[r]
<1>1. IsFiniteSet(D) /\ IsFiniteSet(T) /\ \A k \in D : f[k] = Forging!ShardSize(r, k) /\ f[k] \in Nat
  BY ShardFacts, FS_Subset
<1>2. Forging!RepoSize(r) = SumFunctionOnSet(f, D)
  BY ShardFacts, Libraries DEF Forging!RepoSize, SumFunction
<1> HIDE DEF f
<1>3. /\ SumFunctionOnSet(f, T) \in Nat
      /\ \A k \in T : SumFunctionOnSet(f, T) = f[k] + SumFunctionOnSet(f, T \ {k})
      /\ SumFunctionOnSet(f, {}) = 0
  BY <1>1, SumFacts
<1>4. SumFunctionOnSet(f, D) \in Nat
  BY <1>1, SumFacts
<1>5. SumFunctionOnSet(f, T) <= SumFunctionOnSet(f, D)
  <2>1. T \cup D = D
    OBVIOUS
  <2>2. \A x \in T \cup D : f[x] \in Nat
    BY <1>1
  <2>3. SumFunctionOnSet(f, T) <= SumFunctionOnSet(f, T \cup D)
    BY <1>1, <2>2, SumUnion
  <2> QED BY <2>1, <2>3
<1>6. \A X : StagedSize(r, X) = SumFunctionOnSet(f, X)
  BY DEF StagedSize, f
<1>7. \A k \in T : f[k] = Forging!ShardSize(r, k)
  BY <1>1
<1> QED BY <1>2, <1>3, <1>4, <1>5, <1>6, <1>7

\* A staging directory changes.
LEMMA UsedStaged ==
    ASSUME Forging!ForgeConstants, NEW s1, NEW s2, NEW w, OnDisk(s1, w), OnDisk(s2, w),
           NEW a \in Forging!Repos, \A r \in Forging!Repos \ {a} : s1[r] = s2[r]
    PROVE  /\ UsedBy(s1, w) \in Nat /\ UsedBy(s2, w) \in Nat
           /\ UsedBy(s2, w) + StagedSize(a, s1[a]) = UsedBy(s1, w) + StagedSize(a, s2[a])
<1> DEFINE f1 == [r \in Forging!Repos |-> StagedSize(r, s1[r])]
           f2 == [r \in Forging!Repos |-> StagedSize(r, s2[r])]
           g == [o \in Forging!Outs |-> Forging!OutputSize(w[o].tensors)]
<1>1. IsFiniteSet(Forging!Repos)
  BY Libraries DEF Forging!ForgeConstants
<1>2. \A r \in Forging!Repos : f1[r] \in Nat /\ f2[r] \in Nat
  BY StagedFacts DEF OnDisk
<1>3. \A r \in Forging!Repos \ {a} : f1[r] = f2[r]
  OBVIOUS
<1>4. \A o \in Forging!Outs : g[o] \in Nat
  <2> SUFFICES ASSUME NEW o \in Forging!Outs PROVE g[o] \in Nat
    OBVIOUS
  <2>1. IsFiniteSet(w[o].tensors)
    BY OutFacts, FS_Subset DEF OnDisk
  <2> QED BY <2>1, OutputSizes
<1>5. f1[a] = StagedSize(a, s1[a]) /\ f2[a] = StagedSize(a, s2[a])
  OBVIOUS
<1>6. /\ UsedBy(s1, w) = SumFunctionOnSet(f1, Forging!Repos) + SumFunctionOnSet(g, Forging!Outs)
      /\ UsedBy(s2, w) = SumFunctionOnSet(f2, Forging!Repos) + SumFunctionOnSet(g, Forging!Outs)
  BY Libraries DEF UsedBy, SumFunction
<1> HIDE DEF f1, f2, g
<1>7. SumFunctionOnSet(f2, Forging!Repos) + f1[a] = SumFunctionOnSet(f1, Forging!Repos) + f2[a]
  BY <1>1, <1>2, <1>3, SumChange
<1>8. SumFunctionOnSet(f1, Forging!Repos) \in Nat
  BY <1>1, <1>2, SumFacts
<1>9. SumFunctionOnSet(f2, Forging!Repos) \in Nat
  BY <1>1, <1>2, SumFacts
<1>10. SumFunctionOnSet(g, Forging!Outs) \in Nat
  <2>1. IsFiniteSet(Forging!Outs)
    <3>1. CASE Forging!Outs = {}
      BY <3>1, FS_EmptySet
    <3>2. CASE Forging!Outs # {}
      BY <3>2, OutFacts
    <3> QED BY <3>1, <3>2
  <2> QED BY <1>4, <2>1, SumFacts
<1>11. f1[a] \in Nat /\ f2[a] \in Nat
  BY <1>2
<1> QED BY <1>5, <1>6, <1>7, <1>8, <1>9, <1>10, <1>11

\* A file changes.
LEMMA UsedWeights ==
    ASSUME Forging!ForgeConstants, NEW s, NEW w1, NEW w2, OnDisk(s, w1), OnDisk(s, w2),
           NEW a \in Forging!Outs, \A o \in Forging!Outs \ {a} : w1[o].tensors = w2[o].tensors
    PROVE  /\ UsedBy(s, w1) \in Nat /\ UsedBy(s, w2) \in Nat
           /\ UsedBy(s, w2) + Forging!OutputSize(w1[a].tensors) = UsedBy(s, w1) + Forging!OutputSize(w2[a].tensors)
<1> DEFINE f == [r \in Forging!Repos |-> StagedSize(r, s[r])]
           g1 == [o \in Forging!Outs |-> Forging!OutputSize(w1[o].tensors)]
           g2 == [o \in Forging!Outs |-> Forging!OutputSize(w2[o].tensors)]
<1>1. IsFiniteSet(Forging!Repos) /\ IsFiniteSet(Forging!Outs)
  BY OutFacts
<1>2. \A r \in Forging!Repos : f[r] \in Nat
  BY StagedFacts DEF OnDisk
<1>3. \A o \in Forging!Outs : g1[o] \in Nat /\ g2[o] \in Nat
  <2> SUFFICES ASSUME NEW o \in Forging!Outs PROVE g1[o] \in Nat /\ g2[o] \in Nat
    OBVIOUS
  <2>1. IsFiniteSet(w1[o].tensors) /\ IsFiniteSet(w2[o].tensors)
    BY OutFacts, FS_Subset DEF OnDisk
  <2> QED BY <2>1, OutputSizes
<1>4. \A o \in Forging!Outs \ {a} : g1[o] = g2[o]
  OBVIOUS
<1>5. g1[a] = Forging!OutputSize(w1[a].tensors) /\ g2[a] = Forging!OutputSize(w2[a].tensors)
  OBVIOUS
<1>6. /\ UsedBy(s, w1) = SumFunctionOnSet(f, Forging!Repos) + SumFunctionOnSet(g1, Forging!Outs)
      /\ UsedBy(s, w2) = SumFunctionOnSet(f, Forging!Repos) + SumFunctionOnSet(g2, Forging!Outs)
  BY Libraries DEF UsedBy, SumFunction
<1> HIDE DEF f, g1, g2
<1>7. SumFunctionOnSet(g2, Forging!Outs) + g1[a] = SumFunctionOnSet(g1, Forging!Outs) + g2[a]
  BY <1>1, <1>3, <1>4, SumChange
<1>8. SumFunctionOnSet(f, Forging!Repos) \in Nat
  BY <1>1, <1>2, SumFacts
<1>9. SumFunctionOnSet(g1, Forging!Outs) \in Nat
  BY <1>1, <1>3, SumFacts
<1>10. SumFunctionOnSet(g2, Forging!Outs) \in Nat
  BY <1>1, <1>3, SumFacts
<1>11. g1[a] \in Nat /\ g2[a] \in Nat
  BY <1>3
<1> QED BY <1>5, <1>6, <1>7, <1>8, <1>9, <1>10, <1>11

-----------------------------------------------------------------------------
(* Every step keeps the invariant *)

\* A job at hand is a line, and its output one of the batch's.
LEMMA JobFacts ==
    ASSUME Forging!ForgeConstants, ForgeInv, forge.pc \notin {"idle", "next"}
    PROVE  /\ Forging!Job \in Forging!Lines /\ Forging!Job.repo \in Forging!Repos /\ Forging!Out \in Forging!Outs
           /\ Forging!Shards = 1..Len(Checkpoint[Forging!Job.repo]) /\ Len(Checkpoint[Forging!Job.repo]) \in Nat \ {0}
<1>1. Forging!Job \in Forging!Lines
  BY DEF ForgeInv, Working
<1>2. Forging!Job.repo \in Forging!Repos /\ Forging!Out \in Forging!Outs
  BY <1>1, Libraries DEF Forging!ForgeConstants, Forging!Out, Forging!Outs
<1> QED BY <1>1, <1>2, ShardFacts DEF Forging!Shards

\* The types.
LEMMA TypeStep ==
    ASSUME Forging!ForgeConstants, ForgeInv, Forging!Next
    PROVE  ForgeTyped'
<1> USE DEF Places
<1>1. forge \in ForgeType /\ \A r \in Forging!Repos : forge.staged[r] \subseteq DOMAIN Checkpoint[r]
  BY DEF ForgeInv, ForgeTyped
<1>2. ASSUME forge.pc \notin {"idle", "next"}
      PROVE  /\ Forging!Job \in Forging!Lines /\ Forging!Job.repo \in Forging!Repos /\ Forging!Out \in Forging!Outs
             /\ Forging!Shards = 1..Len(Checkpoint[Forging!Job.repo]) /\ Len(Checkpoint[Forging!Job.repo]) \in Nat \ {0}
  BY <1>2, JobFacts
<1> DEFINE File == [state : {"absent", "partial", "whole"}, tensors : SUBSET Stored]
           Dirs == [Forging!Repos -> SUBSET Nat]
           Known(st) == \A r \in Forging!Repos : st[r] \subseteq DOMAIN Checkpoint[r]
<1>3. /\ forge.staged \in Dirs /\ Known(forge.staged)
      /\ forge.weights \in [Forging!Outs -> File]
      /\ \A a \in Forging!Repos : \A T \in SUBSET DOMAIN Checkpoint[a] :
            [forge.staged EXCEPT ![a] = T] \in Dirs /\ Known([forge.staged EXCEPT ![a] = T])
      /\ \A o \in Forging!Outs : \A x \in File : [forge.weights EXCEPT ![o] = x] \in [Forging!Outs -> File]
  <2>1. /\ forge.staged \in Dirs /\ Known(forge.staged)
        /\ forge.weights \in [Forging!Outs -> File]
    BY <1>1 DEF ForgeType
  <2>2. \A r \in Forging!Repos : DOMAIN Checkpoint[r] \subseteq Nat
    BY ShardFacts
  <2> QED BY <2>1, <2>2
<1>4. ASSUME NEW st \in Dirs, Known(st), NEW ws \in [Forging!Outs -> File],
             NEW f \in ForgeType, forge' = [f EXCEPT !.staged = st, !.weights = ws]
      PROVE  ForgeTyped'
  <2>1. forge' \in ForgeType /\ forge'.staged = st
    BY <1>4 DEF ForgeType
  <2> QED BY <1>4, <2>1 DEF ForgeTyped, ForgeType
<1>5. <<>> \in Seq(Forging!Lines)
  OBVIOUS
<1> HIDE DEF File, Dirs, Known
<1>6. ASSUME NEW queue \in Seq(Forging!Lines), NEW batch \in BOOLEAN, Forging!Launch(queue, batch) PROVE ForgeTyped'
  <2> DEFINE n == forge.launches + 1
             f == [forge EXCEPT !.pc = "next", !.queue = queue, !.batch = batch, !.launches = n,
                                !.orderly = FALSE]
             st == IF batch THEN [r \in Forging!Repos |-> {}] ELSE forge.staged
  <2>1. f \in ForgeType
    <3>1. n \in Nat
      BY <1>1 DEF ForgeType
    <3> HIDE DEF n
    <3> QED BY <1>1, <3>1 DEF ForgeType
  <2>2. st \in Dirs /\ Known(st)
    BY <1>3 DEF Dirs, Known
  <2>3. forge' = [f EXCEPT !.staged = st, !.weights = forge.weights]
    BY <1>1, <1>6 DEF Forging!Launch, ForgeType
  <2> HIDE DEF f, st
  <2> QED BY <1>3, <1>4, <2>1, <2>2, <2>3
<1>7. CASE Forging!NextJob
  <2>1. forge.queue \in Seq(Forging!Lines) /\ (forge.queue # <<>> =>
            Head(forge.queue) \in Forging!Lines /\ Tail(forge.queue) \in Seq(Forging!Lines))
    BY <1>1 DEF ForgeType
  <2>2. forge' \in ForgeType /\ forge'.staged = forge.staged
    BY <1>1, <1>5, <1>7, <2>1 DEF Forging!NextJob, ForgeType
  <2> QED BY <1>1, <2>2 DEF ForgeTyped
<1>8. CASE Forging!TornManifest
  <2> DEFINE f == [forge EXCEPT !.pc = "idle", !.orderly = TRUE, !.queue = <<>>, !.job = Forging!NoJob]
             st == [forge.staged EXCEPT ![Forging!Job.repo] = {}]
  <2>1. f \in ForgeType
    BY <1>1, <1>5 DEF ForgeType
  <2>2. forge' = [f EXCEPT !.staged = st, !.weights = forge.weights]
    BY <1>1, <1>8 DEF Forging!TornManifest, ForgeType
  <2>3. Forging!Job.repo \in Forging!Repos
    BY <1>2, <1>8 DEF Forging!TornManifest
  <2>4. st \in Dirs /\ Known(st)
    BY <1>3, <2>3
  <2> HIDE DEF f, st
  <2> QED BY <1>3, <1>4, <2>1, <2>2, <2>4
<1>9. CASE Forging!Skip
  <2>1. forge' \in ForgeType /\ forge'.staged = forge.staged
    BY <1>1, <1>9 DEF Forging!Skip, ForgeType
  <2> QED BY <1>1, <2>1 DEF ForgeTyped
<1>10. ASSUME NEW answers \in BOOLEAN, Forging!Probe(answers) PROVE ForgeTyped'
  <2>1. Forging!Job.repo \in Forging!Repos
    BY <1>2, <1>10 DEF Forging!Probe
  <2>2. forge' \in ForgeType /\ forge'.staged = forge.staged
    BY <1>1, <1>10, <2>1 DEF Forging!Probe, ForgeType
  <2> QED BY <1>1, <2>2 DEF ForgeTyped
<1>11. CASE Forging!Download
  <2>1. Forging!Job.repo \in Forging!Repos
    BY <1>2, <1>11 DEF Forging!Download
  <2>2. PICK k \in Forging!Shards \ forge.staged[Forging!Job.repo] :
            forge' = [forge EXCEPT !.staged[Forging!Job.repo] = @ \cup {k}]
    BY <1>11 DEF Forging!Download
  <2> DEFINE st == [forge.staged EXCEPT ![Forging!Job.repo] = forge.staged[Forging!Job.repo] \cup {k}]
  <2>3. forge.staged[Forging!Job.repo] \cup {k} \subseteq DOMAIN Checkpoint[Forging!Job.repo]
    BY <1>1, <2>1 DEF Forging!Shards
  <2>4. st \in Dirs /\ Known(st)
    BY <1>3, <2>1, <2>3
  <2>5. forge' = [forge EXCEPT !.staged = st, !.weights = forge.weights]
    BY <1>1, <2>2 DEF ForgeType
  <2> HIDE DEF st
  <2> QED BY <1>1, <1>3, <1>4, <2>4, <2>5
<1>12. CASE Forging!Downloaded
  <2>1. Forging!Out \in Forging!Outs
    BY <1>2, <1>12 DEF Forging!Downloaded
  <2> DEFINE x == [forge.weights[Forging!Out] EXCEPT !.state = IF forge.direct THEN "partial" ELSE @]
             ws == [forge.weights EXCEPT ![Forging!Out] = x]
             f == [forge EXCEPT !.pc = IF Forging!Job.kind = "dit" THEN "dit" ELSE "shard", !.at = 1]
  <2>2. x \in File
    BY <1>3, <2>1 DEF File
  <2>3. ws \in [Forging!Outs -> File]
    <3> HIDE DEF x
    <3> QED BY <1>3, <2>1, <2>2
  <2>4. f \in ForgeType
    BY <1>1 DEF ForgeType
  <2>5. forge' = [f EXCEPT !.staged = forge.staged, !.weights = ws]
    BY <1>1, <1>12 DEF Forging!Downloaded, ForgeType
  <2> HIDE DEF ws, f
  <2> QED BY <1>3, <1>4, <2>3, <2>4, <2>5
<1>13. CASE Forging!Quantize
  <2> DEFINE Q == Forging!Quantized(Checkpoint[Forging!Job.repo][forge.at], Forging!Job.bits, Forging!ScalesOf(Forging!Job.repo, forge.at))
  <2>1. Forging!Out \in Forging!Outs
    BY <1>2, <1>13 DEF Forging!Quantize
  <2>2. Q \subseteq Stored
    <3>1. forge.at \in DOMAIN Checkpoint[Forging!Job.repo]
      BY <1>13 DEF ForgeInv, Working, Forging!Quantize, Forging!Shards
    <3>2. Forging!Job \in Forging!Lines
      BY <1>2, <1>13 DEF Forging!Quantize
    <3>3. Forging!Out = [repo |-> Forging!Job.repo, bits |-> Forging!Job.bits]
      BY DEF Forging!Out
    <3>4. Q \subseteq Forging!Expected(Forging!Out)
      BY <3>1, <3>2, <3>3, ExpectedFacts
    <3> QED BY <2>1, <3>4, OutFacts
  <2> DEFINE x == [forge.weights[Forging!Out] EXCEPT !.tensors = @ \cup Q]
             ws == [forge.weights EXCEPT ![Forging!Out] = x]
             f == [forge EXCEPT !.pc = "remove"]
  <2>3. forge' = [f EXCEPT !.staged = forge.staged, !.weights = ws]
    BY <1>1, <1>13 DEF Forging!Quantize, ForgeType
  <2> HIDE DEF Q
  <2>4. x \in File
    BY <1>3, <2>1, <2>2 DEF File
  <2>5. ws \in [Forging!Outs -> File]
    <3> HIDE DEF x
    <3> QED BY <1>3, <2>1, <2>4
  <2>6. f \in ForgeType
    BY <1>1 DEF ForgeType
  <2> HIDE DEF ws, f
  <2> QED BY <1>3, <1>4, <2>3, <2>5, <2>6
<1>14. CASE Forging!Remove
  <2>1. Forging!Job.repo \in Forging!Repos
    BY <1>2, <1>14 DEF Forging!Remove
  <2> DEFINE st == [forge.staged EXCEPT ![Forging!Job.repo] = forge.staged[Forging!Job.repo] \ {forge.at}]
             pc == IF forge.at = Len(Checkpoint[Forging!Job.repo]) THEN "finalize" ELSE "shard"
             at == forge.at + 1
             f == [forge EXCEPT !.pc = pc, !.at = at]
  <2>2. forge.staged[Forging!Job.repo] \ {forge.at} \subseteq DOMAIN Checkpoint[Forging!Job.repo]
    BY <1>1, <2>1
  <2>3. st \in Dirs /\ Known(st)
    BY <1>3, <2>1, <2>2
  <2>4. f \in ForgeType
    <3>1. pc \in Places /\ at \in Nat
      BY <1>1 DEF ForgeType
    <3> HIDE DEF pc, at, Places
    <3> QED BY <1>1, <3>1 DEF ForgeType
  <2>5. forge' = [f EXCEPT !.staged = st, !.weights = forge.weights]
    BY <1>1, <1>14 DEF Forging!Remove, ForgeType
  <2> HIDE DEF st, f
  <2> QED BY <1>3, <1>4, <2>3, <2>4, <2>5
<1>15. CASE Forging!QuantizeDit
  <2> DEFINE Q == UNION {Forging!Quantized(Checkpoint[Forging!Job.repo][k], Forging!Job.bits, {}) : k \in Forging!Shards}
  <2>1. Forging!Out \in Forging!Outs
    BY <1>2, <1>15 DEF Forging!QuantizeDit
  <2>2. Q \subseteq Stored
    <3>1. Forging!Job \in Forging!Lines /\ Forging!Job.kind = "dit"
      BY <1>2, <1>15 DEF ForgeInv, Working, Forging!QuantizeDit
    <3>2. Forging!Out = [repo |-> Forging!Job.repo, bits |-> Forging!Job.bits]
      BY DEF Forging!Out
    <3>3. Q = Forging!Expected(Forging!Out)
      BY <3>1, <3>2, ExpectedFacts DEF Forging!Shards
    <3> QED BY <2>1, <3>3, OutFacts
  <2> DEFINE x == [forge.weights[Forging!Out] EXCEPT !.tensors = Q]
             ws == [forge.weights EXCEPT ![Forging!Out] = x]
             f == [forge EXCEPT !.pc = "finalize"]
  <2>3. forge' = [f EXCEPT !.staged = forge.staged, !.weights = ws]
    BY <1>1, <1>15 DEF Forging!QuantizeDit, ForgeType
  <2> HIDE DEF Q
  <2>4. x \in File
    BY <1>3, <2>1, <2>2 DEF File
  <2>5. ws \in [Forging!Outs -> File]
    <3> HIDE DEF x
    <3> QED BY <1>3, <2>1, <2>4
  <2>6. f \in ForgeType
    BY <1>1 DEF ForgeType
  <2> HIDE DEF ws, f
  <2> QED BY <1>3, <1>4, <2>3, <2>5, <2>6
<1>16. CASE Forging!Finalize
  <2>1. Forging!Out \in Forging!Outs
    BY <1>2, <1>16 DEF Forging!Finalize
  <2> DEFINE x == [forge.weights[Forging!Out] EXCEPT !.state = "whole"]
             ws == [forge.weights EXCEPT ![Forging!Out] = x]
             f == [forge EXCEPT !.pc = "record"]
  <2>2. forge' = [f EXCEPT !.staged = forge.staged, !.weights = ws]
    BY <1>1, <1>16 DEF Forging!Finalize, ForgeType
  <2>3. x \in File
    BY <1>3, <2>1 DEF File
  <2>4. ws \in [Forging!Outs -> File]
    <3> HIDE DEF x
    <3> QED BY <1>3, <2>1, <2>3
  <2>5. f \in ForgeType
    BY <1>1 DEF ForgeType
  <2> HIDE DEF ws, f
  <2> QED BY <1>3, <1>4, <2>2, <2>4, <2>5
<1>17. CASE Forging!Record
  <2>1. Forging!Out \in Forging!Outs /\ Forging!Job.repo \in Forging!Repos
    BY <1>2, <1>17 DEF Forging!Record
  <2>2. forge' \in ForgeType /\ forge'.staged = forge.staged
    BY <1>1, <1>17, <2>1 DEF Forging!Record, ForgeType
  <2> QED BY <1>1, <2>2 DEF ForgeTyped
<1>18. forge.pc \notin {"idle", "next"} => Forging!Leftover \in File
  BY <1>1, <1>2 DEF Forging!Leftover, Forging!Absent, ForgeType, File
<1>19. CASE Forging!Raise
  <2>1. Forging!Out \in Forging!Outs /\ Forging!Job.repo \in Forging!Repos /\ Forging!Leftover \in File
    BY <1>2, <1>18, <1>19 DEF Forging!Raise
  <2> DEFINE T == IF forge.pc = "shard" THEN forge.staged[Forging!Job.repo] \ {forge.at}
                  ELSE forge.staged[Forging!Job.repo]
             st == [forge.staged EXCEPT ![Forging!Job.repo] = T]
             x == IF forge.pc = "download" THEN forge.weights[Forging!Out] ELSE Forging!Leftover
             ws == [forge.weights EXCEPT ![Forging!Out] = x]
             f == [forge EXCEPT !.pc = "failing"]
  <2>2. forge' = [f EXCEPT !.staged = st, !.weights = ws]
    BY <1>1, <1>19 DEF Forging!Raise, ForgeType
  <2>3. T \subseteq DOMAIN Checkpoint[Forging!Job.repo]
    BY <1>1, <2>1
  <2>4. st \in Dirs /\ Known(st)
    <3> HIDE DEF T
    <3> QED BY <1>3, <2>1, <2>3
  <2>5. x \in File
    BY <1>3, <2>1
  <2>6. ws \in [Forging!Outs -> File]
    <3> HIDE DEF x
    <3> QED BY <1>3, <2>1, <2>5
  <2>7. f \in ForgeType
    BY <1>1 DEF ForgeType
  <2> HIDE DEF ws, st, f
  <2> QED BY <1>3, <1>4, <2>2, <2>4, <2>6, <2>7
<1>20. CASE Forging!Fail
  <2>1. Forging!Job.repo \in Forging!Repos
    BY <1>2, <1>20 DEF Forging!Fail
  <2>2. forge' \in ForgeType /\ forge'.staged = forge.staged
    BY <1>1, <1>20, <2>1 DEF Forging!Fail, ForgeType
  <2> QED BY <1>1, <2>2 DEF ForgeTyped
<1>21. CASE Forging!Purge
  <2>1. Forging!Job.repo \in Forging!Repos
    BY <1>2, <1>21 DEF Forging!Purge
  <2> DEFINE st == [forge.staged EXCEPT ![Forging!Job.repo] = {}]
             f == [forge EXCEPT !.pc = "next"]
  <2>2. f \in ForgeType
    BY <1>1 DEF ForgeType
  <2>3. forge' = [f EXCEPT !.staged = st, !.weights = forge.weights]
    BY <1>1, <1>21 DEF Forging!Purge, ForgeType
  <2>4. st \in Dirs /\ Known(st)
    BY <1>3, <2>1
  <2> HIDE DEF f, st
  <2> QED BY <1>3, <1>4, <2>2, <2>3, <2>4
<1>22. ASSUME NEW tears \in BOOLEAN, Forging!Kill(tears) PROVE ForgeTyped'
  <2> DEFINE ws == IF forge.pc \in {"shard", "remove", "dit", "finalize"}
                   THEN [forge.weights EXCEPT ![Forging!Out] = Forging!Leftover] ELSE forge.weights
             f == [forge EXCEPT !.pc = "idle", !.queue = <<>>, !.job = Forging!NoJob, !.torn = @ \/ tears]
  <2>1. f \in ForgeType
    BY <1>1, <1>5 DEF ForgeType
  <2>2. ws \in [Forging!Outs -> File]
    BY <1>2, <1>3, <1>18
  <2>3. forge' = [f EXCEPT !.staged = forge.staged, !.weights = ws]
    BY <1>1, <1>22 DEF Forging!Kill, ForgeType
  <2> HIDE DEF f, ws
  <2> QED BY <1>3, <1>4, <2>1, <2>2, <2>3
<1>23. \A j \in DOMAIN Jobs : <<Jobs[j]>> \in Seq(Forging!Lines)
  BY DEF Forging!Lines
<1>24. Jobs \in Seq(Forging!Lines)
  BY Libraries DEF Forging!ForgeConstants
<1> QED BY <1>6, <1>7, <1>8, <1>9, <1>10, <1>11, <1>12, <1>13, <1>14, <1>15, <1>16, <1>17, <1>19,
           <1>20, <1>21, <1>22, <1>23, <1>24 DEF Forging!Next

\* The files, and the file of the job at hand.
LEMMA FilesStep ==
    ASSUME Forging!ForgeConstants, ForgeInv, Forging!Next
    PROVE  Files' /\ Working'
<1>1. forge \in ForgeType /\ forge' \in ForgeType
  BY TypeStep DEF ForgeInv, ForgeTyped
<1>2. Files /\ Working
  BY DEF ForgeInv
<1>3. ASSUME forge.pc \notin {"idle", "next"}
      PROVE  /\ Forging!Job \in Forging!Lines /\ Forging!Job.repo \in Forging!Repos /\ Forging!Out \in Forging!Outs
             /\ Forging!Shards = 1..Len(Checkpoint[Forging!Job.repo]) /\ Len(Checkpoint[Forging!Job.repo]) \in Nat \ {0}
             /\ Forging!Job.kind \in {"llm", "dit"}
  BY <1>3, JobFacts, Libraries DEF Forging!ForgeConstants
\* Between conversions nothing happens to a file.
<1>4. ASSUME ~Converting, forge'.weights = forge.weights, forge'.outputs = forge.outputs,
             forge'.direct = forge.direct
      PROVE  Files'
  BY <1>2, <1>4 DEF Files
\* A conversion changes the file at hand.
<1>24. ASSUME NEW x, Forging!Out \in Forging!Outs, Forging!Out' = Forging!Out, Converting', forge'.direct = forge.direct,
              forge'.outputs = forge.outputs, forge'.weights = [forge.weights EXCEPT ![Forging!Out] = x],
              forge.weights[Forging!Out].state # "whole", x.tensors \subseteq Forging!Expected(Forging!Out),
              x.state # "whole", x.state = "partial" => forge.direct
       PROVE  Files'
  <2>1. /\ forge'.weights[Forging!Out] = x
        /\ \A o \in Forging!Outs : o # Forging!Out => forge'.weights[o] = forge.weights[o]
    BY <1>1, <1>24 DEF ForgeType
  <2>2. ASSUME NEW o \in Forging!Outs
        PROVE  /\ forge'.weights[o].tensors \subseteq Forging!Expected(o)
               /\ forge'.weights[o].state = "whole" => forge'.weights[o].tensors = Forging!Expected(o)
               /\ forge'.weights[o].state = "partial" => forge.direct
               /\ forge'.weights[o].state = "absent" /\ o # Forging!Out => forge'.weights[o].tensors = {}
               /\ o \in forge.outputs => forge'.weights[o].state = "whole"
    <3>1. CASE o = Forging!Out
      BY <1>2, <1>24, <2>1, <3>1 DEF Files
    <3>2. CASE o # Forging!Out
      BY <1>2, <2>1, <3>2 DEF Files
    <3> QED BY <3>1, <3>2
  <2> QED BY <1>24, <2>2 DEF Files
<1>5. ASSUME NEW queue \in Seq(Forging!Lines), NEW batch \in BOOLEAN, Forging!Launch(queue, batch)
      PROVE  Files' /\ Working'
  <2>1. /\ forge.pc = "idle" /\ forge'.pc = "next" /\ forge'.weights = forge.weights
        /\ forge'.outputs = forge.outputs /\ forge'.direct = forge.direct
    BY <1>1, <1>5 DEF Forging!Launch, ForgeType
  <2> QED BY <1>4, <2>1 DEF Working, Converting
<1>6. CASE Forging!NextJob
  <2>1. /\ forge.pc = "next" /\ forge'.pc \in {"idle", "begin"} /\ forge'.weights = forge.weights
        /\ forge'.outputs = forge.outputs /\ forge'.direct = forge.direct
    BY <1>1, <1>6 DEF Forging!NextJob, ForgeType
  <2>2. forge'.pc = "begin" => forge'.job \in Forging!Lines
    <3>1. forge.queue \in Seq(Forging!Lines) /\ (forge.queue # <<>> => Head(forge.queue) \in Forging!Lines)
      BY <1>1 DEF ForgeType
    <3> QED BY <1>1, <1>6, <3>1 DEF Forging!NextJob, ForgeType
  <2> QED BY <1>4, <2>1, <2>2 DEF Working, Converting, Forging!Job
<1>7. CASE Forging!TornManifest
  <2>1. /\ forge.pc \in {"failing", "record"} /\ forge'.pc = "idle" /\ forge'.weights = forge.weights
        /\ forge'.outputs = forge.outputs /\ forge'.direct = forge.direct
    BY <1>1, <1>7 DEF Forging!TornManifest, ForgeType
  <2> QED BY <1>4, <2>1 DEF Working, Converting
<1>8. CASE Forging!Skip
  <2>1. /\ forge.pc = "begin" /\ forge'.pc = "next" /\ forge'.weights = forge.weights
        /\ forge'.outputs = forge.outputs /\ forge'.direct = forge.direct
    BY <1>1, <1>8 DEF Forging!Skip, ForgeType
  <2> QED BY <1>4, <2>1 DEF Working, Converting
<1>9. ASSUME NEW answers \in BOOLEAN, Forging!Probe(answers) PROVE Files' /\ Working'
  <2>1. /\ forge.pc = "begin" /\ forge'.pc \in {"failing", "purge", "download"}
        /\ forge'.weights = forge.weights /\ forge'.job = forge.job
        /\ forge'.outputs = forge.outputs /\ forge'.direct = forge.direct
        /\ forge.weights[Forging!Out].state = "absent"
    BY <1>1, <1>9 DEF Forging!Probe, ForgeType
  <2> QED BY <1>2, <1>4, <2>1 DEF Working, Converting, Forging!Job, Forging!Out
<1>10. CASE Forging!Download
  <2>1. /\ forge.pc = "download" /\ forge'.pc = "download" /\ forge'.weights = forge.weights
        /\ forge'.job = forge.job
        /\ forge'.outputs = forge.outputs /\ forge'.direct = forge.direct
    BY <1>1, <1>10 DEF Forging!Download, ForgeType
  <2> QED BY <1>2, <1>4, <2>1 DEF Working, Converting, Forging!Job, Forging!Out
<1>11. CASE Forging!Fail
  <2>1. /\ forge.pc = "failing" /\ forge'.pc = "purge" /\ forge'.weights = forge.weights
        /\ forge'.job = forge.job
        /\ forge'.outputs = forge.outputs /\ forge'.direct = forge.direct
    BY <1>1, <1>11 DEF Forging!Fail, ForgeType
  <2> QED BY <1>2, <1>4, <2>1 DEF Working, Converting, Forging!Job, Forging!Out
<1>12. CASE Forging!Purge
  <2>1. /\ forge.pc = "purge" /\ forge'.pc = "next" /\ forge'.weights = forge.weights
        /\ forge'.outputs = forge.outputs /\ forge'.direct = forge.direct
    BY <1>1, <1>12 DEF Forging!Purge, ForgeType
  <2> QED BY <1>4, <2>1 DEF Working, Converting
<1>13. CASE Forging!Downloaded
  <2> DEFINE p == IF forge.direct THEN "partial" ELSE forge.weights[Forging!Out].state
             x == [forge.weights[Forging!Out] EXCEPT !.state = p]
  <2>1. /\ forge.pc = "download" /\ forge.staged[Forging!Job.repo] = Forging!Shards
        /\ forge'.pc = (IF Forging!Job.kind = "dit" THEN "dit" ELSE "shard") /\ forge'.at = 1
        /\ forge'.weights = [forge.weights EXCEPT ![Forging!Out] = x]
        /\ forge'.outputs = forge.outputs /\ forge'.direct = forge.direct
        /\ forge'.job = forge.job /\ forge'.staged = forge.staged
    BY <1>1, <1>13 DEF Forging!Downloaded, ForgeType
  <2>2. Forging!Out \in Forging!Outs /\ Forging!Out' = Forging!Out /\ Forging!Job' = Forging!Job /\ ~Converting /\ Forging!Shards' = Forging!Shards
    BY <1>3, <2>1 DEF Forging!Out, Forging!Job, Converting, Forging!Shards
  <2>3. forge.weights[Forging!Out].state = "absent" /\ forge.weights[Forging!Out].tensors = {}
    BY <1>2, <2>1, <2>2 DEF Working, Files
  <2>4. x = [state |-> IF forge.direct THEN "partial" ELSE "absent", tensors |-> {}]
    <3>1. forge.weights[Forging!Out] \in [state : {"absent", "partial", "whole"}, tensors : SUBSET Stored]
      BY <1>1, <2>2 DEF ForgeType
    <3> QED BY <2>3, <3>1, SMTT(30)
  <2>5. /\ forge'.weights[Forging!Out] = x
        /\ \A o \in Forging!Outs : o # Forging!Out => forge'.weights[o] = forge.weights[o]
    BY <1>1, <2>1, <2>2 DEF ForgeType
  <2>6. Converting'
    BY <2>1 DEF Converting
  <2>7. Files'
    <3>1. /\ x.tensors = {} /\ x.state # "whole"
          /\ x.state = "partial" => forge.direct
          /\ forge.weights[Forging!Out].state # "whole"
      <4> HIDE DEF x
      <4> QED BY <2>3, <2>4
    <3> HIDE DEF x
    <3> QED BY <1>24, <2>1, <2>2, <2>6, <3>1
  <2>8. Earlier(1)' = {}
    BY DEF Earlier
  <2>9. Working'
    <3>1. /\ forge'.weights[Forging!Out].state = (IF forge.direct THEN "partial" ELSE "absent")
          /\ forge'.weights[Forging!Out].tensors = {}
      <4> HIDE DEF x
      <4> QED BY <2>4, <2>5
    <3>2. 1 \in Forging!Shards /\ Forging!Shards = 1..Len(Checkpoint[Forging!Job.repo]) /\ Forging!Job \in Forging!Lines
          /\ Forging!Job.kind \in {"llm", "dit"}
      BY <1>3, <2>1
    <3>3. Earlier(forge.at)' = {}
      BY <2>1, <2>8
    <3> HIDE DEF x
    <3> QED BY <2>1, <2>2, <3>1, <3>2, <3>3 DEF Working, Converting
  <2> QED BY <2>7, <2>9
<1>14. CASE Forging!Quantize
  <2> DEFINE Q(k) == Forging!Quantized(Checkpoint[Forging!Job.repo][k], Forging!Job.bits, Forging!ScalesOf(Forging!Job.repo, k))
             x == [forge.weights[Forging!Out] EXCEPT !.tensors = @ \cup Q(forge.at)]
  <2>1. /\ forge.pc = "shard" /\ forge'.pc = "remove" /\ forge'.at = forge.at
        /\ forge'.weights = [forge.weights EXCEPT ![Forging!Out] = x]
        /\ forge'.outputs = forge.outputs /\ forge'.direct = forge.direct
        /\ forge'.job = forge.job /\ forge'.staged = forge.staged
    BY <1>1, <1>14 DEF Forging!Quantize, ForgeType
  <2>2. Forging!Out \in Forging!Outs /\ Forging!Out' = Forging!Out /\ Forging!Job' = Forging!Job /\ Converting /\ Converting' /\ Forging!Shards' = Forging!Shards
    BY <1>3, <2>1 DEF Forging!Out, Forging!Job, Converting, Forging!Shards
  <2>3. /\ Forging!Job.kind = "llm" /\ forge.at \in Forging!Shards
        /\ forge.staged[Forging!Job.repo] = forge.at..Len(Checkpoint[Forging!Job.repo])
        /\ forge.weights[Forging!Out].tensors = Earlier(forge.at)
        /\ forge.weights[Forging!Out].state = IF forge.direct THEN "partial" ELSE "absent"
    BY <1>2, <2>1, <2>2 DEF Working
  <2>4. x = [state |-> forge.weights[Forging!Out].state, tensors |-> forge.weights[Forging!Out].tensors \cup Q(forge.at)]
    <3>1. forge.weights[Forging!Out] \in [state : {"absent", "partial", "whole"}, tensors : SUBSET Stored]
      BY <1>1, <2>2 DEF ForgeType
    <3> HIDE DEF Q
    <3> QED BY <3>1
  <2>5. /\ forge'.weights[Forging!Out] = x
        /\ \A o \in Forging!Outs : o # Forging!Out => forge'.weights[o] = forge.weights[o]
    BY <1>1, <2>1, <2>2 DEF ForgeType
  <2>6. Q(forge.at) \subseteq Forging!Expected(Forging!Out)
    <3>1. forge.at \in DOMAIN Checkpoint[Forging!Job.repo] /\ Forging!Out = [repo |-> Forging!Job.repo, bits |-> Forging!Job.bits]
      BY <2>3 DEF Forging!Out, Forging!Shards
    <3>2. Forging!Expected(Forging!Out) = UNION {Q(k) : k \in DOMAIN Checkpoint[Forging!Job.repo]}
      BY <1>3, <2>1, <3>1, ExpectedFacts
    <3> HIDE DEF Q
    <3> QED BY <3>1, <3>2
  <2>7. Files'
    <3> HIDE DEF x, Q
    <3> QED BY <1>1, <1>2, <2>1, <2>2, <2>3, <2>4, <2>5, <2>6 DEF Files, ForgeType
  <2>8. Earlier(forge.at + 1)' = Earlier(forge.at) \cup Q(forge.at)
    <3>1. forge.at \in Nat \ {0}
      BY <1>3, <2>1, <2>3
    <3>2. 1..(forge.at + 1) - 1 = (1..forge.at - 1) \cup {forge.at}
      BY <3>1
    <3>3. Earlier(forge.at + 1)' = UNION {Q(k) : k \in 1..(forge.at + 1) - 1}
      BY <2>1, <2>2 DEF Earlier
    <3>4. Earlier(forge.at) = UNION {Q(k) : k \in 1..forge.at - 1}
      BY DEF Earlier
    <3> HIDE DEF Q
    <3> QED BY <3>2, <3>3, <3>4
  <2>9. forge'.weights[Forging!Out].tensors = Earlier(forge.at + 1)'
    <3> HIDE DEF x, Q
    <3> QED BY <2>3, <2>4, <2>5, <2>8
  <2>10. forge'.weights[Forging!Out].state = forge.weights[Forging!Out].state
    <3> HIDE DEF x, Q
    <3> QED BY <2>4, <2>5
  <2>11. Working'
    <3> HIDE DEF x, Q
    <3> QED BY <1>3, <2>1, <2>2, <2>3, <2>9, <2>10 DEF Working
  <2> QED BY <2>7, <2>11
<1>15. CASE Forging!Remove
  <2>1. /\ forge.pc = "remove"
        /\ forge'.pc = (IF forge.at = Len(Checkpoint[Forging!Job.repo]) THEN "finalize" ELSE "shard")
        /\ forge'.at = forge.at + 1
        /\ forge'.staged = [forge.staged EXCEPT ![Forging!Job.repo] = @ \ {forge.at}]
        /\ forge'.weights = forge.weights
        /\ forge'.outputs = forge.outputs /\ forge'.direct = forge.direct
        /\ forge'.job = forge.job
    BY <1>1, <1>15 DEF Forging!Remove, ForgeType
  <2>2. /\ Forging!Out \in Forging!Outs /\ Forging!Out' = Forging!Out /\ Forging!Job' = Forging!Job /\ Converting /\ Converting' /\ Forging!Shards' = Forging!Shards
        /\ Forging!Job.repo \in Forging!Repos
    BY <1>3, <2>1 DEF Forging!Out, Forging!Job, Converting, Forging!Shards
  <2>3. /\ Forging!Job.kind = "llm" /\ forge.at \in Forging!Shards
        /\ forge.staged[Forging!Job.repo] = forge.at..Len(Checkpoint[Forging!Job.repo])
        /\ forge.weights[Forging!Out].tensors = Earlier(forge.at + 1)
        /\ forge.weights[Forging!Out].state = IF forge.direct THEN "partial" ELSE "absent"
    BY <1>2, <2>1, <2>2 DEF Working
  <2>4. Files'
    BY <1>2, <2>1, <2>2 DEF Files
  <2>5. forge.at \in 1..Len(Checkpoint[Forging!Job.repo]) /\ Len(Checkpoint[Forging!Job.repo]) \in Nat
    BY <1>3, <2>1, <2>3
  <2>6. \A n : Earlier(n)' = Earlier(n)
    BY <2>2 DEF Earlier
  <2>7. CASE forge.at = Len(Checkpoint[Forging!Job.repo])
    <3>1. Earlier(forge.at + 1) = Forging!Expected(Forging!Out)
      <4>1. 1..(forge.at + 1) - 1 = DOMAIN Checkpoint[Forging!Job.repo]
        BY <1>3, <2>1, <2>5, <2>7 DEF Forging!Shards
      <4>2. Forging!Out = [repo |-> Forging!Job.repo, bits |-> Forging!Job.bits] /\ Forging!Job \in Forging!Lines
        BY <1>3, <2>1 DEF Forging!Out
      <4>3. Forging!Expected(Forging!Out) = UNION {Forging!Quantized(Checkpoint[Forging!Job.repo][k], Forging!Job.bits, Forging!ScalesOf(Forging!Job.repo, k)) :
                                      k \in DOMAIN Checkpoint[Forging!Job.repo]}
        BY <4>2, ExpectedFacts
      <4> QED BY <4>1, <4>3 DEF Earlier
    <3>2. forge'.pc = "finalize"
      BY <2>1, <2>7
    <3>3. forge'.weights[Forging!Out].tensors = Forging!Expected(Forging!Out) /\ forge'.weights[Forging!Out] = forge.weights[Forging!Out]
      BY <2>1, <2>3, <3>1
    <3>4. Forging!Job \in Forging!Lines
      BY <1>3, <2>1
    <3> QED BY <2>1, <2>2, <2>3, <2>4, <3>2, <3>3, <3>4 DEF Working
  <2>8. CASE forge.at # Len(Checkpoint[Forging!Job.repo])
    <3>1. forge.at + 1 \in Forging!Shards
      BY <1>3, <2>1, <2>5, <2>8
    <3>2. forge'.staged[Forging!Job.repo] = (forge.at + 1)..Len(Checkpoint[Forging!Job.repo])
      <4>1. forge'.staged[Forging!Job.repo] = forge.staged[Forging!Job.repo] \ {forge.at}
        BY <1>1, <2>1, <2>2 DEF ForgeType
      <4>2. (forge.at..Len(Checkpoint[Forging!Job.repo])) \ {forge.at} = (forge.at + 1)..Len(Checkpoint[Forging!Job.repo])
        BY <2>5
      <4> QED BY <2>3, <4>1, <4>2
    <3>3. Earlier(forge.at)' = Earlier(forge.at + 1)
      BY <2>1, <2>2 DEF Earlier
    <3>4. forge'.pc = "shard"
      BY <2>1, <2>8
    <3>5. Forging!Job \in Forging!Lines
      BY <1>3, <2>1
    <3>6. forge'.staged[Forging!Job.repo] = forge'.at..Len(Checkpoint[Forging!Job.repo]) /\ forge'.at \in Forging!Shards
      BY <2>1, <3>1, <3>2
    <3>7. forge'.weights[Forging!Out].tensors = Earlier(forge.at)'
      BY <2>1, <2>3, <3>3
    <3> QED BY <2>1, <2>2, <2>3, <2>4, <3>4, <3>5, <3>6, <3>7 DEF Working
  <2> QED BY <2>4, <2>7, <2>8
<1>16. CASE Forging!QuantizeDit
  <2> DEFINE Q == UNION {Forging!Quantized(Checkpoint[Forging!Job.repo][k], Forging!Job.bits, {}) : k \in Forging!Shards}
             x == [forge.weights[Forging!Out] EXCEPT !.tensors = Q]
  <2>1. /\ forge.pc = "dit" /\ forge'.pc = "finalize"
        /\ forge'.weights = [forge.weights EXCEPT ![Forging!Out] = x]
        /\ forge'.outputs = forge.outputs /\ forge'.direct = forge.direct
        /\ forge'.job = forge.job
    BY <1>1, <1>16 DEF Forging!QuantizeDit, ForgeType
  <2>2. Forging!Out \in Forging!Outs /\ Forging!Out' = Forging!Out /\ Forging!Job' = Forging!Job /\ Converting /\ Converting' /\ Forging!Job \in Forging!Lines
    BY <1>3, <2>1 DEF Forging!Out, Forging!Job, Converting
  <2>3. /\ Forging!Job.kind = "dit"
        /\ forge.weights[Forging!Out].state = IF forge.direct THEN "partial" ELSE "absent"
    BY <1>2, <2>1, <2>2 DEF Working
  <2>4. Q = Forging!Expected(Forging!Out)
    <3>1. Forging!Out = [repo |-> Forging!Job.repo, bits |-> Forging!Job.bits]
      BY DEF Forging!Out
    <3> QED BY <2>2, <2>3, <3>1, ExpectedFacts DEF Forging!Shards
  <2> HIDE DEF Q
  <2>5. x = [state |-> forge.weights[Forging!Out].state, tensors |-> Forging!Expected(Forging!Out)]
    BY <1>1, <2>2, <2>4 DEF ForgeType
  <2> HIDE DEF x
  <2>6. /\ forge'.weights[Forging!Out] = x
        /\ \A o \in Forging!Outs : o # Forging!Out => forge'.weights[o] = forge.weights[o]
    BY <1>1, <2>1, <2>2 DEF ForgeType
  <2>7. Files'
    BY <1>1, <1>2, <2>1, <2>2, <2>3, <2>5, <2>6 DEF Files, ForgeType
  <2>8. Working'
    BY <2>1, <2>2, <2>3, <2>5, <2>6 DEF Working
  <2> QED BY <2>7, <2>8
<1>17. CASE Forging!Finalize
  <2> DEFINE x == [forge.weights[Forging!Out] EXCEPT !.state = "whole"]
  <2>1. /\ forge.pc = "finalize" /\ forge'.pc = "record"
        /\ forge'.weights = [forge.weights EXCEPT ![Forging!Out] = x]
        /\ forge'.outputs = forge.outputs /\ forge'.direct = forge.direct
        /\ forge'.job = forge.job
    BY <1>1, <1>17 DEF Forging!Finalize, ForgeType
  <2>2. Forging!Out \in Forging!Outs /\ Forging!Out' = Forging!Out /\ Forging!Job' = Forging!Job /\ ~Converting' /\ Forging!Job \in Forging!Lines
    BY <1>3, <2>1 DEF Forging!Out, Forging!Job, Converting
  <2>3. forge.weights[Forging!Out].tensors = Forging!Expected(Forging!Out)
    BY <1>2, <2>1 DEF Working
  <2>4. x = [state |-> "whole", tensors |-> Forging!Expected(Forging!Out)]
    BY <1>1, <2>2, <2>3 DEF ForgeType
  <2> HIDE DEF x
  <2>5. /\ forge'.weights[Forging!Out] = x
        /\ \A o \in Forging!Outs : o # Forging!Out => forge'.weights[o] = forge.weights[o]
    BY <1>1, <2>1, <2>2 DEF ForgeType
  <2>6. Files'
    BY <1>1, <1>2, <2>1, <2>2, <2>4, <2>5 DEF Files, ForgeType
  <2>7. Working'
    BY <2>1, <2>2, <2>4, <2>5 DEF Working
  <2> QED BY <2>6, <2>7
<1>18. CASE Forging!Record
  <2>1. /\ forge.pc = "record" /\ forge'.pc = "purge" /\ forge'.weights = forge.weights
        /\ forge'.outputs = forge.outputs \cup {Forging!Out} /\ forge'.direct = forge.direct
        /\ forge'.job = forge.job
    BY <1>1, <1>18 DEF Forging!Record, ForgeType
  <2>2. ~Converting /\ ~Converting' /\ Forging!Job \in Forging!Lines /\ Forging!Job' = Forging!Job
    BY <1>3, <2>1 DEF Converting, Forging!Job
  <2>3. forge.weights[Forging!Out].state = "whole"
    BY <1>2, <2>1 DEF Working
  <2> QED BY <1>2, <2>1, <2>2, <2>3 DEF Files, Working
\* What an exception or the end of the process makes of the file.
<1>19. ASSUME Converting, ~Converting', forge'.direct = forge.direct, forge'.outputs = forge.outputs,
              forge'.weights = [forge.weights EXCEPT ![Forging!Out] = Forging!Leftover]
       PROVE  Files'
  <2>1. forge.pc \notin {"idle", "next"} /\ Forging!Out \in Forging!Outs
    BY <1>3, <1>19 DEF Converting
  <2>2. forge.weights[Forging!Out].state = IF forge.direct THEN "partial" ELSE "absent"
    BY <1>2, <1>19 DEF Working
  <2>3. Forging!Leftover = IF forge.direct THEN [state |-> "partial", tensors |-> forge.weights[Forging!Out].tensors]
                   ELSE [state |-> "absent", tensors |-> {}]
    <3>1. forge.weights[Forging!Out] \in [state : {"absent", "partial", "whole"}, tensors : SUBSET Stored]
      BY <1>1, <2>1 DEF ForgeType
    <3> QED BY <2>2, <3>1 DEF Forging!Leftover, Forging!Absent
  <2>4. /\ forge'.weights[Forging!Out] = Forging!Leftover
        /\ \A o \in Forging!Outs : o # Forging!Out => forge'.weights[o] = forge.weights[o]
    BY <1>1, <1>19, <2>1 DEF ForgeType
  <2>5. ASSUME NEW o \in Forging!Outs
        PROVE  /\ forge'.weights[o].tensors \subseteq Forging!Expected(o)
               /\ forge'.weights[o].state = "whole" => forge'.weights[o].tensors = Forging!Expected(o)
               /\ forge'.weights[o].state = "partial" => forge.direct
               /\ forge'.weights[o].state = "absent" => forge'.weights[o].tensors = {}
               /\ o \in forge.outputs => forge'.weights[o].state = "whole"
    <3>1. CASE o = Forging!Out
      BY <1>2, <2>1, <2>2, <2>3, <2>4, <3>1 DEF Files
    <3>2. CASE o # Forging!Out
      BY <1>2, <2>4, <3>2 DEF Files
    <3> QED BY <3>1, <3>2
  <2> QED BY <1>19, <2>5 DEF Files
<1>20. CASE Forging!Raise
  <2>1. /\ forge.pc \in {"download", "shard", "dit", "finalize"} /\ forge'.pc = "failing"
        /\ forge'.weights = [forge.weights EXCEPT ![Forging!Out] = IF forge.pc = "download" THEN @ ELSE Forging!Leftover]
        /\ forge'.outputs = forge.outputs /\ forge'.direct = forge.direct
        /\ forge'.job = forge.job
    BY <1>1, <1>20 DEF Forging!Raise, ForgeType
  <2>2. ~Converting' /\ Forging!Job \in Forging!Lines /\ Forging!Job' = Forging!Job /\ Forging!Out \in Forging!Outs
    BY <1>3, <2>1 DEF Converting, Forging!Job
  <2>3. CASE forge.pc = "download"
    <3>1. forge'.weights = forge.weights
      BY <1>1, <2>1, <2>2, <2>3 DEF ForgeType
    <3>2. ~Converting
      BY <2>3 DEF Converting
    <3> QED BY <1>4, <2>1, <2>2, <3>1, <3>2 DEF Working
  <2>4. CASE forge.pc # "download"
    <3>1. Converting
      BY <2>1, <2>4 DEF Converting
    <3>2. forge'.weights = [forge.weights EXCEPT ![Forging!Out] = Forging!Leftover]
      BY <2>1, <2>4
    <3>3. Files'
      BY <1>19, <2>1, <2>2, <3>1, <3>2
    <3> QED BY <2>1, <2>2, <3>3 DEF Working
  <2> QED BY <2>3, <2>4
<1>21. ASSUME NEW tears \in BOOLEAN, Forging!Kill(tears) PROVE Files' /\ Working'
  <2>1. /\ forge'.pc = "idle"
        /\ forge'.weights = (IF Converting THEN [forge.weights EXCEPT ![Forging!Out] = Forging!Leftover] ELSE forge.weights)
        /\ forge'.outputs = forge.outputs /\ forge'.direct = forge.direct
    BY <1>1, <1>21 DEF Forging!Kill, ForgeType, Converting
  <2>2. ~Converting'
    BY <2>1 DEF Converting
  <2>3. Files'
    <3>1. CASE Converting
      BY <1>19, <2>1, <2>2, <3>1
    <3>2. CASE ~Converting
      BY <1>4, <2>1, <3>2
    <3> QED BY <3>1, <3>2
  <2> QED BY <2>1, <2>2, <2>3 DEF Working
<1>22. \A j \in DOMAIN Jobs : <<Jobs[j]>> \in Seq(Forging!Lines)
  BY DEF Forging!Lines
<1>23. Jobs \in Seq(Forging!Lines)
  BY Libraries DEF Forging!ForgeConstants
<1> QED BY <1>5, <1>6, <1>7, <1>8, <1>9, <1>10, <1>11, <1>12, <1>13, <1>14, <1>15, <1>16, <1>17,
           <1>18, <1>20, <1>21, <1>22, <1>23 DEF Forging!Next

\* The staging of a batch.
LEMMA StagesStep ==
    ASSUME Forging!ForgeConstants, ForgeInv, Forging!Next
    PROVE  Stages'
<1>1. forge \in ForgeType /\ Stages
  BY DEF ForgeInv, ForgeTyped
<1>2. forge.pc \notin {"idle", "next"} => Forging!Job.repo \in Forging!Repos
  BY JobFacts
\* A job changes its own directory only.
<1>3. ASSUME forge.pc \notin {"idle", "next"}, forge'.pc \notin {"idle", "next", "begin"},
             forge'.batch = forge.batch, forge'.orderly = forge.orderly, forge'.job = forge.job,
             \A r \in Forging!Repos \ {Forging!Job.repo} : forge'.staged[r] = forge.staged[r]
      PROVE  Stages'
  BY <1>1, <1>2, <1>3 DEF Stages, Forging!Job
\* A job is over when its directory is empty.
<1>4. ASSUME forge.pc \notin {"idle", "next"}, forge'.batch = forge.batch,
             forge'.pc = "idle" \/ (forge'.pc = "next" /\ forge'.orderly = forge.orderly),
             forge'.staged = [forge.staged EXCEPT ![Forging!Job.repo] = {}]
      PROVE  Stages'
  <2>1. forge.batch => \A r \in Forging!Repos : forge'.staged[r] = {}
    BY <1>1, <1>2, <1>4 DEF Stages, ForgeType
  <2> QED BY <1>1, <1>4, <2>1 DEF Stages
<1>5. ASSUME NEW queue \in Seq(Forging!Lines), NEW batch \in BOOLEAN, Forging!Launch(queue, batch) PROVE Stages'
  <2>1. /\ forge'.pc = "next" /\ forge'.orderly = FALSE /\ forge'.batch = batch
        /\ forge'.staged = IF batch THEN [r \in Forging!Repos |-> {}] ELSE forge.staged
    BY <1>1, <1>5 DEF Forging!Launch, ForgeType
  <2> QED BY <2>1 DEF Stages
<1>6. CASE Forging!NextJob
  <2>1. /\ forge.pc = "next" /\ forge'.staged = forge.staged /\ forge'.batch = forge.batch
        /\ \/ forge'.pc = "idle"
           \/ forge'.pc = "begin" /\ forge'.orderly = forge.orderly
    BY <1>1, <1>6 DEF Forging!NextJob, ForgeType
  <2> QED BY <1>1, <2>1 DEF Stages
<1>7. CASE Forging!TornManifest
  <2>1. /\ forge.pc \in {"failing", "record"} /\ forge'.pc = "idle" /\ forge'.batch = forge.batch
        /\ forge'.staged = [forge.staged EXCEPT ![Forging!Job.repo] = {}]
    BY <1>1, <1>7 DEF Forging!TornManifest, ForgeType
  <2> QED BY <1>4, <2>1
<1>8. CASE Forging!Skip
  <2>1. /\ forge.pc = "begin" /\ forge'.pc = "next" /\ forge'.staged = forge.staged
        /\ forge'.batch = forge.batch /\ forge'.orderly = forge.orderly
    BY <1>1, <1>8 DEF Forging!Skip, ForgeType
  <2> QED BY <1>1, <2>1 DEF Stages
<1>9. ASSUME NEW answers \in BOOLEAN, Forging!Probe(answers) PROVE Stages'
  <2>1. /\ forge.pc = "begin" /\ forge'.pc \in {"failing", "purge", "download"}
        /\ forge'.staged = forge.staged /\ forge'.job = forge.job
        /\ forge'.batch = forge.batch /\ forge'.orderly = forge.orderly
    BY <1>1, <1>9 DEF Forging!Probe, ForgeType
  <2> QED BY <1>3, <2>1
<1>10. CASE Forging!Download
  <2>1. PICK k \in Forging!Shards : forge' = [forge EXCEPT !.staged[Forging!Job.repo] = @ \cup {k}]
    BY <1>10 DEF Forging!Download
  <2>2. /\ forge.pc = "download" /\ forge'.pc = "download" /\ forge'.job = forge.job
        /\ forge'.staged = [forge.staged EXCEPT ![Forging!Job.repo] = @ \cup {k}]
        /\ forge'.batch = forge.batch /\ forge'.orderly = forge.orderly
    BY <1>1, <1>10, <2>1 DEF ForgeType, Forging!Download
  <2>3. \A r \in Forging!Repos \ {Forging!Job.repo} : forge'.staged[r] = forge.staged[r]
    BY <1>1, <2>2 DEF ForgeType
  <2> QED BY <1>3, <2>2, <2>3
<1>11. CASE Forging!Downloaded
  <2>1. /\ forge.pc = "download" /\ forge'.pc \in {"dit", "shard"}
        /\ forge'.staged = forge.staged /\ forge'.job = forge.job
        /\ forge'.batch = forge.batch /\ forge'.orderly = forge.orderly
    BY <1>1, <1>11 DEF Forging!Downloaded, ForgeType
  <2> QED BY <1>3, <2>1
<1>12. CASE Forging!Quantize
  <2>1. /\ forge.pc = "shard" /\ forge'.pc = "remove"
        /\ forge'.staged = forge.staged /\ forge'.job = forge.job
        /\ forge'.batch = forge.batch /\ forge'.orderly = forge.orderly
    BY <1>1, <1>12 DEF Forging!Quantize, ForgeType
  <2> QED BY <1>3, <2>1
<1>13. CASE Forging!Remove
  <2>1. /\ forge.pc = "remove" /\ forge'.pc \in {"finalize", "shard"} /\ forge'.job = forge.job
        /\ forge'.staged = [forge.staged EXCEPT ![Forging!Job.repo] = @ \ {forge.at}]
        /\ forge'.batch = forge.batch /\ forge'.orderly = forge.orderly
    BY <1>1, <1>13 DEF Forging!Remove, ForgeType
  <2>2. \A r \in Forging!Repos \ {Forging!Job.repo} : forge'.staged[r] = forge.staged[r]
    BY <1>1, <2>1 DEF ForgeType
  <2> QED BY <1>3, <2>1, <2>2
<1>14. CASE Forging!QuantizeDit \/ Forging!Finalize
  <2>1. /\ forge.pc \in {"dit", "finalize"} /\ forge'.pc \in {"finalize", "record"}
        /\ forge'.staged = forge.staged /\ forge'.job = forge.job
        /\ forge'.batch = forge.batch /\ forge'.orderly = forge.orderly
    BY <1>1, <1>14 DEF Forging!QuantizeDit, Forging!Finalize, ForgeType
  <2> QED BY <1>3, <2>1
<1>15. CASE Forging!Record \/ Forging!Fail
  <2>1. /\ forge.pc \in {"record", "failing"} /\ forge'.pc = "purge"
        /\ forge'.staged = forge.staged /\ forge'.job = forge.job
        /\ forge'.batch = forge.batch /\ forge'.orderly = forge.orderly
    BY <1>1, <1>15 DEF Forging!Record, Forging!Fail, ForgeType
  <2> QED BY <1>3, <2>1
<1>16. CASE Forging!Raise
  <2> DEFINE T == IF forge.pc = "shard" THEN forge.staged[Forging!Job.repo] \ {forge.at}
                  ELSE forge.staged[Forging!Job.repo]
  <2>1. /\ forge.pc \in {"download", "shard", "dit", "finalize"} /\ forge'.pc = "failing"
        /\ forge'.staged = [forge.staged EXCEPT ![Forging!Job.repo] = T] /\ forge'.job = forge.job
        /\ forge'.batch = forge.batch /\ forge'.orderly = forge.orderly
    BY <1>1, <1>16 DEF Forging!Raise, ForgeType
  <2>2. \A r \in Forging!Repos \ {Forging!Job.repo} : forge'.staged[r] = forge.staged[r]
    BY <1>1, <2>1 DEF ForgeType
  <2> QED BY <1>3, <2>1, <2>2
<1>17. CASE Forging!Purge
  <2>1. /\ forge.pc = "purge" /\ forge'.pc = "next"
        /\ forge'.staged = [forge.staged EXCEPT ![Forging!Job.repo] = {}]
        /\ forge'.batch = forge.batch /\ forge'.orderly = forge.orderly
    BY <1>1, <1>17 DEF Forging!Purge, ForgeType
  <2> QED BY <1>4, <2>1
<1>18. ASSUME NEW tears \in BOOLEAN, Forging!Kill(tears) PROVE Stages'
  <2>1. forge.pc # "idle" /\ forge'.pc = "idle" /\ forge'.orderly = forge.orderly
    BY <1>1, <1>18 DEF Forging!Kill, ForgeType
  <2> QED BY <1>1, <2>1 DEF Stages
<1>19. \A j \in DOMAIN Jobs : <<Jobs[j]>> \in Seq(Forging!Lines)
  BY DEF Forging!Lines
<1>20. Jobs \in Seq(Forging!Lines)
  BY Libraries DEF Forging!ForgeConstants
<1> QED BY <1>5, <1>6, <1>7, <1>8, <1>9, <1>10, <1>11, <1>12, <1>13, <1>14, <1>15, <1>16, <1>17,
           <1>18, <1>19, <1>20 DEF Forging!Next

\* The space.
LEMMA SpaceStep ==
    ASSUME Forging!ForgeConstants, ForgeInv, Forging!Next
    PROVE  Space'
<1>1. forge \in ForgeType /\ forge' \in ForgeType /\ Working /\ Space
  BY TypeStep DEF ForgeInv, ForgeTyped
<1>2. forge.pc \notin {"idle", "next"} =>
          /\ Forging!Job \in Forging!Lines /\ Forging!Job.repo \in Forging!Repos /\ Forging!Out \in Forging!Outs
          /\ Forging!Shards = 1..Len(Checkpoint[Forging!Job.repo]) /\ Len(Checkpoint[Forging!Job.repo]) \in Nat \ {0}
          /\ forge.staged[Forging!Job.repo] \subseteq DOMAIN Checkpoint[Forging!Job.repo]
  BY JobFacts DEF ForgeInv, ForgeTyped
<1>3. OnDisk(forge.staged, forge.weights) /\ OnDisk(forge'.staged, forge'.weights)
  BY TypeStep, FilesStep DEF ForgeInv, ForgeTyped, Files, OnDisk
<1>4. /\ Forging!Free = forge.disk - UsedBy(forge.staged, forge.weights)
      /\ Forging!Free' = forge'.disk - UsedBy(forge'.staged, forge'.weights)
  BY Libraries DEF Forging!Free, Forging!Used, UsedBy, StagedSize
<1>5. forge.disk \in Int /\ Floor \in Int
  BY <1>1, Libraries DEF ForgeType, Forging!ForgeConstants
\* Where nothing is downloaded or converted there is nothing to show.
<1>6. ASSUME forge'.pc \notin {"begin", "download", "shard", "remove", "finalize"} PROVE Space'
  BY <1>6 DEF Space
<1>7. ASSUME NEW queue \in Seq(Forging!Lines), NEW batch \in BOOLEAN, Forging!Launch(queue, batch) PROVE Space'
  <2>1. forge'.pc = "next"
    BY <1>1, <1>7 DEF Forging!Launch, ForgeType
  <2> QED BY <1>6, <2>1
<1>8. CASE Forging!NextJob
  <2>1. forge'.pc = "idle" \/ (forge'.pc = "begin" /\ forge'.probed = FALSE)
    BY <1>1, <1>8 DEF Forging!NextJob, ForgeType
  <2> QED BY <1>6, <2>1 DEF Space
<1>9. CASE Forging!TornManifest
  <2>1. forge'.pc = "idle"
    BY <1>1, <1>9 DEF Forging!TornManifest, ForgeType
  <2> QED BY <1>6, <2>1
<1>10. CASE Forging!Skip
  <2>1. forge'.pc = "next"
    BY <1>1, <1>10 DEF Forging!Skip, ForgeType
  <2> QED BY <1>6, <2>1
<1>11. ASSUME NEW answers \in BOOLEAN, Forging!Probe(answers) PROVE Space'
  <2>1. forge'.pc \in {"failing", "purge", "download"} /\ forge.pc = "begin"
    BY <1>1, <1>11 DEF Forging!Probe, ForgeType
  <2>2. CASE forge'.pc # "download"
    BY <1>6, <2>1, <2>2
  <2>3. CASE forge'.pc = "download"
    <3>1. /\ forge'.staged = forge.staged /\ forge'.weights = forge.weights
          /\ forge'.disk = forge.disk /\ forge'.job = forge.job
          /\ forge'.probed => ~(Forging!Free - Forging!RepoSize(Forging!Job.repo) < Floor)
      BY <1>1, <1>11, <2>3 DEF Forging!Probe, ForgeType
    <3> DEFINE U == UsedBy(forge.staged, forge.weights)
               R == Forging!RepoSize(Forging!Job.repo)
               S == StagedSize(Forging!Job.repo, forge.staged[Forging!Job.repo])
    <3>2. U \in Nat
      BY <1>2, <1>3, <2>1, UsedStaged
    <3>3. R \in Nat /\ S \in Nat
      BY <1>2, <2>1, StagedFacts
    <3>4. Forging!Free = forge.disk - U /\ Forging!Free' = forge.disk - U
      BY <1>4, <3>1
    <3> HIDE DEF U, R, S
    <3>5. forge'.probed => forge.disk - U + S >= Floor + R
      <4>1. forge'.probed => ~(forge.disk - U - R < Floor)
        BY <3>1, <3>4 DEF R
      <4> QED BY <1>5, <3>2, <3>3, <4>1
    <3>6. forge'.probed => Forging!Free' + S >= Floor + R
      BY <3>4, <3>5
    <3>7. /\ (SumFunctionOnSet(Forging!ShardSizes(Forging!Job.repo), forge.staged[Forging!Job.repo]))' = S
          /\ Forging!RepoSize(Forging!Job.repo)' = R
      BY <3>1, Libraries DEF S, R, StagedSize, Forging!Job, Forging!RepoSize, Forging!ShardSizes, Forging!ShardSize
    <3> QED BY <2>3, <3>6, <3>7 DEF Space
  <2> QED BY <2>2, <2>3
<1>12. CASE Forging!Download
  <2>1. PICK k \in Forging!Shards \ forge.staged[Forging!Job.repo] : forge' = [forge EXCEPT !.staged[Forging!Job.repo] = @ \cup {k}]
    BY <1>12 DEF Forging!Download
  <2> DEFINE T == forge.staged[Forging!Job.repo] \cup {k}
  <2>2. /\ forge.pc = "download" /\ forge'.pc = "download" /\ forge'.job = forge.job
        /\ forge'.staged = [forge.staged EXCEPT ![Forging!Job.repo] = T]
        /\ forge'.weights = forge.weights /\ forge'.disk = forge.disk
        /\ forge'.probed = forge.probed
    BY <1>1, <1>12, <2>1 DEF ForgeType, Forging!Download
  <2>3. /\ \A r \in Forging!Repos \ {Forging!Job.repo} : forge.staged[r] = forge'.staged[r]
        /\ forge'.staged[Forging!Job.repo] = T
    BY <1>1, <1>2, <2>2 DEF ForgeType
  <2> DEFINE U == UsedBy(forge.staged, forge.weights)
             U1 == UsedBy(forge'.staged, forge.weights)
             R == Forging!RepoSize(Forging!Job.repo)
             S == StagedSize(Forging!Job.repo, forge.staged[Forging!Job.repo])
             S1 == StagedSize(Forging!Job.repo, T)
  <2>4. U \in Nat /\ U1 \in Nat /\ U1 + S = U + S1
    <3>1. OnDisk(forge'.staged, forge.weights)
      BY <1>3, <2>2
    <3>2. Forging!Job.repo \in Forging!Repos
      BY <1>2, <2>2
    <3>3. \A r \in Forging!Repos \ {Forging!Job.repo} : forge.staged[r] = forge'.staged[r]
      BY <2>3
    <3> HIDE DEF T
    <3>4. U \in Nat /\ U1 \in Nat /\ U1 + S = U + StagedSize(Forging!Job.repo, forge'.staged[Forging!Job.repo])
      <4> HIDE <2>2
      <4> QED BY <1>3, <3>1, <3>2, <3>3, UsedStaged
    <3> QED BY <2>3, <3>4
  <2>5. R \in Nat /\ S \in Nat
    BY <1>2, <2>2, StagedFacts
  <2>6. S1 \in Nat
    <3>1. T \subseteq DOMAIN Checkpoint[Forging!Job.repo]
      BY <1>2, <2>1, <2>2 DEF Forging!Shards
    <3> HIDE DEF T
    <3> QED BY <1>2, <2>2, <3>1, StagedFacts
  <2>7. /\ (SumFunctionOnSet(Forging!ShardSizes(Forging!Job.repo), forge.staged[Forging!Job.repo]))' = S1
        /\ Forging!RepoSize(Forging!Job.repo)' = R
        /\ SumFunctionOnSet(Forging!ShardSizes(Forging!Job.repo), forge.staged[Forging!Job.repo]) = S
        /\ Forging!Job' = Forging!Job
    BY <2>2, <2>3, Libraries DEF S, S1, R, StagedSize, Forging!Job, Forging!RepoSize, Forging!ShardSizes, Forging!ShardSize
  <2>8. Forging!Free = forge.disk - U /\ Forging!Free' = forge.disk - U1
    BY <1>4, <2>2
  <2> HIDE DEF U, U1, R, S, S1
  <2>9. forge.probed /\ Forging!Job.kind = "llm" => forge.disk - U + S >= Floor + R
    BY <1>1, <2>2, <2>7, <2>8 DEF Space, R
  <2>10. forge.probed /\ Forging!Job.kind = "llm" => forge.disk - U1 + S1 >= Floor + R
    BY <1>5, <2>4, <2>5, <2>6, <2>9
  <2>11. forge'.probed /\ Forging!Job'.kind = "llm" => Forging!Free' + S1 >= Floor + R
    BY <2>2, <2>7, <2>8, <2>10
  <2> QED BY <2>2, <2>7, <2>11 DEF Space
<1>13. CASE Forging!Downloaded
  <2>1. /\ forge.pc = "download" /\ forge'.pc = (IF Forging!Job.kind = "dit" THEN "dit" ELSE "shard")
        /\ forge.staged[Forging!Job.repo] = Forging!Shards /\ forge'.job = forge.job
        /\ forge'.staged = forge.staged /\ forge'.disk = forge.disk
        /\ forge'.weights = [forge.weights EXCEPT ![Forging!Out].state = IF forge.direct THEN "partial" ELSE @]
        /\ forge'.probed = forge.probed
    BY <1>1, <1>13 DEF Forging!Downloaded, ForgeType
  <2>2. CASE Forging!Job.kind = "dit"
    BY <1>6, <2>1, <2>2
  <2>3. CASE Forging!Job.kind # "dit"
    <3> DEFINE U == UsedBy(forge.staged, forge.weights)
               U1 == UsedBy(forge.staged, forge'.weights)
               R == Forging!RepoSize(Forging!Job.repo)
    <3>1. \A o \in Forging!Outs : forge'.weights[o].tensors = forge.weights[o].tensors
      <4>1. forge.weights \in [Forging!Outs -> [state : {"absent", "partial", "whole"}, tensors : SUBSET Stored]]
        BY <1>1 DEF ForgeType
      <4> QED BY <1>2, <2>1, <4>1
    <3>2. U \in Nat /\ U1 = U
      <4>1. [o \in Forging!Outs |-> Forging!OutputSize(forge'.weights[o].tensors)] =
            [o \in Forging!Outs |-> Forging!OutputSize(forge.weights[o].tensors)]
        BY <3>1
      <4>2. U1 = U
        BY <4>1 DEF UsedBy
      <4> QED BY <1>2, <1>3, <2>1, <4>2, UsedStaged
    <3>3. R \in Nat /\ StagedSize(Forging!Job.repo, forge.staged[Forging!Job.repo]) = R
      <4>1. forge.staged[Forging!Job.repo] = DOMAIN Checkpoint[Forging!Job.repo]
        BY <2>1 DEF Forging!Shards
      <4> QED BY <1>2, <2>1, <4>1, StagedFacts
    <3>4. SumFunctionOnSet(Forging!ShardSizes(Forging!Job.repo), forge.staged[Forging!Job.repo]) = R
      BY <3>3 DEF StagedSize
    <3>5. Forging!Free = forge.disk - U /\ Forging!Free' = forge.disk - U
      BY <1>4, <2>1, <3>2
    <3> HIDE DEF U, U1, R
    <3>6. forge.probed /\ Forging!Job.kind = "llm" => forge.disk - U + R >= Floor + R
      BY <1>1, <2>1, <3>4, <3>5 DEF Space, R
    <3>7. forge.probed /\ Forging!Job.kind = "llm" => Forging!Free' >= Floor
      BY <1>5, <3>2, <3>3, <3>5, <3>6
    <3> QED BY <2>1, <2>3, <3>7 DEF Space, Forging!Job
  <2> QED BY <2>2, <2>3

<1>14. CASE Forging!Quantize
  <2> DEFINE Q == Forging!Quantized(Checkpoint[Forging!Job.repo][forge.at], Forging!Job.bits, Forging!ScalesOf(Forging!Job.repo, forge.at))
             X == forge.weights[Forging!Out].tensors \cup Q
             U == UsedBy(forge.staged, forge.weights)
             U1 == UsedBy(forge.staged, forge'.weights)
  <2>1. /\ forge.pc = "shard" /\ forge'.pc = "remove" /\ forge'.at = forge.at
        /\ forge'.weights = [forge.weights EXCEPT ![Forging!Out] = [@ EXCEPT !.tensors = X]]
        /\ forge'.job = forge.job /\ forge'.staged = forge.staged
        /\ forge'.disk = forge.disk /\ forge'.probed = forge.probed
    BY <1>1, <1>14 DEF Forging!Quantize, ForgeType
  <2>2. Forging!Out \in Forging!Outs /\ Forging!Job \in Forging!Lines /\ Forging!Job.repo \in Forging!Repos
    BY <1>2, <2>1
  <2>3. forge.at \in DOMAIN Checkpoint[Forging!Job.repo]
    BY <1>1, <2>1 DEF Working, Forging!Shards
  <2>4. /\ forge'.weights[Forging!Out].tensors = X
        /\ \A o \in Forging!Outs \ {Forging!Out} : forge.weights[o].tensors = forge'.weights[o].tensors
    <3>1. forge.weights \in [Forging!Outs -> [state : {"absent", "partial", "whole"}, tensors : SUBSET Stored]]
      BY <1>1 DEF ForgeType
    <3> HIDE DEF X
    <3> QED BY <2>1, <2>2, <3>1
  <2>5. /\ U \in Nat /\ U1 \in Nat
        /\ U1 + Forging!OutputSize(forge.weights[Forging!Out].tensors) = U + Forging!OutputSize(forge'.weights[Forging!Out].tensors)
    <3>1. OnDisk(forge.staged, forge'.weights)
      BY <1>3, <2>1
    <3>2. \A o \in Forging!Outs \ {Forging!Out} : forge.weights[o].tensors = forge'.weights[o].tensors
      BY <2>4
    <3> HIDE <2>1, <2>4, <2>2
    <3>3. OnDisk(forge.staged, forge.weights) /\ Forging!Out \in Forging!Outs
      BY <1>3, <2>2
    <3> QED BY <3>1, <3>2, <3>3, UsedWeights
  <2>6. IsFiniteSet(Q) /\ Forging!OutputSize(Q) \in Nat
    BY <2>2, <2>3, QuantizedFits
  <2>7. IsFiniteSet(forge.weights[Forging!Out].tensors)
    BY <1>3, <2>2, OutFacts, FS_Subset DEF OnDisk
  <2> HIDE DEF Q
  <2>8. /\ Forging!OutputSize(forge.weights[Forging!Out].tensors) \in Nat
        /\ Forging!OutputSize(X) <= Forging!OutputSize(forge.weights[Forging!Out].tensors) + Forging!OutputSize(Q)
    BY <2>6, <2>7, OutputSizes
  <2>9. Forging!OutputSize(X) \in Nat
    <3>1. IsFiniteSet(X)
      BY <2>6, <2>7, FS_Union
    <3> HIDE DEF X
    <3> QED BY <3>1, OutputSizes
  <2>10. U1 <= U + Forging!OutputSize(Q)
    <3> DEFINE a == Forging!OutputSize(forge.weights[Forging!Out].tensors)
               b == Forging!OutputSize(X)
               c == Forging!OutputSize(Q)
    <3>1. U1 + a = U + b /\ a \in Nat /\ b \in Nat /\ c \in Nat /\ b <= a + c
      BY <2>4, <2>5, <2>6, <2>8, <2>9
    <3> HIDE DEF a, b, c, U, U1
    <3>2. U1 <= U + c
      BY <2>5, <3>1
    <3> QED BY <3>2 DEF c
  <2>11. Forging!Free = forge.disk - U /\ Forging!Free' = forge.disk - U1
    BY <1>4, <2>1
  <2> HIDE DEF U, U1
  <2>12. forge.probed /\ Forging!Job.kind = "llm" => forge.disk - U >= Floor
    BY <1>1, <2>1, <2>11 DEF Space
  <2>13. forge.probed /\ Forging!Job.kind = "llm" => forge.disk - U1 + Forging!OutputSize(Q) >= Floor
    BY <1>5, <2>5, <2>6, <2>10, <2>12
  <2>14. Forging!OutputSize(Forging!Quantized(Checkpoint[Forging!Job.repo][forge.at], Forging!Job.bits, Forging!ScalesOf(Forging!Job.repo, forge.at)))'
            = Forging!OutputSize(Q) /\ Forging!Job' = Forging!Job
    BY <2>1 DEF Q, Forging!Job
  <2> QED BY <2>1, <2>11, <2>13, <2>14 DEF Space
<1>15. CASE Forging!Remove
  <2> DEFINE Q == Forging!Quantized(Checkpoint[Forging!Job.repo][forge.at], Forging!Job.bits, Forging!ScalesOf(Forging!Job.repo, forge.at))
             U == UsedBy(forge.staged, forge.weights)
             U1 == UsedBy(forge'.staged, forge.weights)
             S == StagedSize(Forging!Job.repo, forge.staged[Forging!Job.repo])
             S1 == StagedSize(Forging!Job.repo, forge'.staged[Forging!Job.repo])
             k == Forging!ShardSize(Forging!Job.repo, forge.at)
             q == Forging!OutputSize(Q)
  <2>1. /\ forge.pc = "remove" /\ forge'.pc \in {"finalize", "shard"} /\ forge'.job = forge.job
        /\ forge'.staged = [forge.staged EXCEPT ![Forging!Job.repo] = @ \ {forge.at}]
        /\ forge'.weights = forge.weights
        /\ forge'.disk = forge.disk /\ forge'.probed = forge.probed
    BY <1>1, <1>15 DEF Forging!Remove, ForgeType
  <2>2. /\ Forging!Job.repo \in Forging!Repos
        /\ \A r \in Forging!Repos \ {Forging!Job.repo} : forge.staged[r] = forge'.staged[r]
        /\ forge'.staged[Forging!Job.repo] = forge.staged[Forging!Job.repo] \ {forge.at}
    BY <1>1, <1>2, <2>1 DEF ForgeType
  <2>3. /\ forge.at \in DOMAIN Checkpoint[Forging!Job.repo]
        /\ forge.at \in forge.staged[Forging!Job.repo]
    <3>1. forge.at \in Forging!Shards /\ forge.staged[Forging!Job.repo] = forge.at..Len(Checkpoint[Forging!Job.repo])
      BY <1>1, <2>1 DEF Working
    <3> QED BY <1>2, <2>1, <3>1 DEF Forging!Shards
  <2>4. U \in Nat /\ U1 \in Nat /\ U1 + S = U + S1
    <3>1. OnDisk(forge'.staged, forge.weights)
      BY <1>3, <2>1
    <3>2. \A r \in Forging!Repos \ {Forging!Job.repo} : forge.staged[r] = forge'.staged[r]
      BY <2>2
    <3>3. OnDisk(forge.staged, forge.weights) /\ Forging!Job.repo \in Forging!Repos
      BY <1>3, <2>2
    <3> HIDE <2>1, <2>2
    <3> QED BY <3>1, <3>2, <3>3, UsedStaged
  <2>5. S \in Nat /\ S = k + S1
    <3>1. forge.staged[Forging!Job.repo] \in SUBSET DOMAIN Checkpoint[Forging!Job.repo]
      BY <1>2, <2>1
    <3>2. S = k + StagedSize(Forging!Job.repo, forge.staged[Forging!Job.repo] \ {forge.at}) /\ S \in Nat
      BY <2>2, <2>3, <3>1, StagedFacts
    <3> QED BY <2>2, <3>2
  <2>6. q \in Nat /\ q <= k
    BY <2>2, <2>3, QuantizedFits
  <2>7. k \in Nat
    BY <2>2, <2>3, ShardFacts
  <2>8. S1 \in Nat
    <3>1. forge'.staged[Forging!Job.repo] \in SUBSET DOMAIN Checkpoint[Forging!Job.repo]
      BY <1>2, <2>1, <2>2
    <3> QED BY <2>2, <3>1, StagedFacts
  <2>9. Forging!Free = forge.disk - U /\ Forging!Free' = forge.disk - U1
    BY <1>4, <2>1
  <2>10. forge.probed /\ Forging!Job.kind = "llm" => Forging!Free + q >= Floor
    BY <1>1, <2>1 DEF Space
  <2> HIDE DEF U, U1, S, S1, k, q
  <2>11. forge.probed /\ Forging!Job.kind = "llm" => forge.disk - U1 >= Floor
    BY <1>5, <2>4, <2>5, <2>6, <2>7, <2>8, <2>9, <2>10
  <2> QED BY <2>1, <2>9, <2>11 DEF Space, Forging!Job
<1>16. CASE Forging!QuantizeDit
  <2>1. forge'.pc = "finalize" /\ Forging!Job.kind = "dit" /\ forge'.job = forge.job
    BY <1>1, <1>16 DEF Forging!QuantizeDit, ForgeType, Working
  <2> QED BY <2>1 DEF Space, Forging!Job
<1>17. CASE Forging!Finalize \/ Forging!Record \/ Forging!Raise \/ Forging!Fail \/ Forging!Purge
  <2>1. forge'.pc \in {"record", "purge", "failing", "next"}
    BY <1>1, <1>17 DEF Forging!Finalize, Forging!Record, Forging!Raise, Forging!Fail, Forging!Purge, ForgeType
  <2> QED BY <1>6, <2>1
<1>18. ASSUME NEW tears \in BOOLEAN, Forging!Kill(tears) PROVE Space'
  <2>1. forge'.pc = "idle"
    BY <1>1, <1>18 DEF Forging!Kill, ForgeType
  <2> QED BY <1>6, <2>1
<1>19. \A j \in DOMAIN Jobs : <<Jobs[j]>> \in Seq(Forging!Lines)
  BY DEF Forging!Lines
<1>20. Jobs \in Seq(Forging!Lines)
  BY Libraries DEF Forging!ForgeConstants
<1> QED BY <1>7, <1>8, <1>9, <1>10, <1>11, <1>12, <1>13, <1>14, <1>15, <1>16, <1>17, <1>18, <1>19,
           <1>20 DEF Forging!Next

-----------------------------------------------------------------------------
(* Theorems *)

\* Nothing is staged or written at first.
LEMMA ForgeInitial ==
    ASSUME Forging!ForgeConstants, Forging!Init
    PROVE  ForgeInv
<1>1. PICK direct \in BOOLEAN, disk \in Disks :
        forge = [pc |-> "idle", queue |-> <<>>, batch |-> FALSE, launches |-> 0, disk |-> disk,
                 job |-> Forging!NoJob, at |-> 1, probed |-> FALSE, orderly |-> TRUE, direct |-> direct,
                 staged |-> [r \in Forging!Repos |-> {}], weights |-> [o \in Forging!Outs |-> Forging!Absent],
                 status |-> [r \in Forging!Repos |-> "none"], outputs |-> {}, torn |-> FALSE]
  BY DEF Forging!Init
<1>2. ForgeTyped
  <2>1. <<>> \in Seq(Forging!Lines) /\ [r \in Forging!Repos |-> {}] \in [Forging!Repos -> SUBSET Nat]
    OBVIOUS
  <2>2. forge \in ForgeType
    BY <1>1, <2>1 DEF ForgeType, Places, Forging!Absent
  <2> QED BY <1>1, <2>2 DEF ForgeTyped
<1>3. Files
  BY <1>1 DEF Files, Forging!Absent
<1>4. Working /\ Stages /\ Space
  BY <1>1 DEF Working, Stages, Space, Converting
<1> QED BY <1>2, <1>3, <1>4 DEF ForgeInv

\* A step of another machine leaves it.
LEMMA ForgeUnchanged ==
    ASSUME ForgeInv, UNCHANGED forge
    PROVE  ForgeInv'
BY DEF ForgeInv, ForgeTyped, Files, Working, Stages, Space, Converting, Forging!Job, Forging!Out, Forging!Shards,
       Earlier, Forging!Free, Forging!Used

\* Recorded outputs are finished files with all the tensors of their
\* checkpoints.
LEMMA ForgeWhole == ASSUME Forging!ForgeConstants, ForgeInv PROVE Forging!ForgedIsWhole
<1>1. forge.outputs \subseteq Forging!Outs /\ Files /\ Working /\ forge \in ForgeType
  BY DEF ForgeInv, ForgeTyped, ForgeType
<1>2. \A o \in forge.outputs : forge.weights[o].state = "whole" /\ forge.weights[o].tensors = Forging!Expected(o)
  BY <1>1 DEF Files
<1>3. ASSUME ~forge.direct, NEW o \in Forging!Outs, forge.weights[o].state # "absent"
      PROVE  forge.weights[o].tensors = Forging!Expected(o)
  <2>1. forge.weights[o].state \in {"absent", "partial", "whole"}
    BY <1>1 DEF ForgeType
  <2> QED BY <1>1, <1>3, <2>1 DEF Files
<1> QED BY <1>2, <1>3 DEF Forging!ForgedIsWhole

\* What is free, where the floor is promised.
LEMMA ForgeFloor == ASSUME Forging!ForgeConstants, ForgeInv PROVE Forging!DiskFloorKept
<1>1. Stages /\ Space /\ ForgeTyped
  BY DEF ForgeInv
<1>2. ASSUME forge.pc \in {"download", "shard", "remove", "finalize"}, forge.probed, Forging!Job.kind = "llm"
      PROVE  Forging!Free >= Floor - (IF forge.pc # "remove" THEN 0
                              ELSE Forging!OutputSize(Forging!Quantized(Checkpoint[Forging!Job.repo][forge.at], Forging!Job.bits,
                                                        Forging!ScalesOf(Forging!Job.repo, forge.at))))
  <2>1. /\ Forging!Job.repo \in Forging!Repos
        /\ forge.staged[Forging!Job.repo] \subseteq DOMAIN Checkpoint[Forging!Job.repo]
    BY <1>1, <1>2, JobFacts DEF ForgeTyped
  <2>2. Forging!Free \in Int /\ Floor \in Int
    <3>1. OnDisk(forge.staged, forge.weights)
      BY DEF ForgeInv, ForgeTyped, Files, OnDisk
    <3>2. UsedBy(forge.staged, forge.weights) \in Nat
      BY <2>1, <3>1, UsedStaged
    <3>3. Forging!Free = forge.disk - UsedBy(forge.staged, forge.weights)
      BY Libraries DEF Forging!Free, Forging!Used, UsedBy, StagedSize
    <3>4. forge.disk \in Int /\ Floor \in Int
      BY <1>1, Libraries DEF ForgeTyped, ForgeType, Forging!ForgeConstants
    <3> QED BY <3>2, <3>3, <3>4
  <2>3. CASE forge.pc = "download"
    <3> DEFINE S == StagedSize(Forging!Job.repo, forge.staged[Forging!Job.repo])
               R == Forging!RepoSize(Forging!Job.repo)
    <3>1. S \in Nat /\ R \in Nat /\ S <= R
      BY <2>1, StagedFacts
    <3>2. Forging!Free + S >= Floor + R
      BY <1>1, <1>2, <2>3 DEF Space, StagedSize
    <3> HIDE DEF S, R
    <3> QED BY <2>2, <2>3, <3>1, <3>2
  <2>4. CASE forge.pc \in {"shard", "finalize"}
    BY <1>1, <1>2, <2>2, <2>4 DEF Space
  <2>5. CASE forge.pc = "remove"
    <3> DEFINE q == Forging!OutputSize(Forging!Quantized(Checkpoint[Forging!Job.repo][forge.at], Forging!Job.bits,
                                         Forging!ScalesOf(Forging!Job.repo, forge.at)))
    <3>1. forge.at \in DOMAIN Checkpoint[Forging!Job.repo]
      BY <2>5 DEF ForgeInv, Working, Forging!Shards
    <3>2. q \in Nat
      BY <2>1, <3>1, QuantizedFits
    <3>3. Forging!Free + q >= Floor
      BY <1>1, <1>2, <2>5 DEF Space
    <3> HIDE DEF q
    <3>4. Forging!Free >= Floor - q
      BY <2>2, <3>2, <3>3
    <3> QED BY <2>5, <3>4 DEF q
  <2> QED BY <1>2, <2>3, <2>4, <2>5
<1> QED BY <1>1, <1>2 DEF Forging!DiskFloorKept, Stages

\* A behaviour of the forge keeps its invariant.
LEMMA ForgingInvariant == PartsSpec => [](active = "forge" => ForgeInv)
<1> DEFINE I == active = "forge" => ForgeInv
<1>1. PartsInit => I
  BY ForgeInitial, ForgeAssumption DEF PartsInit
<1>2. I /\ [PartsNext]_partsVars => I'
  <2> SUFFICES ASSUME active = "forge" => ForgeInv, [PartsNext]_partsVars, active' = "forge"
               PROVE  ForgeInv'
    OBVIOUS
  <2>1. active = "forge" /\ (Forging!Next \/ UNCHANGED forge)
    BY DEF PartsNext, Bounded, partsVars
  <2>2. CASE Forging!Next
    BY <2>1, <2>2, ForgeAssumption, TypeStep, FilesStep, StagesStep, SpaceStep DEF ForgeInv
  <2>3. CASE UNCHANGED forge
    BY <2>1, <2>3, ForgeUnchanged
  <2> QED BY <2>1, <2>2, <2>3
<1> QED BY <1>1, <1>2, PTL DEF PartsSpec

\* Whatever fails or is killed, a recorded output is a finished file with
\* every tensor of its checkpoint, and where unfinished files do not stay,
\* so is every file at an output path (tools/forge.py, convert.py).
THEOREM ForgeMakesWholeFiles == PartsSpec => []ForgedIsWhole
<1>1. (active = "forge" => ForgeInv) => ForgedIsWhole
  BY ForgeWhole, ForgeAssumption DEF ForgedIsWhole
<1> QED BY <1>1, ForgingInvariant, PTL

\* While shards of a checkpoint of known size are turned into its output,
\* free space stays above the floor but for what one shard became; and a
\* batch has the staging of one job at most (tools/forge.py).
THEOREM ForgeKeepsDiskFloor == PartsSpec => []DiskFloorKept
<1>1. (active = "forge" => ForgeInv) => DiskFloorKept
  BY ForgeFloor, ForgeAssumption DEF DiskFloorKept
<1> QED BY <1>1, ForgingInvariant, PTL

-----------------------------------------------------------------------------
(* Diffusion *)

-----------------------------------------------------------------------------
(* The invariant *)

Decoding == diff.pc \in {"forward", "round", "emit"}

\* The types; what decided and output have in them is said below.
DiffType(D) ==
    [pc : {"reserve", "forward", "round", "emit", "post", "dead"},
     prompt : [Denoising!Members -> Nat], max : [Denoising!Members -> Nat], steps : Nat, at : Denoising!Members, free : Int,
     blocks : [Denoising!Members -> Int], length : [Denoising!Members -> Nat], stored : SUBSET Denoising!Members,
     finished : SUBSET Denoising!Members, masked : SUBSET Nat, step : Nat, forwards : Nat,
     before : SUBSET Nat, decided : [Denoising!Members -> D], rounds : Seq(Nat),
     output : [Denoising!Members -> Seq(Int)]]
DiffTyped == \E D : diff \in DiffType(D)

\* No block is lost or made.
DiffPool ==
    /\ diff.free + diff.blocks[1] + diff.blocks[2] = NBlocks
    /\ \A i \in diff.finished : diff.blocks[i] = 0
    /\ diff.finished # {} => diff.pc = "post"

\* The canvas: what is not masked any more was decided, once.
CanvasShape ==
    Decoding =>
        /\ diff.length[Denoising!At] = Denoising!Total /\ diff.blocks[Denoising!At] = Denoising!BlocksFor(Denoising!Total)
        /\ diff.masked \subseteq Denoising!Generated
        /\ DOMAIN diff.decided[Denoising!At] = Denoising!Canvas
        /\ \A p \in Denoising!Canvas : IF p \in Denoising!Generated \ diff.masked
                             THEN \E x : diff.decided[Denoising!At][p] = {x}
                             ELSE diff.decided[Denoising!At][p] = {}
        /\ diff.pc = "emit" => diff.masked = {}

\* Decisions, each from a forward that saw all earlier ones.
Seen ==
    Decoding =>
        /\ diff.pc = "round" => diff.before = diff.masked
        /\ \A p \in Denoising!Generated : \A x \in diff.decided[Denoising!At][p] :
            /\ x[1] \in Nat /\ x[1] <= diff.forwards
            /\ diff.pc = "round" => x[1] < diff.forwards
            /\ diff.masked \subseteq x[2]
        /\ \A p, q \in Denoising!Generated : \A x \in diff.decided[Denoising!At][p], y \in diff.decided[Denoising!At][q] :
            x[1] < y[1] => q \in x[2] /\ p \notin y[2]

\* The fair share of a round.
Fair == (diff.max[Denoising!At] + diff.steps - 1) \div diff.steps

\* Forwards and rounds against the steps, and what is left for those to come.
Paced ==
    Decoding =>
        /\ diff.step <= diff.steps
        /\ diff.pc = "forward" => diff.forwards = diff.step
        /\ diff.pc = "round" => diff.forwards = diff.step + 1
        /\ diff.pc # "emit" => diff.step < diff.steps \/ diff.step = 0
        /\ diff.pc = "emit" => diff.forwards <= IF diff.steps > 1 THEN diff.steps ELSE 1
        /\ diff.rounds # <<>> => diff.steps # 0
        /\ \A i \in DOMAIN diff.rounds : diff.rounds[i] <= Fair
        /\ diff.steps # 0 => Cardinality(diff.masked) <= (diff.steps - diff.step) * Fair

DiffInv == DiffTyped /\ DiffPool /\ CanvasShape /\ Seen /\ Paced

-----------------------------------------------------------------------------
(* Shares *)

\* What a round of `left` leaves fits the rounds after it.
LEMMA ShareFacts ==
    ASSUME NEW m \in Nat, m # 0, NEW left \in Nat \ {0}, NEW c \in Nat, m <= left * c
    PROVE  /\ Denoising!Share(m, left) \in Nat /\ Denoising!Share(m, left) <= m /\ Denoising!Share(m, left) # 0
           /\ Denoising!Share(m, left) <= c
           /\ m - Denoising!Share(m, left) <= (left - 1) * c
           /\ left = 1 => Denoising!Share(m, left) = m
<1> DEFINE q == m \div left
           r == m % left
           n == IF q > 1 THEN q ELSE 1
<1>1. m = left * q + r /\ q \in Nat /\ r \in Nat /\ r < left
  OBVIOUS
<1>2. Denoising!Share(m, left) = IF n < m THEN n ELSE m
  BY DEF Denoising!Share
<1>3. q <= c /\ c # 0
  <2> HIDE DEF q, r
  <2>1. left * q <= left * c
    BY <1>1
  <2>2. q <= c
    <3>1. \A a \in Nat : c + 1 <= a => left * a >= left * (c + 1)
      OBVIOUS
    <3>2. left * (c + 1) = left * c + left
      OBVIOUS
    <3> QED BY <1>1, <2>1, <3>1, <3>2
  <2>3. left * 0 = 0
    OBVIOUS
  <2> QED BY <2>2, <2>3
<1>4. r # 0 => q <= c - 1
  <2> HIDE DEF q, r
  <2>1. ASSUME r # 0, q = c PROVE FALSE
    BY <1>1, <2>1
  <2> QED BY <1>1, <1>3, <2>1
<1>5. m - q <= (left - 1) * c
  <2> HIDE DEF q, r
  <2>1. m - q = (left - 1) * q + r
    <3>1. left * q = (left - 1) * q + q
      BY <1>1
    <3> QED BY <1>1, <3>1
  <2>2. \A a, b \in Nat : a <= b => (left - 1) * a <= (left - 1) * b
    OBVIOUS
  <2>3. CASE r = 0
    BY <1>1, <1>3, <2>1, <2>2, <2>3
  <2>4. CASE r # 0
    <3>1. (left - 1) * q <= (left - 1) * (c - 1)
      BY <1>1, <1>3, <1>4, <2>2, <2>4
    <3>2. (left - 1) * (c - 1) = (left - 1) * c - (left - 1)
      OBVIOUS
    <3>3. (left - 1) * q \in Nat /\ (left - 1) * c \in Nat
      BY <1>1
    <3> QED BY <1>1, <2>1, <3>1, <3>2, <3>3
  <2> QED BY <2>3, <2>4
<1>6. (left - 1) * c \in Nat
  OBVIOUS
<1>7. n >= q /\ n >= 1 /\ n <= c /\ n \in Nat
  BY <1>1, <1>3
<1>8. left = 1 => q = m
  OBVIOUS
<1> HIDE DEF q, r, n
<1>9. Denoising!Share(m, left) <= c
  BY <1>2, <1>7
<1>10. m - Denoising!Share(m, left) <= (left - 1) * c
  BY <1>1, <1>2, <1>5, <1>6, <1>7
<1>11. left = 1 => Denoising!Share(m, left) = m
  BY <1>2, <1>7, <1>8
<1> QED BY <1>2, <1>7, <1>9, <1>10, <1>11

-----------------------------------------------------------------------------
(* Every step keeps the invariant *)

\* The canvas of the sequence at hand.
LEMMA CanvasFacts ==
    ASSUME DiffTyped
    PROVE  /\ Denoising!At \in Denoising!Members /\ Denoising!Total \in Nat /\ Denoising!Generated \subseteq Denoising!Canvas /\ Denoising!Canvas \subseteq Nat
           /\ IsFiniteSet(Denoising!Generated) /\ Cardinality(Denoising!Generated) = diff.max[Denoising!At]
           /\ Cardinality(Denoising!Members) = 2 /\ Denoising!Members = {1, 2}
<1>1. PICK D : diff \in DiffType(D)
  BY DEF DiffTyped
<1>2. Denoising!At \in Denoising!Members /\ diff.prompt[Denoising!At] \in Nat /\ diff.max[Denoising!At] \in Nat
  BY <1>1 DEF DiffType, Denoising!At
<1>3. Denoising!Members = {1, 2} /\ Cardinality(Denoising!Members) = 2
  <2>1. Denoising!Members = {1} \cup {2}
    BY DEF Denoising!Members
  <2>2. IsFiniteSet({1}) /\ Cardinality({1}) = 1
    BY FS_Singleton
  <2>3. Cardinality({1} \cup {2}) = IF 2 \in {1} THEN Cardinality({1}) ELSE Cardinality({1}) + 1
    BY <2>2, FS_AddElement
  <2> QED BY <2>1, <2>2, <2>3
<1>4. Denoising!Total \in Nat /\ Denoising!Generated \subseteq Denoising!Canvas /\ Denoising!Canvas \subseteq Nat
  BY <1>2 DEF Denoising!Total, Denoising!Generated, Denoising!Canvas
<1>5. IsFiniteSet(Denoising!Generated) /\ Cardinality(Denoising!Generated) = diff.max[Denoising!At]
  <2> DEFINE a == diff.prompt[Denoising!At]
             b == Denoising!Total - 1
  <2>1. a \in Int /\ b \in Int /\ b - a + 1 = diff.max[Denoising!At]
    BY <1>2 DEF Denoising!Total
  <2>2. Denoising!Generated = a..b
    BY DEF Denoising!Generated
  <2> HIDE DEF a, b
  <2>3. IsFiniteSet(a..b) /\ Cardinality(a..b) = IF a > b THEN 0 ELSE b - a + 1
    BY <2>1, FS_Interval
  <2> QED BY <1>2, <2>1, <2>2, <2>3
<1> QED BY <1>2, <1>3, <1>4, <1>5

\* The types.
LEMMA DiffTypeStep ==
    ASSUME Denoising!DiffusionConstants, DiffInv, Denoising!Next
    PROVE  DiffTyped'
<1>1. PICK D : diff \in DiffType(D)
  BY DEF DiffInv, DiffTyped
<1>2. Denoising!At \in Denoising!Members /\ Denoising!Total \in Nat /\ Denoising!Generated \subseteq Nat
  BY CanvasFacts DEF DiffInv
<1>3. CASE Denoising!Reserve
  <2> DEFINE need == Denoising!BlocksFor(Denoising!Total) - diff.blocks[Denoising!At]
             d == [p \in Denoising!Canvas |-> {}]
             E == D \cup {d}
             b == diff.blocks[Denoising!At] + need
             f == diff.free - need
  <2>1. Denoising!BlocksFor(Denoising!Total) \in Int
    BY <1>2 DEF Denoising!DiffusionConstants, Denoising!BlocksFor
  <2>2. b \in Int /\ f \in Int /\ need \in Int
    <3>1. diff.blocks[Denoising!At] \in Int /\ diff.free \in Int
      BY <1>1, <1>2 DEF DiffType
    <3> QED BY <2>1, <3>1
  <2> DEFINE bs == [diff.blocks EXCEPT ![Denoising!At] = b]
             ls == [diff.length EXCEPT ![Denoising!At] = Denoising!Total]
             ds == [diff.decided EXCEPT ![Denoising!At] = d]
  <2>3. diff' = IF need > diff.free THEN [diff EXCEPT !.pc = "dead"]
                ELSE [diff EXCEPT !.pc = "forward", !.free = f, !.blocks = bs, !.length = ls,
                                  !.masked = Denoising!Generated, !.step = 0, !.forwards = 0, !.rounds = <<>>,
                                  !.decided = ds]
    BY <1>1, <1>3 DEF Denoising!Reserve, DiffType
  <2> HIDE DEF need, d, b, f
  <2>4. diff \in DiffType(E) /\ d \in E
    BY <1>1 DEF DiffType
  <2> HIDE DEF E
  <2>5. bs \in [Denoising!Members -> Int] /\ ls \in [Denoising!Members -> Nat] /\ ds \in [Denoising!Members -> E]
    BY <1>2, <2>2, <2>4 DEF DiffType
  <2>6. <<>> \in Seq(Nat)
    OBVIOUS
  <2> HIDE DEF bs, ls, ds
  <2>7. diff' \in DiffType(E)
    BY <1>2, <2>2, <2>3, <2>4, <2>5, <2>6 DEF DiffType
  <2> QED BY <2>7 DEF DiffTyped
<1>4. CASE Denoising!Forward
  <2>1. diff.forwards + 1 \in Nat
    BY <1>1 DEF DiffType
  <2>2. diff' \in DiffType(D)
    BY <1>1, <1>4, <2>1 DEF Denoising!Forward, DiffType
  <2> QED BY <2>2 DEF DiffTyped
<1>5. ASSUME NEW S \in SUBSET diff.masked, Denoising!Unmask(S) PROVE DiffTyped'
  <2> DEFINE d == Denoising!Decide(S)
             E == D \cup {d}
             r == Append(diff.rounds, Cardinality(S))
             k == diff.step + 1
             pc == IF S = diff.masked THEN "emit" ELSE "forward"
  <2>1. diff' = [diff EXCEPT !.pc = pc, !.masked = diff.masked \ S, !.step = k, !.decided[Denoising!At] = d,
                             !.rounds = r]
    BY <1>5, Libraries DEF Denoising!Unmask
  <2>2. Cardinality(S) \in Nat
    <3>1. S \subseteq Denoising!Generated
      BY <1>5, Libraries DEF DiffInv, CanvasShape, Decoding, Denoising!Unmask
    <3>2. IsFiniteSet(S)
      BY <3>1, CanvasFacts, FS_Subset DEF DiffInv
    <3> QED BY <3>2, FS_CardinalityType
  <2>3. r \in Seq(Nat) /\ k \in Nat /\ diff.masked \ S \in SUBSET Nat
    BY <1>1, <2>2 DEF DiffType
  <2> HIDE DEF d, r, k
  <2>4. diff \in DiffType(E) /\ d \in E
    BY <1>1 DEF DiffType
  <2> HIDE DEF E
  <2>5. diff' \in DiffType(E)
    BY <1>2, <2>1, <2>3, <2>4 DEF DiffType
  <2> QED BY <2>5 DEF DiffTyped
<1>6. CASE Denoising!Leftover
  <2> DEFINE d == Denoising!Decide(diff.masked)
             E == D \cup {d}
  <2>1. diff' = [diff EXCEPT !.pc = "emit", !.masked = {}, !.decided[Denoising!At] = d]
    BY <1>6 DEF Denoising!Leftover
  <2> HIDE DEF d
  <2>2. diff \in DiffType(E) /\ d \in E
    BY <1>1 DEF DiffType
  <2> HIDE DEF E
  <2>3. diff' \in DiffType(E)
    BY <1>2, <2>1, <2>2 DEF DiffType
  <2> QED BY <2>3 DEF DiffTyped
<1>7. CASE Denoising!Emit
  <2> DEFINE o == [i \in 1..diff.max[Denoising!At] |-> diff.prompt[Denoising!At] + i - 1]
             at == IF Denoising!At = Cardinality(Denoising!Members) THEN Denoising!At ELSE Denoising!At + 1
             pc == IF Denoising!At = Cardinality(Denoising!Members) THEN "post" ELSE "reserve"
  <2>1. diff' = [diff EXCEPT !.output[Denoising!At] = o, !.stored = @ \cup {Denoising!At}, !.at = at, !.pc = pc]
    BY <1>7, Libraries DEF Denoising!Emit
  <2>2. o \in Seq(Int)
    <3>1. diff.max[Denoising!At] \in Nat /\ diff.prompt[Denoising!At] \in Nat
      BY <1>1, <1>2 DEF DiffType
    <3>2. \A i \in 1..diff.max[Denoising!At] : o[i] \in Int
      BY <3>1
    <3> QED BY <3>1, <3>2
  <2>3. at \in Denoising!Members
    BY <1>2, CanvasFacts DEF DiffInv
  <2> HIDE DEF o, at
  <2>4. diff' \in DiffType(D)
    BY <1>1, <1>2, <2>1, <2>2, <2>3 DEF DiffType
  <2> QED BY <2>4 DEF DiffTyped
<1>8. CASE Denoising!Postprocess
  <2>1. PICK i \in Denoising!Members :
            diff' = [diff EXCEPT !.finished = @ \cup {i}, !.free = @ + diff.blocks[i], !.blocks[i] = 0]
    BY <1>8, Libraries DEF Denoising!Postprocess
  <2> DEFINE f == diff.free + diff.blocks[i]
  <2>2. f \in Int
    BY <1>1 DEF DiffType
  <2> DEFINE bs == [diff.blocks EXCEPT ![i] = 0]
  <2>3. diff' = [diff EXCEPT !.finished = @ \cup {i}, !.free = f, !.blocks = bs]
    BY <1>1, <2>1 DEF DiffType
  <2>4. bs \in [Denoising!Members -> Int]
    BY <1>1 DEF DiffType
  <2> HIDE DEF f, bs
  <2>5. diff' \in DiffType(D)
    BY <1>1, <2>2, <2>3, <2>4 DEF DiffType
  <2> QED BY <2>5 DEF DiffTyped
<1>9. CASE Denoising!Done
  BY <1>1, <1>9 DEF Denoising!Done, DiffTyped
<1> QED BY <1>3, <1>4, <1>5, <1>6, <1>7, <1>8, <1>9 DEF Denoising!Next

\* The pool.
LEMMA PoolStep ==
    ASSUME Denoising!DiffusionConstants, DiffInv, Denoising!Next
    PROVE  DiffPool'
<1>1. PICK D : diff \in DiffType(D)
  BY DEF DiffInv, DiffTyped
<1>2. /\ Denoising!At \in Denoising!Members /\ Denoising!Members = {1, 2} /\ Denoising!Total \in Nat /\ DiffPool
      /\ diff.blocks[1] \in Int /\ diff.blocks[2] \in Int /\ diff.free \in Int
  <2>1. Denoising!At \in Denoising!Members /\ Denoising!Members = {1, 2} /\ Denoising!Total \in Nat /\ DiffPool
    BY CanvasFacts DEF DiffInv
  <2> QED BY <1>1, <2>1 DEF DiffType
<1>3. CASE Denoising!Reserve
  <2> DEFINE need == Denoising!BlocksFor(Denoising!Total) - diff.blocks[Denoising!At]
  <2>1. diff.pc = "reserve" /\ diff.finished = {}
    BY <1>2, <1>3 DEF Denoising!Reserve, DiffPool
  <2>2. need \in Int
    <3>1. Denoising!BlocksFor(Denoising!Total) \in Int
      BY <1>2 DEF Denoising!DiffusionConstants, Denoising!BlocksFor
    <3> QED BY <1>1, <1>2, <3>1, SMTT(30) DEF DiffType
  <2>3. CASE need > diff.free
    <3>1. diff'.finished = diff.finished /\ diff'.free = diff.free /\ diff'.blocks = diff.blocks
      BY <1>1, <1>3, <2>3 DEF Denoising!Reserve, DiffType
    <3> QED BY <1>2, <2>1, <3>1 DEF DiffPool
  <2>4. CASE ~(need > diff.free)
    <3>1. /\ diff'.finished = diff.finished /\ diff'.free = diff.free - need
          /\ diff'.blocks = [diff.blocks EXCEPT ![Denoising!At] = @ + need]
      BY <1>1, <1>3, <2>4 DEF Denoising!Reserve, DiffType
    <3>2. /\ diff'.blocks[Denoising!At] = diff.blocks[Denoising!At] + need
          /\ \A i \in Denoising!Members : i # Denoising!At => diff'.blocks[i] = diff.blocks[i]
      BY <1>1, <1>2, <3>1 DEF DiffType
    <3> HIDE DEF need
    <3>3. diff'.free + diff'.blocks[1] + diff'.blocks[2] = NBlocks
      <4>1. diff.free + diff.blocks[1] + diff.blocks[2] = NBlocks
        BY <1>2 DEF DiffPool
      <4>2. CASE Denoising!At = 1
        BY <1>2, <2>2, <3>1, <3>2, <4>1, <4>2
      <4>3. CASE Denoising!At = 2
        BY <1>2, <2>2, <3>1, <3>2, <4>1, <4>3
      <4> QED BY <1>2, <4>2, <4>3
    <3> QED BY <2>1, <3>1, <3>3 DEF DiffPool
  <2> QED BY <2>3, <2>4
<1>4. CASE Denoising!Forward \/ Denoising!Leftover \/ Denoising!Emit \/ \E S \in SUBSET diff.masked : Denoising!Unmask(S)
  <2>1. /\ diff.pc \in {"forward", "round", "emit"}
        /\ diff'.finished = diff.finished /\ diff'.free = diff.free /\ diff'.blocks = diff.blocks
    BY <1>1, <1>4, Libraries, ZenonT(60) DEF Denoising!Forward, Denoising!Leftover, Denoising!Emit, Denoising!Unmask, DiffType
  <2> QED BY <1>2, <2>1 DEF DiffPool
<1>5. CASE Denoising!Postprocess
  <2>1. PICK i \in Denoising!Members \ diff.finished :
            diff' = [diff EXCEPT !.finished = @ \cup {i}, !.free = @ + diff.blocks[i], !.blocks[i] = 0]
    BY <1>5, Libraries DEF Denoising!Postprocess
  <2>2. /\ diff.pc = "post" /\ diff'.pc = "post" /\ diff'.finished = diff.finished \cup {i}
        /\ diff'.free = diff.free + diff.blocks[i]
        /\ diff'.blocks = [diff.blocks EXCEPT ![i] = 0]
    BY <1>1, <1>5, <2>1, Libraries DEF Denoising!Postprocess, DiffType
  <2>3. /\ diff'.blocks[i] = 0
        /\ \A j \in Denoising!Members : j # i => diff'.blocks[j] = diff.blocks[j]
    BY <1>1, <2>1, <2>2 DEF DiffType
  <2>4. diff'.free + diff'.blocks[1] + diff'.blocks[2] = NBlocks
    <3>1. diff.free + diff.blocks[1] + diff.blocks[2] = NBlocks
      BY <1>2 DEF DiffPool
    <3>2. CASE i = 1
      BY <1>2, <2>2, <2>3, <3>1, <3>2
    <3>3. CASE i = 2
      BY <1>2, <2>2, <2>3, <3>1, <3>3
    <3> QED BY <1>2, <3>2, <3>3
  <2>5. diff.finished \subseteq Denoising!Members
    BY <1>1 DEF DiffType
  <2> QED BY <1>2, <2>2, <2>3, <2>4, <2>5 DEF DiffPool
<1>6. CASE Denoising!Done
  BY <1>2, <1>6 DEF Denoising!Done, DiffPool
<1> QED BY <1>3, <1>4, <1>5, <1>6 DEF Denoising!Next

\* The canvas of the sequence at hand, its decisions and its rounds.
LEMMA DecodingStep ==
    ASSUME Denoising!DiffusionConstants, DiffInv, Denoising!Next
    PROVE  CanvasShape' /\ Seen' /\ Paced'
<1>1. PICK D : diff \in DiffType(D)
  BY DEF DiffInv, DiffTyped
<1>2. /\ Denoising!At \in Denoising!Members /\ Denoising!Members = {1, 2} /\ Denoising!Total \in Nat /\ Denoising!Generated \subseteq Denoising!Canvas
      /\ Denoising!Canvas \subseteq Nat /\ IsFiniteSet(Denoising!Generated) /\ Cardinality(Denoising!Generated) = diff.max[Denoising!At]
  BY CanvasFacts DEF DiffInv
<1>3. /\ diff.steps \in Nat /\ diff.step \in Nat /\ diff.forwards \in Nat /\ diff.max[Denoising!At] \in Nat
      /\ diff.rounds \in Seq(Nat)
  BY <1>1, <1>2 DEF DiffType
<1>4. CanvasShape /\ Seen /\ Paced
  BY DEF DiffInv
<1>5. ASSUME ~Decoding' PROVE CanvasShape' /\ Seen' /\ Paced'
  BY <1>5 DEF CanvasShape, Seen, Paced
<1>6. diff.steps # 0 => Fair \in Nat
  <2> SUFFICES ASSUME diff.steps # 0 PROVE Fair \in Nat
    OBVIOUS
  <2> DEFINE x == diff.max[Denoising!At] + diff.steps - 1
             n == diff.steps
  <2>1. x \in Nat /\ n \in Nat \ {0}
    BY <1>3
  <2>2. Fair = x \div n
    BY DEF Fair
  <2> HIDE DEF x, n
  <2>3. x \div n \in Nat
    BY <2>1
  <2> QED BY <2>2, <2>3
\* The sequence at hand stays the same while it is decoded.
<1>7. ASSUME diff'.at = diff.at, diff'.prompt = diff.prompt, diff'.max = diff.max
      PROVE  Denoising!At' = Denoising!At /\ Denoising!Total' = Denoising!Total /\ Denoising!Canvas' = Denoising!Canvas /\ Denoising!Generated' = Denoising!Generated
  BY <1>7 DEF Denoising!At, Denoising!Total, Denoising!Canvas, Denoising!Generated
<1>8. CASE Denoising!Reserve
  <2> DEFINE need == Denoising!BlocksFor(Denoising!Total) - diff.blocks[Denoising!At]
  <2>1. CASE need > diff.free
    <3>1. diff'.pc = "dead"
      BY <1>1, <1>8, <2>1 DEF Denoising!Reserve, DiffType
    <3> QED BY <1>5, <3>1 DEF Decoding
  <2>2. CASE ~(need > diff.free)
    <3>1. /\ diff'.pc = "forward" /\ diff'.at = diff.at /\ diff'.prompt = diff.prompt
          /\ diff'.max = diff.max /\ diff'.steps = diff.steps
          /\ diff'.blocks = [diff.blocks EXCEPT ![Denoising!At] = @ + need]
          /\ diff'.length = [diff.length EXCEPT ![Denoising!At] = Denoising!Total]
          /\ diff'.masked = Denoising!Generated /\ diff'.step = 0 /\ diff'.forwards = 0 /\ diff'.rounds = <<>>
          /\ diff'.decided = [diff.decided EXCEPT ![Denoising!At] = [p \in Denoising!Canvas |-> {}]]
      BY <1>1, <1>8, <2>2 DEF Denoising!Reserve, DiffType
    <3>2. /\ diff'.blocks[Denoising!At] = diff.blocks[Denoising!At] + need
          /\ diff'.length[Denoising!At] = Denoising!Total
          /\ diff'.decided[Denoising!At] = [p \in Denoising!Canvas |-> {}]
      <4> HIDE DEF need
      <4> QED BY <1>1, <1>2, <3>1 DEF DiffType
    <3>3. diff'.blocks[Denoising!At] = Denoising!BlocksFor(Denoising!Total)
      <4>1. Denoising!BlocksFor(Denoising!Total) \in Int
        BY <1>2 DEF Denoising!DiffusionConstants, Denoising!BlocksFor
      <4>2. diff.blocks[Denoising!At] \in Int
        BY <1>1, <1>2 DEF DiffType
      <4> QED BY <3>2, <4>1, <4>2
    <3>4. Denoising!At' = Denoising!At /\ Denoising!Total' = Denoising!Total /\ Denoising!Canvas' = Denoising!Canvas /\ Denoising!Generated' = Denoising!Generated
      BY <1>7, <3>1
    <3>5. CanvasShape'
      BY <1>2, <3>1, <3>2, <3>3, <3>4 DEF CanvasShape
    <3>6. Seen'
      BY <1>2, <3>1, <3>2, <3>4 DEF Seen
    <3>7. diff.steps # 0 => diff.max[Denoising!At] <= diff.steps * Fair
      <4> DEFINE x == diff.max[Denoising!At] + diff.steps - 1
                 n == diff.steps
                 q == x \div n
                 r == x % n
      <4> SUFFICES ASSUME n # 0 PROVE diff.max[Denoising!At] <= n * q
        BY DEF Fair
      <4>1. x \in Nat /\ n \in Nat \ {0}
        BY <1>3
      <4>2. x = n * q + r /\ q \in Nat /\ r \in Nat /\ r < n
        <5> HIDE DEF x, n
        <5> QED BY <4>1
      <4>3. diff.max[Denoising!At] = x - n + 1
        BY <1>3
      <4>4. n * q \in Nat
        <5> HIDE DEF x, n, q
        <5> QED BY <4>1, <4>2
      <4> HIDE DEF x, n, q, r
      <4> QED BY <4>1, <4>2, <4>3, <4>4
    <3>8. Fair' = Fair
      BY <3>1, <3>4 DEF Fair
    <3>9. diff.steps - 0 = diff.steps
      BY <1>3
    <3>10. DOMAIN diff'.rounds = {}
      BY <3>1
    <3>11. Cardinality(diff'.masked) = diff.max[Denoising!At]
      BY <1>2, <3>1
    <3>12. Paced'
      BY <1>3, <3>1, <3>7, <3>8, <3>9, <3>10, <3>11 DEF Paced
    <3> QED BY <3>5, <3>6, <3>12
  <2> QED BY <2>1, <2>2
<1>9. CASE Denoising!Forward
  <2>1. /\ diff.pc = "forward" /\ diff'.pc = "round" /\ diff'.forwards = diff.forwards + 1
        /\ diff'.before = diff.masked /\ diff'.masked = diff.masked
        /\ diff'.at = diff.at /\ diff'.prompt = diff.prompt
        /\ diff'.max = diff.max /\ diff'.steps = diff.steps /\ diff'.step = diff.step
        /\ diff'.blocks = diff.blocks /\ diff'.length = diff.length
        /\ diff'.rounds = diff.rounds /\ diff'.decided = diff.decided
    BY <1>1, <1>9 DEF Denoising!Forward, DiffType
  <2>2. Denoising!At' = Denoising!At /\ Denoising!Total' = Denoising!Total /\ Denoising!Canvas' = Denoising!Canvas /\ Denoising!Generated' = Denoising!Generated /\ Fair' = Fair
        /\ Decoding
    BY <1>7, <2>1 DEF Fair, Decoding
  <2>3. CanvasShape'
    BY <1>4, <2>1, <2>2 DEF CanvasShape
  <2>4. Seen'
    BY <1>3, <1>4, <2>1, <2>2 DEF Seen
  <2>5. Paced'
    BY <1>3, <1>4, <2>1, <2>2 DEF Paced
  <2> QED BY <2>3, <2>4, <2>5
\* A decision of the positions of S, from the last forward.
<1>10. ASSUME NEW S \in SUBSET diff.masked, diff.pc = "round", diff'.pc \in {"forward", "emit"},
              diff'.masked = diff.masked \ S, diff'.masked # {} => diff'.pc = "forward",
              diff'.at = diff.at, diff'.prompt = diff.prompt, diff'.max = diff.max,
              diff'.forwards = diff.forwards,
              diff'.blocks = diff.blocks, diff'.length = diff.length,
              diff'.decided = [diff.decided EXCEPT ![Denoising!At] = Denoising!Decide(S)]
       PROVE  CanvasShape' /\ Seen'
  <2> DEFINE old == diff.decided[Denoising!At]
             new == Denoising!Decide(S)
             it  == <<diff.forwards, diff.before>>
  <2>1. Denoising!At' = Denoising!At /\ Denoising!Total' = Denoising!Total /\ Denoising!Canvas' = Denoising!Canvas /\ Denoising!Generated' = Denoising!Generated /\ Decoding
    BY <1>7, <1>10 DEF Decoding
  <2>2. diff'.decided[Denoising!At] = new
    <3>1. diff'.decided = [diff.decided EXCEPT ![Denoising!At] = new]
      BY <1>10
    <3>2. DOMAIN diff.decided = Denoising!Members
      BY <1>1 DEF DiffType
    <3> HIDE DEF new
    <3> QED BY <1>2, <3>1, <3>2
  <2>3. S \subseteq Denoising!Generated /\ diff.masked \subseteq Denoising!Generated
    BY <1>4, <2>1 DEF CanvasShape
  <2>4. \A p \in Denoising!Canvas : IF p \in Denoising!Generated \ diff.masked THEN \E x : old[p] = {x} ELSE old[p] = {}
    BY <1>4, <2>1 DEF CanvasShape
  <2>5. \A p \in Denoising!Canvas : new[p] = IF p \in S THEN {it} ELSE old[p]
    BY <2>3, <2>4, <1>2 DEF Denoising!Decide
  <2>6. DOMAIN new = Denoising!Canvas
    BY DEF Denoising!Decide
  <2> HIDE DEF new
  <2>7. CanvasShape'
    <3>1. \A p \in Denoising!Canvas : IF p \in Denoising!Generated \ (diff.masked \ S) THEN \E x : new[p] = {x}
                            ELSE new[p] = {}
      BY <2>3, <2>4, <2>5
    <3>2. diff.length[Denoising!At] = Denoising!Total /\ diff.blocks[Denoising!At] = Denoising!BlocksFor(Denoising!Total)
      BY <1>4, <2>1 DEF CanvasShape
    <3> QED BY <1>10, <2>1, <2>2, <2>3, <2>6, <3>1, <3>2 DEF CanvasShape
  <2>8. /\ diff.before = diff.masked
        /\ \A p \in Denoising!Generated : \A x \in old[p] :
              x[1] \in Nat /\ x[1] < diff.forwards /\ diff.masked \subseteq x[2]
        /\ \A p, q \in Denoising!Generated : \A x \in old[p], y \in old[q] :
              x[1] < y[1] => q \in x[2] /\ p \notin y[2]
    BY <1>4, <1>10, <2>1 DEF Seen
  <2>9. it[1] = diff.forwards /\ it[2] = diff.masked
    BY <2>8
  <2> HIDE DEF it
  <2>10. \A p \in Denoising!Generated : \A x \in new[p] : (p \in S /\ x = it) \/ (p \notin diff.masked /\ x \in old[p])
    <3> SUFFICES ASSUME NEW p \in Denoising!Generated, NEW x \in new[p]
                 PROVE  (p \in S /\ x = it) \/ (p \notin diff.masked /\ x \in old[p])
      OBVIOUS
    <3>1. p \in Denoising!Canvas
      BY <1>2
    <3>2. CASE p \in S
      BY <2>5, <3>1, <3>2
    <3>3. CASE p \notin S
      <4>1. x \in old[p]
        BY <2>5, <3>1, <3>3
      <4> QED BY <2>4, <3>1, <4>1
    <3> QED BY <3>2, <3>3
  <2>11. \A p \in Denoising!Generated : \A x \in new[p] :
            x[1] \in Nat /\ x[1] <= diff.forwards /\ diff.masked \subseteq x[2]
    BY <1>3, <2>8, <2>9, <2>10
  <2>12. ASSUME NEW p \in Denoising!Generated, NEW q \in Denoising!Generated, NEW x \in new[p], NEW y \in new[q], x[1] < y[1]
         PROVE  q \in x[2] /\ p \notin y[2]
    <3>1. CASE x = it
      <4>1. y[1] \in Nat /\ y[1] <= diff.forwards
        BY <2>11
      <4> QED BY <1>3, <2>9, <2>12, <3>1, <4>1
    <3>2. CASE x # it
      <4>1. p \notin diff.masked /\ x \in old[p]
        BY <2>10, <3>2
      <4>2. CASE q \in S /\ y = it
        BY <2>8, <2>9, <4>1, <4>2
      <4>3. CASE y \in old[q]
        BY <2>8, <2>12, <4>1, <4>3
      <4> QED BY <2>10, <4>2, <4>3
    <3> QED BY <3>1, <3>2
  <2>13. Seen'
    <3>1. diff'.masked \subseteq diff.masked /\ diff'.pc # "round"
      BY <1>10
    <3> QED BY <1>10, <2>1, <2>2, <2>11, <2>12, <3>1 DEF Seen
  <2> QED BY <2>7, <2>13
<1>11. ASSUME NEW S \in SUBSET diff.masked, Denoising!Unmask(S) PROVE CanvasShape' /\ Seen' /\ Paced'
  <2> DEFINE m == Cardinality(diff.masked)
             left == diff.steps - diff.step
             c == Fair
             n == Denoising!Share(m, left)
  <2>1. /\ diff.pc = "round" /\ diff'.pc = (IF S = diff.masked THEN "emit" ELSE "forward")
        /\ diff.masked # {} /\ diff.step < diff.steps /\ Cardinality(S) = n
        /\ diff'.masked = diff.masked \ S /\ diff'.step = diff.step + 1
        /\ diff'.decided = [diff.decided EXCEPT ![Denoising!At] = Denoising!Decide(S)]
        /\ diff'.rounds = Append(diff.rounds, n)
        /\ diff'.at = diff.at /\ diff'.prompt = diff.prompt /\ diff'.max = diff.max
        /\ diff'.forwards = diff.forwards /\ diff'.steps = diff.steps
        /\ diff'.blocks = diff.blocks /\ diff'.length = diff.length
    BY <1>1, <1>11, Libraries DEF Denoising!Unmask, DiffType
  <2>2. CanvasShape' /\ Seen'
    <3>1. diff'.masked # {} => diff'.pc = "forward"
      BY <2>1
    <3> QED BY <1>10, <2>1, <3>1
  <2>3. Denoising!At' = Denoising!At /\ Denoising!Generated' = Denoising!Generated /\ Decoding /\ Fair' = Fair
    BY <1>7, <2>1 DEF Decoding, Fair
  <2>4. IsFiniteSet(diff.masked) /\ m \in Nat /\ m # 0
    <3>1. IsFiniteSet(diff.masked)
      BY <1>2, <1>4, <2>3, FS_Subset DEF CanvasShape
    <3> QED BY <2>1, <3>1, FS_CardinalityType, FS_EmptySet
  <2>5. left \in Nat \ {0} /\ c \in Nat /\ m <= left * c
    BY <1>3, <1>4, <1>6, <2>1, <2>3 DEF Paced
  <2>6. Cardinality(diff.masked \ S) = m - n
    <3>1. diff.masked \cap S = S
      OBVIOUS
    <3>2. Cardinality(diff.masked \ S) = Cardinality(diff.masked) - Cardinality(diff.masked \cap S)
      BY <2>4, FS_Difference
    <3> QED BY <2>1, <3>1, <3>2
  <2>7. S # diff.masked => n # m
    <3>1. ASSUME n = m PROVE S = diff.masked
      BY <2>1, <2>4, <3>1, FS_Subset
    <3> QED BY <3>1
  <2> HIDE DEF m, left, c, n
  <2>8. /\ n \in Nat /\ n <= m /\ n # 0 /\ n <= c
        /\ m - n <= (left - 1) * c /\ (left = 1 => n = m)
    BY <2>4, <2>5, ShareFacts DEF n
  <2>9. diff'.steps - diff'.step = left - 1 /\ diff'.step <= diff'.steps
    BY <1>3, <2>1 DEF left
  <2>10. S # diff.masked => diff'.step < diff'.steps
    BY <1>3, <2>1, <2>5, <2>7, <2>8, SMTT(30) DEF left
  <2>11. diff.forwards = diff.step + 1 /\ \A i \in DOMAIN diff.rounds : diff.rounds[i] <= c
    BY <1>4, <2>1, <2>3 DEF Paced, c
  <2>12. \A i \in DOMAIN diff'.rounds : diff'.rounds[i] <= c
    <3> SUFFICES ASSUME NEW i \in DOMAIN diff'.rounds PROVE diff'.rounds[i] <= c
      OBVIOUS
    <3>1. i \in 1..Len(diff.rounds) + 1 /\ Len(diff.rounds) \in Nat
      BY <1>3, <2>1
    <3>2. CASE i = Len(diff.rounds) + 1
      BY <1>3, <2>1, <2>8, <3>2
    <3>3. CASE i # Len(diff.rounds) + 1
      BY <1>3, <2>1, <2>11, <3>1, <3>3
    <3> QED BY <3>2, <3>3
  <2>13. diff.steps # 0 /\ diff.steps >= 1
    BY <1>3, <2>1
  <2>14. Cardinality(diff'.masked) <= (left - 1) * c
    BY <2>1, <2>6, <2>8
  <2>15. diff'.forwards <= IF diff.steps > 1 THEN diff.steps ELSE 1
    BY <1>3, <2>1, <2>11
  <2>16. Paced'
    BY <2>1, <2>3, <2>9, <2>10, <2>11, <2>12, <2>13, <2>14, <2>15 DEF Paced, c
  <2> QED BY <2>2, <2>16
<1>12. CASE Denoising!Leftover
  <2>1. /\ diff.pc = "round" /\ diff'.pc = "emit" /\ diff'.masked = {}
        /\ diff.masked = {} \/ diff.step = diff.steps
        /\ diff'.decided = [diff.decided EXCEPT ![Denoising!At] = Denoising!Decide(diff.masked)]
        /\ diff'.rounds = diff.rounds /\ diff'.step = diff.step
        /\ diff'.at = diff.at /\ diff'.prompt = diff.prompt /\ diff'.max = diff.max
        /\ diff'.forwards = diff.forwards /\ diff'.steps = diff.steps
        /\ diff'.blocks = diff.blocks /\ diff'.length = diff.length
    BY <1>1, <1>12 DEF Denoising!Leftover, DiffType
  <2>2. CanvasShape' /\ Seen'
    <3>1. diff'.masked = diff.masked \ diff.masked
      BY <2>1
    <3> QED BY <1>10, <2>1, <3>1
  <2>3. Denoising!At' = Denoising!At /\ Decoding /\ Fair' = Fair
    BY <2>1 DEF Decoding, Fair, Denoising!At
  <2>4. diff.forwards <= IF diff.steps > 1 THEN diff.steps ELSE 1
    BY <1>3, <1>4, <2>1, <2>3 DEF Paced
  <2>5. Cardinality(diff'.masked) = 0
    BY <2>1, FS_EmptySet
  <2>6. diff.step <= diff.steps /\ (diff.steps # 0 => 0 <= (diff.steps - diff.step) * Fair)
    <3>1. diff.step <= diff.steps
      BY <1>4, <2>3 DEF Paced
    <3>2. \A a, b \in Nat : 0 <= a * b
      OBVIOUS
    <3> QED BY <1>3, <1>6, <3>1, <3>2
  <2>7. Paced'
    BY <1>4, <2>1, <2>3, <2>4, <2>5, <2>6 DEF Paced
  <2> QED BY <2>2, <2>7
<1>13. CASE Denoising!Emit
  <2>1. diff'.pc \in {"post", "reserve"}
    BY <1>1, <1>13, Libraries DEF Denoising!Emit, DiffType
  <2> QED BY <1>5, <2>1 DEF Decoding
<1>14. CASE Denoising!Postprocess
  <2>1. diff'.pc = "post"
    BY <1>1, <1>14, Libraries DEF Denoising!Postprocess, DiffType
  <2> QED BY <1>5, <2>1 DEF Decoding
<1>15. CASE Denoising!Done
  <2>1. diff' = diff
    BY <1>15 DEF Denoising!Done
  <2>2. Denoising!At' = Denoising!At /\ Denoising!Total' = Denoising!Total /\ Denoising!Canvas' = Denoising!Canvas /\ Denoising!Generated' = Denoising!Generated
    BY <1>7, <2>1
  <2>3. Decoding' = Decoding /\ Fair' = Fair
    BY <2>1, <2>2 DEF Decoding, Fair
  <2>4. CanvasShape'
    BY <1>4, <2>1, <2>2, <2>3 DEF CanvasShape
  <2>5. Seen'
    BY <1>4, <2>1, <2>2, <2>3 DEF Seen
  <2>6. Paced'
    BY <1>4, <2>1, <2>2, <2>3 DEF Paced
  <2> QED BY <2>4, <2>5, <2>6
<1> QED BY <1>8, <1>9, <1>11, <1>12, <1>13, <1>14, <1>15 DEF Denoising!Next

\* The first state has nothing decoded and the whole pool.
LEMMA DiffInitial ==
    ASSUME Denoising!DiffusionConstants, Denoising!Init
    PROVE  DiffInv
<1>1. PICK n \in [Denoising!Members -> PromptLens], m \in [Denoising!Members -> AnswerLens], s \in Steps :
        diff = [pc |-> "reserve", prompt |-> n, max |-> m, steps |-> s, at |-> 1,
                free |-> NBlocks, blocks |-> [i \in Denoising!Members |-> 0],
                length |-> [i \in Denoising!Members |-> 0], stored |-> {}, finished |-> {},
                masked |-> {}, step |-> 0, forwards |-> 0, before |-> {},
                decided |-> [i \in Denoising!Members |-> <<>>], rounds |-> <<>>,
                output |-> [i \in Denoising!Members |-> <<>>]]
  BY DEF Denoising!Init
<1>2. Denoising!Members = {1, 2}
  BY DEF Denoising!Members
<1>3. n \in [Denoising!Members -> Nat] /\ m \in [Denoising!Members -> Nat] /\ s \in Nat /\ NBlocks \in Int
  <2>1. PromptLens \subseteq Nat /\ AnswerLens \subseteq Nat /\ Steps \subseteq Nat /\ NBlocks \in Nat
    BY DEF Denoising!DiffusionConstants
  <2>2. \A i \in Denoising!Members : n[i] \in Nat /\ m[i] \in Nat
    BY <2>1
  <2> QED BY <2>1, <2>2
<1>4. diff \in DiffType({<<>>})
  <2>1. [i \in Denoising!Members |-> 0] \in [Denoising!Members -> Int]
    OBVIOUS
  <2>2. [i \in Denoising!Members |-> <<>>] \in [Denoising!Members -> {<<>>}] /\ [i \in Denoising!Members |-> <<>>] \in [Denoising!Members -> Seq(Int)]
    OBVIOUS
  <2> QED BY <1>1, <1>2, <1>3, <2>1, <2>2 DEF DiffType
<1>5. DiffPool
  BY <1>1, <1>2, <1>3 DEF DiffPool
<1>6. ~Decoding
  BY <1>1 DEF Decoding
<1> QED BY <1>4, <1>5, <1>6 DEF DiffInv, DiffTyped, CanvasShape, Seen, Paced

\* A step of another machine leaves it.
LEMMA DiffUnchanged ==
    ASSUME DiffInv, UNCHANGED diff
    PROVE  DiffInv'
<1>1. DiffTyped' /\ DiffPool'
  BY DEF DiffInv, DiffTyped, DiffPool
<1>2. /\ Denoising!At' = Denoising!At /\ Denoising!Total' = Denoising!Total /\ Denoising!Canvas' = Denoising!Canvas /\ Denoising!Generated' = Denoising!Generated
      /\ Decoding' = Decoding /\ Fair' = Fair
  BY DEF Decoding, Fair, Denoising!At, Denoising!Total, Denoising!Canvas, Denoising!Generated
<1>3. CanvasShape'
  BY <1>2 DEF DiffInv, CanvasShape
<1>4. Seen'
  BY <1>2 DEF DiffInv, Seen
<1>5. Paced'
  BY <1>2 DEF DiffInv, Paced
<1> QED BY <1>1, <1>3, <1>4, <1>5 DEF DiffInv

\* What is emitted, and the pool at the end.
LEMMA DiffDecided == ASSUME DiffInv PROVE Denoising!CanvasIsDecided
<1>1. ASSUME diff.pc = "emit"
      PROVE  /\ diff.masked = {}
             /\ \A p \in Denoising!Canvas : Cardinality(diff.decided[Denoising!At][p]) = IF p \in Denoising!Generated THEN 1 ELSE 0
             /\ \A p, q \in Denoising!Generated : \A x \in diff.decided[Denoising!At][p], y \in diff.decided[Denoising!At][q] :
                   x[1] < y[1] => q \in x[2] /\ p \notin y[2]
             /\ diff.forwards <= IF diff.steps > 1 THEN diff.steps ELSE 1
             /\ \A i \in DOMAIN diff.rounds :
                   diff.rounds[i] <= (diff.max[Denoising!At] + diff.steps - 1) \div diff.steps
             /\ diff.length[Denoising!At] = Denoising!Total /\ diff.blocks[Denoising!At] = Denoising!BlocksFor(diff.length[Denoising!At])
  <2>1. Decoding
    BY <1>1 DEF Decoding
  <2>2. /\ diff.masked = {} /\ diff.length[Denoising!At] = Denoising!Total /\ diff.blocks[Denoising!At] = Denoising!BlocksFor(Denoising!Total)
        /\ \A p \in Denoising!Canvas : IF p \in Denoising!Generated THEN \E x : diff.decided[Denoising!At][p] = {x}
                             ELSE diff.decided[Denoising!At][p] = {}
    BY <1>1, <2>1 DEF DiffInv, CanvasShape
  <2>3. ASSUME NEW p \in Denoising!Canvas
        PROVE  Cardinality(diff.decided[Denoising!At][p]) = IF p \in Denoising!Generated THEN 1 ELSE 0
    <3>1. CASE p \in Denoising!Generated
      BY <2>2, <3>1, FS_Singleton
    <3>2. CASE p \notin Denoising!Generated
      BY <2>2, <3>2, FS_EmptySet
    <3> QED BY <3>1, <3>2
  <2>4. \A p, q \in Denoising!Generated : \A x \in diff.decided[Denoising!At][p], y \in diff.decided[Denoising!At][q] :
           x[1] < y[1] => q \in x[2] /\ p \notin y[2]
    BY <2>1 DEF DiffInv, Seen
  <2>5. /\ diff.forwards <= IF diff.steps > 1 THEN diff.steps ELSE 1
        /\ \A i \in DOMAIN diff.rounds : diff.rounds[i] <= Fair
    BY <1>1, <2>1 DEF DiffInv, Paced
  <2> QED BY <2>2, <2>3, <2>4, <2>5 DEF Fair
<1>2. ASSUME diff.finished = Denoising!Members PROVE diff.free = NBlocks
  <2>1. PICK D : diff \in DiffType(D)
    BY DEF DiffInv, DiffTyped
  <2>2. diff.blocks[1] = 0 /\ diff.blocks[2] = 0
    BY <1>2 DEF DiffInv, DiffPool, Denoising!Members
  <2> QED BY <2>1, <2>2 DEF DiffInv, DiffPool, DiffType
<1> QED BY <1>1, <1>2, Libraries DEF Denoising!CanvasIsDecided

\* A behaviour of a diffusion batch keeps its invariant.
LEMMA DenoisingInvariant == PartsSpec => [](active = "diffusion" => DiffInv)
<1> DEFINE I == active = "diffusion" => DiffInv
<1>1. PartsInit => I
  BY DiffInitial, DiffusionAssumption DEF PartsInit
<1>2. I /\ [PartsNext]_partsVars => I'
  <2> SUFFICES ASSUME active = "diffusion" => DiffInv, [PartsNext]_partsVars, active' = "diffusion"
               PROVE  DiffInv'
    OBVIOUS
  <2>1. active = "diffusion" /\ (Denoising!Next \/ UNCHANGED diff)
    BY DEF PartsNext, Bounded, partsVars
  <2>2. CASE Denoising!Next
    BY <2>1, <2>2, DiffusionAssumption, DiffTypeStep, PoolStep, DecodingStep DEF DiffInv
  <2>3. CASE UNCHANGED diff
    BY <2>1, <2>3, DiffUnchanged
  <2> QED BY <2>1, <2>2, <2>3
<1> QED BY <1>1, <1>2, PTL DEF PartsSpec

\* A canvas is emitted with every generated position decided exactly once,
\* from what was decided before it; no round takes more than its share, and
\* the pool gets its blocks back (engine/decode_strategy.py).
THEOREM DiffusionDecidesTheCanvas == PartsSpec => []CanvasIsDecided
<1>1. (active = "diffusion" => DiffInv) => CanvasIsDecided
  BY DiffDecided DEF CanvasIsDecided
<1> QED BY <1>1, DenoisingInvariant, PTL

-----------------------------------------------------------------------------
(* Planner *)

-----------------------------------------------------------------------------
(* The invariant *)

\* Layouts and scores, as far as types go.
Layouts == [pp : Nat, ep : Nat, replicas : Nat]
Triple(a) == a[1] \in Int /\ a[2] \in Int /\ a[3] \in Int

\* The types.
PlanTyped ==
    /\ plan = [pc |-> plan.pc, gpus |-> plan.gpus, layers |-> plan.layers,
               experts |-> plan.experts, maxpp |-> plan.maxpp, replicas |-> plan.replicas,
               best |-> plan.best, score |-> plan.score, strategy |-> plan.strategy,
               warnings |-> plan.warnings, stages |-> plan.stages]
    /\ plan.pc \in {"scan", "planned", "configured", "built"}
    /\ plan.gpus \in Nat \ {0} /\ plan.layers \in Nat \ {0} /\ plan.experts \in Nat
    /\ plan.maxpp \in Nat /\ plan.maxpp \in 1..MaxDepth
    /\ plan.replicas \in Nat /\ plan.best \in Layouts /\ Triple(plan.score)

Fallback == [pp |-> 1, ep |-> 1, replicas |-> 1]

\* The best so far of what was scanned.
Scanned ==
    /\ plan.pc = "scan" => plan.replicas <= plan.gpus
    /\ plan.pc = "scan" /\ plan.best # Fallback =>
        \E r \in 1..plan.gpus : plan.best \in Planning!Groups(r)
    /\ plan.pc = "scan" =>
        plan.score = IF plan.best = Fallback THEN <<-1, -1, -1>> ELSE Planning!Score(plan.best)
    /\ plan.pc = "scan" =>
        \A r \in plan.replicas + 1..plan.gpus : \A x \in Planning!Groups(r) : ~Planning!Beats(Planning!Score(x), plan.score)

\* The plan that came out.
Settled ==
    /\ plan.pc # "scan" =>
        /\ plan.best = Fallback \/ \E r \in 1..plan.gpus : plan.best \in Planning!Groups(r)
        /\ \A r \in 1..plan.gpus : \A x \in Planning!Groups(r) : ~Planning!Beats(Planning!Score(x), Planning!Score(plan.best))
        /\ plan.warnings = {}
    /\ plan.pc = "built" =>
        LET mid == Planning!High(1, plan.layers \div 2) IN
        plan.stages = <<[first |-> 0, past |-> mid, rows |-> mid, offset |-> 0],
                        [first |-> mid, past |-> plan.layers, rows |-> plan.layers - mid,
                         offset |-> mid]>>

PlanInv == PlanTyped /\ Scanned /\ Settled

-----------------------------------------------------------------------------
(* Layouts and their order *)

\* What the loops reach fits the devices, the layers and the experts.
LEMMA GroupFacts ==
    ASSUME PlanTyped, NEW r \in 1..plan.gpus, NEW x \in Planning!Groups(r)
    PROVE  /\ x \in Layouts /\ x.replicas = r /\ x.pp >= 2 /\ x.ep >= 1
           /\ x.pp <= plan.maxpp /\ x.pp <= plan.layers
           /\ x.ep <= Planning!High(1, plan.experts) /\ (plan.experts = 0 => x.ep = 1)
           /\ x.pp * x.ep * x.replicas <= plan.gpus
           /\ plan.experts > 0 => x.pp * x.ep * x.replicas = plan.gpus
<1> DEFINE per  == plan.gpus \div r
           low  == plan.gpus % r
           deep == Planning!Low(plan.maxpp, Planning!Low(plan.layers, per))
<1>1. /\ plan.gpus \in Nat \ {0} /\ plan.layers \in Nat \ {0} /\ plan.experts \in Nat
      /\ plan.maxpp \in Nat /\ r \in Nat \ {0}
  BY DEF PlanTyped
<1>2. plan.gpus = r * per + low /\ per \in Nat /\ low \in Nat /\ low < r
  BY <1>1
<1>3. low = 0
  BY DEF Planning!Groups, Planning!Divides
<1>4. /\ plan.experts = 0 => x \in {[pp |-> p, ep |-> 1, replicas |-> r] : p \in {deep} \cap 2..plan.maxpp}
      /\ plan.experts # 0 =>
            x \in {y \in [pp : 2..deep, ep : 1..Planning!Low(per \div 2, plan.experts), replicas : {r}] :
                        y.pp * y.ep = per}
  BY <1>3 DEF Planning!Groups, Planning!Divides
<1>5. per \div 2 \in Nat
  <2> HIDE DEF per
  <2> QED BY <1>2
<1> HIDE DEF per, low
<1>6. deep \in Nat /\ deep <= plan.maxpp /\ deep <= plan.layers /\ deep <= per
  BY <1>1, <1>2 DEF Planning!Low
<1> HIDE DEF deep
<1>7. CASE plan.experts = 0
  <2>1. PICK p \in {deep} \cap 2..plan.maxpp : x = [pp |-> p, ep |-> 1, replicas |-> r]
    BY <1>4, <1>7
  <2>2. p \in Nat /\ p >= 2 /\ p <= plan.maxpp /\ p <= plan.layers /\ p <= per
    BY <1>1, <1>6, <2>1
  <2>3. x.pp = p /\ x.ep = 1 /\ x.replicas = r /\ x \in Layouts
    BY <1>1, <2>1, <2>2 DEF Layouts
  <2>4. p * 1 * r <= plan.gpus
    <3>1. \A a, b, c \in Nat : a <= b => a * c <= c * b
      OBVIOUS
    <3>2. p * r <= r * per
      BY <1>1, <1>2, <2>2, <3>1
    <3>3. p * 1 = p
      BY <2>2
    <3> QED BY <1>1, <1>2, <1>3, <3>2, <3>3
  <2> QED BY <1>1, <1>7, <2>2, <2>3, <2>4 DEF Planning!High
<1>8. CASE plan.experts # 0
  <2>1. /\ x \in [pp : 2..deep, ep : 1..Planning!Low(per \div 2, plan.experts), replicas : {r}]
        /\ x.pp * x.ep = per
    BY <1>4, <1>8
  <2>2. x.pp \in 2..deep /\ x.ep \in 1..Planning!Low(per \div 2, plan.experts) /\ x.replicas = r
    BY <2>1
  <2>3. Planning!Low(per \div 2, plan.experts) \in Nat /\ Planning!Low(per \div 2, plan.experts) <= plan.experts
    BY <1>1, <1>5 DEF Planning!Low
  <2>4. /\ x.pp \in Nat /\ x.pp >= 2 /\ x.pp <= deep /\ x.ep \in Nat /\ x.ep >= 1
        /\ x.ep <= plan.experts
    BY <1>1, <1>6, <2>2, <2>3
  <2>5. x \in Layouts
    BY <1>1, <2>1, <2>4 DEF Layouts
  <2>6. x.pp * x.ep * x.replicas = plan.gpus
    BY <1>1, <1>2, <1>3, <2>1, <2>2
  <2> QED BY <1>1, <1>6, <1>8, <2>2, <2>4, <2>5, <2>6 DEF Planning!High
<1> QED BY <1>1, <1>7, <1>8

\* The order of tuples is one.
LEMMA BeatsFacts ==
    ASSUME NEW a, NEW b, NEW c, Triple(a), Triple(b), Triple(c)
    PROVE  /\ ~Planning!Beats(a, a)
           /\ Planning!Beats(a, b) => ~Planning!Beats(b, a)
           /\ Planning!Beats(a, b) /\ Planning!Beats(b, c) => Planning!Beats(a, c)
<1>1. \A x, y : Planning!Beats(x, y) <=>
        \/ x[1] > y[1]
        \/ x[2] > y[2] /\ x[1] = y[1]
        \/ x[3] > y[3] /\ x[1] = y[1] /\ x[2] = y[2]
  <2> SUFFICES ASSUME NEW x, NEW y
               PROVE  Planning!Beats(x, y) <=>
                        \/ x[1] > y[1]
                        \/ x[2] > y[2] /\ x[1] = y[1]
                        \/ x[3] > y[3] /\ x[1] = y[1] /\ x[2] = y[2]
    OBVIOUS
  <2> DEFINE At(i) == x[i] > y[i] /\ \A j \in 1..i - 1 : x[j] = y[j]
  <2>1. 1..3 = {1, 2, 3} /\ 1..1 - 1 = {} /\ 1..2 - 1 = {1} /\ 1..3 - 1 = {1, 2}
    OBVIOUS
  <2>2. Planning!Beats(x, y) <=> \E i \in {1, 2, 3} : At(i)
    BY <2>1 DEF Planning!Beats
  <2>3. At(1) <=> x[1] > y[1]
    BY <2>1
  <2>4. At(2) <=> x[2] > y[2] /\ x[1] = y[1]
    BY <2>1
  <2>5. At(3) <=> x[3] > y[3] /\ x[1] = y[1] /\ x[2] = y[2]
    BY <2>1
  <2> HIDE DEF At
  <2>6. (\E i \in {1, 2, 3} : At(i)) <=> At(1) \/ At(2) \/ At(3)
    OBVIOUS
  <2> QED BY <2>2, <2>3, <2>4, <2>5, <2>6
<1> QED BY <1>1 DEF Triple

\* Scores are above that of no layout, and depend on the experts only.
LEMMA ScoreFacts ==
    ASSUME NEW x \in Layouts
    PROVE  Triple(Planning!Score(x)) /\ Planning!Beats(Planning!Score(x), <<-1, -1, -1>>)
<1>1. Planning!Score(x)[1] \in {0, 1} /\ Planning!Score(x)[2] = x.pp /\ Planning!Score(x)[3] = x.replicas
  BY DEF Planning!Score
<1>2. x.pp \in Int /\ x.replicas \in Int
  BY DEF Layouts
<1>3. Planning!Score(x)[1] > <<-1, -1, -1>>[1] /\ \A j \in 1..1 - 1 : FALSE
  BY <1>1
<1> QED BY <1>1, <1>2, <1>3 DEF Triple, Planning!Beats

-----------------------------------------------------------------------------
(* Every step keeps the invariant *)

\* The model and the machine stay what they are, and with them what the
\* loops reach and what it scores.
LEMMA SamePlan ==
    ASSUME plan'.gpus = plan.gpus, plan'.layers = plan.layers, plan'.experts = plan.experts,
           plan'.maxpp = plan.maxpp
    PROVE  /\ \A r : Planning!Groups(r)' = Planning!Groups(r)
           /\ \A x : Planning!Score(x)' = Planning!Score(x)
BY DEF Planning!Groups, Planning!Score

\* The scan starts with the fallback.
LEMMA PlanInitial ==
    ASSUME Planning!PlannerConstants, Planning!Init
    PROVE  PlanInv
<1>1. PICK g \in Gpus, l \in Layers, x \in Experts, depth \in 1..MaxDepth :
        plan = [pc |-> IF g = 1 THEN "planned" ELSE "scan", gpus |-> g, layers |-> l,
                experts |-> x, maxpp |-> depth, replicas |-> g,
                best |-> [pp |-> 1, ep |-> 1, replicas |-> 1], score |-> <<-1, -1, -1>>,
                strategy |-> "replicate", warnings |-> {}, stages |-> <<>>]
  BY DEF Planning!Init
<1>2. g \in Nat \ {0} /\ l \in Nat \ {0} /\ x \in Nat /\ depth \in Nat
  BY DEF Planning!PlannerConstants
<1>3. PlanTyped
  BY <1>1, <1>2 DEF PlanTyped, Layouts, Triple
<1>4. Scanned
  BY <1>1, <1>2 DEF Scanned, Fallback
<1>5. ASSUME g = 1, NEW r \in 1..plan.gpus, NEW y \in Planning!Groups(r) PROVE FALSE
  <2>1. /\ y \in Layouts /\ y.replicas = r /\ y.pp >= 2 /\ y.ep >= 1
        /\ y.pp * y.ep * y.replicas <= plan.gpus
    BY <1>3, <1>5, GroupFacts
  <2>2. y.pp \in Nat /\ y.ep \in Nat /\ r = 1 /\ plan.gpus = 1
    BY <1>1, <1>5, <2>1 DEF Layouts
  <2>3. y.pp * y.ep <= 1
    BY <2>1, <2>2
  <2>4. \A a, b \in Nat : b >= 1 => a * b >= a
    OBVIOUS
  <2>5. y.pp * y.ep \in Nat /\ y.pp * y.ep >= y.pp
    BY <2>1, <2>2, <2>4
  <2> QED BY <2>1, <2>2, <2>3, <2>5
<1>6. Settled
  BY <1>1, <1>2, <1>5 DEF Settled, Fallback
<1> QED BY <1>3, <1>4, <1>6 DEF PlanInv

\* A round leaves the best of what was scanned.
LEMMA RoundStep ==
    ASSUME Planning!PlannerConstants, PlanInv, Planning!Round
    PROVE  PlanInv'
<1> DEFINE r == plan.replicas
           better == {x \in Planning!Groups(r) : Planning!Beats(Planning!Score(x), plan.score)}
<1>1. PlanTyped /\ Scanned
  BY DEF PlanInv
<1>2. /\ plan.pc = "scan" /\ r \in Nat /\ r > 0 /\ r \in 1..plan.gpus /\ r <= plan.gpus
      /\ plan.gpus \in Nat /\ Triple(plan.score)
      /\ plan.best # Fallback => \E k \in 1..plan.gpus : plan.best \in Planning!Groups(k)
      /\ plan.score = IF plan.best = Fallback THEN <<-1, -1, -1>> ELSE Planning!Score(plan.best)
      /\ \A k \in r + 1..plan.gpus : \A x \in Planning!Groups(k) : ~Planning!Beats(Planning!Score(x), plan.score)
  <2>1. plan.pc = "scan" /\ r > 0
    BY DEF Planning!Round
  <2>2. r \in Nat /\ plan.gpus \in Nat /\ Triple(plan.score)
    BY <1>1 DEF PlanTyped
  <2>3. /\ r <= plan.gpus
        /\ plan.best # Fallback => \E k \in 1..plan.gpus : plan.best \in Planning!Groups(k)
        /\ plan.score = IF plan.best = Fallback THEN <<-1, -1, -1>> ELSE Planning!Score(plan.best)
    BY <1>1, <2>1 DEF Scanned
  <2>4. \A k \in r + 1..plan.gpus : \A x \in Planning!Groups(k) : ~Planning!Beats(Planning!Score(x), plan.score)
    BY <1>1, <2>1 DEF Scanned
  <2> QED BY <2>1, <2>2, <2>3, <2>4
<1>3. \/ better = {} /\ plan' = [plan EXCEPT !.replicas = @ - 1]
      \/ \E x \in better :
            /\ \A y \in better \ {x} : Planning!Beats(Planning!Score(x), Planning!Score(y))
            /\ plan' = [plan EXCEPT !.replicas = @ - 1, !.best = x, !.score = Planning!Score(x)]
  BY DEF Planning!Round
<1>4. (plan.replicas - 1) + 1..plan.gpus = r..plan.gpus
  BY <1>2
<1>5. \A k \in r..plan.gpus : k = r \/ k \in r + 1..plan.gpus
  BY <1>2
<1>6. CASE better = {} /\ plan' = [plan EXCEPT !.replicas = @ - 1]
  <2>1. /\ plan'.replicas = r - 1 /\ plan'.best = plan.best /\ plan'.score = plan.score
        /\ plan'.pc = plan.pc /\ plan'.gpus = plan.gpus /\ plan'.layers = plan.layers
        /\ plan'.experts = plan.experts /\ plan'.maxpp = plan.maxpp
    BY <1>1, <1>6 DEF PlanTyped
  <2>2. PlanTyped'
    BY <1>1, <1>2, <1>6, <2>1 DEF PlanTyped
  <2>3. \A k : Planning!Groups(k)' = Planning!Groups(k)
    BY <2>1, SamePlan
  <2>4. \A x : Planning!Score(x)' = Planning!Score(x)
    BY <2>1, SamePlan
  <2>5. \A k \in r..plan.gpus : \A x \in Planning!Groups(k) : ~Planning!Beats(Planning!Score(x), plan.score)
    BY <1>2, <1>5, <1>6
  <2>6. Scanned'
    BY <1>2, <1>4, <2>1, <2>3, <2>4, <2>5 DEF Scanned
  <2>7. Settled'
    BY <1>2, <2>1 DEF Settled
  <2> QED BY <2>2, <2>6, <2>7 DEF PlanInv
<1>7. ASSUME NEW x \in better, \A y \in better \ {x} : Planning!Beats(Planning!Score(x), Planning!Score(y)),
             plan' = [plan EXCEPT !.replicas = @ - 1, !.best = x, !.score = Planning!Score(x)]
      PROVE  PlanInv'
  <2>1. /\ plan'.replicas = r - 1 /\ plan'.best = x /\ plan'.score = Planning!Score(x)
        /\ plan'.pc = plan.pc /\ plan'.gpus = plan.gpus /\ plan'.layers = plan.layers
        /\ plan'.experts = plan.experts /\ plan'.maxpp = plan.maxpp
    BY <1>1, <1>7 DEF PlanTyped
  <2>2. x \in Planning!Groups(r) /\ x \in Layouts /\ x.pp >= 2 /\ Planning!Beats(Planning!Score(x), plan.score)
    BY <1>1, <1>2, GroupFacts
  <2>3. Triple(Planning!Score(x))
    BY <2>2, ScoreFacts
  <2>4. PlanTyped'
    <3>1. plan' = [plan EXCEPT !.replicas = r - 1, !.best = x, !.score = Planning!Score(x)]
      BY <1>7
    <3>2. plan' = [pc |-> plan'.pc, gpus |-> plan'.gpus, layers |-> plan'.layers,
                   experts |-> plan'.experts, maxpp |-> plan'.maxpp, replicas |-> plan'.replicas,
                   best |-> plan'.best, score |-> plan'.score, strategy |-> plan'.strategy,
                   warnings |-> plan'.warnings, stages |-> plan'.stages]
      BY <1>1, <3>1 DEF PlanTyped
    <3>3. /\ plan'.pc \in {"scan", "planned", "configured", "built"}
          /\ plan'.gpus \in Nat \ {0} /\ plan'.layers \in Nat \ {0} /\ plan'.experts \in Nat
          /\ plan'.maxpp \in Nat /\ plan'.maxpp \in 1..MaxDepth
      BY <1>1, <2>1 DEF PlanTyped
    <3>4. plan'.replicas \in Nat /\ plan'.best \in Layouts /\ Triple(plan'.score)
      BY <1>2, <2>1, <2>2, <2>3
    <3>5. Triple(plan.score)'
      BY <3>4 DEF Triple
    <3> QED BY <3>2, <3>3, <3>4, <3>5 DEF PlanTyped, Layouts
  <2>5. \A k : Planning!Groups(k)' = Planning!Groups(k)
    BY <2>1, SamePlan
  <2>6. \A y : Planning!Score(y)' = Planning!Score(y)
    BY <2>1, SamePlan
  <2>7. ASSUME NEW k \in r..plan.gpus, NEW y \in Planning!Groups(k)
        PROVE  ~Planning!Beats(Planning!Score(y), Planning!Score(x))
    <3>1. k \in 1..plan.gpus
      BY <1>2
    <3>2. Triple(Planning!Score(y))
      <4>1. y \in Layouts
        BY <1>1, <3>1, GroupFacts
      <4> QED BY <4>1, ScoreFacts
    <3>3. CASE y \in better
      <4>1. CASE y = x
        BY <2>3, <4>1, BeatsFacts
      <4>2. CASE y # x
        <5>1. Planning!Beats(Planning!Score(x), Planning!Score(y))
          BY <1>7, <3>3, <4>2
        <5> QED BY <2>3, <3>2, <5>1, BeatsFacts
      <4> QED BY <4>1, <4>2
    <3>4. CASE y \notin better
      <4>1. ~Planning!Beats(Planning!Score(y), plan.score)
        BY <1>2, <1>5, <3>4
      <4>2. Planning!Beats(Planning!Score(y), Planning!Score(x)) /\ Planning!Beats(Planning!Score(x), plan.score) => Planning!Beats(Planning!Score(y), plan.score)
        BY <1>2, <2>3, <3>2, BeatsFacts
      <4> QED BY <2>2, <4>1, <4>2
    <3> QED BY <3>3, <3>4
  <2>8. x # Fallback
    BY <2>2 DEF Fallback
  <2> HIDE DEF better
  <2>9. Scanned'
    BY <1>2, <1>4, <2>1, <2>2, <2>5, <2>6, <2>7, <2>8 DEF Scanned
  <2>10. Settled'
    BY <1>2, <2>1 DEF Settled
  <2> QED BY <2>4, <2>9, <2>10 DEF PlanInv
<1> QED BY <1>3, <1>6, <1>7

\* After the loop the clamps change nothing, and no layout beats the plan.
LEMMA SettleStep ==
    ASSUME Planning!PlannerConstants, PlanInv, Planning!Settle
    PROVE  PlanInv'
<1> DEFINE b == [plan.best EXCEPT !.pp = Planning!High(1, Planning!Low(Planning!Low(@, plan.maxpp), plan.layers)),
                                  !.ep = Planning!High(1, Planning!Low(@, Planning!High(1, plan.experts)))]
<1>1. PlanTyped /\ Scanned
  BY DEF PlanInv
<1>2. /\ plan.pc = "scan" /\ plan.replicas = 0
      /\ plan.gpus \in Nat /\ plan.layers \in Nat \ {0} /\ plan.experts \in Nat
      /\ plan.maxpp \in Nat \ {0} /\ Triple(plan.score) /\ plan.best \in Layouts
      /\ plan.best # Fallback => \E k \in 1..plan.gpus : plan.best \in Planning!Groups(k)
      /\ plan.score = IF plan.best = Fallback THEN <<-1, -1, -1>> ELSE Planning!Score(plan.best)
      /\ \A k \in 1..plan.gpus : \A x \in Planning!Groups(k) : ~Planning!Beats(Planning!Score(x), plan.score)
  BY <1>1 DEF Planning!Settle, PlanTyped, Scanned
<1>3. /\ plan.best.pp >= 1 /\ plan.best.pp <= plan.maxpp /\ plan.best.pp <= plan.layers
      /\ plan.best.ep >= 1 /\ plan.best.ep <= Planning!High(1, plan.experts)
  <2>1. CASE plan.best = Fallback
    BY <1>2, <2>1 DEF Fallback, Planning!High
  <2>2. CASE plan.best # Fallback
    <3>1. PICK k \in 1..plan.gpus : plan.best \in Planning!Groups(k)
      BY <1>2, <2>2
    <3>2. /\ plan.best \in Layouts /\ plan.best.pp >= 2 /\ plan.best.ep >= 1
          /\ plan.best.pp <= plan.maxpp /\ plan.best.pp <= plan.layers
          /\ plan.best.ep <= Planning!High(1, plan.experts)
      BY <1>1, <3>1, GroupFacts
    <3> QED BY <3>2 DEF Layouts
  <2> QED BY <2>1, <2>2
<1>4. b = plan.best
  <2>1. plan.best.pp \in Nat /\ plan.best.ep \in Nat
    BY <1>2 DEF Layouts
  <2>2. Planning!High(1, Planning!Low(Planning!Low(plan.best.pp, plan.maxpp), plan.layers)) = plan.best.pp
    BY <1>2, <1>3, <2>1 DEF Planning!High, Planning!Low
  <2>3. Planning!High(1, Planning!Low(plan.best.ep, Planning!High(1, plan.experts))) = plan.best.ep
    BY <1>2, <1>3, <2>1 DEF Planning!High, Planning!Low
  <2> QED BY <1>2, <2>2, <2>3 DEF Layouts
<1>5. plan' = [plan EXCEPT !.pc = "planned", !.best = b, !.strategy = Planning!Label(b),
                           !.warnings = IF plan.layers < b.pp THEN {"thin"} ELSE {}]
  BY DEF Planning!Settle
<1> HIDE DEF b
<1>6. /\ plan'.pc = "planned" /\ plan'.best = plan.best /\ plan'.warnings = {}
      /\ plan'.gpus = plan.gpus /\ plan'.layers = plan.layers
      /\ plan'.experts = plan.experts /\ plan'.maxpp = plan.maxpp
  <2>1. ~(plan.layers < b.pp)
    BY <1>2, <1>3, <1>4 DEF Layouts
  <2> QED BY <1>1, <1>4, <1>5, <2>1 DEF PlanTyped
<1>7. PlanTyped'
  BY <1>1, <1>4, <1>5, <1>6 DEF PlanTyped, Triple
<1>8. \A k : Planning!Groups(k)' = Planning!Groups(k)
  BY <1>6, SamePlan
<1>9. \A x : Planning!Score(x)' = Planning!Score(x)
  BY <1>6, SamePlan
<1>10. \A k \in 1..plan.gpus : \A x \in Planning!Groups(k) : ~Planning!Beats(Planning!Score(x), Planning!Score(plan.best))
  <2>1. CASE plan.best # Fallback
    BY <1>2, <2>1
  <2>2. CASE plan.best = Fallback
    <3>1. ASSUME NEW k \in 1..plan.gpus, NEW x \in Planning!Groups(k) PROVE FALSE
      <4>1. x \in Layouts
        BY <1>1, GroupFacts
      <4>2. Planning!Beats(Planning!Score(x), <<-1, -1, -1>>)
        BY <4>1, ScoreFacts
      <4> QED BY <1>2, <2>2, <4>2
    <3> QED BY <3>1
  <2> QED BY <2>1, <2>2
<1>11. Scanned'
  BY <1>6 DEF Scanned
<1>12. Settled'
  BY <1>2, <1>6, <1>8, <1>9, <1>10 DEF Settled
<1> QED BY <1>7, <1>11, <1>12 DEF PlanInv

\* The configuration has no complaint; the stages meet in the middle.
LEMMA BuildStep ==
    ASSUME Planning!PlannerConstants, PlanInv, Planning!Configure \/ Planning!MakePipeline
    PROVE  PlanInv'
<1>1. PlanTyped /\ Settled
  BY DEF PlanInv
<1>2. /\ plan.pc \in {"planned", "configured"} /\ plan'.pc \in {"configured", "built"}
      /\ plan'.best = plan.best /\ plan'.gpus = plan.gpus /\ plan'.layers = plan.layers
      /\ plan'.experts = plan.experts /\ plan'.maxpp = plan.maxpp
  BY <1>1 DEF Planning!Configure, Planning!MakePipeline, PlanTyped
<1>3. PlanTyped'
  BY <1>1 DEF Planning!Configure, Planning!MakePipeline, PlanTyped, Triple
<1>4. \A k : Planning!Groups(k)' = Planning!Groups(k)
  BY <1>2, SamePlan
<1>5. \A x : Planning!Score(x)' = Planning!Score(x)
  BY <1>2, SamePlan
<1>6. /\ plan.best \in Layouts /\ plan.best.pp >= 1 /\ plan.best.pp <= MaxDepth /\ plan.best.ep >= 0
      /\ plan.maxpp \in Nat /\ MaxDepth \in Nat
  <2>1. plan.maxpp \in Nat /\ plan.maxpp <= MaxDepth /\ plan.maxpp >= 1 /\ MaxDepth \in Nat
    BY <1>1 DEF PlanTyped, Planning!PlannerConstants
  <2>2. CASE plan.best = Fallback
    BY <2>1, <2>2 DEF Fallback, Layouts
  <2>3. ASSUME NEW r \in 1..plan.gpus, plan.best \in Planning!Groups(r)
        PROVE  plan.best \in Layouts /\ plan.best.pp >= 2 /\ plan.best.pp <= plan.maxpp /\ plan.best.ep >= 1
    BY <1>1, <2>3, GroupFacts
  <2>4. CASE plan.best # Fallback
    BY <1>1, <1>2, <2>1, <2>3, <2>4 DEF Settled, Layouts
  <2> QED BY <2>1, <2>2, <2>4
<1>7. plan'.warnings = {}
  <2>1. plan.warnings = {}
    BY <1>1, <1>2 DEF Settled
  <2>2. CASE Planning!Configure
    <3>1. Planning!Complaints(plan.best.pp, plan.best.ep) = {}
      <4>1. plan.best.pp \in Nat /\ plan.best.ep \in Nat
        BY <1>6 DEF Layouts
      <4>2. ~(plan.best.pp > MaxDepth) /\ plan.best.pp # 0 /\ ~(plan.best.ep < 0)
        BY <1>6, <4>1
      <4> QED BY <4>2 DEF Planning!Complaints
    <3>2. plan'.warnings = plan.warnings \cup Planning!Complaints(plan.best.pp, plan.best.ep)
      BY <1>1, <2>2 DEF Planning!Configure, PlanTyped
    <3> QED BY <2>1, <3>1, <3>2
  <2>3. CASE Planning!MakePipeline
    BY <1>1, <2>1, <2>3 DEF Planning!MakePipeline, PlanTyped
  <2> QED BY <2>2, <2>3
<1>8. plan'.pc = "built" =>
        LET mid == Planning!High(1, plan.layers \div 2) IN
        plan'.stages = <<[first |-> 0, past |-> mid, rows |-> mid, offset |-> 0],
                         [first |-> mid, past |-> plan.layers, rows |-> plan.layers - mid,
                          offset |-> mid]>>
  <2>1. CASE Planning!Configure
    BY <1>1, <2>1 DEF Planning!Configure, PlanTyped
  <2>2. CASE Planning!MakePipeline
    BY <1>1, <2>2 DEF Planning!MakePipeline, PlanTyped
  <2> QED BY <2>1, <2>2
<1>9. Scanned'
  BY <1>2 DEF Scanned
<1>10. Settled'
  BY <1>1, <1>2, <1>4, <1>5, <1>7, <1>8 DEF Settled
<1> QED BY <1>3, <1>9, <1>10 DEF PlanInv

\* A step of another machine leaves it.
LEMMA PlanUnchanged ==
    ASSUME PlanInv, UNCHANGED plan
    PROVE  PlanInv'
<1>1. \A r : Planning!Groups(r)' = Planning!Groups(r)
  BY SamePlan
<1>2. \A x : Planning!Score(x)' = Planning!Score(x)
  BY SamePlan
<1>3. PlanTyped'
  BY DEF PlanInv, PlanTyped, Triple
<1>4. Scanned'
  BY <1>1, <1>2 DEF PlanInv, Scanned
<1>5. Settled'
  BY <1>1, <1>2 DEF PlanInv, Settled
<1> QED BY <1>3, <1>4, <1>5 DEF PlanInv

\* What the plan and its stages are in the end.
LEMMA PlanPartitions == ASSUME Planning!PlannerConstants, PlanInv PROVE Planning!PlansPartition
<1> SUFFICES ASSUME plan.pc = "built"
             PROVE  LET b == plan.best IN
                    /\ b.pp * b.ep * b.replicas <= plan.gpus
                    /\ b.pp \in 1..Planning!Low(plan.layers, plan.maxpp)
                    /\ b.ep \in 1..Planning!High(1, plan.experts)
                    /\ plan.warnings = {}
                    /\ Planning!Boundaries(b) < MaxDepth
                    /\ plan.experts > 0 => b.pp * b.ep * b.replicas \in {1, plan.gpus}
                    /\ \A r \in 1..plan.gpus : \A x \in Planning!Groups(r) : ~Planning!Beats(Planning!Score(x), Planning!Score(b))
                    /\ \A l \in 0..plan.layers - 1 : \E s \in 1..2 :
                        /\ {t \in 1..2 : l \in plan.stages[t].first..plan.stages[t].past - 1} = {s}
                        /\ Planning!CacheRow(plan.stages[s], l) \in 0..plan.stages[s].rows - 1
                    /\ plan.layers >= 2 => \A s \in 1..2 : plan.stages[s].rows >= 1
  BY DEF Planning!PlansPartition
<1> DEFINE b == plan.best
           mid == Planning!High(1, plan.layers \div 2)
<1>1. PlanTyped /\ Settled
  BY DEF PlanInv
<1>2. /\ plan.gpus \in Nat \ {0} /\ plan.layers \in Nat \ {0} /\ plan.experts \in Nat
      /\ plan.maxpp \in Nat /\ plan.maxpp >= 1 /\ plan.maxpp <= MaxDepth /\ MaxDepth \in Nat
  BY <1>1 DEF PlanTyped, Planning!PlannerConstants
<1>3. /\ b.pp \in Nat /\ b.ep \in Nat /\ b.replicas \in Nat
      /\ b.pp * b.ep * b.replicas <= plan.gpus
      /\ b.pp >= 1 /\ b.pp <= plan.maxpp /\ b.pp <= plan.layers
      /\ b.ep >= 1 /\ b.ep <= Planning!High(1, plan.experts)
      /\ plan.experts > 0 => b.pp * b.ep * b.replicas \in {1, plan.gpus}
  <2>1. CASE b = Fallback
    BY <1>2, <2>1 DEF Fallback, Planning!High
  <2>2. CASE b # Fallback
    <3>1. PICK r \in 1..plan.gpus : b \in Planning!Groups(r)
      BY <1>1, <2>2 DEF Settled
    <3>2. /\ b \in Layouts /\ b.pp >= 2 /\ b.ep >= 1
          /\ b.pp <= plan.maxpp /\ b.pp <= plan.layers
          /\ b.ep <= Planning!High(1, plan.experts)
          /\ b.pp * b.ep * b.replicas <= plan.gpus
          /\ plan.experts > 0 => b.pp * b.ep * b.replicas = plan.gpus
      BY <1>1, <3>1, GroupFacts
    <3> QED BY <3>2 DEF Layouts
  <2> QED BY <2>1, <2>2
<1>4. b.pp \in 1..Planning!Low(plan.layers, plan.maxpp) /\ b.ep \in 1..Planning!High(1, plan.experts)
  BY <1>2, <1>3 DEF Planning!Low, Planning!High
<1>5. Planning!Boundaries(b) < MaxDepth
  BY <1>2, <1>3 DEF Planning!Boundaries, Planning!High
<1>6. /\ plan.warnings = {}
      /\ \A r \in 1..plan.gpus : \A x \in Planning!Groups(r) : ~Planning!Beats(Planning!Score(x), Planning!Score(b))
      /\ plan.stages = <<[first |-> 0, past |-> mid, rows |-> mid, offset |-> 0],
                         [first |-> mid, past |-> plan.layers, rows |-> plan.layers - mid,
                          offset |-> mid]>>
  BY <1>1 DEF Settled
<1>7. mid \in Nat /\ mid >= 1 /\ mid <= plan.layers /\ (plan.layers >= 2 => mid < plan.layers)
  <2> DEFINE h == plan.layers \div 2
  <2>1. h \in Nat /\ plan.layers = 2 * h + (plan.layers % 2) /\ plan.layers % 2 \in 0..1
    <3>1. \A n \in Nat : n \div 2 \in Nat
      OBVIOUS
    <3>2. \A n \in Nat : n = 2 * (n \div 2) + (n % 2)
      OBVIOUS
    <3>3. \A n \in Nat : n % 2 \in 0..1
      OBVIOUS
    <3> QED BY <1>2, <3>1, <3>2, <3>3
  <2>2. mid = IF 1 > h THEN 1 ELSE h
    BY DEF Planning!High
  <2> HIDE DEF h, mid
  <2>3. plan.layers % 2 = 0 \/ plan.layers % 2 = 1
    BY <2>1
  <2> QED BY <1>2, <2>1, <2>2, <2>3
<1> HIDE DEF mid
<1>8. /\ plan.stages[1].first = 0 /\ plan.stages[1].past = mid /\ plan.stages[1].rows = mid
      /\ plan.stages[1].offset = 0
      /\ plan.stages[2].first = mid /\ plan.stages[2].past = plan.layers
      /\ plan.stages[2].rows = plan.layers - mid /\ plan.stages[2].offset = mid
  BY <1>6
<1>9. ASSUME NEW l \in 0..plan.layers - 1
      PROVE  \E s \in 1..2 :
                /\ {t \in 1..2 : l \in plan.stages[t].first..plan.stages[t].past - 1} = {s}
                /\ Planning!CacheRow(plan.stages[s], l) \in 0..plan.stages[s].rows - 1
  <2>1. l \in Nat /\ l <= plan.layers - 1
    BY <1>2
  <2>2. 1..2 = {1, 2}
    OBVIOUS
  <2>3. CASE l < mid
    <3>1. l \in 0..mid - 1 /\ l \notin mid..plan.layers - 1
      BY <1>2, <1>7, <2>1, <2>3
    <3>2. {t \in {1, 2} : l \in plan.stages[t].first..plan.stages[t].past - 1} = {1}
      BY <1>8, <3>1
    <3>3. Planning!CacheRow(plan.stages[1], l) \in 0..plan.stages[1].rows - 1
      BY <1>8, <2>1, <3>1 DEF Planning!CacheRow
    <3> QED BY <2>2, <3>2, <3>3
  <2>4. CASE ~(l < mid)
    <3>1. l \notin 0..mid - 1 /\ l \in mid..plan.layers - 1
      BY <1>2, <1>7, <2>1, <2>4
    <3>2. {t \in {1, 2} : l \in plan.stages[t].first..plan.stages[t].past - 1} = {2}
      BY <1>8, <3>1
    <3>3. Planning!CacheRow(plan.stages[2], l) \in 0..plan.stages[2].rows - 1
      BY <1>2, <1>7, <1>8, <2>1, <3>1 DEF Planning!CacheRow
    <3> QED BY <2>2, <3>2, <3>3
  <2> QED BY <2>3, <2>4
<1>10. plan.layers >= 2 => \A s \in 1..2 : plan.stages[s].rows >= 1
  <2>1. 1..2 = {1, 2}
    OBVIOUS
  <2> QED BY <1>2, <1>7, <1>8, <2>1
<1> QED BY <1>3, <1>4, <1>5, <1>6, <1>9, <1>10

\* A behaviour of the planner keeps its invariant.
LEMMA PlanningInvariant == PartsSpec => [](active = "planner" => PlanInv)
<1> DEFINE I == active = "planner" => PlanInv
<1>1. PartsInit => I
  BY PlanInitial, PlannerAssumption DEF PartsInit
<1>2. I /\ [PartsNext]_partsVars => I'
  <2> SUFFICES ASSUME active = "planner" => PlanInv, [PartsNext]_partsVars, active' = "planner"
               PROVE  PlanInv'
    OBVIOUS
  <2>1. active = "planner" /\ (Planning!Next \/ UNCHANGED plan)
    BY DEF PartsNext, Bounded, partsVars
  <2>2. CASE Planning!Round
    BY <2>1, <2>2, PlannerAssumption, RoundStep
  <2>3. CASE Planning!Settle
    BY <2>1, <2>3, PlannerAssumption, SettleStep
  <2>4. CASE Planning!Configure \/ Planning!MakePipeline
    BY <2>1, <2>4, PlannerAssumption, BuildStep
  <2>5. CASE UNCHANGED plan
    BY <2>1, <2>5, PlanUnchanged
  <2> QED BY <2>1, <2>2, <2>3, <2>4, <2>5 DEF Planning!Next, Planning!Done
<1> QED BY <1>1, <1>2, PTL DEF PartsSpec

\* A plan covers the layers and the experts once, fits the devices, is one
\* the configuration takes and is the best in the planner's own order; of
\* the two stages each layer has exactly one (scheduling.py, config.py).
THEOREM PlannerCoversTheModel == PartsSpec => []PlansPartition
<1>1. (active = "planner" => PlanInv) => PlansPartition
  BY PlanPartitions, PlannerAssumption DEF PlansPartition
<1> QED BY <1>1, PlanningInvariant, PTL

-----------------------------------------------------------------------------
(* Compaction *)

-----------------------------------------------------------------------------
(* The invariant *)

\* What a row of the pool is.
Rows == [slot : Nat, pos : Int, rotated : BOOLEAN]

\* The fields of the cache, and of a call under way.
CompShape ==
    /\ comp = [free |-> comp.free, table |-> comp.table, ref |-> comp.ref, cell |-> comp.cell,
               lens |-> comp.lens, shared |-> comp.shared, lost |-> comp.lost,
               tried |-> comp.tried, freed |-> comp.freed, pc |-> comp.pc, slot |-> comp.slot,
               keep |-> comp.keep, got |-> comp.got, allowed |-> comp.allowed,
               before |-> comp.before]
    /\ comp.pc \in {"idle", "pop", "done"}
    /\ comp.shared \in BOOLEAN
    /\ comp.tried \subseteq Compacting!Slots
    /\ comp.pc # "idle" => comp.slot \in comp.tried

\* Nothing was compacted yet that shares a block, but for the call under way.
Unspoilt ==
    \/ ~comp.shared
    \/ comp.tried = {}
    \/ comp.pc # "idle" /\ comp.tried = {comp.slot}

\* The types.
CompTyped ==
    /\ comp.free \in Seq(Compacting!Blocks) /\ comp.got \in Seq(Compacting!Blocks)
    /\ comp.table \in [Compacting!Slots -> Seq(Compacting!Blocks)]
    /\ comp.cell \in [Compacting!Blocks -> [0..BlockSize - 1 -> Rows]]
    /\ comp.lens \in [Compacting!Slots -> Nat]
    /\ comp.lost \subseteq Compacting!Blocks
    /\ comp.ref \in [Compacting!Blocks -> Nat]
    /\ ~comp.shared => \A b \in Compacting!Blocks : comp.ref[b] <= 1

\* The tables are long enough for what they hold; a table that was just
\* rewritten is exactly that.
CompFits ==
    /\ \A s \in Compacting!Slots : Compacting!BlocksFor(comp.lens[s]) <= Len(comp.table[s])
                        \/ (comp.pc = "done" /\ s = comp.slot)
    /\ comp.pc = "done" => Len(comp.table[comp.slot]) = Compacting!BlocksFor(Len(comp.keep))

\* The call under way: what it keeps, and what the slots held at its start.
CompCall ==
    /\ comp.pc # "idle" =>
        /\ comp.keep \in Seq(Int) /\ Compacting!Sorted(comp.keep)
        /\ \A i \in DOMAIN comp.keep : comp.keep[i] \in 0..comp.lens[comp.slot] - 1
        /\ Len(comp.keep) <= comp.allowed
        /\ Compacting!BlocksFor(Len(comp.keep)) < Compacting!BlocksFor(comp.lens[comp.slot])
    /\ comp.pc = "pop" => comp.before = [t \in Compacting!Slots |-> Compacting!RowsOf(t)]

\* What the call under way has popped and put in no table yet.
Popped == IF comp.pc = "pop" THEN Range(comp.got) ELSE {}

\* Free blocks, popped blocks and blocks of tables are different ones, and if
\* nothing is shared all blocks are accounted for.
CompHeld ==
    /\ NoDuplicates(comp.got)
    /\ ~comp.shared \/ comp.pc # "done" =>
        /\ NoDuplicates(comp.free)
        /\ Range(comp.free) \cap Popped = {}
        /\ \A s \in Compacting!Slots : Range(comp.table[s]) \cap (Range(comp.free) \cup Popped) = {}
    /\ ~comp.shared =>
        /\ \A s \in Compacting!Slots : NoDuplicates(comp.table[s])
        /\ Range(comp.table[1]) \cap Range(comp.table[2]) = {}
        /\ Compacting!Blocks \ comp.lost = Range(comp.free) \cup Popped \cup Range(comp.table[1])
                                \cup Range(comp.table[2])

\* What was rewritten holds the rows that were to be kept.
CompKept ==
    comp.pc = "done" =>
        /\ \A i \in DOMAIN comp.keep :
            Compacting!RowAt(comp.cell, comp.table[comp.slot], i - 1) = comp.before[comp.slot][comp.keep[i]]
        /\ Compacting!RowsOf(3 - comp.slot) = comp.before[3 - comp.slot]

CompGood == CompTyped /\ CompFits /\ CompCall /\ CompHeld /\ CompKept

CompInv == CompShape /\ (Unspoilt => CompGood)

-----------------------------------------------------------------------------
(* Rows and blocks *)

\* A position is in one of the blocks its length needs.
LEMMA BlockIndex ==
    ASSUME Compacting!CompactionConstants, NEW n \in Nat, NEW p \in 0..n - 1
    PROVE  /\ p \in Nat /\ p \div BlockSize \in Nat /\ p % BlockSize \in 0..BlockSize - 1
           /\ p = BlockSize * (p \div BlockSize) + (p % BlockSize)
           /\ p \div BlockSize + 1 <= Compacting!BlocksFor(n)
<1> DEFINE q == p \div BlockSize
           r == p % BlockSize
           u == (n + BlockSize - 1) \div BlockSize
           w == (n + BlockSize - 1) % BlockSize
<1>1. BlockSize \in Nat /\ BlockSize > 0
  BY DEF Compacting!CompactionConstants
<1>2. \A a \in Nat : /\ a \div BlockSize \in Nat /\ a % BlockSize \in 0..BlockSize - 1
                     /\ a = BlockSize * (a \div BlockSize) + (a % BlockSize)
  BY <1>1
<1>3. p \in Nat /\ p < n /\ n + BlockSize - 1 \in Nat
  BY <1>1
<1>4. /\ q \in Nat /\ r \in 0..BlockSize - 1 /\ p = BlockSize * q + r
      /\ u \in Nat /\ w \in 0..BlockSize - 1 /\ n + BlockSize - 1 = BlockSize * u + w
  BY <1>2, <1>3
<1> HIDE DEF q, r, u, w
<1>5. q + 1 <= u
  <2> SUFFICES ASSUME q >= u PROVE FALSE
    BY <1>4
  <2>1. \A a, b, c \in Nat : b >= c => a * b >= a * c
    OBVIOUS
  <2>2. BlockSize * q >= BlockSize * u /\ BlockSize * q \in Nat /\ BlockSize * u \in Nat
    BY <1>1, <1>4, <2>1
  <2> QED BY <1>1, <1>3, <1>4, <2>2
<1>6. Compacting!BlocksFor(n) = u
  BY DEF Compacting!BlocksFor, u
<1> QED BY <1>3, <1>4, <1>5, <1>6 DEF q, r

\* The number of blocks is a number.
LEMMA BlocksForType ==
    ASSUME Compacting!CompactionConstants, NEW n \in Nat
    PROVE  Compacting!BlocksFor(n) \in Nat
<1>1. BlockSize \in Nat \ {0} /\ n + BlockSize - 1 \in Nat
  BY DEF Compacting!CompactionConstants
<1>2. \A a \in Nat : a \div BlockSize \in Nat
  BY <1>1
<1> QED BY <1>1, <1>2 DEF Compacting!BlocksFor

-----------------------------------------------------------------------------
(* Which positions are kept *)

\* A selection: increasing positions of n, at most `limit` of them.
Selects(q, n, limit) ==
    /\ q \in Seq(0..n - 1) /\ Len(q) \in Nat /\ Compacting!Sorted(q) /\ Len(q) <= limit

\* The first positions are a selection.
LEMMA FirstSelects ==
    ASSUME NEW n \in Nat, NEW m \in Nat, m <= n
    PROVE  Compacting!First(m) \in Seq(0..n - 1) /\ Len(Compacting!First(m)) = m /\ Compacting!Sorted(Compacting!First(m))
<1>1. Compacting!First(m) = [i \in 1..m |-> i - 1]
  BY DEF Compacting!First
<1>2. Compacting!First(m) \in Seq(0..n - 1) /\ Len(Compacting!First(m)) = m
  <2>1. \A i \in 1..m : i - 1 \in 0..n - 1
    OBVIOUS
  <2> QED BY <1>1, <2>1
<1>3. Compacting!Sorted(Compacting!First(m))
  BY <1>1 DEF Compacting!Sorted
<1> QED BY <1>2, <1>3

\* snapkv_selection selects within its budget, or all there is.
LEMMA SnapSelects ==
    ASSUME NEW n \in Nat, NEW budget \in Nat, NEW q \in Compacting!Snapkv(n, budget)
    PROVE  /\ Selects(q, n, budget)
<1>1. CASE n <= budget
  <2>1. q = Compacting!First(n)
    BY <1>1 DEF Compacting!Snapkv
  <2> QED BY <1>1, <2>1, FirstSelects DEF Selects
<1>2. CASE ~(n <= budget)
  <2>1. q \in [1..budget -> 0..n - 1] /\ Compacting!Sorted(q)
    BY <1>2 DEF Compacting!Snapkv
  <2>2. q \in Seq(0..n - 1) /\ Len(q) = budget
    BY <2>1
  <2> QED BY <2>1, <2>2 DEF Selects
<1> QED BY <1>1, <1>2

\* The budget Ada-KV gives the first layer is a number.
LEMMA AdakvType ==
    ASSUME Compacting!CompactionConstants, NEW total \in Nat
    PROVE  Compacting!AdakvBudgets(total)[1] \in Nat
<1>1. CacheLayers \in Nat /\ MinBudget \in Nat \ {0} /\ MaxBudget \in Nat /\ MinBudget <= MaxBudget
  BY DEF Compacting!CompactionConstants
<1>2. CASE CacheLayers <= 1
  <2>1. Compacting!AdakvBudgets(total) = <<total>>
    BY <1>2, Libraries DEF Compacting!AdakvBudgets
  <2> QED BY <2>1
<1>3. CASE ~(CacheLayers <= 1)
  <2> DEFINE f == [i \in 1..CacheLayers |-> Compacting!Ramp(i - 1)]
             sum == SumFunction(f)
             rest == SumFunctionOnSet(f, 1..CacheLayers \ {1})
             share(i) == (Compacting!Ramp(i - 1) * total) \div sum
  <2>1. \A i \in Nat : Compacting!Ramp(i) \in Nat /\ Compacting!Ramp(i) >= 1
    <3> SUFFICES ASSUME NEW i \in Nat PROVE Compacting!Ramp(i) \in Nat /\ Compacting!Ramp(i) >= 1
      OBVIOUS
    <3> DEFINE gap == MaxBudget - MinBudget
               x == i * gap
               y == x \div (CacheLayers - 1)
    <3>1. gap \in Nat
      BY <1>1
    <3> HIDE DEF gap
    <3>2. x \in Nat
      BY <3>1
    <3> HIDE DEF x
    <3>3. CacheLayers - 1 \in Nat \ {0}
      BY <1>1, <1>3
    <3>4. \A a \in Nat, b \in Nat \ {0} : a \div b \in Nat
      OBVIOUS
    <3>5. y \in Nat
      BY <3>2, <3>3, <3>4
    <3>6. Compacting!Ramp(i) = MinBudget + y
      BY DEF Compacting!Ramp, y, x, gap
    <3> HIDE DEF y
    <3> QED BY <1>1, <3>5, <3>6
  <2>2. 1 \in 1..CacheLayers /\ IsFiniteSet(1..CacheLayers) /\ DOMAIN f = 1..CacheLayers
    BY <1>1, <1>3, FS_Interval
  <2>3. \A i \in 1..CacheLayers : f[i] \in Nat /\ f[i] >= 1
    BY <2>1
  <2> HIDE DEF f
  <2>4. /\ SumFunctionOnSet(f, 1..CacheLayers) = f[1] + rest
        /\ rest \in Nat
    <3>1. SumFunctionOnSet(f, 1..CacheLayers) = f[1] + rest
      <4>1. \A i \in 1..CacheLayers : f[i] \in Nat
        BY <2>3
      <4>2. \A i \in 1..CacheLayers : SumFunctionOnSet(f, 1..CacheLayers)
                                = f[i] + SumFunctionOnSet(f, 1..CacheLayers \ {i})
        BY <2>2, <4>1, SumFacts, ZenonT(60)
      <4> QED BY <2>2, <4>2
    <3>2. IsFiniteSet(1..CacheLayers \ {1}) /\ \A i \in 1..CacheLayers \ {1} : f[i] \in Nat
      BY <2>2, <2>3, FS_RemoveElement
    <3>3. rest \in Nat
      BY <3>2, SumFacts
    <3> QED BY <3>1, <3>3
  <2>5. sum = SumFunctionOnSet(f, 1..CacheLayers)
    BY <2>2, Libraries DEF SumFunction
  <2> HIDE DEF rest, sum
  <2>6. sum \in Nat \ {0}
    BY <2>2, <2>3, <2>4, <2>5
  <2>7. share(1) \in Nat
    <3>1. Compacting!Ramp(1 - 1) \in Nat
      BY <2>1
    <3> DEFINE x == Compacting!Ramp(1 - 1) * total
    <3>2. x \in Nat
      BY <3>1
    <3> HIDE DEF x
    <3>3. \A a \in Nat, b \in Nat \ {0} : a \div b \in Nat
      OBVIOUS
    <3>4. x \div sum \in Nat
      BY <2>6, <3>2, <3>3
    <3> QED BY <3>4 DEF x
  <2>8. Compacting!AdakvBudgets(total) = [i \in 1..CacheLayers |-> IF share(i) < 1 THEN 1 ELSE share(i)]
    BY <1>3, Libraries DEF Compacting!AdakvBudgets, sum, f
  <2> HIDE DEF share
  <2> QED BY <2>2, <2>7, <2>8
<1> QED BY <1>2, <1>3

\* The streaming window has at most its size.
LEMMA RecentFacts ==
    ASSUME Compacting!CompactionConstants, NEW n \in Nat
    PROVE  /\ Compacting!Recent(n) \subseteq 0..n - 1 /\ IsFiniteSet(Compacting!Recent(n))
           /\ Cardinality(Compacting!Recent(n)) \in Nat /\ Cardinality(Compacting!Recent(n)) <= Streaming
<1> DEFINE a == IF n > Streaming THEN n - Streaming ELSE 0
<1>1. Streaming \in Nat
  BY DEF Compacting!CompactionConstants
<1>2. a \in Nat /\ a <= n /\ n - a <= Streaming
  BY <1>1
<1>3. Compacting!Recent(n) = a..n - 1
  BY <1>1 DEF Compacting!Recent
<1> HIDE DEF a
<1>4. n - 1 \in Int
  OBVIOUS
<1>5. /\ IsFiniteSet(a..n - 1)
      /\ Cardinality(a..n - 1) = IF a > n - 1 THEN 0 ELSE (n - 1) - a + 1
  BY <1>2, <1>4, FS_Interval
<1> QED BY <1>1, <1>2, <1>3, <1>5

\* Whatever the policy, what evict chooses is a selection within its budget.
LEMMA SelectionFacts ==
    ASSUME Compacting!CompactionConstants, NEW policy \in Compacting!Policies, NEW scores \in BOOLEAN,
           NEW n \in Nat, NEW budget \in Nat, NEW q \in Compacting!Selections(policy, scores, n, budget)
    PROVE  Selects(q, n, Compacting!Allowed(policy, n, budget))
<1> DEFINE ada == Compacting!AdakvBudgets(budget)[1]
<1>1. ada \in Nat
  BY AdakvType
<1> HIDE DEF ada
<1>2. \A m \in Nat : Compacting!Smaller(m, n) \in Nat /\ Compacting!Smaller(m, n) <= n /\ Compacting!Smaller(m, n) <= m
  BY DEF Compacting!Smaller
<1>3. \A m \in Nat : Selects(Compacting!First(Compacting!Smaller(m, n)), n, m)
  <2> SUFFICES ASSUME NEW m \in Nat PROVE Selects(Compacting!First(Compacting!Smaller(m, n)), n, m)
    OBVIOUS
  <2> DEFINE k == Compacting!Smaller(m, n)
  <2>1. k \in Nat /\ k <= n /\ k <= m
    BY <1>2
  <2> HIDE DEF k
  <2>2. Compacting!First(k) \in Seq(0..n - 1) /\ Len(Compacting!First(k)) = k /\ Compacting!Sorted(Compacting!First(k))
    BY <2>1, FirstSelects
  <2> QED BY <2>1, <2>2 DEF Selects, k
<1>4. CASE policy = "snapkv" /\ scores
  <2>1. q \in Compacting!Snapkv(n, budget) /\ Compacting!Allowed(policy, n, budget) = budget
    BY <1>4, Libraries DEF Compacting!Selections, Compacting!Allowed
  <2> QED BY <2>1, SnapSelects
<1>5. CASE policy = "adakv"
  <2>1. CASE n <= budget
    <3>1. q = Compacting!First(n) /\ Compacting!Allowed(policy, n, budget) = n
      BY <1>5, <2>1, Libraries DEF Compacting!Selections, Compacting!Allowed
    <3>2. Compacting!First(n) \in Seq(0..n - 1) /\ Len(Compacting!First(n)) = n /\ Compacting!Sorted(Compacting!First(n))
      BY FirstSelects
    <3> QED BY <3>1, <3>2 DEF Selects
  <2>2. CASE ~(n <= budget)
    <3>1. Compacting!Allowed(policy, n, budget) = ada
      BY <1>5, <2>2 DEF Compacting!Allowed, ada
    <3>2. q \in Compacting!Snapkv(n, ada) \/ q = Compacting!First(Compacting!Smaller(ada, n))
      BY <1>5, <2>2, Libraries DEF Compacting!Selections, ada
    <3> QED BY <1>1, <1>3, <3>1, <3>2, SnapSelects
  <2> QED BY <2>1, <2>2
<1>6. CASE policy = "duoattn"
  <2>1. PICK snap \in (IF scores THEN Compacting!Snapkv(n, budget) ELSE {Compacting!First(Compacting!Smaller(budget, n))}) :
            LET S == Compacting!Recent(n) \cup Compacting!ToSet(snap) IN
            q \in {s \in [1..Cardinality(S) -> S] : Compacting!Sorted(s)}
    BY <1>6, Libraries DEF Compacting!Selections
  <2>2. Selects(snap, n, budget)
    BY <1>3, <2>1, SnapSelects
  <2> DEFINE S == Compacting!Recent(n) \cup Range(snap)
  <2>3. Compacting!ToSet(snap) = Range(snap)
    BY DEF Compacting!ToSet, Range
  <2>4. q \in [1..Cardinality(S) -> S] /\ Compacting!Sorted(q)
    BY <2>1, <2>3
  <2>5. /\ IsFiniteSet(Range(snap)) /\ Cardinality(Range(snap)) <= Len(snap)
        /\ Cardinality(Range(snap)) \in Nat /\ Range(snap) \subseteq 0..n - 1
    BY <2>2, RangeCardinality, RangeOfList, FS_CardinalityType DEF Selects
  <2>6. S \subseteq 0..n - 1 /\ IsFiniteSet(S)
        /\ Cardinality(S) = Cardinality(Compacting!Recent(n)) + Cardinality(Range(snap))
                            - Cardinality(Compacting!Recent(n) \cap Range(snap))
    BY <2>5, RecentFacts, FS_Union
  <2>7. Cardinality(Compacting!Recent(n) \cap Range(snap)) \in Nat /\ Cardinality(S) \in Nat
    <3>1. IsFiniteSet(Compacting!Recent(n) \cap Range(snap))
      BY <2>5, FS_Intersection
    <3> QED BY <2>6, <3>1, FS_CardinalityType
  <2>8. Streaming \in Nat /\ Len(snap) \in Nat /\ Len(snap) <= budget
    BY <2>2 DEF Compacting!CompactionConstants, Selects
  <2>9. Cardinality(S) <= budget + Streaming
    <3>1. Cardinality(Compacting!Recent(n)) \in Nat /\ Cardinality(Compacting!Recent(n)) <= Streaming
      BY RecentFacts
    <3> HIDE DEF S
    <3> QED BY <2>5, <2>6, <2>7, <2>8, <3>1
  <2>10. Compacting!Allowed(policy, n, budget) = budget + Streaming
    BY <1>6 DEF Compacting!Allowed
  <2> HIDE DEF S
  <2>11. q \in Seq(0..n - 1) /\ Len(q) = Cardinality(S)
    <3> DEFINE m == Cardinality(S)
    <3>1. q \in [1..m -> 0..n - 1] /\ m \in Nat
      BY <2>4, <2>6, <2>7
    <3> HIDE DEF m
    <3>2. q \in Seq(0..n - 1) /\ Len(q) = m
      BY <3>1
    <3> QED BY <3>2 DEF m
  <2> QED BY <2>4, <2>7, <2>9, <2>10, <2>11 DEF Selects
<1>7. CASE policy \in {"snapkv", "other"} /\ ~(policy = "snapkv" /\ scores)
  <2>1. q = Compacting!First(Compacting!Smaller(budget, n)) /\ Compacting!Allowed(policy, n, budget) = budget
    BY <1>7, Libraries DEF Compacting!Selections, Compacting!Allowed
  <2> QED BY <1>3, <2>1
<1> QED BY <1>4, <1>5, <1>6, <1>7 DEF Compacting!Policies

-----------------------------------------------------------------------------
(* Every step keeps the invariant *)

\* The slots.
LEMMA TwoSlots ==
    /\ Compacting!Slots = {1, 2} /\ Compacting!Slots = 1..2
    /\ \A s \in Compacting!Slots : 3 - s \in Compacting!Slots /\ 3 - s # s /\ \A t \in Compacting!Slots : t = s \/ t = 3 - s
BY DEF Compacting!Slots

\* evict selects positions of a slot, or nothing happens.
LEMMA EvictStep ==
    ASSUME Compacting!CompactionConstants, \A n \in Budgets : n \in Nat, CompInv, NEW s \in Compacting!Slots, Compacting!Evict(s)
    PROVE  CompInv'
<1>1. CompShape /\ comp.pc = "idle" /\ s \notin comp.tried
  BY DEF CompInv, Compacting!Evict
<1>2. PICK policy \in Compacting!Policies, scores \in BOOLEAN, budget \in Budgets :
        \E positions \in Compacting!Selections(policy, scores, comp.lens[s], budget) :
            \/ comp' = [comp EXCEPT !.tried = @ \cup {s}]
            \/ /\ Compacting!WorthIt(positions, comp.lens[s])
               /\ comp' = [comp EXCEPT
                            !.pc = "pop", !.slot = s, !.keep = positions, !.got = <<>>,
                            !.allowed = Compacting!Allowed(policy, comp.lens[s], budget),
                            !.before = [t \in Compacting!Slots |-> Compacting!RowsOf(t)],
                            !.tried = @ \cup {s}]
  BY DEF Compacting!Evict
<1>3. PICK positions \in Compacting!Selections(policy, scores, comp.lens[s], budget) :
            \/ comp' = [comp EXCEPT !.tried = @ \cup {s}]
            \/ /\ Compacting!WorthIt(positions, comp.lens[s])
               /\ comp' = [comp EXCEPT
                            !.pc = "pop", !.slot = s, !.keep = positions, !.got = <<>>,
                            !.allowed = Compacting!Allowed(policy, comp.lens[s], budget),
                            !.before = [t \in Compacting!Slots |-> Compacting!RowsOf(t)],
                            !.tried = @ \cup {s}]
  BY <1>2
<1>4. /\ comp'.free = comp.free /\ comp'.table = comp.table /\ comp'.ref = comp.ref
      /\ comp'.cell = comp.cell /\ comp'.lens = comp.lens /\ comp'.shared = comp.shared
      /\ comp'.lost = comp.lost /\ comp'.tried = comp.tried \cup {s}
  BY <1>1, <1>3 DEF CompShape
<1>5. \/ comp'.pc = "idle" /\ comp'.got = comp.got
      \/ /\ comp'.pc = "pop" /\ comp'.slot = s /\ comp'.keep = positions /\ comp'.got = <<>>
         /\ comp'.allowed = Compacting!Allowed(policy, comp.lens[s], budget)
         /\ comp'.before = [t \in Compacting!Slots |-> Compacting!RowsOf(t)]
         /\ Compacting!WorthIt(positions, comp.lens[s])
  BY <1>1, <1>3 DEF CompShape
<1>6. CompShape'
  <2>1. CASE comp' = [comp EXCEPT !.tried = @ \cup {s}]
    BY <1>1, <2>1 DEF CompShape
  <2>2. CASE comp' = [comp EXCEPT
                        !.pc = "pop", !.slot = s, !.keep = positions, !.got = <<>>,
                        !.allowed = Compacting!Allowed(policy, comp.lens[s], budget),
                        !.before = [t \in Compacting!Slots |-> Compacting!RowsOf(t)],
                        !.tried = @ \cup {s}]
    BY <1>1, <2>2 DEF CompShape
  <2> QED BY <1>3, <2>1, <2>2
<1>7. ASSUME Unspoilt' PROVE CompGood'
  <2>1. Unspoilt
    BY <1>1, <1>4, <1>5, <1>7 DEF Unspoilt, CompShape
  <2>2. CompTyped /\ CompFits /\ CompHeld
    BY <2>1 DEF CompInv, CompGood
  <2>3. comp'.got \in Seq(Compacting!Blocks) /\ NoDuplicates(comp'.got)
        /\ (comp'.pc = "pop" => Range(comp'.got) = {})
    <3>1. <<>> \in Seq(Compacting!Blocks) /\ NoDuplicates(<<>>) /\ Range(<<>>) = {}
      BY <2>2, RangeOfList DEF CompTyped
    <3>2. comp.got \in Seq(Compacting!Blocks) /\ NoDuplicates(comp.got)
      BY <2>2 DEF CompTyped, CompHeld
    <3> QED BY <1>5, <3>1, <3>2
  <2>4. CompTyped'
    BY <1>4, <2>2, <2>3 DEF CompTyped
  <2>5. CompFits'
    BY <1>1, <1>4, <1>5, <2>2 DEF CompFits
  <2>6. \A t : Compacting!RowsOf(t)' = Compacting!RowsOf(t)
    BY <1>4 DEF Compacting!RowsOf
  <2>7. CompCall'
    <3>1. CASE comp'.pc = "idle"
      BY <3>1 DEF CompCall
    <3>2. CASE comp'.pc = "pop"
      <4>1. comp.lens[s] \in Nat
        BY <2>2 DEF CompTyped
      <4>2. Selects(positions, comp.lens[s], Compacting!Allowed(policy, comp.lens[s], budget))
        BY <1>3, <4>1, SelectionFacts
      <4>3. Compacting!BlocksFor(Len(positions)) < Compacting!BlocksFor(comp.lens[s])
        BY <1>5, <3>2 DEF Compacting!WorthIt
      <4>4. /\ positions \in Seq(Int) /\ Compacting!Sorted(positions)
            /\ \A i \in DOMAIN positions : positions[i] \in 0..comp.lens[s] - 1
            /\ Len(positions) <= Compacting!Allowed(policy, comp.lens[s], budget)
        <5> DEFINE lim == Compacting!Allowed(policy, comp.lens[s], budget)
                   n == comp.lens[s]
        <5>1. positions \in Seq(0..n - 1) /\ Compacting!Sorted(positions) /\ Len(positions) <= lim
          BY <4>2 DEF Selects
        <5> HIDE DEF lim, n
        <5>2. positions \in Seq(Int) /\ \A i \in DOMAIN positions : positions[i] \in 0..n - 1
          <6>1. Len(positions) \in Nat /\ DOMAIN positions = 1..Len(positions)
            BY <5>1
          <6>2. \A i \in DOMAIN positions : positions[i] \in 0..n - 1
            <7> DEFINE S == 0..n - 1
            <7>1. positions \in Seq(S)
              BY <5>1
            <7> HIDE DEF S
            <7>2. \A i \in DOMAIN positions : positions[i] \in S
              BY <6>1, <7>1
            <7> QED BY <7>2 DEF S
          <6>3. positions \in [1..Len(positions) -> Int]
            BY <5>1, <6>1, <6>2
          <6> QED BY <6>1, <6>2, <6>3
        <5> QED BY <5>1, <5>2 DEF lim, n
      <4>5. comp'.before = [t \in Compacting!Slots |-> Compacting!RowsOf(t)']
        BY <1>5, <2>6, <3>2
      <4>6. comp'.pc # "idle" =>
              /\ comp'.keep \in Seq(Int) /\ Compacting!Sorted(comp'.keep)
              /\ \A i \in DOMAIN comp'.keep : comp'.keep[i] \in 0..comp'.lens[comp'.slot] - 1
              /\ Len(comp'.keep) <= comp'.allowed
              /\ Compacting!BlocksFor(Len(comp'.keep)) < Compacting!BlocksFor(comp'.lens[comp'.slot])
        BY <1>4, <1>5, <3>2, <4>3, <4>4
      <4> QED BY <4>5, <4>6 DEF CompCall, Compacting!Sorted, Compacting!BlocksFor
    <3> QED BY <1>5, <3>1, <3>2
  <2>8. CompHeld'
    <3>1. Popped' = {} /\ Popped = {}
      BY <1>1, <1>5, <2>3 DEF Popped
    <3>2. NoDuplicates(comp'.free) /\ NoDuplicates(comp'.got)
      BY <1>1, <1>4, <2>2, <2>3 DEF CompHeld
    <3> QED BY <1>1, <1>4, <2>2, <3>1, <3>2 DEF CompHeld, NoDuplicates
  <2>9. CompKept'
    BY <1>5 DEF CompKept
  <2> QED BY <2>4, <2>5, <2>7, <2>8, <2>9 DEF CompGood
<1> QED BY <1>6, <1>7 DEF CompInv

\* The allocation loop takes a free block, or gives up what it has taken.
LEMMA PopBlockStep ==
    ASSUME Compacting!CompactionConstants, CompInv, Compacting!PopBlock
    PROVE  CompInv'
<1>1. CompShape /\ comp.pc = "pop"
  BY DEF CompInv, Compacting!PopBlock
<1>2. CASE comp.free = <<>> /\ comp' = [comp EXCEPT !.pc = "idle", !.lost = @ \cup Compacting!ToSet(comp.got),
                                                    !.got = <<>>]
  <2>1. /\ comp'.free = comp.free /\ comp'.table = comp.table /\ comp'.ref = comp.ref
        /\ comp'.cell = comp.cell /\ comp'.lens = comp.lens /\ comp'.shared = comp.shared
        /\ comp'.lost = comp.lost \cup Range(comp.got) /\ comp'.tried = comp.tried
        /\ comp'.pc = "idle" /\ comp'.got = <<>>
    BY <1>1, <1>2 DEF CompShape, Compacting!ToSet, Range
  <2>2. CompShape'
    BY <1>1, <1>2 DEF CompShape
  <2>3. ASSUME Unspoilt' PROVE CompGood'
    <3>1. Unspoilt /\ ~comp.shared
      BY <1>1, <2>1, <2>3 DEF Unspoilt, CompShape
    <3>2. CompTyped /\ CompFits /\ CompHeld
      BY <3>1 DEF CompInv, CompGood
    <3>3. <<>> \in Seq(Compacting!Blocks) /\ NoDuplicates(<<>>) /\ Range(<<>>) = {}
          /\ Range(comp.got) \subseteq Compacting!Blocks
      BY <3>2, RangeOfList DEF CompTyped
    <3>4. CompTyped'
      BY <2>1, <3>2, <3>3 DEF CompTyped
    <3>5. CompFits'
      BY <1>1, <2>1, <3>2 DEF CompFits
    <3>6. Popped = Range(comp.got) /\ Popped' = {}
      BY <1>1, <2>1 DEF Popped
    <3>7. CompHeld'
      <4>1. NoDuplicates(comp'.free) /\ NoDuplicates(comp'.got)
        BY <2>1, <3>1, <3>2, <3>3 DEF CompHeld
      <4>2. /\ Range(comp.free) \cap Range(comp.got) = {}
            /\ \A s \in Compacting!Slots : Range(comp.table[s]) \cap (Range(comp.free) \cup Range(comp.got)) = {}
            /\ \A s \in Compacting!Slots : NoDuplicates(comp.table[s])
            /\ Range(comp.table[1]) \cap Range(comp.table[2]) = {}
            /\ Compacting!Blocks \ comp.lost = Range(comp.free) \cup Range(comp.got) \cup Range(comp.table[1])
                                    \cup Range(comp.table[2])
        BY <1>1, <3>1, <3>2, <3>6 DEF CompHeld
      <4>3. \A s \in Compacting!Slots : Range(comp.table[s]) \cap Range(comp.free) = {}
        BY <4>2
      <4>4. Compacting!Blocks \ (comp.lost \cup Range(comp.got))
                = Range(comp.free) \cup Range(comp.table[1]) \cup Range(comp.table[2])
        BY <4>2, TwoSlots
      <4>5. /\ Range(comp'.free) \cap {} = {}
            /\ \A s \in Compacting!Slots : Range(comp'.table[s]) \cap (Range(comp'.free) \cup {}) = {}
            /\ \A s \in Compacting!Slots : NoDuplicates(comp'.table[s])
            /\ Range(comp'.table[1]) \cap Range(comp'.table[2]) = {}
            /\ Compacting!Blocks \ comp'.lost = Range(comp'.free) \cup {} \cup Range(comp'.table[1])
                                    \cup Range(comp'.table[2])
        BY <2>1, <4>2, <4>3, <4>4
      <4> QED BY <3>6, <4>1, <4>5 DEF CompHeld
    <3> QED BY <2>1, <3>4, <3>5, <3>7 DEF CompGood, CompCall, CompKept
  <2> QED BY <2>2, <2>3 DEF CompInv
<1>3. CASE comp.free # <<>> /\ comp' = [comp EXCEPT !.got = Append(@, Compacting!Last(comp.free)),
                                                    !.free = Compacting!Front(@)]
  <2> DEFINE e == comp.free[Len(comp.free)]
             f == SubSeq(comp.free, 1, Len(comp.free) - 1)
             g == Append(comp.got, e)
  <2>1. /\ comp'.free = f /\ comp'.got = g /\ comp'.table = comp.table /\ comp'.ref = comp.ref
        /\ comp'.cell = comp.cell /\ comp'.lens = comp.lens /\ comp'.shared = comp.shared
        /\ comp'.lost = comp.lost /\ comp'.tried = comp.tried /\ comp'.slot = comp.slot
        /\ comp'.keep = comp.keep /\ comp'.allowed = comp.allowed
        /\ comp'.before = comp.before /\ comp'.pc = "pop"
    BY <1>1, <1>3 DEF CompShape, Compacting!Last, Compacting!Front
  <2>2. CompShape'
    BY <1>1, <1>3 DEF CompShape
  <2>3. ASSUME Unspoilt' PROVE CompGood'
    <3>1. Unspoilt
      BY <1>1, <2>1, <2>3 DEF Unspoilt, CompShape
    <3>2. CompTyped /\ CompFits /\ CompCall /\ CompHeld
      BY <3>1 DEF CompInv, CompGood
    <3>3. /\ comp.free \in Seq(Compacting!Blocks) /\ comp.got \in Seq(Compacting!Blocks)
          /\ NoDuplicates(comp.free) /\ NoDuplicates(comp.got)
          /\ Range(comp.free) \cap Range(comp.got) = {}
          /\ \A s \in Compacting!Slots : Range(comp.table[s]) \cap (Range(comp.free) \cup Range(comp.got)) = {}
      BY <1>1, <3>2 DEF CompTyped, CompHeld, Popped
    <3>4. /\ e \in Compacting!Blocks /\ f \in Seq(Compacting!Blocks) /\ Range(comp.free) = Range(f) \cup {e}
          /\ NoDuplicates(f) /\ e \notin Range(f)
      BY <1>3, <3>3, LastFacts
    <3> HIDE DEF e, f
    <3>5. e \notin Range(comp.got)
      BY <3>3, <3>4
    <3>6. g \in Seq(Compacting!Blocks) /\ Range(g) = Range(comp.got) \cup {e} /\ NoDuplicates(g)
      BY <3>3, <3>4, <3>5, AppendFacts
    <3> HIDE DEF g
    <3>7. CompTyped'
      BY <2>1, <3>2, <3>4, <3>6 DEF CompTyped
    <3>8. CompFits'
      BY <1>1, <2>1, <3>2 DEF CompFits
    <3>9. \A t : Compacting!RowsOf(t)' = Compacting!RowsOf(t)
      BY <2>1 DEF Compacting!RowsOf
    <3>10. CompCall'
      BY <1>1, <2>1, <3>2, <3>9 DEF CompCall, Compacting!Sorted
    <3>11. Popped = Range(comp.got) /\ Popped' = Range(g)
      BY <1>1, <2>1 DEF Popped
    <3>12. CompHeld'
      <4>1. Range(f) \cup Range(g) = Range(comp.free) \cup Range(comp.got) /\ Range(f) \cap Range(g) = {}
        BY <3>3, <3>4, <3>6
      <4>2. \A s \in Compacting!Slots : Range(comp.table[s]) \cap (Range(f) \cup Range(g)) = {}
        BY <3>3, <4>1
      <4>3. ~comp.shared =>
                /\ \A s \in Compacting!Slots : NoDuplicates(comp.table[s])
                /\ Range(comp.table[1]) \cap Range(comp.table[2]) = {}
                /\ Compacting!Blocks \ comp.lost = Range(f) \cup Range(g) \cup Range(comp.table[1])
                                        \cup Range(comp.table[2])
        BY <3>2, <3>11, <4>1 DEF CompHeld
      <4> QED BY <2>1, <3>4, <3>6, <3>11, <4>1, <4>2, <4>3 DEF CompHeld
    <3> QED BY <2>1, <3>7, <3>8, <3>10, <3>12 DEF CompGood, CompKept
  <2> QED BY <2>2, <2>3 DEF CompInv
<1> QED BY <1>2, <1>3 DEF Compacting!PopBlock

\* compact returns, and the slot is as long as what was kept.
LEMMA ReturnStep ==
    ASSUME Compacting!CompactionConstants, CompInv, Compacting!Return
    PROVE  CompInv'
<1>1. CompShape /\ comp.pc = "done"
  BY DEF CompInv, Compacting!Return
<1>2. /\ comp'.free = comp.free /\ comp'.table = comp.table /\ comp'.ref = comp.ref
      /\ comp'.cell = comp.cell /\ comp'.shared = comp.shared
      /\ comp'.lens = [comp.lens EXCEPT ![comp.slot] = Len(comp.keep)]
      /\ comp'.lost = comp.lost /\ comp'.tried = comp.tried
      /\ comp'.pc = "idle" /\ comp'.got = <<>>
  BY <1>1 DEF Compacting!Return, CompShape
<1>3. CompShape'
  BY <1>1 DEF Compacting!Return, CompShape
<1>4. ASSUME Unspoilt' PROVE CompGood'
  <2>1. Unspoilt /\ ~comp.shared
    BY <1>1, <1>2, <1>4 DEF Unspoilt, CompShape
  <2>2. CompTyped /\ CompFits /\ CompCall /\ CompHeld
    BY <2>1 DEF CompInv, CompGood
  <2>3. <<>> \in Seq(Compacting!Blocks) /\ NoDuplicates(<<>>) /\ Range(<<>>) = {}
    BY <2>2, RangeOfList DEF CompTyped
  <2>4. comp.slot \in Compacting!Slots /\ Len(comp.keep) \in Nat
    BY <1>1, <2>2 DEF CompShape, CompCall
  <2>5. CompTyped'
    BY <1>2, <2>2, <2>3, <2>4 DEF CompTyped
  <2>6. CompFits'
    <3>1. \A s \in Compacting!Slots : comp'.lens[s] = IF s = comp.slot THEN Len(comp.keep) ELSE comp.lens[s]
      BY <1>2, <2>2, <2>4 DEF CompTyped
    <3>2. \A s \in Compacting!Slots : Len(comp.table[s]) \in Nat
      BY <2>2 DEF CompTyped
    <3>3. \A n \in Nat : Compacting!BlocksFor(n) \in Nat
      BY BlocksForType
    <3>4. \A s \in Compacting!Slots : Compacting!BlocksFor(comp'.lens[s]) <= Len(comp.table[s])
      <4> SUFFICES ASSUME NEW s \in Compacting!Slots
                   PROVE  Compacting!BlocksFor(comp'.lens[s]) <= Len(comp.table[s])
        OBVIOUS
      <4>1. CASE s = comp.slot
        <5>1. Len(comp.table[comp.slot]) = Compacting!BlocksFor(Len(comp.keep))
          BY <1>1, <2>2 DEF CompFits
        <5>2. comp'.lens[s] = Len(comp.keep)
          BY <3>1, <4>1
        <5>3. Compacting!BlocksFor(comp'.lens[s]) = Len(comp.table[s])
          BY <4>1, <5>1, <5>2
        <5> QED BY <3>2, <5>3
      <4>2. CASE s # comp.slot
        BY <2>2, <3>1, <4>2 DEF CompFits
      <4> QED BY <4>1, <4>2
    <3> QED BY <1>2, <3>4 DEF CompFits, Compacting!BlocksFor
  <2>7. Popped = {} /\ Popped' = {}
    BY <1>1, <1>2 DEF Popped
  <2>8. CompHeld'
    BY <1>1, <1>2, <2>1, <2>2, <2>3, <2>7 DEF CompHeld, NoDuplicates
  <2> QED BY <1>2, <2>5, <2>6, <2>8 DEF CompGood, CompCall, CompKept
<1> QED BY <1>3, <1>4 DEF CompInv

\* A slot grows by a free block.
LEMMA GrowStep ==
    ASSUME Compacting!CompactionConstants, CompInv, NEW s \in Compacting!Slots, Compacting!Grow(s)
    PROVE  CompInv'
<1> DEFINE e == comp.free[Len(comp.free)]
           f == SubSeq(comp.free, 1, Len(comp.free) - 1)
           g == Append(comp.table[s], e)
<1>1. CompShape /\ comp.pc = "idle" /\ s \in comp.tried /\ comp.free # <<>>
  BY DEF CompInv, Compacting!Grow
<1>2. comp' = [comp EXCEPT !.free = f, !.ref = [@ EXCEPT ![e] = 1], !.table = [@ EXCEPT ![s] = g]]
  BY DEF Compacting!Grow, Compacting!Last, Compacting!Front
<1> HIDE DEF e, f, g
<1>3. /\ comp'.free = f /\ comp'.table = [comp.table EXCEPT ![s] = g]
      /\ comp'.ref = [comp.ref EXCEPT ![e] = 1]
      /\ comp'.cell = comp.cell /\ comp'.shared = comp.shared /\ comp'.lens = comp.lens
      /\ comp'.lost = comp.lost /\ comp'.tried = comp.tried
      /\ comp'.pc = "idle" /\ comp'.got = comp.got
  BY <1>1, <1>2 DEF CompShape
<1>4. CompShape'
  BY <1>1, <1>2 DEF CompShape
<1>5. ASSUME Unspoilt' PROVE CompGood'
  <2>1. Unspoilt /\ ~comp.shared
    BY <1>1, <1>3, <1>5 DEF Unspoilt, CompShape
  <2>2. CompTyped /\ CompFits /\ CompHeld
    BY <2>1 DEF CompInv, CompGood
  <2>3. Popped = {} /\ Popped' = {}
    BY <1>1, <1>3 DEF Popped
  <2>4. /\ comp.free \in Seq(Compacting!Blocks) /\ NoDuplicates(comp.free)
        /\ comp.table \in [Compacting!Slots -> Seq(Compacting!Blocks)] /\ comp.table[s] \in Seq(Compacting!Blocks)
        /\ \A t \in Compacting!Slots : Range(comp.table[t]) \cap Range(comp.free) = {}
        /\ \A t \in Compacting!Slots : NoDuplicates(comp.table[t])
        /\ Range(comp.table[1]) \cap Range(comp.table[2]) = {}
        /\ Compacting!Blocks \ comp.lost = Range(comp.free) \cup Range(comp.table[1]) \cup Range(comp.table[2])
    BY <1>1, <2>1, <2>2, <2>3 DEF CompTyped, CompHeld
  <2>5. /\ e \in Compacting!Blocks /\ f \in Seq(Compacting!Blocks) /\ Range(comp.free) = Range(f) \cup {e}
        /\ NoDuplicates(f) /\ e \notin Range(f)
    BY <1>1, <2>4, LastFacts DEF e, f
  <2>6. \A t \in Compacting!Slots : e \notin Range(comp.table[t]) /\ Range(comp.table[t]) \cap Range(f) = {}
    BY <2>4, <2>5
  <2>7. g \in Seq(Compacting!Blocks) /\ Range(g) = Range(comp.table[s]) \cup {e} /\ NoDuplicates(g)
    BY <2>4, <2>5, <2>6, AppendFacts DEF g
  <2>8. \A t \in Compacting!Slots : comp'.table[t] = IF t = s THEN g ELSE comp.table[t]
    BY <1>3, <2>4
  <2>9. CompTyped'
    BY <1>3, <2>2, <2>5, <2>7 DEF CompTyped
  <2>10. CompFits'
    <3>1. Len(g) = Len(comp.table[s]) + 1 /\ Len(comp.table[s]) \in Nat
      BY <2>4, <2>5 DEF g
    <3>2. comp.lens[s] \in Nat /\ Compacting!BlocksFor(comp.lens[s]) \in Nat
      BY <2>2, BlocksForType DEF CompTyped
    <3>3. \A t \in Compacting!Slots : Compacting!BlocksFor(comp.lens[t]) <= Len(comp.table[t])
      BY <1>1, <2>2 DEF CompFits
    <3>4. \A t \in Compacting!Slots : Compacting!BlocksFor(comp.lens[t]) <= Len(comp'.table[t])
      BY <2>8, <3>1, <3>2, <3>3
    <3> QED BY <1>3, <3>4 DEF CompFits
  <2>11. CompHeld'
    <3>1. \A t \in Compacting!Slots : NoDuplicates(comp'.table[t]) /\ Range(comp'.table[t]) \cap Range(f) = {}
      <4>1. Range(g) \cap Range(f) = {}
        BY <2>5, <2>6, <2>7
      <4>2. \A t \in Compacting!Slots : NoDuplicates(comp.table[t])
        BY <2>4
      <4> QED BY <2>6, <2>7, <2>8, <4>1, <4>2
    <3>2. \A t \in Compacting!Slots : t # s => Range(g) \cap Range(comp.table[t]) = {}
      BY <2>4, <2>6, <2>7, TwoSlots
    <3>3. Range(comp'.table[1]) \cap Range(comp'.table[2]) = {}
      BY <2>4, <2>8, <3>2, TwoSlots
    <3>4. Range(comp.table[1]) \cup Range(comp.table[2]) \cup {e}
            = Range(comp'.table[1]) \cup Range(comp'.table[2])
      BY <2>7, <2>8, TwoSlots
    <3>5. Compacting!Blocks \ comp.lost = Range(f) \cup Range(comp'.table[1]) \cup Range(comp'.table[2])
      BY <2>4, <2>5, <3>4
    <3>6. NoDuplicates(comp.got)
      BY <2>2 DEF CompHeld
    <3> QED BY <1>3, <2>3, <2>5, <3>1, <3>3, <3>5, <3>6 DEF CompHeld
  <2> QED BY <1>3, <2>9, <2>10, <2>11 DEF CompGood, CompCall, CompKept
<1> QED BY <1>4, <1>5 DEF CompInv

\* A block length of nothing is no block.
LEMMA NoBlocks == ASSUME Compacting!CompactionConstants PROVE Compacting!BlocksFor(0) = 0
<1> DEFINE q == (0 + BlockSize - 1) \div BlockSize
           r == (0 + BlockSize - 1) % BlockSize
<1>1. BlockSize \in Nat /\ BlockSize > 0 /\ 0 + BlockSize - 1 = BlockSize - 1 /\ BlockSize - 1 \in Nat
  BY DEF Compacting!CompactionConstants
<1>2. \A a \in Nat : /\ a \div BlockSize \in Nat /\ a % BlockSize \in 0..BlockSize - 1
                     /\ a = BlockSize * (a \div BlockSize) + (a % BlockSize)
  BY <1>1
<1>3. q \in Nat /\ r \in Nat /\ BlockSize - 1 = BlockSize * q + r
  BY <1>1, <1>2
<1> HIDE DEF q, r
<1>4. q = 0
  <2> SUFFICES ASSUME q >= 1 PROVE FALSE
    BY <1>3
  <2>1. \A a, b \in Nat : b >= 1 => a * b >= a
    OBVIOUS
  <2>2. BlockSize * q >= BlockSize /\ BlockSize * q \in Nat
    BY <1>1, <1>3, <2>1
  <2> QED BY <1>1, <1>3, <2>2
<1> QED BY <1>4 DEF Compacting!BlocksFor, q

\* A row of what a slot holds is in a block of its table.
LEMMA RowFacts ==
    ASSUME Compacting!CompactionConstants, CompTyped, CompFits, NEW t \in Compacting!Slots,
           ~(comp.pc = "done" /\ t = comp.slot), NEW p \in 0..comp.lens[t] - 1
    PROVE  /\ p \in Nat /\ p \div BlockSize + 1 \in DOMAIN comp.table[t]
           /\ p % BlockSize \in 0..BlockSize - 1
           /\ comp.table[t][p \div BlockSize + 1] \in Compacting!Blocks \cap Range(comp.table[t])
           /\ Compacting!RowAt(comp.cell, comp.table[t], p) \in Rows
<1> DEFINE q == p \div BlockSize
           r == p % BlockSize
<1>1. comp.lens[t] \in Nat /\ comp.table[t] \in Seq(Compacting!Blocks)
  BY DEF CompTyped
<1>2. /\ p \in Nat /\ q \in Nat /\ r \in 0..BlockSize - 1
      /\ q + 1 <= Compacting!BlocksFor(comp.lens[t])
  BY <1>1, BlockIndex
<1>3. Compacting!BlocksFor(comp.lens[t]) <= Len(comp.table[t]) /\ Compacting!BlocksFor(comp.lens[t]) \in Nat
  BY <1>1, BlocksForType DEF CompFits
<1> HIDE DEF q, r
<1>4. q + 1 \in DOMAIN comp.table[t]
  BY <1>1, <1>2, <1>3
<1>5. comp.table[t][q + 1] \in Compacting!Blocks \cap Range(comp.table[t])
  BY <1>1, <1>4 DEF Range
<1>6. comp.cell[comp.table[t][q + 1]][r] \in Rows
  BY <1>2, <1>5 DEF CompTyped
<1> QED BY <1>2, <1>4, <1>5, <1>6 DEF Compacting!RowAt, q, r

\* Undoing the rotation and doing it again changes nothing.
LEMMA CopiedIsSame == ASSUME NEW row \in Rows PROVE Compacting!Copied(row) = row
BY DEF Compacting!Copied, Rows

\* The rewrite moves the kept rows into the popped blocks.
LEMMA RewriteStep ==
    ASSUME Compacting!CompactionConstants, CompInv, Compacting!Rewrite
    PROVE  CompInv'
<1> DEFINE s == comp.slot
           u == 3 - comp.slot
           old == comp.table[s]
           nth(b, o) == ((CHOOSE i \in DOMAIN comp.got : comp.got[i] = b) - 1) * BlockSize + o + 1
           cell == [b \in Compacting!Blocks |-> [o \in 0..BlockSize - 1 |->
                        IF b \in Range(comp.got) /\ nth(b, o) <= Len(comp.keep)
                        THEN Compacting!Copied(Compacting!RowAt(comp.cell, old, comp.keep[nth(b, o)]))
                        ELSE comp.cell[b][o]]]
           ref == [b \in Compacting!Blocks |-> IF b \in Range(old) THEN 0 ELSE comp.ref[b]]
           free == comp.free \o old
<1>1. CompShape /\ comp.pc = "pop" /\ s \in comp.tried /\ s \in Compacting!Slots
  BY DEF CompInv, CompShape, Compacting!Rewrite
<1>2. /\ Len(comp.got) = Compacting!BlocksFor(Len(comp.keep))
      /\ comp' = [comp EXCEPT !.pc = "done", !.cell = cell, !.ref = ref, !.free = free,
                              !.table = [@ EXCEPT ![s] = comp.got]]
  BY DEF Compacting!Rewrite, Compacting!ToSet, Range
<1> HIDE DEF cell, ref, free
<1>3. /\ comp'.pc = "done" /\ comp'.cell = cell /\ comp'.ref = ref /\ comp'.free = free
      /\ comp'.table = [comp.table EXCEPT ![s] = comp.got]
      /\ comp'.lens = comp.lens /\ comp'.shared = comp.shared /\ comp'.lost = comp.lost
      /\ comp'.tried = comp.tried /\ comp'.slot = s /\ comp'.keep = comp.keep
      /\ comp'.got = comp.got /\ comp'.allowed = comp.allowed /\ comp'.before = comp.before
  BY <1>1, <1>2 DEF CompShape
<1>4. CompShape'
  BY <1>1, <1>2 DEF CompShape
<1>5. ASSUME Unspoilt' PROVE CompGood'
  <2>1. Unspoilt
    BY <1>1, <1>3, <1>5 DEF Unspoilt
  <2>2. CompTyped /\ CompFits /\ CompCall /\ CompHeld
    BY <2>1 DEF CompInv, CompGood
  <2>3. /\ comp.got \in Seq(Compacting!Blocks) /\ NoDuplicates(comp.got) /\ old \in Seq(Compacting!Blocks)
        /\ comp.free \in Seq(Compacting!Blocks) /\ comp.table \in [Compacting!Slots -> Seq(Compacting!Blocks)]
        /\ comp.lens[s] \in Nat /\ u \in Compacting!Slots /\ u # s
        /\ DOMAIN comp.got = 1..Len(comp.got) /\ Len(comp.got) \in Nat
    BY <1>1, <2>2, TwoSlots DEF CompTyped, CompHeld
  <2>4. /\ comp.keep \in Seq(Int) /\ Compacting!Sorted(comp.keep) /\ DOMAIN comp.keep = 1..Len(comp.keep)
        /\ Len(comp.keep) \in Nat
        /\ \A i \in DOMAIN comp.keep : comp.keep[i] \in 0..comp.lens[s] - 1
        /\ Len(comp.keep) <= comp.allowed
        /\ Compacting!BlocksFor(Len(comp.keep)) < Compacting!BlocksFor(comp.lens[s])
        /\ comp.before = [t \in Compacting!Slots |-> Compacting!RowsOf(t)]
    BY <1>1, <2>2 DEF CompCall
  <2>5. \A i \in DOMAIN comp.keep : Compacting!RowAt(comp.cell, old, comp.keep[i]) \in Rows
    BY <1>1, <2>2, <2>4, RowFacts
  <2>6. \A t \in Compacting!Slots : comp'.table[t] = IF t = s THEN comp.got ELSE comp.table[t]
    BY <1>1, <1>3, <2>3
  <2>7. /\ BlockSize \in Nat /\ BlockSize > 0
        /\ \A i \in DOMAIN comp.got, o \in 0..BlockSize - 1 :
              nth(comp.got[i], o) = (i - 1) * BlockSize + o + 1
    <3>1. \A i \in DOMAIN comp.got : (CHOOSE j \in DOMAIN comp.got : comp.got[j] = comp.got[i]) = i
      BY <2>3 DEF NoDuplicates
    <3>2. BlockSize \in Nat /\ BlockSize > 0
      BY DEF Compacting!CompactionConstants
    <3>3. ASSUME NEW i \in DOMAIN comp.got, NEW o \in 0..BlockSize - 1
          PROVE  nth(comp.got[i], o) = (i - 1) * BlockSize + o + 1
      <4> DEFINE c == CHOOSE j \in DOMAIN comp.got : comp.got[j] = comp.got[i]
      <4>1. c = i
        BY <3>1
      <4>2. nth(comp.got[i], o) = (c - 1) * BlockSize + o + 1
        OBVIOUS
      <4> HIDE DEF c, nth
      <4> QED BY <4>1, <4>2
    <3> QED BY <3>2, <3>3
  <2>8. \A i \in DOMAIN comp.got, o \in 0..BlockSize - 1 : nth(comp.got[i], o) \in Nat \ {0}
    <3> SUFFICES ASSUME NEW i \in DOMAIN comp.got, NEW o \in 0..BlockSize - 1
                 PROVE  nth(comp.got[i], o) \in Nat \ {0}
      OBVIOUS
    <3>1. i - 1 \in Nat /\ o \in Nat
      BY <2>3, <2>7
    <3>2. \A a, b \in Nat : a * b \in Nat
      OBVIOUS
    <3>3. (i - 1) * BlockSize \in Nat
      BY <2>7, <3>1, <3>2
    <3> QED BY <2>7, <3>1, <3>3
  <2> HIDE DEF nth
  <2>9. \A b \in Compacting!Blocks, o \in 0..BlockSize - 1 :
            cell[b][o] = IF b \in Range(comp.got) /\ nth(b, o) <= Len(comp.keep)
                         THEN Compacting!RowAt(comp.cell, old, comp.keep[nth(b, o)])
                         ELSE comp.cell[b][o]
    <3> SUFFICES ASSUME NEW b \in Compacting!Blocks, NEW o \in 0..BlockSize - 1,
                        b \in Range(comp.got), nth(b, o) <= Len(comp.keep)
                 PROVE  Compacting!Copied(Compacting!RowAt(comp.cell, old, comp.keep[nth(b, o)]))
                            = Compacting!RowAt(comp.cell, old, comp.keep[nth(b, o)])
      BY DEF cell
    <3>1. PICK i \in DOMAIN comp.got : comp.got[i] = b
      BY DEF Range
    <3>2. nth(b, o) \in DOMAIN comp.keep
      BY <2>4, <2>8, <3>1
    <3> QED BY <2>5, <3>2, CopiedIsSame
  <2>10. cell \in [Compacting!Blocks -> [0..BlockSize - 1 -> Rows]]
    <3>1. \A b \in Compacting!Blocks, o \in 0..BlockSize - 1 : cell[b][o] \in Rows
      <4> SUFFICES ASSUME NEW b \in Compacting!Blocks, NEW o \in 0..BlockSize - 1 PROVE cell[b][o] \in Rows
        OBVIOUS
      <4>1. CASE b \in Range(comp.got) /\ nth(b, o) <= Len(comp.keep)
        <5>1. PICK i \in DOMAIN comp.got : comp.got[i] = b
          BY <4>1 DEF Range
        <5>2. nth(b, o) \in DOMAIN comp.keep
          BY <2>4, <2>8, <4>1, <5>1
        <5> QED BY <2>5, <2>9, <4>1, <5>2
      <4>2. CASE ~(b \in Range(comp.got) /\ nth(b, o) <= Len(comp.keep))
        BY <2>2, <2>9, <4>2 DEF CompTyped
      <4> QED BY <4>1, <4>2
    <3>2. /\ DOMAIN cell = Compacting!Blocks /\ cell = [b \in Compacting!Blocks |-> cell[b]]
          /\ \A b \in Compacting!Blocks : cell[b] = [o \in 0..BlockSize - 1 |-> cell[b][o]]
      BY DEF cell
    <3> QED BY <3>1, <3>2
  <2>11. /\ free \in Seq(Compacting!Blocks) /\ Range(free) = Range(comp.free) \cup Range(old)
         /\ NoDuplicates(comp.free) /\ NoDuplicates(old) /\ Range(comp.free) \cap Range(old) = {}
                => NoDuplicates(free)
    BY <2>3, ConcatFacts DEF free
  <2>12. CompTyped'
    <3>1. ref \in [Compacting!Blocks -> Nat] /\ (~comp.shared => \A b \in Compacting!Blocks : ref[b] <= 1)
      BY <2>2 DEF ref, CompTyped
    <3>2. comp'.table \in [Compacting!Slots -> Seq(Compacting!Blocks)]
      BY <1>3, <2>3
    <3> QED BY <1>3, <2>2, <2>10, <2>11, <3>1, <3>2 DEF CompTyped
  <2>13. CompFits'
    <3>1. \A t \in Compacting!Slots : t # s => Compacting!BlocksFor(comp.lens[t]) <= Len(comp.table[t])
      BY <1>1, <2>2 DEF CompFits
    <3>2. comp'.table[s] = comp.got
      BY <1>1, <2>6
    <3>3. \A t \in Compacting!Slots : Compacting!BlocksFor(comp.lens[t]) <= Len(comp'.table[t]) \/ t = s
      BY <2>6, <3>1
    <3> QED BY <1>2, <1>3, <3>2, <3>3 DEF CompFits
  <2>14. CompCall'
    BY <1>1, <1>3, <2>4 DEF CompCall
  <2>15. Popped = Range(comp.got) /\ Popped' = {}
    BY <1>1, <1>3 DEF Popped
  <2>16. CompHeld'
    <3>1. CASE comp.shared
      BY <1>3, <2>3, <3>1 DEF CompHeld
    <3>2. CASE ~comp.shared
      <4>1. /\ NoDuplicates(comp.free) /\ Range(comp.free) \cap Range(comp.got) = {}
            /\ \A t \in Compacting!Slots : NoDuplicates(comp.table[t])
            /\ \A t \in Compacting!Slots : Range(comp.table[t]) \cap (Range(comp.free) \cup Range(comp.got)) = {}
            /\ Range(comp.table[1]) \cap Range(comp.table[2]) = {}
            /\ Compacting!Blocks \ comp.lost = Range(comp.free) \cup Range(comp.got) \cup Range(comp.table[1])
                                    \cup Range(comp.table[2])
        BY <2>2, <2>15, <3>2 DEF CompHeld
      <4>2. Range(comp.table[u]) \cap Range(old) = {}
        BY <1>1, <2>3, <4>1, TwoSlots
      <4>3. NoDuplicates(free)
        BY <1>1, <2>11, <4>1
      <4>4. \A t \in Compacting!Slots : NoDuplicates(comp'.table[t]) /\ Range(comp'.table[t]) \cap Range(free) = {}
        <5>1. Range(comp.got) \cap Range(free) = {} /\ Range(comp.table[u]) \cap Range(free) = {}
          BY <1>1, <2>3, <2>11, <4>1, <4>2
        <5>2. \A t \in Compacting!Slots : t = s \/ t = u
          BY <1>1, TwoSlots
        <5> QED BY <2>3, <2>6, <4>1, <5>1, <5>2
      <4>5. Range(comp.table[u]) \cap Range(comp.got) = {}
        BY <2>3, <4>1
      <4>6. Range(comp'.table[1]) \cap Range(comp'.table[2]) = {}
        BY <1>1, <2>3, <2>6, <4>5, TwoSlots
      <4>7. Compacting!Blocks \ comp.lost = Range(free) \cup Range(comp'.table[1]) \cup Range(comp'.table[2])
        BY <1>1, <2>3, <2>6, <2>11, <4>1, TwoSlots
      <4> QED BY <1>3, <2>3, <2>15, <4>3, <4>4, <4>6, <4>7 DEF CompHeld
    <3> QED BY <3>1, <3>2
  <2>17. CompKept'
    <3>1. ASSUME NEW i \in DOMAIN comp.keep
          PROVE  Compacting!RowAt(cell, comp.got, i - 1) = comp.before[s][comp.keep[i]]
      <4> DEFINE p == i - 1
                 q == p \div BlockSize
                 r == p % BlockSize
                 b == comp.got[q + 1]
      <4>1. p \in 0..Len(comp.keep) - 1 /\ i = p + 1
        BY <2>4
      <4>2. /\ p \in Nat /\ q \in Nat /\ r \in 0..BlockSize - 1 /\ p = BlockSize * q + r
            /\ q + 1 <= Len(comp.got)
        BY <1>2, <2>4, <4>1, BlockIndex
      <4> HIDE DEF p, q, r
      <4>3. q + 1 \in DOMAIN comp.got /\ b \in Compacting!Blocks /\ b \in Range(comp.got)
        <5>1. comp.got \in Seq(Compacting!Blocks)
          BY <2>3
        <5>2. q + 1 \in 1..Len(comp.got)
          BY <4>2, <5>1
        <5> DEFINE k == q + 1
        <5>3. k \in 1..Len(comp.got)
          BY <5>2
        <5> HIDE DEF k
        <5>4. k \in DOMAIN comp.got /\ comp.got[k] \in Compacting!Blocks
          BY <5>1, <5>3
        <5>5. comp.got[k] \in Range(comp.got)
          BY <5>4 DEF Range
        <5> QED BY <5>4, <5>5 DEF k
      <4>4. nth(b, r) = ((q + 1) - 1) * BlockSize + r + 1
        BY <2>7, <4>2, <4>3
      <4>5. nth(b, r) = i
        <5>1. (q + 1) - 1 = q /\ r \in Int
          BY <2>7, <4>2
        <5>2. q * BlockSize = BlockSize * q /\ q * BlockSize \in Int
          BY <2>7, <4>2
        <5> QED BY <4>1, <4>2, <4>4, <5>1, <5>2
      <4>6. cell[b][r] = Compacting!RowAt(comp.cell, old, comp.keep[i])
        BY <2>4, <2>9, <4>2, <4>3, <4>5
      <4>7. Compacting!RowAt(cell, comp.got, i - 1) = cell[b][r]
        BY DEF Compacting!RowAt, p, q, r
      <4>8. comp.before[s][comp.keep[i]] = Compacting!RowAt(comp.cell, old, comp.keep[i])
        BY <1>1, <2>4 DEF Compacting!RowsOf
      <4> QED BY <4>6, <4>7, <4>8
    <3>2. \A p \in 0..comp.lens[u] - 1 : Compacting!RowAt(cell, comp.table[u], p) = Compacting!RowAt(comp.cell, comp.table[u], p)
      <4> SUFFICES ASSUME NEW p \in 0..comp.lens[u] - 1
                   PROVE  Compacting!RowAt(cell, comp.table[u], p) = Compacting!RowAt(comp.cell, comp.table[u], p)
        OBVIOUS
      <4> DEFINE b == comp.table[u][p \div BlockSize + 1]
                 r == p % BlockSize
      <4>1. b \in Compacting!Blocks /\ b \in Range(comp.table[u]) /\ r \in 0..BlockSize - 1
        BY <1>1, <2>2, <2>3, RowFacts
      <4>2. b \notin Range(comp.got)
        <5>1. Range(comp.table[u]) \cap Range(comp.got) = {}
          BY <1>1, <2>2, <2>3, <2>15 DEF CompHeld
        <5> QED BY <4>1, <5>1
      <4> HIDE DEF b, r
      <4>3. cell[b][r] = comp.cell[b][r]
        BY <2>9, <4>1, <4>2
      <4> QED BY <4>3 DEF Compacting!RowAt, b, r
    <3>3. comp'.table[u] = comp.table[u] /\ comp'.table[s] = comp.got
      BY <1>1, <2>3, <2>6
    <3>4. Compacting!RowsOf(u)' = [p \in 0..comp.lens[u] - 1 |-> Compacting!RowAt(cell, comp.table[u], p)]
      BY <1>3, <3>3 DEF Compacting!RowsOf
    <3>5. comp.before[u] = [p \in 0..comp.lens[u] - 1 |-> Compacting!RowAt(comp.cell, comp.table[u], p)]
      BY <2>3, <2>4 DEF Compacting!RowsOf
    <3>6. Compacting!RowsOf(u)' = comp.before[u]
      BY <3>2, <3>4, <3>5
    <3>7. \A i \in DOMAIN comp'.keep :
            Compacting!RowAt(comp'.cell, comp'.table[comp'.slot], i - 1) = comp'.before[comp'.slot][comp'.keep[i]]
      BY <1>3, <3>1, <3>3
    <3>8. Compacting!RowsOf(3 - comp.slot)' = comp'.before[3 - comp'.slot]
      BY <1>3, <3>6 DEF Compacting!RowsOf
    <3> QED BY <3>7, <3>8 DEF CompKept
  <2> QED BY <2>12, <2>13, <2>14, <2>16, <2>17 DEF CompGood
<1> QED BY <1>4, <1>5 DEF CompInv

\* free gives back every block of a slot that shares none.
LEMMA FreeStep ==
    ASSUME Compacting!CompactionConstants, CompInv, NEW s \in Compacting!Slots, Compacting!Free(s)
    PROVE  CompInv'
<1> DEFINE old == comp.table[s]
           back == Picked(old, {i \in DOMAIN old : Compacting!Left(old[i]) <= 0})
           ref == [b \in Compacting!Blocks |-> IF b \in Range(old) THEN Compacting!Left(b) ELSE comp.ref[b]]
<1>1. CompShape /\ comp.pc = "idle" /\ s \in comp.tried
  BY Libraries DEF CompInv, Compacting!Free
<1>2. comp' = [comp EXCEPT
            !.freed = @ \cup {s}, !.lens = [@ EXCEPT ![s] = 0], !.table = [@ EXCEPT ![s] = <<>>],
            !.free = @ \o back, !.ref = ref]
  BY Libraries DEF Compacting!Free, Compacting!ToSet, Range
<1> HIDE DEF back, ref
<1>3. /\ comp'.free = comp.free \o back /\ comp'.table = [comp.table EXCEPT ![s] = <<>>]
      /\ comp'.ref = ref /\ comp'.lens = [comp.lens EXCEPT ![s] = 0]
      /\ comp'.cell = comp.cell /\ comp'.shared = comp.shared
      /\ comp'.lost = comp.lost /\ comp'.tried = comp.tried
      /\ comp'.pc = "idle" /\ comp'.got = comp.got
  BY <1>1, <1>2 DEF CompShape
<1>4. CompShape'
  BY <1>1, <1>2 DEF CompShape
<1>5. ASSUME Unspoilt' PROVE CompGood'
  <2>1. Unspoilt /\ ~comp.shared
    BY <1>1, <1>3, <1>5 DEF Unspoilt, CompShape
  <2>2. CompTyped /\ CompFits /\ CompHeld
    BY <2>1 DEF CompInv, CompGood
  <2>3. Popped = {} /\ Popped' = {}
    BY <1>1, <1>3 DEF Popped
  <2>4. /\ comp.free \in Seq(Compacting!Blocks) /\ NoDuplicates(comp.free) /\ NoDuplicates(comp.got)
        /\ comp.table \in [Compacting!Slots -> Seq(Compacting!Blocks)] /\ old \in Seq(Compacting!Blocks)
        /\ \A t \in Compacting!Slots : Range(comp.table[t]) \cap Range(comp.free) = {}
        /\ \A t \in Compacting!Slots : NoDuplicates(comp.table[t])
        /\ Range(comp.table[1]) \cap Range(comp.table[2]) = {}
        /\ Compacting!Blocks \ comp.lost = Range(comp.free) \cup Range(comp.table[1]) \cup Range(comp.table[2])
    BY <1>1, <2>1, <2>2, <2>3 DEF CompTyped, CompHeld
  <2>5. \A b \in Compacting!Blocks : Compacting!Left(b) = 0
    <3>1. \A b \in Compacting!Blocks : comp.ref[b] = 0 \/ comp.ref[b] = 1
      BY <2>1, <2>2 DEF CompTyped
    <3> QED BY <3>1 DEF Compacting!Left
  <2>6. back = old
    <3>1. {i \in DOMAIN old : Compacting!Left(old[i]) <= 0} = DOMAIN old
      <4>1. \A i \in DOMAIN old : old[i] \in Compacting!Blocks
        BY <2>4
      <4>2. \A i \in DOMAIN old : Compacting!Left(old[i]) = 0
        BY <2>5, <4>1
      <4> QED BY <4>2
    <3>2. Picked(old, DOMAIN old) = old
      BY <2>4, PickedAll
    <3> QED BY <3>1, <3>2 DEF back
  <2> DEFINE free == comp.free \o old
  <2>7. /\ free \in Seq(Compacting!Blocks) /\ Range(free) = Range(comp.free) \cup Range(old)
        /\ NoDuplicates(free)
    BY <2>4, ConcatFacts
  <2>8. <<>> \in Seq(Compacting!Blocks) /\ NoDuplicates(<<>>) /\ Range(<<>>) = {} /\ Len(<<>>) = 0
    BY <2>4, RangeOfList
  <2>9. \A t \in Compacting!Slots : comp'.table[t] = IF t = s THEN <<>> ELSE comp.table[t]
    BY <1>3, <2>4
  <2>10. comp'.free = free
    BY <1>3, <2>6
  <2> HIDE DEF free
  <2>11. CompTyped'
    <3>1. ref \in [Compacting!Blocks -> Nat] /\ \A b \in Compacting!Blocks : ref[b] <= 1
      BY <2>1, <2>2, <2>5 DEF ref, CompTyped
    <3>2. comp'.table \in [Compacting!Slots -> Seq(Compacting!Blocks)]
      BY <1>3, <2>4, <2>8
    <3> QED BY <1>3, <2>2, <2>7, <2>10, <3>1, <3>2 DEF CompTyped
  <2>12. CompFits'
    <3>1. \A t \in Compacting!Slots : comp'.lens[t] = IF t = s THEN 0 ELSE comp.lens[t]
      BY <1>3, <2>2 DEF CompTyped
    <3>2. \A t \in Compacting!Slots : Compacting!BlocksFor(comp.lens[t]) <= Len(comp.table[t])
      BY <1>1, <2>2 DEF CompFits
    <3>3. \A t \in Compacting!Slots : Compacting!BlocksFor(comp'.lens[t]) <= Len(comp'.table[t])
      <4>1. Compacting!BlocksFor(0) = 0
        BY NoBlocks
      <4> QED BY <2>8, <2>9, <3>1, <3>2, <4>1
    <3> QED BY <1>3, <3>3 DEF CompFits
  <2>13. CompHeld'
    <3>1. \A t \in Compacting!Slots : NoDuplicates(comp'.table[t]) /\ Range(comp'.table[t]) \cap Range(free) = {}
      <4>1. \A t \in Compacting!Slots : t # s => Range(comp.table[t]) \cap Range(old) = {}
        BY <2>4, TwoSlots
      <4>2. \A t \in Compacting!Slots : t # s => Range(comp.table[t]) \cap Range(free) = {}
        BY <2>4, <2>7, <4>1
      <4> QED BY <2>4, <2>8, <2>9, <4>2
    <3>2. Range(comp'.table[1]) \cap Range(comp'.table[2]) = {}
      BY <2>8, <2>9, TwoSlots
    <3>3. Compacting!Blocks \ comp.lost = Range(free) \cup Range(comp'.table[1]) \cup Range(comp'.table[2])
      <4>1. Range(old) \cup Range(comp'.table[1]) \cup Range(comp'.table[2])
                = Range(comp.table[1]) \cup Range(comp.table[2])
        BY <2>8, <2>9, TwoSlots
      <4> QED BY <2>4, <2>7, <4>1
    <3> QED BY <1>3, <2>3, <2>4, <2>7, <2>10, <3>1, <3>2, <3>3 DEF CompHeld
  <2> QED BY <1>3, <2>11, <2>12, <2>13 DEF CompGood, CompCall, CompKept
<1> QED BY <1>4, <1>5 DEF CompInv

\* A step of another machine leaves it.
LEMMA CompUnchanged ==
    ASSUME CompInv, UNCHANGED comp
    PROVE  CompInv'
<1>1. CompShape' /\ (Unspoilt' <=> Unspoilt)
  BY DEF CompInv, CompShape, Unspoilt
<1>2. \A t : Compacting!RowsOf(t)' = Compacting!RowsOf(t)
  BY DEF Compacting!RowsOf
<1>3. ASSUME CompGood PROVE CompGood'
  <2>1. CompTyped' /\ CompFits' /\ CompHeld'
    BY <1>3 DEF CompGood, CompTyped, CompFits, CompHeld, Popped
  <2>2. CompCall' /\ CompKept'
    BY <1>2, <1>3 DEF CompGood, CompCall, CompKept
  <2> QED BY <2>1, <2>2 DEF CompGood
<1> QED BY <1>1, <1>3 DEF CompInv

\* What a compaction leaves, and where every block is.
LEMMA CompactionIsKept ==
    ASSUME Compacting!CompactionConstants, CompInv
    PROVE  Compacting!CompactionKeeps
<1>1. CompShape
  BY DEF CompInv
<1>2. ASSUME comp.pc = "done", comp.shared => Cardinality(comp.tried) = 1
      PROVE  LET s == comp.slot  o == 3 - comp.slot IN
             /\ Len(comp.keep) <= comp.allowed
             /\ \A i, j \in DOMAIN comp.keep : i < j => comp.keep[i] < comp.keep[j]
             /\ Len(comp.table[s]) < Compacting!BlocksFor(comp.lens[s])
             /\ \A i \in DOMAIN comp.keep :
                   Compacting!RowAt(comp.cell, comp.table[s], i - 1) = comp.before[s][comp.keep[i]]
             /\ Compacting!RowsOf(o) = comp.before[o]
  <2>1. Unspoilt
    <3>1. CASE comp.shared
      <4>1. IsFiniteSet(comp.tried)
        <5>1. IsFiniteSet(1..2)
          <6>1. 1 \in Int /\ 2 \in Int
            OBVIOUS
          <6> QED BY <6>1, FS_Interval
        <5> QED BY <1>1, <5>1, FS_Subset, TwoSlots DEF CompShape
      <4>2. PICK x : comp.tried = {x}
        BY <1>2, <3>1, <4>1, FS_Singleton
      <4> QED BY <1>1, <1>2, <4>2 DEF Unspoilt, CompShape
    <3>2. CASE ~comp.shared
      BY <3>2 DEF Unspoilt
    <3> QED BY <3>1, <3>2
  <2>2. CompFits /\ CompCall /\ CompKept
    BY <2>1 DEF CompInv, CompGood
  <2> QED BY <1>2, <2>2 DEF CompFits, CompCall, CompKept, Compacting!Sorted
<1>3. ASSUME ~comp.shared, NEW b \in Compacting!Blocks
      PROVE  Cardinality({x \in (1..4) \X (1..NBlocks) :
                LET q == <<comp.free, comp.table[1], comp.table[2], comp.got>>[x[1]] IN
                x[2] \in DOMAIN q /\ q[x[2]] = b /\ (x[1] = 4 => comp.pc = "pop")})
             = IF b \in comp.lost THEN 0 ELSE 1
  <2> DEFINE list(k) == <<comp.free, comp.table[1], comp.table[2], comp.got>>[k]
             here(k, i) == i \in DOMAIN list(k) /\ list(k)[i] = b /\ (k = 4 => comp.pc = "pop")
             X == {x \in (1..4) \X (1..NBlocks) : here(x[1], x[2])}
  <2>1. CompTyped /\ CompHeld
    BY <1>3 DEF CompInv, CompGood, Unspoilt
  <2>2. list(1) = comp.free /\ list(2) = comp.table[1] /\ list(3) = comp.table[2] /\ list(4) = comp.got
    OBVIOUS
  <2>3. /\ NoDuplicates(comp.free) /\ NoDuplicates(comp.got)
        /\ NoDuplicates(comp.table[1]) /\ NoDuplicates(comp.table[2])
        /\ Range(comp.free) \cap Popped = {} /\ Range(comp.table[1]) \cap Range(comp.table[2]) = {}
        /\ Range(comp.table[1]) \cap (Range(comp.free) \cup Popped) = {}
        /\ Range(comp.table[2]) \cap (Range(comp.free) \cup Popped) = {}
        /\ Compacting!Blocks \ comp.lost = Range(comp.free) \cup Popped \cup Range(comp.table[1])
                                \cup Range(comp.table[2])
    BY <1>3, <2>1, TwoSlots DEF CompHeld
  <2>4. \A k \in 1..4 : list(k) \in Seq(Compacting!Blocks) /\ NoDuplicates(list(k))
    <3>1. \A k \in 1..4 : k = 1 \/ k = 2 \/ k = 3 \/ k = 4
      OBVIOUS
    <3>2. /\ comp.free \in Seq(Compacting!Blocks) /\ comp.got \in Seq(Compacting!Blocks)
          /\ comp.table[1] \in Seq(Compacting!Blocks) /\ comp.table[2] \in Seq(Compacting!Blocks)
      BY <2>1, TwoSlots DEF CompTyped
    <3> HIDE DEF list
    <3> QED BY <2>2, <2>3, <3>1, <3>2
  <2>5. \A k \in 1..4 : DOMAIN list(k) \subseteq 1..NBlocks
    <3> SUFFICES ASSUME NEW k \in 1..4 PROVE DOMAIN list(k) \subseteq 1..NBlocks
      OBVIOUS
    <3> DEFINE q == list(k)
    <3>1. q \in Seq(1..NBlocks) /\ NoDuplicates(q)
      BY <2>4 DEF Compacting!Blocks
    <3>2. NBlocks \in Nat
      BY DEF Compacting!CompactionConstants
    <3> HIDE DEF q, list
    <3>3. Len(q) <= NBlocks
      BY <3>1, <3>2, ListFits
    <3>4. DOMAIN q = 1..Len(q) /\ Len(q) \in Nat
      BY <3>1
    <3> QED BY <3>2, <3>3, <3>4 DEF q
  <2> DEFINE In(k) == \E i \in DOMAIN list(k) : here(k, i)
  <2>6. /\ In(1) <=> b \in Range(comp.free)
        /\ In(2) <=> b \in Range(comp.table[1])
        /\ In(3) <=> b \in Range(comp.table[2])
        /\ In(4) <=> b \in Popped
    <3> HIDE DEF list
    <3>1. In(1) <=> b \in Range(comp.free)
      BY <2>2 DEF Range
    <3>2. In(2) <=> b \in Range(comp.table[1])
      BY <2>2 DEF Range
    <3>3. In(3) <=> b \in Range(comp.table[2])
      BY <2>2 DEF Range
    <3>4. In(4) <=> b \in Popped
      BY <2>2 DEF Range, Popped
    <3> QED BY <3>1, <3>2, <3>3, <3>4
  <2>7. \A k, l \in 1..4 : In(k) /\ In(l) => k = l
    <3> HIDE DEF In
    <3>1. \A k \in 1..4 : k = 1 \/ k = 2 \/ k = 3 \/ k = 4
      OBVIOUS
    <3>2. /\ ~(In(1) /\ In(2)) /\ ~(In(1) /\ In(3)) /\ ~(In(1) /\ In(4))
          /\ ~(In(2) /\ In(3)) /\ ~(In(2) /\ In(4)) /\ ~(In(3) /\ In(4))
      BY <2>3, <2>6
    <3> QED BY <3>1, <3>2
  <2>8. (\E k \in 1..4 : In(k)) <=> b \notin comp.lost
    <3> HIDE DEF In
    <3>1. (\E k \in 1..4 : In(k)) <=> In(1) \/ In(2) \/ In(3) \/ In(4)
      <4>1. 1..4 = {1, 2, 3, 4}
        OBVIOUS
      <4> QED BY <4>1
    <3> QED BY <1>3, <2>3, <2>6, <3>1
  <2>9. \A k \in 1..4 : \A i, j \in DOMAIN list(k) : here(k, i) /\ here(k, j) => i = j
    BY <2>4 DEF NoDuplicates
  <2> HIDE DEF list
  <2>10. \A x \in (1..4) \X (1..NBlocks) : x = <<x[1], x[2]>> /\ x[1] \in 1..4 /\ x[2] \in 1..NBlocks
    OBVIOUS
  <2>11. \A x \in X : x \in (1..4) \X (1..NBlocks) /\ In(x[1]) /\ here(x[1], x[2])
                     /\ x[2] \in DOMAIN list(x[1])
    OBVIOUS
  <2>12. \A k \in 1..4 : In(k) => \E i \in DOMAIN list(k) : here(k, i) /\ <<k, i>> \in X
    BY <2>5
  <2> HIDE DEF here, In
  <2>13. CASE b \in comp.lost
    <3>1. X = {}
      BY <2>8, <2>10, <2>11, <2>13
    <3>2. Cardinality(X) = 0
      BY <3>1, FS_EmptySet
    <3> QED BY <2>13, <3>2 DEF here, list
  <2>14. CASE b \notin comp.lost
    <3>1. PICK k \in 1..4 : In(k)
      BY <2>8, <2>14
    <3>2. PICK i \in DOMAIN list(k) : here(k, i) /\ <<k, i>> \in X
      BY <2>12, <3>1
    <3>3. \A x \in X : x = <<k, i>>
      <4> SUFFICES ASSUME NEW x \in X PROVE x = <<k, i>>
        OBVIOUS
      <4>1. In(x[1]) /\ here(x[1], x[2]) /\ x[2] \in DOMAIN list(x[1]) /\ x = <<x[1], x[2]>>
            /\ x[1] \in 1..4
        BY <2>10, <2>11
      <4>2. x[1] = k
        BY <2>7, <3>1, <4>1
      <4>3. x[2] = i
        BY <2>9, <3>2, <4>1, <4>2
      <4> QED BY <4>1, <4>2, <4>3
    <3> HIDE DEF X
    <3>4. X = {<<k, i>>}
      BY <3>2, <3>3
    <3>5. Cardinality(X) = 1
      BY <3>4, FS_Singleton
    <3> QED BY <2>14, <3>5 DEF X, here, list
  <2> QED BY <2>13, <2>14
<1> QED BY <1>2, <1>3, Libraries DEF Compacting!CompactionKeeps

\* Two slots that hold a prefill each start with a sound cache.
LEMMA CompInitial ==
    ASSUME Compacting!CompactionConstants, Compacting!Init
    PROVE  CompInv
<1>1. PICK n1 \in Lengths, n2 \in Lengths, shared \in BOOLEAN :
        LET b1  == Compacting!BlocksFor(n1)
            b2  == Compacting!BlocksFor(n2)
            off == IF shared THEN b1 - 1 ELSE b1
            t1  == [i \in 1..b1 |-> i]
            t2  == [i \in 1..b2 |-> IF shared /\ i = 1 THEN 1 ELSE off + i]
            in1 == {t1[i] : i \in 1..b1}
            in2 == {t2[i] : i \in 1..b2} IN
        /\ shared => BlockSize \in 1..n1 \cap 1..n2
        /\ off + b2 <= NBlocks
        /\ comp = [
            free  |-> Compacting!SetToSeq(Compacting!Blocks \ (in1 \cup in2)),
            table |-> <<t1, t2>>,
            ref   |-> [b \in Compacting!Blocks |-> Compacting!Cardinality({s \in Compacting!Slots : b \in <<in1, in2>>[s]})],
            cell  |-> [b \in Compacting!Blocks |-> [o \in 0..BlockSize - 1 |->
                        IF b \in in1 THEN Compacting!Row(1, (b - 1) * BlockSize + o)
                        ELSE IF b \in in2 THEN Compacting!Row(2, (b - off - 1) * BlockSize + o)
                        ELSE Compacting!Empty]],
            lens  |-> <<n1, n2>>, shared |-> shared, lost |-> {}, tried |-> {}, freed |-> {},
            pc |-> "idle", slot |-> 0, keep |-> <<>>, got |-> <<>>,
            allowed |-> 0, before |-> <<>>]
  BY Libraries DEF Compacting!Init
<1> DEFINE b1  == Compacting!BlocksFor(n1)
           b2  == Compacting!BlocksFor(n2)
           off == IF shared THEN b1 - 1 ELSE b1
           t1  == [i \in 1..b1 |-> i]
           t2  == [i \in 1..b2 |-> IF shared /\ i = 1 THEN 1 ELSE off + i]
           in1 == {t1[i] : i \in 1..b1}
           in2 == {t2[i] : i \in 1..b2}
           rest == Compacting!Blocks \ (in1 \cup in2)
           cell == [b \in Compacting!Blocks |-> [o \in 0..BlockSize - 1 |->
                        IF b \in in1 THEN Compacting!Row(1, (b - 1) * BlockSize + o)
                        ELSE IF b \in in2 THEN Compacting!Row(2, (b - off - 1) * BlockSize + o)
                        ELSE Compacting!Empty]]
           ref == [b \in Compacting!Blocks |-> Compacting!Cardinality({s \in Compacting!Slots : b \in <<in1, in2>>[s]})]
<1>2. /\ n1 \in Nat /\ n2 \in Nat /\ NBlocks \in Nat /\ BlockSize \in Nat \ {0}
      /\ b1 \in Nat /\ b2 \in Nat
  <2>1. n1 \in Nat /\ n2 \in Nat
    BY DEF Compacting!CompactionConstants
  <2> QED BY <2>1, BlocksForType DEF Compacting!CompactionConstants
<1>3. /\ shared => b1 >= 1 /\ b2 >= 1
      /\ off + b2 <= NBlocks
  <2>1. (shared => BlockSize \in 1..n1 \cap 1..n2) /\ off + b2 <= NBlocks
    BY <1>1
  <2>2. \A n \in Nat : n >= 1 => Compacting!BlocksFor(n) >= 1
    <3> SUFFICES ASSUME NEW n \in Nat, n >= 1 PROVE Compacting!BlocksFor(n) >= 1
      OBVIOUS
    <3>1. 0 \in 0..n - 1
      OBVIOUS
    <3>2. 0 \div BlockSize \in Nat /\ 0 \div BlockSize + 1 <= Compacting!BlocksFor(n)
      BY <3>1, BlockIndex
    <3>3. Compacting!BlocksFor(n) \in Nat
      BY BlocksForType
    <3> DEFINE z == 0 \div BlockSize
    <3> HIDE DEF z
    <3>4. z \in Nat /\ z + 1 <= Compacting!BlocksFor(n)
      BY <3>2 DEF z
    <3> QED BY <3>3, <3>4
  <2>3. shared => n1 >= 1 /\ n2 >= 1
    BY <1>2, <2>1
  <2> QED BY <1>2, <2>1, <2>2, <2>3
<1>4. /\ comp.free = Compacting!SetToSeq(rest) /\ comp.table = <<t1, t2>> /\ comp.ref = ref
      /\ comp.cell = cell /\ comp.lens = <<n1, n2>> /\ comp.shared = shared /\ comp.lost = {}
      /\ comp.tried = {} /\ comp.freed = {} /\ comp.pc = "idle" /\ comp.got = <<>>
  BY <1>1
<1>5. CompShape
  BY <1>1 DEF CompShape
<1> HIDE DEF b1, b2, cell, ref
<1>6. /\ off \in Nat /\ b1 <= NBlocks /\ t1 \in Seq(Compacting!Blocks) /\ Len(t1) = b1
      /\ \A i \in 1..b2 : t2[i] \in Compacting!Blocks
  <2>1. off \in Nat /\ off >= b1 - 1 /\ off <= b1 /\ b1 <= NBlocks
    BY <1>2, <1>3
  <2>2. \A i \in 1..b2 : t2[i] \in Compacting!Blocks
    <3> SUFFICES ASSUME NEW i \in 1..b2 PROVE t2[i] \in Compacting!Blocks
      OBVIOUS
    <3>1. CASE shared /\ i = 1
      BY <1>2, <1>3, <2>1, <3>1 DEF Compacting!Blocks
    <3>2. CASE ~(shared /\ i = 1)
      <4>1. t2[i] = off + i
        BY <3>2
      <4> HIDE DEF off
      <4> QED BY <1>2, <1>3, <2>1, <4>1 DEF Compacting!Blocks
    <3> QED BY <3>1, <3>2
  <2>3. \A i \in 1..b1 : i \in Compacting!Blocks
    BY <1>2, <2>1 DEF Compacting!Blocks
  <2>4. t1 \in [1..b1 -> Compacting!Blocks]
    BY <2>3
  <2>5. t1 \in Seq(Compacting!Blocks) /\ Len(t1) = b1
    BY <1>2, <2>4
  <2> QED BY <2>1, <2>2, <2>5
<1>7. t2 \in Seq(Compacting!Blocks) /\ Len(t2) = b2
  <2>1. t2 \in [1..b2 -> Compacting!Blocks]
    BY <1>6
  <2> QED BY <1>2, <2>1
<1>8. in1 = Range(t1) /\ in2 = Range(t2) /\ in1 \cup in2 \subseteq Compacting!Blocks
  <2>1. DOMAIN t1 = 1..b1 /\ DOMAIN t2 = 1..b2
    OBVIOUS
  <2>2. in1 = Range(t1)
    BY <2>1 DEF Range
  <2>3. in2 = Range(t2)
    BY <2>1 DEF Range
  <2>4. Range(t1) \subseteq Compacting!Blocks /\ Range(t2) \subseteq Compacting!Blocks
    BY <1>6, <1>7, RangeOfList
  <2> QED BY <2>2, <2>3, <2>4
<1>9. NoDuplicates(t1) /\ (~shared => NoDuplicates(t2) /\ in1 \cap in2 = {})
  <2>1. NoDuplicates(t1)
    BY DEF NoDuplicates
  <2>2. ASSUME ~shared PROVE NoDuplicates(t2) /\ in1 \cap in2 = {}
    <3>1. t2 = [i \in 1..b2 |-> b1 + i] /\ in1 = 1..b1
      BY <2>2
    <3>2. NoDuplicates(t2)
      BY <1>2, <3>1 DEF NoDuplicates
    <3>3. in2 = {b1 + i : i \in 1..b2}
      BY <2>2
    <3> HIDE DEF in1, in2
    <3>4. in1 \cap in2 = {}
      BY <1>2, <3>1, <3>3
    <3> QED BY <3>2, <3>4 DEF in1, in2
  <2> QED BY <2>1, <2>2
<1> HIDE DEF t1, t2, in1, in2
<1>10. /\ Compacting!SetToSeq(rest) \in Seq(Compacting!Blocks) /\ NoDuplicates(Compacting!SetToSeq(rest))
       /\ Range(Compacting!SetToSeq(rest)) = rest
  <2>1. IsFiniteSet(Compacting!Blocks)
    BY <1>2, FS_Interval DEF Compacting!Blocks
  <2>2. IsFiniteSet(rest)
    BY <2>1, FS_Difference
  <2> DEFINE f == Compacting!SetToSeq(rest)
  <2>3. f = CHOOSE g \in [1..Cardinality(rest) -> rest] : IsInjective(g)
    BY Libraries DEF Compacting!SetToSeq
  <2> HIDE DEF f
  <2>4. f \in [1..Cardinality(rest) -> rest] /\ IsInjective(f)
    <3>1. \E g \in [1..Cardinality(rest) -> rest] : IsInjective(g)
      BY <2>2, ListsOfSet
    <3> QED BY <2>3, <3>1
  <2>5. f \in Seq(rest) /\ NoDuplicates(f) /\ Range(f) = rest
    BY <2>2, <2>4, ListsOfSet
  <2>6. f \in Seq(Compacting!Blocks)
    <3>1. rest \subseteq Compacting!Blocks
      OBVIOUS
    <3> HIDE DEF rest
    <3> QED BY <2>5, <3>1
  <2> QED BY <2>5, <2>6 DEF f
<1> HIDE DEF rest
<1>11. CompTyped
  <2>1. cell \in [Compacting!Blocks -> [0..BlockSize - 1 -> Rows]]
    <3>1. ASSUME NEW b \in Compacting!Blocks, NEW o \in 0..BlockSize - 1 PROVE cell[b][o] \in Rows
      <4>1. b \in Int /\ o \in Int /\ off \in Int /\ BlockSize \in Int
        BY <1>2, <1>6 DEF Compacting!Blocks
      <4> HIDE DEF off
      <4>2. cell[b][o] \in {Compacting!Row(1, (b - 1) * BlockSize + o), Compacting!Row(2, (b - off - 1) * BlockSize + o), Compacting!Empty}
        BY DEF cell, off
      <4>3. \A s \in Nat, p \in Int : Compacting!Row(s, p) \in Rows
        BY DEF Compacting!Row, Rows
      <4>4. \A x, y \in Int : x * BlockSize + y \in Int
        BY <4>1
      <4>5. Compacting!Empty \in Rows
        BY DEF Compacting!Empty, Rows
      <4> QED BY <4>1, <4>2, <4>3, <4>4, <4>5
    <3>2. /\ cell = [b \in Compacting!Blocks |-> cell[b]]
          /\ \A b \in Compacting!Blocks : cell[b] = [o \in 0..BlockSize - 1 |-> cell[b][o]]
      BY DEF cell
    <3> QED BY <3>1, <3>2
  <2>2. \A b \in Compacting!Blocks : ref[b] \in Nat /\ (~shared => ref[b] <= 1)
    <3> SUFFICES ASSUME NEW b \in Compacting!Blocks PROVE ref[b] \in Nat /\ (~shared => ref[b] <= 1)
      OBVIOUS
    <3> DEFINE S == {s \in Compacting!Slots : b \in <<in1, in2>>[s]}
    <3>1. ref[b] = Cardinality(S)
      BY Libraries DEF ref
    <3>2. IsFiniteSet(S) /\ Cardinality(S) \in Nat
      <4>1. IsFiniteSet(1..2)
        <5>1. 1 \in Int /\ 2 \in Int
          OBVIOUS
        <5> QED BY <5>1, FS_Interval
      <4>2. IsFiniteSet(S)
        BY <4>1, FS_Subset, TwoSlots
      <4> QED BY <4>2, FS_CardinalityType
    <3>3. ASSUME ~shared PROVE Cardinality(S) <= 1
      <4>1. S = {} \/ S = {1} \/ S = {2}
        BY <1>9, <3>3, TwoSlots
      <4>2. Cardinality({1}) = 1 /\ Cardinality({2}) = 1
        BY FS_Singleton
      <4>3. Cardinality({}) = 0
        BY FS_EmptySet
      <4> HIDE DEF S
      <4>4. Cardinality(S) = 0 \/ Cardinality(S) = 1
        BY <4>1, <4>2, <4>3
      <4> DEFINE k == Cardinality(S)
      <4>5. k = 0 \/ k = 1
        BY <4>4
      <4> HIDE DEF k
      <4>6. k <= 1
        BY <4>5
      <4> QED BY <4>6 DEF k
    <3> QED BY <3>1, <3>2, <3>3
  <2>3. ref \in [Compacting!Blocks -> Nat]
    <3>1. ref = [b \in Compacting!Blocks |-> ref[b]]
      BY DEF ref
    <3> QED BY <2>2, <3>1
  <2>4. comp.table \in [Compacting!Slots -> Seq(Compacting!Blocks)] /\ comp.lens \in [Compacting!Slots -> Nat]
    BY <1>2, <1>4, <1>6, <1>7, TwoSlots
  <2>5. <<>> \in Seq(Compacting!Blocks)
    BY <1>6, RangeOfList
  <2> QED BY <1>4, <1>10, <2>1, <2>2, <2>3, <2>4, <2>5 DEF CompTyped
<1>12. CompFits
  <2>1. Compacting!BlocksFor(comp.lens[1]) <= Len(comp.table[1]) /\ Compacting!BlocksFor(comp.lens[2]) <= Len(comp.table[2])
    <3>1. comp.lens[1] = n1 /\ comp.lens[2] = n2 /\ comp.table[1] = t1 /\ comp.table[2] = t2
      BY <1>4
    <3>2. Compacting!BlocksFor(n1) = b1 /\ Compacting!BlocksFor(n2) = b2
      BY DEF b1, b2
    <3> QED BY <1>2, <1>6, <1>7, <3>1, <3>2
  <2> QED BY <1>4, <2>1, TwoSlots DEF CompFits
<1>13. CompHeld
  <2>1. comp.table[1] = t1 /\ comp.table[2] = t2 /\ Popped = {}
    BY <1>4 DEF Popped
  <2>2. NoDuplicates(<<>>)
    BY DEF NoDuplicates
  <2>3. Range(comp.free) = rest /\ NoDuplicates(comp.free)
    BY <1>4, <1>10
  <2>4. \A s \in Compacting!Slots : Range(comp.table[s]) \cap (Range(comp.free) \cup Popped) = {}
    <3>1. in1 \cap rest = {} /\ in2 \cap rest = {}
      BY DEF rest
    <3> QED BY <1>8, <2>1, <2>3, <3>1, TwoSlots
  <2>5. ~comp.shared =>
            /\ \A s \in Compacting!Slots : NoDuplicates(comp.table[s])
            /\ Range(comp.table[1]) \cap Range(comp.table[2]) = {}
    BY <1>4, <1>8, <1>9, <2>1, TwoSlots
  <2>6. Compacting!Blocks \ comp.lost = Range(comp.free) \cup Popped \cup Range(comp.table[1])
                             \cup Range(comp.table[2])
    <3>1. Compacting!Blocks = rest \cup in1 \cup in2
      BY <1>8 DEF rest
    <3> QED BY <1>4, <1>8, <2>1, <2>3, <3>1
  <2> QED BY <1>4, <2>1, <2>2, <2>3, <2>4, <2>5, <2>6 DEF CompHeld
<1> QED BY <1>4, <1>5, <1>11, <1>12, <1>13 DEF CompInv, CompGood, CompCall, CompKept

\* A behaviour of a cache that is compacted keeps its invariant.
LEMMA CompactingInvariant == PartsSpec => [](active = "compaction" => CompInv)
<1> DEFINE I == active = "compaction" => CompInv
<1>1. PartsInit => I
  BY CompInitial, CompactionAssumption DEF PartsInit
<1>2. I /\ [PartsNext]_partsVars => I'
  <2> SUFFICES ASSUME active = "compaction" => CompInv, [PartsNext]_partsVars, active' = "compaction"
               PROVE  CompInv'
    OBVIOUS
  <2>1. active = "compaction" /\ CompInv /\ (Compacting!Next \/ UNCHANGED comp)
    BY DEF PartsNext, Bounded, partsVars
  <2>2. Compacting!CompactionConstants /\ \A n \in Budgets : n \in Nat
    BY CompactionAssumption DEF Compacting!CompactionConstants
  <2>3. CASE \E s \in Compacting!Slots : Compacting!Evict(s) \/ Compacting!Grow(s) \/ Compacting!Free(s)
    BY <2>1, <2>2, <2>3, EvictStep, GrowStep, FreeStep
  <2>4. CASE Compacting!PopBlock
    BY <2>1, <2>2, <2>4, PopBlockStep
  <2>5. CASE Compacting!Rewrite
    BY <2>1, <2>2, <2>5, RewriteStep
  <2>6. CASE Compacting!Return
    BY <2>1, <2>2, <2>6, ReturnStep
  <2>7. CASE UNCHANGED comp
    BY <2>1, <2>7, CompUnchanged
  <2> QED BY <2>1, <2>3, <2>4, <2>5, <2>6, <2>7 DEF Compacting!Next, Compacting!Done
<1> QED BY <1>1, <1>2, PTL DEF PartsSpec

\* After a compaction a slot holds the rows of the kept positions, in order
\* and rotated once, in fewer blocks and within the budget; the other slot
\* reads what it read; and as long as nothing is shared each block is free
\* once, in one table once, popped or lost (engine/kv_cache.py).
THEOREM CompactionKeepsTheRows == PartsSpec => []CompactionKeeps
<1>1. (active = "compaction" => CompInv) => CompactionKeeps
  BY CompactionIsKept, CompactionAssumption DEF CompactionKeeps
<1> QED BY <1>1, CompactingInvariant, PTL

-----------------------------------------------------------------------------
(* Attention *)

\* Consecutive positions.
LEMMA SpanFacts ==
    ASSUME NEW a \in Nat, NEW b \in Nat, a <= b
    PROVE  /\ Layering!Span(a, b) \in Seq(Nat) /\ Len(Layering!Span(a, b)) = b - a /\ DOMAIN Layering!Span(a, b) = 1..b - a
           /\ \A i \in 1..b - a : Layering!Span(a, b)[i] = a + i - 1
<1> DEFINE n == b - a
<1>1. n \in Nat /\ n = (IF b > a THEN b - a ELSE 0)
  OBVIOUS
<1> HIDE DEF n
<1>2. Layering!Span(a, b) = [i \in 1..n |-> a + i - 1]
  BY <1>1 DEF Layering!Span
<1>3. \A i \in 1..n : a + i - 1 \in Nat
  BY <1>1
<1>4. [i \in 1..n |-> a + i - 1] \in Seq(Nat)
  BY <1>1, <1>3
<1>5. Len(Layering!Span(a, b)) = n /\ DOMAIN Layering!Span(a, b) = 1..n /\ \A i \in 1..n : Layering!Span(a, b)[i] = a + i - 1
  BY <1>1, <1>2
<1> QED BY <1>2, <1>4, <1>5 DEF n

\* One stretch after another is the stretch of both.
LEMMA SpanConcat ==
    ASSUME NEW a \in Nat, NEW b \in Nat, NEW c \in Nat, a <= b, b <= c
    PROVE  Layering!Span(a, b) \o Layering!Span(b, c) = Layering!Span(a, c)
<1> DEFINE s == Layering!Span(a, b)  t == Layering!Span(b, c)  r == Layering!Span(a, c)
<1>1. s \in Seq(Nat) /\ Len(s) = b - a /\ \A i \in 1..b - a : s[i] = a + i - 1
  BY SpanFacts
<1>2. t \in Seq(Nat) /\ Len(t) = c - b /\ \A i \in 1..c - b : t[i] = b + i - 1
  BY SpanFacts
<1>3. r \in Seq(Nat) /\ Len(r) = c - a /\ \A i \in 1..c - a : r[i] = a + i - 1
  BY SpanFacts
<1> HIDE DEF s, t, r
<1> DEFINE q == s \o t
<1>4. /\ q \in Seq(Nat) /\ Len(q) = Len(s) + Len(t)
      /\ \A i \in 1..Len(s) + Len(t) : q[i] = IF i <= Len(s) THEN s[i] ELSE t[i - Len(s)]
  BY <1>1, <1>2, ConcatProperties
<1> HIDE DEF q
<1>5. Len(q) = c - a
  BY <1>1, <1>2, <1>4
<1>6. ASSUME NEW i \in 1..c - a PROVE q[i] = r[i]
  <2>1. q[i] = IF i <= Len(s) THEN s[i] ELSE t[i - Len(s)]
    BY <1>1, <1>2, <1>4
  <2>2. CASE i <= b - a
    BY <1>1, <1>3, <2>1, <2>2
  <2>3. CASE ~(i <= b - a)
    <3> DEFINE j == i - (b - a)
    <3>1. j \in 1..c - b /\ b + j - 1 = a + i - 1
      BY <2>3
    <3> HIDE DEF j
    <3>2. t[j] = b + j - 1
      BY <1>2, <3>1
    <3>3. q[i] = t[j]
      BY <1>1, <2>1, <2>3 DEF j
    <3> QED BY <1>3, <3>1, <3>2, <3>3
  <2> QED BY <2>2, <2>3
<1>7. q = r
  BY <1>3, <1>4, <1>5, <1>6, SeqEqual
<1> QED BY <1>7 DEF q, r, s, t

\* The last of consecutive positions.
LEMMA SpanLast ==
    ASSUME NEW a \in Nat, NEW b \in Nat, a <= b, NEW k \in Nat
    PROVE  LET first == IF b - a > k THEN b - k ELSE a IN
           first \in Nat /\ first <= b /\ Layering!LastOf(Layering!Span(a, b), k) = Layering!Span(first, b)
<1> DEFINE first == IF b - a > k THEN b - k ELSE a
           q == Layering!Span(a, b)
           m == IF Len(q) > k THEN Len(q) - k + 1 ELSE 1
           r == Layering!Span(first, b)
<1>1. q \in Seq(Nat) /\ Len(q) = b - a /\ \A i \in 1..b - a : q[i] = a + i - 1
  BY SpanFacts
<1>2. first \in Nat /\ first <= b
  OBVIOUS
<1> HIDE DEF q
<1>3. m \in Nat /\ m >= 1 /\ a + m - 1 = first
  BY <1>1
<1>4. Layering!LastOf(q, k) = SubSeq(q, m, Len(q))
  BY DEF Layering!LastOf
<1> HIDE DEF first, m
<1>5. r \in Seq(Nat) /\ Len(r) = b - first /\ \A i \in 1..b - first : r[i] = first + i - 1
  BY <1>2, SpanFacts
<1> HIDE DEF r
<1>6. \A i \in m..Len(q) : q[i] \in Nat
  BY <1>1, <1>3
<1> DEFINE s == SubSeq(q, m, Len(q))
<1>7. m \in Int /\ Len(q) \in Int
  BY <1>1, <1>3
<1>8. /\ s \in Seq(Nat) /\ Len(s) = (IF m <= Len(q) THEN Len(q) - m + 1 ELSE 0)
      /\ \A i \in 1..Len(q) - m + 1 : s[i] = q[m + i - 1]
  BY <1>6, <1>7, SubSeqProperties
<1> HIDE DEF s
<1>9. Len(s) = b - first /\ Len(q) - m + 1 = b - first
  BY <1>1, <1>2, <1>3, <1>8
<1>10. ASSUME NEW i \in 1..b - first PROVE s[i] = first + i - 1
  <2>1. s[i] = q[m + i - 1]
    BY <1>8, <1>9
  <2> DEFINE j == m + i - 1
  <2>2. j \in 1..b - a /\ a + j - 1 = first + i - 1
    BY <1>1, <1>2, <1>3, <1>9
  <2> HIDE DEF j
  <2>3. q[j] = a + j - 1
    BY <1>1, <2>2
  <2> QED BY <2>1, <2>2, <2>3 DEF j
<1>11. s = r
  BY <1>5, <1>8, <1>9, <1>10, SeqEqual
<1>12. Layering!LastOf(q, k) = r
  BY <1>4, <1>11 DEF s
<1> QED BY <1>2, <1>12 DEF q, r, first

-----------------------------------------------------------------------------
(* The invariant *)

\* The fields of the state.
AttShape ==
    att = [model |-> att.model, path |-> att.path, prompt |-> att.prompt, start |-> att.start,
           mode |-> att.mode, layer |-> att.layer, from |-> att.from, to |-> att.to,
           right |-> att.right, off |-> att.off, length |-> att.length, rows |-> att.rows,
           store |-> att.store, acc |-> att.acc, state |-> att.state, saw |-> att.saw]

\* What the sequence and its model are, and that only ModelRunner keeps the
\* length of the caches.
AttTyped ==
    /\ att.model \in Seq(Layering!Kinds) /\ att.path \in {"engine", "runner"}
    /\ Layering!Latent(att.model) => att.path = "runner"
    /\ att.prompt \in 1..MaxLen /\ att.start \in 0..att.prompt - 1
    /\ att.path = "runner" \/ Layering!Recurrent(att.model) \/ Layering!Latent(att.model) => att.start = 0
    /\ att.layer \in 0..Len(att.model) + 1
    /\ att.length \in 0..MaxLen
    /\ att.path = "runner" => att.rows = att.length
    /\ DOMAIN att.store = DOMAIN att.model /\ DOMAIN att.acc = DOMAIN att.model
    /\ DOMAIN att.state = DOMAIN att.model /\ DOMAIN att.saw = DOMAIN att.model

\* Layers that keep K/V for each position and windows cannot be packed or
\* verified.
OnlyFull == \A l \in DOMAIN att.model : att.model[l] = "full"

\* A pass runs from the committed length over positions of which the last
\* may be rejected drafts.
AttPass ==
    att.layer # 0 =>
        /\ att.from = att.length /\ att.to \in att.from + 1..MaxLen
        /\ att.right \in att.from + 1..att.to
        /\ \/ att.mode = "whole" /\ att.from = 0 /\ att.to = att.prompt /\ att.right = att.to
           \/ /\ att.mode = "packed" /\ att.from = 0 /\ att.to = att.prompt /\ att.right = att.to
              /\ att.path = "engine" /\ att.off \in Nat /\ OnlyFull
           \/ /\ att.mode = "chunk" /\ att.path = "engine" /\ att.from < att.prompt
              /\ att.right = att.to
           \/ /\ att.mode = (IF att.path = "engine" THEN "batched" ELSE "simple")
              /\ att.from >= att.prompt /\ att.to = att.from + 1 /\ att.right = att.to
           \/ /\ att.mode = "verify" /\ att.path = "engine" /\ att.from >= att.prompt /\ OnlyFull

\* How far a layer is, a pass that runs included.
Upto(l) == IF l < att.layer THEN att.right ELSE att.length

\* What the model's definition has a layer of a kind see at a position.
Past(kind, p) ==
    {q \in 0..p : /\ kind = "window" => q > p - Window
                  /\ kind = "conv" => q > p - Kernel}

\* What a layer has seen at the positions it has done, and what it keeps for
\* the next ones: K/V, the state of a recurrence, the tail of a convolution;
\* and the keys of the chunks before.
AttKept ==
    \A l \in DOMAIN att.model :
        /\ \A p \in 0..Upto(l) - 1 : att.saw[l][p] = Past(att.model[l], p)
        /\ att.model[l] \in {"full", "window", "latent"} =>
            \A p \in 0..MaxLen - 1 : p < Upto(l) \/ p < att.start => att.store[l][p] = p
        /\ att.model[l] = "linear" => att.state[l] = Layering!Span(0, Upto(l))
        /\ att.model[l] = "conv" => att.state[l] = Layering!LastOf(Layering!Span(0, Upto(l)), Kernel - 1)
        /\ att.acc[l] = IF att.mode = "chunk" /\ l < att.layer THEN Layering!Span(0, att.right)
                        ELSE IF att.length < att.prompt THEN Layering!Span(0, att.length) ELSE <<>>

AttInv == AttShape /\ AttTyped /\ AttPass /\ AttKept

\* The invariant gives the property.
LEMMA AttSees == ASSUME Layering!AttentionConstants, AttInv PROVE Layering!SeesItsPast
<1>1. SUFFICES ASSUME att.layer = 0, NEW l \in DOMAIN att.model, NEW p \in 0..att.length - 1
               PROVE  /\ att.saw[l][p] =
                            {q \in 0..p : CASE att.model[l] = "window" -> q > p - Window
                                            [] att.model[l] = "conv"   -> q > p - Kernel
                                            [] OTHER                   -> TRUE}
                      /\ att.model[l] \in {"full", "window", "latent"} => att.store[l][p] = p
  BY DEF Layering!SeesItsPast
<1>2. l \in Nat /\ l >= 1 /\ att.length \in 0..MaxLen /\ MaxLen \in Nat
  BY DEF AttInv, AttTyped, Layering!AttentionConstants
<1>3. Upto(l) = att.length
  BY <1>1, <1>2 DEF Upto
<1>4. att.saw[l][p] = Past(att.model[l], p)
  BY <1>3 DEF AttInv, AttKept
<1>5. att.model[l] \in {"full", "window", "latent"} => att.store[l][p] = p
  <2>1. p \in 0..MaxLen - 1 /\ p < att.length
    BY <1>2
  <2> QED BY <1>3, <2>1 DEF AttInv, AttKept
<1>6. CASE att.model[l] = "window"
  BY <1>4, <1>5, <1>6 DEF Past
<1>7. CASE att.model[l] = "conv"
  BY <1>4, <1>5, <1>7 DEF Past
<1>8. CASE att.model[l] # "window" /\ att.model[l] # "conv"
  BY <1>4, <1>5, <1>8 DEF Past
<1> QED BY <1>6, <1>7, <1>8

\* It does not depend on anything but the state.
LEMMA AttUnchanged == ASSUME AttInv, UNCHANGED att PROVE AttInv'
<1>1. AttShape'
  BY DEF AttInv, AttShape
<1>2. AttTyped'
  BY DEF AttInv, AttTyped
<1>3. AttPass'
  BY DEF AttInv, AttPass, OnlyFull
<1>4. AttKept'
  BY DEF AttInv, AttKept, Upto
<1> QED BY <1>1, <1>2, <1>3, <1>4 DEF AttInv

\* A sequence starts with what the cache has of its prompt.
LEMMA AttInitial == ASSUME Layering!AttentionConstants, Layering!Init PROVE AttInv
<1>1. PICK served \in Served, n \in Prompts, start \in {0, Chunk} :
        /\ served[2] = "runner" \/ Layering!Recurrent(served[1]) \/ Layering!Latent(served[1]) => start = 0
        /\ start < n
        /\ att = [model |-> served[1], path |-> served[2], prompt |-> n, start |-> start,
                  mode |-> "none", layer |-> 0, from |-> 0, to |-> 0, right |-> 0, off |-> 0,
                  length |-> 0, rows |-> 0,
                  store |-> [l \in DOMAIN served[1] |->
                        [p \in 0..MaxLen - 1 |-> IF p < start THEN p ELSE MaxLen]],
                  acc |-> [l \in DOMAIN served[1] |-> <<>>],
                  state |-> [l \in DOMAIN served[1] |-> <<>>],
                  saw |-> [l \in DOMAIN served[1] |-> [p \in 0..MaxLen - 1 |-> {}]]]
  BY DEF Layering!Init
<1> DEFINE model == served[1]
<1>2. /\ model \in Seq(Layering!Kinds) /\ served[2] \in {"engine", "runner"}
      /\ Layering!Latent(model) => served[2] = "runner"
  BY DEF Layering!AttentionConstants
<1>3. MaxLen \in Nat /\ n \in 1..MaxLen /\ Chunk \in Nat \ {0} /\ Kernel \in Nat \ {0}
  BY DEF Layering!AttentionConstants
<1>4. /\ att.model = model /\ att.path = served[2] /\ att.prompt = n /\ att.start = start
      /\ att.mode = "none" /\ att.layer = 0 /\ att.length = 0 /\ att.rows = 0
      /\ att.store = [l \in DOMAIN model |-> [p \in 0..MaxLen - 1 |-> IF p < start THEN p ELSE MaxLen]]
      /\ att.acc = [l \in DOMAIN model |-> <<>>] /\ att.state = [l \in DOMAIN model |-> <<>>]
      /\ att.saw = [l \in DOMAIN model |-> [p \in 0..MaxLen - 1 |-> {}]]
  BY <1>1
<1>5. AttShape
  BY <1>1 DEF AttShape
<1> HIDE DEF model
<1>6. AttTyped
  <2>1. Len(model) \in Nat /\ start \in 0..n - 1
    BY <1>1, <1>2, <1>3
  <2>2. served[2] = "runner" \/ Layering!Recurrent(model) \/ Layering!Latent(model) => start = 0
    BY <1>1 DEF model
  <2> QED BY <1>2, <1>3, <1>4, <2>1, <2>2 DEF AttTyped
<1>7. AttPass
  BY <1>4 DEF AttPass
<1>8. Layering!Span(0, 0) = <<>>
  BY DEF Layering!Span
<1>9. Layering!LastOf(Layering!Span(0, 0), Kernel - 1) = <<>>
  <2>1. Kernel - 1 \in Nat
    BY <1>3
  <2>2. Layering!LastOf(<<>>, Kernel - 1) = SubSeq(<<>>, 1, 0)
    BY <2>1 DEF Layering!LastOf
  <2>3. SubSeq(<<>>, 1, 0) = <<>>
    BY SubSeqEmpty
  <2> QED BY <1>8, <2>2, <2>3
<1>10. AttKept
  <2> SUFFICES ASSUME NEW l \in DOMAIN att.model
               PROVE  /\ \A p \in 0..Upto(l) - 1 : att.saw[l][p] = Past(att.model[l], p)
                      /\ att.model[l] \in {"full", "window", "latent"} =>
                            \A p \in 0..MaxLen - 1 : p < Upto(l) \/ p < att.start => att.store[l][p] = p
                      /\ att.model[l] = "linear" => att.state[l] = Layering!Span(0, Upto(l))
                      /\ att.model[l] = "conv" => att.state[l] = Layering!LastOf(Layering!Span(0, Upto(l)), Kernel - 1)
                      /\ att.acc[l] = IF att.mode = "chunk" /\ l < att.layer THEN Layering!Span(0, att.right)
                                      ELSE IF att.length < att.prompt THEN Layering!Span(0, att.length) ELSE <<>>
    BY DEF AttKept
  <2>1. Upto(l) = 0
    <3>1. l \in 1..Len(model) /\ Len(model) \in Nat
      BY <1>2, <1>4
    <3> QED BY <1>4, <3>1 DEF Upto
  <2>2. att.state[l] = <<>> /\ att.acc[l] = <<>>
    BY <1>4
  <2>3. \A p \in 0..MaxLen - 1 : p < start => att.store[l][p] = p
    BY <1>4
  <2>4. \A p \in 0..MaxLen - 1 : ~(p < 0)
    BY <1>3
  <2>5. 0..Upto(l) - 1 = {}
    BY <2>1
  <2> QED BY <1>3, <1>4, <1>8, <1>9, <2>1, <2>2, <2>3, <2>4, <2>5
<1> QED BY <1>5, <1>6, <1>7, <1>10 DEF AttInv

-----------------------------------------------------------------------------
(* Forward passes *)

\* A pass that begins.
Begin(mode, from, to, right, off) ==
    [att EXCEPT !.mode = mode, !.layer = 1, !.from = from, !.to = to, !.right = right, !.off = off]

\* A pass that begins leaves the sequence and its caches as they are.
LEMMA BeginPass ==
    ASSUME AttInv, att.layer = 0, NEW mode, NEW from, NEW to, NEW right, NEW off,
           att' = Begin(mode, from, to, right, off)
    PROVE  AttShape' /\ AttTyped' /\ AttKept' /\ (AttPass' => AttInv')
<1>1. /\ att'.model = att.model /\ att'.path = att.path /\ att'.prompt = att.prompt
      /\ att'.start = att.start /\ att'.length = att.length /\ att'.rows = att.rows
      /\ att'.store = att.store /\ att'.acc = att.acc /\ att'.state = att.state
      /\ att'.saw = att.saw /\ att'.layer = 1 /\ att'.mode = mode /\ att'.right = right
  BY DEF AttInv, AttShape, Begin
<1>2. AttShape'
  BY DEF AttInv, AttShape, Begin
<1>3. AttTyped'
  <2>1. Len(att.model) \in Nat
    BY DEF AttInv, AttTyped
  <2>2. 1 \in 0..Len(att.model) + 1
    BY <2>1
  <2>3. AttTyped
    BY DEF AttInv
  <2> QED BY <1>1, <2>2, <2>3 DEF AttTyped
<1>4. AttKept'
  <2>1. \A l \in DOMAIN att.model : Upto(l)' = Upto(l) /\ ~(l < att.layer) /\ ~(l < att'.layer)
    <3>1. DOMAIN att.model = 1..Len(att.model) /\ Len(att.model) \in Nat
      BY DEF AttInv, AttTyped
    <3> SUFFICES ASSUME NEW l \in DOMAIN att.model
                 PROVE  Upto(l)' = Upto(l) /\ ~(l < att.layer) /\ ~(l < att'.layer)
      OBVIOUS
    <3>2. ~(l < 0) /\ ~(l < 1)
      BY <3>1
    <3> QED BY <1>1, <3>2 DEF Upto
  <2>2. AttKept
    BY DEF AttInv
  <2> QED BY <1>1, <2>1, <2>2 DEF AttKept
<1> QED BY <1>2, <1>3, <1>4 DEF AttInv

\* Forward, of which off is what it was.
LEMMA ForwardIs ==
    ASSUME AttInv, NEW mode, NEW from, NEW to
    PROVE  Layering!Forward(mode, from, to) = Begin(mode, from, to, to, att.off)
<1>1. AttShape
  BY DEF AttInv
<1> QED BY <1>1 DEF AttShape, Layering!Forward, Begin

\* A model that has neither windows nor latent or recurrent layers.
LEMMA NothingElse ==
    ASSUME AttInv, ~Layering!Recurrent(att.model), ~Layering!Latent(att.model),
           "window" \notin {att.model[l] : l \in DOMAIN att.model}
    PROVE  OnlyFull
BY DEF AttInv, AttTyped, OnlyFull, Layering!Recurrent, Layering!Latent, Layering!Kinds

\* The next pass keeps the invariant.
LEMMA StartStep == ASSUME Layering!AttentionConstants, AttInv, Layering!Start PROVE AttInv'
<1>1. AttTyped /\ att.layer = 0
  BY DEF AttInv, Layering!Start
<1>2. MaxLen \in Nat /\ att.prompt \in 1..MaxLen /\ att.length \in 0..MaxLen /\ Chunk \in Nat \ {0}
      /\ Drafts \in Nat
  BY <1>1 DEF AttTyped, Layering!AttentionConstants
<1>3. CASE Layering!Whole
  <2>1. att' = Begin("whole", 0, att.prompt, att.prompt, att.off)
    BY <1>3, ForwardIs DEF Layering!Whole
  <2>2. att.length = 0
    BY <1>3 DEF Layering!Whole
  <2>3. /\ att'.mode = "whole" /\ att'.from = 0 /\ att'.to = att.prompt /\ att'.right = att.prompt
        /\ att'.length = 0 /\ att'.prompt = att.prompt
    BY <2>1, <2>2 DEF AttInv, AttShape, Begin
  <2>4. AttPass'
    BY <1>2, <2>3 DEF AttPass
  <2> QED BY <1>1, <2>1, <2>4, BeginPass
<1>4. CASE Layering!Packed
  <2>1. PICK off \in {0, 2} : att' = [Layering!Forward("packed", 0, att.prompt) EXCEPT !.off = off]
    BY <1>4 DEF Layering!Packed
  <2>2. att' = Begin("packed", 0, att.prompt, att.prompt, off)
    BY <2>1 DEF Layering!Forward, Begin, AttInv, AttShape
  <2>3. att.length = 0 /\ att.path = "engine" /\ OnlyFull
    BY <1>4, NothingElse DEF Layering!Packed
  <2>4. /\ att'.mode = "packed" /\ att'.from = 0 /\ att'.to = att.prompt /\ att'.right = att.prompt
        /\ att'.length = 0 /\ att'.prompt = att.prompt /\ att'.path = "engine" /\ att'.off = off
        /\ att'.model = att.model
    BY <2>2, <2>3 DEF AttInv, AttShape, Begin
  <2>5. OnlyFull'
    BY <2>3, <2>4 DEF OnlyFull
  <2>6. AttPass'
    BY <1>2, <2>4, <2>5 DEF AttPass
  <2> QED BY <1>1, <2>2, <2>6, BeginPass
<1>5. CASE Layering!Chunked
  <2> DEFINE end == IF att.length + Chunk < att.prompt THEN att.length + Chunk ELSE att.prompt
  <2>2. att.length < att.prompt /\ att.path = "engine" /\ att' = Layering!Forward("chunk", att.length, end)
    BY <1>5 DEF Layering!Chunked
  <2>3. end \in att.length + 1..MaxLen
    BY <1>2, <2>2
  <2> HIDE DEF end
  <2>1. att' = Begin("chunk", att.length, end, end, att.off)
    BY <2>2, ForwardIs
  <2>4. /\ att'.mode = "chunk" /\ att'.from = att.length /\ att'.to = end /\ att'.right = end
        /\ att'.length = att.length /\ att'.prompt = att.prompt /\ att'.path = "engine"
    BY <2>1, <2>2 DEF AttInv, AttShape, Begin
  <2>5. AttPass'
    BY <1>2, <2>2, <2>3, <2>4 DEF AttPass
  <2> QED BY <1>1, <2>1, <2>5, BeginPass
<1>6. CASE Layering!DecodeOne
  <2> DEFINE mode == IF att.path = "engine" THEN "batched" ELSE "simple"
  <2>2. /\ att.length >= att.prompt /\ att.length < MaxLen
        /\ att' = Layering!Forward(mode, att.length, att.length + 1)
    BY <1>6 DEF Layering!DecodeOne
  <2> HIDE DEF mode
  <2>1. att' = Begin(mode, att.length, att.length + 1, att.length + 1, att.off)
    BY <2>2, ForwardIs
  <2>4. /\ att'.mode = mode /\ att'.from = att.length /\ att'.to = att.length + 1
        /\ att'.right = att.length + 1
        /\ att'.length = att.length /\ att'.prompt = att.prompt /\ att'.path = att.path
    BY <2>1 DEF AttInv, AttShape, Begin
  <2>5. AttPass'
    BY <1>2, <2>2, <2>4 DEF AttPass, mode
  <2> QED BY <1>1, <2>1, <2>5, BeginPass
<1>7. CASE Layering!Verify
  <2> DEFINE end == att.length + 1 + Drafts
  <2>1. PICK ok \in 0..Drafts :
            att' = [Layering!Forward("verify", att.length, end) EXCEPT !.right = att.length + 1 + ok]
    BY <1>7 DEF Layering!Verify
  <2> DEFINE kept == att.length + 1 + ok
  <2>2. att' = Begin("verify", att.length, end, kept, att.off)
    BY <2>1 DEF Layering!Forward, Begin, AttInv, AttShape
  <2>3. /\ att.length >= att.prompt /\ att.length + Drafts < MaxLen /\ att.path = "engine"
        /\ OnlyFull
    BY <1>7, NothingElse DEF Layering!Verify
  <2>4. end \in att.length + 1..MaxLen /\ kept \in att.length + 1..end
    BY <1>2, <2>3
  <2> HIDE DEF end, kept
  <2>5. /\ att'.mode = "verify" /\ att'.from = att.length /\ att'.to = end /\ att'.right = kept
        /\ att'.length = att.length /\ att'.prompt = att.prompt /\ att'.path = "engine"
        /\ att'.model = att.model
    BY <2>2, <2>3 DEF AttInv, AttShape, Begin
  <2>6. OnlyFull'
    BY <2>3, <2>5 DEF OnlyFull
  <2>7. AttPass'
    BY <1>2, <2>3, <2>4, <2>5, <2>6 DEF AttPass
  <2> QED BY <1>1, <2>2, <2>7, BeginPass
<1> QED BY <1>3, <1>4, <1>5, <1>6, <1>7 DEF Layering!Start

\* Every layer has done the pass: what is kept of it is committed.
LEMMA AdvanceStep == ASSUME Layering!AttentionConstants, AttInv, Layering!Advance PROVE AttInv'
<1>1. AttShape /\ AttTyped /\ AttPass /\ AttKept
  BY DEF AttInv
<1>2. /\ att.layer = Len(att.model) + 1
      /\ att' = [att EXCEPT !.layer = 0, !.mode = "none", !.length = att.right,
                          !.rows = IF att.path = "runner" THEN att.right ELSE att.rows,
                          !.acc = IF att.right >= att.prompt
                                  THEN [l \in DOMAIN att.model |-> <<>>] ELSE att.acc]
  BY DEF Layering!Advance
<1>3. /\ att'.layer = 0 /\ att'.mode = "none" /\ att'.length = att.right
      /\ att'.rows = (IF att.path = "runner" THEN att.right ELSE att.rows)
      /\ att'.acc = (IF att.right >= att.prompt THEN [l \in DOMAIN att.model |-> <<>>] ELSE att.acc)
      /\ att'.model = att.model /\ att'.path = att.path /\ att'.prompt = att.prompt
      /\ att'.start = att.start /\ att'.store = att.store /\ att'.state = att.state
      /\ att'.saw = att.saw /\ att'.right = att.right
  BY <1>1, <1>2 DEF AttShape
<1>4. AttShape'
  BY <1>1, <1>2 DEF AttShape
<1>5. /\ DOMAIN att.model = 1..Len(att.model) /\ Len(att.model) \in Nat /\ att.layer # 0
      /\ att.length \in 0..MaxLen /\ MaxLen \in Nat /\ att.prompt \in 1..MaxLen
  BY <1>1, <1>2 DEF AttTyped, Layering!AttentionConstants
<1>6. att.right \in att.length + 1..MaxLen
  BY <1>1, <1>5 DEF AttPass
<1>7. AttTyped'
  <2>1. att.right \in 0..MaxLen /\ 0 \in 0..Len(att.model) + 1
    BY <1>5, <1>6
  <2>2. DOMAIN att'.acc = DOMAIN att.model
    BY <1>1, <1>3 DEF AttTyped
  <2> QED BY <1>1, <1>3, <2>1, <2>2 DEF AttTyped
<1>8. AttPass'
  BY <1>3 DEF AttPass
<1>9. \A l \in DOMAIN att.model : Upto(l)' = att.right /\ Upto(l) = att.right
  <2> SUFFICES ASSUME NEW l \in DOMAIN att.model PROVE Upto(l)' = att.right /\ Upto(l) = att.right
    OBVIOUS
  <2>1. l < att.layer /\ ~(l < 0)
    BY <1>2, <1>5
  <2> QED BY <1>3, <2>1 DEF Upto
<1>10. \A l \in DOMAIN att.model : att'.acc[l] =
            IF att.right < att.prompt THEN Layering!Span(0, att.right) ELSE <<>>
  <2> SUFFICES ASSUME NEW l \in DOMAIN att.model
               PROVE  att'.acc[l] = IF att.right < att.prompt THEN Layering!Span(0, att.right) ELSE <<>>
    OBVIOUS
  <2>1. CASE att.right >= att.prompt
    BY <1>3, <1>5, <1>6, <2>1
  <2>2. CASE ~(att.right >= att.prompt)
    <3>1. att.right < att.prompt
      BY <1>5, <1>6, <2>2
    <3>2. att.mode = "chunk"
      BY <1>1, <1>5, <1>6, <3>1 DEF AttPass
    <3>3. l < att.layer
      BY <1>2, <1>5
    <3>4. att'.acc[l] = att.acc[l]
      BY <1>3, <2>2
    <3> QED BY <1>1, <3>1, <3>2, <3>3, <3>4 DEF AttKept
  <2> QED BY <2>1, <2>2
<1>11. AttKept'
  <2> SUFFICES ASSUME NEW l \in DOMAIN att.model
               PROVE  /\ \A p \in 0..att.right - 1 : att.saw[l][p] = Past(att.model[l], p)
                      /\ att.model[l] \in {"full", "window", "latent"} =>
                            \A p \in 0..MaxLen - 1 : p < att.right \/ p < att.start => att.store[l][p] = p
                      /\ att.model[l] = "linear" => att.state[l] = Layering!Span(0, att.right)
                      /\ att.model[l] = "conv" => att.state[l] = Layering!LastOf(Layering!Span(0, att.right), Kernel - 1)
                      /\ att'.acc[l] = IF att.right < att.prompt THEN Layering!Span(0, att.right) ELSE <<>>
    BY <1>3, <1>9 DEF AttKept
  <2>1. Upto(l) = att.right
    BY <1>9
  <2> QED BY <1>1, <1>10, <2>1 DEF AttKept
<1> QED BY <1>4, <1>7, <1>8, <1>11 DEF AttInv

-----------------------------------------------------------------------------
(* One layer *)

\* The keys of a causal pass over consecutive positions.
LEMMA CausalSees ==
    ASSUME Layering!AttentionConstants, NEW n \in Nat, NEW p \in 0..n - 1, NEW window \in BOOLEAN
    PROVE  Layering!Causal(Layering!Span(0, n), n - 1 - p, window) = {q \in 0..p : window => q > p - Window}
<1> DEFINE keys == Layering!Span(0, n)
<1>1. Len(keys) = n /\ \A i \in 1..n : keys[i] = i - 1
  BY SpanFacts
<1>2. Window \in Nat
  BY DEF Layering!AttentionConstants
<1> HIDE DEF keys
<1>3. Len(keys) - (n - 1 - p) = p + 1
  BY <1>1
<1> DEFINE I == {i \in 1..p + 1 : window => i > (p + 1) - Window}
<1>4. Layering!Causal(keys, n - 1 - p, window) = {keys[i] : i \in I}
  BY <1>3 DEF Layering!Causal
<1>5. \A i \in I : keys[i] = i - 1 /\ i - 1 \in 0..p /\ (window => i - 1 > p - Window)
  BY <1>1, <1>2
<1>6. ASSUME NEW q \in 0..p, window => q > p - Window PROVE q + 1 \in I /\ keys[q + 1] = q
  <2>1. q + 1 \in I
    BY <1>2, <1>6
  <2> QED BY <1>5, <2>1
<1> HIDE DEF I
<1>7. {keys[i] : i \in I} = {q \in 0..p : window => q > p - Window}
  BY <1>5, <1>6
<1> QED BY <1>4, <1>7 DEF keys

\* The rows of a cache whose K/V are its own.
LEMMA DenseSees ==
    ASSUME Layering!AttentionConstants, NEW p \in Nat, NEW store, NEW window \in BOOLEAN,
           \A q \in 0..p : store[q] = q
    PROVE  Layering!ReadDense(store, p + 1, window) = {q \in 0..p : window => q > p - Window}
<1>1. Window \in Nat /\ (p + 1) - 1 = p
  BY DEF Layering!AttentionConstants
<1>2. \A q \in 0..p : (q >= (p + 1) - Window) <=> (q > p - Window)
  BY <1>1
<1>3. Layering!ReadDense(store, p + 1, window) = {store[q] : q \in {q \in 0..p : window => q >= (p + 1) - Window}}
  BY <1>1 DEF Layering!ReadDense
<1> DEFINE Q == {q \in 0..p : window => q > p - Window}
<1>4. {q \in 0..p : window => q >= (p + 1) - Window} = Q
  BY <1>2
<1>5. \A q \in Q : store[q] = q
  OBVIOUS
<1> HIDE DEF Q
<1>6. {store[q] : q \in Q} = Q
  BY <1>5
<1> QED BY <1>3, <1>4, <1>6 DEF Q

\* Where a pass over a layer stands.
LEMMA InPass ==
    ASSUME Layering!AttentionConstants, AttInv, att.layer \in DOMAIN att.model
    PROVE  /\ att.from \in Nat /\ att.from = att.length /\ MaxLen \in Nat
           /\ att.right \in att.from + 1..att.to /\ att.to \in att.from + 1..MaxLen
           /\ att.layer # 0 /\ Layering!Kind \in Layering!Kinds /\ Upto(att.layer) = att.from
           /\ Layering!Kind = "latent" => att.path = "runner"
           /\ Layering!Kind \in {"latent", "linear", "conv"} => att.start = 0
           /\ att.mode \in {"packed", "verify"} => Layering!Kind = "full"
           /\ att.mode # "verify" => att.right = att.to
<1>1. AttTyped /\ AttPass
  BY DEF AttInv
<1>2. att.layer \in 1..Len(att.model) /\ Len(att.model) \in Nat
  BY <1>1 DEF AttTyped
<1>3. att.layer # 0 /\ ~(att.layer < att.layer)
  BY <1>2
<1>4. MaxLen \in Nat /\ att.length \in 0..MaxLen
  BY <1>1 DEF AttTyped, Layering!AttentionConstants
<1>5. Layering!Kind \in Layering!Kinds
  BY <1>1 DEF AttTyped, Layering!Kind
<1>6. Layering!Kind = "latent" => att.path = "runner" /\ att.start = 0
  BY <1>1 DEF AttTyped, Layering!Kind, Layering!Latent
<1>7. Layering!Kind \in {"linear", "conv"} => att.start = 0
  BY <1>1 DEF AttTyped, Layering!Kind, Layering!Recurrent
<1>8. Upto(att.layer) = att.from
  BY <1>1, <1>3 DEF Upto, AttPass
<1>9. att.mode \in {"packed", "verify"} => OnlyFull
  BY <1>1, <1>3 DEF AttPass
<1>10. att.mode # "verify" => att.right = att.to
  BY <1>1, <1>3 DEF AttPass
<1>11. att.from = att.length /\ att.right \in att.from + 1..att.to /\ att.to \in att.from + 1..MaxLen
  BY <1>1, <1>3 DEF AttPass
<1> QED BY <1>3, <1>4, <1>5, <1>6, <1>7, <1>8, <1>9, <1>10, <1>11 DEF OnlyFull, Layering!Kind

\* A layer's write, of a K/V cache that has the committed rows.
LEMMA WrittenIs ==
    ASSUME Layering!AttentionConstants, AttInv, att.layer \in DOMAIN att.model, NEW old,
           \A p \in 0..MaxLen - 1 : p < att.from \/ p < att.start => old[p] = p,
           NEW p \in 0..MaxLen - 1, p < att.right \/ p < att.start
    PROVE  Layering!Written(old)[p] = p
<1>1. Layering!Written(old)[p] = IF p \in att.from..att.to - 1 /\ (p >= att.start \/ att.mode = "packed")
                        THEN Layering!Token(p) ELSE old[p]
  BY DEF Layering!Written
<1>2. /\ att.from \in Nat /\ MaxLen \in Nat /\ att.right \in att.from + 1..att.to
      /\ att.to \in att.from + 1..MaxLen
  BY InPass
<1>3. att.start \in Nat /\ att.prompt \in Nat /\ att.start < att.prompt
  BY <1>2 DEF AttInv, AttTyped
<1>4. att.mode = "packed" => att.right = att.to /\ att.to = att.prompt
  BY InPass DEF AttInv, AttPass
<1>5. CASE p \in att.from..att.to - 1 /\ (p >= att.start \/ att.mode = "packed")
  <2>1. p < att.right
    BY <1>2, <1>3, <1>4, <1>5
  <2> QED BY <1>1, <1>5, <2>1 DEF Layering!Token
<1>6. CASE ~(p \in att.from..att.to - 1 /\ (p >= att.start \/ att.mode = "packed"))
  <2>1. p < att.from \/ p < att.start
    BY <1>2, <1>3, <1>6
  <2> QED BY <1>1, <1>6, <2>1
<1> QED BY <1>5, <1>6

\* Where MLALatentCache writes is where the sequence is.
LEMMA LatentWrittenIs ==
    ASSUME Layering!AttentionConstants, AttInv, att.layer \in DOMAIN att.model, Layering!Kind = "latent", NEW old,
           \A p \in 0..MaxLen - 1 : p < att.from => old[p] = p,
           NEW p \in 0..MaxLen - 1, p < att.right
    PROVE  Layering!LatentWritten(old)[p] = p
<1>1. /\ att.from \in Nat /\ MaxLen \in Nat /\ att.right \in att.from + 1..att.to
      /\ att.to \in att.from + 1..MaxLen /\ att.from = att.length /\ att.path = "runner"
  BY InPass
<1> DEFINE first == IF att.mode \in {"batched", "simple"} THEN att.rows ELSE 0
<1>2. first = att.from
  <2>1. att.rows = att.length
    BY <1>1 DEF AttInv, AttTyped
  <2>2. att.mode \in {"batched", "simple"} \/ att.from = 0
    BY <1>1, InPass DEF AttInv, AttPass
  <2> QED BY <1>1, <2>1, <2>2
<1>3. Layering!LatentWritten(old)[p] = IF p - first + 1 \in DOMAIN Layering!Inputs THEN Layering!Inputs[p - first + 1] ELSE old[p]
  BY DEF Layering!LatentWritten
<1> HIDE DEF first
<1>4. /\ DOMAIN Layering!Inputs = 1..att.to - att.from
      /\ \A i \in 1..att.to - att.from : Layering!Inputs[i] = att.from + i - 1
  <2>1. att.to \in Nat /\ att.from <= att.to
    BY <1>1
  <2> QED BY <1>1, <2>1, SpanFacts DEF Layering!Inputs
<1>5. CASE p < att.from
  <2>1. ~(p - att.from + 1 \in 1..att.to - att.from)
    BY <1>1, <1>5
  <2> QED BY <1>2, <1>3, <1>4, <1>5, <2>1
<1>6. CASE ~(p < att.from)
  <2> DEFINE i == p - att.from + 1
  <2>1. i \in 1..att.to - att.from /\ att.from + i - 1 = p
    BY <1>1, <1>6
  <2> HIDE DEF i
  <2>2. Layering!Inputs[i] = p
    BY <1>4, <2>1
  <2> QED BY <1>2, <1>3, <1>4, <2>1, <2>2 DEF i
<1> QED BY <1>5, <1>6

\* What full and sliding-window attention computes a position from, once the
\* layer has written.
LEMMA GqaIs ==
    ASSUME Layering!AttentionConstants, AttInv, att.layer \in DOMAIN att.model, Layering!Kind \in {"full", "window"},
           NEW store, \A p \in 0..MaxLen - 1 : p < att.right => store[p] = p,
           NEW acc, att.mode = "chunk" => acc = Layering!Span(0, att.from),
           NEW p \in att.from..att.right - 1
    PROVE  Layering!GqaSees(p, store, acc) = Past(Layering!Kind, p)
<1>1. /\ att.from \in Nat /\ MaxLen \in Nat /\ att.right \in att.from + 1..att.to
      /\ att.to \in att.from + 1..MaxLen /\ att.from = att.length /\ att.layer # 0
      /\ att.mode \in {"packed", "verify"} => Layering!Kind = "full"
  BY InPass
<1> DEFINE window == Layering!Kind = "window"
<1>2. window \in BOOLEAN
  OBVIOUS
<1>3. Past(Layering!Kind, p) = {q \in 0..p : window => q > p - Window}
  BY DEF Past
<1>4. \A q \in 0..p : store[q] = q
  <2> SUFFICES ASSUME NEW q \in 0..p PROVE store[q] = q
    OBVIOUS
  <2>1. q \in 0..MaxLen - 1 /\ q < att.right
    BY <1>1
  <2> QED BY <2>1
<1>5. p \in Nat /\ p \in 0..att.to - 1 /\ att.to \in Nat /\ att.from <= att.to
  BY <1>1
<1>6. Layering!GqaSees(p, store, acc) =
        CASE att.mode = "whole"   -> Layering!Causal(Layering!Inputs, att.to - 1 - p, window)
          [] att.mode = "chunk"   -> Layering!Causal(acc \o Layering!Inputs, att.to - 1 - p, window)
          [] att.mode = "packed"  -> Layering!Segment(p)
          [] att.mode = "batched" -> Layering!ReadDense(store, att.from + 1, window)
          [] att.mode = "simple"  -> Layering!ReadDense(store, att.rows + 1, window)
          [] att.mode = "verify"  ->
                Layering!ReadDense(store, att.from, FALSE) \cup {Layering!Token(q) : q \in att.from..p}
  BY DEF Layering!GqaSees
<1> HIDE DEF window
<1>7. Layering!ReadDense(store, p + 1, window) = Past(Layering!Kind, p)
  <2>1. Layering!ReadDense(store, p + 1, window) = {q \in 0..p : window => q > p - Window}
    BY <1>2, <1>4, <1>5, DenseSees
  <2> QED BY <1>3, <2>1
<1>8. Layering!Causal(Layering!Span(0, att.to), att.to - 1 - p, window) = Past(Layering!Kind, p)
  <2>1. Layering!Causal(Layering!Span(0, att.to), att.to - 1 - p, window) = {q \in 0..p : window => q > p - Window}
    BY <1>2, <1>5, CausalSees
  <2> QED BY <1>3, <2>1
<1>9. CASE att.mode = "whole"
  <2>1. att.from = 0
    BY <1>1, <1>9 DEF AttInv, AttPass
  <2> QED BY <1>6, <1>8, <1>9, <2>1 DEF Layering!Inputs
<1>10. CASE att.mode = "chunk"
  <2>1. 0 \in Nat /\ 0 <= att.from
    BY <1>1
  <2>2. Layering!Span(0, att.from) \o Layering!Span(att.from, att.to) = Layering!Span(0, att.to)
    BY <1>1, <1>5, <2>1, SpanConcat
  <2>3. acc \o Layering!Inputs = Layering!Span(0, att.to)
    BY <1>10, <2>2 DEF Layering!Inputs
  <2> QED BY <1>6, <1>8, <1>10, <2>3
<1>11. CASE att.mode = "packed"
  <2>1. att.from = 0 /\ att.to = att.prompt /\ att.off \in Nat /\ Layering!Kind = "full"
    BY <1>1, <1>11 DEF AttInv, AttPass
  <2> DEFINE s == [i \in 1..att.off |-> -1]  t == Layering!Span(0, att.prompt)  packed == s \o t
  <2>2. s \in Seq(Int) /\ Len(s) = att.off
    BY <2>1
  <2>3. t \in Seq(Int) /\ Len(t) = att.prompt /\ \A i \in 1..att.prompt : t[i] = i - 1
    <3>1. att.prompt \in Nat /\ 0 <= att.prompt /\ 0 \in Nat
      BY <1>5, <2>1
    <3>2. t \in Seq(Nat) /\ Len(t) = att.prompt - 0 /\ \A i \in 1..att.prompt - 0 : t[i] = 0 + i - 1
      BY <3>1, SpanFacts
    <3> HIDE DEF t
    <3> QED BY <3>1, <3>2
  <2> HIDE DEF s, t
  <2>4. \A i \in 1..Len(s) + Len(t) : packed[i] = IF i <= Len(s) THEN s[i] ELSE t[i - Len(s)]
    BY <2>2, <2>3, ConcatProperties
  <2> HIDE DEF packed
  <2> DEFINE I == att.off + 1..att.off + p + 1
  <2>5. \A i \in I : i - (att.off + 1) \in 0..p /\ packed[i] = i - (att.off + 1)
    <3> SUFFICES ASSUME NEW i \in I PROVE i - (att.off + 1) \in 0..p /\ packed[i] = i - (att.off + 1)
      OBVIOUS
    <3> DEFINE j == i - att.off
    <3>1. j \in 1..att.prompt /\ j - 1 \in 0..p /\ i - (att.off + 1) = j - 1
      BY <1>5, <2>1
    <3>2. i \in 1..Len(s) + Len(t) /\ ~(i <= Len(s))
      BY <1>5, <2>1, <2>2, <2>3
    <3>3. packed[i] = t[j]
      BY <2>2, <2>4, <3>2
    <3> HIDE DEF j
    <3>4. t[j] = j - 1
      BY <2>3, <3>1
    <3> QED BY <3>1, <3>3, <3>4
  <2>6. ASSUME NEW q \in 0..p PROVE \E i \in I : i - (att.off + 1) = q
    <3> DEFINE i == att.off + 1 + q
    <3>1. i \in I /\ i - (att.off + 1) = q
      BY <1>5, <2>1
    <3> HIDE DEF i, I
    <3> QED BY <3>1
  <2>7. Layering!Segment(p) = {packed[i] : i \in I}
    BY DEF Layering!Segment, packed, s, t
  <2> HIDE DEF I
  <2>8. {packed[i] : i \in I} = 0..p
    <3>1. ASSUME NEW q \in 0..p PROVE \E i \in I : packed[i] = q
      BY <2>5, <2>6
    <3> QED BY <2>5, <3>1
  <2>9. Past(Layering!Kind, p) = 0..p
    BY <2>1 DEF Past
  <2> QED BY <1>6, <1>11, <2>7, <2>8, <2>9
<1>12. CASE att.mode \in {"batched", "simple"}
  <2>1. att.right = att.from + 1 /\ (att.mode = "simple" => att.path = "runner")
    BY <1>1, <1>12 DEF AttInv, AttPass, AttTyped
  <2>2. p = att.from
    BY <1>1, <2>1
  <2>3. att.mode = "simple" => att.rows = att.from
    BY <1>1, <2>1 DEF AttInv, AttTyped
  <2>4. CASE att.mode = "batched"
    BY <1>6, <1>7, <2>2, <2>4
  <2>5. CASE att.mode = "simple"
    BY <1>6, <1>7, <2>2, <2>3, <2>5
  <2> QED BY <1>12, <2>4, <2>5
<1>13. CASE att.mode = "verify"
  <2>1. Layering!Kind = "full"
    BY <1>1, <1>13
  <2>2. Past(Layering!Kind, p) = 0..p
    BY <2>1 DEF Past
  <2>3. Layering!ReadDense(store, att.from, FALSE) = 0..att.from - 1
    <3> DEFINE Q == 0..att.from - 1
    <3>1. Layering!ReadDense(store, att.from, FALSE) = {store[q] : q \in Q}
      BY DEF Layering!ReadDense
    <3>2. \A q \in Q : store[q] = q
      BY <1>1, <1>4
    <3> HIDE DEF Q
    <3> QED BY <3>1, <3>2 DEF Q
  <2>4. {Layering!Token(q) : q \in att.from..p} = att.from..p
    <3>1. \A q \in att.from..p : Layering!Token(q) = q
      BY <1>1 DEF Layering!Token
    <3> QED BY <3>1
  <2>5. (0..att.from - 1) \cup (att.from..p) = 0..p
    BY <1>1
  <2> QED BY <1>6, <1>13, <2>2, <2>3, <2>4, <2>5
<1>14. att.mode \in {"whole", "packed", "chunk", "batched", "simple", "verify"}
  BY <1>1 DEF AttInv, AttPass
<1> QED BY <1>9, <1>10, <1>11, <1>12, <1>13, <1>14

\* What latent attention computes a position from.
LEMMA MlaIs ==
    ASSUME Layering!AttentionConstants, AttInv, att.layer \in DOMAIN att.model, Layering!Kind = "latent",
           NEW store, \A p \in 0..MaxLen - 1 : p < att.right => store[p] = p,
           NEW p \in att.from..att.right - 1
    PROVE  Layering!MlaSees(p, store) = Past(Layering!Kind, p)
<1>1. /\ att.from \in Nat /\ MaxLen \in Nat /\ att.right \in att.from + 1..att.to
      /\ att.to \in att.from + 1..MaxLen /\ att.from = att.length /\ att.layer # 0
      /\ att.path = "runner"
  BY InPass
<1>2. Past(Layering!Kind, p) = {q \in 0..p : FALSE => q > p - Window} /\ FALSE \in BOOLEAN
  BY DEF Past
<1>3. p \in Nat /\ p \in 0..att.to - 1 /\ att.to \in Nat
  BY <1>1
<1>4. \A q \in 0..p : store[q] = q
  <2> SUFFICES ASSUME NEW q \in 0..p PROVE store[q] = q
    OBVIOUS
  <2>1. q \in 0..MaxLen - 1 /\ q < att.right
    BY <1>1
  <2> QED BY <2>1
<1>5. CASE att.mode = "simple"
  <2>1. att.right = att.from + 1
    BY <1>1, <1>5 DEF AttInv, AttPass
  <2>2. p = att.from /\ att.rows = att.from
    BY <1>1, <2>1 DEF AttInv, AttTyped
  <2>3. Layering!ReadDense(store, p + 1, FALSE) = {q \in 0..p : FALSE => q > p - Window}
    BY <1>2, <1>3, <1>4, DenseSees
  <2> QED BY <1>2, <1>5, <2>2, <2>3 DEF Layering!MlaSees
<1>6. CASE att.mode = "whole"
  <2>1. att.from = 0
    BY <1>1, <1>6 DEF AttInv, AttPass
  <2>2. Layering!Causal(Layering!Span(0, att.to), att.to - 1 - p, FALSE) = {q \in 0..p : FALSE => q > p - Window}
    BY <1>2, <1>3, CausalSees
  <2> QED BY <1>2, <1>6, <2>1, <2>2 DEF Layering!MlaSees, Layering!Inputs
<1>7. att.mode \in {"whole", "simple"}
  BY <1>1 DEF AttInv, AttPass
<1> QED BY <1>5, <1>6, <1>7

\* The last k of a list of which only the last k - 1 were kept, and one more.
LEMMA TailOfTail ==
    ASSUME NEW a \in Nat, NEW b \in Nat, a < b, NEW k \in Nat \ {0}
    PROVE  /\ Layering!LastOf(Layering!LastOf(Layering!Span(0, a), k - 1) \o Layering!Span(a, b), k) = Layering!LastOf(Layering!Span(0, b), k)
           /\ Layering!LastOf(Layering!LastOf(Layering!Span(0, a), k - 1) \o Layering!Span(a, b), k - 1) = Layering!LastOf(Layering!Span(0, b), k - 1)
<1> DEFINE first == IF a - 0 > k - 1 THEN a - (k - 1) ELSE 0
<1>1. 0 \in Nat /\ 0 <= a /\ 0 <= b /\ k \in Nat /\ k - 1 \in Nat /\ a <= b
  OBVIOUS
<1>2. Layering!LastOf(Layering!Span(0, a), k - 1) = Layering!Span(first, a)
  BY <1>1, SpanLast
<1>3. first \in Nat /\ first <= a
  OBVIOUS
<1> HIDE DEF first
<1>4. first <= b
  BY <1>3
<1>5. Layering!Span(first, a) \o Layering!Span(a, b) = Layering!Span(first, b)
  BY <1>1, <1>3, SpanConcat
<1>6. ASSUME NEW n \in {k - 1, k} PROVE Layering!LastOf(Layering!Span(first, b), n) = Layering!LastOf(Layering!Span(0, b), n)
  <2> DEFINE f == IF b - first > n THEN b - n ELSE first
             g == IF b - 0 > n THEN b - n ELSE 0
  <2>1. n \in Nat
    OBVIOUS
  <2>2. Layering!LastOf(Layering!Span(first, b), n) = Layering!Span(f, b)
    BY <1>3, <1>4, <2>1, SpanLast
  <2>3. Layering!LastOf(Layering!Span(0, b), n) = Layering!Span(g, b)
    BY <1>1, <2>1, SpanLast
  <2>4. f = g
    BY <1>1, <1>3 DEF first
  <2> HIDE DEF f, g
  <2> QED BY <2>2, <2>3, <2>4
<1> QED BY <1>2, <1>5, <1>6

\* The members of a stretch.
LEMMA SpanMembers ==
    ASSUME NEW a \in Nat, NEW b \in Nat, a <= b
    PROVE  Layering!RangeOf(Layering!Span(a, b)) = a..b - 1
<1> DEFINE s == Layering!Span(a, b)
<1>1. DOMAIN s = 1..b - a /\ \A i \in 1..b - a : s[i] = a + i - 1
  BY SpanFacts
<1> HIDE DEF s
<1>2. ASSUME NEW q \in a..b - 1 PROVE \E i \in DOMAIN s : s[i] = q
  <2> DEFINE i == q - a + 1
  <2>1. i \in 1..b - a /\ a + i - 1 = q
    OBVIOUS
  <2> HIDE DEF i
  <2> QED BY <1>1, <2>1
<1>3. \A i \in DOMAIN s : s[i] \in a..b - 1
  BY <1>1
<1>4. Layering!RangeOf(s) = a..b - 1
  BY <1>2, <1>3 DEF Layering!RangeOf
<1> QED BY <1>4 DEF s

\* What a recurrence and a convolution compute a position from, and what they
\* keep for the next pass.
LEMMA RecurrentIs ==
    ASSUME Layering!AttentionConstants, AttInv, att.layer \in DOMAIN att.model, Layering!Kind \in {"linear", "conv"}
    PROVE  /\ \A p \in att.from..att.right - 1 : Layering!RecurrentSees(p) = Past(Layering!Kind, p)
           /\ Layering!Kind = "linear" => Layering!NextState = Layering!Span(0, att.right)
           /\ Layering!Kind = "conv" => Layering!NextState = Layering!LastOf(Layering!Span(0, att.right), Kernel - 1)
<1>1. /\ att.from \in Nat /\ MaxLen \in Nat /\ att.right \in att.from + 1..att.to
      /\ att.to \in att.from + 1..MaxLen /\ att.right = att.to
      /\ Upto(att.layer) = att.from
  BY InPass
<1>2. Kernel \in Nat \ {0} /\ Kernel - 1 \in Nat
  BY DEF Layering!AttentionConstants
<1>3. Layering!Span(0, 0) = <<>>
  BY DEF Layering!Span
<1>4. Layering!LastOf(Layering!Span(0, 0), Kernel - 1) = <<>>
  <2>1. Layering!LastOf(<<>>, Kernel - 1) = SubSeq(<<>>, 1, 0)
    BY <1>2 DEF Layering!LastOf
  <2>2. SubSeq(<<>>, 1, 0) = <<>>
    BY SubSeqEmpty
  <2> QED BY <1>3, <2>1, <2>2
<1>5. /\ Layering!Kind = "linear" => Layering!StateBefore = Layering!Span(0, att.from)
      /\ Layering!Kind = "conv" => Layering!StateBefore = Layering!LastOf(Layering!Span(0, att.from), Kernel - 1)
  BY <1>1, <1>3, <1>4 DEF AttInv, AttKept, Layering!StateBefore, Layering!Kind
<1>6. ASSUME NEW p \in att.from..att.to - 1
      PROVE  /\ Layering!Fed(p) = Layering!StateBefore \o Layering!Span(att.from, p + 1) /\ p + 1 \in Nat /\ att.from < p + 1
             /\ Layering!Kind = "linear" => Layering!Fed(p) = Layering!Span(0, p + 1)
  <2>1. p + 1 \in Nat /\ att.from < p + 1 /\ att.from <= p + 1 /\ 0 <= att.from /\ 0 \in Nat
    BY <1>1
  <2>2. Layering!Fed(p) = Layering!StateBefore \o Layering!Span(att.from, p + 1)
    BY DEF Layering!Fed
  <2>3. Layering!Span(0, att.from) \o Layering!Span(att.from, p + 1) = Layering!Span(0, p + 1)
    BY <1>1, <2>1, SpanConcat
  <2> QED BY <1>5, <2>1, <2>2, <2>3
<1>7. ASSUME NEW p \in att.from..att.to - 1 PROVE Layering!RecurrentSees(p) = Past(Layering!Kind, p)
  <2>1. p + 1 \in Nat /\ p \in Nat /\ 0 \in Nat /\ 0 <= p + 1 /\ (p + 1) - 1 = p
    BY <1>1
  <2>2. CASE Layering!Kind = "linear"
    <3>1. Layering!RangeOf(Layering!Span(0, p + 1)) = 0..(p + 1) - 1
      BY <2>1, SpanMembers
    <3>2. Layering!RecurrentSees(p) = Layering!RangeOf(Layering!Span(0, p + 1))
      BY <1>6, <2>2 DEF Layering!RecurrentSees
    <3>3. Past(Layering!Kind, p) = 0..p
      BY <2>2 DEF Past
    <3> QED BY <2>1, <3>1, <3>2, <3>3
  <2>3. CASE Layering!Kind = "conv"
    <3> DEFINE first == IF (p + 1) - 0 > Kernel THEN (p + 1) - Kernel ELSE 0
    <3>1. Layering!Fed(p) = Layering!LastOf(Layering!Span(0, att.from), Kernel - 1) \o Layering!Span(att.from, p + 1)
      BY <1>5, <1>6, <2>3
    <3>2. Layering!LastOf(Layering!Fed(p), Kernel) = Layering!LastOf(Layering!Span(0, p + 1), Kernel)
      BY <1>1, <1>2, <1>6, <3>1, TailOfTail
    <3>3. Layering!LastOf(Layering!Span(0, p + 1), Kernel) = Layering!Span(first, p + 1)
      BY <1>2, <2>1, SpanLast
    <3>4. first \in Nat /\ first <= p + 1 /\ \A q \in 0..p : q >= first <=> q > p - Kernel
      BY <1>2, <2>1
    <3> HIDE DEF first
    <3>5. Layering!RangeOf(Layering!Span(first, p + 1)) = first..(p + 1) - 1
      BY <2>1, <3>4, SpanMembers
    <3>6. Layering!RecurrentSees(p) = first..(p + 1) - 1
      BY <2>3, <3>2, <3>3, <3>5 DEF Layering!RecurrentSees
    <3>7. Past(Layering!Kind, p) = {q \in 0..p : q > p - Kernel}
      BY <2>3 DEF Past
    <3>8. {q \in 0..p : q > p - Kernel} = {q \in 0..p : q >= first}
      BY <3>4
    <3>9. {q \in 0..p : q >= first} = first..(p + 1) - 1
      BY <2>1, <3>4
    <3> QED BY <3>6, <3>7, <3>8, <3>9
  <2> QED BY <2>2, <2>3
<1>8. att.to - 1 \in att.from..att.to - 1 /\ (att.to - 1) + 1 = att.to /\ att.from < att.to
      /\ att.to \in Nat
  BY <1>1
<1>9. Layering!Kind = "linear" => Layering!NextState = Layering!Span(0, att.right)
  BY <1>1, <1>6, <1>8 DEF Layering!NextState
<1>10. ASSUME Layering!Kind = "conv" PROVE Layering!NextState = Layering!LastOf(Layering!Span(0, att.right), Kernel - 1)
  <2>1. Layering!Fed(att.to - 1) = Layering!LastOf(Layering!Span(0, att.from), Kernel - 1) \o Layering!Span(att.from, att.to)
    BY <1>5, <1>6, <1>8, <1>10
  <2> DEFINE k == Kernel - 1
  <2>3. Layering!LastOf(Layering!LastOf(Layering!Span(0, att.from), k) \o Layering!Span(att.from, att.to), k) = Layering!LastOf(Layering!Span(0, att.to), k)
    BY <1>1, <1>2, <1>8, TailOfTail
  <2> HIDE DEF k
  <2>2. Layering!LastOf(Layering!Fed(att.to - 1), k) = Layering!LastOf(Layering!Span(0, att.to), k)
    BY <2>1, <2>3 DEF k
  <2> QED BY <1>1, <1>10, <2>2 DEF Layering!NextState, k
<1> QED BY <1>1, <1>7, <1>9, <1>10

\* The layer at hand computes its positions from their past, and keeps what
\* the next pass needs.
LEMMA LayerStep ==
    ASSUME Layering!AttentionConstants, AttInv, Layering!Layer, NEW l, l = att.layer PROVE AttInv'
<1> DEFINE store == IF Layering!Kind = "latent" THEN Layering!LatentWritten(att.store[l]) ELSE Layering!Written(att.store[l])
           sees == [p \in att.from..att.right - 1 |->
                    CASE Layering!Kind \in {"full", "window"} -> Layering!GqaSees(p, store, att.acc[l])
                      [] Layering!Kind = "latent"             -> Layering!MlaSees(p, store)
                      [] OTHER                       -> Layering!RecurrentSees(p)]
           saw2 == [att.saw EXCEPT ![l] =
                        [p \in 0..MaxLen - 1 |-> IF p \in DOMAIN sees THEN sees[p] ELSE att.saw[l][p]]]
           store2 == [att.store EXCEPT ![l] = IF Layering!Kind \in {"linear", "conv"} THEN att.store[l] ELSE store]
           acc2 == [att.acc EXCEPT ![l] = IF att.mode = "chunk" THEN att.acc[l] \o Layering!Inputs ELSE att.acc[l]]
           state2 == [att.state EXCEPT ![l] =
                        IF Layering!Kind \in {"linear", "conv"} THEN Layering!NextState ELSE att.state[l]]
<1>1. AttShape /\ AttTyped /\ AttPass /\ AttKept
  BY DEF AttInv
<1>2. l \in DOMAIN att.model
  BY DEF Layering!Layer
<1>3. att' = [att EXCEPT !.layer = l + 1, !.saw = saw2, !.store = store2, !.acc = acc2,
                         !.state = state2]
  BY <1>1 DEF Layering!Layer, AttShape
<1>4. /\ att.from \in Nat /\ att.from = att.length /\ MaxLen \in Nat
      /\ att.right \in att.from + 1..att.to /\ att.to \in att.from + 1..MaxLen
      /\ l # 0 /\ Layering!Kind \in Layering!Kinds /\ Upto(l) = att.from
      /\ att.start \in Nat /\ (Layering!Kind \in {"latent", "linear", "conv"} => att.start = 0)
      /\ att.mode # "verify" => att.right = att.to
  BY <1>1, <1>2, InPass DEF AttTyped
<1>5. Layering!Kind \in {"full", "window", "latent"} =>
            \A p \in 0..MaxLen - 1 : p < att.from \/ p < att.start => att.store[l][p] = p
  BY <1>1, <1>2, <1>4 DEF AttKept, Layering!Kind
<1>6. ASSUME Layering!Kind \in {"full", "window", "latent"}, NEW p \in 0..MaxLen - 1,
             p < att.right \/ p < att.start
      PROVE  store[p] = p
  <2>1. CASE Layering!Kind = "latent"
    <3>1. p < att.right
      BY <1>4, <1>6, <2>1
    <3>2. Layering!LatentWritten(att.store[l])[p] = p
      BY <1>2, <1>5, <2>1, <3>1, LatentWrittenIs
    <3> QED BY <2>1, <3>2
  <2>2. CASE Layering!Kind # "latent"
    <3>1. Layering!Written(att.store[l])[p] = p
      BY <1>2, <1>5, <1>6, WrittenIs
    <3> QED BY <2>2, <3>1
  <2> QED BY <2>1, <2>2
<1> HIDE DEF store
<1>7. att.mode = "chunk" => att.acc[l] = Layering!Span(0, att.from)
  <2>1. ~(l < att.layer)
    BY <1>1, <1>2 DEF AttTyped
  <2>2. att.mode = "chunk" => att.length < att.prompt
    BY <1>1, <1>4 DEF AttPass
  <2> QED BY <1>1, <1>2, <1>4, <2>1, <2>2 DEF AttKept
<1>8. ASSUME NEW p \in att.from..att.right - 1 PROVE sees[p] = Past(Layering!Kind, p)
  <2>1. CASE Layering!Kind \in {"full", "window"}
    <3>1. Layering!GqaSees(p, store, att.acc[l]) = Past(Layering!Kind, p)
      BY <1>2, <1>6, <1>7, <2>1, GqaIs
    <3> QED BY <2>1, <3>1
  <2>2. CASE Layering!Kind = "latent"
    <3>1. Layering!MlaSees(p, store) = Past(Layering!Kind, p)
      BY <1>2, <1>6, <2>2, MlaIs
    <3> QED BY <2>2, <3>1
  <2>3. CASE Layering!Kind \in {"linear", "conv"}
    <3>1. Layering!RecurrentSees(p) = Past(Layering!Kind, p)
      BY <1>2, <2>3, RecurrentIs
    <3> QED BY <2>3, <3>1
  <2> QED BY <1>4, <2>1, <2>2, <2>3 DEF Layering!Kinds
<1>9. DOMAIN sees = att.from..att.right - 1
  OBVIOUS
<1> HIDE DEF sees
<1>10. /\ DOMAIN att.saw = DOMAIN att.model /\ DOMAIN att.store = DOMAIN att.model
       /\ DOMAIN att.acc = DOMAIN att.model /\ DOMAIN att.state = DOMAIN att.model
       /\ DOMAIN att.model = 1..Len(att.model) /\ Len(att.model) \in Nat
       /\ l \in 1..Len(att.model)
  BY <1>1, <1>2 DEF AttTyped
<1>11. /\ saw2[l] = [p \in 0..MaxLen - 1 |-> IF p \in DOMAIN sees THEN sees[p] ELSE att.saw[l][p]]
       /\ store2[l] = IF Layering!Kind \in {"linear", "conv"} THEN att.store[l] ELSE store
       /\ acc2[l] = IF att.mode = "chunk" THEN att.acc[l] \o Layering!Inputs ELSE att.acc[l]
       /\ state2[l] = IF Layering!Kind \in {"linear", "conv"} THEN Layering!NextState ELSE att.state[l]
       /\ \A k \in DOMAIN att.model : k # l =>
            /\ saw2[k] = att.saw[k] /\ store2[k] = att.store[k]
            /\ acc2[k] = att.acc[k] /\ state2[k] = att.state[k]
       /\ DOMAIN saw2 = DOMAIN att.model /\ DOMAIN store2 = DOMAIN att.model
       /\ DOMAIN acc2 = DOMAIN att.model /\ DOMAIN state2 = DOMAIN att.model
  BY <1>2, <1>10
<1> HIDE DEF saw2, store2, acc2, state2
<1>12. /\ att'.layer = l + 1 /\ att'.saw = saw2 /\ att'.store = store2 /\ att'.acc = acc2
       /\ att'.state = state2 /\ att'.model = att.model /\ att'.path = att.path
       /\ att'.prompt = att.prompt /\ att'.start = att.start /\ att'.mode = att.mode
       /\ att'.from = att.from /\ att'.to = att.to /\ att'.right = att.right /\ att'.off = att.off
       /\ att'.length = att.length /\ att'.rows = att.rows
  BY <1>1, <1>3 DEF AttShape
<1>13. AttShape'
  BY <1>1, <1>3 DEF AttShape
<1>14. AttTyped'
  <2>1. l + 1 \in 0..Len(att.model) + 1
    BY <1>10
  <2> QED BY <1>1, <1>11, <1>12, <2>1 DEF AttTyped
<1>15. AttPass'
  BY <1>1, <1>4, <1>12 DEF AttPass, OnlyFull
<1>16. /\ Upto(l)' = att.right
       /\ \A k \in DOMAIN att.model : k # l => Upto(k)' = Upto(k) /\ (k < l + 1 <=> k < l)
  <2>1. l < l + 1 /\ \A k \in DOMAIN att.model : k # l => (k < l + 1 <=> k < l)
    BY <1>10
  <2> QED BY <1>12, <2>1 DEF Upto
<1>17. /\ \A p \in 0..att.right - 1 : saw2[l][p] = Past(att.model[l], p)
       /\ att.model[l] \in {"full", "window", "latent"} =>
            \A p \in 0..MaxLen - 1 : p < att.right \/ p < att.start => store2[l][p] = p
       /\ att.model[l] = "linear" => state2[l] = Layering!Span(0, att.right)
       /\ att.model[l] = "conv" => state2[l] = Layering!LastOf(Layering!Span(0, att.right), Kernel - 1)
       /\ acc2[l] = IF att.mode = "chunk" THEN Layering!Span(0, att.right)
                    ELSE IF att.length < att.prompt THEN Layering!Span(0, att.length) ELSE <<>>
  <2>1. att.model[l] = Layering!Kind
    BY DEF Layering!Kind
  <2>2. ASSUME NEW p \in 0..att.right - 1 PROVE saw2[l][p] = Past(Layering!Kind, p)
    <3>1. p \in 0..MaxLen - 1
      BY <1>4
    <3>2. saw2[l][p] = IF p \in att.from..att.right - 1 THEN sees[p] ELSE att.saw[l][p]
      BY <1>9, <1>11, <3>1
    <3>3. CASE p \in att.from..att.right - 1
      BY <1>8, <3>2, <3>3
    <3>4. CASE ~(p \in att.from..att.right - 1)
      <4>1. p \in 0..att.from - 1
        BY <1>4, <3>4
      <4>2. att.saw[l][p] = Past(att.model[l], p)
        BY <1>1, <1>2, <1>4, <4>1 DEF AttKept
      <4> QED BY <2>1, <3>2, <3>4, <4>2
    <3> QED BY <3>3, <3>4
  <2>3. Layering!Kind \in {"full", "window", "latent"} =>
            \A p \in 0..MaxLen - 1 : p < att.right \/ p < att.start => store2[l][p] = p
    BY <1>6, <1>11
  <2>4. /\ Layering!Kind = "linear" => state2[l] = Layering!Span(0, att.right)
        /\ Layering!Kind = "conv" => state2[l] = Layering!LastOf(Layering!Span(0, att.right), Kernel - 1)
    BY <1>2, <1>11, RecurrentIs
  <2>5. CASE att.mode = "chunk"
    <3>1. att.right = att.to /\ att.to \in Nat /\ 0 \in Nat /\ 0 <= att.from /\ att.from <= att.to
      BY <1>4, <2>5
    <3>2. Layering!Span(0, att.from) \o Layering!Span(att.from, att.to) = Layering!Span(0, att.to)
      BY <1>4, <3>1, SpanConcat
    <3>3. acc2[l] = Layering!Span(0, att.right)
      BY <1>7, <1>11, <2>5, <3>1, <3>2 DEF Layering!Inputs
    <3> QED BY <2>1, <2>2, <2>3, <2>4, <2>5, <3>3
  <2>6. CASE att.mode # "chunk"
    <3>1. acc2[l] = IF att.length < att.prompt THEN Layering!Span(0, att.length) ELSE <<>>
      BY <1>1, <1>2, <1>11, <2>6 DEF AttKept
    <3> QED BY <2>1, <2>2, <2>3, <2>4, <2>6, <3>1
  <2> QED BY <2>5, <2>6
<1>18. AttKept'
  <2> SUFFICES ASSUME NEW k \in DOMAIN att.model
               PROVE  /\ \A p \in 0..Upto(k)' - 1 : saw2[k][p] = Past(att.model[k], p)
                      /\ att.model[k] \in {"full", "window", "latent"} =>
                            \A p \in 0..MaxLen - 1 : p < Upto(k)' \/ p < att.start => store2[k][p] = p
                      /\ att.model[k] = "linear" => state2[k] = Layering!Span(0, Upto(k)')
                      /\ att.model[k] = "conv" => state2[k] = Layering!LastOf(Layering!Span(0, Upto(k)'), Kernel - 1)
                      /\ acc2[k] = IF att.mode = "chunk" /\ k < l + 1 THEN Layering!Span(0, att.right)
                                   ELSE IF att.length < att.prompt THEN Layering!Span(0, att.length) ELSE <<>>
    BY <1>12 DEF AttKept
  <2>1. CASE k = l
    <3>1. l < l + 1
      BY <1>10
    <3> QED BY <1>16, <1>17, <2>1, <3>1
  <2>2. CASE k # l
    BY <1>1, <1>11, <1>16, <2>2 DEF AttKept
  <2> QED BY <2>1, <2>2
<1> QED BY <1>13, <1>14, <1>15, <1>18 DEF AttInv

\* A behaviour of a sequence that runs through its layers keeps its invariant.
LEMMA LayeringInvariant == PartsSpec => [](active = "attention" => AttInv)
<1> DEFINE I == active = "attention" => AttInv
<1>1. PartsInit => I
  BY AttInitial, AttentionAssumption DEF PartsInit
<1>2. I /\ [PartsNext]_partsVars => I'
  <2> SUFFICES ASSUME active = "attention" => AttInv, [PartsNext]_partsVars, active' = "attention"
               PROVE  AttInv'
    OBVIOUS
  <2>1. active = "attention" /\ AttInv /\ (Layering!Next \/ UNCHANGED att)
    BY DEF PartsNext, Bounded, partsVars
  <2>2. Layering!AttentionConstants
    BY AttentionAssumption
  <2>3. CASE Layering!Start
    BY <2>1, <2>2, <2>3, StartStep
  <2>4. CASE Layering!Layer
    BY <2>1, <2>2, <2>4, LayerStep
  <2>5. CASE Layering!Advance
    BY <2>1, <2>2, <2>5, AdvanceStep
  <2>6. CASE UNCHANGED att
    BY <2>1, <2>6, AttUnchanged
  <2> QED BY <2>1, <2>3, <2>4, <2>5, <2>6 DEF Layering!Next, Layering!Done
<1> QED BY <1>1, <1>2, PTL DEF PartsSpec

\* Whatever the mixture of whole, packed and chunked prefills, shared
\* prefixes, decodes and verified drafts, every layer computes a committed
\* position from exactly its past, and the K/V kept for it is its own
\* (layers, models/cache.py, models/runner.py, engine/model_runner.py).
THEOREM LayersSeeTheirPast == PartsSpec => []SeesItsPast
<1>1. (active = "attention" => AttInv) => SeesItsPast
  BY AttSees, AttentionAssumption DEF SeesItsPast
<1> QED BY <1>1, LayeringInvariant, PTL

-----------------------------------------------------------------------------
(* Telemetry *)

-----------------------------------------------------------------------------
(* The invariant *)

\* The fields of the state, of a request and of a thread that takes snapshots.
TeleShape ==
    /\ tele = [clock |-> tele.clock, pc |-> tele.pc, now |-> tele.now, todo |-> tele.todo,
               pending |-> tele.pending, kind |-> tele.kind, tokens |-> tele.tokens,
               req |-> tele.req, inflight |-> tele.inflight, total |-> tele.total,
               finished |-> tele.finished, counted |-> tele.counted, rows |-> tele.rows,
               told |-> tele.told, window |-> tele.window, recorded |-> tele.recorded,
               ttft |-> tele.ttft, e2e |-> tele.e2e, reader |-> tele.reader]
    /\ DOMAIN tele.reader = Readers
    /\ \A t \in Readers : LET r == tele.reader[t] IN
            r = [pc |-> r.pc, now |-> r.now, seen |-> r.seen, counters |-> r.counters,
                 samples |-> r.samples, e2e |-> r.e2e]

Samples == [at : Nat, tokens : Nat]
Times == Nat \cup {Metrics!NoTime}

TeleTyped ==
    /\ tele.clock \in Nat /\ tele.now \in Times
    /\ tele.pc \in {"top", "step", "first", "put", "finish", "done", "next"}
    /\ tele.pending \in Seq(Reqs) /\ tele.todo \in Seq(Reqs)
    /\ tele.kind \in Metrics!Kinds /\ tele.tokens \in Nat /\ tele.rows \in Nat
    /\ tele.total \in Nat /\ tele.finished \in Nat /\ tele.told \in Nat
    /\ tele.req \in [Reqs -> [st : {"new", "waiting", "running", "finished"}, out : Nat, sent : Nat,
                              start : Times, first : Times, end : Times]]
    /\ tele.counted \in [Metrics!Kinds -> Nat]
    /\ tele.window \in [Metrics!Kinds -> Seq(Samples)]
    /\ tele.recorded \subseteq Metrics!Kinds \X Samples
    /\ tele.ttft \in Seq(Int) /\ tele.e2e \in Seq(Int)

\* A clock that is read before a lock is not ahead of time, and not behind
\* anything recorded; the samples of a window are in the order of their time.
TeleTimes ==
    /\ tele.now <= tele.clock
    /\ tele.now # Metrics!NoTime => tele.pc \in {"step", "first", "finish"}
    /\ \A k \in Metrics!Kinds : \A i, j \in DOMAIN tele.window[k] :
            i <= j => tele.window[k][i].at <= tele.window[k][j].at
    /\ \A k \in Metrics!Kinds : \A i \in DOMAIN tele.window[k] :
            /\ tele.window[k][i].at <= tele.clock
            /\ tele.now # Metrics!NoTime => tele.window[k][i].at <= tele.now
    /\ \A r \in Reqs : LET q == tele.req[r] IN
            /\ q.start <= tele.clock /\ q.first <= tele.clock
            /\ tele.now # Metrics!NoTime => q.start <= tele.now /\ q.first <= tele.now
            /\ q.first # Metrics!NoTime => q.start <= q.first
            /\ q.end # Metrics!NoTime => q.first # Metrics!NoTime /\ q.first <= q.end

\* The life of a request, and where the worker's loop over them is.
TeleLife ==
    /\ tele.inflight = {r \in Reqs : tele.req[r].st # "new" /\ tele.req[r].end = Metrics!NoTime}
    /\ \A r \in Reqs : LET q == tele.req[r] IN
            /\ q.end # Metrics!NoTime => q.st = "finished"
            /\ q.st = "new" => q.first = Metrics!NoTime
            /\ q.st = "finished" => q.out > 0
            /\ q.sent > 0 => q.first # Metrics!NoTime
    /\ NoDuplicates(tele.pending) /\ NoDuplicates(tele.todo)
    /\ \A i \in DOMAIN tele.pending : LET q == tele.req[tele.pending[i]] IN
            /\ q.st # "new"
            /\ tele.pc \in {"top", "step"} => q.end = Metrics!NoTime
    /\ \A i \in DOMAIN tele.todo : LET q == tele.req[tele.todo[i]] IN
            /\ q.st # "new"
            /\ q.end = Metrics!NoTime \/ (i = 1 /\ tele.pc = "done")
    /\ tele.pc \in {"first", "put", "finish", "done"} => tele.todo # <<>>
    /\ tele.pc = "put" /\ tele.req[Metrics!This].out > 0 => tele.req[Metrics!This].first # Metrics!NoTime
    /\ tele.pc \in {"finish", "done"} =>
            tele.req[Metrics!This].st = "finished" /\ tele.req[Metrics!This].first # Metrics!NoTime

\* The counters.
TeleCounts ==
    /\ tele.total = tele.finished + Cardinality(tele.inflight)
    /\ tele.finished = tele.told + IF tele.pc = "done" THEN 1 ELSE 0
    /\ SumFunction([r \in Reqs |-> tele.req[r].out]) = tele.counted["decode"] + tele.rows
            + IF tele.pc = "step" /\ tele.kind = "decode" THEN tele.tokens ELSE 0
    /\ Len(tele.ttft) <= LatencyWindow /\ Len(tele.e2e) <= LatencyWindow

\* What was recorded and is not too old is in the window.
TeleWindow ==
    \A x \in tele.recorded : x[2].at >= tele.clock - WindowS => x[2] \in Metrics!ToSet(tele.window[x[1]])

\* What a snapshot has seen.
TeleReader ==
    \A t \in Readers : LET r == tele.reader[t] IN
        /\ r.pc \in {"off", "lock", "read"}
        /\ r.pc = "lock" => r.seen \in 0..tele.told /\ r.now \in 0..tele.clock
        /\ r.pc = "read" =>
            /\ r.counters[2] >= r.seen
            /\ r.counters[1] = r.counters[2] + r.counters[3]
            /\ \A k \in Metrics!Kinds : \A i \in DOMAIN r.samples[k] : r.samples[k][i].at >= r.now - WindowS
            /\ Metrics!Percentile(r.e2e, 50) <= Metrics!Percentile(r.e2e, 99)

TeleInv == TeleShape /\ TeleTyped /\ TeleTimes /\ TeleLife /\ TeleCounts /\ TeleWindow /\ TeleReader

-----------------------------------------------------------------------------
(* Windows and percentiles *)

\* A list from its m-th member on.
LEMMA FromMember ==
    ASSUME NEW S, NEW q \in Seq(S), NEW m \in 1..Len(q) + 1
    PROVE  LET s == SubSeq(q, m, Len(q)) IN
           /\ s \in Seq(S) /\ Len(s) = Len(q) - m + 1
           /\ \A i \in 1..Len(q) - m + 1 : s[i] = q[m + i - 1] /\ m + i - 1 \in DOMAIN q
<1> DEFINE s == SubSeq(q, m, Len(q))
<1>1. m \in Int /\ Len(q) \in Int /\ Len(q) \in Nat /\ DOMAIN q = 1..Len(q) /\ m >= 1 /\ m <= Len(q) + 1
  OBVIOUS
<1>2. \A i \in m..Len(q) : q[i] \in S
  BY <1>1
<1>3. /\ s \in Seq(S) /\ Len(s) = (IF m <= Len(q) THEN Len(q) - m + 1 ELSE 0)
      /\ \A i \in 1..Len(q) - m + 1 : s[i] = q[m + i - 1]
  BY <1>1, <1>2, SubSeqProperties
<1> HIDE DEF s
<1>4. Len(s) = Len(q) - m + 1
  BY <1>1, <1>3
<1>5. \A i \in 1..Len(q) - m + 1 : m + i - 1 \in DOMAIN q
  BY <1>1
<1> QED BY <1>3, <1>4, <1>5 DEF s

\* Samples in the order of their time.
InTime(q) == \A i, j \in DOMAIN q : i <= j => q[i].at <= q[j].at

\* Evicting from a window leaves the samples that are not too old, in order.
LEMMA EvictFacts ==
    ASSUME NEW q \in Seq(Samples), InTime(q), NEW now \in Int, Metrics!TelemetryConstants
    PROVE  /\ Metrics!Evict(q, now) \in Seq(Samples) /\ InTime(Metrics!Evict(q, now))
           /\ \A i \in DOMAIN Metrics!Evict(q, now) :
                /\ Metrics!Evict(q, now)[i].at >= now - WindowS
                /\ \E j \in DOMAIN q : Metrics!Evict(q, now)[i] = q[j]
           /\ \A j \in DOMAIN q : q[j].at >= now - WindowS =>
                \E i \in DOMAIN Metrics!Evict(q, now) : Metrics!Evict(q, now)[i] = q[j]
<1> DEFINE fresh == {i \in DOMAIN q : q[i].at >= now - WindowS}
           e == Metrics!Evict(q, now)
<1>1. Len(q) \in Nat /\ DOMAIN q = 1..Len(q) /\ WindowS \in Nat
  BY Libraries DEF Metrics!TelemetryConstants
<1>2. \A i \in DOMAIN q : q[i].at \in Nat
  <2> SUFFICES ASSUME NEW i \in DOMAIN q PROVE q[i].at \in Nat
    OBVIOUS
  <2>1. q[i] \in Samples
    BY <1>1
  <2> QED BY <2>1 DEF Samples
<1>3. CASE fresh = {}
  <2>1. e = <<>>
    BY <1>3 DEF Metrics!Evict
  <2>2. e \in Seq(Samples) /\ DOMAIN e = {}
    BY <2>1
  <2>3. \A j \in DOMAIN q : ~(q[j].at >= now - WindowS)
    BY <1>3
  <2> HIDE DEF e
  <2> QED BY <2>2, <2>3 DEF InTime, e
<1>4. CASE fresh # {}
  <2> DEFINE m == CHOOSE i \in fresh : \A j \in fresh : i <= j
  <2>1. fresh \subseteq Nat
    BY <1>1
  <2>2. \E i \in fresh : \A j \in fresh : i <= j
    <3> HIDE DEF fresh
    <3> QED BY <1>4, <2>1, HasLeast
  <2>3. e = SubSeq(q, m, Len(q))
    BY <1>4 DEF Metrics!Evict
  <2> HIDE DEF e
  <2>4. m \in fresh /\ \A j \in fresh : m <= j
    <3> HIDE DEF fresh
    <3> QED BY <2>2
  <2> HIDE DEF m
  <2>5. m \in DOMAIN q /\ q[m].at >= now - WindowS
    BY <2>4
  <2>6. /\ e \in Seq(Samples) /\ Len(e) = Len(q) - m + 1
        /\ \A i \in 1..Len(q) - m + 1 : e[i] = q[m + i - 1] /\ m + i - 1 \in DOMAIN q
    <3>1. m \in 1..Len(q) + 1
      BY <1>1, <2>5
    <3> QED BY <2>3, <3>1, FromMember
  <2>7. DOMAIN e = 1..Len(q) - m + 1 /\ m \in Nat
    BY <1>1, <2>5, <2>6
  <2>8. InTime(e)
    <3> SUFFICES ASSUME NEW i \in DOMAIN e, NEW j \in DOMAIN e, i <= j PROVE e[i].at <= e[j].at
      BY DEF InTime
    <3>1. /\ e[i] = q[m + i - 1] /\ m + i - 1 \in DOMAIN q
          /\ e[j] = q[m + j - 1] /\ m + j - 1 \in DOMAIN q
      BY <2>6, <2>7
    <3>2. m + i - 1 <= m + j - 1
      BY <2>7
    <3> QED BY <3>1, <3>2 DEF InTime
  <2>9. ASSUME NEW i \in DOMAIN e
        PROVE  e[i].at >= now - WindowS /\ \E j \in DOMAIN q : e[i] = q[j]
    <3>1. e[i] = q[m + i - 1] /\ m + i - 1 \in DOMAIN q
      BY <2>6, <2>7
    <3>2. m <= m + i - 1
      BY <2>7
    <3>3. q[m].at <= q[m + i - 1].at
      BY <2>5, <3>1, <3>2 DEF InTime
    <3>4. q[m + i - 1].at >= now - WindowS
      <4>1. q[m].at \in Nat /\ q[m + i - 1].at \in Nat
        BY <1>2, <2>5, <3>1
      <4> QED BY <1>1, <2>5, <3>3, <4>1
    <3> QED BY <3>1, <3>4
  <2>10. ASSUME NEW j \in DOMAIN q, q[j].at >= now - WindowS
         PROVE  \E i \in DOMAIN e : e[i] = q[j]
    <3>1. m <= j
      BY <2>4, <2>10
    <3> DEFINE i == j - m + 1
    <3>2. i \in 1..Len(q) - m + 1 /\ m + i - 1 = j
      BY <1>1, <2>7, <3>1
    <3> HIDE DEF i
    <3>3. e[i] = q[j] /\ i \in DOMAIN e
      BY <2>6, <2>7, <3>2
    <3> QED BY <3>3
  <2> QED BY <2>6, <2>8, <2>9, <2>10 DEF e
<1> QED BY <1>3, <1>4

\* A bounded deque stays bounded.
LEMMA BoundedFacts ==
    ASSUME NEW q \in Seq(Int), NEW x \in Int, Len(q) <= LatencyWindow, Metrics!TelemetryConstants
    PROVE  Metrics!AppendBounded(q, x) \in Seq(Int) /\ Len(Metrics!AppendBounded(q, x)) <= LatencyWindow
<1> DEFINE s == Append(q, x)
           m == IF Len(s) > LatencyWindow THEN 2 ELSE 1
<1>1. s \in Seq(Int) /\ Len(s) = Len(q) + 1 /\ Len(q) \in Nat /\ LatencyWindow \in Nat
  BY Libraries DEF Metrics!TelemetryConstants
<1>2. Metrics!AppendBounded(q, x) = SubSeq(s, m, Len(s))
  BY DEF Metrics!AppendBounded
<1> HIDE DEF s
<1>3. m \in 1..Len(s) + 1 /\ Len(s) - m + 1 <= LatencyWindow
  BY <1>1
<1> HIDE DEF m
<1>4. SubSeq(s, m, Len(s)) \in Seq(Int) /\ Len(SubSeq(s, m, Len(s))) = Len(s) - m + 1
  BY <1>1, <1>3, FromMember
<1> QED BY <1>2, <1>3, <1>4

\* sorted() returns a list of the same length in ascending order.
LEMMA OrderedFacts ==
    ASSUME NEW q \in Seq(Int)
    PROVE  /\ Metrics!Ordered(q) \in Seq(Int) /\ Len(Metrics!Ordered(q)) = Len(q)
           /\ \A k, l \in 1..Len(q) : k <= l => Metrics!Ordered(q)[k] <= Metrics!Ordered(q)[l]
<1> DEFINE n == Len(q)
           upto(i) == {j \in 1..n : q[j] < q[i] \/ (q[j] = q[i] /\ j <= i)}
           s == Metrics!Ordered(q)
<1>1. n \in Nat /\ DOMAIN q = 1..n /\ \A i \in 1..n : q[i] \in Int
  OBVIOUS
<1>2. IsFiniteSet(1..n) /\ Cardinality(1..n) = n
  <2>1. 1 \in Int /\ n \in Int
    BY <1>1
  <2>2. IsFiniteSet(1..n) /\ Cardinality(1..n) = IF 1 > n THEN 0 ELSE n - 1 + 1
    BY <2>1, FS_Interval
  <2> QED BY <1>1, <2>2
<1>3. ASSUME NEW i \in 1..n
      PROVE  IsFiniteSet(upto(i)) /\ Cardinality(upto(i)) \in Nat /\ Cardinality(upto(i)) \in 1..n
  <2>1. upto(i) \subseteq 1..n /\ i \in upto(i)
    BY <1>1
  <2> HIDE DEF upto
  <2>2. IsFiniteSet(upto(i)) /\ Cardinality(upto(i)) <= n
    BY <1>2, <2>1, FS_Subset
  <2>3. Cardinality(upto(i)) \in Nat /\ Cardinality(upto(i)) # 0
    BY <2>1, <2>2, FS_CardinalityType, FS_EmptySet
  <2> QED BY <1>1, <2>2, <2>3
<1>4. ASSUME NEW i \in 1..n, NEW j \in 1..n, q[i] < q[j] \/ (q[i] = q[j] /\ i < j)
      PROVE  Cardinality(upto(i)) < Cardinality(upto(j))
  <2>1. upto(i) \subseteq upto(j)
    <3> SUFFICES ASSUME NEW k \in upto(i) PROVE k \in upto(j)
      OBVIOUS
    <3>1. k \in 1..n /\ (q[k] < q[i] \/ (q[k] = q[i] /\ k <= i))
      OBVIOUS
    <3>2. q[k] \in Int /\ q[i] \in Int /\ q[j] \in Int
      BY <1>1, <3>1
    <3>3. q[k] < q[j] \/ (q[k] = q[j] /\ k <= j)
      BY <1>4, <3>1, <3>2
    <3> QED BY <3>1, <3>3
  <2>2. j \in upto(j) /\ j \notin upto(i)
    <3>1. q[i] \in Int /\ q[j] \in Int
      BY <1>1
    <3> QED BY <1>4, <3>1
  <2> HIDE DEF upto
  <2>3. Cardinality(upto(i)) <= Cardinality(upto(j)) /\ Cardinality(upto(i)) # Cardinality(upto(j))
    BY <1>3, <2>1, <2>2, FS_Subset
  <2> DEFINE a == Cardinality(upto(i))  b == Cardinality(upto(j))
  <2>4. a \in Nat /\ b \in Nat
    BY <1>3
  <2>5. a <= b /\ a # b
    BY <2>3
  <2> HIDE DEF a, b
  <2>6. a < b
    BY <2>4, <2>5
  <2> QED BY <2>6 DEF a, b
<1> HIDE DEF upto
<1> DEFINE r == [i \in 1..n |-> Cardinality(upto(i))]
<1>5. r \in [1..n -> 1..Cardinality(1..n)]
  BY <1>2, <1>3
<1>6. \A x, y \in 1..n : r[x] = r[y] => x = y
  <2> SUFFICES ASSUME NEW x \in 1..n, NEW y \in 1..n, x # y PROVE r[x] # r[y]
    OBVIOUS
  <2>1. q[x] \in Int /\ q[y] \in Int
    BY <1>1
  <2>2. \/ q[x] < q[y] \/ (q[x] = q[y] /\ x < y)
        \/ q[y] < q[x] \/ (q[y] = q[x] /\ y < x)
    BY <2>1
  <2> DEFINE a == Cardinality(upto(x))  b == Cardinality(upto(y))
  <2>3. a \in Nat /\ b \in Nat
    BY <1>3
  <2>4. a < b \/ b < a
    BY <1>4, <2>2
  <2>5. r[x] = a /\ r[y] = b
    OBVIOUS
  <2> HIDE DEF a, b, r
  <2> QED BY <2>3, <2>4, <2>5
<1>7. \A k \in 1..n : \E x \in 1..n : r[x] = k
  <2> DEFINE D == 1..n
  <2>1. IsFiniteSet(D) /\ r \in [D -> 1..Cardinality(D)] /\ \A x, y \in D : r[x] = r[y] => x = y
    BY <1>2, <1>5, <1>6
  <2>2. Cardinality(D) = n
    BY <1>2
  <2> HIDE DEF D, r
  <2>3. \A k \in 1..Cardinality(D) : \E x \in D : r[x] = k
    BY <2>1, RanksTaken
  <2> QED BY <2>2, <2>3 DEF D
<1>8. \A k \in 1..n : \E x \in 1..n : Cardinality(upto(x)) = k
  BY <1>7
<1> DEFINE at(k) == CHOOSE i \in DOMAIN q : Metrics!Rank(q, i) = k
<1>9. \A k \in 1..n : at(k) \in 1..n /\ Cardinality(upto(at(k))) = k
  <2>1. \A i \in 1..n : Metrics!Rank(q, i) = Cardinality(upto(i))
    BY <1>1, Libraries DEF Metrics!Rank, upto
  <2>2. \A k \in 1..n : \E i \in DOMAIN q : Metrics!Rank(q, i) = k
    BY <1>1, <1>8, <2>1
  <2>3. \A k \in 1..n : at(k) \in DOMAIN q /\ Metrics!Rank(q, at(k)) = k
    BY <2>2
  <2> HIDE DEF at
  <2> QED BY <1>1, <2>1, <2>3
<1>10. s = [k \in 1..n |-> q[at(k)]]
  BY <1>1 DEF Metrics!Ordered
<1> HIDE DEF at, s
<1>11. \A k \in 1..n : q[at(k)] \in Int
  BY <1>1, <1>9
<1>12. s \in Seq(Int) /\ Len(s) = n /\ \A k \in 1..n : s[k] = q[at(k)]
  BY <1>1, <1>10, <1>11
<1>13. ASSUME NEW k \in 1..n, NEW l \in 1..n, k <= l PROVE s[k] <= s[l]
  <2>1. CASE q[at(l)] < q[at(k)]
    <3>1. Cardinality(upto(at(l))) < Cardinality(upto(at(k)))
      BY <1>4, <1>9, <2>1
    <3>2. l < k
      BY <1>9, <3>1
    <3> QED BY <1>13, <3>2
  <2>2. CASE ~(q[at(l)] < q[at(k)])
    BY <1>11, <1>12, <2>2
  <2> QED BY <2>1, <2>2
<1> QED BY <1>12, <1>13 DEF s

\* The median of the latencies is not above their 99th percentile.
LEMMA PercentilesInOrder ==
    ASSUME NEW q \in Seq(Int)
    PROVE  Metrics!Percentile(Metrics!Ordered(q), 50) <= Metrics!Percentile(Metrics!Ordered(q), 99)
<1> DEFINE s == Metrics!Ordered(q)
           n == Len(q)
           half(x) == (x \div 100)
                        + (IF x % 100 > 50 \/ (x % 100 = 50 /\ (x \div 100) % 2 = 1) THEN 1 ELSE 0)
           x == 50 * (n - 1)
           y == 99 * (n - 1)
<1>1. s \in Seq(Int) /\ Len(s) = n /\ n \in Nat
  BY OrderedFacts
<1>2. \A k, l \in 1..n : k <= l => s[k] <= s[l]
  BY OrderedFacts
<1> HIDE DEF s
<1>3. CASE s = <<>>
  BY <1>3 DEF Metrics!Percentile, s
<1>4. CASE s # <<>>
  <2>1. n >= 1
    BY <1>1, <1>4, EmptySeq
  <2>2. Metrics!Percentile(s, 50) = s[half(x) + 1] /\ Metrics!Percentile(s, 99) = s[half(y) + 1]
    BY <1>1, <1>4 DEF Metrics!Percentile
  <2>3. x \in Nat /\ y \in Nat /\ x <= y /\ y <= 100 * (n - 1)
    BY <1>1, <2>1
  <2>4. \A z \in Nat : z \div 100 \in Nat /\ z % 100 \in 0..99 /\ z = 100 * (z \div 100) + (z % 100)
    OBVIOUS
  <2> DEFINE a == x \div 100  b == y \div 100  c == x % 100  d == y % 100
  <2>5. a \in Nat /\ c \in 0..99 /\ x = 100 * a + c
    BY <2>3, <2>4
  <2>6. b \in Nat /\ d \in 0..99 /\ y = 100 * b + d
    BY <2>3, <2>4
  <2> DEFINE u == IF c > 50 \/ (c = 50 /\ a % 2 = 1) THEN 1 ELSE 0
             v == IF d > 50 \/ (d = 50 /\ b % 2 = 1) THEN 1 ELSE 0
  <2>7. half(x) = a + u /\ half(y) = b + v
    OBVIOUS
  <2> HIDE DEF a, b, c, d, x, y, half
  <2>8. a + u <= b + v
    <3>1. CASE a = b
      <4>1. c <= d
        BY <2>3, <2>5, <2>6, <3>1
      <4> QED BY <2>5, <2>6, <3>1, <4>1
    <3>2. CASE a < b
      BY <2>5, <2>6, <3>2
    <3>3. a <= b
      BY <2>3, <2>5, <2>6
    <3> QED BY <2>5, <2>6, <3>1, <3>2, <3>3
  <2>9. b + v <= n - 1
    <3>1. CASE n = 1
      <4>1. b = 0 /\ d = 0
        BY <2>3, <2>6, <3>1
      <4> QED BY <3>1, <4>1
    <3>2. CASE n > 1
      <4>1. b < n - 1
        BY <1>1, <2>6, <3>2 DEF y
      <4> QED BY <1>1, <2>6, <4>1
    <3> QED BY <1>1, <2>1, <3>1, <3>2
  <2>10. half(x) + 1 \in 1..n /\ half(y) + 1 \in 1..n /\ half(x) + 1 <= half(y) + 1
    <3>1. a + u + 1 \in 1..n /\ b + v + 1 \in 1..n /\ a + u + 1 <= b + v + 1
      BY <1>1, <2>5, <2>6, <2>8, <2>9
    <3> QED BY <2>7, <3>1
  <2> DEFINE k == half(x) + 1  l == half(y) + 1
  <2>11. k \in 1..n /\ l \in 1..n /\ k <= l
    BY <2>10
  <2> HIDE DEF k, l
  <2>12. s[k] <= s[l]
    BY <1>2, <2>11
  <2> QED BY <2>2, <2>12 DEF k, l, s
<1> QED BY <1>3, <1>4

-----------------------------------------------------------------------------
(* The threads that take snapshots, and time *)

\* The invariant depends on the state only.
LEMMA TeleUnchanged == ASSUME TeleInv, UNCHANGED tele PROVE TeleInv'
<1>1. TeleShape'
  BY DEF TeleInv, TeleShape
<1>2. TeleTyped'
  BY DEF TeleInv, TeleTyped
<1>3. TeleTimes'
  BY DEF TeleInv, TeleTimes
<1>4. TeleLife'
  BY DEF TeleInv, TeleLife, Metrics!This
<1>5. TeleCounts'
  BY DEF TeleInv, TeleCounts
<1>6. TeleWindow'
  BY DEF TeleInv, TeleWindow
<1>7. TeleReader'
  BY DEF TeleInv, TeleReader
<1> QED BY <1>1, <1>2, <1>3, <1>4, <1>5, <1>6, <1>7 DEF TeleInv

\* A request, as the metrics know it.
LEMMA RequestTyped ==
    ASSUME TeleInv, NEW r \in Reqs
    PROVE  LET q == tele.req[r] IN
           /\ q = [st |-> q.st, out |-> q.out, sent |-> q.sent,
                   start |-> q.start, first |-> q.first, end |-> q.end]
           /\ q.st \in {"new", "waiting", "running", "finished"} /\ q.out \in Nat /\ q.sent \in Nat
           /\ q.start \in Times /\ q.first \in Times /\ q.end \in Times
           /\ q.start \in Int /\ q.first \in Int /\ q.end \in Int
           /\ DOMAIN tele.req = Reqs
<1>1. tele.req \in [Reqs -> [st : {"new", "waiting", "running", "finished"}, out : Nat, sent : Nat,
                              start : Times, first : Times, end : Times]]
  BY DEF TeleInv, TeleTyped
<1> DEFINE q == tele.req[r]
<1>2. q \in [st : {"new", "waiting", "running", "finished"}, out : Nat, sent : Nat,
              start : Times, first : Times, end : Times]
  BY <1>1
<1>3. \A x \in Times : x \in Int
  BY DEF Times, Metrics!NoTime
<1> HIDE DEF q
<1>4. /\ q = [st |-> q.st, out |-> q.out, sent |-> q.sent,
              start |-> q.start, first |-> q.first, end |-> q.end]
      /\ q.st \in {"new", "waiting", "running", "finished"} /\ q.out \in Nat /\ q.sent \in Nat
      /\ q.start \in Times /\ q.first \in Times /\ q.end \in Times
  BY <1>2
<1> QED BY <1>1, <1>3, <1>4 DEF q

\* The request the worker's loop is at.
LEMMA ThisRequest ==
    ASSUME TeleInv, tele.todo # <<>>
    PROVE  /\ Metrics!This \in Reqs /\ Metrics!This = tele.todo[1] /\ 1 \in DOMAIN tele.todo
           /\ tele.req[Metrics!This].st # "new"
           /\ tele.pc # "done" => tele.req[Metrics!This].end = Metrics!NoTime
           /\ \A i \in DOMAIN tele.todo : i # 1 =>
                    tele.todo[i] # Metrics!This /\ tele.req[tele.todo[i]].end = Metrics!NoTime
           /\ Tail(tele.todo) \in Seq(Reqs) /\ NoDuplicates(Tail(tele.todo))
           /\ \A j \in DOMAIN Tail(tele.todo) :
                    /\ Tail(tele.todo)[j] \in Reqs /\ Tail(tele.todo)[j] # Metrics!This
                    /\ tele.req[Tail(tele.todo)[j]].st # "new"
                    /\ tele.req[Tail(tele.todo)[j]].end = Metrics!NoTime
<1> DEFINE q == tele.todo
<1>1. q \in Seq(Reqs) /\ NoDuplicates(q)
  BY DEF TeleInv, TeleTyped, TeleLife
<1>2. \A i \in DOMAIN q : /\ tele.req[q[i]].st # "new"
                          /\ tele.req[q[i]].end = Metrics!NoTime \/ (i = 1 /\ tele.pc = "done")
  BY DEF TeleInv, TeleLife
<1>3. Metrics!This = Head(q)
  BY DEF Metrics!This
<1> HIDE DEF q
<1>4. q # <<>>
  BY DEF q
<1>5. /\ Head(q) \in Reqs /\ Tail(q) \in Seq(Reqs) /\ Head(q) = q[1] /\ 1 \in DOMAIN q
      /\ \A j \in DOMAIN Tail(q) : Tail(q)[j] = q[j + 1] /\ j + 1 \in DOMAIN q
      /\ NoDuplicates(Tail(q))
  BY <1>1, <1>4, HeadFacts
<1>6. \A i \in DOMAIN q : i # 1 => q[i] # Metrics!This /\ tele.req[q[i]].end = Metrics!NoTime
  BY <1>1, <1>2, <1>3, <1>5 DEF NoDuplicates
<1>7. \A j \in DOMAIN Tail(q) : j + 1 # 1 /\ Tail(q)[j] \in Reqs
  BY <1>5
<1>8. \A j \in DOMAIN Tail(q) :
        /\ Tail(q)[j] \in Reqs /\ Tail(q)[j] # Metrics!This
        /\ tele.req[Tail(q)[j]].st # "new" /\ tele.req[Tail(q)[j]].end = Metrics!NoTime
  BY <1>2, <1>5, <1>6, <1>7
<1> QED BY <1>2, <1>3, <1>5, <1>6, <1>8 DEF q

\* What _dispatch does next.
LEMMA FollowingIs ==
    /\ Metrics!OnFrom("first") = "put"
    /\ Metrics!OnFrom("put") = IF tele.req[Metrics!This].st = "finished" THEN "finish" ELSE "next"
    /\ Metrics!OnFrom("finish") = "done" /\ Metrics!OnFrom("done") = "next"
  BY DEF Metrics!OnFrom, Metrics!Following

\* What a snapshot has seen stays so.
LEMMA ReaderKept ==
    ASSUME TeleInv, tele'.reader = tele.reader, tele'.told \in Nat, tele'.told >= tele.told,
           tele'.clock \in Nat, tele'.clock >= tele.clock
    PROVE  TeleReader'
<1>1. tele.told \in Nat /\ tele.clock \in Nat
  BY DEF TeleInv, TeleTyped
<1>2. 0..tele.told \subseteq 0..tele'.told /\ 0..tele.clock \subseteq 0..tele'.clock
  BY <1>1
<1>3. TeleReader
  BY DEF TeleInv
<1> QED BY <1>2, <1>3 DEF TeleReader

\* Time passes.
LEMMA TickStep == ASSUME Metrics!TelemetryConstants, TeleInv, Metrics!Tick PROVE TeleInv'
<1>1. /\ TeleShape /\ TeleTyped /\ TeleTimes /\ TeleLife /\ TeleCounts /\ TeleWindow /\ TeleReader
      /\ WindowS \in Nat
  BY Libraries DEF TeleInv, Metrics!TelemetryConstants
<1>2. tele' = [tele EXCEPT !.clock = tele.clock + 1]
  BY DEF Metrics!Tick
<1>3. /\ tele'.clock = tele.clock + 1 /\ tele'.pc = tele.pc /\ tele'.now = tele.now
      /\ tele'.todo = tele.todo /\ tele'.pending = tele.pending /\ tele'.kind = tele.kind
      /\ tele'.tokens = tele.tokens /\ tele'.req = tele.req /\ tele'.inflight = tele.inflight
      /\ tele'.total = tele.total /\ tele'.finished = tele.finished /\ tele'.counted = tele.counted
      /\ tele'.rows = tele.rows /\ tele'.told = tele.told /\ tele'.window = tele.window
      /\ tele'.recorded = tele.recorded /\ tele'.ttft = tele.ttft /\ tele'.e2e = tele.e2e
      /\ tele'.reader = tele.reader
  BY <1>1, <1>2 DEF TeleShape
<1>4. TeleShape'
  BY <1>1, <1>2, <1>3 DEF TeleShape
<1>5. tele.clock \in Nat /\ tele.clock + 1 \in Nat /\ tele.told \in Nat
  BY <1>1 DEF TeleTyped
<1>6. TeleTyped'
  BY <1>1, <1>3, <1>5 DEF TeleTyped
<1>7. TeleTimes'
  <2>1. tele.now <= tele.clock + 1
    BY <1>1, <1>5 DEF TeleTimes, TeleTyped, Times, Metrics!NoTime
  <2>2. \A k \in Metrics!Kinds : \A i \in DOMAIN tele.window[k] : tele.window[k][i].at <= tele.clock + 1
    <3> SUFFICES ASSUME NEW k \in Metrics!Kinds, NEW i \in DOMAIN tele.window[k]
                 PROVE  tele.window[k][i].at <= tele.clock + 1
      OBVIOUS
    <3>1. tele.window[k] \in Seq(Samples)
      BY <1>1 DEF TeleTyped
    <3>2. tele.window[k][i] \in Samples
      BY <3>1
    <3>3. tele.window[k][i].at \in Nat /\ tele.window[k][i].at <= tele.clock
      BY <1>1, <3>2 DEF Samples, TeleTimes
    <3> QED BY <1>5, <3>3
  <2>3. \A r \in Reqs : tele.req[r].start <= tele.clock + 1 /\ tele.req[r].first <= tele.clock + 1
    <3> SUFFICES ASSUME NEW r \in Reqs
                 PROVE  tele.req[r].start <= tele.clock + 1 /\ tele.req[r].first <= tele.clock + 1
      OBVIOUS
    <3>1. tele.req[r].start \in Int /\ tele.req[r].first \in Int
      BY RequestTyped
    <3>2. tele.req[r].start <= tele.clock /\ tele.req[r].first <= tele.clock
      BY <1>1 DEF TeleTimes
    <3> QED BY <1>5, <3>1, <3>2
  <2> QED BY <1>1, <1>3, <2>1, <2>2, <2>3 DEF TeleTimes
<1>8. TeleLife'
  BY <1>1, <1>3 DEF TeleLife, Metrics!This
<1>9. TeleCounts'
  BY <1>1, <1>3 DEF TeleCounts
<1>10. TeleWindow'
  <2> SUFFICES ASSUME NEW x \in tele.recorded, x[2].at >= (tele.clock + 1) - WindowS
               PROVE  x[2] \in Metrics!ToSet(tele.window[x[1]])
    BY <1>3 DEF TeleWindow
  <2>1. x[2].at \in Nat
    BY <1>1 DEF TeleTyped, Samples
  <2>2. x[2].at >= tele.clock - WindowS
    BY <1>1, <1>5, <2>1
  <2> QED BY <1>1, <2>2 DEF TeleWindow
<1>11. TeleReader'
  BY <1>3, <1>5, ReaderKept
<1> QED BY <1>4, <1>6, <1>7, <1>8, <1>9, <1>10, <1>11 DEF TeleInv

\* What a step of a thread that takes a snapshot leaves alone.
LEMMA ReaderOnly ==
    ASSUME TeleInv, NEW reader, NEW window,
           tele' = [tele EXCEPT !.reader = reader, !.window = window]
    PROVE  /\ TeleLife' /\ TeleCounts'
           /\ tele'.reader = reader /\ tele'.window = window /\ tele'.clock = tele.clock
           /\ tele'.now = tele.now /\ tele'.req = tele.req /\ tele'.pc = tele.pc
           /\ tele'.recorded = tele.recorded /\ tele'.told = tele.told
           /\ window \in [Metrics!Kinds -> Seq(Samples)] => TeleTyped'
<1>1. TeleShape /\ TeleTyped /\ TeleTimes /\ TeleLife /\ TeleCounts /\ TeleWindow
  BY DEF TeleInv
<1>2. /\ tele'.clock = tele.clock /\ tele'.pc = tele.pc /\ tele'.now = tele.now
      /\ tele'.todo = tele.todo /\ tele'.pending = tele.pending /\ tele'.kind = tele.kind
      /\ tele'.tokens = tele.tokens /\ tele'.req = tele.req /\ tele'.inflight = tele.inflight
      /\ tele'.total = tele.total /\ tele'.finished = tele.finished /\ tele'.counted = tele.counted
      /\ tele'.rows = tele.rows /\ tele'.told = tele.told /\ tele'.window = window
      /\ tele'.recorded = tele.recorded /\ tele'.ttft = tele.ttft /\ tele'.e2e = tele.e2e
      /\ tele'.reader = reader
  BY <1>1 DEF TeleShape
<1>3. TeleLife'
  BY <1>1, <1>2 DEF TeleLife, Metrics!This
<1>4. TeleCounts'
  BY <1>1, <1>2 DEF TeleCounts
<1>5. window \in [Metrics!Kinds -> Seq(Samples)] => TeleTyped'
  BY <1>1, <1>2 DEF TeleTyped
<1> QED BY <1>2, <1>3, <1>4, <1>5

\* A snapshot that begins, and one that is handed out.
LEMMA ReaderRestStep ==
    ASSUME Metrics!TelemetryConstants, TeleInv, NEW t \in Readers, Metrics!SnapshotClock(t) \/ Metrics!SnapshotDone(t)
    PROVE  TeleInv'
<1>1. TeleShape /\ TeleTyped /\ TeleTimes /\ TeleLife /\ TeleCounts /\ TeleWindow /\ TeleReader
  BY DEF TeleInv
<1> DEFINE mine == [pc |-> "lock", now |-> tele.clock, seen |-> tele.told, counters |-> <<>>,
                    samples |-> <<>>, e2e |-> <<>>]
<1>2. PICK r \in {mine, Metrics!Reading} : tele' = [tele EXCEPT !.reader = [tele.reader EXCEPT ![t] = r]]
  <2>1. CASE Metrics!SnapshotClock(t)
    <3> DEFINE one == [Metrics!Reading EXCEPT !.pc = "lock", !.now = tele.clock, !.seen = tele.told]
    <3> DEFINE old == Metrics!Reading
    <3>1. one = mine
      <4>1. /\ old = [pc |-> old.pc, now |-> old.now, seen |-> old.seen, counters |-> old.counters,
                      samples |-> old.samples, e2e |-> old.e2e]
            /\ old.counters = <<>> /\ old.samples = <<>> /\ old.e2e = <<>>
        BY DEF Metrics!Reading
      <4>2. one = [old EXCEPT !.pc = "lock", !.now = tele.clock, !.seen = tele.told]
        OBVIOUS
      <4> HIDE DEF old, one
      <4> QED BY <4>1, <4>2
    <3>2. tele' = [tele EXCEPT !.reader[t] = one]
      BY <2>1 DEF Metrics!SnapshotClock
    <3> HIDE DEF one
    <3>3. tele' = [tele EXCEPT !.reader = [tele.reader EXCEPT ![t] = one]]
      BY <3>2
    <3> HIDE DEF mine
    <3> QED BY <3>1, <3>3
  <2>2. CASE Metrics!SnapshotDone(t)
    BY <2>2 DEF Metrics!SnapshotDone
  <2> QED BY <2>1, <2>2
<1>3. /\ r = [pc |-> r.pc, now |-> r.now, seen |-> r.seen, counters |-> r.counters,
              samples |-> r.samples, e2e |-> r.e2e]
      /\ (r.pc = "lock" /\ r.seen = tele.told /\ r.now = tele.clock) \/ r.pc = "off"
  BY DEF Metrics!Reading
<1> DEFINE reader == [tele.reader EXCEPT ![t] = r]
<1>4. reader[t] = r /\ DOMAIN reader = Readers /\ \A u \in Readers : u # t => reader[u] = tele.reader[u]
  BY <1>1 DEF TeleShape
<1> HIDE DEF reader, mine
<1>5. tele' = [tele EXCEPT !.reader = reader, !.window = tele.window]
  BY <1>1, <1>2 DEF reader, TeleShape
<1>6. /\ TeleLife' /\ TeleCounts'
      /\ tele'.reader = reader /\ tele'.window = tele.window /\ tele'.clock = tele.clock
      /\ tele'.now = tele.now /\ tele'.req = tele.req /\ tele'.pc = tele.pc
      /\ tele'.recorded = tele.recorded /\ tele'.told = tele.told
      /\ tele.window \in [Metrics!Kinds -> Seq(Samples)] => TeleTyped'
  BY <1>5, ReaderOnly
<1>7. TeleTyped'
  BY <1>1, <1>6 DEF TeleTyped
<1>8. TeleShape'
  <2>1. tele' = [tele EXCEPT !.reader = reader]
    BY <1>2 DEF reader
  <2>2. \A u \in Readers : LET q == reader[u] IN
            q = [pc |-> q.pc, now |-> q.now, seen |-> q.seen, counters |-> q.counters,
                 samples |-> q.samples, e2e |-> q.e2e]
    BY <1>1, <1>3, <1>4 DEF TeleShape
  <2>3. tele = [clock |-> tele.clock, pc |-> tele.pc, now |-> tele.now, todo |-> tele.todo,
               pending |-> tele.pending, kind |-> tele.kind, tokens |-> tele.tokens,
               req |-> tele.req, inflight |-> tele.inflight, total |-> tele.total,
               finished |-> tele.finished, counted |-> tele.counted, rows |-> tele.rows,
               told |-> tele.told, window |-> tele.window, recorded |-> tele.recorded,
               ttft |-> tele.ttft, e2e |-> tele.e2e, reader |-> tele.reader]
    BY <1>1 DEF TeleShape
  <2>4. tele' = [clock |-> tele'.clock, pc |-> tele'.pc, now |-> tele'.now, todo |-> tele'.todo,
               pending |-> tele'.pending, kind |-> tele'.kind, tokens |-> tele'.tokens,
               req |-> tele'.req, inflight |-> tele'.inflight, total |-> tele'.total,
               finished |-> tele'.finished, counted |-> tele'.counted, rows |-> tele'.rows,
               told |-> tele'.told, window |-> tele'.window, recorded |-> tele'.recorded,
               ttft |-> tele'.ttft, e2e |-> tele'.e2e, reader |-> tele'.reader]
    BY <2>1, <2>3
  <2> QED BY <1>4, <1>6, <2>2, <2>4 DEF TeleShape
<1>9. TeleTimes'
  BY <1>1, <1>6 DEF TeleTimes
<1>10. TeleWindow'
  BY <1>1, <1>6 DEF TeleWindow
<1>11. TeleReader'
  <2>1. tele.told \in Nat /\ tele.clock \in Nat
    BY <1>1 DEF TeleTyped
  <2>2. tele.told \in 0..tele.told /\ tele.clock \in 0..tele.clock
    BY <2>1
  <2> QED BY <1>1, <1>3, <1>4, <1>6, <2>2 DEF TeleReader
<1> QED BY <1>6, <1>7, <1>8, <1>9, <1>10, <1>11 DEF TeleInv

\* A snapshot reads under the lock.
LEMMA ReadStep ==
    ASSUME Metrics!TelemetryConstants, TeleInv, NEW t \in Readers, Metrics!SnapshotRead(t)
    PROVE  TeleInv'
<1>1. TeleShape /\ TeleTyped /\ TeleTimes /\ TeleLife /\ TeleCounts /\ TeleWindow /\ TeleReader
  BY DEF TeleInv
<1> DEFINE now == tele.reader[t].now
           win == [k \in Metrics!Kinds |-> Metrics!Evict(tele.window[k], now)]
           nums == <<tele.total, tele.finished, Cardinality(tele.inflight)>>
           sorted == Metrics!Ordered(tele.e2e)
           old == tele.reader[t]
           r == [pc |-> "read", now |-> old.now, seen |-> old.seen, counters |-> nums,
                 samples |-> win, e2e |-> sorted]
           reader == [tele.reader EXCEPT ![t] = r]
<1>2. old.pc = "lock"
  BY Libraries DEF Metrics!SnapshotRead
<1>3. old.seen \in 0..tele.told /\ now \in 0..tele.clock
  BY <1>1, <1>2 DEF TeleReader
<1>4. tele' = [tele EXCEPT !.reader = reader, !.window = win]
  <2>1. tele' = [tele EXCEPT !.window = win, !.reader[t] = r]
    BY Libraries DEF Metrics!SnapshotRead
  <2> HIDE DEF r, win
  <2>2. [tele EXCEPT !.window = win].reader = tele.reader
    BY <1>1 DEF TeleShape
  <2> QED BY <1>1, <2>1, <2>2 DEF TeleShape
<1>5. reader[t] = r /\ DOMAIN reader = Readers /\ \A u \in Readers : u # t => reader[u] = tele.reader[u]
  BY <1>1 DEF TeleShape
<1>6. now \in Int /\ tele.clock \in Nat /\ tele.told \in Nat /\ WindowS \in Nat
  BY <1>1, <1>3, Libraries DEF TeleTyped, Metrics!TelemetryConstants
<1>7. ASSUME NEW k \in Metrics!Kinds
      PROVE  LET q == tele.window[k] IN
             /\ q \in Seq(Samples) /\ InTime(q)
             /\ win[k] = Metrics!Evict(q, now)
             /\ win[k] \in Seq(Samples) /\ InTime(win[k])
             /\ \A i \in DOMAIN win[k] : /\ win[k][i].at >= now - WindowS
                                        /\ \E j \in DOMAIN q : win[k][i] = q[j]
             /\ \A j \in DOMAIN q : q[j].at >= now - WindowS => \E i \in DOMAIN win[k] : win[k][i] = q[j]
  <2> DEFINE q == tele.window[k]
  <2>1. q \in Seq(Samples) /\ InTime(q)
    BY <1>1 DEF TeleTyped, TeleTimes, InTime
  <2>2. win[k] = Metrics!Evict(q, now)
    OBVIOUS
  <2> HIDE DEF q, win, now
  <2>3. /\ Metrics!Evict(q, now) \in Seq(Samples) /\ InTime(Metrics!Evict(q, now))
        /\ \A i \in DOMAIN Metrics!Evict(q, now) :
             /\ Metrics!Evict(q, now)[i].at >= now - WindowS
             /\ \E j \in DOMAIN q : Metrics!Evict(q, now)[i] = q[j]
        /\ \A j \in DOMAIN q : q[j].at >= now - WindowS =>
             \E i \in DOMAIN Metrics!Evict(q, now) : Metrics!Evict(q, now)[i] = q[j]
    BY <1>6, <2>1, EvictFacts
  <2> QED BY <2>1, <2>2, <2>3 DEF q
<1>8. r.counters[2] >= r.seen /\ r.counters[1] = r.counters[2] + r.counters[3]
  <2>1. tele.total = tele.finished + Cardinality(tele.inflight)
    BY <1>1 DEF TeleCounts
  <2>2. tele.finished >= tele.told
    BY <1>1, <1>6 DEF TeleCounts, TeleTyped
  <2>3. old.seen <= tele.told /\ old.seen \in Int /\ tele.finished \in Nat
    BY <1>1, <1>3 DEF TeleTyped
  <2>4. r.counters = nums /\ r.seen = old.seen
    OBVIOUS
  <2>5. nums[1] = tele.total /\ nums[2] = tele.finished /\ nums[3] = Cardinality(tele.inflight)
    OBVIOUS
  <2> HIDE DEF nums, r, old
  <2> QED BY <1>6, <2>1, <2>2, <2>3, <2>4, <2>5
<1>9. Metrics!Percentile(r.e2e, 50) <= Metrics!Percentile(r.e2e, 99)
  BY <1>1, PercentilesInOrder DEF TeleTyped
<1>10. \A k \in Metrics!Kinds : \A i \in DOMAIN r.samples[k] : r.samples[k][i].at >= r.now - WindowS
  <2>1. r.samples = win /\ r.now = now
    OBVIOUS
  <2> HIDE DEF r, win, now
  <2> QED BY <1>7, <2>1
<1>11. r.pc = "read" /\ r = [pc |-> r.pc, now |-> r.now, seen |-> r.seen, counters |-> r.counters,
                             samples |-> r.samples, e2e |-> r.e2e]
  OBVIOUS
<1>12. win \in [Metrics!Kinds -> Seq(Samples)]
  BY <1>7
<1> HIDE DEF r, reader, win
<1>13. /\ TeleLife' /\ TeleCounts'
       /\ tele'.reader = reader /\ tele'.window = win /\ tele'.clock = tele.clock
       /\ tele'.now = tele.now /\ tele'.req = tele.req /\ tele'.pc = tele.pc
       /\ tele'.recorded = tele.recorded /\ tele'.told = tele.told
       /\ TeleTyped'
  BY <1>4, <1>12, ReaderOnly
<1>14. TeleShape'
  <2>1. \A u \in Readers : LET q == reader[u] IN
            q = [pc |-> q.pc, now |-> q.now, seen |-> q.seen, counters |-> q.counters,
                 samples |-> q.samples, e2e |-> q.e2e]
    BY <1>1, <1>5, <1>11 DEF TeleShape
  <2>2. tele = [clock |-> tele.clock, pc |-> tele.pc, now |-> tele.now, todo |-> tele.todo,
               pending |-> tele.pending, kind |-> tele.kind, tokens |-> tele.tokens,
               req |-> tele.req, inflight |-> tele.inflight, total |-> tele.total,
               finished |-> tele.finished, counted |-> tele.counted, rows |-> tele.rows,
               told |-> tele.told, window |-> tele.window, recorded |-> tele.recorded,
               ttft |-> tele.ttft, e2e |-> tele.e2e, reader |-> tele.reader]
    BY <1>1 DEF TeleShape
  <2>3. tele' = [clock |-> tele'.clock, pc |-> tele'.pc, now |-> tele'.now, todo |-> tele'.todo,
               pending |-> tele'.pending, kind |-> tele'.kind, tokens |-> tele'.tokens,
               req |-> tele'.req, inflight |-> tele'.inflight, total |-> tele'.total,
               finished |-> tele'.finished, counted |-> tele'.counted, rows |-> tele'.rows,
               told |-> tele'.told, window |-> tele'.window, recorded |-> tele'.recorded,
               ttft |-> tele'.ttft, e2e |-> tele'.e2e, reader |-> tele'.reader]
    BY <1>4, <2>2
  <2> QED BY <1>5, <1>13, <2>1, <2>3 DEF TeleShape
<1>15. TeleTimes'
  <2>1. \A k \in Metrics!Kinds : InTime(win[k])
    BY <1>7
  <2>2. \A k \in Metrics!Kinds : \A i \in DOMAIN win[k] :
            /\ win[k][i].at <= tele.clock
            /\ tele.now # Metrics!NoTime => win[k][i].at <= tele.now
    <3> SUFFICES ASSUME NEW k \in Metrics!Kinds, NEW i \in DOMAIN win[k]
                 PROVE  /\ win[k][i].at <= tele.clock
                        /\ tele.now # Metrics!NoTime => win[k][i].at <= tele.now
      OBVIOUS
    <3>1. PICK j \in DOMAIN tele.window[k] : win[k][i] = tele.window[k][j]
      BY <1>7
    <3> QED BY <1>1, <3>1 DEF TeleTimes
  <2> QED BY <1>1, <1>13, <2>1, <2>2 DEF TeleTimes, InTime
<1>16. TeleWindow'
  <2> SUFFICES ASSUME NEW x \in tele.recorded, x[2].at >= tele.clock - WindowS
               PROVE  x[2] \in Metrics!ToSet(win[x[1]])
    BY <1>13 DEF TeleWindow
  <2>1. x[1] \in Metrics!Kinds /\ x[2] \in Samples
    BY <1>1 DEF TeleTyped
  <2>2. PICK j \in DOMAIN tele.window[x[1]] : tele.window[x[1]][j] = x[2]
    BY <1>1 DEF TeleWindow, Metrics!ToSet
  <2>3. x[2].at >= now - WindowS
    <3>1. x[2].at \in Int /\ now <= tele.clock
      BY <1>3, <2>1 DEF Samples
    <3> HIDE DEF now
    <3> QED BY <1>6, <3>1
  <2>4. \E i \in DOMAIN win[x[1]] : win[x[1]][i] = x[2]
    <3> HIDE DEF now
    <3> QED BY <1>7, <2>1, <2>2, <2>3
  <2> QED BY <2>4 DEF Metrics!ToSet
<1>17. TeleReader'
  <2>1. \A u \in Readers : u # t => reader[u] = tele.reader[u]
    BY <1>5
  <2> QED BY <1>1, <1>5, <1>8, <1>9, <1>10, <1>11, <1>13, <2>1 DEF TeleReader
<1> QED BY <1>13, <1>14, <1>15, <1>16, <1>17 DEF TeleInv

-----------------------------------------------------------------------------
(* The worker *)

\* No tokens yet.
LEMMA SumOfZeros ==
    ASSUME NEW S, IsFiniteSet(S), NEW f, \A x \in S : f[x] = 0
    PROVE  SumFunctionOnSet(f, S) = 0
<1> DEFINE G == {T \in SUBSET S : SumFunctionOnSet(f, T) = 0}
<1>1. ASSUME NEW T \in SUBSET S, \A x \in T : T \ {x} \in G PROVE T \in G
  <2>1. IsFiniteSet(T) /\ \A x \in T : f[x] \in Nat
    BY FS_Subset
  <2>2. CASE T = {}
    BY <2>1, <2>2, SumFacts
  <2>3. CASE T # {}
    <3>1. PICK x \in T : TRUE
      BY <2>3
    <3>2. SumFunctionOnSet(f, T) = f[x] + SumFunctionOnSet(f, T \ {x})
      BY <2>1, SumFacts
    <3>3. f[x] = 0 /\ SumFunctionOnSet(f, T \ {x}) = 0
      BY <1>1
    <3> QED BY <3>2, <3>3
  <2> QED BY <2>2, <2>3
<1>2. SUBSET S \subseteq G
  <2> HIDE DEF G
  <2> QED BY <1>1, SubsetInduct
<1> QED BY <1>2

\* One token more for each request of a batch.
LEMMA SumMore ==
    ASSUME NEW S, IsFiniteSet(S), NEW B \in SUBSET S, NEW f, NEW h,
           \A x \in S : f[x] \in Nat,
           \A x \in S : h[x] = IF x \in B THEN f[x] + 1 ELSE f[x]
    PROVE  SumFunctionOnSet(h, S) = SumFunctionOnSet(f, S) + Cardinality(B)
<1> DEFINE G == {T \in SUBSET S : SumFunctionOnSet(h, T) = SumFunctionOnSet(f, T) + Cardinality(T \cap B)}
<1>1. ASSUME NEW T \in SUBSET S, \A x \in T : T \ {x} \in G PROVE T \in G
  <2>1. IsFiniteSet(T) /\ (\A x \in T : f[x] \in Nat) /\ (\A x \in T : h[x] \in Nat)
    BY FS_Subset
  <2>2. CASE T = {}
    <3>1. SumFunctionOnSet(f, T) = 0 /\ SumFunctionOnSet(h, T) = 0
      BY <2>1, <2>2, SumFacts
    <3>2. T \cap B = {}
      BY <2>2
    <3>3. Cardinality(T \cap B) = 0
      BY <3>2, FS_EmptySet
    <3> QED BY <3>1, <3>3
  <2>3. CASE T # {}
    <3>1. PICK x \in T : TRUE
      BY <2>3
    <3> DEFINE R == T \ {x}
    <3>2. SumFunctionOnSet(f, T) = f[x] + SumFunctionOnSet(f, R)
      BY <2>1, SumFacts
    <3>3. SumFunctionOnSet(h, T) = h[x] + SumFunctionOnSet(h, R)
      BY <2>1, SumFacts
    <3>4. IsFiniteSet(R)
      BY <2>1, FS_Subset
    <3>5. SumFunctionOnSet(h, R) = SumFunctionOnSet(f, R) + Cardinality(R \cap B)
      BY <1>1
    <3>6. SumFunctionOnSet(f, R) \in Nat
      BY <2>1, <3>4, SumFacts
    <3>7. IsFiniteSet(R \cap B) /\ Cardinality(R \cap B) \in Nat
      BY <3>4, FS_Subset, FS_CardinalityType
    <3>8. CASE x \in B
      <4>1. T \cap B = (R \cap B) \cup {x} /\ x \notin R \cap B
        BY <3>8
      <4>2. Cardinality(T \cap B) = Cardinality(R \cap B) + 1
        BY <3>7, <4>1, FS_AddElement
      <4>3. h[x] = f[x] + 1 /\ f[x] \in Nat
        BY <2>1, <3>8
      <4> HIDE DEF R
      <4>4. SumFunctionOnSet(h, T) = SumFunctionOnSet(f, T) + Cardinality(T \cap B)
        BY <3>2, <3>3, <3>5, <3>6, <3>7, <4>2, <4>3
      <4> QED BY <4>4
    <3>9. CASE x \notin B
      <4>1. T \cap B = R \cap B
        BY <3>9
      <4>2. h[x] = f[x] /\ f[x] \in Nat
        BY <2>1, <3>9
      <4> HIDE DEF R
      <4>3. SumFunctionOnSet(h, T) = SumFunctionOnSet(f, T) + Cardinality(T \cap B)
        BY <3>2, <3>3, <3>5, <3>6, <3>7, <4>1, <4>2
      <4> QED BY <4>3
    <3> QED BY <3>8, <3>9
  <2> QED BY <2>2, <2>3
<1>2. SUBSET S \subseteq G
  <2> HIDE DEF G
  <2> QED BY <1>1, SubsetInduct
<1>3. S \in G /\ S \cap B = B
  BY <1>2
<1> QED BY <1>3

\* At first nothing was counted.
LEMMA TeleInitial == ASSUME Metrics!TelemetryConstants, Metrics!Init PROVE TeleInv
<1>1. IsFiniteSet(Reqs) /\ LatencyWindow \in Nat
  BY Libraries DEF Metrics!TelemetryConstants
<1>2. /\ tele.clock = 0 /\ tele.pc = "top" /\ tele.now = Metrics!NoTime /\ tele.todo = <<>>
      /\ tele.pending = <<>> /\ tele.kind = "prefill" /\ tele.tokens = 0
      /\ tele.inflight = {} /\ tele.total = 0 /\ tele.finished = 0
      /\ tele.counted = [k \in Metrics!Kinds |-> 0] /\ tele.rows = 0 /\ tele.told = 0
      /\ tele.window = [k \in Metrics!Kinds |-> <<>>] /\ tele.recorded = {}
      /\ tele.ttft = <<>> /\ tele.e2e = <<>>
      /\ tele.reader = [t \in Readers |-> Metrics!Reading]
  BY Libraries DEF Metrics!Init
<1>3. tele.req = [r \in Reqs |-> [st |-> "new", out |-> 0, sent |-> 0,
                                  start |-> Metrics!NoTime, first |-> Metrics!NoTime, end |-> Metrics!NoTime]]
  BY Libraries DEF Metrics!Init
<1>4. \A r \in Reqs : /\ tele.req[r].st = "new" /\ tele.req[r].out = 0 /\ tele.req[r].sent = 0
                      /\ tele.req[r].start = Metrics!NoTime /\ tele.req[r].first = Metrics!NoTime
                      /\ tele.req[r].end = Metrics!NoTime
  BY <1>3
<1>5. Metrics!NoTime \in Times /\ Metrics!NoTime \in Int /\ Metrics!NoTime <= 0
  BY DEF Times, Metrics!NoTime
<1>6. TeleShape
  <2>1. \A t \in Readers : tele.reader[t] = Metrics!Reading
    BY <1>2
  <2>2. Metrics!Reading = [pc |-> Metrics!Reading.pc, now |-> Metrics!Reading.now, seen |-> Metrics!Reading.seen,
                   counters |-> Metrics!Reading.counters, samples |-> Metrics!Reading.samples, e2e |-> Metrics!Reading.e2e]
    BY DEF Metrics!Reading
  <2>3. tele = [clock |-> tele.clock, pc |-> tele.pc, now |-> tele.now, todo |-> tele.todo,
               pending |-> tele.pending, kind |-> tele.kind, tokens |-> tele.tokens,
               req |-> tele.req, inflight |-> tele.inflight, total |-> tele.total,
               finished |-> tele.finished, counted |-> tele.counted, rows |-> tele.rows,
               told |-> tele.told, window |-> tele.window, recorded |-> tele.recorded,
               ttft |-> tele.ttft, e2e |-> tele.e2e, reader |-> tele.reader]
    BY Libraries DEF Metrics!Init
  <2> QED BY <1>2, <2>1, <2>2, <2>3 DEF TeleShape
<1>7. TeleTyped
  <2>1. tele.req \in [Reqs -> [st : {"new", "waiting", "running", "finished"}, out : Nat, sent : Nat,
                              start : Times, first : Times, end : Times]]
    BY <1>3, <1>5
  <2>2. tele.window \in [Metrics!Kinds -> Seq(Samples)] /\ tele.counted \in [Metrics!Kinds -> Nat]
    BY <1>2
  <2> QED BY <1>2, <1>5, <2>1, <2>2 DEF TeleTyped, Metrics!Kinds
<1>8. TeleTimes
  <2>1. \A k \in Metrics!Kinds : DOMAIN tele.window[k] = {}
    BY <1>2
  <2> QED BY <1>2, <1>4, <1>5, <2>1 DEF TeleTimes
<1>9. TeleLife
  <2>1. tele.inflight = {r \in Reqs : tele.req[r].st # "new" /\ tele.req[r].end = Metrics!NoTime}
    BY <1>2, <1>4
  <2>2. DOMAIN tele.pending = {} /\ DOMAIN tele.todo = {}
    BY <1>2
  <2>3. \A r \in Reqs : LET q == tele.req[r] IN
            /\ q.end # Metrics!NoTime => q.st = "finished"
            /\ q.st = "new" => q.first = Metrics!NoTime
            /\ q.st = "finished" => q.out > 0
            /\ q.sent > 0 => q.first # Metrics!NoTime
    BY <1>4
  <2> QED BY <1>2, <2>1, <2>2, <2>3 DEF TeleLife, NoDuplicates
<1>10. TeleCounts
  <2> DEFINE f == [r \in Reqs |-> tele.req[r].out]
  <2>1. DOMAIN f = Reqs /\ \A r \in Reqs : f[r] = 0
    BY <1>4
  <2> HIDE DEF f
  <2>2. SumFunction(f) = 0
    BY <1>1, <2>1, SumOfZeros, Libraries DEF SumFunction
  <2>3. Cardinality(tele.inflight) = 0
    BY <1>2, FS_EmptySet
  <2>4. tele.counted["decode"] = 0
    BY <1>2 DEF Metrics!Kinds
  <2>5. Len(tele.ttft) = 0 /\ Len(tele.e2e) = 0
    BY <1>2
  <2> QED BY <1>1, <1>2, <2>2, <2>3, <2>4, <2>5 DEF TeleCounts, f
<1>11. TeleWindow
  BY <1>2 DEF TeleWindow
<1>12. TeleReader
  <2>1. \A t \in Readers : tele.reader[t].pc = "off"
    BY <1>2 DEF Metrics!Reading
  <2> QED BY <2>1 DEF TeleReader
<1> QED BY <1>6, <1>7, <1>8, <1>9, <1>10, <1>11, <1>12 DEF TeleInv

\* The record of a request that arrives.
LEMMA RegisteredRecord ==
    ASSUME NEW o, NEW clock,
           o = [st |-> o.st, out |-> o.out, sent |-> o.sent,
                start |-> o.start, first |-> o.first, end |-> o.end]
    PROVE  [o EXCEPT !.st = "waiting", !.start = clock]
             = [st |-> "waiting", out |-> o.out, sent |-> o.sent,
                start |-> clock, first |-> o.first, end |-> o.end]
<1> DEFINE x == [o EXCEPT !.st = "waiting"]
<1>1. x = [st |-> "waiting", out |-> o.out, sent |-> o.sent,
           start |-> o.start, first |-> o.first, end |-> o.end]
  OBVIOUS
<1> HIDE DEF x
<1>2. [x EXCEPT !.start = clock] = [st |-> "waiting", out |-> o.out, sent |-> o.sent,
                                    start |-> clock, first |-> o.first, end |-> o.end]
  BY <1>1
<1> QED BY <1>2 DEF x

\* A request arrives between two steps.
LEMMA RegisterStep == ASSUME Metrics!TelemetryConstants, TeleInv, NEW r \in Reqs, Metrics!Register(r) PROVE TeleInv'
<1>1. TeleShape /\ TeleTyped /\ TeleTimes /\ TeleLife /\ TeleCounts /\ TeleWindow /\ TeleReader
  BY DEF TeleInv
<1> DEFINE old == tele.req[r]
           q == [st |-> "waiting", out |-> old.out, sent |-> old.sent,
                 start |-> tele.clock, first |-> old.first, end |-> old.end]
           req == [tele.req EXCEPT ![r] = q]
           pending == Append(tele.pending, r)
           inflight == tele.inflight \cup {r}
<1>2. /\ tele' = [tele EXCEPT !.req = req, !.pending = pending, !.total = tele.total + 1,
                              !.inflight = inflight]
      /\ tele.pc = "top" /\ old.st = "new"
  <2> DEFINE new == [old EXCEPT !.st = "waiting", !.start = tele.clock]
  <2>1. /\ tele' = [tele EXCEPT !.req[r] = new, !.pending = pending, !.total = tele.total + 1,
                              !.inflight = inflight]
        /\ tele.pc = "top" /\ old.st = "new"
    BY DEF Metrics!Register
  <2>2. old = [st |-> old.st, out |-> old.out, sent |-> old.sent,
               start |-> old.start, first |-> old.first, end |-> old.end]
    BY RequestTyped
  <2>3. new = q
    BY <2>2, RegisteredRecord
  <2> HIDE DEF new, q, pending, inflight
  <2> QED BY <2>1, <2>3
<1> HIDE DEF pending, inflight, req
<1>3. /\ tele'.clock = tele.clock /\ tele'.pc = tele.pc /\ tele'.now = tele.now
      /\ tele'.todo = tele.todo /\ tele'.pending = pending /\ tele'.kind = tele.kind
      /\ tele'.tokens = tele.tokens /\ tele'.req = req /\ tele'.inflight = inflight
      /\ tele'.total = tele.total + 1 /\ tele'.finished = tele.finished
      /\ tele'.counted = tele.counted /\ tele'.rows = tele.rows /\ tele'.told = tele.told
      /\ tele'.window = tele.window /\ tele'.recorded = tele.recorded
      /\ tele'.ttft = tele.ttft /\ tele'.e2e = tele.e2e /\ tele'.reader = tele.reader
  BY <1>1, <1>2 DEF TeleShape
<1>4. /\ DOMAIN req = Reqs /\ req[r] = q /\ \A x \in Reqs : x # r => req[x] = tele.req[x]
      /\ \A x \in Reqs : req[x].out = tele.req[x].out
  BY RequestTyped DEF req
<1>5. /\ old.out \in Nat /\ old.sent \in Nat /\ old.start \in Int
      /\ old.first \in Times /\ old.end \in Times
      /\ tele.clock \in Nat /\ tele.total \in Nat /\ tele.clock \in Times
  BY <1>1, RequestTyped DEF TeleTyped, Times
<1>6. old.end = Metrics!NoTime /\ old.first = Metrics!NoTime
  BY <1>1, <1>2 DEF TeleLife
<1>7. tele.now = Metrics!NoTime
  BY <1>1, <1>2 DEF TeleTimes
<1>8. /\ pending \in Seq(Reqs) /\ NoDuplicates(pending) /\ Len(pending) = Len(tele.pending) + 1
      /\ \A i \in DOMAIN pending : pending[i] = r \/ (i \in DOMAIN tele.pending /\ pending[i] = tele.pending[i])
  <2>1. tele.pending \in Seq(Reqs) /\ NoDuplicates(tele.pending)
    BY <1>1 DEF TeleTyped, TeleLife
  <2>2. r \notin Range(tele.pending)
    BY <1>1, <1>2 DEF TeleLife, Range
  <2>3. pending \in Seq(Reqs) /\ NoDuplicates(pending)
    BY <2>1, <2>2, AppendFacts DEF pending
  <2> QED BY <2>1, <2>3 DEF pending
<1>9. /\ \A i \in DOMAIN tele.todo : tele.todo[i] # r /\ tele.todo[i] \in Reqs
      /\ \A i \in DOMAIN tele.pending : tele.pending[i] # r /\ tele.pending[i] \in Reqs
  BY <1>1, <1>2 DEF TeleLife, TeleTyped
<1>10. TeleShape'
  BY <1>1, <1>2, <1>3 DEF TeleShape
<1>11. TeleTyped'
  <2>1. q \in [st : {"new", "waiting", "running", "finished"}, out : Nat, sent : Nat,
               start : Times, first : Times, end : Times]
    BY <1>5
  <2> HIDE DEF q
  <2>2. req \in [Reqs -> [st : {"new", "waiting", "running", "finished"}, out : Nat, sent : Nat,
                              start : Times, first : Times, end : Times]]
    BY <1>1, <2>1 DEF TeleTyped, req
  <2>3. tele.total + 1 \in Nat
    BY <1>5
  <2> QED BY <1>1, <1>3, <1>8, <2>2, <2>3 DEF TeleTyped
<1>12. TeleTimes'
  <2>1. \A x \in Reqs : LET z == req[x] IN
            /\ z.start <= tele.clock /\ z.first <= tele.clock
            /\ z.first # Metrics!NoTime => z.start <= z.first
            /\ z.end # Metrics!NoTime => z.first # Metrics!NoTime /\ z.first <= z.end
    <3> SUFFICES ASSUME NEW x \in Reqs
                 PROVE  /\ req[x].start <= tele.clock /\ req[x].first <= tele.clock
                        /\ req[x].first # Metrics!NoTime => req[x].start <= req[x].first
                        /\ req[x].end # Metrics!NoTime => req[x].first # Metrics!NoTime /\ req[x].first <= req[x].end
      OBVIOUS
    <3>1. CASE x = r
      BY <1>4, <1>5, <1>6, <3>1 DEF Metrics!NoTime
    <3>2. CASE x # r
      BY <1>1, <1>4, <3>2 DEF TeleTimes
    <3> QED BY <3>1, <3>2
  <2> QED BY <1>1, <1>3, <1>7, <2>1 DEF TeleTimes
<1>13. TeleLife'
  <2>1. inflight = {x \in Reqs : req[x].st # "new" /\ req[x].end = Metrics!NoTime}
    BY <1>1, <1>4, <1>6 DEF TeleLife, inflight
  <2>2. \A x \in Reqs : LET z == req[x] IN
            /\ z.end # Metrics!NoTime => z.st = "finished"
            /\ z.st = "new" => z.first = Metrics!NoTime
            /\ z.st = "finished" => z.out > 0
            /\ z.sent > 0 => z.first # Metrics!NoTime
    BY <1>1, <1>2, <1>4, <1>6 DEF TeleLife
  <2>3. \A i \in DOMAIN pending : req[pending[i]].st # "new" /\ req[pending[i]].end = Metrics!NoTime
    BY <1>1, <1>2, <1>4, <1>6, <1>8, <1>9 DEF TeleLife
  <2>4. \A i \in DOMAIN tele.todo : req[tele.todo[i]].st # "new" /\ req[tele.todo[i]].end = Metrics!NoTime
    BY <1>1, <1>2, <1>4, <1>9 DEF TeleLife
  <2> QED BY <1>1, <1>2, <1>3, <1>8, <2>1, <2>2, <2>3, <2>4 DEF TeleLife, Metrics!This
<1>14. TeleCounts'
  <2>1. [x \in Reqs |-> req[x].out] = [x \in Reqs |-> tele.req[x].out]
    BY <1>4
  <2>2. r \notin tele.inflight /\ IsFiniteSet(tele.inflight)
    <3>1. tele.inflight \subseteq Reqs /\ r \notin tele.inflight
      BY <1>1, <1>2 DEF TeleLife
    <3> QED BY <3>1, FS_Subset, Libraries DEF Metrics!TelemetryConstants
  <2>3. Cardinality(inflight) = Cardinality(tele.inflight) + 1 /\ Cardinality(tele.inflight) \in Nat
    BY <2>2, FS_AddElement, FS_CardinalityType DEF inflight
  <2>4. tele.finished \in Nat /\ tele.total + 1 = tele.finished + Cardinality(inflight)
    BY <1>1, <1>5, <2>3 DEF TeleCounts, TeleTyped
  <2> QED BY <1>1, <1>2, <1>3, <2>1, <2>4 DEF TeleCounts
<1>15. TeleWindow'
  BY <1>1, <1>3 DEF TeleWindow
<1>16. TeleReader'
  BY <1>1, <1>3, ReaderKept DEF TeleTyped
<1> QED BY <1>10, <1>11, <1>12, <1>13, <1>14, <1>15, <1>16 DEF TeleInv

\* The clock is read before the lock is taken.
LEMMA ReadClockStep == ASSUME Metrics!TelemetryConstants, TeleInv, Metrics!ReadClock PROVE TeleInv'
<1>1. TeleShape /\ TeleTyped /\ TeleTimes /\ TeleLife /\ TeleCounts /\ TeleWindow /\ TeleReader
  BY DEF TeleInv
<1>2. tele' = [tele EXCEPT !.now = tele.clock] /\ tele.pc \in {"step", "first", "finish"}
  BY DEF Metrics!ReadClock
<1>3. /\ tele'.clock = tele.clock /\ tele'.pc = tele.pc /\ tele'.now = tele.clock
      /\ tele'.todo = tele.todo /\ tele'.pending = tele.pending /\ tele'.kind = tele.kind
      /\ tele'.tokens = tele.tokens /\ tele'.req = tele.req /\ tele'.inflight = tele.inflight
      /\ tele'.total = tele.total /\ tele'.finished = tele.finished
      /\ tele'.counted = tele.counted /\ tele'.rows = tele.rows /\ tele'.told = tele.told
      /\ tele'.window = tele.window /\ tele'.recorded = tele.recorded
      /\ tele'.ttft = tele.ttft /\ tele'.e2e = tele.e2e /\ tele'.reader = tele.reader
  BY <1>1, <1>2 DEF TeleShape
<1>4. tele.clock \in Nat /\ tele.clock \in Times /\ tele.clock # Metrics!NoTime /\ tele.told \in Nat
  BY <1>1 DEF TeleTyped, Times, Metrics!NoTime
<1>5. TeleShape'
  BY <1>1, <1>2, <1>3 DEF TeleShape
<1>6. TeleTyped'
  BY <1>1, <1>3, <1>4 DEF TeleTyped
<1>7. TeleTimes'
  BY <1>1, <1>2, <1>3, <1>4 DEF TeleTimes
<1>8. TeleLife'
  BY <1>1, <1>3 DEF TeleLife, Metrics!This
<1>9. TeleCounts'
  BY <1>1, <1>3 DEF TeleCounts
<1>10. TeleWindow'
  BY <1>1, <1>3 DEF TeleWindow
<1>11. TeleReader'
  BY <1>3, <1>4, ReaderKept
<1> QED BY <1>5, <1>6, <1>7, <1>8, <1>9, <1>10, <1>11 DEF TeleInv

\* A step generates a token for each request of its batch.
LEMMA StepStep ==
    ASSUME Metrics!TelemetryConstants, TeleInv, NEW batch \in SUBSET Reqs, Metrics!Step(batch) PROVE TeleInv'
<1>1. TeleShape /\ TeleTyped /\ TeleTimes /\ TeleLife /\ TeleCounts /\ TeleWindow /\ TeleReader
  BY DEF TeleInv
<1> DEFINE prefill == Metrics!In("waiting") # {}
           size == Cardinality(batch)
           more(r) == [tele.req[r] EXCEPT !.out = tele.req[r].out + 1,
                                          !.st = IF tele.req[r].out + 1 = MaxTokens[r]
                                                 THEN "finished" ELSE "running"]
           req == [r \in Reqs |-> IF r \in batch THEN more(r) ELSE tele.req[r]]
           kind == IF prefill THEN "prefill" ELSE "decode"
           rows == tele.rows + IF prefill THEN size ELSE 0
<1>2. /\ tele.pc = "top"
      /\ \A r \in batch : tele.req[r].st \in {"waiting", "running"}
  BY Libraries DEF Metrics!Step, Metrics!In
<1> HIDE DEF req, kind, rows, size
<1>3. tele' = [tele EXCEPT !.pc = "step", !.kind = kind, !.tokens = size, !.rows = rows, !.req = req]
  BY Libraries DEF Metrics!Step, req, kind, rows, size
<1>4. /\ tele'.clock = tele.clock /\ tele'.pc = "step" /\ tele'.now = tele.now
      /\ tele'.todo = tele.todo /\ tele'.pending = tele.pending /\ tele'.kind = kind
      /\ tele'.tokens = size /\ tele'.req = req /\ tele'.inflight = tele.inflight
      /\ tele'.total = tele.total /\ tele'.finished = tele.finished
      /\ tele'.counted = tele.counted /\ tele'.rows = rows /\ tele'.told = tele.told
      /\ tele'.window = tele.window /\ tele'.recorded = tele.recorded
      /\ tele'.ttft = tele.ttft /\ tele'.e2e = tele.e2e /\ tele'.reader = tele.reader
  BY <1>1, <1>3 DEF TeleShape
<1>5. /\ kind \in Metrics!Kinds
      /\ kind = "decode" => rows = tele.rows
      /\ kind # "decode" => rows = tele.rows + size
  BY <1>1 DEF kind, rows, Metrics!Kinds, TeleTyped
<1>6. size \in Nat /\ rows \in Nat
  <2>1. IsFiniteSet(batch)
    BY FS_Subset, Libraries DEF Metrics!TelemetryConstants
  <2>2. size \in Nat
    BY <2>1, FS_CardinalityType DEF size
  <2> QED BY <1>1, <2>2 DEF TeleTyped, rows
<1>7. ASSUME NEW r \in Reqs
      PROVE  LET q == req[r] IN
             /\ q.st \in {"new", "waiting", "running", "finished"} /\ q.out \in Nat
             /\ q \in [st : {"new", "waiting", "running", "finished"}, out : Nat, sent : Nat,
                       start : Times, first : Times, end : Times]
             /\ q.sent = tele.req[r].sent /\ q.start = tele.req[r].start
             /\ q.first = tele.req[r].first /\ q.end = tele.req[r].end
             /\ q.out = IF r \in batch THEN tele.req[r].out + 1 ELSE tele.req[r].out
             /\ r \in batch => q.st \in {"running", "finished"} /\ q.out > 0
             /\ r \notin batch => q = tele.req[r]
             /\ q.st = "new" <=> tele.req[r].st = "new"
  <2> DEFINE o == tele.req[r]
             q == req[r]
  <2>1. /\ o \in [st : {"new", "waiting", "running", "finished"}, out : Nat, sent : Nat,
                  start : Times, first : Times, end : Times]
        /\ o.out \in Nat
    BY <1>1 DEF TeleTyped
  <2>2. CASE r \in batch
    <3>1. q = more(r)
      BY <2>2 DEF req
    <3> DEFINE st == IF o.out + 1 = MaxTokens[r] THEN "finished" ELSE "running"
               out == o.out + 1
    <3>2. q = [o EXCEPT !.out = out, !.st = st]
      BY <3>1
    <3>3. st \in {"running", "finished"} /\ out \in Nat /\ out > 0
      BY <2>1
    <3>4. o.st # "new"
      BY <1>2, <2>2
    <3> HIDE DEF o, q, st, out
    <3>5. q \in [st : {"new", "waiting", "running", "finished"}, out : Nat, sent : Nat,
                 start : Times, first : Times, end : Times]
      BY <2>1, <3>2, <3>3
    <3>6. /\ q.out = out /\ q.st = st /\ q.sent = o.sent /\ q.start = o.start
          /\ q.first = o.first /\ q.end = o.end
      BY <2>1, <3>2
    <3>7. q.st # "new"
      BY <3>3, <3>6
    <3> QED BY <2>2, <3>3, <3>4, <3>5, <3>6, <3>7 DEF o, q, out
  <2>3. CASE r \notin batch
    <3>1. q = o
      BY <2>3 DEF req
    <3> HIDE DEF o, q
    <3> QED BY <2>1, <2>3, <3>1 DEF o, q
  <2> QED BY <2>2, <2>3
<1>8. tele.now = Metrics!NoTime
  BY <1>1, <1>2 DEF TeleTimes
<1>9. TeleShape'
  BY <1>1, <1>3, <1>4 DEF TeleShape
<1>10. TeleTyped'
  <2>1. req \in [Reqs -> [st : {"new", "waiting", "running", "finished"}, out : Nat, sent : Nat,
                          start : Times, first : Times, end : Times]]
    BY <1>7 DEF req
  <2> QED BY <1>1, <1>4, <1>5, <1>6, <2>1 DEF TeleTyped
<1>11. TeleTimes'
  BY <1>1, <1>4, <1>7, <1>8 DEF TeleTimes
<1>12. TeleLife'
  <2>1. tele.inflight = {x \in Reqs : req[x].st # "new" /\ req[x].end = Metrics!NoTime}
    BY <1>1, <1>7 DEF TeleLife
  <2>2. ASSUME NEW x \in Reqs
        PROVE  LET z == req[x] IN
            /\ z.end # Metrics!NoTime => z.st = "finished"
            /\ z.st = "new" => z.first = Metrics!NoTime
            /\ z.st = "finished" => z.out > 0
            /\ z.sent > 0 => z.first # Metrics!NoTime
    <3>1. CASE x \in batch
      <4>1. tele.req[x].st \in {"waiting", "running"}
        BY <1>2, <3>1
      <4>2. tele.req[x].end = Metrics!NoTime
        BY <1>1, <4>1 DEF TeleLife
      <4> QED BY <1>1, <1>7, <3>1, <4>2 DEF TeleLife
    <3>2. CASE x \notin batch
      BY <1>1, <1>7, <3>2 DEF TeleLife
    <3> QED BY <3>1, <3>2
  <2>3. \A i \in DOMAIN tele.pending : req[tele.pending[i]].st # "new" /\ req[tele.pending[i]].end = Metrics!NoTime
    <3> SUFFICES ASSUME NEW i \in DOMAIN tele.pending
                 PROVE  req[tele.pending[i]].st # "new" /\ req[tele.pending[i]].end = Metrics!NoTime
      OBVIOUS
    <3>1. tele.pending[i] \in Reqs
      BY <1>1 DEF TeleTyped
    <3> QED BY <1>1, <1>2, <1>7, <3>1 DEF TeleLife
  <2>4. \A i \in DOMAIN tele.todo : req[tele.todo[i]].st # "new" /\ req[tele.todo[i]].end = Metrics!NoTime
    <3> SUFFICES ASSUME NEW i \in DOMAIN tele.todo
                 PROVE  req[tele.todo[i]].st # "new" /\ req[tele.todo[i]].end = Metrics!NoTime
      OBVIOUS
    <3>1. tele.todo[i] \in Reqs
      BY <1>1 DEF TeleTyped
    <3> QED BY <1>1, <1>2, <1>7, <3>1 DEF TeleLife
  <2> QED BY <1>1, <1>4, <2>1, <2>2, <2>3, <2>4 DEF TeleLife
<1>13. TeleCounts'
  <2> DEFINE f == [r \in Reqs |-> tele.req[r].out]
             h == [r \in Reqs |-> req[r].out]
  <2>1. /\ \A r \in Reqs : f[r] \in Nat
        /\ \A r \in Reqs : h[r] = IF r \in batch THEN f[r] + 1 ELSE f[r]
        /\ DOMAIN f = Reqs /\ DOMAIN h = Reqs
    BY <1>7, RequestTyped
  <2> DEFINE a == SumFunction(f)  b == SumFunction(h)
  <2>2. b = a + size
    <3> HIDE DEF f, h
    <3>1. SumFunctionOnSet(h, Reqs) = SumFunctionOnSet(f, Reqs) + Cardinality(batch)
      BY <2>1, SumMore, Libraries DEF Metrics!TelemetryConstants
    <3> QED BY <2>1, <3>1, Libraries DEF SumFunction, size
  <2> DEFINE c == tele.counted["decode"]
  <2>3. a = c + tele.rows /\ c \in Nat /\ tele.rows \in Nat
    <3>1. a = c + tele.rows + (IF tele.pc = "step" /\ tele.kind = "decode" THEN tele.tokens ELSE 0)
      BY <1>1 DEF TeleCounts
    <3>2. c \in Nat /\ tele.rows \in Nat
      BY <1>1 DEF TeleTyped, Metrics!Kinds
    <3> HIDE DEF a, c
    <3> QED BY <1>2, <3>1, <3>2
  <2>4. b = c + rows + IF kind = "decode" THEN size ELSE 0
    <3> HIDE DEF a, b, c
    <3> QED BY <1>5, <1>6, <2>2, <2>3
  <2>5. SumFunction([r \in Reqs |-> tele'.req[r].out]) = b
    BY <1>4
  <2> HIDE DEF b
  <2> QED BY <1>1, <1>2, <1>4, <2>4, <2>5 DEF TeleCounts
<1>14. TeleWindow'
  BY <1>1, <1>4 DEF TeleWindow
<1>15. TeleReader'
  BY <1>1, <1>4, ReaderKept DEF TeleTyped
<1> QED BY <1>9, <1>10, <1>11, <1>12, <1>13, <1>14, <1>15 DEF TeleInv

\* The step is recorded under the lock.
LEMMA RecordStepStep == ASSUME Metrics!TelemetryConstants, TeleInv, Metrics!RecordStep PROVE TeleInv'
<1>1. TeleShape /\ TeleTyped /\ TeleTimes /\ TeleLife /\ TeleCounts /\ TeleWindow /\ TeleReader
  BY DEF TeleInv
<1> DEFINE k == tele.kind
           sample == [at |-> tele.now, tokens |-> tele.tokens]
           longer == Append(tele.window[k], sample)
           kept == Metrics!Evict(longer, tele.now)
           window == [tele.window EXCEPT ![k] = kept]
           recorded == tele.recorded \cup {<<k, sample>>}
           n == tele.counted[k] + tele.tokens
           counted == [tele.counted EXCEPT ![k] = n]
<1>2. tele.pc = "step" /\ tele.now # Metrics!NoTime
  BY DEF Metrics!RecordStep
<1>3. tele' = [tele EXCEPT !.counted = counted, !.window = window, !.recorded = recorded,
                           !.pc = "next", !.todo = tele.pending, !.now = Metrics!NoTime]
  <2>1. tele' = [tele EXCEPT !.counted[k] = n, !.window[k] = kept, !.recorded = recorded,
                             !.pc = "next", !.todo = tele.pending, !.now = Metrics!NoTime]
    BY <1>1 DEF Metrics!RecordStep, TeleShape
  <2> HIDE DEF n, kept, recorded, k
  <2> QED BY <1>1, <2>1 DEF TeleShape
<1>4. k \in Metrics!Kinds /\ tele.now \in Nat /\ tele.tokens \in Nat /\ sample \in Samples /\ sample.at = tele.now
  BY <1>1, <1>2 DEF TeleTyped, Times, Samples
<1> HIDE DEF counted, window, recorded
<1>5. /\ tele'.clock = tele.clock /\ tele'.pc = "next" /\ tele'.now = Metrics!NoTime
      /\ tele'.todo = tele.pending /\ tele'.pending = tele.pending /\ tele'.kind = tele.kind
      /\ tele'.tokens = tele.tokens /\ tele'.req = tele.req /\ tele'.inflight = tele.inflight
      /\ tele'.total = tele.total /\ tele'.finished = tele.finished
      /\ tele'.counted = counted /\ tele'.rows = tele.rows /\ tele'.told = tele.told
      /\ tele'.window = window /\ tele'.recorded = recorded /\ tele'.ttft = tele.ttft
      /\ tele'.e2e = tele.e2e /\ tele'.reader = tele.reader
  BY <1>1, <1>3 DEF TeleShape
<1>6. /\ tele.clock \in Nat /\ tele.now <= tele.clock /\ WindowS \in Nat
      /\ tele.window[k] \in Seq(Samples) /\ InTime(tele.window[k])
      /\ \A i \in DOMAIN tele.window[k] : tele.window[k][i].at <= tele.now
  BY <1>1, <1>2, <1>4, Libraries DEF TeleTyped, TeleTimes, InTime, Metrics!TelemetryConstants
<1>7. /\ longer \in Seq(Samples) /\ InTime(longer) /\ tele.now \in Int
      /\ \A i \in DOMAIN longer : longer[i].at <= tele.now
      /\ \A i \in DOMAIN tele.window[k] : i \in DOMAIN longer /\ longer[i] = tele.window[k][i]
      /\ \E i \in DOMAIN longer : longer[i] = sample
  <2> DEFINE old == tele.window[k]
  <2>1. old \in Seq(Samples) /\ Len(old) \in Nat /\ DOMAIN old = 1..Len(old)
    BY <1>6
  <2> HIDE DEF old, sample
  <2> DEFINE s == Append(old, sample)
  <2>2. /\ s \in Seq(Samples) /\ DOMAIN s = 1..Len(old) + 1
        /\ \A i \in 1..Len(old) : s[i] = old[i]
        /\ s[Len(old) + 1] = sample
    BY <1>4, <2>1
  <2>3. Len(old) + 1 \in DOMAIN s
    BY <2>1, <2>2
  <2> HIDE DEF s
  <2>4. \A i \in DOMAIN s : s[i].at <= tele.now
    <3> SUFFICES ASSUME NEW i \in DOMAIN s PROVE s[i].at <= tele.now
      OBVIOUS
    <3>1. i \in 1..Len(old) \/ i = Len(old) + 1
      BY <2>1, <2>2
    <3> QED BY <1>4, <1>6, <2>1, <2>2, <3>1 DEF old
  <2>5. InTime(s)
    <3> SUFFICES ASSUME NEW i \in DOMAIN s, NEW j \in DOMAIN s, i <= j PROVE s[i].at <= s[j].at
      BY DEF InTime
    <3>1. CASE j = Len(old) + 1
      BY <1>4, <2>2, <2>4, <3>1
    <3>2. CASE j # Len(old) + 1
      <4>1. i \in 1..Len(old) /\ j \in 1..Len(old)
        BY <2>1, <2>2, <3>2
      <4> QED BY <1>6, <2>1, <2>2, <4>1 DEF InTime, old
    <3> QED BY <3>1, <3>2
  <2>6. \A i \in DOMAIN old : i \in DOMAIN s /\ s[i] = old[i]
    BY <2>1, <2>2
  <2>7. longer = s
    BY DEF s, old
  <2>8. tele.now \in Int
    BY <1>4
  <2> HIDE DEF longer
  <2>9. \A i \in DOMAIN old : i \in DOMAIN longer /\ longer[i] = old[i]
    BY <2>6, <2>7
  <2>10. longer \in Seq(Samples) /\ InTime(longer)
    BY <2>2, <2>5, <2>7
  <2>11. \A i \in DOMAIN longer : longer[i].at <= tele.now
    BY <2>4, <2>7
  <2>12. \E i \in DOMAIN longer : longer[i] = sample
    BY <2>2, <2>3, <2>7
  <2> QED BY <2>8, <2>9, <2>10, <2>11, <2>12 DEF old
<1> HIDE DEF longer, sample
<1>8. /\ kept \in Seq(Samples) /\ InTime(kept)
      /\ \A i \in DOMAIN kept : \E j \in DOMAIN longer : kept[i] = longer[j]
      /\ \A j \in DOMAIN longer : longer[j].at >= tele.now - WindowS =>
            \E i \in DOMAIN kept : kept[i] = longer[j]
  BY <1>7, EvictFacts
<1> HIDE DEF kept, k
<1>9. /\ DOMAIN window = Metrics!Kinds /\ window[k] = kept
      /\ \A x \in Metrics!Kinds : x # k => window[x] = tele.window[x]
      /\ window \in [Metrics!Kinds -> Seq(Samples)]
  BY <1>1, <1>4, <1>8 DEF window, TeleTyped
<1>10. /\ counted[k] = n /\ n \in Nat /\ counted \in [Metrics!Kinds -> Nat]
       /\ \A x \in Metrics!Kinds : x # k => counted[x] = tele.counted[x]
  <2>1. tele.counted \in [Metrics!Kinds -> Nat] /\ tele.counted[k] \in Nat
    BY <1>1, <1>4 DEF TeleTyped
  <2>2. n \in Nat
    BY <1>4, <2>1
  <2> HIDE DEF n
  <2> QED BY <1>4, <2>1, <2>2 DEF counted
<1> HIDE DEF n
<1>11. TeleShape'
  BY <1>1, <1>3, <1>5 DEF TeleShape
<1>12. TeleTyped'
  <2>1. recorded \subseteq Metrics!Kinds \X Samples
    BY <1>1, <1>4 DEF recorded, TeleTyped
  <2>2. Metrics!NoTime \in Times
    BY DEF Times
  <2> QED BY <1>1, <1>5, <1>9, <1>10, <2>1, <2>2 DEF TeleTyped
<1>13. TeleTimes'
  <2>1. \A x \in Metrics!Kinds : InTime(window[x])
    BY <1>1, <1>8, <1>9 DEF TeleTimes, InTime
  <2>2. \A x \in Metrics!Kinds : \A i \in DOMAIN window[x] : window[x][i].at <= tele.clock
    <3> SUFFICES ASSUME NEW x \in Metrics!Kinds, NEW i \in DOMAIN window[x] PROVE window[x][i].at <= tele.clock
      OBVIOUS
    <3>1. CASE x = k
      <4>1. PICK j \in DOMAIN longer : window[x][i] = longer[j]
        BY <1>8, <1>9, <3>1
      <4>2. longer[j] \in Samples /\ longer[j].at <= tele.now
        BY <1>7
      <4>3. longer[j].at \in Int
        BY <4>2 DEF Samples
      <4> QED BY <1>4, <1>6, <4>1, <4>2, <4>3
    <3>2. CASE x # k
      BY <1>1, <1>9, <3>2 DEF TeleTimes
    <3> QED BY <3>1, <3>2
  <2>3. Metrics!NoTime <= tele.clock
    BY <1>6 DEF Metrics!NoTime
  <2> QED BY <1>1, <1>5, <2>1, <2>2, <2>3 DEF TeleTimes, InTime
<1>14. TeleLife'
  BY <1>1, <1>2, <1>5 DEF TeleLife, Metrics!This
<1>15. TeleCounts'
  <2> DEFINE a == SumFunction([r \in Reqs |-> tele.req[r].out])
  <2>1. a = tele.counted["decode"] + tele.rows + IF k = "decode" THEN tele.tokens ELSE 0
    BY <1>1, <1>2 DEF TeleCounts, k
  <2>2. "decode" \in Metrics!Kinds /\ tele.counted["decode"] \in Nat /\ tele.rows \in Nat
    BY <1>1 DEF Metrics!Kinds, TeleTyped
  <2>3. a = counted["decode"] + tele.rows
    <3>1. CASE k = "decode"
      <4>1. counted["decode"] = tele.counted["decode"] + tele.tokens
        BY <1>10, <3>1 DEF n
      <4> HIDE DEF a
      <4> QED BY <1>4, <2>1, <2>2, <3>1, <4>1
    <3>2. CASE k # "decode"
      <4>1. counted["decode"] = tele.counted["decode"]
        BY <1>10, <2>2, <3>2
      <4> HIDE DEF a
      <4> QED BY <2>1, <2>2, <3>2, <4>1
    <3> QED BY <3>1, <3>2
  <2>4. counted["decode"] + tele.rows = counted["decode"] + tele.rows + 0
    BY <1>10, <2>2
  <2>5. a = counted["decode"] + tele.rows + 0
    BY <2>3, <2>4
  <2> QED BY <1>1, <1>2, <1>5, <2>5 DEF TeleCounts
<1>16. TeleWindow'
  <2> SUFFICES ASSUME NEW x \in recorded, x[2].at >= tele.clock - WindowS
               PROVE  x[2] \in Metrics!ToSet(window[x[1]])
    BY <1>5 DEF TeleWindow
  <2>1. CASE x = <<k, sample>>
    <3>1. x[1] = k /\ x[2] = sample /\ sample.at >= tele.now - WindowS
      BY <1>4, <1>6, <2>1
    <3>2. \E i \in DOMAIN kept : kept[i] = sample
      BY <1>7, <1>8, <3>1
    <3> QED BY <1>9, <3>1, <3>2 DEF Metrics!ToSet
  <2>2. CASE x \in tele.recorded
    <3>1. x[1] \in Metrics!Kinds /\ x[2] \in Samples /\ x[2].at \in Int
      BY <1>1, <2>2 DEF TeleTyped, Samples
    <3>2. PICK j \in DOMAIN tele.window[x[1]] : tele.window[x[1]][j] = x[2]
      BY <1>1, <2>2 DEF TeleWindow, Metrics!ToSet
    <3>3. CASE x[1] = k
      <4>1. j \in DOMAIN longer /\ longer[j] = x[2]
        BY <1>7, <3>2, <3>3
      <4>2. x[2].at >= tele.now - WindowS
        BY <1>4, <1>6, <3>1
      <4>3. \E i \in DOMAIN kept : kept[i] = x[2]
        BY <1>8, <4>1, <4>2
      <4> QED BY <1>9, <3>3, <4>3 DEF Metrics!ToSet
    <3>4. CASE x[1] # k
      BY <1>9, <3>1, <3>2, <3>4 DEF Metrics!ToSet
    <3> QED BY <3>3, <3>4
  <2> QED BY <2>1, <2>2 DEF recorded
<1>17. TeleReader'
  BY <1>1, <1>5, ReaderKept DEF TeleTyped
<1> QED BY <1>11, <1>12, <1>13, <1>14, <1>15, <1>16, <1>17 DEF TeleInv

\* The worker's loop turns to the next request, or ends.
LEMMA NextRequestStep == ASSUME Metrics!TelemetryConstants, TeleInv, Metrics!NextRequest PROVE TeleInv'
<1>1. TeleShape /\ TeleTyped /\ TeleTimes /\ TeleLife /\ TeleCounts /\ TeleWindow /\ TeleReader
  BY DEF TeleInv
<1> DEFINE K == {i \in DOMAIN tele.pending : tele.req[tele.pending[i]].st # "finished"}
           pc == IF tele.todo = <<>> THEN "top"
                 ELSE IF tele.req[Metrics!This].sent = 0 /\ tele.req[Metrics!This].out > 0 THEN "first" ELSE "put"
           pending == IF tele.todo = <<>> THEN Picked(tele.pending, K) ELSE tele.pending
<1>2. tele.pc = "next" /\ tele' = [tele EXCEPT !.pc = pc, !.pending = pending]
  <2>1. CASE tele.todo = <<>>
    <3>1. pc = "top" /\ pending = Picked(tele.pending, K)
      BY <2>1
    <3>2. tele.pc = "next" /\ tele' = [tele EXCEPT !.pc = "top", !.pending = Picked(tele.pending, K)]
      BY <2>1, Libraries DEF Metrics!NextRequest
    <3> QED BY <3>1, <3>2
  <2>2. CASE tele.todo # <<>>
    <3>1. pending = tele.pending
      BY <2>2
    <3>2. tele.pc = "next" /\ tele' = [tele EXCEPT !.pc = pc]
      BY <2>2, Libraries DEF Metrics!NextRequest
    <3> HIDE DEF pc, pending
    <3> QED BY <1>1, <3>1, <3>2 DEF TeleShape
  <2> QED BY <2>1, <2>2
<1>3. /\ tele.todo = <<>> => pc = "top"
      /\ tele.todo # <<>> => pc \in {"first", "put"}
      /\ pc = "put" => tele.todo # <<>> /\ (tele.req[Metrics!This].sent # 0 \/ ~ (tele.req[Metrics!This].out > 0))
  OBVIOUS
<1>4. /\ pending \in Seq(Reqs) /\ NoDuplicates(pending)
      /\ \A i \in DOMAIN pending : tele.req[pending[i]].st # "new"
      /\ tele.todo = <<>> => \A i \in DOMAIN pending :
            pending[i] \in Reqs /\ tele.req[pending[i]].st # "finished"
  <2>1. tele.pending \in Seq(Reqs) /\ NoDuplicates(tele.pending) /\ K \in SUBSET DOMAIN tele.pending
        /\ \A i \in DOMAIN tele.pending : tele.req[tele.pending[i]].st # "new" /\ tele.pending[i] \in Reqs
    BY <1>1 DEF TeleTyped, TeleLife
  <2>2. \A i \in K : tele.req[tele.pending[i]].st # "finished"
    OBVIOUS
  <2> HIDE DEF K
  <2>3. /\ Picked(tele.pending, K) \in Seq(Reqs)
        /\ \A j \in DOMAIN Picked(tele.pending, K) : \E i \in K : Picked(tele.pending, K)[j] = tele.pending[i]
        /\ NoDuplicates(Picked(tele.pending, K))
    BY <2>1, PickedFacts
  <2>4. CASE tele.todo = <<>>
    <3>1. pending = Picked(tele.pending, K)
      BY <2>4
    <3> HIDE DEF pending
    <3>2. ASSUME NEW j \in DOMAIN pending
          PROVE  pending[j] \in Reqs /\ tele.req[pending[j]].st \notin {"finished", "new"}
      <4>1. PICK i \in K : pending[j] = tele.pending[i]
        BY <2>3, <3>1
      <4> QED BY <2>1, <2>2, <4>1
    <3> QED BY <2>3, <3>1, <3>2
  <2>5. CASE tele.todo # <<>>
    BY <2>1, <2>5
  <2> QED BY <2>4, <2>5
<1> HIDE DEF pc, pending
<1>5. /\ tele'.clock = tele.clock /\ tele'.pc = pc /\ tele'.now = tele.now
      /\ tele'.todo = tele.todo /\ tele'.pending = pending /\ tele'.kind = tele.kind
      /\ tele'.tokens = tele.tokens /\ tele'.req = tele.req /\ tele'.inflight = tele.inflight
      /\ tele'.total = tele.total /\ tele'.finished = tele.finished
      /\ tele'.counted = tele.counted /\ tele'.rows = tele.rows /\ tele'.told = tele.told
      /\ tele'.window = tele.window /\ tele'.recorded = tele.recorded
      /\ tele'.ttft = tele.ttft /\ tele'.e2e = tele.e2e /\ tele'.reader = tele.reader
  BY <1>1, <1>2 DEF TeleShape
<1>6. tele.now = Metrics!NoTime
  BY <1>1, <1>2 DEF TeleTimes
<1>7. TeleShape'
  BY <1>1, <1>2, <1>5 DEF TeleShape
<1>8. TeleTyped'
  <2>1. pc \in {"top", "first", "put"}
    BY <1>3
  <2> QED BY <1>1, <1>4, <1>5, <2>1 DEF TeleTyped
<1>9. TeleTimes'
  BY <1>1, <1>5, <1>6 DEF TeleTimes
<1>10. TeleLife'
  <2>1. \A i \in DOMAIN pending : /\ tele.req[pending[i]].st # "new"
                                  /\ pc \in {"top", "step"} => tele.req[pending[i]].end = Metrics!NoTime
    BY <1>1, <1>3, <1>4 DEF TeleLife
  <2>2. \A i \in DOMAIN tele.todo : tele.req[tele.todo[i]].st # "new" /\ tele.req[tele.todo[i]].end = Metrics!NoTime
    BY <1>1, <1>2 DEF TeleLife
  <2>3. pc = "put" /\ tele.req[Metrics!This].out > 0 => tele.req[Metrics!This].first # Metrics!NoTime
    <3> SUFFICES ASSUME pc = "put", tele.req[Metrics!This].out > 0 PROVE tele.req[Metrics!This].first # Metrics!NoTime
      OBVIOUS
    <3>1. tele.todo # <<>> /\ tele.req[Metrics!This].sent # 0
      BY <1>3
    <3>2. Metrics!This \in Reqs
      BY <3>1, ThisRequest
    <3>3. tele.req[Metrics!This].sent \in Nat
      BY <3>2, RequestTyped
    <3>4. tele.req[Metrics!This].sent > 0
      BY <3>1, <3>3
    <3> QED BY <1>1, <3>2, <3>4 DEF TeleLife
  <2>4. pc \notin {"finish", "done"} /\ (pc \in {"first", "put"} => tele.todo # <<>>)
    BY <1>3
  <2> QED BY <1>1, <1>4, <1>5, <2>1, <2>2, <2>3, <2>4 DEF TeleLife, Metrics!This
<1>11. TeleCounts'
  <2>1. pc # "done" /\ pc # "step"
    BY <1>3
  <2> QED BY <1>1, <1>2, <1>5, <2>1 DEF TeleCounts
<1>12. TeleWindow'
  BY <1>1, <1>5 DEF TeleWindow
<1>13. TeleReader'
  BY <1>1, <1>5, ReaderKept DEF TeleTyped
<1> QED BY <1>7, <1>8, <1>9, <1>10, <1>11, <1>12, <1>13 DEF TeleInv

\* Done is put for a request whose finish was recorded.
LEMMA PutDoneStep == ASSUME Metrics!TelemetryConstants, TeleInv, Metrics!PutDone PROVE TeleInv'
<1>1. TeleShape /\ TeleTyped /\ TeleTimes /\ TeleLife /\ TeleCounts /\ TeleWindow /\ TeleReader
  BY DEF TeleInv
<1> DEFINE todo == Tail(tele.todo)
<1>2. tele.pc = "done" /\ tele' = [tele EXCEPT !.told = tele.told + 1, !.pc = "next", !.todo = todo]
  <2>1. Metrics!OnFrom("done") = "next"
    BY FollowingIs
  <2>2. /\ tele.pc = "done"
        /\ tele' = [tele EXCEPT !.told = tele.told + 1, !.pc = Metrics!OnFrom("done"),
                        !.todo = IF Metrics!OnFrom("done") = "next" THEN Tail(tele.todo) ELSE tele.todo]
    BY DEF Metrics!PutDone
  <2> QED BY <2>1, <2>2
<1>3. tele.todo # <<>>
  BY <1>1, <1>2 DEF TeleLife
<1>4. /\ todo \in Seq(Reqs) /\ NoDuplicates(todo)
      /\ \A j \in DOMAIN todo : tele.req[todo[j]].st # "new" /\ tele.req[todo[j]].end = Metrics!NoTime
  BY <1>3, ThisRequest
<1> HIDE DEF todo
<1>5. /\ tele'.clock = tele.clock /\ tele'.pc = "next" /\ tele'.now = tele.now
      /\ tele'.todo = todo /\ tele'.pending = tele.pending /\ tele'.kind = tele.kind
      /\ tele'.tokens = tele.tokens /\ tele'.req = tele.req /\ tele'.inflight = tele.inflight
      /\ tele'.total = tele.total /\ tele'.finished = tele.finished
      /\ tele'.counted = tele.counted /\ tele'.rows = tele.rows /\ tele'.told = tele.told + 1
      /\ tele'.window = tele.window /\ tele'.recorded = tele.recorded
      /\ tele'.ttft = tele.ttft /\ tele'.e2e = tele.e2e /\ tele'.reader = tele.reader
  BY <1>1, <1>2 DEF TeleShape
<1>6. tele.now = Metrics!NoTime /\ tele.told \in Nat /\ tele.clock \in Nat
  BY <1>1, <1>2 DEF TeleTimes, TeleTyped
<1>7. TeleShape'
  BY <1>1, <1>2, <1>5 DEF TeleShape
<1>8. TeleTyped'
  <2>1. tele.told + 1 \in Nat
    BY <1>6
  <2> QED BY <1>1, <1>4, <1>5, <2>1 DEF TeleTyped
<1>9. TeleTimes'
  BY <1>1, <1>5, <1>6 DEF TeleTimes
<1>10. TeleLife'
  BY <1>1, <1>2, <1>4, <1>5 DEF TeleLife
<1>11. TeleCounts'
  <2>1. tele.finished = tele.told + 1 + 0
    BY <1>1, <1>2, <1>6 DEF TeleCounts
  <2> QED BY <1>1, <1>2, <1>5, <2>1 DEF TeleCounts
<1>12. TeleWindow'
  BY <1>1, <1>5 DEF TeleWindow
<1>13. TeleReader'
  <2>1. tele.told + 1 \in Nat /\ tele.told + 1 >= tele.told /\ tele.clock >= tele.clock
    BY <1>6
  <2> QED BY <1>5, <1>6, <2>1, ReaderKept
<1> QED BY <1>7, <1>8, <1>9, <1>10, <1>11, <1>12, <1>13 DEF TeleInv

\* A request with one field changed.
LEMMA RequestWith ==
    ASSUME TeleInv, NEW r \in Reqs, NEW sent \in Nat, NEW first \in Times, NEW end \in Times,
           NEW q, LET o == tele.req[r] IN
                  \/ q = [o EXCEPT !.sent = sent] /\ first = o.first /\ end = o.end
                  \/ q = [o EXCEPT !.first = first] /\ sent = o.sent /\ end = o.end
                  \/ q = [o EXCEPT !.end = end] /\ sent = o.sent /\ first = o.first
    PROVE  LET req == [tele.req EXCEPT ![r] = q]
               o == tele.req[r] IN
           /\ req \in [Reqs -> [st : {"new", "waiting", "running", "finished"}, out : Nat, sent : Nat,
                                start : Times, first : Times, end : Times]]
           /\ req[r].st = o.st /\ req[r].out = o.out /\ req[r].sent = sent
           /\ req[r].start = o.start /\ req[r].first = first /\ req[r].end = end
           /\ \A x \in Reqs : x # r => req[x] = tele.req[x]
           /\ [x \in Reqs |-> req[x].out] = [x \in Reqs |-> tele.req[x].out]
<1> DEFINE o == tele.req[r]
           T == [st : {"new", "waiting", "running", "finished"}, out : Nat, sent : Nat,
                 start : Times, first : Times, end : Times]
           req == [tele.req EXCEPT ![r] = q]
<1>1. tele.req \in [Reqs -> T] /\ o \in T
  BY DEF TeleInv, TeleTyped
<1>2. q \in T /\ q.st = o.st /\ q.out = o.out /\ q.sent = sent
      /\ q.start = o.start /\ q.first = first /\ q.end = end
  <2> HIDE DEF o
  <2>1. CASE q = [o EXCEPT !.sent = sent] /\ first = o.first /\ end = o.end
    BY <1>1, <2>1
  <2>2. CASE q = [o EXCEPT !.first = first] /\ sent = o.sent /\ end = o.end
    BY <1>1, <2>2
  <2>3. CASE q = [o EXCEPT !.end = end] /\ sent = o.sent /\ first = o.first
    BY <1>1, <2>3
  <2> QED BY <2>1, <2>2, <2>3 DEF o
<1> HIDE DEF T
<1>3. req \in [Reqs -> T] /\ req[r] = q /\ \A x \in Reqs : x # r => req[x] = tele.req[x]
  BY <1>1, <1>2
<1> HIDE DEF req
<1>4. \A x \in Reqs : req[x].out = tele.req[x].out
  BY <1>2, <1>3
<1> QED BY <1>2, <1>3, <1>4 DEF T, req

\* The time of a request's first token is taken once.
LEMMA RecordFirstStep == ASSUME Metrics!TelemetryConstants, TeleInv, Metrics!RecordFirst PROVE TeleInv'
<1>1. TeleShape /\ TeleTyped /\ TeleTimes /\ TeleLife /\ TeleCounts /\ TeleWindow /\ TeleReader
  BY DEF TeleInv
<1>2. tele.pc = "first" /\ tele.now # Metrics!NoTime
  BY DEF Metrics!RecordFirst
<1>3. tele.todo # <<>>
  BY <1>1, <1>2 DEF TeleLife
<1> DEFINE o == tele.req[Metrics!This]
<1>4. /\ Metrics!This \in Reqs /\ o.st # "new" /\ o.end = Metrics!NoTime
      /\ tele.now \in Nat /\ tele.now \in Times /\ tele.clock \in Nat
  BY <1>1, <1>2, <1>3, ThisRequest DEF TeleTyped, Times
<1>5. Metrics!This \in tele.inflight
  BY <1>1, <1>4 DEF TeleLife
<1>6. o.first \in Times /\ o.start \in Int /\ o.sent \in Nat /\ o.end \in Times
  BY <1>4, RequestTyped
<1> DEFINE take == o.first = Metrics!NoTime
           first == IF take THEN tele.now ELSE o.first
           q == [o EXCEPT !.first = first]
           req == [tele.req EXCEPT ![Metrics!This] = q]
           ttft == IF take THEN Metrics!AppendBounded(tele.ttft, tele.now - o.start) ELSE tele.ttft
<1>7. tele' = [tele EXCEPT !.req = req, !.now = Metrics!NoTime, !.pc = "put", !.ttft = ttft]
  <2>1. CASE take
    <3>1. tele' = [tele EXCEPT !.req[Metrics!This].first = tele.now, !.now = Metrics!NoTime, !.pc = "put",
                               !.ttft = Metrics!AppendBounded(tele.ttft, tele.now - o.start)]
      BY <1>5, <2>1, FollowingIs DEF Metrics!RecordFirst
    <3>2. first = tele.now /\ ttft = Metrics!AppendBounded(tele.ttft, tele.now - o.start)
      BY <2>1
    <3> HIDE DEF first, ttft, take
    <3> QED BY <1>1, <3>1, <3>2 DEF TeleShape
  <2>2. CASE ~take
    <3>1. tele' = [tele EXCEPT !.now = Metrics!NoTime, !.pc = "put"]
      BY <2>2, FollowingIs DEF Metrics!RecordFirst
    <3>2. first = o.first /\ ttft = tele.ttft
      BY <2>2
    <3> HIDE DEF first, ttft, take
    <3>3. q = o
      <4> DEFINE T == [st : {"new", "waiting", "running", "finished"}, out : Nat, sent : Nat,
                       start : Times, first : Times, end : Times]
      <4>1. o \in T
        BY <1>1, <1>4 DEF TeleTyped
      <4> HIDE DEF o
      <4> QED BY <3>2, <4>1
    <3> HIDE DEF q
    <3>4. req = tele.req
      BY <1>1, <1>4, <3>3 DEF TeleTyped
    <3> HIDE DEF req
    <3> QED BY <1>1, <3>1, <3>2, <3>4 DEF TeleShape
  <2> QED BY <2>1, <2>2
<1>8. first \in Times /\ first \in Int /\ first # Metrics!NoTime /\ o.start <= first /\ first <= tele.clock
  <2>1. o.start <= tele.now /\ tele.now <= tele.clock /\ o.first <= tele.clock
        /\ (o.first # Metrics!NoTime => o.start <= o.first)
    BY <1>1, <1>2, <1>4 DEF TeleTimes
  <2>2. o.first \in Int
    BY <1>6 DEF Times, Metrics!NoTime
  <2> HIDE DEF o
  <2> QED BY <1>2, <1>4, <1>6, <2>1, <2>2
<1>9. ttft \in Seq(Int) /\ Len(ttft) <= LatencyWindow
  <2>1. tele.ttft \in Seq(Int) /\ Len(tele.ttft) <= LatencyWindow
    BY <1>1 DEF TeleTyped, TeleCounts
  <2>2. tele.now - o.start \in Int
    BY <1>4, <1>6
  <2>3. Metrics!AppendBounded(tele.ttft, tele.now - o.start) \in Seq(Int)
        /\ Len(Metrics!AppendBounded(tele.ttft, tele.now - o.start)) <= LatencyWindow
    BY <2>1, <2>2, BoundedFacts
  <2> QED BY <2>1, <2>3
<1> HIDE DEF first, ttft
<1>10. /\ req \in [Reqs -> [st : {"new", "waiting", "running", "finished"}, out : Nat, sent : Nat,
                            start : Times, first : Times, end : Times]]
       /\ req[Metrics!This].st = o.st /\ req[Metrics!This].out = o.out /\ req[Metrics!This].sent = o.sent
       /\ req[Metrics!This].start = o.start /\ req[Metrics!This].first = first /\ req[Metrics!This].end = o.end
       /\ \A x \in Reqs : x # Metrics!This => req[x] = tele.req[x]
       /\ [x \in Reqs |-> req[x].out] = [x \in Reqs |-> tele.req[x].out]
  BY <1>4, <1>6, <1>8, RequestWith
<1> HIDE DEF req
<1>11. /\ tele'.clock = tele.clock /\ tele'.pc = "put" /\ tele'.now = Metrics!NoTime
      /\ tele'.todo = tele.todo /\ tele'.pending = tele.pending /\ tele'.kind = tele.kind
      /\ tele'.tokens = tele.tokens /\ tele'.req = req /\ tele'.inflight = tele.inflight
      /\ tele'.total = tele.total /\ tele'.finished = tele.finished
      /\ tele'.counted = tele.counted /\ tele'.rows = tele.rows /\ tele'.told = tele.told
      /\ tele'.window = tele.window /\ tele'.recorded = tele.recorded /\ tele'.ttft = ttft
      /\ tele'.e2e = tele.e2e /\ tele'.reader = tele.reader
  BY <1>1, <1>7 DEF TeleShape
<1>12. Metrics!This' = Metrics!This
  BY <1>11 DEF Metrics!This
<1>13. TeleShape'
  BY <1>1, <1>7, <1>11 DEF TeleShape
<1>14. TeleTyped'
  <2>1. Metrics!NoTime \in Times
    BY DEF Times
  <2> QED BY <1>1, <1>9, <1>10, <1>11, <2>1 DEF TeleTyped
<1>15. TeleTimes'
  <2>1. ASSUME NEW x \in Reqs
        PROVE  /\ req[x].start <= tele.clock /\ req[x].first <= tele.clock
               /\ req[x].first # Metrics!NoTime => req[x].start <= req[x].first
               /\ req[x].end # Metrics!NoTime => req[x].first # Metrics!NoTime /\ req[x].first <= req[x].end
    <3>1. CASE x = Metrics!This
      <4>1. o.start <= tele.clock
        BY <1>1, <1>4 DEF TeleTimes
      <4> QED BY <1>4, <1>8, <1>10, <3>1, <4>1
    <3>2. CASE x # Metrics!This
      <4>1. req[x] = tele.req[x]
        BY <1>10, <3>2
      <4> QED BY <1>1, <4>1 DEF TeleTimes
    <3> QED BY <3>1, <3>2
  <2>2. Metrics!NoTime <= tele.clock
    BY <1>4 DEF Metrics!NoTime
  <2> QED BY <1>1, <1>11, <2>1, <2>2 DEF TeleTimes
<1>16. TeleLife'
  <2>1. \A x \in Reqs : req[x].st = tele.req[x].st /\ req[x].end = tele.req[x].end
                        /\ req[x].out = tele.req[x].out /\ req[x].sent = tele.req[x].sent
                        /\ (x # Metrics!This => req[x].first = tele.req[x].first)
    BY <1>10
  <2>2. tele.inflight = {x \in Reqs : req[x].st # "new" /\ req[x].end = Metrics!NoTime}
    BY <1>1, <2>1 DEF TeleLife
  <2>3. \A x \in Reqs : LET z == req[x] IN
            /\ z.end # Metrics!NoTime => z.st = "finished"
            /\ z.st = "new" => z.first = Metrics!NoTime
            /\ z.st = "finished" => z.out > 0
            /\ z.sent > 0 => z.first # Metrics!NoTime
    <3> SUFFICES ASSUME NEW x \in Reqs
                 PROVE  /\ req[x].end # Metrics!NoTime => req[x].st = "finished"
                        /\ req[x].st = "new" => req[x].first = Metrics!NoTime
                        /\ req[x].st = "finished" => req[x].out > 0
                        /\ req[x].sent > 0 => req[x].first # Metrics!NoTime
      OBVIOUS
    <3>1. CASE x = Metrics!This
      BY <1>1, <1>4, <1>8, <1>10, <2>1, <3>1 DEF TeleLife
    <3>2. CASE x # Metrics!This
      BY <1>1, <2>1, <3>2 DEF TeleLife
    <3> QED BY <3>1, <3>2
  <2>4. \A i \in DOMAIN tele.pending : req[tele.pending[i]].st # "new"
    <3> SUFFICES ASSUME NEW i \in DOMAIN tele.pending PROVE req[tele.pending[i]].st # "new"
      OBVIOUS
    <3>1. tele.pending[i] \in Reqs
      BY <1>1 DEF TeleTyped
    <3> QED BY <1>1, <2>1, <3>1 DEF TeleLife
  <2>5. \A i \in DOMAIN tele.todo : LET z == req[tele.todo[i]] IN z.st # "new" /\ z.end = Metrics!NoTime
    <3> SUFFICES ASSUME NEW i \in DOMAIN tele.todo
                 PROVE  req[tele.todo[i]].st # "new" /\ req[tele.todo[i]].end = Metrics!NoTime
      OBVIOUS
    <3>1. tele.todo[i] \in Reqs
      BY <1>1 DEF TeleTyped
    <3> QED BY <1>1, <1>2, <2>1, <3>1 DEF TeleLife
  <2>6. req[Metrics!This].first # Metrics!NoTime
    BY <1>8, <1>10
  <2> QED BY <1>1, <1>3, <1>11, <1>12, <2>2, <2>3, <2>4, <2>5, <2>6 DEF TeleLife
<1>17. TeleCounts'
  <2>1. [x \in Reqs |-> tele'.req[x].out] = [x \in Reqs |-> tele.req[x].out]
    BY <1>10, <1>11
  <2>2. SumFunction([x \in Reqs |-> tele'.req[x].out]) = SumFunction([x \in Reqs |-> tele.req[x].out])
    BY <2>1
  <2> QED BY <1>1, <1>2, <1>9, <1>11, <2>2 DEF TeleCounts
<1>18. TeleWindow'
  BY <1>1, <1>11 DEF TeleWindow
<1>19. TeleReader'
  BY <1>1, <1>11, ReaderKept DEF TeleTyped
<1> QED BY <1>13, <1>14, <1>15, <1>16, <1>17, <1>18, <1>19 DEF TeleInv

\* The tokens are put on the request's queue.
LEMMA PutTokensStep == ASSUME Metrics!TelemetryConstants, TeleInv, Metrics!PutTokens PROVE TeleInv'
<1>1. TeleShape /\ TeleTyped /\ TeleTimes /\ TeleLife /\ TeleCounts /\ TeleWindow /\ TeleReader
  BY DEF TeleInv
<1>2. tele.pc = "put"
  BY DEF Metrics!PutTokens
<1>3. tele.todo # <<>>
  BY <1>1, <1>2 DEF TeleLife
<1> DEFINE o == tele.req[Metrics!This]
           q == [o EXCEPT !.sent = o.out]
           req == [tele.req EXCEPT ![Metrics!This] = q]
           pc == IF o.st = "finished" THEN "finish" ELSE "next"
           todo == IF pc = "next" THEN Tail(tele.todo) ELSE tele.todo
<1>4. /\ Metrics!This \in Reqs /\ o.st # "new" /\ o.end = Metrics!NoTime
      /\ tele.now = Metrics!NoTime /\ tele.clock \in Nat
      /\ o.out > 0 => o.first # Metrics!NoTime
      /\ o.st = "finished" => o.out > 0
  BY <1>1, <1>2, <1>3, ThisRequest DEF TeleTyped, TeleTimes, TeleLife
<1>5. o.first \in Times /\ o.out \in Nat /\ o.end \in Times
  BY <1>4, RequestTyped
<1>6. tele' = [tele EXCEPT !.req = req, !.pc = pc, !.todo = todo]
  <2>1. Metrics!OnFrom("put") = pc
    BY FollowingIs
  <2>2. tele' = [tele EXCEPT !.req[Metrics!This].sent = o.out, !.pc = Metrics!OnFrom("put"),
                      !.todo = IF Metrics!OnFrom("put") = "next" THEN Tail(tele.todo) ELSE tele.todo]
    BY DEF Metrics!PutTokens
  <2>3. tele' = [tele EXCEPT !.req[Metrics!This].sent = o.out, !.pc = pc, !.todo = todo]
    <3> HIDE DEF pc
    <3> QED BY <2>1, <2>2
  <2> HIDE DEF pc, todo
  <2> QED BY <1>1, <2>3 DEF TeleShape
<1>7. /\ req \in [Reqs -> [st : {"new", "waiting", "running", "finished"}, out : Nat, sent : Nat,
                           start : Times, first : Times, end : Times]]
      /\ req[Metrics!This].st = o.st /\ req[Metrics!This].out = o.out /\ req[Metrics!This].sent = o.out
      /\ req[Metrics!This].start = o.start /\ req[Metrics!This].first = o.first /\ req[Metrics!This].end = o.end
      /\ \A x \in Reqs : x # Metrics!This => req[x] = tele.req[x]
      /\ [x \in Reqs |-> req[x].out] = [x \in Reqs |-> tele.req[x].out]
  BY <1>4, <1>5, RequestWith
<1>8. /\ todo \in Seq(Reqs) /\ NoDuplicates(todo)
      /\ \A i \in DOMAIN todo : /\ todo[i] \in Reqs /\ tele.req[todo[i]].st # "new"
                                /\ tele.req[todo[i]].end = Metrics!NoTime
      /\ pc = "finish" => todo = tele.todo
  <2>1. CASE pc = "next"
    <3>1. todo = Tail(tele.todo)
      BY <2>1
    <3> HIDE DEF todo, pc
    <3> QED BY <1>3, <2>1, <3>1, ThisRequest
  <2>2. CASE pc # "next"
    <3>1. todo = tele.todo
      BY <2>2
    <3> HIDE DEF todo
    <3>2. \A i \in DOMAIN tele.todo : tele.todo[i] \in Reqs
      BY <1>1 DEF TeleTyped
    <3> QED BY <1>1, <1>2, <3>1, <3>2 DEF TeleTyped, TeleLife
  <2> QED BY <2>1, <2>2
<1>9. pc \in {"finish", "next"} /\ (pc = "finish" => o.st = "finished" /\ o.first # Metrics!NoTime)
  BY <1>4
<1> HIDE DEF req, todo, pc
<1>10. /\ tele'.clock = tele.clock /\ tele'.pc = pc /\ tele'.now = tele.now
      /\ tele'.todo = todo /\ tele'.pending = tele.pending /\ tele'.kind = tele.kind
      /\ tele'.tokens = tele.tokens /\ tele'.req = req /\ tele'.inflight = tele.inflight
      /\ tele'.total = tele.total /\ tele'.finished = tele.finished
      /\ tele'.counted = tele.counted /\ tele'.rows = tele.rows /\ tele'.told = tele.told
      /\ tele'.window = tele.window /\ tele'.recorded = tele.recorded
      /\ tele'.ttft = tele.ttft /\ tele'.e2e = tele.e2e /\ tele'.reader = tele.reader
  BY <1>1, <1>6 DEF TeleShape
<1>11. pc = "finish" => Metrics!This' = Metrics!This
  BY <1>8, <1>10 DEF Metrics!This
<1>12. TeleShape'
  BY <1>1, <1>6, <1>10 DEF TeleShape
<1>13. TeleTyped'
  BY <1>1, <1>7, <1>8, <1>9, <1>10 DEF TeleTyped
<1>14. \A x \in Reqs : /\ req[x].st = tele.req[x].st /\ req[x].end = tele.req[x].end
                       /\ req[x].out = tele.req[x].out /\ req[x].start = tele.req[x].start
                       /\ req[x].first = tele.req[x].first
                       /\ x # Metrics!This => req[x].sent = tele.req[x].sent
  BY <1>7
<1>15. TeleTimes'
  BY <1>1, <1>4, <1>10, <1>14 DEF TeleTimes
<1>16. TeleLife'
  <2>1. tele.inflight = {x \in Reqs : req[x].st # "new" /\ req[x].end = Metrics!NoTime}
    BY <1>1, <1>14 DEF TeleLife
  <2>2. \A x \in Reqs : LET z == req[x] IN
            /\ z.end # Metrics!NoTime => z.st = "finished"
            /\ z.st = "new" => z.first = Metrics!NoTime
            /\ z.st = "finished" => z.out > 0
            /\ z.sent > 0 => z.first # Metrics!NoTime
    <3> SUFFICES ASSUME NEW x \in Reqs
                 PROVE  /\ req[x].end # Metrics!NoTime => req[x].st = "finished"
                        /\ req[x].st = "new" => req[x].first = Metrics!NoTime
                        /\ req[x].st = "finished" => req[x].out > 0
                        /\ req[x].sent > 0 => req[x].first # Metrics!NoTime
      OBVIOUS
    <3>1. CASE x = Metrics!This
      BY <1>1, <1>4, <1>7, <1>14, <3>1 DEF TeleLife
    <3>2. CASE x # Metrics!This
      BY <1>1, <1>14, <3>2 DEF TeleLife
    <3> QED BY <3>1, <3>2
  <2>3. \A i \in DOMAIN tele.pending : req[tele.pending[i]].st # "new"
    <3> SUFFICES ASSUME NEW i \in DOMAIN tele.pending PROVE req[tele.pending[i]].st # "new"
      OBVIOUS
    <3>1. tele.pending[i] \in Reqs
      BY <1>1 DEF TeleTyped
    <3> QED BY <1>1, <1>14, <3>1 DEF TeleLife
  <2>4. \A i \in DOMAIN todo : req[todo[i]].st # "new" /\ req[todo[i]].end = Metrics!NoTime
    BY <1>8, <1>14
  <2>5. pc = "finish" => todo # <<>> /\ req[Metrics!This].st = "finished" /\ req[Metrics!This].first # Metrics!NoTime
    BY <1>3, <1>7, <1>8, <1>9
  <2> QED BY <1>1, <1>8, <1>9, <1>10, <1>11, <2>1, <2>2, <2>3, <2>4, <2>5 DEF TeleLife
<1>17. TeleCounts'
  <2>1. [x \in Reqs |-> tele'.req[x].out] = [x \in Reqs |-> tele.req[x].out]
    BY <1>7, <1>10
  <2>2. SumFunction([x \in Reqs |-> tele'.req[x].out]) = SumFunction([x \in Reqs |-> tele.req[x].out])
    BY <2>1
  <2> QED BY <1>1, <1>2, <1>9, <1>10, <2>2 DEF TeleCounts
<1>18. TeleWindow'
  BY <1>1, <1>10 DEF TeleWindow
<1>19. TeleReader'
  BY <1>1, <1>10, ReaderKept DEF TeleTyped
<1> QED BY <1>12, <1>13, <1>15, <1>16, <1>17, <1>18, <1>19 DEF TeleInv

\* The end of a request is recorded before its Done is put.
LEMMA RecordFinishStep == ASSUME Metrics!TelemetryConstants, TeleInv, Metrics!RecordFinish PROVE TeleInv'
<1>1. TeleShape /\ TeleTyped /\ TeleTimes /\ TeleLife /\ TeleCounts /\ TeleWindow /\ TeleReader
  BY DEF TeleInv
<1>2. tele.pc = "finish" /\ tele.now # Metrics!NoTime
  BY DEF Metrics!RecordFinish
<1>3. tele.todo # <<>>
  BY <1>1, <1>2 DEF TeleLife
<1> DEFINE o == tele.req[Metrics!This]
           q == [o EXCEPT !.end = tele.now]
           req == [tele.req EXCEPT ![Metrics!This] = q]
           e2e == Metrics!AppendBounded(tele.e2e, tele.now - o.start)
           inflight == tele.inflight \ {Metrics!This}
<1>4. /\ Metrics!This \in Reqs /\ o.st = "finished" /\ o.end = Metrics!NoTime /\ o.first # Metrics!NoTime
      /\ tele.now \in Nat /\ tele.now \in Times /\ tele.clock \in Nat
  BY <1>1, <1>2, <1>3, ThisRequest DEF TeleTyped, Times, TeleLife
<1>5. o.first \in Times /\ o.start \in Int /\ o.sent \in Nat /\ o.end \in Times
  BY <1>4, RequestTyped
<1>6. tele' = [tele EXCEPT !.inflight = inflight, !.finished = tele.finished + 1, !.req = req,
                           !.e2e = e2e, !.now = Metrics!NoTime, !.pc = "done"]
  <2>1. Metrics!OnFrom("finish") = "done"
    BY FollowingIs
  <2>2. tele' = [tele EXCEPT !.inflight = inflight, !.finished = tele.finished + 1,
                      !.req[Metrics!This].end = tele.now, !.e2e = e2e, !.now = Metrics!NoTime, !.pc = Metrics!OnFrom("finish"),
                      !.todo = IF Metrics!OnFrom("finish") = "next" THEN Tail(tele.todo) ELSE tele.todo]
    BY <1>1 DEF Metrics!RecordFinish, TeleShape
  <2> HIDE DEF inflight, e2e
  <2>3. tele' = [tele EXCEPT !.inflight = inflight, !.finished = tele.finished + 1,
                      !.req[Metrics!This].end = tele.now, !.e2e = e2e, !.now = Metrics!NoTime, !.pc = "done",
                      !.todo = tele.todo]
    BY <2>1, <2>2
  <2> QED BY <1>1, <2>3 DEF TeleShape
<1>7. /\ req \in [Reqs -> [st : {"new", "waiting", "running", "finished"}, out : Nat, sent : Nat,
                           start : Times, first : Times, end : Times]]
      /\ req[Metrics!This].st = o.st /\ req[Metrics!This].out = o.out /\ req[Metrics!This].sent = o.sent
      /\ req[Metrics!This].start = o.start /\ req[Metrics!This].first = o.first /\ req[Metrics!This].end = tele.now
      /\ \A x \in Reqs : x # Metrics!This => req[x] = tele.req[x]
      /\ [x \in Reqs |-> req[x].out] = [x \in Reqs |-> tele.req[x].out]
  BY <1>4, <1>5, RequestWith
<1>8. e2e \in Seq(Int) /\ Len(e2e) <= LatencyWindow
  <2>1. tele.e2e \in Seq(Int) /\ Len(tele.e2e) <= LatencyWindow
    BY <1>1 DEF TeleTyped, TeleCounts
  <2>2. tele.now - o.start \in Int
    BY <1>4, <1>5
  <2> QED BY <2>1, <2>2, BoundedFacts
<1> HIDE DEF req, e2e, inflight
<1>10. /\ tele'.clock = tele.clock /\ tele'.pc = "done" /\ tele'.now = Metrics!NoTime
      /\ tele'.todo = tele.todo /\ tele'.pending = tele.pending /\ tele'.kind = tele.kind
      /\ tele'.tokens = tele.tokens /\ tele'.req = req /\ tele'.inflight = inflight
      /\ tele'.total = tele.total /\ tele'.finished = tele.finished + 1
      /\ tele'.counted = tele.counted /\ tele'.rows = tele.rows /\ tele'.told = tele.told
      /\ tele'.window = tele.window /\ tele'.recorded = tele.recorded
      /\ tele'.ttft = tele.ttft /\ tele'.e2e = e2e /\ tele'.reader = tele.reader
  BY <1>1, <1>6 DEF TeleShape
<1>11. Metrics!This' = Metrics!This
  BY <1>10 DEF Metrics!This
<1>12. TeleShape'
  BY <1>1, <1>6, <1>10 DEF TeleShape
<1>13. TeleTyped'
  <2>1. tele.finished + 1 \in Nat /\ Metrics!NoTime \in Times
    BY <1>1 DEF TeleTyped, Times
  <2> QED BY <1>1, <1>7, <1>8, <1>10, <2>1 DEF TeleTyped
<1>14. \A x \in Reqs : /\ req[x].st = tele.req[x].st /\ req[x].sent = tele.req[x].sent
                       /\ req[x].out = tele.req[x].out /\ req[x].start = tele.req[x].start
                       /\ req[x].first = tele.req[x].first
                       /\ x # Metrics!This => req[x].end = tele.req[x].end
  BY <1>7
<1>15. TeleTimes'
  <2>1. ASSUME NEW x \in Reqs
        PROVE  /\ req[x].start <= tele.clock /\ req[x].first <= tele.clock
               /\ req[x].first # Metrics!NoTime => req[x].start <= req[x].first
               /\ req[x].end # Metrics!NoTime => req[x].first # Metrics!NoTime /\ req[x].first <= req[x].end
    <3>1. CASE x = Metrics!This
      <4>1. o.first <= tele.now
        BY <1>1, <1>2, <1>4 DEF TeleTimes
      <4> QED BY <1>1, <1>4, <1>7, <3>1, <4>1 DEF TeleTimes
    <3>2. CASE x # Metrics!This
      <4>1. req[x] = tele.req[x]
        BY <1>7, <3>2
      <4> QED BY <1>1, <4>1 DEF TeleTimes
    <3> QED BY <3>1, <3>2
  <2>2. Metrics!NoTime <= tele.clock
    BY <1>4 DEF Metrics!NoTime
  <2> QED BY <1>1, <1>10, <2>1, <2>2 DEF TeleTimes
<1>16. TeleLife'
  <2>1. inflight = {x \in Reqs : req[x].st # "new" /\ req[x].end = Metrics!NoTime}
    BY <1>1, <1>2, <1>4, <1>7, <1>14 DEF TeleLife, inflight
  <2>2. \A x \in Reqs : LET z == req[x] IN
            /\ z.end # Metrics!NoTime => z.st = "finished"
            /\ z.st = "new" => z.first = Metrics!NoTime
            /\ z.st = "finished" => z.out > 0
            /\ z.sent > 0 => z.first # Metrics!NoTime
    BY <1>1, <1>4, <1>14 DEF TeleLife
  <2>3. \A i \in DOMAIN tele.pending : req[tele.pending[i]].st # "new"
    <3> SUFFICES ASSUME NEW i \in DOMAIN tele.pending PROVE req[tele.pending[i]].st # "new"
      OBVIOUS
    <3>1. tele.pending[i] \in Reqs
      BY <1>1 DEF TeleTyped
    <3> QED BY <1>1, <1>14, <3>1 DEF TeleLife
  <2>4. \A i \in DOMAIN tele.todo : LET z == req[tele.todo[i]] IN z.st # "new" /\ (z.end = Metrics!NoTime \/ i = 1)
    <3> SUFFICES ASSUME NEW i \in DOMAIN tele.todo
                 PROVE  /\ req[tele.todo[i]].st # "new"
                        /\ req[tele.todo[i]].end = Metrics!NoTime \/ i = 1
      OBVIOUS
    <3>1. tele.todo[i] \in Reqs
      BY <1>1 DEF TeleTyped
    <3>2. tele.req[tele.todo[i]].st # "new"
      BY <1>1 DEF TeleLife
    <3>3. i # 1 => tele.todo[i] # Metrics!This /\ tele.req[tele.todo[i]].end = Metrics!NoTime
      BY <1>3, ThisRequest
    <3> QED BY <1>14, <3>1, <3>2, <3>3
  <2>5. req[Metrics!This].st = "finished" /\ req[Metrics!This].first # Metrics!NoTime
    BY <1>4, <1>7
  <2> QED BY <1>1, <1>3, <1>10, <1>11, <2>1, <2>2, <2>3, <2>4, <2>5 DEF TeleLife
<1>17. TeleCounts'
  <2>1. [x \in Reqs |-> tele'.req[x].out] = [x \in Reqs |-> tele.req[x].out]
    BY <1>7, <1>10
  <2>2. SumFunction([x \in Reqs |-> tele'.req[x].out]) = SumFunction([x \in Reqs |-> tele.req[x].out])
    BY <2>1
  <2>3. tele.total = (tele.finished + 1) + Cardinality(inflight)
    <3>1. Metrics!This \in tele.inflight /\ tele.inflight \subseteq Reqs
      BY <1>1, <1>4 DEF TeleLife
    <3>2. IsFiniteSet(tele.inflight) /\ Cardinality(tele.inflight) \in Nat
      BY <3>1, FS_Subset, FS_CardinalityType, Libraries DEF Metrics!TelemetryConstants
    <3>3. Cardinality(inflight) = Cardinality(tele.inflight) - 1
      BY <3>1, <3>2, FS_RemoveElement DEF inflight
    <3>4. tele.total = tele.finished + Cardinality(tele.inflight) /\ tele.finished \in Nat
      BY <1>1 DEF TeleCounts, TeleTyped
    <3> DEFINE a == Cardinality(inflight)  b == Cardinality(tele.inflight)
    <3>5. a = b - 1 /\ b \in Nat /\ tele.total = tele.finished + b /\ tele.finished \in Nat
      BY <3>2, <3>3, <3>4
    <3> HIDE DEF a, b
    <3>6. tele.total = (tele.finished + 1) + a
      BY <3>5
    <3> QED BY <3>6 DEF a
  <2>4. tele.finished + 1 = tele.told + 1
    BY <1>1, <1>2 DEF TeleCounts, TeleTyped
  <2> QED BY <1>1, <1>2, <1>8, <1>10, <2>2, <2>3, <2>4 DEF TeleCounts
<1>18. TeleWindow'
  BY <1>1, <1>10 DEF TeleWindow
<1>19. TeleReader'
  BY <1>1, <1>10, ReaderKept DEF TeleTyped
<1> QED BY <1>12, <1>13, <1>15, <1>16, <1>17, <1>18, <1>19 DEF TeleInv

\* Every step keeps the invariant.
LEMMA TeleStep == ASSUME Metrics!TelemetryConstants, TeleInv, Metrics!Next PROVE TeleInv'
<1>1. CASE Metrics!Tick
  BY <1>1, TickStep
<1>2. CASE \E r \in Reqs : Metrics!Register(r)
  BY <1>2, RegisterStep
<1>3. CASE \E batch \in SUBSET Reqs : Metrics!Step(batch)
  BY <1>3, StepStep
<1>4. CASE Metrics!ReadClock
  BY <1>4, ReadClockStep
<1>5. CASE Metrics!RecordStep
  BY <1>5, RecordStepStep
<1>6. CASE Metrics!NextRequest
  BY <1>6, NextRequestStep
<1>7. CASE Metrics!RecordFirst
  BY <1>7, RecordFirstStep
<1>8. CASE Metrics!PutTokens
  BY <1>8, PutTokensStep
<1>9. CASE Metrics!RecordFinish
  BY <1>9, RecordFinishStep
<1>10. CASE Metrics!PutDone
  BY <1>10, PutDoneStep
<1>11. CASE \E t \in Readers : Metrics!SnapshotClock(t) \/ Metrics!SnapshotRead(t) \/ Metrics!SnapshotDone(t)
  BY <1>11, ReaderRestStep, ReadStep
<1> QED BY <1>1, <1>2, <1>3, <1>4, <1>5, <1>6, <1>7, <1>8, <1>9, <1>10, <1>11 DEF Metrics!Next

\* The invariant says that the metrics agree.
LEMMA TeleAgrees == ASSUME Metrics!TelemetryConstants, TeleInv PROVE Metrics!MetricsAgree
<1>1. TeleShape /\ TeleTyped /\ TeleTimes /\ TeleLife /\ TeleCounts /\ TeleWindow /\ TeleReader
  BY DEF TeleInv
<1>2. \A t \in Readers : tele.reader[t].pc = "read" =>
        LET r == tele.reader[t] IN
        /\ r.counters[2] >= r.seen
        /\ r.counters[1] = r.counters[2] + r.counters[3]
        /\ \A k \in Metrics!Kinds : \A i \in DOMAIN r.samples[k] : r.samples[k][i].at >= r.now - WindowS
        /\ Metrics!Percentile(r.e2e, 50) <= Metrics!Percentile(r.e2e, 99)
  BY <1>1 DEF TeleReader
<1>3. tele.pc = "top" => tele.counted["decode"] + tele.rows = SumFunction([r \in Reqs |-> tele.req[r].out])
  <2> SUFFICES ASSUME tele.pc = "top"
               PROVE  tele.counted["decode"] + tele.rows = SumFunction([r \in Reqs |-> tele.req[r].out])
    OBVIOUS
  <2> DEFINE a == SumFunction([r \in Reqs |-> tele.req[r].out])
             c == tele.counted["decode"]
  <2>1. a = c + tele.rows + 0
    BY <1>1 DEF TeleCounts
  <2>2. c \in Nat /\ tele.rows \in Nat
    BY <1>1 DEF TeleTyped, Metrics!Kinds
  <2> HIDE DEF a, c
  <2>3. c + tele.rows = a
    BY <2>1, <2>2
  <2> QED BY <2>3 DEF a, c
<1>4. \A r \in Reqs : tele.req[r].end # Metrics!NoTime => tele.req[r].first \in tele.req[r].start..tele.req[r].end
  <2> SUFFICES ASSUME NEW r \in Reqs, tele.req[r].end # Metrics!NoTime
               PROVE  tele.req[r].first \in tele.req[r].start..tele.req[r].end
    OBVIOUS
  <2>1. tele.req[r].start \in Int /\ tele.req[r].first \in Int /\ tele.req[r].end \in Int
    BY RequestTyped
  <2>2. tele.req[r].start <= tele.req[r].first /\ tele.req[r].first <= tele.req[r].end
    BY <1>1 DEF TeleTimes
  <2> QED BY <2>1, <2>2
<1>5. Len(tele.ttft) <= LatencyWindow /\ Len(tele.e2e) <= LatencyWindow
  BY <1>1 DEF TeleCounts
<1>6. TeleWindow
  BY <1>1
<1> QED BY <1>2, <1>3, <1>4, <1>5, <1>6, Libraries DEF Metrics!MetricsAgree, TeleWindow

\* A behaviour of the metrics keeps their invariant.
LEMMA MetricsInvariant == PartsSpec => [](active = "telemetry" => TeleInv)
<1> DEFINE I == active = "telemetry" => TeleInv
<1>1. PartsInit => I
  BY TeleInitial, TelemetryAssumption DEF PartsInit
<1>2. I /\ [PartsNext]_partsVars => I'
  <2> SUFFICES ASSUME active = "telemetry" => TeleInv, [PartsNext]_partsVars, active' = "telemetry"
               PROVE  TeleInv'
    OBVIOUS
  <2>1. active = "telemetry" /\ TeleInv /\ (Metrics!Next \/ UNCHANGED tele)
    BY DEF PartsNext, Bounded, partsVars
  <2>2. CASE Metrics!Next
    BY <2>1, <2>2, TeleStep, TelemetryAssumption
  <2>3. CASE UNCHANGED tele
    BY <2>1, <2>3, TeleUnchanged
  <2> QED BY <2>1, <2>2, <2>3
<1> QED BY <1>1, <1>2, PTL DEF PartsSpec

\* However the worker, the clock and the threads that take snapshots
\* interleave, a snapshot counts whoever was told Done, its counters add up,
\* its rates use the window only, and no sample of the window is missing
\* (metrics.py, api/runtime.py, engine/llm_engine.py).
THEOREM MetricsFitTogether == PartsSpec => []MetricsAgree
<1>1. (active = "telemetry" => TeleInv) => MetricsAgree
  BY TeleAgrees, TelemetryAssumption DEF MetricsAgree
<1> QED BY <1>1, MetricsInvariant, PTL
=============================================================================
