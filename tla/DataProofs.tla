------------------------------ MODULE DataProofs ------------------------------
(***************************************************************************)
(* The machines of Parts.tla that turn data into another form: images into *)
(* the rows of their placeholders, and activations into bytes and back.    *)
(* As in PartsProofs, for each its inductive invariant, that its steps     *)
(* keep it, and what follows in every behaviour of PartsSpec.              *)
(***************************************************************************)
EXTENDS Parts, ListProofs

\* What the modules of the machines take from the libraries are the same
\* operators as here.
LEMMA Libraries ==
    /\ \A S : Imaging!Cardinality(S) = Cardinality(S)
    /\ \A S : Sending!Cardinality(S) = Cardinality(S)
    /\ \A f : Sending!SumFunction(f) = SumFunction(f)
    /\ \A f, S : Sending!SumFunctionOnSet(f, S) = SumFunctionOnSet(f, S)
<1>1. \A S : Imaging!Cardinality(S) = Cardinality(S)
  BY DEF Cardinality, Imaging!Cardinality
<1>2. \A S : Sending!Cardinality(S) = Cardinality(S)
  BY DEF Cardinality, Sending!Cardinality
<1>3. \A f, S : Sending!SumFunctionOnSet(f, S) = SumFunctionOnSet(f, S)
  BY DEF SumFunctionOnSet, Sending!SumFunctionOnSet, FoldFunctionOnSet,
         Sending!FoldFunctionOnSet, MapThenFoldSet, Sending!MapThenFoldSet
<1>4. \A f : Sending!SumFunction(f) = SumFunction(f)
  BY <1>3 DEF SumFunction, Sending!SumFunction
<1> QED BY <1>1, <1>2, <1>3, <1>4

-----------------------------------------------------------------------------
(* Multimodal *)

-----------------------------------------------------------------------------
(* Sizes *)

\* What the constants are, one by one.
LEMMA ImageConstants ==
    ASSUME Imaging!MultimodalConstants
    PROVE  /\ Patch \in Nat \ {0} /\ Merge \in Nat \ {0} /\ Imaging!Factor \in Nat \ {0}
           /\ Imaging!Factor = Patch * Merge /\ Ratio \in Nat \ {0}
           /\ MinPixels \in Nat \ {0} /\ MaxPixels \in Nat \ {0}
           /\ Imaging!Factor * Imaging!Factor \in Nat \ {0}
           /\ Ratio * (Imaging!Factor * Imaging!Factor) <= MinPixels /\ 4 * MinPixels <= MaxPixels
<1>1. /\ Patch \in Nat \ {0} /\ Merge \in Nat \ {0} /\ Ratio \in Nat \ {0}
      /\ MinPixels \in Nat /\ MaxPixels \in Nat
      /\ Ratio * (Imaging!Factor * Imaging!Factor) <= MinPixels /\ 4 * MinPixels <= MaxPixels
  BY DEF Imaging!MultimodalConstants
<1>2. \A a, b \in Nat \ {0} : a * b \in Nat \ {0}
  <2>1. \A a, b \in Nat \ {0} : a * b \in Nat /\ 1 * 1 <= a * b
    BY TimesLe, TimesNat
  <2> QED BY <2>1
<1>3. Imaging!Factor = Patch * Merge
  BY DEF Imaging!Factor
<1>4. Imaging!Factor \in Nat \ {0}
  BY <1>1, <1>2, <1>3
<1>5. Imaging!Factor * Imaging!Factor \in Nat \ {0}
  BY <1>2, <1>4
<1>6. Ratio * (Imaging!Factor * Imaging!Factor) \in Nat \ {0}
  BY <1>1, <1>2, <1>5
<1>7. MinPixels \in Nat \ {0} /\ MaxPixels \in Nat \ {0}
  BY <1>1, <1>6
<1> QED BY <1>1, <1>3, <1>4, <1>5, <1>7

\* A limit of pixels that leaves room for the worst ratio.
Roomy(X) == X \in Nat \ {0} /\ Ratio * (Imaging!Factor * Imaging!Factor) <= X

\* One side of an image in its ratio to the other.
LEMMA RatioFacts ==
    ASSUME Imaging!MultimodalConstants, NEW X, Roomy(X), NEW n \in Nat \ {0}, NEW o \in Nat \ {0},
           o <= Ratio * n
    PROVE  (Imaging!Factor * Imaging!Factor) * o <= n * X /\ o <= n * X
<1>1. /\ Ratio \in Nat \ {0} /\ X \in Nat /\ Imaging!Factor * Imaging!Factor \in Nat \ {0}
      /\ Ratio * (Imaging!Factor * Imaging!Factor) <= X
  BY ImageConstants DEF Roomy
<1> DEFINE G == Imaging!Factor * Imaging!Factor
<1>2. G \in Nat \ {0} /\ Ratio * G <= X
  BY <1>1
<1> HIDE DEF G
<1>3. Ratio * n \in Nat /\ Ratio * G \in Nat /\ G * o \in Nat /\ n * X \in Nat
  BY <1>1, <1>2, TimesNat
<1>4. G * o <= G * (Ratio * n)
  BY <1>2, <1>3, TimesLe
<1>5. G * (Ratio * n) = n * (Ratio * G)
  BY <1>1, <1>2
<1>6. n * (Ratio * G) <= n * X
  BY <1>1, <1>2, <1>3, TimesLe
<1>7. n * (Ratio * G) \in Nat
  BY <1>3, TimesNat
<1>8. G * o <= n * X
  BY <1>3, <1>4, <1>5, <1>6, <1>7
<1>9. 1 * o <= G * o
  BY <1>2, TimesLe
<1> QED BY <1>3, <1>8, <1>9 DEF G

\* A number of factors, squared, times the other side.
LEMMA SquareFacts ==
    ASSUME Imaging!MultimodalConstants, NEW k \in Nat, NEW o \in Nat
    PROVE  /\ Imaging!Factor * k \in Nat /\ (Imaging!Factor * k) * (Imaging!Factor * k) \in Nat
           /\ k * Imaging!Factor * k * Imaging!Factor * o \in Nat
           /\ k * Imaging!Factor * k * Imaging!Factor * o = ((Imaging!Factor * k) * (Imaging!Factor * k)) * o
           /\ k * Imaging!Factor * k * Imaging!Factor * o = (k * k) * ((Imaging!Factor * Imaging!Factor) * o)
<1>1. Imaging!Factor \in Nat
  BY ImageConstants
<1>2. Imaging!Factor * k \in Nat /\ (Imaging!Factor * k) * (Imaging!Factor * k) \in Nat
  BY <1>1, TimesNat
<1>3. ((Imaging!Factor * k) * (Imaging!Factor * k)) * o \in Nat
  BY <1>2, TimesNat
<1>4. k * Imaging!Factor * k * Imaging!Factor * o = ((Imaging!Factor * k) * (Imaging!Factor * k)) * o
  BY <1>1
<1>5. k * Imaging!Factor * k * Imaging!Factor * o = (k * k) * ((Imaging!Factor * Imaging!Factor) * o)
  BY <1>1
<1> QED BY <1>2, <1>3, <1>4, <1>5

\* Shrinking a side to whole factors keeps it within its share of the pixels,
\* and more than half of it.
LEMMA ShrunkFacts ==
    ASSUME Imaging!MultimodalConstants, NEW n \in Nat \ {0}, NEW o \in Nat \ {0},
           o <= Ratio * n, n <= Ratio * o
    PROVE  \E k \in Nat \ {0} :
            /\ Imaging!Shrunk(n, o) = Imaging!Factor * k
            /\ ((Imaging!Factor * k) * (Imaging!Factor * k)) * o <= n * MaxPixels
            /\ n * MaxPixels <= ((2 * (Imaging!Factor * k)) * (2 * (Imaging!Factor * k))) * o
<1> DEFINE M == MaxPixels
           T(k) == k * Imaging!Factor * k * Imaging!Factor * o
           ks == {k \in 1..M : T(k) <= n * M}
           H == (Imaging!Factor * Imaging!Factor) * o
<1>1. /\ Imaging!Factor \in Nat \ {0} /\ M \in Nat \ {0} /\ Imaging!Factor * Imaging!Factor \in Nat \ {0} /\ Roomy(M)
      /\ H \in Nat /\ n * M \in Nat
  <2>1. /\ Imaging!Factor \in Nat \ {0} /\ MinPixels \in Nat /\ M \in Nat \ {0} /\ Imaging!Factor * Imaging!Factor \in Nat \ {0}
        /\ Ratio * (Imaging!Factor * Imaging!Factor) <= MinPixels /\ 4 * MinPixels <= M /\ Ratio \in Nat
    BY ImageConstants
  <2>2. Ratio * (Imaging!Factor * Imaging!Factor) \in Nat
    BY <2>1, TimesNat
  <2> QED BY <2>1, <2>2, TimesNat DEF Roomy
<1>2. H <= n * M /\ n <= o * M
  BY <1>1, RatioFacts
<1>3. \A k \in Nat : T(k) = (k * k) * H /\ T(k) \in Nat /\ k * k \in Nat
                     /\ T(k) = ((Imaging!Factor * k) * (Imaging!Factor * k)) * o
  BY SquareFacts, TimesNat
<1> HIDE DEF T, H
<1>4. 1 \in ks
  <2>1. T(1) = H
    BY <1>1, <1>3
  <2> QED BY <1>1, <1>2, <2>1
<1>5. PICK k \in ks : \A j \in ks : j <= k
  <2>1. ks \subseteq 0..M /\ ks # {}
    BY <1>1, <1>4
  <2> HIDE DEF ks, M
  <2> QED BY <1>1, <2>1, HasGreatest
<1>6. (CHOOSE c \in ks : \A j \in ks : j <= c) = k
  <2>1. \A c \in ks : (\A j \in ks : j <= c) => c = k
    BY <1>5
  <2> HIDE DEF ks
  <2> QED BY <1>5, <2>1
<1>7. Imaging!Shrunk(n, o) = Imaging!Factor * k
  BY <1>4, <1>6 DEF Imaging!Shrunk, T
<1>8. k \in Nat \ {0} /\ k <= M /\ T(k) <= n * M
  BY <1>1, <1>5
<1>9. n * M <= 4 * T(k)
  <2>1. CASE k + 1 <= M
    <3>1. k + 1 \notin ks /\ k + 1 \in 1..M
      BY <1>1, <1>5, <1>8, <2>1
    <3>2. n * M <= T(k + 1)
      BY <1>1, <1>3, <1>8, <3>1
    <3>3. (k + 1) * (k + 1) <= (2 * k) * (2 * k)
      BY <1>8, TimesLe
    <3>4. T(k + 1) <= ((2 * k) * (2 * k)) * H
      <4>1. T(k + 1) = ((k + 1) * (k + 1)) * H
        BY <1>3, <1>8
      <4>2. (k + 1) * (k + 1) \in Nat /\ (2 * k) * (2 * k) \in Nat
        BY <1>8, TimesNat
      <4>3. ((k + 1) * (k + 1)) * H <= ((2 * k) * (2 * k)) * H
        BY <1>1, <3>3, <4>2, TimesLe
      <4> QED BY <4>1, <4>3
    <3>5. ((2 * k) * (2 * k)) * H = 4 * ((k * k) * H)
      BY <1>1, <1>8
    <3> QED BY <1>1, <1>3, <1>8, <3>2, <3>4, <3>5
  <2>2. CASE k = M
    <3>1. n * M <= (o * M) * M
      BY <1>1, <1>2, TimesLe, TimesNat
    <3>2. o <= H
      <4>1. 1 * o <= (Imaging!Factor * Imaging!Factor) * o
        BY <1>1, TimesLe
      <4> QED BY <4>1 DEF H
    <3>3. (M * M) * o <= (M * M) * H
      BY <1>1, <3>2, TimesLe, TimesNat
    <3>4. (M * M) * o = (o * M) * M
      BY <1>1
    <3>5. T(k) = (M * M) * H /\ T(k) \in Nat
      BY <1>3, <1>8, <2>2
    <3>6. (M * M) * o \in Nat
      BY <1>1, TimesNat
    <3> QED BY <1>1, <3>1, <3>3, <3>4, <3>5, <3>6
  <2> QED BY <1>1, <1>8, <2>1, <2>2
<1>10. ((2 * (Imaging!Factor * k)) * (2 * (Imaging!Factor * k))) * o = 4 * (((Imaging!Factor * k) * (Imaging!Factor * k)) * o)
  BY <1>1, <1>8
<1> QED BY <1>3, <1>7, <1>8, <1>9, <1>10

\* Growing a side to whole factors reaches its share of the pixels, and less
\* than twice of it.
LEMMA GrownFacts ==
    ASSUME Imaging!MultimodalConstants, NEW n \in Nat \ {0}, NEW o \in Nat \ {0},
           o <= Ratio * n, n <= Ratio * o
    PROVE  \E k \in Nat \ {0} :
            /\ Imaging!Grown(n, o) = Imaging!Factor * k
            /\ n * MinPixels <= ((Imaging!Factor * k) * (Imaging!Factor * k)) * o
            /\ ((Imaging!Factor * k) * (Imaging!Factor * k)) * o <= n * (4 * MinPixels)
<1> DEFINE M == MinPixels
           T(k) == k * Imaging!Factor * k * Imaging!Factor * o
           ks == {k \in 1..M : T(k) >= n * M}
           H == (Imaging!Factor * Imaging!Factor) * o
<1>1. /\ Imaging!Factor \in Nat \ {0} /\ M \in Nat \ {0} /\ Imaging!Factor * Imaging!Factor \in Nat \ {0} /\ Roomy(M)
      /\ H \in Nat /\ n * M \in Nat
  BY ImageConstants, TimesNat DEF Roomy
<1>2. H <= n * M /\ n <= o * M
  BY <1>1, RatioFacts
<1>3. \A k \in Nat : T(k) = (k * k) * H /\ T(k) \in Nat /\ k * k \in Nat
                     /\ T(k) = ((Imaging!Factor * k) * (Imaging!Factor * k)) * o
  BY SquareFacts, TimesNat
<1>4. o <= H
  <2>1. 1 * o <= (Imaging!Factor * Imaging!Factor) * o
    BY <1>1, TimesLe
  <2> QED BY <2>1
<1> HIDE DEF T, H
<1>5. M \in ks
  <2>1. n * M <= (o * M) * M
    BY <1>1, <1>2, TimesLe, TimesNat
  <2>2. (M * M) * o <= (M * M) * H
    BY <1>1, <1>4, TimesLe, TimesNat
  <2>3. (M * M) * o = (o * M) * M /\ (M * M) * o \in Nat
    BY <1>1, TimesNat
  <2>4. T(M) = (M * M) * H /\ T(M) \in Nat
    BY <1>1, <1>3
  <2>5. T(M) >= n * M
    BY <1>1, <2>1, <2>2, <2>3, <2>4
  <2> QED BY <1>1, <2>5
<1>6. PICK k \in ks : \A j \in ks : k <= j
  <2>1. ks \subseteq Nat /\ ks # {}
    BY <1>1, <1>5
  <2> HIDE DEF ks, M
  <2> QED BY <2>1, HasLeast
<1>7. (CHOOSE c \in ks : \A j \in ks : c <= j) = k
  <2>1. \A c \in ks : (\A j \in ks : c <= j) => c = k
    BY <1>6
  <2> HIDE DEF ks
  <2> QED BY <1>6, <2>1
<1>8. Imaging!Grown(n, o) = Imaging!Factor * k
  BY <1>7 DEF Imaging!Grown, T
<1>9. k \in Nat \ {0} /\ k <= M /\ n * M <= T(k)
  BY <1>1, <1>3, <1>6
<1>10. T(k) <= 4 * (n * M)
  <2>1. CASE k = 1
    <3>1. T(k) = H
      BY <1>1, <1>3, <2>1
    <3> QED BY <1>1, <1>2, <3>1
  <2>2. CASE k # 1
    <3>1. k - 1 \in 1..M /\ k - 1 \notin ks
      BY <1>1, <1>6, <1>9, <2>2
    <3>2. T(k - 1) <= n * M
      BY <1>1, <1>3, <1>9, <3>1
    <3>3. k * k <= (2 * (k - 1)) * (2 * (k - 1))
      BY <1>9, <2>2, TimesLe
    <3>4. (k * k) * H <= ((2 * (k - 1)) * (2 * (k - 1))) * H
      BY <1>1, <1>3, <1>9, <2>2, <3>3, TimesLe, TimesNat
    <3>5. ((2 * (k - 1)) * (2 * (k - 1))) * H = 4 * (((k - 1) * (k - 1)) * H)
      BY <1>1, <1>9
    <3>6. T(k - 1) = ((k - 1) * (k - 1)) * H /\ T(k - 1) \in Nat /\ T(k) = (k * k) * H
      BY <1>3, <1>9, <2>2
    <3> QED BY <1>1, <3>2, <3>4, <3>5, <3>6
  <2> QED BY <2>1, <2>2
<1>11. n * (4 * M) = 4 * (n * M)
  BY <1>1
<1> QED BY <1>3, <1>8, <1>9, <1>10, <1>11

\* The resized image is made of whole blocks and within the limits.
SizeFits(s) ==
    \E a, b \in Nat \ {0} :
        /\ s = <<Imaging!Factor * a, Imaging!Factor * b>>
        /\ (Imaging!Factor * a) * (Imaging!Factor * b) \in MinPixels..MaxPixels

\* So smart_resize does what it is for.
LEMMA SmartResizeFits ==
    ASSUME Imaging!MultimodalConstants, NEW h \in Nat \ {0}, NEW w \in Nat \ {0},
           h <= Ratio * w, w <= Ratio * h
    PROVE  SizeFits(Imaging!SmartResize(h, w))
<1>1. /\ Imaging!Factor \in Nat \ {0} /\ MinPixels \in Nat \ {0} /\ MaxPixels \in Nat \ {0}
      /\ 4 * MinPixels <= MaxPixels
  BY ImageConstants
<1> DEFINE hb == Imaging!Nearest(h) * Imaging!Factor
           wb == Imaging!Nearest(w) * Imaging!Factor
<1>5. \A n \in Nat : Imaging!Nearest(n) \in Nat
  <2> SUFFICES ASSUME NEW n \in Nat PROVE Imaging!Nearest(n) \in Nat
    OBVIOUS
  <2> DEFINE q == n \div Imaging!Factor
  <2>1. q \in Nat /\ n % Imaging!Factor \in 0..Imaging!Factor - 1
    BY <1>1, Divided
  <2>2. q % 2 \in 0..1
    BY <2>1
  <2>3. Imaging!Nearest(n) \in {q, q + 1, q + (q % 2)}
    BY <1>1, <2>1 DEF Imaging!Nearest
  <2> HIDE DEF q
  <2> QED BY <2>1, <2>2, <2>3
<1>6. hb * wb \in Nat
  BY <1>1, <1>5, TimesNat
<1>2. CASE hb * wb > MaxPixels
  <2>1. PICK k \in Nat \ {0} :
            /\ Imaging!Shrunk(h, w) = Imaging!Factor * k
            /\ ((Imaging!Factor * k) * (Imaging!Factor * k)) * w <= h * MaxPixels
            /\ h * MaxPixels <= ((2 * (Imaging!Factor * k)) * (2 * (Imaging!Factor * k))) * w
    BY ShrunkFacts
  <2>2. PICK j \in Nat \ {0} :
            /\ Imaging!Shrunk(w, h) = Imaging!Factor * j
            /\ ((Imaging!Factor * j) * (Imaging!Factor * j)) * h <= w * MaxPixels
            /\ w * MaxPixels <= ((2 * (Imaging!Factor * j)) * (2 * (Imaging!Factor * j))) * h
    BY ShrunkFacts
  <2>3. Imaging!Factor * k \in Nat /\ Imaging!Factor * j \in Nat /\ 2 * (Imaging!Factor * k) \in Nat /\ 2 * (Imaging!Factor * j) \in Nat
    BY <1>1, TimesNat
  <2>4. (Imaging!Factor * k) * (Imaging!Factor * j) <= MaxPixels
    BY <1>1, <2>1, <2>2, <2>3, ProductLe
  <2>5. MaxPixels <= (2 * (Imaging!Factor * k)) * (2 * (Imaging!Factor * j))
    BY <1>1, <2>1, <2>2, <2>3, ProductGe
  <2>6. (2 * (Imaging!Factor * k)) * (2 * (Imaging!Factor * j)) = 4 * ((Imaging!Factor * k) * (Imaging!Factor * j))
    BY <2>3
  <2>7. (Imaging!Factor * k) * (Imaging!Factor * j) \in Nat
    BY <2>3, TimesNat
  <2>8. (Imaging!Factor * k) * (Imaging!Factor * j) \in MinPixels..MaxPixels
    BY <1>1, <2>4, <2>5, <2>6, <2>7
  <2>9. ~(hb * wb < MinPixels)
    BY <1>1, <1>2, <1>6
  <2>10. Imaging!SmartResize(h, w) = <<Imaging!Shrunk(h, w), Imaging!Shrunk(w, h)>>
    BY <1>2, <2>9 DEF Imaging!SmartResize
  <2>11. Imaging!SmartResize(h, w) = <<Imaging!Factor * k, Imaging!Factor * j>>
    BY <2>1, <2>2, <2>10
  <2> QED BY <2>8, <2>11 DEF SizeFits
<1>3. CASE ~(hb * wb > MaxPixels) /\ hb * wb < MinPixels
  <2>1. PICK k \in Nat \ {0} :
            /\ Imaging!Grown(h, w) = Imaging!Factor * k
            /\ h * MinPixels <= ((Imaging!Factor * k) * (Imaging!Factor * k)) * w
            /\ ((Imaging!Factor * k) * (Imaging!Factor * k)) * w <= h * (4 * MinPixels)
    BY GrownFacts
  <2>2. PICK j \in Nat \ {0} :
            /\ Imaging!Grown(w, h) = Imaging!Factor * j
            /\ w * MinPixels <= ((Imaging!Factor * j) * (Imaging!Factor * j)) * h
            /\ ((Imaging!Factor * j) * (Imaging!Factor * j)) * h <= w * (4 * MinPixels)
    BY GrownFacts
  <2>3. Imaging!Factor * k \in Nat /\ Imaging!Factor * j \in Nat
    BY <1>1, TimesNat
  <2>4. MinPixels <= (Imaging!Factor * k) * (Imaging!Factor * j)
    BY <1>1, <2>1, <2>2, <2>3, ProductGe
  <2>5. (Imaging!Factor * k) * (Imaging!Factor * j) <= 4 * MinPixels
    BY <1>1, <2>1, <2>2, <2>3, ProductLe
  <2>6. (Imaging!Factor * k) * (Imaging!Factor * j) \in Nat
    BY <2>3, TimesNat
  <2>7. (Imaging!Factor * k) * (Imaging!Factor * j) \in MinPixels..MaxPixels
    BY <1>1, <2>4, <2>5, <2>6
  <2>8. Imaging!SmartResize(h, w) = <<Imaging!Factor * k, Imaging!Factor * j>>
    BY <1>3, <2>1, <2>2 DEF Imaging!SmartResize
  <2> QED BY <2>7, <2>8 DEF SizeFits
<1>4. CASE ~(hb * wb > MaxPixels) /\ ~(hb * wb < MinPixels)
  <2> DEFINE a == Imaging!Nearest(h)
             b == Imaging!Nearest(w)
  <2>2. a \in Nat /\ b \in Nat
    BY <1>5
  <2>3. Imaging!SmartResize(h, w) = <<a * Imaging!Factor, b * Imaging!Factor>>
    BY <1>4 DEF Imaging!SmartResize
  <2>4. ~((a * Imaging!Factor) * (b * Imaging!Factor) > MaxPixels) /\ ~((a * Imaging!Factor) * (b * Imaging!Factor) < MinPixels)
    BY <1>4
  <2> HIDE DEF a, b
  <2>5. a * Imaging!Factor = Imaging!Factor * a /\ b * Imaging!Factor = Imaging!Factor * b
    BY <1>1, <2>2
  <2>6. (Imaging!Factor * a) * (Imaging!Factor * b) \in Nat
    BY <1>1, <2>2, TimesNat
  <2>7. (Imaging!Factor * a) * (Imaging!Factor * b) \in MinPixels..MaxPixels
    BY <1>1, <2>4, <2>5, <2>6
  <2>8. a # 0 /\ b # 0
    <3>1. \A x \in Nat : Imaging!Factor * 0 = 0 /\ 0 * x = 0 /\ x * 0 = 0
      BY <1>1
    <3>2. Imaging!Factor * a \in Nat /\ Imaging!Factor * b \in Nat
      BY <1>1, <2>2, TimesNat
    <3> QED BY <1>1, <2>7, <3>1, <3>2
  <2> QED BY <2>2, <2>3, <2>5, <2>7, <2>8 DEF SizeFits
<1> QED BY <1>2, <1>3, <1>4

-----------------------------------------------------------------------------
(* Patches *)

\* The grid of an image whose size fits.
LEMMA GridFacts ==
    ASSUME Imaging!MultimodalConstants, NEW a \in Nat \ {0}, NEW b \in Nat \ {0},
           mm.size = <<Imaging!Factor * a, Imaging!Factor * b>>
    PROVE  /\ Imaging!GridH = Merge * a /\ Imaging!GridW = Merge * b /\ Imaging!GridW \div Merge = b
           /\ Imaging!GridH \in Nat \ {0} /\ Imaging!GridW \in Nat \ {0} /\ Imaging!GridH * Imaging!GridW \in Nat \ {0}
           /\ Imaging!GridH * Imaging!GridW = (Merge * Merge) * (a * b)
<1>1. Patch \in Nat \ {0} /\ Merge \in Nat \ {0} /\ Imaging!Factor = Patch * Merge
  BY ImageConstants
<1>2. \A x, y \in Nat \ {0} : x * y \in Nat \ {0}
  <2>1. \A x, y \in Nat \ {0} : x * y \in Nat /\ 1 * 1 <= x * y
    BY TimesLe, TimesNat
  <2> QED BY <2>1
<1>3. \A d \in Nat \ {0}, q \in Nat : (d * q) \div d = q
  <2>1. \A d \in Nat \ {0}, q \in Nat : (d * q + 0) \div d = q /\ d * q \in Nat
    BY DividesOnce, TimesNat
  <2> QED BY <2>1
<1>4. Imaging!Factor * a = Patch * (Merge * a) /\ Imaging!Factor * b = Patch * (Merge * b)
  BY <1>1
<1>5. Merge * a \in Nat \ {0} /\ Merge * b \in Nat \ {0}
  BY <1>1, <1>2
<1>6. Imaging!GridH = Merge * a /\ Imaging!GridW = Merge * b
  <2>1. (Patch * (Merge * a)) \div Patch = Merge * a /\ (Patch * (Merge * b)) \div Patch = Merge * b
    BY <1>1, <1>3, <1>5
  <2>2. mm.size[1] = Patch * (Merge * a) /\ mm.size[2] = Patch * (Merge * b)
    BY <1>4
  <2> QED BY <2>1, <2>2 DEF Imaging!GridH, Imaging!GridW
<1>7. (Merge * a) * (Merge * b) = (Merge * Merge) * (a * b)
  BY <1>1
<1> QED BY <1>1, <1>2, <1>3, <1>5, <1>6, <1>7

\* Cell and block of the patch i.
LEMMA PatchFacts ==
    ASSUME Imaging!MultimodalConstants, NEW a \in Nat \ {0}, NEW b \in Nat \ {0},
           mm.size = <<Imaging!Factor * a, Imaging!Factor * b>>, NEW i \in 0..Imaging!GridH * Imaging!GridW - 1
    PROVE  /\ Imaging!PatchAt(i) \in Imaging!Cells
           /\ Imaging!PatchAt(i)[1] \div Merge = (i \div (Merge * Merge)) \div b
           /\ Imaging!PatchAt(i)[2] \div Merge = (i \div (Merge * Merge)) % b
<1> DEFINE A == Merge * Merge
           k == i \div A
           u == i % A
<1>1. /\ Imaging!GridH = Merge * a /\ Imaging!GridW = Merge * b /\ Imaging!GridW \div Merge = b
      /\ Imaging!GridH * Imaging!GridW = A * (a * b)
  BY GridFacts
<1>2. Merge \in Nat \ {0}
  BY ImageConstants
<1>3. A \in Nat \ {0} /\ a * b \in Nat
  <2>1. A \in Nat /\ 1 * 1 <= A
    BY <1>2, TimesLe, TimesNat
  <2> QED BY <2>1, TimesNat
<1>4. k \in 0..a * b - 1 /\ u \in 0..A - 1
  <2>1. i \in 0..A * (a * b) - 1
    BY <1>1
  <2> HIDE DEF A
  <2> QED BY <1>3, <2>1, DigitsBelow
<1>5. Imaging!PatchAt(i) = <<(k \div b) * Merge + (u \div Merge), (k % b) * Merge + (u % Merge)>>
  BY <1>1 DEF Imaging!PatchAt
<1>6. u \div Merge \in 0..Merge - 1 /\ u % Merge \in 0..Merge - 1
  <2> HIDE DEF u
  <2> QED BY <1>2, <1>4, DigitsBelow DEF A
<1>7. k \div b \in 0..a - 1 /\ k % b \in 0..b - 1
  <2>1. a * b = b * a
    OBVIOUS
  <2>2. k \in 0..b * a - 1
    BY <1>4, <2>1
  <2> HIDE DEF k
  <2> QED BY <2>2, DigitsBelow
<1> HIDE DEF k, u
<1> DEFINE p == k \div b
           q == k % b
           r == u \div Merge
           c == u % Merge
<1>8. p \in 0..a - 1 /\ q \in 0..b - 1 /\ r \in 0..Merge - 1 /\ c \in 0..Merge - 1
  BY <1>6, <1>7
<1>9. Imaging!PatchAt(i) = <<p * Merge + r, q * Merge + c>>
  BY <1>5
<1> HIDE DEF p, q, r, c
<1>10. p * Merge = Merge * p /\ q * Merge = Merge * q
  BY <1>2, <1>8
<1>11. Merge * p + r \in 0..Imaging!GridH - 1 /\ Merge * q + c \in 0..Imaging!GridW - 1
  BY <1>1, <1>2, <1>8, DigitsMake
<1>12. (Merge * p + r) \div Merge = p /\ (Merge * q + c) \div Merge = q
  BY <1>2, <1>8, DividesOnce
<1> QED BY <1>9, <1>10, <1>11, <1>12 DEF Imaging!Cells, p, q, k, A

\* Every cell has a patch.
LEMMA PatchesCover ==
    ASSUME Imaging!MultimodalConstants, NEW a \in Nat \ {0}, NEW b \in Nat \ {0},
           mm.size = <<Imaging!Factor * a, Imaging!Factor * b>>, NEW x \in Imaging!Cells
    PROVE  \E i \in 0..Imaging!GridH * Imaging!GridW - 1 : Imaging!PatchAt(i) = x
<1> DEFINE A == Merge * Merge
<1>1. /\ Imaging!GridH = Merge * a /\ Imaging!GridW = Merge * b /\ Imaging!GridW \div Merge = b
      /\ Imaging!GridH * Imaging!GridW = A * (a * b)
  BY GridFacts
<1>2. Merge \in Nat \ {0}
  BY ImageConstants
<1>3. A \in Nat \ {0} /\ a * b \in Nat
  <2>1. A \in Nat /\ 1 * 1 <= A
    BY <1>2, TimesLe, TimesNat
  <2> QED BY <2>1, TimesNat
<1>4. x = <<x[1], x[2]>> /\ x[1] \in 0..Merge * a - 1 /\ x[2] \in 0..Merge * b - 1
  BY <1>1 DEF Imaging!Cells
<1> DEFINE p == x[1] \div Merge
           r == x[1] % Merge
           q == x[2] \div Merge
           c == x[2] % Merge
<1>5. p \in 0..a - 1 /\ r \in 0..Merge - 1 /\ x[1] = Merge * p + r
  BY <1>2, <1>4, DigitsBelow
<1>6. q \in 0..b - 1 /\ c \in 0..Merge - 1 /\ x[2] = Merge * q + c
  BY <1>2, <1>4, DigitsBelow
<1> HIDE DEF p, q, r, c
<1> DEFINE k == b * p + q
           u == Merge * r + c
           i == A * k + u
<1>7. k \in 0..a * b - 1
  <2>1. k \in 0..b * a - 1
    BY <1>5, <1>6, DigitsMake
  <2>2. b * a = a * b
    OBVIOUS
  <2> QED BY <2>1, <2>2
<1>8. u \in 0..A - 1
  BY <1>2, <1>5, <1>6, DigitsMake
<1>9. k \div b = p /\ k % b = q
  <2>1. p \in Nat /\ q \in 0..b - 1
    BY <1>5, <1>6
  <2> QED BY <2>1, DividesOnce
<1>10. u \div Merge = r /\ u % Merge = c
  <2>1. Merge \in Nat \ {0} /\ r \in Nat /\ c \in 0..Merge - 1
    BY <1>2, <1>5, <1>6
  <2>2. \A d \in Nat \ {0} : \A y \in Nat, z \in 0..d - 1 :
            (d * y + z) \div d = y /\ (d * y + z) % d = z
    BY DividesOnce
  <2> HIDE DEF A
  <2> QED BY <2>1, <2>2
<1> HIDE DEF k, u, A
<1>11. i \in 0..Imaging!GridH * Imaging!GridW - 1
  BY <1>1, <1>3, <1>7, <1>8, DigitsMake
<1>12. i \div A = k /\ i % A = u
  BY <1>3, <1>7, <1>8, DividesOnce
<1>13. Imaging!PatchAt(i) = <<p * Merge + r, q * Merge + c>>
  BY <1>1, <1>9, <1>10, <1>12 DEF Imaging!PatchAt, A
<1>14. p * Merge = Merge * p /\ q * Merge = Merge * q
  BY <1>2, <1>5, <1>6
<1> QED BY <1>4, <1>5, <1>6, <1>11, <1>13, <1>14
-----------------------------------------------------------------------------
(* The invariant *)

\* The fields and their types.
ImgShape ==
    /\ mm = [pc |-> mm.pc, height |-> mm.height, width |-> mm.width, before |-> mm.before,
             chunk |-> mm.chunk, size |-> mm.size, patches |-> mm.patches, tower |-> mm.tower,
             start |-> mm.start, rows |-> mm.rows]
    /\ mm.pc \in {"resize", "patchify", "tower", "prefill", "refused", "done"}
    /\ mm.height \in Nat \ {0} /\ mm.width \in Nat \ {0} /\ mm.before \in Nat
    /\ mm.chunk \in Nat /\ mm.start \in Nat
    /\ \E D : mm.rows \in Seq(D)

\* What each stage has made of the image.
ImgMade ==
    /\ mm.pc \notin {"resize", "refused"} => SizeFits(mm.size)
    /\ mm.pc \in {"tower", "prefill", "done"} =>
          mm.patches = [i \in 1..Imaging!GridH * Imaging!GridW |-> Imaging!PatchAt(i - 1)]
    /\ IF mm.pc \in {"prefill", "done"}
       THEN mm.tower = [i \in 1..Imaging!GridH * Imaging!GridW |->
                [cell |-> <<(i - 1) \div Imaging!GridW, (i - 1) % Imaging!GridW>>, at |-> Imaging!Rope(i - 1)]]
       ELSE mm.tower = <<>>

\* The rows of the forwards so far; a further one starts at a whole number of
\* chunks.
ImgRows ==
    /\ mm.pc \notin {"prefill", "done"} => mm.start = 0 /\ mm.rows = <<>>
    /\ Len(mm.rows) = mm.start
    /\ mm.pc = "prefill" => \E m \in Nat : mm.start = mm.chunk * m /\ mm.start < Imaging!PromptLen
    /\ mm.pc = "done" => mm.start = Imaging!PromptLen
    /\ mm.pc \in {"prefill", "done"} /\ Imaging!InOneForward =>
          \A i \in 1..mm.start :
            mm.rows[i] = IF Imaging!IsImage(i) THEN mm.tower[i - mm.before].cell ELSE "text"

ImgInv == ImgShape /\ ImgMade /\ ImgRows

\* The invariant gives the property.
LEMMA ImageFits == ASSUME Imaging!MultimodalConstants, ImgInv PROVE Imaging!ImageInItsPlace
<1>1. mm.pc \notin {"resize", "refused"} =>
        /\ \A s \in {1, 2} : mm.size[s] % Imaging!Factor = 0
        /\ mm.size[1] * mm.size[2] \in MinPixels..MaxPixels
  <2> SUFFICES ASSUME mm.pc \notin {"resize", "refused"}
               PROVE  /\ \A s \in {1, 2} : mm.size[s] % Imaging!Factor = 0
                      /\ mm.size[1] * mm.size[2] \in MinPixels..MaxPixels
    OBVIOUS
  <2>1. PICK a, b \in Nat \ {0} : /\ mm.size = <<Imaging!Factor * a, Imaging!Factor * b>>
                                  /\ (Imaging!Factor * a) * (Imaging!Factor * b) \in MinPixels..MaxPixels
    BY DEF ImgInv, ImgMade, SizeFits
  <2>2. Imaging!Factor \in Nat \ {0}
    BY ImageConstants
  <2>3. (Imaging!Factor * a + 0) % Imaging!Factor = 0 /\ (Imaging!Factor * b + 0) % Imaging!Factor = 0
    BY <2>2, DividesOnce
  <2>4. Imaging!Factor * a \in Nat /\ Imaging!Factor * b \in Nat
    BY <2>2, TimesNat
  <2>5. mm.size[1] = Imaging!Factor * a /\ mm.size[2] = Imaging!Factor * b
    BY <2>1
  <2> QED BY <2>1, <2>3, <2>4, <2>5
<1>2. mm.pc \in {"tower", "prefill", "done"} =>
        /\ {mm.patches[i] : i \in DOMAIN mm.patches} = Imaging!Cells
        /\ \A i, j \in DOMAIN mm.patches :
            (i - 1) \div (Merge * Merge) = (j - 1) \div (Merge * Merge) =>
                \A s \in {1, 2} : mm.patches[i][s] \div Merge = mm.patches[j][s] \div Merge
  <2> SUFFICES ASSUME mm.pc \in {"tower", "prefill", "done"}
               PROVE  /\ {mm.patches[i] : i \in DOMAIN mm.patches} = Imaging!Cells
                      /\ \A i, j \in DOMAIN mm.patches :
                          (i - 1) \div (Merge * Merge) = (j - 1) \div (Merge * Merge) =>
                              \A s \in {1, 2} : mm.patches[i][s] \div Merge = mm.patches[j][s] \div Merge
    OBVIOUS
  <2>1. PICK a, b \in Nat \ {0} : mm.size = <<Imaging!Factor * a, Imaging!Factor * b>>
    BY DEF ImgInv, ImgMade, SizeFits
  <2> DEFINE N == Imaging!GridH * Imaging!GridW
  <2>2. N \in Nat
    BY <2>1, GridFacts
  <2>3. mm.patches = [i \in 1..N |-> Imaging!PatchAt(i - 1)]
    BY DEF ImgInv, ImgMade
  <2>4. \A i \in 0..N - 1 :
            /\ Imaging!PatchAt(i) \in Imaging!Cells
            /\ Imaging!PatchAt(i)[1] \div Merge = (i \div (Merge * Merge)) \div b
            /\ Imaging!PatchAt(i)[2] \div Merge = (i \div (Merge * Merge)) % b
    BY <2>1, PatchFacts
  <2>5. \A x \in Imaging!Cells : \E i \in 0..N - 1 : Imaging!PatchAt(i) = x
    BY <2>1, PatchesCover
  <2> HIDE DEF N
  <2>6. \A i \in 1..N : i - 1 \in 0..N - 1
    BY <2>2
  <2>7. DOMAIN mm.patches = 1..N /\ \A i \in 1..N : mm.patches[i] = Imaging!PatchAt(i - 1)
    BY <2>3
  <2>8. ASSUME NEW x \in Imaging!Cells PROVE \E i \in 1..N : mm.patches[i] = x
    <3>1. PICK i \in 0..N - 1 : Imaging!PatchAt(i) = x
      BY <2>5
    <3>2. i + 1 \in 1..N /\ (i + 1) - 1 = i
      BY <2>2
    <3> QED BY <2>7, <3>1, <3>2
  <2>9. {mm.patches[i] : i \in DOMAIN mm.patches} = Imaging!Cells
    <3>1. \A i \in 1..N : mm.patches[i] \in Imaging!Cells
      <4> TAKE i \in 1..N
      <4> QED BY <2>4, <2>6, <2>7
    <3> QED BY <2>7, <2>8, <3>1
  <2>10. ASSUME NEW i \in DOMAIN mm.patches, NEW j \in DOMAIN mm.patches,
               (i - 1) \div (Merge * Merge) = (j - 1) \div (Merge * Merge), NEW s \in {1, 2}
        PROVE  mm.patches[i][s] \div Merge = mm.patches[j][s] \div Merge
    <3>1. CASE s = 1
      BY <2>4, <2>6, <2>7, <2>10, <3>1
    <3>2. CASE s = 2
      BY <2>4, <2>6, <2>7, <2>10, <3>2
    <3> QED BY <3>1, <3>2
  <2> QED BY <2>9, <2>10
<1>3. \A i \in DOMAIN mm.tower : mm.tower[i].cell = mm.tower[i].at
  <2>1. CASE mm.pc \in {"prefill", "done"}
    <3>1. mm.tower = [i \in 1..Imaging!GridH * Imaging!GridW |->
                [cell |-> <<(i - 1) \div Imaging!GridW, (i - 1) % Imaging!GridW>>, at |-> Imaging!Rope(i - 1)]]
      BY <2>1 DEF ImgInv, ImgMade
    <3>2. \A i : Imaging!Rope(i - 1) = <<(i - 1) \div Imaging!GridW, (i - 1) % Imaging!GridW>>
      BY DEF Imaging!Rope
    <3> QED BY <3>1, <3>2
  <2>2. CASE mm.pc \notin {"prefill", "done"}
    BY <2>2 DEF ImgInv, ImgMade
  <2> QED BY <2>1, <2>2
<1>4. mm.pc = "done" /\ Imaging!InOneForward =>
        /\ Len(mm.rows) = Imaging!PromptLen
        /\ \A i \in DOMAIN mm.rows :
            mm.rows[i] = IF Imaging!IsImage(i) THEN mm.tower[i - mm.before].cell ELSE "text"
  <2> SUFFICES ASSUME mm.pc = "done", Imaging!InOneForward
               PROVE  /\ Len(mm.rows) = Imaging!PromptLen
                      /\ \A i \in DOMAIN mm.rows :
                          mm.rows[i] = IF Imaging!IsImage(i) THEN mm.tower[i - mm.before].cell ELSE "text"
    OBVIOUS
  <2>1. Len(mm.rows) = mm.start /\ mm.start = Imaging!PromptLen
    BY DEF ImgInv, ImgRows
  <2>2. DOMAIN mm.rows = 1..mm.start
    BY <2>1 DEF ImgInv, ImgShape
  <2>3. \A i \in 1..mm.start :
            mm.rows[i] = IF Imaging!IsImage(i) THEN mm.tower[i - mm.before].cell ELSE "text"
    BY DEF ImgInv, ImgRows
  <2> QED BY <2>1, <2>2, <2>3
<1> QED BY <1>1, <1>2, <1>3, <1>4 DEF Imaging!ImageInItsPlace

-----------------------------------------------------------------------------
(* Every step keeps the invariant *)

\* It holds at the start.
LEMMA ImageInitial == ASSUME Imaging!MultimodalConstants, Imaging!Init PROVE ImgInv
<1>1. PICK h \in Sides, w \in Sides, n \in Before, c \in ChunkSizes :
        mm = [pc |-> "resize", height |-> h, width |-> w, before |-> n, chunk |-> c,
              size |-> <<0, 0>>, patches |-> <<>>, tower |-> <<>>, start |-> 0, rows |-> <<>>]
  BY DEF Imaging!Init
<1>2. h \in Nat \ {0} /\ w \in Nat \ {0} /\ n \in Nat /\ c \in Nat
  BY DEF Imaging!MultimodalConstants
<1>3. <<>> \in Seq({0}) /\ Len(<<>>) = 0
  OBVIOUS
<1>4. ImgShape
  <2>1. \E D : mm.rows \in Seq(D)
    BY <1>1, <1>3
  <2> QED BY <1>1, <1>2, <2>1 DEF ImgShape
<1>5. ImgMade
  BY <1>1 DEF ImgMade
<1>6. ImgRows
  BY <1>1, <1>3 DEF ImgRows
<1> QED BY <1>4, <1>5, <1>6 DEF ImgInv

\* It says nothing of the other machines.
LEMMA ImageUnchanged == ASSUME ImgInv, UNCHANGED mm PROVE ImgInv'
<1>1. mm' = mm
  OBVIOUS
<1>2. Imaging!GridH' = Imaging!GridH /\ Imaging!GridW' = Imaging!GridW
  BY <1>1 DEF Imaging!GridH, Imaging!GridW
<1>3. \A i : Imaging!PatchAt(i)' = Imaging!PatchAt(i) /\ Imaging!Rope(i)' = Imaging!Rope(i)
  BY <1>2 DEF Imaging!PatchAt, Imaging!Rope
<1>4. Imaging!PromptLen' = Imaging!PromptLen /\ Imaging!InOneForward' = Imaging!InOneForward
  BY <1>1, <1>2 DEF Imaging!PromptLen, Imaging!InOneForward
<1>5. \A i : Imaging!IsImage(i)' = Imaging!IsImage(i)
  BY <1>1, <1>2 DEF Imaging!IsImage
<1>6. ImgShape'
  BY <1>1 DEF ImgInv, ImgShape
<1>7. ImgMade'
  BY <1>1, <1>2, <1>3 DEF ImgInv, ImgMade, SizeFits
<1>8. ImgRows'
  BY <1>1, <1>4, <1>5 DEF ImgInv, ImgRows
<1> QED BY <1>6, <1>7, <1>8 DEF ImgInv

\* A size is chosen.
LEMMA ResizeStep == ASSUME Imaging!MultimodalConstants, ImgInv, Imaging!Resize PROVE ImgInv'
<1> DEFINE tooLong == mm.height > Ratio * mm.width \/ mm.width > Ratio * mm.height
<1>1. mm.pc = "resize" /\ ImgShape /\ mm.tower = <<>> /\ mm.start = 0 /\ mm.rows = <<>>
      /\ Len(mm.rows) = 0
  BY DEF Imaging!Resize, ImgInv, ImgMade, ImgRows
<1>2. mm' = IF tooLong THEN [mm EXCEPT !.pc = "refused"]
            ELSE [mm EXCEPT !.pc = "patchify", !.size = Imaging!SmartResize(mm.height, mm.width)]
  BY DEF Imaging!Resize
<1>3. mm.height \in Nat \ {0} /\ mm.width \in Nat \ {0}
  BY <1>1 DEF ImgShape
<1>4. mm'.pc \in {"patchify", "refused"} /\ mm'.tower = <<>> /\ mm'.start = 0 /\ mm'.rows = <<>>
      /\ Len(mm'.rows) = 0
  BY <1>1, <1>2 DEF ImgShape
<1>5. mm'.pc = "patchify" => SizeFits(mm'.size)
  <2> SUFFICES ASSUME mm'.pc = "patchify" PROVE SizeFits(mm'.size)
    OBVIOUS
  <2>1. ~tooLong /\ mm'.size = Imaging!SmartResize(mm.height, mm.width)
    <3> HIDE DEF tooLong
    <3>1. tooLong => mm'.pc = "refused"
      BY <1>1, <1>2 DEF ImgShape
    <3>2. ~tooLong => mm'.size = Imaging!SmartResize(mm.height, mm.width)
      BY <1>1, <1>2 DEF ImgShape
    <3> QED BY <3>1, <3>2
  <2>2. Ratio * mm.width \in Nat /\ Ratio * mm.height \in Nat
    BY <1>3, ImageConstants, TimesNat
  <2>3. mm.height <= Ratio * mm.width /\ mm.width <= Ratio * mm.height
    BY <1>3, <2>1, <2>2
  <2> QED BY <1>3, <2>1, <2>3, SmartResizeFits
<1>6. ImgShape'
  BY <1>1, <1>2 DEF ImgShape
<1>7. ImgMade'
  BY <1>4, <1>5 DEF ImgMade, SizeFits
<1>8. ImgRows'
  BY <1>4 DEF ImgRows
<1> QED BY <1>6, <1>7, <1>8 DEF ImgInv

\* The patches are cut.
LEMMA PatchifyStep == ASSUME Imaging!MultimodalConstants, ImgInv, Imaging!Patchify PROVE ImgInv'
<1>1. mm.pc = "patchify" /\ ImgShape /\ mm.tower = <<>> /\ mm.start = 0 /\ mm.rows = <<>>
      /\ Len(mm.rows) = 0 /\ SizeFits(mm.size)
  BY DEF Imaging!Patchify, ImgInv, ImgMade, ImgRows
<1> DEFINE P == [i \in 1..Imaging!GridH * Imaging!GridW |-> Imaging!PatchAt(i - 1)]
<1>2. mm' = [mm EXCEPT !.pc = "tower", !.patches = P]
  BY DEF Imaging!Patchify
<1> HIDE DEF P
<1>3. mm'.pc = "tower" /\ mm'.tower = <<>> /\ mm'.start = 0 /\ mm'.rows = <<>>
      /\ Len(mm'.rows) = 0 /\ mm'.size = mm.size /\ mm'.patches = P
  BY <1>1, <1>2 DEF ImgShape
<1>4. Imaging!GridH' = Imaging!GridH /\ Imaging!GridW' = Imaging!GridW
  BY <1>3 DEF Imaging!GridH, Imaging!GridW
<1>5. \A i : Imaging!PatchAt(i)' = Imaging!PatchAt(i)
  BY <1>4 DEF Imaging!PatchAt
<1>6. ImgShape'
  BY <1>1, <1>2 DEF ImgShape
<1>7. ImgMade'
  <2>1. (mm.patches = [i \in 1..Imaging!GridH * Imaging!GridW |-> Imaging!PatchAt(i - 1)])'
    BY <1>3, <1>4, <1>5 DEF P
  <2> QED BY <1>1, <1>3, <2>1 DEF ImgMade, SizeFits
<1>8. ImgRows'
  BY <1>3 DEF ImgRows
<1> QED BY <1>6, <1>7, <1>8 DEF ImgInv

\* The tower runs.
LEMMA TowerStep == ASSUME Imaging!MultimodalConstants, ImgInv, Imaging!Tower PROVE ImgInv'
<1> DEFINE T == [i \in 1..Imaging!GridH * Imaging!GridW |->
                    [cell |-> <<(i - 1) \div Imaging!GridW, (i - 1) % Imaging!GridW>>, at |-> Imaging!Rope(i - 1)]]
<1>1. mm.pc = "tower" /\ ImgShape /\ mm.start = 0 /\ mm.rows = <<>>
      /\ Len(mm.rows) = 0 /\ SizeFits(mm.size)
      /\ mm.patches = [i \in 1..Imaging!GridH * Imaging!GridW |-> Imaging!PatchAt(i - 1)]
  BY DEF Imaging!Tower, ImgInv, ImgMade, ImgRows
<1>2. mm' = [mm EXCEPT !.pc = "prefill", !.tower = T]
  BY DEF Imaging!Tower
<1> HIDE DEF T
<1>3. mm'.pc = "prefill" /\ mm'.tower = T /\ mm'.start = 0 /\ mm'.rows = <<>>
      /\ Len(mm'.rows) = 0 /\ mm'.size = mm.size /\ mm'.patches = mm.patches
      /\ mm'.before = mm.before /\ mm'.chunk = mm.chunk
  BY <1>1, <1>2 DEF ImgShape
<1>4. Imaging!GridH' = Imaging!GridH /\ Imaging!GridW' = Imaging!GridW
  BY <1>3 DEF Imaging!GridH, Imaging!GridW
<1>5. \A i : Imaging!PatchAt(i)' = Imaging!PatchAt(i) /\ Imaging!Rope(i)' = Imaging!Rope(i)
  BY <1>4 DEF Imaging!PatchAt, Imaging!Rope
<1>6. ImgShape'
  BY <1>1, <1>2 DEF ImgShape
<1>7. ImgMade'
  <2>1. (mm.patches = [i \in 1..Imaging!GridH * Imaging!GridW |-> Imaging!PatchAt(i - 1)])'
    BY <1>1, <1>3, <1>4, <1>5
  <2>2. (mm.tower = [i \in 1..Imaging!GridH * Imaging!GridW |->
                [cell |-> <<(i - 1) \div Imaging!GridW, (i - 1) % Imaging!GridW>>, at |-> Imaging!Rope(i - 1)]])'
    BY <1>3, <1>4, <1>5 DEF T
  <2> QED BY <1>1, <1>3, <2>1, <2>2 DEF ImgMade, SizeFits
<1>8. ImgRows'
  <2>1. PICK a, b \in Nat \ {0} : mm.size = <<Imaging!Factor * a, Imaging!Factor * b>>
    BY <1>1 DEF SizeFits
  <2>2. Imaging!PromptLen' = mm.before + Imaging!GridH * Imaging!GridW + 1
    BY <1>3, <1>4 DEF Imaging!PromptLen
  <2>3. Imaging!GridH * Imaging!GridW \in Nat /\ mm.before \in Nat /\ mm.chunk \in Nat
    BY <1>1, <2>1, GridFacts DEF ImgShape
  <2>4. mm'.start = mm'.chunk * 0 /\ mm'.start < Imaging!PromptLen'
    BY <1>3, <2>2, <2>3
  <2> QED BY <1>3, <2>4 DEF ImgRows
<1> QED BY <1>6, <1>7, <1>8 DEF ImgInv

\* The placeholders of a forward up to one of them, where there is none
\* before.
LEMMA Placeholders ==
    ASSUME NEW s \in Nat, NEW i \in Nat, s <= mm.before, mm.before \in Nat,
           Imaging!GridH * Imaging!GridW \in Nat, Imaging!IsImage(i)
    PROVE  Cardinality({j \in s + 1..i : Imaging!IsImage(j)}) = i - mm.before
<1>1. i > mm.before /\ i <= mm.before + Imaging!GridH * Imaging!GridW
  BY DEF Imaging!IsImage
<1>2. {j \in s + 1..i : Imaging!IsImage(j)} = mm.before + 1..i
  BY <1>1 DEF Imaging!IsImage
<1>3. Cardinality(mm.before + 1..i) = i - mm.before
  <2>1. mm.before + 1 \in Int /\ i \in Int /\ ~(mm.before + 1 > i)
    BY <1>1
  <2>2. Cardinality(mm.before + 1..i) = i - (mm.before + 1) + 1
    BY <2>1, FS_Interval
  <2> QED BY <2>2
<1> QED BY <1>2, <1>3

\* A prefill, or a chunk of it.
LEMMA ForwardStep == ASSUME Imaging!MultimodalConstants, ImgInv, Imaging!Forward PROVE ImgInv'
<1> DEFINE last == IF mm.chunk = 0 \/ mm.chunk >= Imaging!PromptLen - mm.start THEN Imaging!PromptLen
                   ELSE mm.start + mm.chunk
           q == Imaging!Merged(mm.start + 1, last)
           N == Imaging!GridH * Imaging!GridW
<1>1. /\ mm.pc = "prefill" /\ ImgShape /\ SizeFits(mm.size) /\ Len(mm.rows) = mm.start
      /\ mm.patches = [i \in 1..Imaging!GridH * Imaging!GridW |-> Imaging!PatchAt(i - 1)]
      /\ mm.tower = [i \in 1..Imaging!GridH * Imaging!GridW |->
                [cell |-> <<(i - 1) \div Imaging!GridW, (i - 1) % Imaging!GridW>>, at |-> Imaging!Rope(i - 1)]]
  BY DEF Imaging!Forward, ImgInv, ImgMade, ImgRows
<1>2. PICK m \in Nat : mm.start = mm.chunk * m /\ mm.start < Imaging!PromptLen
  BY <1>1 DEF ImgInv, ImgRows
<1>3. mm' = [mm EXCEPT !.rows = @ \o q, !.start = last,
                       !.pc = IF last = Imaging!PromptLen THEN "done" ELSE "prefill"]
  BY DEF Imaging!Forward
<1>4. PICK a, b \in Nat \ {0} : mm.size = <<Imaging!Factor * a, Imaging!Factor * b>>
  BY <1>1 DEF SizeFits
<1>5. N \in Nat \ {0} /\ mm.before \in Nat /\ mm.chunk \in Nat /\ mm.start \in Nat
  BY <1>1, <1>4, GridFacts DEF ImgShape
<1> HIDE DEF N
<1>6. Imaging!PromptLen = mm.before + N + 1 /\ Imaging!PromptLen \in Nat
  BY <1>5 DEF Imaging!PromptLen, N
<1>7. last \in mm.start + 1..Imaging!PromptLen /\ (mm.chunk # 0 => last <= mm.start + mm.chunk)
  BY <1>2, <1>5, <1>6
<1>8. last # Imaging!PromptLen => \E k \in Nat : last = mm.chunk * k
  <2>1. ASSUME last # Imaging!PromptLen PROVE last = mm.chunk * (m + 1)
    <3>1. last = mm.chunk * m + mm.chunk
      BY <1>2, <2>1
    <3> QED BY <1>5, <3>1
  <2> QED BY <2>1
<1> HIDE DEF last
<1>9. /\ mm'.pc = (IF last = Imaging!PromptLen THEN "done" ELSE "prefill") /\ mm'.start = last
      /\ mm'.rows = mm.rows \o q /\ mm'.size = mm.size /\ mm'.tower = mm.tower
      /\ mm'.patches = mm.patches /\ mm'.before = mm.before /\ mm'.chunk = mm.chunk
  BY <1>1, <1>3 DEF ImgShape
<1>10. Imaging!GridH' = Imaging!GridH /\ Imaging!GridW' = Imaging!GridW
  BY <1>9 DEF Imaging!GridH, Imaging!GridW
<1>11. \A i : Imaging!PatchAt(i)' = Imaging!PatchAt(i) /\ Imaging!Rope(i)' = Imaging!Rope(i)
  BY <1>10 DEF Imaging!PatchAt, Imaging!Rope
<1>12. Imaging!PromptLen' = Imaging!PromptLen /\ Imaging!InOneForward' = Imaging!InOneForward
  BY <1>9, <1>10 DEF Imaging!PromptLen, Imaging!InOneForward
<1>13. \A i : Imaging!IsImage(i)' = Imaging!IsImage(i)
  BY <1>9, <1>10 DEF Imaging!IsImage
<1>14. /\ DOMAIN q = 1..last - mm.start
       /\ \A i \in 1..last - mm.start :
            q[i] = IF Imaging!IsImage(mm.start + i)
                   THEN mm.tower[Cardinality({j \in mm.start + 1..mm.start + i : Imaging!IsImage(j)})].cell
                   ELSE "text"
  <2>1. last - (mm.start + 1) + 1 = last - mm.start
    BY <1>5, <1>7
  <2>2. \A i \in 1..last - mm.start : mm.start + 1 + i - 1 = mm.start + i
    BY <1>5, <1>7
  <2> QED BY <2>1, <2>2, Libraries DEF Imaging!Merged
<1> HIDE DEF q
<1>15. PICK D : mm.rows \in Seq(D)
  BY <1>1 DEF ImgShape
<1> DEFINE E == D \cup {q[i] : i \in DOMAIN q}
<1>16. mm.rows \in Seq(E) /\ q \in Seq(E) /\ Len(q) = last - mm.start
  <2>1. last - mm.start \in Nat
    BY <1>5, <1>7
  <2>2. \A i \in DOMAIN q : q[i] \in E
    OBVIOUS
  <2>3. \A i \in DOMAIN mm.rows : mm.rows[i] \in E
    BY <1>15
  <2> HIDE DEF E
  <2>4. mm.rows \in Seq(E)
    BY <1>15, <2>3
  <2>5. \E f \in [1..last - mm.start -> E] : f = q
    <3>1. q = [i \in 1..last - mm.start |-> q[i]]
      <4>1. last - (mm.start + 1) + 1 = last - mm.start
        BY <1>5, <1>7
      <4> QED BY <4>1, <1>14, Libraries DEF q, Imaging!Merged
    <3> QED BY <1>14, <2>2, <3>1
  <2>6. q \in Seq(E) /\ Len(q) = last - mm.start
    BY <2>1, <2>5
  <2> QED BY <2>4, <2>6
<1> HIDE DEF E
<1>17. mm'.rows \in Seq(E) /\ Len(mm'.rows) = last
       /\ \A i \in 1..last : mm'.rows[i] = IF i <= mm.start THEN mm.rows[i] ELSE q[i - mm.start]
  <2>1. /\ mm.rows \o q \in Seq(E) /\ Len(mm.rows \o q) = Len(mm.rows) + Len(q)
        /\ \A i \in 1..Len(mm.rows) + Len(q) :
              (mm.rows \o q)[i] = IF i <= Len(mm.rows) THEN mm.rows[i] ELSE q[i - Len(mm.rows)]
    BY <1>16, ConcatProperties
  <2>2. Len(mm.rows) + Len(q) = last
    BY <1>1, <1>5, <1>7, <1>16
  <2> QED BY <1>1, <1>9, <2>1, <2>2
<1>18. ImgShape'
  <2>1. \E F : mm'.rows \in Seq(F)
    BY <1>17
  <2>2. last \in Nat
    BY <1>5, <1>7
  <2> QED BY <1>1, <1>3, <1>9, <2>1, <2>2 DEF ImgShape
<1>19. ImgMade'
  <2>1. (mm.patches = [i \in 1..Imaging!GridH * Imaging!GridW |-> Imaging!PatchAt(i - 1)])'
    BY <1>1, <1>9, <1>10, <1>11
  <2>2. (mm.tower = [i \in 1..Imaging!GridH * Imaging!GridW |->
                [cell |-> <<(i - 1) \div Imaging!GridW, (i - 1) % Imaging!GridW>>, at |-> Imaging!Rope(i - 1)]])'
    BY <1>1, <1>9, <1>10, <1>11
  <2> QED BY <1>1, <1>9, <2>1, <2>2 DEF ImgMade, SizeFits
<1>20. ASSUME Imaging!InOneForward, NEW i \in 1..last
       PROVE  mm'.rows[i] = IF Imaging!IsImage(i) THEN mm.tower[i - mm.before].cell ELSE "text"
  <2>1. CASE i <= mm.start
    <3>1. i \in 1..mm.start
      BY <1>5, <1>7, <2>1
    <3>2. mm.rows[i] = IF Imaging!IsImage(i) THEN mm.tower[i - mm.before].cell ELSE "text"
      BY <1>1, <1>20, <3>1 DEF ImgInv, ImgRows
    <3> QED BY <1>17, <2>1, <3>2
  <2>2. CASE ~(i <= mm.start)
    <3>1. i - mm.start \in 1..last - mm.start /\ mm.start + (i - mm.start) = i /\ i \in Nat
      BY <1>5, <1>7, <2>2
    <3>2. mm'.rows[i] = q[i - mm.start]
      BY <1>17, <2>2
    <3>3. CASE ~Imaging!IsImage(i)
      BY <1>14, <3>1, <3>2, <3>3
    <3>4. CASE Imaging!IsImage(i)
      <4>1. i > mm.before /\ i <= mm.before + N
        BY <3>4 DEF Imaging!IsImage, N
      <4>2. mm.start <= mm.before
        <5>1. CASE mm.chunk = 0
          BY <1>2, <1>5, <5>1
        <5>2. CASE mm.chunk # 0
          <6> DEFINE c == mm.chunk
                     u == mm.before \div c
                     v == (mm.before + N - 1) \div c
          <6>1. c \in Nat \ {0} /\ u = v
            BY <1>5, <1>20, <5>2 DEF Imaging!InOneForward, N
          <6>2. u \in Nat /\ mm.before % c \in 0..c - 1 /\ mm.before = c * u + (mm.before % c)
            BY <1>5, <6>1, Divided
          <6>3. LET x == mm.before + N - 1 IN
                v \in Nat /\ x % c \in 0..c - 1 /\ x = c * v + (x % c)
            <7>1. mm.before + N - 1 \in Nat
              BY <1>5
            <7> QED BY <6>1, <7>1, Divided
          <6> HIDE DEF u, v
          <6>4. c * u \in Nat /\ mm.before + N - 1 < c * u + c
            BY <6>1, <6>2, <6>3, TimesNat
          <6>5. ~(u + 1 <= m)
            <7> SUFFICES ASSUME u + 1 <= m PROVE FALSE
              OBVIOUS
            <7>1. c * (u + 1) <= c * m
              BY <6>1, <6>2, TimesLe
            <7>2. c * (u + 1) = c * u + c
              <8>1. \A x, y \in Nat : x * (y + 1) = x * y + x
                OBVIOUS
              <8> QED BY <6>1, <6>2, <8>1
            <7>3. mm.start = c * m
              BY <1>2
            <7> QED BY <1>5, <2>2, <4>1, <6>4, <7>1, <7>2, <7>3
          <6>6. c * m <= c * u
            BY <6>1, <6>2, <6>5, TimesLe
          <6> QED BY <1>2, <1>5, <6>1, <6>2, <6>4, <6>6
        <5> QED BY <5>1, <5>2
      <4>3. Cardinality({j \in mm.start + 1..i : Imaging!IsImage(j)}) = i - mm.before
        BY <1>5, <3>1, <3>4, <4>2, Placeholders DEF N
      <4>4. q[i - mm.start] = mm.tower[Cardinality({j \in mm.start + 1..i : Imaging!IsImage(j)})].cell
        BY <1>14, <3>1, <3>4
      <4> QED BY <3>2, <3>4, <4>3, <4>4
    <3> QED BY <3>3, <3>4
  <2> QED BY <2>1, <2>2
<1>21. ImgRows'
  <2>1. mm'.pc \in {"prefill", "done"} /\ Len(mm'.rows) = mm'.start
    BY <1>9, <1>17
  <2>2. mm'.pc = "prefill" => \E k \in Nat : mm'.start = mm'.chunk * k /\ mm'.start < Imaging!PromptLen'
    <3>1. last # Imaging!PromptLen => last < Imaging!PromptLen
      BY <1>5, <1>6, <1>7
    <3> QED BY <1>8, <1>9, <1>12, <3>1
  <2>3. mm'.pc = "done" => mm'.start = Imaging!PromptLen'
    BY <1>9, <1>12
  <2>4. Imaging!InOneForward' => \A i \in 1..mm'.start :
            mm'.rows[i] = IF Imaging!IsImage(i)' THEN mm'.tower[i - mm'.before].cell ELSE "text"
    BY <1>9, <1>12, <1>13, <1>20
  <2> QED BY <2>1, <2>2, <2>3, <2>4 DEF ImgRows
<1> QED BY <1>18, <1>19, <1>21 DEF ImgInv

\* A behaviour of the images keeps their invariant.
LEMMA ImagingInvariant == PartsSpec => [](active = "multimodal" => ImgInv)
<1> DEFINE I == active = "multimodal" => ImgInv
<1>1. PartsInit => I
  BY ImageInitial, MultimodalAssumption DEF PartsInit
<1>2. I /\ [PartsNext]_partsVars => I'
  <2> SUFFICES ASSUME active = "multimodal" => ImgInv, [PartsNext]_partsVars, active' = "multimodal"
               PROVE  ImgInv'
    OBVIOUS
  <2>1. active = "multimodal" /\ ImgInv /\ (Imaging!Next \/ UNCHANGED mm)
    BY DEF PartsNext, Bounded, partsVars
  <2>2. CASE Imaging!Resize
    BY <2>1, <2>2, ResizeStep, MultimodalAssumption
  <2>3. CASE Imaging!Patchify
    BY <2>1, <2>3, PatchifyStep, MultimodalAssumption
  <2>4. CASE Imaging!Tower
    BY <2>1, <2>4, TowerStep, MultimodalAssumption
  <2>5. CASE Imaging!Forward
    BY <2>1, <2>5, ForwardStep, MultimodalAssumption
  <2>6. CASE UNCHANGED mm
    BY <2>1, <2>6, ImageUnchanged
  <2> QED BY <2>1, <2>2, <2>3, <2>4, <2>5, <2>6 DEF Imaging!Next, Imaging!Done
<1> QED BY <1>1, <1>2, PTL DEF PartsSpec

\* An image is resized to whole merge blocks within the limits of pixels, its
\* patches cover it once, and where one forward has all the placeholders each
\* takes the row of its own cell (multimodal, models/vlm.py).
THEOREM ImagesInTheirPlace == PartsSpec => []ImageInItsPlace
<1>1. (active = "multimodal" => ImgInv) => ImageInItsPlace
  BY ImageFits, MultimodalAssumption DEF ImageInItsPlace
<1> QED BY <1>1, ImagingInvariant, PTL

-----------------------------------------------------------------------------
(* Transport *)

-----------------------------------------------------------------------------
(* Payloads *)

\* What the constants are, one by one.
LEMMA CoderConstants ==
    ASSUME Sending!TransportConstants
    PROVE  /\ Base \in Nat \ {0} /\ Mass \in Nat \ {0} /\ StateLow \in Nat \ {0}
           /\ StateLow \div Mass \in Nat \ {0} /\ StateLow = Mass * (StateLow \div Mass)
           /\ StateLow * Base \in Nat /\ StateLow * Base <= (Base * Base) * (Base * Base)
           /\ IsFiniteSet(Sending!Digits) /\ (\A s \in Sending!Digits : s \in Nat) /\ Base >= 2
<1>1. /\ Base \in Nat \ {0, 1} /\ Mass \in Nat \ {0} /\ StateLow \in Nat \ {0} /\ StateLow % Mass = 0
      /\ StateLow * Base <= (Base * Base) * (Base * Base)
  BY DEF Sending!TransportConstants
<1> DEFINE q == StateLow \div Mass
<1>2. q \in Nat /\ StateLow = Mass * q + (StateLow % Mass)
  BY <1>1, Divided
<1> HIDE DEF q
<1>3. StateLow = Mass * q
  BY <1>1, <1>2, TimesNat
<1>4. q # 0
  BY <1>1, <1>2, <1>3
<1>5. IsFiniteSet(Sending!Digits)
  BY <1>1, FS_Interval DEF Sending!Digits
<1>6. \A s \in Sending!Digits : s \in Nat
  BY <1>1 DEF Sending!Digits
<1> QED BY <1>1, <1>2, <1>3, <1>4, <1>5, <1>6, TimesNat DEF q

\* The bytes of a payload, and what elements they make.
LEMMA BytesFacts ==
    ASSUME Sending!TransportConstants, NEW p \in Payloads
    PROVE  /\ Sending!BytesOf(p) \in Seq(Sending!Digits)
           /\ Len(Sending!BytesOf(p)) = Len(p.elements) * p.width /\ Len(Sending!BytesOf(p)) \in Nat
           /\ \A b \in Seq(Sending!Digits) :
                Len(b) = Len(Sending!BytesOf(p)) /\ (\A i \in DOMAIN b : b[i] = Sending!BytesOf(p)[i])
                    => Sending!Elements(b, p.width) = p.elements
<1> DEFINE w == p.width
           e == p.elements
           n == Len(e) * w
           B == Sending!BytesOf(p)
<1>1. w \in Nat \ {0} /\ e \in Seq([1..w -> Sending!Digits]) /\ Len(e) \in Nat
  <2>1. \A c \in Payloads : c.width \in Nat \ {0} /\ c.elements \in Seq([1..c.width -> Sending!Digits])
    BY DEF Sending!TransportConstants
  <2>2. w \in Nat \ {0} /\ e \in Seq([1..w -> Sending!Digits])
    BY <2>1
  <2> HIDE DEF w, e
  <2> QED BY <2>2
<1>2. n \in Nat /\ n = w * Len(e)
  BY <1>1, TimesNat
<1>3. B = [i \in 1..n |-> e[((i - 1) \div w) + 1][((i - 1) % w) + 1]]
  BY DEF Sending!BytesOf
<1> HIDE DEF w, e, n, B
<1>4. ASSUME NEW i \in 1..n PROVE e[((i - 1) \div w) + 1][((i - 1) % w) + 1] \in Sending!Digits
  <2>1. i - 1 \in 0..w * Len(e) - 1
    BY <1>2
  <2>2. (i - 1) \div w \in 0..Len(e) - 1 /\ (i - 1) % w \in 0..w - 1
    BY <1>1, <2>1, DigitsBelow
  <2>3. ((i - 1) \div w) + 1 \in 1..Len(e) /\ ((i - 1) % w) + 1 \in 1..w
    BY <1>1, <2>2
  <2>4. e[((i - 1) \div w) + 1] \in [1..w -> Sending!Digits]
    BY <1>1, <2>3
  <2> QED BY <2>3, <2>4
<1>5. B \in [1..n -> Sending!Digits]
  BY <1>3, <1>4
<1>6. B \in Seq(Sending!Digits) /\ Len(B) = n
  BY <1>2, <1>5
<1>7. ASSUME NEW b \in Seq(Sending!Digits), Len(b) = n, \A i \in DOMAIN b : b[i] = B[i]
      PROVE  Sending!Elements(b, w) = e
  <2>1. n \div w = Len(e)
    <3>1. (w * Len(e) + 0) \div w = Len(e) /\ w * Len(e) \in Nat
      BY <1>1, DividesOnce, TimesNat
    <3> QED BY <1>2, <3>1
  <2> DEFINE E == Sending!Elements(b, w)
  <2>2. E = [k \in 1..Len(e) |-> [j \in 1..w |-> b[(k - 1) * w + j]]]
    BY <1>7, <2>1 DEF Sending!Elements
  <2>3. ASSUME NEW k \in 1..Len(e), NEW j \in 1..w PROVE b[(k - 1) * w + j] = e[k][j]
    <3> DEFINE z == w * (k - 1)
               x == (k - 1) * w + j
    <3>1. k - 1 \in 0..Len(e) - 1 /\ j - 1 \in 0..w - 1 /\ k - 1 \in Nat
      BY <1>1
    <3>2. z + (j - 1) \in 0..w * Len(e) - 1
      BY <1>1, <3>1, DigitsMake
    <3>3. x = z + j /\ z \in Nat
      BY <1>1, <3>1, TimesNat
    <3>4. (z + (j - 1)) \div w = k - 1 /\ (z + (j - 1)) % w = j - 1
      BY <1>1, <3>1, DividesOnce
    <3> HIDE DEF x, z
    <3>5. x - 1 = z + (j - 1) /\ x \in 1..n
      BY <1>1, <1>2, <3>2, <3>3
    <3>6. (x - 1) \div w = k - 1 /\ (x - 1) % w = j - 1
      BY <3>4, <3>5
    <3>7. x \in DOMAIN b
      BY <1>2, <1>7, <3>5
    <3>8. (k - 1) + 1 = k /\ (j - 1) + 1 = j
      OBVIOUS
    <3>9. b[x] = e[k][j]
      BY <1>3, <1>7, <3>5, <3>6, <3>7, <3>8
    <3> QED BY <3>9 DEF x
  <2>4. \A k \in 1..Len(e) : E[k] = e[k]
    <3> SUFFICES ASSUME NEW k \in 1..Len(e) PROVE E[k] = e[k]
      OBVIOUS
    <3>1. E[k] = [j \in 1..w |-> b[(k - 1) * w + j]]
      BY <2>2
    <3>2. e[k] \in [1..w -> Sending!Digits]
      BY <1>1
    <3>3. e[k] = [j \in 1..w |-> e[k][j]]
      BY <3>2
    <3> QED BY <2>3, <3>1, <3>3
  <2> HIDE DEF E
  <2>5. e = [k \in 1..Len(e) |-> e[k]]
    BY <1>1
  <2>6. E = [k \in 1..Len(e) |-> E[k]]
    BY <2>2
  <2>7. E = e
    BY <2>4, <2>5, <2>6
  <2> QED BY <2>7 DEF E
<1> QED BY <1>2, <1>6, <1>7 DEF w, e, n, B

-----------------------------------------------------------------------------
(* One symbol *)

Tables == [Sending!Digits -> Nat]

\* The slots of a symbol are a part of all slots, apart from those of others.
LEMMA SlotFacts ==
    ASSUME Sending!TransportConstants, NEW f \in Tables, NEW s \in Sending!Digits
    PROVE  /\ Sending!Start(f, s) \in Nat /\ SumFunction(f) \in Nat
           /\ Sending!Start(f, s) + f[s] <= SumFunction(f)
           /\ \A t \in Sending!Digits : t < s => Sending!Start(f, t) + f[t] <= Sending!Start(f, s)
<1>1. IsFiniteSet(Sending!Digits) /\ (\A t \in Sending!Digits : t \in Nat) /\ Base \in Nat
  BY CoderConstants
<1> DEFINE below(t) == 0..t - 1
<1>2. \A t \in Sending!Digits : below(t) \subseteq Sending!Digits /\ t \notin below(t)
  BY <1>1 DEF Sending!Digits
<1>3. \A t \in Sending!Digits : f[t] \in Nat
  BY DEF Tables
<1>4. \A T \in SUBSET Sending!Digits : IsFiniteSet(T) /\ \A x \in T : f[x] \in Nat
  BY <1>1, <1>3, FS_Subset
<1>5. ASSUME NEW t \in Sending!Digits
      PROVE  /\ Sending!Start(f, t) \in Nat
             /\ SumFunctionOnSet(f, below(t) \cup {t}) = Sending!Start(f, t) + f[t]
  <2> DEFINE T == below(t) \cup {t}
  <2>1. below(t) \in SUBSET Sending!Digits /\ T \in SUBSET Sending!Digits /\ T \ {t} = below(t) /\ t \in T
    BY <1>2
  <2> HIDE DEF T
  <2>2. SumFunctionOnSet(f, below(t)) \in Nat
    BY <1>4, <2>1, SumFacts
  <2>8. IsFiniteSet(T) /\ t \in T /\ \A x \in T : f[x] \in Nat
    BY <1>4, <2>1
  <2>3. SumFunctionOnSet(f, T) = f[t] + SumFunctionOnSet(f, T \ {t})
    BY <2>8, SumFacts
  <2>4. Sending!Start(f, t) = SumFunctionOnSet(f, below(t))
    BY Libraries DEF Sending!Start
  <2>5. f[t] \in Nat
    BY <1>3
  <2>6. SumFunctionOnSet(f, T) = f[t] + SumFunctionOnSet(f, below(t))
    BY <2>1, <2>3
  <2> HIDE DEF below
  <2>7. SumFunctionOnSet(f, T) = Sending!Start(f, t) + f[t] /\ Sending!Start(f, t) \in Nat
    BY <2>2, <2>4, <2>5, <2>6
  <2> QED BY <2>7 DEF T
<1>6. ASSUME NEW T \in SUBSET Sending!Digits, NEW U \in SUBSET T
      PROVE  SumFunctionOnSet(f, U) <= SumFunctionOnSet(f, T)
  <2>1. U \in SUBSET Sending!Digits /\ U \cup T = T
    OBVIOUS
  <2>2. IsFiniteSet(U) /\ IsFiniteSet(T) /\ \A x \in U \cup T : f[x] \in Nat
    BY <1>4, <2>1
  <2>3. SumFunctionOnSet(f, U) <= SumFunctionOnSet(f, U \cup T)
    BY <2>2, SumUnion
  <2> QED BY <2>1, <2>3
<1>7. DOMAIN f = Sending!Digits
  BY DEF Tables
<1>8. SumFunction(f) = SumFunctionOnSet(f, Sending!Digits)
  BY <1>7, Libraries DEF SumFunction
<1>9. SumFunction(f) \in Nat
  BY <1>4, <1>8, SumFacts
<1>10. Sending!Start(f, s) + f[s] <= SumFunction(f)
  <2>1. below(s) \cup {s} \in SUBSET Sending!Digits
    BY <1>2
  <2>2. SumFunctionOnSet(f, below(s) \cup {s}) <= SumFunctionOnSet(f, Sending!Digits)
    BY <1>6, <2>1
  <2> QED BY <1>5, <1>8, <2>2
<1>11. ASSUME NEW t \in Sending!Digits, t < s PROVE Sending!Start(f, t) + f[t] <= Sending!Start(f, s)
  <2>1. below(t) \cup {t} \in SUBSET below(s)
    BY <1>1, <1>11
  <2>2. SumFunctionOnSet(f, below(t) \cup {t}) <= SumFunctionOnSet(f, below(s))
    <3>1. below(s) \in SUBSET Sending!Digits
      BY <1>2
    <3> HIDE DEF below
    <3> QED BY <1>6, <2>1, <3>1
  <2>3. Sending!Start(f, s) = SumFunctionOnSet(f, below(s))
    BY Libraries DEF Sending!Start
  <2> QED BY <1>5, <2>2, <2>3
<1> QED BY <1>5, <1>9, <1>10, <1>11

\* A slot of a symbol is found to be that.
LEMMA SymbolFound ==
    ASSUME Sending!TransportConstants, NEW f \in Tables, NEW s \in Sending!Digits, NEW c \in 0..f[s] - 1
    PROVE  Sending!SymbolAt(f, c + Sending!Start(f, s)) = s
<1> DEFINE x == c + Sending!Start(f, s)
           P(t) == Sending!Start(f, t) <= x /\ x < Sending!Start(f, t) + f[t]
<1>1. \A t \in Sending!Digits : Sending!Start(f, t) \in Nat /\ f[t] \in Nat /\ t \in Nat
  BY SlotFacts, CoderConstants DEF Tables
<1>2. x \in Nat /\ P(s)
  BY <1>1
<1>3. ASSUME NEW t \in Sending!Digits, P(t) PROVE t = s
  <2>1. CASE t < s
    <3>1. Sending!Start(f, t) + f[t] <= Sending!Start(f, s)
      BY <2>1, SlotFacts
    <3> QED BY <1>1, <1>2, <1>3, <3>1
  <2>2. CASE s < t
    <3>1. Sending!Start(f, s) + f[s] <= Sending!Start(f, t)
      BY <2>2, SlotFacts
    <3> QED BY <1>1, <1>2, <1>3, <3>1
  <2> QED BY <1>1, <2>1, <2>2
<1>4. Sending!SymbolAt(f, x) = CHOOSE t \in Sending!Digits : P(t)
  BY DEF Sending!SymbolAt
<1> HIDE DEF P, x
<1>5. Sending!SymbolAt(f, x) = s
  BY <1>2, <1>3, <1>4
<1> QED BY <1>5 DEF x

\* What a push puts into the state is what a pop takes out.
LEMMA EncodedFacts ==
    ASSUME Sending!TransportConstants, NEW f \in Tables, SumFunction(f) = Mass,
           NEW s \in Sending!Digits, f[s] >= 1, NEW x \in Nat
    PROVE  LET y == Sending!Encoded(f, s, x) IN
           /\ y \in Nat
           /\ Sending!SymbolAt(f, y % Mass) = s
           /\ f[s] * (y \div Mass) + (y % Mass) - Sending!Start(f, s) = x
           /\ x >= (StateLow \div Mass) * f[s] /\ x < ((StateLow \div Mass) * Base) * f[s]
                => y \in StateLow..StateLow * Base - 1
<1> DEFINE g == f[s]
           c == Sending!Start(f, s)
           q == x \div g
           r == x % g
           y == Sending!Encoded(f, s, x)
           l == StateLow \div Mass
<1>1. /\ g \in Nat \ {0} /\ c \in Nat /\ c + g <= Mass /\ Mass \in Nat \ {0}
      /\ Base \in Nat \ {0} /\ l \in Nat \ {0} /\ StateLow = Mass * l
  BY SlotFacts, CoderConstants DEF Tables
<1>2. q \in Nat /\ r \in 0..g - 1 /\ x = g * q + r
  BY <1>1, Divided
<1>3. y = q * Mass + r + c
  BY DEF Sending!Encoded
<1>4. Sending!SymbolAt(f, r + c) = s
  BY <1>2, SymbolFound
<1> HIDE DEF g, c, q, r, y, l
<1>5. r + c \in 0..Mass - 1
  BY <1>1, <1>2
<1>6. q * Mass = Mass * q /\ Mass * q \in Nat
  BY <1>1, <1>2, TimesNat
<1>7. y = Mass * q + (r + c) /\ y \in Nat
  BY <1>1, <1>2, <1>3, <1>6
<1>8. y \div Mass = q /\ y % Mass = r + c
  BY <1>1, <1>2, <1>5, <1>7, DividesOnce
<1>9. g * (y \div Mass) + (y % Mass) - c = x
  <2>1. g * q \in Nat
    BY <1>1, <1>2, TimesNat
  <2>2. g * q + (r + c) - c = x
    BY <1>1, <1>2, <2>1
  <2> QED BY <1>8, <2>2
<1>10. ASSUME x >= l * g, x < (l * Base) * g PROVE y \in StateLow..StateLow * Base - 1
  <2>1. l * g = g * l /\ l * g \in Nat /\ (l * Base) * g = g * (l * Base) /\ l * Base \in Nat
        /\ g * (l * Base) \in Nat /\ g * q \in Nat
    BY <1>1, <1>2, TimesNat
  <2>2. l <= q
    <3> SUFFICES ASSUME q + 1 <= l PROVE FALSE
      BY <1>1, <1>2
    <3>1. g * (q + 1) <= g * l
      BY <1>1, <1>2, TimesLe
    <3>2. g * (q + 1) = g * q + g
      BY <1>1, <1>2
    <3> QED BY <1>1, <1>2, <1>10, <2>1, <3>1, <3>2
  <2>3. q + 1 <= l * Base
    <3> SUFFICES ASSUME l * Base <= q PROVE FALSE
      BY <1>1, <1>2, <2>1
    <3>1. g * (l * Base) <= g * q
      BY <1>1, <1>2, <2>1, TimesLe
    <3> QED BY <1>1, <1>2, <1>10, <2>1, <3>1
  <2>4. Mass * l <= Mass * q
    BY <1>1, <1>2, <2>2, TimesLe
  <2>5. Mass * (q + 1) <= Mass * (l * Base)
    BY <1>1, <1>2, <2>1, <2>3, TimesLe
  <2>6. Mass * (q + 1) = Mass * q + Mass
    BY <1>1, <1>2
  <2>7. Mass * (l * Base) = StateLow * Base /\ Mass * (l * Base) \in Nat
    BY <1>1, <2>1, TimesNat
  <2> QED BY <1>1, <1>5, <1>6, <1>7, <2>4, <2>5, <2>6, <2>7
<1> QED BY <1>4, <1>7, <1>8, <1>9, <1>10 DEF g, c, y, l

\* Four bytes hold the state.
LEMMA LoadFacts ==
    ASSUME Sending!TransportConstants, NEW x \in 0..StateLow * Base - 1
    PROVE  LET a == x \div Base
               b == a \div Base
               c == b \div Base IN
           /\ x % Base \in Sending!Digits /\ a % Base \in Sending!Digits /\ b % Base \in Sending!Digits /\ c % Base \in Sending!Digits
           /\ (x % Base) + (a % Base) * Base + (b % Base) * (Base * Base)
                + (c % Base) * (Base * Base * Base) = x
<1> DEFINE a == x \div Base
           b == a \div Base
           c == b \div Base
<1>1. Base \in Nat \ {0} /\ StateLow * Base \in Nat /\ StateLow * Base <= (Base * Base) * (Base * Base)
  BY CoderConstants
<1>2. x \in Nat /\ x < (Base * Base) * (Base * Base) /\ Base * Base \in Nat
  BY <1>1, TimesNat
<1>3. a \in Nat /\ x % Base \in Sending!Digits /\ x = Base * a + (x % Base)
  BY <1>1, <1>2, Divided DEF Sending!Digits
<1>4. b \in Nat /\ a % Base \in Sending!Digits /\ a = Base * b + (a % Base)
  BY <1>1, <1>3, Divided DEF Sending!Digits
<1>5. c \in Nat /\ b % Base \in Sending!Digits /\ b = Base * c + (b % Base)
  BY <1>1, <1>4, Divided DEF Sending!Digits
<1> HIDE DEF a, b, c
<1>6. ASSUME NEW p \in Nat, NEW n \in Nat, n < Base * p PROVE n \div Base < p /\ n \div Base \in Nat
  <2>1. n \in 0..Base * p - 1
    BY <1>1, <1>6, TimesNat
  <2>2. n \div Base \in 0..p - 1
    BY <1>1, <2>1, DigitsBelow
  <2> QED BY <1>6, <2>2
<1>7. a < Base * (Base * Base)
  <2>1. (Base * Base) * (Base * Base) = Base * (Base * (Base * Base)) /\ Base * (Base * Base) \in Nat
    BY <1>1, <1>2, TimesNat
  <2> QED BY <1>2, <1>6, <2>1 DEF a
<1>8. b < Base * Base
  BY <1>2, <1>3, <1>6, <1>7 DEF b
<1>9. c < Base
  BY <1>1, <1>4, <1>6, <1>8 DEF c
<1>10. c % Base = c /\ c \in Sending!Digits
  <2>1. c \in 0..Base - 1 /\ 0 \in Nat
    BY <1>1, <1>5, <1>9
  <2>2. (Base * 0 + c) % Base = c
    BY <1>1, <2>1, DividesOnce
  <2>3. Base * 0 + c = c
    BY <1>1, <1>5
  <2> QED BY <2>1, <2>2, <2>3 DEF Sending!Digits
<1> DEFINE u == x % Base
           v == a % Base
           w == b % Base
<1>11. u \in Nat /\ v \in Nat /\ w \in Nat
  BY <1>1, <1>3, <1>4, <1>5 DEF Sending!Digits
<1>12. x = Base * a + u /\ a = Base * b + v /\ b = Base * c + w
  BY <1>3, <1>4, <1>5
<1> HIDE DEF u, v, w
<1>13. u + v * Base + w * (Base * Base) + c * (Base * Base * Base) = x
  <2>1. Base * a = v * Base + Base * (Base * b)
    BY <1>1, <1>4, <1>11, <1>12
  <2>2. Base * (Base * b) = w * (Base * Base) + c * (Base * Base * Base)
    BY <1>1, <1>5, <1>11, <1>12
  <2>3. v * Base \in Nat /\ w * (Base * Base) \in Nat /\ c * (Base * Base * Base) \in Nat
    BY <1>1, <1>2, <1>5, <1>11, TimesNat
  <2> QED BY <1>11, <1>12, <2>1, <2>2, <2>3
<1> QED BY <1>3, <1>4, <1>5, <1>10, <1>13 DEF a, b, c, u, v, w

\* Four bytes after others.
LEMMA BytesJoined ==
    ASSUME NEW out \in Seq(Sending!Digits), NEW t \in Seq(Sending!Digits), Len(t) = 4
    PROVE  /\ out \o t \in Seq(Sending!Digits) /\ Len(out \o t) = Len(out) + 4
           /\ \A i \in 1..Len(out) : (out \o t)[i] = out[i]
           /\ \A i \in 1..4 : (out \o t)[Len(out) + i] = t[i]
<1> DEFINE u == out \o t
           o == Len(out)
<1>1. u \in Seq(Sending!Digits) /\ Len(u) = o + Len(t) /\ o \in Nat
  <2>1. o \in Nat
    OBVIOUS
  <2>2. u \in Seq(Sending!Digits) /\ Len(u) = o + Len(t)
    BY ConcatProperties, Zenon
  <2> QED BY <2>1, <2>2
<1>2. \A i \in 1..o + Len(t) : u[i] = IF i <= o THEN out[i] ELSE t[i - o]
  BY ConcatProperties
<1> HIDE DEF u, o
<1>3. \A i \in 1..o : u[i] = out[i]
  BY <1>1, <1>2
<1>4. \A i \in 1..4 : u[o + i] = t[i]
  <2> SUFFICES ASSUME NEW i \in 1..4 PROVE u[o + i] = t[i]
    OBVIOUS
  <2>1. o + i \in 1..o + Len(t) /\ ~(o + i <= o) /\ (o + i) - o = i
    BY <1>1
  <2> QED BY <1>2, <2>1
<1> QED BY <1>1, <1>3, <1>4 DEF u, o

-----------------------------------------------------------------------------
(* The trail of the coder *)

States == StateLow..StateLow * Base - 1

\* A byte leads back from the m-th state, which is below Low.
Leads(e, out, m) ==
    e.through[m] < StateLow /\ e.through[m - 1] = Base * e.through[m] + out[e.from + m - 1]

\* What one symbol left behind: states, and the bytes that lead back through
\* them.
Entry(e, out) ==
    /\ e = [from |-> e.from, through |-> e.through]
    /\ e.from \in Nat /\ e.through \in Seq(Nat) /\ Len(e.through) >= 1
    /\ e.through[1] \in States
    /\ e.from + Len(e.through) - 1 <= Len(out)
    /\ \A m \in 2..Len(e.through) : Leads(e, out, m)

\* Where the coder was when it pushed the next symbol.
LastState(e) == e.through[Len(e.through)]
LastByte(e) == e.from + Len(e.through) - 1

\* The entries of the symbols of S, last symbol first, one after the other.
Chain(T, out, f, S) ==
    /\ \E D : T \in Seq(D)
    /\ \A j \in 1..Len(T) : Entry(T[j], out)
    /\ \A j \in 1..Len(T) - 1 :
        /\ T[j + 1].from = LastByte(T[j])
        /\ T[j + 1].through[1] = Sending!Encoded(f, S[Len(S) - j + 1], LastState(T[j]))

\* States are numbers below Low * Base.
LEMMA EntryStates ==
    ASSUME Sending!TransportConstants, NEW out \in Seq(Sending!Digits), NEW e, Entry(e, out)
    PROVE  /\ LastState(e) \in Nat /\ LastState(e) < StateLow * Base
           /\ LastByte(e) \in Nat
           /\ \A m \in 1..Len(e.through) : e.through[m] \in Nat
<1>1. Base \in Nat \ {0} /\ StateLow \in Nat \ {0} /\ StateLow * Base \in Nat
  BY CoderConstants
<1>2. StateLow * 1 <= StateLow * Base
  BY <1>1, TimesLe
<1>3. e.from \in Nat /\ e.through \in Seq(Nat) /\ Len(e.through) \in Nat /\ Len(e.through) >= 1
  BY DEF Entry
<1>4. \A m \in 1..Len(e.through) : e.through[m] \in Nat
  BY <1>3
<1>5. LastState(e) < StateLow * Base
  <2>1. CASE Len(e.through) = 1
    <3>1. e.through[1] \in States
      BY DEF Entry
    <3> QED BY <1>1, <2>1, <3>1 DEF LastState, States
  <2>2. CASE Len(e.through) # 1
    <3>1. Len(e.through) \in 2..Len(e.through)
      <4> DEFINE l == Len(e.through)
      <4>1. l \in Nat /\ l >= 1 /\ l # 1
        BY <1>3, <2>2
      <4> HIDE DEF l
      <4>2. l \in 2..l
        BY <4>1
      <4> QED BY <4>2 DEF l
    <3>2. LastState(e) < StateLow
      BY <3>1 DEF Entry, LastState, Leads
    <3>3. LastState(e) \in Nat
      BY <1>3, <1>4 DEF LastState
    <3> QED BY <1>1, <1>2, <3>2, <3>3
  <2> QED BY <2>1, <2>2
<1> QED BY <1>3, <1>4, <1>5 DEF LastState, LastByte

\* Further bytes change nothing.
LEMMA ChainLonger ==
    ASSUME NEW out \in Seq(Sending!Digits), NEW more \in Seq(Sending!Digits), NEW T, NEW f, NEW S,
           Chain(T, out, f, S), Len(out) <= Len(more), \A i \in 1..Len(out) : more[i] = out[i]
    PROVE  Chain(T, more, f, S)
<1>1. ASSUME NEW e, Entry(e, out) PROVE Entry(e, more)
  <2>1. e.from \in Nat /\ Len(e.through) \in Nat /\ e.from + Len(e.through) - 1 <= Len(out)
    BY <1>1 DEF Entry
  <2>2. \A m \in 2..Len(e.through) : Leads(e, more, m)
    <3> SUFFICES ASSUME NEW m \in 2..Len(e.through) PROVE Leads(e, more, m)
      OBVIOUS
    <3>1. Len(out) \in Nat
      OBVIOUS
    <3>2. e.from + m - 1 \in 1..Len(out)
      BY <2>1, <3>1
    <3>3. more[e.from + m - 1] = out[e.from + m - 1]
      BY <3>2
    <3>4. Leads(e, out, m)
      BY <1>1 DEF Entry
    <3> QED BY <3>3, <3>4 DEF Leads
  <2>3. Len(more) \in Nat /\ Len(out) \in Nat
    OBVIOUS
  <2> QED BY <1>1, <2>1, <2>2, <2>3 DEF Entry
<1> QED BY <1>1 DEF Chain

\* One entry says nothing of frequencies.
LEMMA ChainStarts ==
    ASSUME NEW out, NEW T, NEW f, NEW g, NEW S, Chain(T, out, f, S), Len(T) = 1
    PROVE  Chain(T, out, g, S)
BY DEF Chain

\* A sequence with another last element.
LEMMA LastReplaced ==
    ASSUME NEW D, NEW T \in Seq(D), Len(T) >= 1, NEW d
    PROVE  LET U == [T EXCEPT ![Len(T)] = d] IN
           /\ U \in Seq(D \cup {d}) /\ Len(U) = Len(T) /\ U[Len(U)] = d
           /\ \A j \in 1..Len(T) - 1 : U[j] = T[j]
<1> DEFINE k == Len(T)
           E == D \cup {d}
           U == [T EXCEPT ![k] = d]
<1>1. T \in [1..k -> D] /\ k \in Nat /\ k \in 1..k
  OBVIOUS
<1> HIDE DEF k
<1>2. U \in [1..k -> E] /\ U[k] = d /\ \A j \in 1..k - 1 : U[j] = T[j]
  BY <1>1
<1> HIDE DEF U, E
<1>3. U \in Seq(E) /\ Len(U) = k
  BY <1>1, <1>2
<1> QED BY <1>2, <1>3 DEF U, E, k

\* A byte is written out of the state: the entry goes on.
LEMMA EntryGrows ==
    ASSUME Sending!TransportConstants, NEW out \in Seq(Sending!Digits), NEW e, Entry(e, out),
           LastByte(e) = Len(out), NEW x, x = LastState(e)
    PROVE  LET more == Append(out, x % Base)
               d    == [from |-> e.from, through |-> Append(e.through, x \div Base)] IN
           /\ x % Base \in Sending!Digits /\ x \div Base \in Nat /\ x = Base * (x \div Base) + (x % Base)
           /\ more \in Seq(Sending!Digits) /\ Len(more) = Len(out) + 1
           /\ \A i \in 1..Len(out) : more[i] = out[i]
           /\ Entry(d, more) /\ LastByte(d) = Len(more) /\ LastState(d) = x \div Base
           /\ d.from = e.from /\ d.through[1] = e.through[1]
<1> DEFINE z == x \div Base
           more == Append(out, x % Base)
           t == e.through
           u == Append(t, z)
           l == Len(t)
           d == [from |-> e.from, through |-> u]
<1>1. /\ e.from \in Nat /\ t \in Seq(Nat) /\ l \in Nat /\ l >= 1
      /\ e.from + l - 1 = Len(out) /\ t[l] = x /\ t[1] \in States /\ Len(out) \in Nat
  BY DEF Entry, LastByte, LastState
<1>2. Base \in Nat \ {0} /\ StateLow \in Nat \ {0} /\ x \in Nat /\ x < StateLow * Base
  BY CoderConstants, EntryStates
<1>3. z \in Nat /\ x % Base \in Sending!Digits /\ x = Base * z + (x % Base)
  BY <1>2, Divided DEF Sending!Digits
<1>4. z < StateLow
  <2>1. StateLow * Base = Base * StateLow /\ Base * StateLow \in Nat
    BY <1>2, TimesNat
  <2>2. x \in 0..Base * StateLow - 1
    BY <1>2, <2>1
  <2>3. x \div Base \in 0..StateLow - 1
    BY <1>2, <2>2, DigitsBelow
  <2> QED BY <1>2, <1>3, <2>3
<1> HIDE DEF z
<1>5. /\ more \in Seq(Sending!Digits) /\ Len(more) = Len(out) + 1 /\ more[Len(out) + 1] = x % Base
      /\ \A i \in 1..Len(out) : more[i] = out[i]
  BY <1>3
<1>6. /\ u \in Seq(Nat) /\ Len(u) = l + 1 /\ u[l + 1] = z
      /\ \A m \in 1..l : u[m] = t[m]
  BY <1>1, <1>3
<1>7. d.from = e.from /\ d.through = u /\ d = [from |-> d.from, through |-> d.through]
  OBVIOUS
<1>8. \A m \in 2..l : Leads(e, out, m)
  BY DEF Entry
<1> HIDE DEF more, t, u, l, d
<1>9. \A m \in 2..l + 1 : Leads(d, more, m)
  <2> SUFFICES ASSUME NEW m \in 2..l + 1 PROVE Leads(d, more, m)
    OBVIOUS
  <2>1. CASE m = l + 1
    <3>1. l \in 1..l /\ m - 1 = l
      BY <1>1, <2>1
    <3>2. u[m] = z /\ u[m - 1] = x
      BY <1>1, <1>6, <2>1, <3>1
    <3>3. e.from + m - 1 = Len(out) + 1
      BY <1>1, <2>1
    <3> QED BY <1>3, <1>4, <1>5, <1>7, <3>2, <3>3 DEF Leads
  <2>2. CASE m # l + 1
    <3>1. m \in 2..l /\ m \in 1..l /\ m - 1 \in 1..l
      BY <1>1, <2>2
    <3>2. Leads(e, out, m) /\ u[m] = t[m] /\ u[m - 1] = t[m - 1]
      BY <1>6, <1>8, <3>1
    <3>3. e.from + m - 1 \in 1..Len(out)
      BY <1>1, <3>1
    <3>4. more[e.from + m - 1] = out[e.from + m - 1]
      BY <1>5, <3>3
    <3> QED BY <1>7, <3>2, <3>4 DEF Leads, t
  <2> QED BY <2>1, <2>2
<1>10. u[1] = t[1]
  BY <1>1, <1>6
<1>11. d.from + Len(d.through) - 1 = Len(more)
  BY <1>1, <1>5, <1>6, <1>7
<1>12. Len(more) \in Nat /\ Len(d.through) >= 1
  BY <1>1, <1>5, <1>6, <1>7
<1>13. Entry(d, more)
  <2>1. \A m \in 2..Len(d.through) : Leads(d, more, m)
    BY <1>6, <1>7, <1>9
  <2>2. d.through[1] \in States /\ d.through \in Seq(Nat) /\ d.from \in Nat
    BY <1>1, <1>6, <1>7, <1>10
  <2>3. d.from + Len(d.through) - 1 <= Len(more)
    BY <1>11, <1>12
  <2> QED BY <1>7, <1>12, <2>1, <2>2, <2>3 DEF Entry
<1>14. LastByte(d) = Len(more) /\ LastState(d) = z
  BY <1>6, <1>7, <1>11 DEF LastByte, LastState
<1> QED BY <1>3, <1>5, <1>7, <1>10, <1>13, <1>14 DEF z, more, t, u, d

\* So does the chain.
LEMMA ChainSpills ==
    ASSUME NEW out \in Seq(Sending!Digits), NEW more \in Seq(Sending!Digits), NEW T, NEW f, NEW S,
           Chain(T, out, f, S), Len(T) >= 1,
           Len(out) <= Len(more), \A i \in 1..Len(out) : more[i] = out[i],
           NEW d, Entry(d, more), d.from = T[Len(T)].from, d.through[1] = T[Len(T)].through[1]
    PROVE  LET U == [T EXCEPT ![Len(T)] = d] IN
           Chain(U, more, f, S) /\ Len(U) = Len(T) /\ U[Len(U)] = d
<1> DEFINE k == Len(T)
           U == [T EXCEPT ![k] = d]
<1>1. k \in Nat /\ k >= 1
  BY DEF Chain
<1>2. Len(U) = k /\ U[k] = d /\ (\A j \in 1..k - 1 : U[j] = T[j]) /\ \E E : U \in Seq(E)
  <2>1. PICK D : T \in Seq(D)
    BY DEF Chain
  <2>2. U \in Seq(D \cup {d}) /\ Len(U) = Len(T) /\ U[Len(U)] = d /\ \A j \in 1..Len(T) - 1 : U[j] = T[j]
    BY <2>1, LastReplaced
  <2> HIDE DEF U
  <2> QED BY <2>2
<1>3. Chain(T, more, f, S)
  BY ChainLonger
<1>4. /\ \A j \in 1..k : Entry(T[j], more)
      /\ \A j \in 1..k - 1 :
           /\ T[j + 1].from = LastByte(T[j])
           /\ T[j + 1].through[1] = Sending!Encoded(f, S[Len(S) - j + 1], LastState(T[j]))
  BY <1>3 DEF Chain
<1>5. d.from = T[k].from /\ d.through[1] = T[k].through[1]
  OBVIOUS
<1> HIDE DEF U, k
<1>6. ASSUME NEW j \in 1..k PROVE Entry(U[j], more)
  <2>1. CASE j = k
    BY <1>2, <2>1
  <2>2. CASE j # k
    <3>1. j \in 1..k - 1
      BY <1>1, <2>2
    <3> QED BY <1>2, <1>4, <3>1
  <2> QED BY <2>1, <2>2
<1>7. ASSUME NEW j \in 1..k - 1
      PROVE  /\ U[j + 1].from = LastByte(U[j])
             /\ U[j + 1].through[1] = Sending!Encoded(f, S[Len(S) - j + 1], LastState(U[j]))
  <2>1. U[j] = T[j]
    BY <1>2
  <2>2. U[j + 1].from = T[j + 1].from /\ U[j + 1].through[1] = T[j + 1].through[1]
    <3>1. CASE j + 1 = k
      BY <1>2, <1>5, <3>1
    <3>2. CASE j + 1 # k
      <4>1. j + 1 \in 1..k - 1
        BY <1>1, <3>2
      <4> QED BY <1>2, <4>1
    <3> QED BY <3>1, <3>2
  <2> QED BY <1>4, <2>1, <2>2
<1>8. Chain(U, more, f, S)
  BY <1>2, <1>6, <1>7 DEF Chain
<1> QED BY <1>2, <1>8 DEF U, k

\* The entry of a symbol before its bytes.
LEMMA EntryBegins ==
    ASSUME Sending!TransportConstants, NEW out \in Seq(Sending!Digits), NEW y \in States
    PROVE  LET d == [from |-> Len(out), through |-> <<y>>] IN
           /\ Entry(d, out) /\ d.from = Len(out) /\ d.through[1] = y /\ Len(d.through) = 1
           /\ LastByte(d) = Len(out) /\ LastState(d) = y
<1> DEFINE d == [from |-> Len(out), through |-> <<y>>]
<1>1. y \in Nat /\ Len(out) \in Nat
  BY CoderConstants DEF States
<1>2. d.from = Len(out) /\ d.through = <<y>> /\ Len(d.through) = 1 /\ d.through[1] = y
      /\ d.through \in Seq(Nat) /\ d = [from |-> d.from, through |-> d.through]
  BY <1>1
<1> HIDE DEF d
<1>3. Entry(d, out)
  BY <1>1, <1>2 DEF Entry
<1>4. LastByte(d) = Len(out) /\ LastState(d) = y
  BY <1>1, <1>2 DEF LastByte, LastState
<1> QED BY <1>2, <1>3, <1>4 DEF d

\* A symbol is pushed.
LEMMA ChainPushes ==
    ASSUME NEW out, NEW T, NEW f, NEW S, Chain(T, out, f, S), Len(T) >= 1,
           NEW d, Entry(d, out), d.from = LastByte(T[Len(T)]),
           d.through[1] = Sending!Encoded(f, S[Len(S) - Len(T) + 1], LastState(T[Len(T)]))
    PROVE  LET U == Append(T, d) IN
           Chain(U, out, f, S) /\ Len(U) = Len(T) + 1 /\ U[Len(U)] = d
<1> DEFINE k == Len(T)
           U == Append(T, d)
<1>1. k \in Nat /\ k >= 1
  BY DEF Chain
<1>2. (\E D : U \in Seq(D)) /\ Len(U) = k + 1 /\ U[k + 1] = d /\ \A j \in 1..k : U[j] = T[j]
  <2>1. PICK D : T \in Seq(D)
    BY DEF Chain
  <2>2. T \in Seq(D \cup {d}) /\ d \in D \cup {d}
    BY <2>1
  <2> QED BY <2>2
<1> HIDE DEF U, k
<1>3. \A j \in 1..k + 1 : Entry(U[j], out)
  <2> SUFFICES ASSUME NEW j \in 1..k + 1 PROVE Entry(U[j], out)
    OBVIOUS
  <2>1. CASE j = k + 1
    BY <1>2, <2>1
  <2>2. CASE j # k + 1
    <3>1. j \in 1..k
      BY <1>1, <2>2
    <3>2. Entry(T[j], out)
      BY <3>1 DEF Chain, k
    <3> QED BY <1>2, <3>1, <3>2
  <2> QED BY <2>1, <2>2
<1>4. ASSUME NEW j \in 1..k
      PROVE  /\ U[j + 1].from = LastByte(U[j])
             /\ U[j + 1].through[1] = Sending!Encoded(f, S[Len(S) - j + 1], LastState(U[j]))
  <2>1. U[j] = T[j]
    BY <1>2
  <2>2. CASE j = k
    BY <1>2, <2>1, <2>2 DEF k
  <2>3. CASE j # k
    <3>1. j \in 1..k - 1 /\ j + 1 \in 1..k
      BY <1>1, <2>3
    <3>2. U[j + 1] = T[j + 1]
      BY <1>2, <3>1
    <3> QED BY <2>1, <3>1, <3>2 DEF Chain, k
  <2> QED BY <2>2, <2>3
<1>5. (k + 1) - 1 = k
  BY <1>1
<1>6. Chain(U, out, f, S)
  BY <1>2, <1>3, <1>4, <1>5 DEF Chain
<1> QED BY <1>2, <1>6 DEF k, U

\* The bytes lead back.
LEMMA EntryBack ==
    ASSUME Sending!TransportConstants, NEW out \in Seq(Sending!Digits), NEW e, Entry(e, out),
           NEW m \in 1..Len(e.through)
    PROVE  /\ e.through[m] >= StateLow => m = 1
           /\ e.through[m] < StateLow =>
                /\ m - 1 \in 1..Len(e.through)
                /\ e.through[m] * Base + out[e.from + m - 1] = e.through[m - 1]
<1>1. /\ Base \in Nat \ {0} /\ StateLow \in Nat \ {0} /\ e.through[m] \in Nat
      /\ e.through[1] >= StateLow /\ e.through[1] \in Nat /\ Len(e.through) \in Nat
  <2>1. e.through[1] \in States /\ e.through \in Seq(Nat)
    BY DEF Entry
  <2>2. e.through[m] \in Nat /\ Len(e.through) \in Nat
    BY <2>1, EntryStates
  <2>3. Base \in Nat \ {0} /\ StateLow \in Nat \ {0} /\ StateLow * Base \in Nat
    BY CoderConstants
  <2> DEFINE x == e.through[1]  h == StateLow * Base
  <2>4. x \in StateLow..h - 1
    BY <2>1 DEF States
  <2> HIDE DEF x, h
  <2>5. h \in Nat
    BY <2>3 DEF h
  <2>6. x \in Nat /\ x >= StateLow
    BY <2>3, <2>4, <2>5
  <2> QED BY <2>2, <2>3, <2>6 DEF x
<1>2. CASE m = 1
  BY <1>1, <1>2
<1>3. CASE m # 1
  <2>1. m \in 2..Len(e.through) /\ m - 1 \in 1..Len(e.through)
    BY <1>1, <1>3
  <2>2. e.through[m] < StateLow /\ e.through[m - 1] = Base * e.through[m] + out[e.from + m - 1]
    BY <2>1 DEF Entry, Leads
  <2>3. Base * e.through[m] = e.through[m] * Base
    BY <1>1
  <2> QED BY <1>1, <2>1, <2>2, <2>3
<1> QED BY <1>2, <1>3

-----------------------------------------------------------------------------
(* The invariant *)

Sent == Sending!BytesOf(xfer.sent)

\* The table of frequencies is final.
Coded == xfer.entropy /\ xfer.n > 0 /\ xfer.pc \notin {"count", "nudge"}

\* The fields and their types.
XferShape ==
    /\ xfer = [pc |-> xfer.pc, entropy |-> xfer.entropy, sent |-> xfer.sent,
               scheme |-> xfer.scheme, p2p |-> xfer.p2p, freqs |-> xfer.freqs,
               order |-> xfer.order, turn |-> xfer.turn, state |-> xfer.state,
               out |-> xfer.out, left |-> xfer.left, trail |-> xfer.trail,
               landed |-> xfer.landed, n |-> xfer.n, pos |-> xfer.pos,
               decoded |-> xfer.decoded, received |-> xfer.received]
    /\ xfer.pc \in {"count", "nudge", "push", "copy", "pop", "rebuild", "done"}
    /\ xfer.entropy \in BOOLEAN /\ xfer.sent \in Payloads /\ xfer.n = Len(Sent)
    /\ xfer.freqs \in Tables /\ xfer.turn \in Nat /\ xfer.state \in Nat
    /\ xfer.out \in Seq(Sending!Digits) /\ xfer.landed \subseteq Sending!Parts

\* What is left to code is a head of the payload, and so is what is decoded.
XferBytes ==
    /\ xfer.left \in Seq(Sending!Digits) /\ Len(xfer.left) <= xfer.n
    /\ \A i \in 1..Len(xfer.left) : xfer.left[i] = Sent[i]
    /\ xfer.pc \in {"count", "nudge", "push", "pop"} => xfer.entropy
    /\ xfer.pc \in {"nudge", "push", "pop"} => xfer.n > 0
    /\ ~Coded => Len(xfer.left) = xfer.n
    /\ Coded /\ xfer.pc # "push" => Len(xfer.left) = 0
    /\ xfer.decoded \in Seq(Sending!Digits) /\ Len(xfer.decoded) <= xfer.n
    /\ \A i \in 1..Len(xfer.decoded) : xfer.decoded[i] = Sent[i]
    /\ xfer.pc \notin {"pop", "done"} => Len(xfer.decoded) = 0
    /\ xfer.pc = "rebuild" => ~Coded

\* Symbols that occur have slots, in the end Mass in all.
XferTable ==
    /\ xfer.pc = "nudge" => xfer.order \in [1..Base -> Sending!Digits]
    /\ xfer.pc = "nudge" \/ Coded => \A i \in 1..xfer.n : xfer.freqs[Sent[i]] >= 1
    /\ Coded => SumFunction(xfer.freqs) = Mass

\* What the coder has still to write is in its state, which is not too small
\* for the symbol that is next.
Pushing ==
    LET e == xfer.trail[Len(xfer.trail)] IN
    /\ ~Coded \/ xfer.pc = "push" => LastByte(e) = Len(xfer.out) /\ LastState(e) = xfer.state
    /\ ~Coded => Len(xfer.out) = 0
    /\ xfer.pc = "push" =>
        IF Len(xfer.left) = 0 THEN Len(e.through) = 1
        ELSE xfer.state >= (StateLow \div Mass) * xfer.freqs[xfer.left[Len(xfer.left)]]

\* The symbols coded so far left a chain.
XferTrail ==
    /\ Chain(xfer.trail, xfer.out, xfer.freqs, Sent)
    /\ Len(xfer.trail) = xfer.n - Len(xfer.left) + 1
    /\ Pushing

Loaded(out, at) ==
    out[at + 1] + out[at + 2] * Base + out[at + 3] * (Base * Base) + out[at + 4] * (Base * Base * Base)

\* The last four bytes are the last state.
Flushed ==
    LET e == xfer.trail[xfer.n + 1] IN
    Len(xfer.out) = e.from + 4 /\ Loaded(xfer.out, e.from) = e.through[1]

\* The decoder is in the entry of the symbol it has come to.
Popping ==
    LET e == xfer.trail[xfer.n - Len(xfer.decoded) + 1] IN
    \E m \in 1..Len(e.through) : xfer.state = e.through[m] /\ xfer.pos = e.from + m - 1

\* What the other side has.
XferBack ==
    /\ Coded /\ xfer.pc # "push" => Flushed
    /\ xfer.pc = "pop" => Popping
    /\ xfer.pc \in {"pop", "rebuild", "done"} => xfer.landed = Sending!Parts
    /\ xfer.pc = "done" =>
        xfer.received = [payload |-> xfer.sent.elements, scheme |-> xfer.scheme, parts |-> Sending!Parts]

XferInv == XferShape /\ XferBytes /\ XferTable /\ XferTrail /\ XferBack

\* The payload.
LEMMA SentFacts ==
    ASSUME Sending!TransportConstants, XferShape
    PROVE  /\ Sent \in Seq(Sending!Digits) /\ Len(Sent) = xfer.n /\ xfer.n \in Nat
           /\ \A i \in 1..xfer.n : Sent[i] \in Sending!Digits
<1>1. xfer.sent \in Payloads /\ xfer.n = Len(Sent)
  BY DEF XferShape
<1>2. Sent \in Seq(Sending!Digits) /\ Len(Sent) \in Nat
  BY <1>1, BytesFacts DEF Sent
<1> QED BY <1>1, <1>2

\* The invariant gives the property.
LEMMA XferInverts == ASSUME Sending!TransportConstants, XferInv PROVE Sending!TransferInverts
<1>1. /\ xfer.out \in Seq(Sending!Digits) /\ xfer.pc \in {"count", "nudge", "push", "copy", "pop", "rebuild", "done"}
      /\ Sent \in Seq(Sending!Digits) /\ Len(Sent) = xfer.n /\ xfer.n \in Nat
  BY SentFacts DEF XferInv, XferShape
<1>2. \A k \in DOMAIN xfer.trail : Entry(xfer.trail[k], xfer.out)
  <2>1. PICK D : xfer.trail \in Seq(D)
    BY DEF XferInv, XferTrail, Chain
  <2>2. DOMAIN xfer.trail = 1..Len(xfer.trail)
    BY <2>1
  <2> QED BY <2>2 DEF XferInv, XferTrail, Chain
<1>3. \A k \in DOMAIN xfer.trail : xfer.trail[k].through[1] \in StateLow..StateLow * Base - 1
  BY <1>2 DEF Entry, States
<1>4. xfer.pc = "push" =>
        /\ SumFunction(xfer.freqs) = Mass
        /\ \A i \in DOMAIN Sent : xfer.freqs[Sent[i]] > 0
  <2> SUFFICES ASSUME xfer.pc = "push"
               PROVE  /\ SumFunction(xfer.freqs) = Mass
                      /\ \A i \in DOMAIN Sent : xfer.freqs[Sent[i]] > 0
    OBVIOUS
  <2>1. Coded
    BY DEF XferInv, XferBytes, Coded
  <2>2. SumFunction(xfer.freqs) = Mass /\ \A i \in 1..xfer.n : xfer.freqs[Sent[i]] >= 1
    BY <2>1 DEF XferInv, XferTable
  <2>3. DOMAIN Sent = 1..xfer.n /\ \A i \in 1..xfer.n : Sent[i] \in Sending!Digits
    BY <1>1
  <2>4. \A d \in Sending!Digits : xfer.freqs[d] \in Nat
    BY DEF XferInv, XferShape, Tables
  <2> HIDE DEF Sent
  <2> QED BY <2>2, <2>3, <2>4
<1>5. xfer.pc = "pop" /\ xfer.state >= StateLow =>
        LET at == xfer.trail[xfer.n - Len(xfer.decoded) + 1] IN
        xfer.state = at.through[1] /\ xfer.pos = at.from
  <2> SUFFICES ASSUME xfer.pc = "pop", xfer.state >= StateLow
               PROVE  LET at == xfer.trail[xfer.n - Len(xfer.decoded) + 1] IN
                      xfer.state = at.through[1] /\ xfer.pos = at.from
    OBVIOUS
  <2> DEFINE j == xfer.n - Len(xfer.decoded) + 1
             e == xfer.trail[j]
  <2>1. PICK m \in 1..Len(e.through) : xfer.state = e.through[m] /\ xfer.pos = e.from + m - 1
    BY DEF XferInv, XferBack, Popping
  <2>2. j \in DOMAIN xfer.trail
    <3>1. Coded
      BY DEF XferInv, XferBytes, Coded
    <3>2. Len(xfer.left) = 0 /\ Len(xfer.decoded) \in Nat /\ Len(xfer.decoded) <= xfer.n
      BY <3>1 DEF XferInv, XferBytes
    <3>3. PICK D : xfer.trail \in Seq(D)
      BY DEF XferInv, XferTrail, Chain
    <3>4. DOMAIN xfer.trail = 1..xfer.n + 1
      BY <1>1, <3>2, <3>3 DEF XferInv, XferTrail
    <3> QED BY <1>1, <3>2, <3>4
  <2> HIDE DEF j, e
  <2>3. Entry(e, xfer.out)
    BY <1>2, <2>2 DEF e
  <2>4. m = 1 /\ e.from \in Nat
    <3>1. e.through[m] >= StateLow
      BY <2>1
    <3>2. e.through[m] >= StateLow => m = 1
      BY <1>1, <2>3, EntryBack
    <3>3. e.from \in Nat
      BY <2>3 DEF Entry
    <3> QED BY <3>1, <3>2, <3>3
  <2> QED BY <2>1, <2>4 DEF e, j
<1>6. xfer.pc = "done" => xfer.received.payload = xfer.sent.elements /\ xfer.received.parts = Sending!Parts
  BY DEF XferInv, XferBack
<1> QED BY <1>3, <1>4, <1>5, <1>6, Libraries DEF Sending!TransferInverts, Sent

\* It holds at first.
LEMMA XferInitial == ASSUME Sending!TransportConstants, Sending!Init PROVE XferInv
<1>1. PICK p \in Payloads, entropy \in BOOLEAN, sqnr \in BOOLEAN, cos \in BOOLEAN,
           peers \in BOOLEAN, dst \in {0, 1} :
        xfer = [pc |-> IF entropy THEN "count" ELSE "copy",
                entropy |-> entropy, sent |-> p, scheme |-> Sending!Scheme(sqnr, cos),
                p2p |-> Sending!CanUseP2P(0, dst, peers),
                freqs |-> [s \in Sending!Digits |-> 0], order |-> <<>>, turn |-> 0,
                state |-> StateLow, out |-> <<>>, left |-> Sending!BytesOf(p),
                trail |-> <<[from |-> 0, through |-> <<StateLow>>]>>, landed |-> {},
                n |-> Len(Sending!BytesOf(p)), pos |-> 0, decoded |-> <<>>, received |-> <<>>]
  BY DEF Sending!Init
<1>2. /\ xfer.pc = (IF entropy THEN "count" ELSE "copy") /\ xfer.entropy = entropy /\ xfer.sent = p
      /\ xfer.freqs = [s \in Sending!Digits |-> 0] /\ xfer.turn = 0 /\ xfer.state = StateLow /\ xfer.out = <<>>
      /\ xfer.left = Sending!BytesOf(p) /\ xfer.trail = <<[from |-> 0, through |-> <<StateLow>>]>>
      /\ xfer.landed = {} /\ xfer.n = Len(Sending!BytesOf(p)) /\ xfer.decoded = <<>>
  BY <1>1
<1>3. xfer = [pc |-> xfer.pc, entropy |-> xfer.entropy, sent |-> xfer.sent,
               scheme |-> xfer.scheme, p2p |-> xfer.p2p, freqs |-> xfer.freqs,
               order |-> xfer.order, turn |-> xfer.turn, state |-> xfer.state,
               out |-> xfer.out, left |-> xfer.left, trail |-> xfer.trail,
               landed |-> xfer.landed, n |-> xfer.n, pos |-> xfer.pos,
               decoded |-> xfer.decoded, received |-> xfer.received]
  BY <1>1
<1> DEFINE B == Sending!BytesOf(p)
           e == [from |-> 0, through |-> <<StateLow>>]
<1>4. B \in Seq(Sending!Digits) /\ Len(B) \in Nat /\ Base \in Nat \ {0} /\ StateLow \in Nat \ {0} /\ Sent = B
  BY <1>2, BytesFacts, CoderConstants DEF Sent
<1>5. ~Coded
  BY <1>2 DEF Coded
<1> HIDE DEF B
<1>6. XferShape
  <2>1. xfer.freqs \in Tables
    BY <1>2 DEF Tables
  <2> QED BY <1>2, <1>3, <1>4, <2>1 DEF XferShape, B
<1>7. XferBytes
  BY <1>2, <1>4, <1>5 DEF XferBytes, B
<1>8. XferTable
  BY <1>2, <1>5 DEF XferTable
<1>9. XferTrail
  <2>1. StateLow * 2 <= StateLow * Base /\ StateLow * Base \in Nat
    BY <1>4, CoderConstants, TimesLe
  <2>2. StateLow \in States
    BY <1>4, <2>1 DEF States
  <2>3. e.from = 0 /\ e.through = <<StateLow>> /\ Len(e.through) = 1 /\ e.through[1] = StateLow
        /\ e.through \in Seq(Nat) /\ e = [from |-> e.from, through |-> e.through]
    BY <1>4
  <2> HIDE DEF e
  <2>4. Entry(e, xfer.out) /\ LastByte(e) = 0 /\ LastState(e) = StateLow /\ Len(xfer.out) = 0
    BY <1>2, <2>2, <2>3 DEF Entry, LastByte, LastState
  <2>5. xfer.trail = <<e>> /\ Len(xfer.trail) = 1 /\ xfer.trail[1] = e /\ xfer.trail \in Seq({e})
    BY <1>2 DEF e
  <2>6. Chain(xfer.trail, xfer.out, xfer.freqs, Sent)
    <3>1. \A j \in 1..Len(xfer.trail) : Entry(xfer.trail[j], xfer.out)
      BY <2>4, <2>5
    <3>2. 1..Len(xfer.trail) - 1 = {}
      BY <2>5
    <3>3. \E D : xfer.trail \in Seq(D)
      BY <2>5
    <3> QED BY <3>1, <3>2, <3>3 DEF Chain
  <2>7. Pushing
    BY <1>2, <1>5, <2>4, <2>5 DEF Pushing
  <2> QED BY <1>2, <1>4, <2>5, <2>6, <2>7 DEF XferTrail, B
<1>10. XferBack
  BY <1>2, <1>5 DEF XferBack
<1> QED BY <1>6, <1>7, <1>8, <1>9, <1>10 DEF XferInv

-----------------------------------------------------------------------------
(* The steps of send *)

\* The fields before and after a step.
Fields(x) ==
    x = [pc |-> x.pc, entropy |-> x.entropy, sent |-> x.sent, scheme |-> x.scheme, p2p |-> x.p2p,
         freqs |-> x.freqs, order |-> x.order, turn |-> x.turn, state |-> x.state, out |-> x.out,
         left |-> x.left, trail |-> x.trail, landed |-> x.landed, n |-> x.n, pos |-> x.pos,
         decoded |-> x.decoded, received |-> x.received]

\* How often the symbols occur.
LEMMA CountsFacts ==
    ASSUME Sending!TransportConstants, NEW S \in Seq(Sending!Digits), Len(S) > 0
    PROVE  LET c == Sending!Counts(S) IN
           /\ c \in Tables /\ SumFunction(c) \in Nat \ {0}
           /\ \A i \in 1..Len(S) : c[S[i]] >= 1
           /\ Cardinality({s \in Sending!Digits : c[s] > 0}) \in 1..Base
<1> DEFINE c == Sending!Counts(S)
           at(s) == {i \in DOMAIN S : S[i] = s}
           present == {s \in Sending!Digits : c[s] > 0}
<1>1. /\ DOMAIN S = 1..Len(S) /\ Len(S) \in Nat /\ \A i \in 1..Len(S) : S[i] \in Sending!Digits
      /\ IsFiniteSet(DOMAIN S)
  <2>1. DOMAIN S = 1..Len(S) /\ Len(S) \in Nat /\ \A i \in 1..Len(S) : S[i] \in Sending!Digits
    OBVIOUS
  <2> DEFINE l == Len(S)
  <2>2. l \in Nat
    BY <2>1
  <2> HIDE DEF l
  <2>3. IsFiniteSet(1..l)
    BY <2>2, FS_Interval
  <2> QED BY <2>1, <2>3 DEF l
<1>2. \A s : IsFiniteSet(at(s)) /\ Cardinality(at(s)) \in Nat
             /\ (at(s) # {} => Cardinality(at(s)) >= 1)
  <2> SUFFICES ASSUME NEW s
               PROVE  IsFiniteSet(at(s)) /\ Cardinality(at(s)) \in Nat
                      /\ (at(s) # {} => Cardinality(at(s)) >= 1)
    OBVIOUS
  <2>1. IsFiniteSet(at(s))
    BY <1>1, FS_Subset
  <2>2. Cardinality(at(s)) \in Nat /\ (Cardinality(at(s)) = 0 <=> at(s) = {})
    BY <2>1, FS_CardinalityType, FS_EmptySet
  <2> HIDE DEF at
  <2> QED BY <2>1, <2>2
<1>3. c = [s \in Sending!Digits |-> Cardinality(at(s))]
  BY Libraries DEF Sending!Counts
<1>4. c \in Tables
  BY <1>2, <1>3 DEF Tables
<1>5. \A i \in 1..Len(S) : c[S[i]] >= 1
  <2> SUFFICES ASSUME NEW i \in 1..Len(S) PROVE c[S[i]] >= 1
    OBVIOUS
  <2>1. i \in at(S[i]) /\ S[i] \in Sending!Digits
    BY <1>1
  <2> HIDE DEF at
  <2> QED BY <1>2, <1>3, <2>1
<1> HIDE DEF c, at
<1>6. S[1] \in Sending!Digits /\ c[S[1]] >= 1
  BY <1>1, <1>5
<1>7. SumFunction(c) \in Nat \ {0}
  <2>1. Sending!Start(c, S[1]) \in Nat /\ SumFunction(c) \in Nat /\ Sending!Start(c, S[1]) + c[S[1]] <= SumFunction(c)
    BY <1>4, <1>6, SlotFacts
  <2>2. c[S[1]] \in Nat
    BY <1>4, <1>6 DEF Tables
  <2> QED BY <1>6, <2>1, <2>2
<1>8. Cardinality(present) \in 1..Base
  <2>1. IsFiniteSet(Sending!Digits) /\ Base \in Nat
    BY CoderConstants
  <2>2. Cardinality(Sending!Digits) = Base
    BY <2>1, FS_Interval DEF Sending!Digits
  <2>3. present \subseteq Sending!Digits /\ S[1] \in present
    <3>1. c[S[1]] \in Nat
      BY <1>4, <1>6 DEF Tables
    <3> QED BY <1>6, <3>1
  <2> HIDE DEF present
  <2>4. IsFiniteSet(present) /\ Cardinality(present) <= Base
    BY <2>1, <2>2, <2>3, FS_Subset
  <2>5. Cardinality(present) \in Nat /\ Cardinality(present) # 0
    BY <2>3, <2>4, FS_CardinalityType, FS_EmptySet
  <2> QED BY <2>1, <2>4, <2>5
<1> QED BY <1>4, <1>5, <1>7, <1>8 DEF c

\* The share of a symbol that occurs is not nothing.
LEMMA QuotaFacts ==
    ASSUME Sending!TransportConstants, NEW c \in Tables, NEW total \in Nat \ {0}, NEW s \in Sending!Digits
    PROVE  Sending!Quota(c, total, s) \in Nat /\ (c[s] >= 1 => Sending!Quota(c, total, s) >= 1)
<1> DEFINE share == (c[s] * Mass) \div total
<1>1. c[s] \in Nat /\ Mass \in Nat
  BY CoderConstants DEF Tables
<1>2. c[s] * Mass \in Nat
  BY <1>1, TimesNat
<1>3. share \in Nat
  <2> DEFINE w == c[s] * Mass
  <2>1. w \in Nat
    BY <1>2
  <2> HIDE DEF w
  <2>2. w \div total \in Nat
    BY <2>1, Divided
  <2> QED BY <2>2 DEF w
<1>4. Sending!Quota(c, total, s) = IF c[s] > 0 /\ share = 0 THEN 1 ELSE share
  BY DEF Sending!Quota
<1> HIDE DEF share
<1> QED BY <1>1, <1>3, <1>4

\* The table is begun, or there is nothing to code.
LEMMA CountStep == ASSUME Sending!TransportConstants, XferInv, Sending!Count PROVE XferInv'
<1>1. xfer.pc = "count" /\ Fields(xfer) /\ XferShape /\ XferBytes /\ XferTrail /\ XferBack
  BY Libraries DEF Sending!Count, XferInv, XferShape, Fields
<1>2. ~Coded /\ xfer.entropy /\ Len(xfer.left) = xfer.n /\ xfer.left \in Seq(Sending!Digits)
      /\ Len(xfer.decoded) = 0 /\ Len(xfer.trail) = 1 /\ xfer.n \in Nat
  BY <1>1, SentFacts DEF XferBytes, Coded, XferTrail
<1>3. ~Coded' /\ XferShape' /\ XferBytes' /\ XferTable' /\ XferBack'
      /\ xfer'.trail = xfer.trail /\ xfer'.out = xfer.out /\ Sent' = Sent /\ xfer'.n = xfer.n
      /\ xfer'.left = xfer.left /\ xfer'.state = xfer.state /\ xfer'.pc # "push"
  <2>1. CASE xfer.left = <<>>
    <3>1. xfer' = [xfer EXCEPT !.pc = "copy"]
      BY <2>1, Libraries DEF Sending!Count
    <3>2. /\ xfer'.pc = "copy" /\ xfer'.entropy = xfer.entropy /\ xfer'.sent = xfer.sent
          /\ xfer'.freqs = xfer.freqs /\ xfer'.turn = xfer.turn /\ xfer'.state = xfer.state
          /\ xfer'.out = xfer.out /\ xfer'.left = xfer.left /\ xfer'.trail = xfer.trail
          /\ xfer'.landed = xfer.landed /\ xfer'.n = xfer.n /\ xfer'.decoded = xfer.decoded
      BY <1>1, <3>1 DEF Fields
    <3>3. Fields(xfer')
      BY <1>1, <3>1 DEF Fields
    <3>4. Sent' = Sent /\ xfer.n = 0
      BY <1>2, <2>1, <3>2 DEF Sent
    <3>5. ~Coded'
      BY <3>2, <3>4 DEF Coded
    <3>6. XferShape'
      BY <1>1, <3>2, <3>3, <3>4 DEF XferShape, Fields
    <3>7. XferBytes'
      BY <1>1, <1>2, <3>2, <3>4, <3>5 DEF XferBytes
    <3>8. XferTable' /\ XferBack'
      BY <3>2, <3>5 DEF XferTable, XferBack
    <3> QED BY <3>2, <3>4, <3>5, <3>6, <3>7, <3>8
  <2>2. CASE xfer.left # <<>>
    <3> DEFINE c == Sending!Counts(xfer.left)
               q == [s \in Sending!Digits |-> Sending!Quota(c, SumFunction(c), s)]
    <3>1. PICK o \in Sending!Orders(c) :
            xfer' = [xfer EXCEPT !.pc = "nudge", !.order = o, !.freqs = q]
      BY <1>1, <2>2, Libraries DEF Sending!Count
    <3>2. o \in [1..Base -> Sending!Digits]
      BY DEF Sending!Orders
    <3>3. Len(xfer.left) > 0
      BY <1>2, <2>2
    <3>4. /\ c \in Tables /\ SumFunction(c) \in Nat \ {0}
          /\ \A i \in 1..Len(xfer.left) : c[xfer.left[i]] >= 1
      BY <1>2, <3>3, CountsFacts
    <3> HIDE DEF c
    <3>5. q \in Tables
      BY <3>4, QuotaFacts DEF Tables
    <3>6. \A i \in 1..xfer.n : q[Sent[i]] >= 1
      <4> SUFFICES ASSUME NEW i \in 1..xfer.n PROVE q[Sent[i]] >= 1
        OBVIOUS
      <4>1. Sent[i] = xfer.left[i] /\ Sent[i] \in Sending!Digits
        BY <1>1, <1>2, SentFacts DEF XferBytes
      <4> QED BY <1>2, <3>4, <4>1, QuotaFacts
    <3> HIDE DEF q
    <3>7. /\ xfer'.pc = "nudge" /\ xfer'.entropy = xfer.entropy /\ xfer'.sent = xfer.sent
          /\ xfer'.freqs = q /\ xfer'.turn = xfer.turn /\ xfer'.state = xfer.state
          /\ xfer'.out = xfer.out /\ xfer'.left = xfer.left /\ xfer'.trail = xfer.trail
          /\ xfer'.landed = xfer.landed /\ xfer'.n = xfer.n /\ xfer'.decoded = xfer.decoded
          /\ xfer'.order = o
      BY <1>1, <3>1 DEF Fields
    <3>8. Fields(xfer')
      BY <1>1, <3>1 DEF Fields
    <3>9. Sent' = Sent
      BY <3>7 DEF Sent
    <3>10. ~Coded'
      BY <3>7 DEF Coded
    <3>11. XferShape'
      BY <1>1, <3>5, <3>7, <3>8, <3>9 DEF XferShape, Fields
    <3>12. XferBytes'
      BY <1>1, <1>2, <3>3, <3>7, <3>9, <3>10 DEF XferBytes
    <3>13. XferTable'
      BY <3>2, <3>6, <3>7, <3>9, <3>10 DEF XferTable
    <3>14. XferBack'
      BY <3>7, <3>10 DEF XferBack
    <3> QED BY <3>7, <3>9, <3>10, <3>11, <3>12, <3>13, <3>14
  <2> QED BY <2>1, <2>2
<1>4. XferTrail'
  <2>1. Chain(xfer.trail, xfer.out, xfer'.freqs, Sent)
    BY <1>1, <1>2, ChainStarts DEF XferTrail
  <2>2. Chain(xfer.trail, xfer.out, xfer.freqs, Sent)'
    BY <1>3, <2>1
  <2>3. Pushing'
    BY <1>1, <1>2, <1>3 DEF XferTrail, Pushing
  <2> QED BY <1>1, <1>3, <2>2, <2>3 DEF XferTrail
<1> QED BY <1>3, <1>4 DEF XferInv

\* Adding one slot to a symbol or taking one away, but not its last.
LEMMA NudgeFacts ==
    ASSUME NEW f \in Tables, NEW s \in Sending!Digits, NEW up \in BOOLEAN, Sending!TransportConstants
    PROVE  LET g == [f EXCEPT ![s] = IF up THEN f[s] + 1 ELSE IF f[s] > 1 THEN f[s] - 1 ELSE f[s]] IN
           g \in Tables /\ \A t \in Sending!Digits : f[t] >= 1 => g[t] >= 1
<1> DEFINE v == IF up THEN f[s] + 1 ELSE IF f[s] > 1 THEN f[s] - 1 ELSE f[s]
<1>1. \A t \in Sending!Digits : f[t] \in Nat
  BY DEF Tables
<1>2. v \in Nat /\ (f[s] >= 1 => v >= 1)
  BY <1>1
<1> HIDE DEF v
<1> QED BY <1>2 DEF Tables, v

\* A round of the nudging, and its end.
LEMMA NudgeStep == ASSUME Sending!TransportConstants, XferInv, Sending!Nudge PROVE XferInv'
<1>1. xfer.pc = "nudge" /\ Fields(xfer) /\ XferShape /\ XferBytes /\ XferTable /\ XferTrail /\ XferBack
  BY Libraries DEF Sending!Nudge, XferInv, XferShape, Fields
<1>2. /\ ~Coded /\ xfer.entropy /\ xfer.n > 0 /\ Len(xfer.left) = xfer.n /\ xfer.left \in Seq(Sending!Digits)
      /\ Len(xfer.decoded) = 0 /\ Len(xfer.trail) = 1 /\ xfer.n \in Nat /\ xfer.freqs \in Tables
      /\ xfer.turn \in Nat /\ xfer.order \in [1..Base -> Sending!Digits]
  <2>1. ~Coded /\ xfer.entropy /\ xfer.n > 0 /\ Len(xfer.left) = xfer.n /\ xfer.n \in Nat
    BY <1>1, SentFacts DEF XferBytes, Coded
  <2> QED BY <1>1, <2>1 DEF XferBytes, XferShape, XferTable, XferTrail
<1>3. \A i \in 1..xfer.n : xfer.freqs[Sent[i]] >= 1 /\ Sent[i] \in Sending!Digits
  BY <1>1, SentFacts DEF XferTable
<1> DEFINE missing    == Mass - SumFunction(xfer.freqs)
           present == Cardinality({t \in Sending!Digits : Sending!Counts(xfer.left)[t] > 0})
           s       == xfer.order[(xfer.turn % present) + 1]
           f       == xfer.freqs[s]
           v       == IF missing > 0 THEN f + 1 ELSE IF f > 1 THEN f - 1 ELSE f
<1>4. xfer' = IF missing = 0
              THEN [xfer EXCEPT !.pc = "push", !.order = <<>>, !.turn = 0]
              ELSE [xfer EXCEPT !.turn = @ + 1, !.freqs[s] = v]
  BY Libraries DEF Sending!Nudge
<1>5. CASE missing = 0
  <2>1. xfer' = [xfer EXCEPT !.pc = "push", !.order = <<>>, !.turn = 0]
    BY <1>4, <1>5
  <2>2. /\ xfer'.pc = "push" /\ xfer'.entropy = xfer.entropy /\ xfer'.sent = xfer.sent
        /\ xfer'.freqs = xfer.freqs /\ xfer'.turn = 0 /\ xfer'.state = xfer.state
        /\ xfer'.out = xfer.out /\ xfer'.left = xfer.left /\ xfer'.trail = xfer.trail
        /\ xfer'.landed = xfer.landed /\ xfer'.n = xfer.n /\ xfer'.decoded = xfer.decoded
    BY <1>1, <2>1 DEF Fields
  <2>3. Fields(xfer')
    BY <1>1, <2>1 DEF Fields
  <2>4. Sent' = Sent
    BY <2>2 DEF Sent
  <2>5. Coded'
    BY <1>2, <2>2 DEF Coded
  <2>6. XferShape'
    BY <1>1, <2>2, <2>3, <2>4 DEF XferShape, Fields
  <2>7. XferBytes'
    BY <1>1, <1>2, <2>2, <2>4, <2>5 DEF XferBytes
  <2>8. SumFunction(xfer.freqs) = Mass
    <3>1. Sent[1] \in Sending!Digits
      BY <1>2, <1>3
    <3>2. SumFunction(xfer.freqs) \in Nat /\ Mass \in Nat
      BY <1>2, <3>1, SlotFacts, CoderConstants
    <3> QED BY <1>5, <3>2
  <2>9. XferTable'
    BY <1>3, <2>2, <2>4, <2>5, <2>8 DEF XferTable
  <2>10. XferBack'
    BY <2>2 DEF XferBack
  <2>11. Chain(xfer.trail, xfer.out, xfer.freqs, Sent)'
    BY <1>1, <2>2, <2>4 DEF XferTrail
  <2>12. Pushing'
    <3> DEFINE e == xfer.trail[1]
               z == xfer.left[Len(xfer.left)]
    <3>1. LastByte(e) = Len(xfer.out) /\ LastState(e) = xfer.state /\ Len(xfer.out) = 0
      BY <1>1, <1>2 DEF XferTrail, Pushing
    <3>2. Entry(e, xfer.out)
      BY <1>1, <1>2 DEF XferTrail, Chain
    <3>3. e.through[1] >= StateLow /\ Len(e.through) = 1
      <4>1. e.from \in Nat /\ Len(e.through) \in Nat /\ Len(e.through) >= 1 /\ e.through[1] \in States
        BY <3>2 DEF Entry
      <4>2. e.from + Len(e.through) - 1 = 0
        BY <3>1 DEF LastByte
      <4>3. e.through[1] >= StateLow
        BY <4>1, CoderConstants DEF States
      <4> DEFINE l == Len(e.through)
                 a == e.from
      <4>4. a \in Nat /\ l \in Nat /\ l >= 1 /\ a + l - 1 = 0
        BY <4>1, <4>2
      <4> HIDE DEF l, a
      <4>5. l = 1
        BY <4>4
      <4> QED BY <4>3, <4>5 DEF l
    <3>4. xfer.state >= StateLow /\ xfer.state \in Nat
      BY <1>1, <3>1, <3>3 DEF LastState, XferShape
    <3>5. z \in Sending!Digits
      BY <1>2
    <3>6. xfer.freqs[z] \in Nat /\ xfer.freqs[z] <= Mass
      <4>1. Sending!Start(xfer.freqs, z) \in Nat /\ Sending!Start(xfer.freqs, z) + xfer.freqs[z] <= Mass
        BY <1>2, <2>8, <3>5, SlotFacts
      <4>2. xfer.freqs[z] \in Nat /\ Mass \in Nat
        BY <1>2, <3>5, CoderConstants DEF Tables
      <4> QED BY <4>1, <4>2
    <3>7. xfer.state >= (StateLow \div Mass) * xfer.freqs[z]
      <4> DEFINE l == StateLow \div Mass
                 h == xfer.freqs[z]
      <4>1. l \in Nat /\ StateLow = Mass * l /\ Mass \in Nat /\ StateLow \in Nat
        BY CoderConstants
      <4>2. h \in Nat /\ h <= Mass
        BY <3>6
      <4> HIDE DEF l, h
      <4>3. l * h <= l * Mass /\ l * Mass = Mass * l /\ l * h \in Nat
        BY <4>1, <4>2, TimesLe, TimesNat
      <4>4. l * h <= xfer.state
        BY <3>4, <4>1, <4>3
      <4>5. xfer.state >= l * h
        BY <3>4, <4>3, <4>4
      <4> QED BY <4>5 DEF l, h
    <3> HIDE DEF e, z
    <3>8. xfer'.trail[Len(xfer'.trail)] = e /\ xfer'.left[Len(xfer'.left)] = z
      BY <1>2, <2>2 DEF e, z
    <3> QED BY <1>2, <2>2, <2>5, <3>1, <3>7, <3>8 DEF Pushing
  <2>13. XferTrail'
    BY <1>1, <2>2, <2>4, <2>11, <2>12 DEF XferTrail
  <2> QED BY <2>6, <2>7, <2>9, <2>10, <2>13 DEF XferInv
<1>6. CASE missing # 0
  <2>1. s \in Sending!Digits
    <3>1. present \in 1..Base
      BY <1>2, CountsFacts
    <3>2. Base \in Nat
      BY CoderConstants
    <3> DEFINE u == xfer.turn
    <3>5. u \in Nat /\ present \in Nat \ {0}
      BY <1>2, <3>1, <3>2
    <3> HIDE DEF present, u
    <3>6. (u % present) \in 0..present - 1
      BY <3>5, Divided
    <3>3. (xfer.turn % present) \in 0..present - 1
      BY <3>6 DEF u
    <3>4. (xfer.turn % present) + 1 \in 1..Base
      <4> DEFINE r == xfer.turn % present
      <4>1. r \in 0..present - 1
        BY <3>3
      <4> HIDE DEF r
      <4>2. r + 1 \in 1..Base
        BY <3>1, <3>2, <4>1
      <4> QED BY <4>2 DEF r
    <3> QED BY <1>2, <3>4
  <2> DEFINE g == [xfer.freqs EXCEPT ![s] = v]
  <2>2. g \in Tables /\ \A t \in Sending!Digits : xfer.freqs[t] >= 1 => g[t] >= 1
    <3> DEFINE up == missing > 0
    <3> HIDE DEF s
    <3>1. up \in BOOLEAN
      OBVIOUS
    <3>2. v = IF up THEN f + 1 ELSE IF f > 1 THEN f - 1 ELSE f
      OBVIOUS
    <3> HIDE DEF up, missing
    <3> QED BY <1>2, <2>1, <3>1, <3>2, NudgeFacts
  <2>3. xfer' = [xfer EXCEPT !.turn = @ + 1, !.freqs = g]
    BY <1>4, <1>6
  <2> HIDE DEF g, missing, s, v
  <2>4. /\ xfer'.pc = xfer.pc /\ xfer'.entropy = xfer.entropy /\ xfer'.sent = xfer.sent
        /\ xfer'.freqs = g /\ xfer'.turn = xfer.turn + 1 /\ xfer'.state = xfer.state
        /\ xfer'.out = xfer.out /\ xfer'.left = xfer.left /\ xfer'.trail = xfer.trail
        /\ xfer'.landed = xfer.landed /\ xfer'.n = xfer.n /\ xfer'.decoded = xfer.decoded
        /\ xfer'.order = xfer.order
    BY <1>1, <2>3 DEF Fields
  <2>5. Fields(xfer')
    BY <1>1, <2>3 DEF Fields
  <2>6. Sent' = Sent
    BY <2>4 DEF Sent
  <2>7. ~Coded'
    BY <1>1, <2>4 DEF Coded
  <2>8. XferShape'
    BY <1>1, <1>2, <2>2, <2>4, <2>5, <2>6 DEF XferShape, Fields
  <2>9. XferBytes'
    BY <1>1, <1>2, <2>4, <2>6, <2>7 DEF XferBytes
  <2>10. XferTable'
    BY <1>2, <1>3, <2>2, <2>4, <2>6, <2>7 DEF XferTable
  <2>11. XferBack'
    BY <1>1, <2>4, <2>7 DEF XferBack
  <2>12. Chain(xfer.trail, xfer.out, xfer'.freqs, Sent)
    BY <1>1, <1>2, ChainStarts DEF XferTrail
  <2>13. Chain(xfer.trail, xfer.out, xfer.freqs, Sent)'
    BY <2>4, <2>6, <2>12
  <2>14. Pushing'
    BY <1>1, <1>2, <2>4, <2>7 DEF XferTrail, Pushing
  <2>15. XferTrail'
    BY <1>1, <2>4, <2>6, <2>13, <2>14 DEF XferTrail
  <2> QED BY <2>8, <2>9, <2>10, <2>11, <2>15 DEF XferInv
<1> QED BY <1>5, <1>6

\* A byte out of the state.
LEMMA SpillStep == ASSUME Sending!TransportConstants, XferInv, Sending!Spill PROVE XferInv'
<1> DEFINE k == Len(xfer.trail)
           e == xfer.trail[k]
           x == xfer.state
           z == x \div Base
           more == Append(xfer.out, x % Base)
           d == [from |-> e.from, through |-> Append(e.through, z)]
           U == [xfer.trail EXCEPT ![k] = d]
           s == xfer.left[Len(xfer.left)]
           l == StateLow \div Mass
<1>1. /\ xfer.pc = "push" /\ Fields(xfer) /\ XferShape /\ XferBytes /\ XferTable /\ XferTrail /\ XferBack
      /\ xfer.left # <<>> /\ x >= Sending!XMax(s)
  BY DEF Sending!Spill, XferInv, XferShape, Fields
<1>2. Coded /\ xfer.left \in Seq(Sending!Digits) /\ xfer.out \in Seq(Sending!Digits) /\ xfer.freqs \in Tables
      /\ xfer.n \in Nat /\ Len(xfer.left) \in Nat \ {0} /\ x \in Nat
  <2>1. xfer.left \in Seq(Sending!Digits) /\ xfer.out \in Seq(Sending!Digits) /\ xfer.freqs \in Tables /\ x \in Nat
    BY <1>1 DEF XferBytes, XferShape
  <2>2. Len(xfer.left) \in Nat \ {0}
    BY <1>1, <2>1
  <2> QED BY <1>1, <2>1, <2>2, SentFacts DEF XferBytes, Coded
<1>3. /\ Chain(xfer.trail, xfer.out, xfer.freqs, Sent) /\ k \in Nat \ {0}
      /\ Entry(e, xfer.out) /\ LastByte(e) = Len(xfer.out) /\ LastState(e) = x
  <2>1. Chain(xfer.trail, xfer.out, xfer.freqs, Sent) /\ k = xfer.n - Len(xfer.left) + 1
    BY <1>1 DEF XferTrail
  <2>2. Len(xfer.left) <= xfer.n
    BY <1>1 DEF XferBytes
  <2>3. k \in Nat \ {0}
    BY <1>2, <2>1, <2>2
  <2>4. Entry(e, xfer.out)
    BY <2>1, <2>3 DEF Chain
  <2>5. LastByte(e) = Len(xfer.out) /\ LastState(e) = x
    BY <1>1 DEF XferTrail, Pushing
  <2> QED BY <2>1, <2>3, <2>4, <2>5
<1>4. /\ x % Base \in Sending!Digits /\ z \in Nat /\ x = Base * z + (x % Base)
      /\ more \in Seq(Sending!Digits) /\ Len(more) = Len(xfer.out) + 1
      /\ \A i \in 1..Len(xfer.out) : more[i] = xfer.out[i]
      /\ Entry(d, more) /\ LastByte(d) = Len(more) /\ LastState(d) = z
      /\ d.from = e.from /\ d.through[1] = e.through[1]
  <2> HIDE DEF e, x, k
  <2>1. x = LastState(e) /\ LastByte(e) = Len(xfer.out) /\ Entry(e, xfer.out) /\ xfer.out \in Seq(Sending!Digits)
    BY <1>2, <1>3
  <2> QED BY <2>1, EntryGrows
<1>5. xfer' = [xfer EXCEPT !.out = more, !.state = z, !.trail = U]
  <2>1. xfer' = [xfer EXCEPT
            !.out = Append(@, xfer.state % Base),
            !.state = @ \div Base,
            !.trail[k].through = Append(@, xfer.state \div Base)]
    BY DEF Sending!Spill
  <2>2. [xfer.trail EXCEPT ![k].through = Append(@, z)] = U
    <3>1. e = [from |-> e.from, through |-> e.through]
      BY <1>3 DEF Entry
    <3>2. [e EXCEPT !.through = Append(e.through, z)] = d
      BY <3>1
    <3>3. [xfer.trail EXCEPT ![k].through = Append(@, z)]
            = [xfer.trail EXCEPT ![k] = [e EXCEPT !.through = Append(e.through, z)]]
      OBVIOUS
    <3> QED BY <3>2, <3>3
  <2>3. xfer' = [xfer EXCEPT !.out = more, !.state = z,
                             !.trail = [xfer.trail EXCEPT ![k].through = Append(@, z)]]
    BY <2>1
  <2> QED BY <2>2, <2>3
<1>6. Chain(U, more, xfer.freqs, Sent) /\ Len(U) = k /\ U[k] = d
  <2>1. Len(xfer.out) <= Len(more)
    BY <1>2, <1>4
  <2> HIDE DEF more, d, z
  <2>2. LET V == [xfer.trail EXCEPT ![Len(xfer.trail)] = d] IN
        Chain(V, more, xfer.freqs, Sent) /\ Len(V) = Len(xfer.trail) /\ V[Len(V)] = d
    <3>1. Len(xfer.trail) >= 1 /\ d.from = xfer.trail[Len(xfer.trail)].from
          /\ d.through[1] = xfer.trail[Len(xfer.trail)].through[1]
      BY <1>3, <1>4 DEF k, e
    <3> HIDE DEF e, k, x, U
    <3>2. Chain(xfer.trail, xfer.out, xfer.freqs, Sent) /\ xfer.out \in Seq(Sending!Digits) /\ more \in Seq(Sending!Digits)
          /\ Entry(d, more) /\ \A i \in 1..Len(xfer.out) : more[i] = xfer.out[i]
      BY <1>2, <1>3, <1>4
    <3> DEFINE T   == xfer.trail
               out == xfer.out
               f   == xfer.freqs
               S   == Sent
    <3>3. Chain(T, out, f, S) /\ Len(T) >= 1 /\ d.from = T[Len(T)].from /\ d.through[1] = T[Len(T)].through[1]
      BY <3>1, <3>2
    <3>4. out \in Seq(Sending!Digits) /\ Len(out) <= Len(more) /\ \A i \in 1..Len(out) : more[i] = out[i]
      BY <2>1, <3>2
    <3>5. more \in Seq(Sending!Digits) /\ Entry(d, more)
      BY <3>2
    <3> HIDE DEF T, out, f, S
    <3> DEFINE V == [T EXCEPT ![Len(T)] = d]
    <3>6. Chain(V, more, f, S) /\ Len(V) = Len(T) /\ V[Len(V)] = d
      BY <3>3, <3>4, <3>5, ChainSpills
    <3> HIDE DEF V
    <3>7. V = [xfer.trail EXCEPT ![Len(xfer.trail)] = d]
      BY DEF V, T
    <3> QED BY <3>6, <3>7 DEF T, out, f, S
  <2> QED BY <2>2 DEF k
<1>7. z >= l * xfer.freqs[s]
  <2> DEFINE h == xfer.freqs[s]
  <2>1. s \in Sending!Digits
    BY <1>2
  <2>2. h \in Nat /\ l \in Nat /\ Base \in Nat \ {0}
    BY <1>2, <2>1, CoderConstants DEF Tables
  <2>3. x >= (l * Base) * h
    BY <1>1 DEF Sending!XMax
  <2> HIDE DEF h, l, x, z
  <2>4. (l * Base) * h = Base * (l * h) /\ l * h \in Nat /\ Base * (l * h) \in Nat
    BY <2>2, TimesNat
  <2>5. x = Base * z + (x % Base) /\ (x % Base) \in 0..Base - 1 /\ z \in Nat /\ x \in Nat
    BY <1>2, <1>4 DEF Sending!Digits
  <2>6. Base * z \in Nat
    BY <2>2, <2>5, TimesNat
  <2> SUFFICES ASSUME z + 1 <= l * h PROVE FALSE
    BY <2>4, <2>5 DEF h
  <2>7. Base * (z + 1) <= Base * (l * h)
    BY <2>2, <2>4, <2>5, TimesLe
  <2>8. Base * (z + 1) = Base * z + Base
    BY <2>2, <2>5
  <2> QED BY <2>2, <2>3, <2>4, <2>5, <2>6, <2>7, <2>8
<1> HIDE DEF more, d, z, U, e, k
<1>8. /\ xfer'.pc = xfer.pc /\ xfer'.entropy = xfer.entropy /\ xfer'.sent = xfer.sent
      /\ xfer'.freqs = xfer.freqs /\ xfer'.turn = xfer.turn /\ xfer'.state = z
      /\ xfer'.out = more /\ xfer'.left = xfer.left /\ xfer'.trail = U
      /\ xfer'.landed = xfer.landed /\ xfer'.n = xfer.n /\ xfer'.decoded = xfer.decoded
  BY <1>1, <1>5 DEF Fields
<1>9. Fields(xfer')
  BY <1>1, <1>5 DEF Fields
<1>10. Sent' = Sent /\ Coded'
  BY <1>2, <1>8 DEF Sent, Coded
<1>11. XferShape'
  BY <1>1, <1>4, <1>8, <1>9, <1>10 DEF XferShape, Fields
<1>12. XferBytes'
  BY <1>1, <1>2, <1>8, <1>10 DEF XferBytes
<1>13. XferTable'
  BY <1>1, <1>2, <1>8, <1>10 DEF XferTable
<1>14. XferBack'
  BY <1>1, <1>8, <1>10 DEF XferBack
<1>15. Chain(xfer.trail, xfer.out, xfer.freqs, Sent)'
  BY <1>6, <1>8, <1>10
<1>16. Len(xfer'.trail) = k /\ xfer'.trail[Len(xfer'.trail)] = d
  BY <1>6, <1>8
<1>17. Pushing'
  BY <1>1, <1>2, <1>4, <1>7, <1>8, <1>10, <1>16 DEF Pushing
<1>18. XferTrail'
  BY <1>1, <1>8, <1>10, <1>15, <1>16, <1>17 DEF XferTrail, k
<1> QED BY <1>11, <1>12, <1>13, <1>14, <1>18 DEF XferInv

\* A symbol goes into the state.
LEMMA PushStep == ASSUME Sending!TransportConstants, XferInv, Sending!Push PROVE XferInv'
<1> DEFINE k == Len(xfer.trail)
           x == xfer.state
           m == Len(xfer.left)
           s == xfer.left[m]
           y == Sending!Encoded(xfer.freqs, s, x)
           d == [from |-> Len(xfer.out), through |-> <<y>>]
           U == Append(xfer.trail, d)
           rest == SubSeq(xfer.left, 1, m - 1)
           l == StateLow \div Mass
<1>1. /\ xfer.pc = "push" /\ Fields(xfer) /\ XferShape /\ XferBytes /\ XferTable /\ XferTrail /\ XferBack
      /\ xfer.left # <<>> /\ x < Sending!XMax(s)
      /\ xfer' = [xfer EXCEPT !.state = y, !.left = rest, !.trail = U]
  BY DEF Sending!Push, XferInv, XferShape, Fields
<1>2. /\ Coded /\ xfer.left \in Seq(Sending!Digits) /\ xfer.out \in Seq(Sending!Digits) /\ xfer.freqs \in Tables
      /\ SumFunction(xfer.freqs) = Mass /\ xfer.n \in Nat /\ m \in Nat \ {0} /\ m <= xfer.n /\ x \in Nat
      /\ Len(Sent) = xfer.n
  <2>1. xfer.left \in Seq(Sending!Digits) /\ xfer.out \in Seq(Sending!Digits) /\ xfer.freqs \in Tables /\ x \in Nat
        /\ m <= xfer.n
    BY <1>1 DEF XferBytes, XferShape
  <2>2. m \in Nat \ {0}
    BY <1>1, <2>1
  <2>3. Coded
    BY <1>1 DEF XferBytes, Coded
  <2> QED BY <1>1, <2>1, <2>2, <2>3, SentFacts DEF XferTable
<1>3. \A i \in 1..xfer.n : xfer.freqs[Sent[i]] >= 1
  BY <1>1, <1>2 DEF XferTable
<1>4. s = Sent[m] /\ s \in Sending!Digits /\ xfer.freqs[s] >= 1
  <2>1. m \in 1..m /\ m \in 1..xfer.n
    BY <1>2
  <2> QED BY <1>1, <1>2, <1>3, <2>1 DEF XferBytes
<1>5. /\ rest \in Seq(Sending!Digits) /\ Len(rest) = m - 1 /\ \A i \in 1..m - 1 : rest[i] = xfer.left[i]
  BY <1>2
<1>6. /\ Chain(xfer.trail, xfer.out, xfer.freqs, Sent) /\ k = xfer.n - m + 1 /\ k \in Nat \ {0}
      /\ LastByte(xfer.trail[k]) = Len(xfer.out) /\ LastState(xfer.trail[k]) = x
  <2>1. Chain(xfer.trail, xfer.out, xfer.freqs, Sent) /\ k = xfer.n - m + 1
    BY <1>1 DEF XferTrail
  <2>2. LastByte(xfer.trail[k]) = Len(xfer.out) /\ LastState(xfer.trail[k]) = x
    BY <1>1 DEF XferTrail, Pushing
  <2> QED BY <1>2, <2>1, <2>2
<1>7. x >= l * xfer.freqs[s]
  BY <1>1, <1>2 DEF XferTrail, Pushing
<1>8. y \in Nat /\ y \in States
  <2>1. x < (l * Base) * xfer.freqs[s]
    BY <1>1 DEF Sending!XMax
  <2> HIDE DEF x, s
  <2> QED BY <1>2, <1>4, <1>7, <2>1, EncodedFacts DEF States
<1> HIDE DEF y
<1>9. /\ Chain(U, xfer.out, xfer.freqs, Sent) /\ Len(U) = k + 1
      /\ LastByte(U[Len(U)]) = Len(xfer.out) /\ LastState(U[Len(U)]) = y /\ Len(U[Len(U)].through) = 1
  <2>1. Len(Sent) - Len(xfer.trail) + 1 = m
    BY <1>2, <1>6
  <2>2. y = Sending!Encoded(xfer.freqs, Sent[Len(Sent) - Len(xfer.trail) + 1], LastState(xfer.trail[Len(xfer.trail)]))
    BY <1>4, <1>6, <2>1 DEF y
  <2>3. Len(xfer.trail) >= 1 /\ LastByte(xfer.trail[Len(xfer.trail)]) = Len(xfer.out)
    BY <1>6
  <2>4. /\ Entry(d, xfer.out) /\ d.from = Len(xfer.out) /\ d.through[1] = y /\ Len(d.through) = 1
        /\ LastByte(d) = Len(xfer.out) /\ LastState(d) = y
    BY <1>2, <1>8, EntryBegins
  <2>5. d.from = LastByte(xfer.trail[Len(xfer.trail)])
    BY <2>3, <2>4
  <2>6. d.through[1] = Sending!Encoded(xfer.freqs, Sent[Len(Sent) - Len(xfer.trail) + 1], LastState(xfer.trail[Len(xfer.trail)]))
    BY <2>2, <2>4
  <2>7. Chain(xfer.trail, xfer.out, xfer.freqs, Sent)
    BY <1>6
  <2> HIDE DEF d, k, x, s, m
  <2>8. Chain(U, xfer.out, xfer.freqs, Sent) /\ Len(U) = Len(xfer.trail) + 1 /\ U[Len(U)] = d
    <3> DEFINE T   == xfer.trail
               out == xfer.out
               f   == xfer.freqs
               S   == Sent
    <3>1. Chain(T, out, f, S) /\ Len(T) >= 1
      BY <2>3, <2>7
    <3>2. Entry(d, out) /\ d.from = LastByte(T[Len(T)])
      BY <2>4, <2>5
    <3>3. d.through[1] = Sending!Encoded(f, S[Len(S) - Len(T) + 1], LastState(T[Len(T)]))
      BY <2>6
    <3> HIDE DEF T, out, f, S
    <3>4. Chain(Append(T, d), out, f, S) /\ Len(Append(T, d)) = Len(T) + 1 /\ Append(T, d)[Len(Append(T, d))] = d
      BY <3>1, <3>2, <3>3, ChainPushes
    <3> QED BY <3>4 DEF T, out, f, S
  <2> HIDE DEF U
  <2> QED BY <2>4, <2>8 DEF k
<1>10. m > 1 => y >= l * xfer.freqs[rest[Len(rest)]]
  <2> SUFFICES ASSUME m > 1 PROVE y >= l * xfer.freqs[rest[Len(rest)]]
    OBVIOUS
  <2> DEFINE t == rest[Len(rest)]
  <2>1. t \in Sending!Digits
    BY <1>2, <1>5
  <2> HIDE DEF t
  <2> DEFINE h == xfer.freqs[t]
  <2>2. h \in Nat /\ h <= Mass /\ Mass \in Nat
    <3>1. Sending!Start(xfer.freqs, t) \in Nat /\ Sending!Start(xfer.freqs, t) + xfer.freqs[t] <= Mass
      BY <1>2, <2>1, SlotFacts
    <3>2. xfer.freqs[t] \in Nat /\ Mass \in Nat
      BY <1>2, <2>1, CoderConstants DEF Tables
    <3> QED BY <3>1, <3>2
  <2>3. l \in Nat /\ StateLow = Mass * l /\ StateLow \in Nat /\ y >= StateLow
    BY <1>8, CoderConstants DEF States
  <2> HIDE DEF h, l
  <2>4. l * h <= l * Mass /\ l * Mass = Mass * l /\ l * h \in Nat
    BY <2>2, <2>3, TimesLe, TimesNat
  <2>5. y >= l * h
    BY <1>8, <2>3, <2>4
  <2> QED BY <2>5 DEF h, l, t
<1> HIDE DEF U, d, rest
<1>11. /\ xfer'.pc = xfer.pc /\ xfer'.entropy = xfer.entropy /\ xfer'.sent = xfer.sent
      /\ xfer'.freqs = xfer.freqs /\ xfer'.turn = xfer.turn /\ xfer'.state = y
      /\ xfer'.out = xfer.out /\ xfer'.left = rest /\ xfer'.trail = U
      /\ xfer'.landed = xfer.landed /\ xfer'.n = xfer.n /\ xfer'.decoded = xfer.decoded
  BY <1>1 DEF Fields
<1>12. Fields(xfer')
  BY <1>1 DEF Fields
<1>13. Sent' = Sent /\ Coded'
  BY <1>2, <1>11 DEF Sent, Coded
<1>14. XferShape'
  BY <1>1, <1>8, <1>11, <1>12, <1>13 DEF XferShape, Fields
<1>15. XferBytes'
  <2>1. \A i \in 1..m - 1 : rest[i] = Sent[i] /\ Len(rest) <= xfer.n
    <3>1. \A i \in 1..m : xfer.left[i] = Sent[i]
      BY <1>1 DEF XferBytes
    <3> QED BY <1>2, <1>5, <3>1
  <2>2. Len(rest) <= xfer.n
    BY <1>2, <1>5
  <2> QED BY <1>1, <1>2, <1>5, <1>11, <1>13, <2>1, <2>2 DEF XferBytes
<1>16. XferTable'
  BY <1>1, <1>2, <1>11, <1>13 DEF XferTable
<1>17. XferBack'
  BY <1>1, <1>11, <1>13 DEF XferBack
<1>18. Chain(xfer.trail, xfer.out, xfer.freqs, Sent)'
  BY <1>9, <1>11, <1>13
<1>19. Pushing'
  <2>1. Len(rest) # 0 => m > 1
    <3> HIDE DEF m
    <3> QED BY <1>2, <1>5
  <2> QED BY <1>1, <1>9, <1>10, <1>11, <1>13, <2>1 DEF Pushing
<1>20. XferTrail'
  <2>1. k + 1 = xfer.n - Len(rest) + 1
    BY <1>2, <1>5, <1>6
  <2> QED BY <1>1, <1>9, <1>11, <1>13, <1>18, <1>19, <2>1 DEF XferTrail
<1> QED BY <1>14, <1>15, <1>16, <1>17, <1>20 DEF XferInv

\* The last state goes into the last four bytes.
LEMMA FlushStep == ASSUME Sending!TransportConstants, XferInv, Sending!Flush PROVE XferInv'
<1> DEFINE x == xfer.state
           a == x \div Base
           b == a \div Base
           c == b \div Base
           tail == <<x % Base, a % Base, b % Base, c % Base>>
           more == xfer.out \o tail
           o == Len(xfer.out)
           e == xfer.trail[xfer.n + 1]
<1>1. /\ xfer.pc = "push" /\ Fields(xfer) /\ XferShape /\ XferBytes /\ XferTable /\ XferTrail /\ XferBack
      /\ xfer.left = <<>> /\ xfer' = [xfer EXCEPT !.pc = "copy", !.out = more]
  BY DEF Sending!Flush, XferInv, XferShape, Fields
<1>2. /\ Coded /\ xfer.out \in Seq(Sending!Digits) /\ o \in Nat /\ xfer.n \in Nat /\ Len(xfer.left) = 0
      /\ Chain(xfer.trail, xfer.out, xfer.freqs, Sent) /\ Len(xfer.trail) = xfer.n + 1
  <2>1. xfer.out \in Seq(Sending!Digits)
    BY <1>1 DEF XferShape
  <2>2. Coded
    BY <1>1 DEF XferBytes, Coded
  <2>3. Len(xfer.left) = 0 /\ xfer.n \in Nat
    BY <1>1, SentFacts
  <2>4. Chain(xfer.trail, xfer.out, xfer.freqs, Sent) /\ Len(xfer.trail) = xfer.n - 0 + 1
    BY <1>1, <2>3 DEF XferTrail
  <2> QED BY <2>1, <2>2, <2>3, <2>4
<1>3. /\ Entry(e, xfer.out) /\ LastByte(e) = o /\ LastState(e) = x /\ Len(e.through) = 1
  <2>1. xfer.n + 1 \in 1..Len(xfer.trail)
    BY <1>2
  <2>2. Entry(e, xfer.out)
    BY <1>2, <2>1 DEF Chain
  <2> QED BY <1>1, <1>2, <2>2 DEF XferTrail, Pushing
<1>4. x \in States /\ e.through[1] = x /\ e.from = o
  <2>1. e.through[1] \in States /\ e.from \in Nat
    BY <1>3 DEF Entry
  <2>2. e.from + 1 - 1 = o
    BY <1>3 DEF LastByte
  <2> HIDE DEF x
  <2> QED BY <1>2, <1>3, <2>1, <2>2 DEF LastState
<1>5. /\ x % Base \in Sending!Digits /\ a % Base \in Sending!Digits /\ b % Base \in Sending!Digits /\ c % Base \in Sending!Digits
      /\ (x % Base) + (a % Base) * Base + (b % Base) * (Base * Base)
            + (c % Base) * (Base * Base * Base) = x
  <2>1. x \in 0..StateLow * Base - 1
    BY <1>4, CoderConstants DEF States
  <2> HIDE DEF x
  <2> QED BY <2>1, LoadFacts
<1>6. /\ more \in Seq(Sending!Digits) /\ Len(more) = o + 4 /\ (\A i \in 1..o : more[i] = xfer.out[i])
      /\ more[o + 1] = x % Base /\ more[o + 2] = a % Base
      /\ more[o + 3] = b % Base /\ more[o + 4] = c % Base
  <2> DEFINE d1 == x % Base
             d2 == a % Base
             d3 == b % Base
             d4 == c % Base
  <2>1. d1 \in Sending!Digits /\ d2 \in Sending!Digits /\ d3 \in Sending!Digits /\ d4 \in Sending!Digits
    BY <1>5
  <2> HIDE DEF d1, d2, d3, d4
  <2> DEFINE t == <<d1, d2, d3, d4>>
  <2>2. t \in Seq(Sending!Digits) /\ Len(t) = 4 /\ t[1] = d1 /\ t[2] = d2 /\ t[3] = d3 /\ t[4] = d4
    BY <2>1
  <2> HIDE DEF t
  <2> HIDE DEF o
  <2>3. /\ xfer.out \o t \in Seq(Sending!Digits) /\ Len(xfer.out \o t) = o + 4
        /\ \A i \in 1..o : (xfer.out \o t)[i] = xfer.out[i]
        /\ \A i \in 1..4 : (xfer.out \o t)[o + i] = t[i]
    BY <1>2, <2>2, BytesJoined DEF o
  <2>4. /\ (xfer.out \o t)[o + 1] = d1 /\ (xfer.out \o t)[o + 2] = d2
        /\ (xfer.out \o t)[o + 3] = d3 /\ (xfer.out \o t)[o + 4] = d4
    <3> DEFINE w == xfer.out \o t
    <3>1. \A i \in 1..4 : w[o + i] = t[i]
      BY <2>3
    <3> HIDE DEF w
    <3>2. w[o + 1] = t[1] /\ w[o + 2] = t[2] /\ w[o + 3] = t[3] /\ w[o + 4] = t[4]
      BY <3>1
    <3>3. w[o + 1] = d1 /\ w[o + 2] = d2 /\ w[o + 3] = d3 /\ w[o + 4] = d4
      BY <2>2, <3>2
    <3> QED BY <3>3 DEF w
  <2> QED BY <2>3, <2>4 DEF d1, d2, d3, d4, t
<1> DEFINE digits == (x % Base) + (a % Base) * Base + (b % Base) * (Base * Base)
                        + (c % Base) * (Base * Base * Base)
<1>7. Loaded(more, o) = digits
  BY <1>6 DEF Loaded
<1>8. digits = x
  BY <1>5
<1> HIDE DEF x, a, b, c, more, digits, o, e
<1>9. /\ xfer'.pc = "copy" /\ xfer'.entropy = xfer.entropy /\ xfer'.sent = xfer.sent
      /\ xfer'.freqs = xfer.freqs /\ xfer'.turn = xfer.turn /\ xfer'.state = xfer.state
      /\ xfer'.out = more /\ xfer'.left = xfer.left /\ xfer'.trail = xfer.trail
      /\ xfer'.landed = xfer.landed /\ xfer'.n = xfer.n /\ xfer'.decoded = xfer.decoded
  BY <1>1 DEF Fields
<1>10. Fields(xfer')
  BY <1>1 DEF Fields
<1>11. Sent' = Sent /\ Coded'
  BY <1>2, <1>9 DEF Sent, Coded
<1>12. XferShape'
  BY <1>1, <1>6, <1>9, <1>10, <1>11 DEF XferShape, Fields
<1>13. XferBytes'
  BY <1>1, <1>2, <1>9, <1>11 DEF XferBytes
<1>14. XferTable'
  BY <1>1, <1>2, <1>9, <1>11 DEF XferTable
<1>15. XferBack'
  <2>1. Flushed'
    <3>1. Len(more) = e.from + 4 /\ Loaded(more, e.from) = e.through[1]
      BY <1>4, <1>6, <1>7, <1>8
    <3> QED BY <1>9, <3>1 DEF Flushed, e
  <2> QED BY <1>9, <2>1 DEF XferBack
<1>16. XferTrail'
  <2>1. Len(xfer.out) <= Len(more) /\ more \in Seq(Sending!Digits) /\ \A i \in 1..Len(xfer.out) : more[i] = xfer.out[i]
    BY <1>2, <1>6 DEF o
  <2>2. Chain(xfer.trail, more, xfer.freqs, Sent)
    <3> DEFINE T   == xfer.trail
               out == xfer.out
               f   == xfer.freqs
               S   == Sent
    <3>1. Chain(T, out, f, S) /\ out \in Seq(Sending!Digits) /\ Len(out) <= Len(more)
          /\ \A i \in 1..Len(out) : more[i] = out[i]
      BY <1>2, <2>1
    <3> HIDE DEF T, out, f, S
    <3>2. Chain(T, more, f, S)
      BY <2>1, <3>1, ChainLonger
    <3> QED BY <3>2 DEF T, out, f, S
  <2>3. Chain(xfer.trail, xfer.out, xfer.freqs, Sent)'
    BY <1>9, <1>11, <2>2
  <2>4. Pushing'
    BY <1>9, <1>11 DEF Pushing
  <2> QED BY <1>1, <1>9, <1>11, <2>3, <2>4 DEF XferTrail
<1> QED BY <1>12, <1>13, <1>14, <1>15, <1>16 DEF XferInv

\* A copy arrives.
LEMMA LandStep == ASSUME XferInv, NEW part \in Sending!Parts, Sending!Land(part) PROVE XferInv'
<1>1. /\ xfer.pc = "copy" /\ Fields(xfer) /\ XferShape /\ XferBytes /\ XferTable /\ XferTrail /\ XferBack
      /\ xfer' = [xfer EXCEPT !.landed = @ \cup {part}]
  BY DEF Sending!Land, XferInv, XferShape, Fields
<1>2. /\ xfer'.pc = xfer.pc /\ xfer'.entropy = xfer.entropy /\ xfer'.sent = xfer.sent
      /\ xfer'.freqs = xfer.freqs /\ xfer'.turn = xfer.turn /\ xfer'.state = xfer.state
      /\ xfer'.out = xfer.out /\ xfer'.left = xfer.left /\ xfer'.trail = xfer.trail
      /\ xfer'.landed = xfer.landed \cup {part} /\ xfer'.n = xfer.n /\ xfer'.decoded = xfer.decoded
  BY <1>1 DEF Fields
<1>3. Fields(xfer')
  BY <1>1 DEF Fields
<1>4. Sent' = Sent /\ Coded' = Coded
  BY <1>2 DEF Sent, Coded
<1>5. XferShape'
  BY <1>1, <1>2, <1>3, <1>4 DEF XferShape, Fields
<1>6. XferBytes' /\ XferTable'
  BY <1>1, <1>2, <1>4 DEF XferBytes, XferTable
<1>7. XferTrail'
  BY <1>1, <1>2, <1>4 DEF XferTrail, Pushing
<1>8. XferBack'
  BY <1>1, <1>2, <1>4 DEF XferBack, Flushed
<1> QED BY <1>5, <1>6, <1>7, <1>8 DEF XferInv

\* Nothing happens.
LEMMA XferUnchanged == ASSUME XferInv, UNCHANGED xfer PROVE XferInv'
<1>1. Sent' = Sent /\ Coded' = Coded
  BY DEF Sent, Coded
<1>2. XferShape'
  BY <1>1 DEF XferInv, XferShape
<1>3. XferBytes' /\ XferTable'
  BY <1>1 DEF XferInv, XferBytes, XferTable
<1>4. XferTrail'
  BY <1>1 DEF XferInv, XferTrail, Pushing
<1>5. XferBack'
  BY <1>1 DEF XferInv, XferBack, Flushed, Popping
<1> QED BY <1>2, <1>3, <1>4, <1>5 DEF XferInv

-----------------------------------------------------------------------------
(* The steps of recv *)

\* Where the coder is done, each symbol has its entry.
LEMMA CodedFacts ==
    ASSUME Sending!TransportConstants, XferInv, Coded, xfer.pc # "push"
    PROVE  /\ Len(xfer.trail) = xfer.n + 1 /\ xfer.n \in Nat /\ xfer.out \in Seq(Sending!Digits)
           /\ Len(xfer.decoded) \in Nat /\ Len(xfer.decoded) <= xfer.n /\ xfer.decoded \in Seq(Sending!Digits)
           /\ Chain(xfer.trail, xfer.out, xfer.freqs, Sent)
           /\ \A j \in 1..xfer.n + 1 : Entry(xfer.trail[j], xfer.out)
<1>1. Len(xfer.left) = 0 /\ xfer.decoded \in Seq(Sending!Digits) /\ Len(xfer.decoded) <= xfer.n
  BY DEF XferInv, XferBytes
<1>2. xfer.n \in Nat /\ xfer.out \in Seq(Sending!Digits)
  BY SentFacts DEF XferInv, XferShape
<1>3. Chain(xfer.trail, xfer.out, xfer.freqs, Sent) /\ Len(xfer.trail) = xfer.n - Len(xfer.left) + 1
  BY DEF XferInv, XferTrail
<1>4. Len(xfer.trail) = xfer.n + 1
  BY <1>1, <1>2, <1>3
<1>5. \A j \in 1..xfer.n + 1 : Entry(xfer.trail[j], xfer.out)
  BY <1>3, <1>4 DEF Chain
<1>6. Len(xfer.decoded) \in Nat
  BY <1>1
<1> QED BY <1>1, <1>2, <1>3, <1>4, <1>5, <1>6

\* The other side has the payload, and begins with the last state.
LEMMA HandleStep == ASSUME Sending!TransportConstants, XferInv, Sending!Handle PROVE XferInv'
<1> DEFINE at == Len(xfer.out) - Sending!StateBytes
           loaded == xfer.out[at + 1] + xfer.out[at + 2] * Base + xfer.out[at + 3] * (Base * Base)
                        + xfer.out[at + 4] * (Base * Base * Base)
<1>1. /\ xfer.pc = "copy" /\ Fields(xfer) /\ XferShape /\ XferBytes /\ XferTable /\ XferTrail /\ XferBack
      /\ xfer.landed = Sending!Parts
  BY DEF Sending!Handle, Sending!Synchronized, XferInv, XferShape, Fields
<1>2. xfer' = IF xfer.entropy /\ xfer.n > 0
              THEN [xfer EXCEPT !.pc = "pop", !.pos = at, !.state = loaded]
              ELSE [xfer EXCEPT !.pc = "rebuild"]
  BY DEF Sending!Handle
<1>3. xfer.entropy \in BOOLEAN /\ xfer.n \in Nat
  BY <1>1, SentFacts DEF XferShape
<1>4. CASE Coded
  <2>1. xfer' = [xfer EXCEPT !.pc = "pop", !.pos = at, !.state = loaded]
    BY <1>2, <1>4 DEF Coded
  <2> DEFINE e == xfer.trail[xfer.n + 1]
  <2>2. Len(xfer.trail) = xfer.n + 1 /\ Entry(e, xfer.out) /\ Len(xfer.out) \in Nat
    <3>1. xfer.n + 1 \in 1..xfer.n + 1
      BY <1>3
    <3> QED BY <1>1, <1>4, <3>1, CodedFacts
  <2>3. at = e.from /\ loaded = e.through[1] /\ 1 \in 1..Len(e.through) /\ e.from \in Nat
        /\ loaded \in Nat
    <3>1. Len(xfer.out) = e.from + 4 /\ Loaded(xfer.out, e.from) = e.through[1]
      BY <1>1, <1>4 DEF XferBack, Flushed
    <3>2. e.from \in Nat /\ Len(e.through) \in Nat /\ Len(e.through) >= 1 /\ e.through[1] \in Nat
      BY <2>2 DEF Entry
    <3>3. at = e.from
      <4> HIDE DEF e
      <4> QED BY <3>1, <3>2 DEF Sending!StateBytes
    <3>4. loaded = Loaded(xfer.out, at)
      BY DEF Loaded
    <3> HIDE DEF e, loaded, at
    <3> QED BY <3>1, <3>2, <3>3, <3>4
  <2> HIDE DEF at, loaded
  <2>4. /\ xfer'.pc = "pop" /\ xfer'.entropy = xfer.entropy /\ xfer'.sent = xfer.sent
        /\ xfer'.freqs = xfer.freqs /\ xfer'.turn = xfer.turn /\ xfer'.state = loaded
        /\ xfer'.out = xfer.out /\ xfer'.left = xfer.left /\ xfer'.trail = xfer.trail
        /\ xfer'.landed = xfer.landed /\ xfer'.n = xfer.n /\ xfer'.decoded = xfer.decoded
        /\ xfer'.pos = at
    BY <1>1, <2>1 DEF Fields
  <2>5. Fields(xfer')
    BY <1>1, <2>1 DEF Fields
  <2>6. Sent' = Sent /\ Coded'
    BY <1>4, <2>4 DEF Sent, Coded
  <2>7. XferShape'
    BY <1>1, <2>3, <2>4, <2>5, <2>6 DEF XferShape, Fields
  <2>8. XferBytes'
    BY <1>1, <1>4, <2>4, <2>6 DEF XferBytes, Coded
  <2>9. XferTable'
    BY <1>1, <1>4, <2>4, <2>6 DEF XferTable
  <2>10. XferTrail'
    BY <1>1, <1>4, <2>4, <2>6 DEF XferTrail, Pushing
  <2>11. Popping'
    <3>1. Len(xfer.decoded) = 0
      BY <1>1 DEF XferBytes
    <3>2. xfer.n - Len(xfer.decoded) + 1 = xfer.n + 1
      BY <1>3, <3>1
    <3>3. xfer.trail[xfer.n - Len(xfer.decoded) + 1] = e
      BY <3>2
    <3> HIDE DEF e
    <3>4. loaded = e.through[1] /\ at = e.from + 1 - 1 /\ 1 \in 1..Len(e.through)
      BY <2>3
    <3>5. xfer'.trail[xfer'.n - Len(xfer'.decoded) + 1] = e
      BY <2>4, <3>3
    <3> QED BY <2>4, <3>4, <3>5 DEF Popping
  <2>12. XferBack'
    BY <1>1, <1>4, <2>4, <2>6, <2>11 DEF XferBack, Flushed
  <2> QED BY <2>7, <2>8, <2>9, <2>10, <2>12 DEF XferInv
<1>5. CASE ~Coded
  <2>1. xfer' = [xfer EXCEPT !.pc = "rebuild"]
    BY <1>1, <1>2, <1>3, <1>5 DEF Coded
  <2>2. /\ xfer'.pc = "rebuild" /\ xfer'.entropy = xfer.entropy /\ xfer'.sent = xfer.sent
        /\ xfer'.freqs = xfer.freqs /\ xfer'.turn = xfer.turn /\ xfer'.state = xfer.state
        /\ xfer'.out = xfer.out /\ xfer'.left = xfer.left /\ xfer'.trail = xfer.trail
        /\ xfer'.landed = xfer.landed /\ xfer'.n = xfer.n /\ xfer'.decoded = xfer.decoded
    BY <1>1, <2>1 DEF Fields
  <2>3. Fields(xfer')
    BY <1>1, <2>1 DEF Fields
  <2>4. Sent' = Sent /\ ~Coded'
    BY <1>1, <1>5, <2>2 DEF Sent, Coded
  <2>5. XferShape'
    BY <1>1, <2>2, <2>3, <2>4 DEF XferShape, Fields
  <2>6. XferBytes'
    BY <1>1, <1>5, <2>2, <2>4 DEF XferBytes
  <2>7. XferTable'
    BY <1>1, <1>5, <2>2, <2>4 DEF XferTable
  <2>8. XferTrail'
    BY <1>1, <1>5, <2>2, <2>4 DEF XferTrail, Pushing
  <2>9. XferBack'
    BY <1>1, <2>2, <2>4 DEF XferBack
  <2> QED BY <2>5, <2>6, <2>7, <2>8, <2>9 DEF XferInv
<1> QED BY <1>4, <1>5

\* Popping a symbol, or loading a byte, stays in the entries.
LEMMA PoppingFacts ==
    ASSUME Sending!TransportConstants, XferInv, xfer.pc = "pop"
    PROVE  LET j == xfer.n - Len(xfer.decoded) + 1
               e == xfer.trail[j] IN
           /\ Coded /\ j \in 1..xfer.n + 1 /\ Entry(e, xfer.out)
           /\ \E m \in 1..Len(e.through) : xfer.state = e.through[m] /\ xfer.pos = e.from + m - 1
<1> DEFINE j == xfer.n - Len(xfer.decoded) + 1
<1>1. Coded
  BY DEF XferInv, XferBytes, Coded
<1>2. /\ xfer.n \in Nat /\ Len(xfer.decoded) \in Nat /\ Len(xfer.decoded) <= xfer.n
      /\ \A i \in 1..xfer.n + 1 : Entry(xfer.trail[i], xfer.out)
  BY <1>1, CodedFacts
<1>3. j \in 1..xfer.n + 1
  BY <1>2
<1>4. Popping
  BY DEF XferInv, XferBack
<1> QED BY <1>1, <1>2, <1>3, <1>4 DEF Popping

\* A byte goes back into the state.
LEMMA RefillStep == ASSUME Sending!TransportConstants, XferInv, Sending!Refill PROVE XferInv'
<1> DEFINE j == xfer.n - Len(xfer.decoded) + 1
           e == xfer.trail[j]
           z == xfer.state * Base + xfer.out[xfer.pos]
<1>1. /\ xfer.pc = "pop" /\ Fields(xfer) /\ XferShape /\ XferBytes /\ XferTable /\ XferTrail /\ XferBack
      /\ xfer.state < StateLow /\ xfer' = [xfer EXCEPT !.state = z, !.pos = xfer.pos - 1]
  BY DEF Sending!Refill, XferInv, XferShape, Fields
<1>2. Coded /\ Entry(e, xfer.out)
  BY <1>1, PoppingFacts
<1>3. PICK m \in 1..Len(e.through) : xfer.state = e.through[m] /\ xfer.pos = e.from + m - 1
  BY <1>1, PoppingFacts
<1>4. xfer.out \in Seq(Sending!Digits)
  BY <1>1 DEF XferShape
<1>5. e.from \in Nat /\ Len(e.through) \in Nat /\ m \in Nat
  BY <1>2, <1>3 DEF Entry
<1> HIDE DEF e
<1>6. m - 1 \in 1..Len(e.through) /\ e.through[m] * Base + xfer.out[e.from + m - 1] = e.through[m - 1]
  BY <1>1, <1>2, <1>3, <1>4, EntryBack
<1>7. z = e.through[m - 1] /\ xfer.pos - 1 = e.from + (m - 1) - 1
  <2>1. z = e.through[m] * Base + xfer.out[e.from + m - 1]
    BY <1>3
  <2>2. xfer.pos - 1 = e.from + (m - 1) - 1
    BY <1>3, <1>5
  <2> HIDE DEF z
  <2> QED BY <1>6, <2>1, <2>2
<1>8. z \in Nat
  <2> HIDE DEF z
  <2> QED BY <1>2, <1>4, <1>6, <1>7, EntryStates
<1> HIDE DEF z
<1>9. /\ xfer'.pc = "pop" /\ xfer'.entropy = xfer.entropy /\ xfer'.sent = xfer.sent
      /\ xfer'.freqs = xfer.freqs /\ xfer'.turn = xfer.turn /\ xfer'.state = z
      /\ xfer'.out = xfer.out /\ xfer'.left = xfer.left /\ xfer'.trail = xfer.trail
      /\ xfer'.landed = xfer.landed /\ xfer'.n = xfer.n /\ xfer'.decoded = xfer.decoded
      /\ xfer'.pos = xfer.pos - 1
  BY <1>1 DEF Fields
<1>10. Fields(xfer')
  BY <1>1 DEF Fields
<1>11. Sent' = Sent /\ Coded'
  BY <1>2, <1>9 DEF Sent, Coded
<1>12. XferShape'
  BY <1>1, <1>8, <1>9, <1>10, <1>11 DEF XferShape, Fields
<1>13. XferBytes'
  BY <1>1, <1>2, <1>9, <1>11 DEF XferBytes
<1>14. XferTable'
  BY <1>1, <1>2, <1>9, <1>11 DEF XferTable
<1>15. XferTrail'
  BY <1>1, <1>2, <1>9, <1>11 DEF XferTrail, Pushing
<1>16. Popping'
  <2>1. xfer'.trail[xfer'.n - Len(xfer'.decoded) + 1] = e
    BY <1>9 DEF e
  <2> QED BY <1>6, <1>7, <1>9, <2>1 DEF Popping
<1>17. XferBack'
  BY <1>1, <1>2, <1>9, <1>11, <1>16 DEF XferBack, Flushed
<1> QED BY <1>12, <1>13, <1>14, <1>15, <1>17 DEF XferInv

\* A symbol comes out of the state it went into.
LEMMA PopStep == ASSUME Sending!TransportConstants, XferInv, Sending!Pop PROVE XferInv'
<1> DEFINE j == xfer.n - Len(xfer.decoded) + 1
           e == xfer.trail[j]
           g == xfer.trail[j - 1]
           k == Len(xfer.decoded)
           slot == xfer.state % Mass
           t == Sending!SymbolAt(xfer.freqs, slot)
           s == Sent[k + 1]
           z == xfer.freqs[t] * (xfer.state \div Mass) + slot - Sending!Start(xfer.freqs, t)
           more == Append(xfer.decoded, t)
<1>1. /\ xfer.pc = "pop" /\ Fields(xfer) /\ XferShape /\ XferBytes /\ XferTable /\ XferTrail /\ XferBack
      /\ xfer.state >= StateLow /\ Len(xfer.decoded) < xfer.n
      /\ xfer' = [xfer EXCEPT !.state = z, !.decoded = more]
  BY DEF Sending!Pop, XferInv, XferShape, Fields
<1>2. Coded /\ j \in 1..xfer.n + 1 /\ Entry(e, xfer.out)
  BY <1>1, PoppingFacts
<1>3. /\ xfer.n \in Nat /\ k \in Nat /\ k < xfer.n /\ Len(xfer.trail) = xfer.n + 1
      /\ xfer.out \in Seq(Sending!Digits) /\ xfer.decoded \in Seq(Sending!Digits)
      /\ Chain(xfer.trail, xfer.out, xfer.freqs, Sent) /\ \A i \in 1..xfer.n + 1 : Entry(xfer.trail[i], xfer.out)
  BY <1>1, <1>2, CodedFacts
<1>4. /\ Len(Sent) = xfer.n /\ s \in Sending!Digits /\ xfer.freqs \in Tables /\ xfer.freqs[s] >= 1
      /\ SumFunction(xfer.freqs) = Mass
  <2>1. Len(Sent) = xfer.n /\ \A i \in 1..xfer.n : Sent[i] \in Sending!Digits
    BY <1>1, SentFacts
  <2>2. k + 1 \in 1..xfer.n
    BY <1>3
  <2>3. xfer.freqs \in Tables /\ SumFunction(xfer.freqs) = Mass /\ xfer.freqs[s] >= 1
    BY <1>1, <1>2, <2>2 DEF XferShape, XferTable
  <2> QED BY <2>1, <2>2, <2>3
<1>5. xfer.state = e.through[1] /\ xfer.pos = e.from
  <2>1. PICK m \in 1..Len(e.through) : xfer.state = e.through[m] /\ xfer.pos = e.from + m - 1
    BY <1>1, PoppingFacts
  <2>2. e.from \in Nat
    BY <1>2 DEF Entry
  <2> HIDE DEF e
  <2>3. m = 1
    BY <1>1, <1>2, <1>3, <2>1, EntryBack
  <2> QED BY <2>1, <2>2, <2>3
<1>6. /\ j - 1 \in 1..xfer.n /\ Entry(g, xfer.out)
      /\ e.from = LastByte(g) /\ e.through[1] = Sending!Encoded(xfer.freqs, s, LastState(g))
  <2>1. j - 1 \in 1..xfer.n /\ j - 1 \in 1..xfer.n + 1
    BY <1>3
  <2>2. j - 1 \in 1..Len(xfer.trail) - 1 /\ (j - 1) + 1 = j
    BY <1>3, <2>1
  <2>3. Len(Sent) - (j - 1) + 1 = k + 1
    BY <1>3, <1>4
  <2>4. /\ xfer.trail[(j - 1) + 1].from = LastByte(xfer.trail[j - 1])
        /\ xfer.trail[(j - 1) + 1].through[1]
              = Sending!Encoded(xfer.freqs, Sent[Len(Sent) - (j - 1) + 1], LastState(xfer.trail[j - 1]))
    <3> DEFINE i == j - 1
    <3>1. i \in 1..Len(xfer.trail) - 1
      BY <2>2
    <3> HIDE DEF i, j
    <3>2. /\ xfer.trail[i + 1].from = LastByte(xfer.trail[i])
          /\ xfer.trail[i + 1].through[1] = Sending!Encoded(xfer.freqs, Sent[Len(Sent) - i + 1], LastState(xfer.trail[i]))
      BY <1>3, <3>1 DEF Chain
    <3> QED BY <3>2 DEF i
  <2>5. Entry(g, xfer.out)
    BY <1>3, <2>1
  <2> HIDE DEF j
  <2> QED BY <2>1, <2>2, <2>3, <2>4, <2>5
<1>7. LastState(g) \in Nat /\ LastByte(g) \in Nat /\ Len(g.through) \in Nat /\ Len(g.through) >= 1
  <2> HIDE DEF g
  <2>1. Entry(g, xfer.out) /\ xfer.out \in Seq(Sending!Digits)
    BY <1>3, <1>6
  <2>2. LastState(g) \in Nat /\ LastByte(g) \in Nat
    BY <2>1, EntryStates
  <2>3. Len(g.through) \in Nat /\ Len(g.through) >= 1
    BY <2>1 DEF Entry
  <2> QED BY <2>2, <2>3
<1>8. t = s /\ z = LastState(g)
  <2> DEFINE x == LastState(g)
             y == Sending!Encoded(xfer.freqs, s, x)
             f == xfer.freqs
  <2>1. xfer.state = y
    BY <1>5, <1>6
  <2>2. f \in Tables /\ SumFunction(f) = Mass /\ s \in Sending!Digits /\ f[s] >= 1 /\ x \in Nat /\ y = Sending!Encoded(f, s, x)
    BY <1>4, <1>7
  <2> HIDE DEF x, y, f, s
  <2>3. Sending!SymbolAt(f, y % Mass) = s /\ f[s] * (y \div Mass) + (y % Mass) - Sending!Start(f, s) = x
    BY <2>2, EncodedFacts
  <2>4. t = s
    BY <2>1, <2>3 DEF f
  <2>5. z = f[s] * (y \div Mass) + (y % Mass) - Sending!Start(f, s)
    BY <2>1, <2>4 DEF f
  <2> HIDE DEF z, t
  <2> QED BY <2>3, <2>4, <2>5 DEF x
<1>9. /\ more \in Seq(Sending!Digits) /\ Len(more) = k + 1 /\ more[k + 1] = s
      /\ \A i \in 1..k : more[i] = xfer.decoded[i]
  <2> HIDE DEF t, s
  <2>1. t = s /\ s \in Sending!Digits
    BY <1>4, <1>8
  <2> QED BY <1>3, <2>1
<1> HIDE DEF more, z, g, t, e
<1>10. /\ xfer'.pc = "pop" /\ xfer'.entropy = xfer.entropy /\ xfer'.sent = xfer.sent
      /\ xfer'.freqs = xfer.freqs /\ xfer'.turn = xfer.turn /\ xfer'.state = z
      /\ xfer'.out = xfer.out /\ xfer'.left = xfer.left /\ xfer'.trail = xfer.trail
      /\ xfer'.landed = xfer.landed /\ xfer'.n = xfer.n /\ xfer'.decoded = more
      /\ xfer'.pos = xfer.pos
  BY <1>1 DEF Fields
<1>11. Fields(xfer')
  BY <1>1 DEF Fields
<1>12. Sent' = Sent /\ Coded'
  BY <1>2, <1>10 DEF Sent, Coded
<1>13. XferShape'
  BY <1>1, <1>7, <1>8, <1>10, <1>11, <1>12 DEF XferShape, Fields
<1>14. XferBytes'
  <2>1. \A i \in 1..k + 1 : more[i] = Sent[i]
    <3>1. \A i \in 1..k : xfer.decoded[i] = Sent[i]
      BY <1>1 DEF XferBytes
    <3> SUFFICES ASSUME NEW i \in 1..k + 1 PROVE more[i] = Sent[i]
      OBVIOUS
    <3>2. CASE i = k + 1
      BY <1>9, <3>2
    <3>3. CASE i # k + 1
      <4>1. i \in 1..k
        BY <1>3, <3>3
      <4> QED BY <1>9, <3>1, <4>1
    <3> QED BY <3>2, <3>3
  <2>2. Len(more) <= xfer.n
    BY <1>3, <1>9
  <2> QED BY <1>1, <1>2, <1>9, <1>10, <1>12, <2>1, <2>2 DEF XferBytes
<1>15. XferTable'
  BY <1>1, <1>2, <1>10, <1>12 DEF XferTable
<1>16. XferTrail'
  BY <1>1, <1>2, <1>10, <1>12 DEF XferTrail, Pushing
<1>17. Popping'
  <2>1. xfer.n - (k + 1) + 1 = j - 1
    BY <1>3
  <2>2. xfer'.trail[xfer'.n - Len(xfer'.decoded) + 1] = g
    BY <1>9, <1>10, <2>1 DEF g
  <2>3. z = g.through[Len(g.through)] /\ xfer.pos = g.from + Len(g.through) - 1
    BY <1>5, <1>6, <1>8 DEF LastState, LastByte
  <2>4. Len(g.through) \in 1..Len(g.through)
    BY <1>7
  <2> QED BY <1>10, <2>2, <2>3, <2>4 DEF Popping
<1>18. XferBack'
  BY <1>1, <1>2, <1>10, <1>12, <1>17 DEF XferBack, Flushed
<1> QED BY <1>13, <1>14, <1>15, <1>16, <1>18 DEF XferInv

\* What was decoded makes the elements that were sent.
LEMMA RebuildStep == ASSUME Sending!TransportConstants, XferInv, Sending!Rebuild PROVE XferInv'
<1> DEFINE back == IF xfer.entropy THEN Sending!Elements(xfer.decoded, xfer.sent.width) ELSE xfer.sent.elements
           got == [payload |-> back, scheme |-> xfer.scheme, parts |-> xfer.landed]
<1>1. /\ Fields(xfer) /\ XferShape /\ XferBytes /\ XferTable /\ XferTrail /\ XferBack
      /\ xfer.pc = "rebuild" \/ (xfer.pc = "pop" /\ Len(xfer.decoded) = xfer.n)
      /\ xfer' = [xfer EXCEPT !.pc = "done", !.received = got]
  BY DEF Sending!Rebuild, XferInv, XferShape, Fields
<1>2. xfer.entropy => Len(xfer.decoded) = xfer.n
  <2> SUFFICES ASSUME xfer.entropy, xfer.pc = "rebuild" PROVE Len(xfer.decoded) = xfer.n
    BY <1>1
  <2>1. ~Coded /\ Len(xfer.decoded) = 0
    BY <1>1 DEF XferBytes
  <2>2. xfer.n \in Nat /\ ~(xfer.n > 0)
    BY <1>1, <2>1, SentFacts DEF Coded
  <2> QED BY <2>1, <2>2
<1>3. back = xfer.sent.elements
  <2>1. CASE xfer.entropy
    <3> DEFINE p == xfer.sent
               b == xfer.decoded
    <3>1. p \in Payloads /\ b \in Seq(Sending!Digits) /\ Len(b) = Len(Sending!BytesOf(p)) /\ Len(b) = xfer.n
      BY <1>1, <1>2, <2>1 DEF XferShape, XferBytes, Sent
    <3>2. \A i \in 1..Len(b) : b[i] = Sending!BytesOf(p)[i]
      BY <1>1 DEF XferBytes, Sent
    <3>3. DOMAIN b = 1..Len(b)
      BY <3>1
    <3> HIDE DEF p, b
    <3>4. Sending!Elements(b, p.width) = p.elements
      BY <3>1, <3>2, <3>3, BytesFacts
    <3> QED BY <2>1, <3>4 DEF p, b
  <2>2. CASE ~xfer.entropy
    BY <2>2
  <2> QED BY <2>1, <2>2
<1>4. xfer.landed = Sending!Parts
  BY <1>1 DEF XferBack
<1> HIDE DEF back
<1>5. got = [payload |-> xfer.sent.elements, scheme |-> xfer.scheme, parts |-> Sending!Parts]
  BY <1>3, <1>4
<1> HIDE DEF got
<1>6. /\ xfer'.pc = "done" /\ xfer'.entropy = xfer.entropy /\ xfer'.sent = xfer.sent
      /\ xfer'.freqs = xfer.freqs /\ xfer'.turn = xfer.turn /\ xfer'.state = xfer.state
      /\ xfer'.out = xfer.out /\ xfer'.left = xfer.left /\ xfer'.trail = xfer.trail
      /\ xfer'.landed = xfer.landed /\ xfer'.n = xfer.n /\ xfer'.decoded = xfer.decoded
      /\ xfer'.scheme = xfer.scheme /\ xfer'.received = got
  BY <1>1 DEF Fields
<1>7. Fields(xfer')
  BY <1>1 DEF Fields
<1>8. Sent' = Sent /\ Coded' = Coded
  BY <1>1, <1>6 DEF Sent, Coded
<1>9. XferShape'
  BY <1>1, <1>6, <1>7, <1>8 DEF XferShape, Fields
<1>10. XferBytes'
  BY <1>1, <1>6, <1>8 DEF XferBytes
<1>11. XferTable'
  BY <1>1, <1>6, <1>8 DEF XferTable
<1>12. XferTrail'
  BY <1>1, <1>6, <1>8 DEF XferTrail, Pushing
<1>13. XferBack'
  BY <1>1, <1>4, <1>5, <1>6, <1>8 DEF XferBack, Flushed
<1> QED BY <1>9, <1>10, <1>11, <1>12, <1>13 DEF XferInv

\* A behaviour of a transfer keeps its invariant.
LEMMA SendingInvariant == PartsSpec => [](active = "transport" => XferInv)
<1> DEFINE I == active = "transport" => XferInv
<1>1. PartsInit => I
  BY XferInitial, TransportAssumption DEF PartsInit
<1>2. I /\ [PartsNext]_partsVars => I'
  <2> SUFFICES ASSUME active = "transport" => XferInv, [PartsNext]_partsVars, active' = "transport"
               PROVE  XferInv'
    OBVIOUS
  <2>1. active = "transport" /\ XferInv /\ (Sending!Next \/ UNCHANGED xfer)
    BY DEF PartsNext, Bounded, partsVars
  <2>2. CASE Sending!Count
    BY <2>1, <2>2, CountStep, TransportAssumption
  <2>3. CASE Sending!Nudge
    BY <2>1, <2>3, NudgeStep, TransportAssumption
  <2>4. CASE Sending!Spill
    BY <2>1, <2>4, SpillStep, TransportAssumption
  <2>5. CASE Sending!Push
    BY <2>1, <2>5, PushStep, TransportAssumption
  <2>6. CASE Sending!Flush
    BY <2>1, <2>6, FlushStep, TransportAssumption
  <2>7. CASE \E part \in Sending!Parts : Sending!Land(part)
    BY <2>1, <2>7, LandStep
  <2>8. CASE Sending!Handle
    BY <2>1, <2>8, HandleStep, TransportAssumption
  <2>9. CASE Sending!Refill
    BY <2>1, <2>9, RefillStep, TransportAssumption
  <2>10. CASE Sending!Pop
    BY <2>1, <2>10, PopStep, TransportAssumption
  <2>11. CASE Sending!Rebuild
    BY <2>1, <2>11, RebuildStep, TransportAssumption
  <2>12. CASE UNCHANGED xfer
    BY <2>1, <2>12, XferUnchanged
  <2> QED BY <2>1, <2>2, <2>3, <2>4, <2>5, <2>6, <2>7, <2>8, <2>9, <2>10, <2>11, <2>12
       DEF Sending!Next, Sending!Done
<1> QED BY <1>1, <1>2, PTL DEF PartsSpec

\* Whatever is sent, coded or not: the coder's state stays in its range, every
\* byte that occurs has a slot, each pop returns to the state and the byte
\* from which its push went, and recv has what send compressed
\* (dist/entropy.py, dist/__init__.py).
THEOREM TransfersInvert == PartsSpec => []TransferInverts
<1>1. (active = "transport" => XferInv) => TransferInverts
  BY XferInverts, TransportAssumption DEF TransferInverts
<1> QED BY <1>1, SendingInvariant, PTL
=============================================================================
