----------------------------- MODULE DecodeProofs -----------------------------
(***************************************************************************)
(* Theorems about Decode for every set of requests, slots, models and      *)
(* graphs.                                                                 *)
(***************************************************************************)
EXTENDS Decode, ListProofs

-----------------------------------------------------------------------------
(* Blocks and forward passes *)

\* The larger of two.
LEMMA Larger ==
    ASSUME NEW m \in Int, NEW n \in Int
    PROVE  MaxOf({m, n}) = IF m <= n THEN n ELSE m
<1> DEFINE Top(k) == \A l \in {m, n} : l <= k
<1>1. \E k \in {m, n} : Top(k)
  <2>1. CASE m <= n
    BY <2>1
  <2>2. CASE ~(m <= n)
    BY <2>2
  <2> QED BY <2>1, <2>2
<1>2. MaxOf({m, n}) \in {m, n} /\ Top(MaxOf({m, n}))
  BY <1>1 DEF MaxOf
<1> QED BY <1>2

\* Blocks for n tokens have room for n tokens.
LEMMA BlocksCover ==
    ASSUME NEW n \in Nat
    PROVE  /\ BlocksFor(n) \in Nat
           /\ \A b \in Nat : BlocksFor(n) <= b => n <= b * BlockSize
<1>1. BlockSize \in Nat \ {0}
  BY DecodeConstants
<1>2. \A d \in Nat \ {0}, k \in Nat : k \div d \in Nat /\ k < (k \div d) * d + d
  BY SMTT(20)
<1>3. n + BlockSize - 1 \in Nat
  BY <1>1
<1>4. BlocksFor(n) \in Nat /\ n + BlockSize - 1 < BlocksFor(n) * BlockSize + BlockSize
  BY <1>1, <1>2, <1>3 DEF BlocksFor
<1>5. \A j, k, d \in Nat : j <= k => j * d <= k * d
  BY SMTT(20)
<1>6. ASSUME NEW b \in Nat, BlocksFor(n) <= b PROVE n <= b * BlockSize
  <2>1. BlocksFor(n) * BlockSize <= b * BlockSize
    BY <1>1, <1>4, <1>5, <1>6
  <2>2. BlocksFor(n) * BlockSize \in Int /\ b * BlockSize \in Int
    BY <1>1, <1>4
  <2> QED BY <1>1, <1>4, <2>1, <2>2
<1> QED BY <1>4, <1>6

\* Capacity grows to what is asked for, and never shrinks.
LEMMA EnsuredFacts ==
    ASSUME capacity \in [Slots -> Nat], NEW batch, NEW n,
           \A i \in DOMAIN batch : slot[batch[i]] \in Slots /\ n[i] \in Nat
    PROVE  /\ Ensured(batch, n) \in [Slots -> Nat]
           /\ \A s \in Slots : capacity[s] <= Ensured(batch, n)[s]
           /\ \A i \in DOMAIN batch :
                 (\A j \in DOMAIN batch : slot[batch[j]] = slot[batch[i]] => j = i)
                     => BlocksFor(n[i]) <= Ensured(batch, n)[slot[batch[i]]]
<1> DEFINE Row(s) == CHOOSE i \in DOMAIN batch : slot[batch[i]] = s
           Room(s) == IF s \in Range(SlotsOf(batch)) THEN MaxOf({capacity[s], BlocksFor(n[Row(s)])})
                      ELSE capacity[s]
<1>1. Ensured(batch, n) = [s \in Slots |-> Room(s)]
  BY DEF Ensured
<1>2. ASSUME NEW s \in Range(SlotsOf(batch))
      PROVE  Row(s) \in DOMAIN batch /\ slot[batch[Row(s)]] = s
  <2>1. \E i \in DOMAIN batch : slot[batch[i]] = s
    BY <1>2 DEF Range, SlotsOf
  <2> QED BY <2>1
<1>3. ASSUME NEW s \in Slots
      PROVE  /\ Room(s) \in Nat /\ capacity[s] <= Room(s)
             /\ s \in Range(SlotsOf(batch)) => BlocksFor(n[Row(s)]) <= Room(s)
  <2>1. CASE s \in Range(SlotsOf(batch))
    <3>1. BlocksFor(n[Row(s)]) \in Nat /\ capacity[s] \in Nat
      BY <1>2, <2>1, BlocksCover
    <3> QED BY <2>1, <3>1, Larger
  <2>2. CASE s \notin Range(SlotsOf(batch))
    BY <2>2
  <2> QED BY <2>1, <2>2
<1>4. ASSUME NEW i \in DOMAIN batch,
             \A j \in DOMAIN batch : slot[batch[j]] = slot[batch[i]] => j = i
      PROVE  BlocksFor(n[i]) <= Room(slot[batch[i]])
  <2>1. slot[batch[i]] \in Range(SlotsOf(batch))
    BY DEF Range, SlotsOf
  <2>2. Row(slot[batch[i]]) = i
    BY <1>2, <1>4, <2>1
  <2> QED BY <1>3, <2>1, <2>2
<1> HIDE DEF Room
<1> QED BY <1>1, <1>3, <1>4

\* What a forward predicts from is a string of tokens, known or not.
LEMMA ContextTypes ==
    ASSUME TypeOK, NEW n, NEW tok, NEW rows,
           \A i \in DOMAIN tok : n[i] \in Positions /\ rows[i] \in Slots /\ tok[i] \in Token
    PROVE  \A i \in DOMAIN tok : Contexts(n, tok, rows)[i] \in Seq(Token)
<1> SUFFICES ASSUME NEW i \in DOMAIN tok
             PROVE  Contexts(n, tok, rows)[i] \in Seq(Token)
  OBVIOUS
<1> DEFINE w == Context(rows[i], n[i], rows[i])
<1>1. kv[rows[i]][n[i]] \in Seq(Token)
  BY DEF TypeOK
<1>2. w \in Seq(Token)
  BY <1>1, EmptySeq DEF Context, Rough
<1>3. Contexts(n, tok, rows)[i] = Extend(w, <<tok[i]>>)
  BY DEF Contexts
<1> HIDE DEF w
<1>4. w \o <<tok[i]>> \in Seq(Token)
  BY <1>2
<1> QED BY <1>3, <1>4, EmptySeq DEF Extend, Rough

\* A forward keeps the types of K/V and state; it writes the slots of its rows
\* only.
LEMMA ForwardFacts ==
    ASSUME TypeOK, NEW n, NEW tok, NEW rows,
           DOMAIN tok \subseteq DOMAIN rows,
           \A i \in DOMAIN tok : n[i] \in Positions /\ rows[i] \in Slots /\ tok[i] \in Token
    PROVE  /\ KVAfter(n, tok, rows) \in [Slots -> [Positions -> Seq(Token)]]
           /\ StateAfter(tok, rows) \in [Slots -> Seq(Token)]
           /\ \A s \in Slots : s \notin Range(rows) =>
                 KVAfter(n, tok, rows)[s] = kv[s] /\ StateAfter(tok, rows)[s] = state[s]
<1> DEFINE x == Contexts(n, tok, rows)
           Row(s) == RowOf(tok, rows, s)
           real == Real(tok, rows)
           KV(s) == IF s \in real THEN [kv[s] EXCEPT ![n[Row(s)] + 1] = x[Row(s)]]
                    ELSE IF s \in Range(rows) THEN [kv[s] EXCEPT ![1] = Rough] ELSE kv[s]
           State(s) == IF ~model.recurrent THEN state[s]
                       ELSE IF s \in real THEN Append(state[s], tok[Row(s)])
                       ELSE IF s \in Range(rows) THEN <<>> ELSE state[s]
<1>1. /\ KVAfter(n, tok, rows) = [s \in Slots |-> KV(s)]
      /\ StateAfter(tok, rows) = [s \in Slots |-> State(s)]
  BY DEF KVAfter, StateAfter
<1>2. ASSUME NEW s \in real PROVE Row(s) \in DOMAIN tok /\ rows[Row(s)] = s
  <2>1. \E i \in DOMAIN tok : rows[i] = s
    BY <1>2 DEF Real
  <2> QED BY <2>1 DEF RowOf
<1>3. /\ \A i \in DOMAIN tok : x[i] \in Seq(Token)
      /\ \A i \in DOMAIN tok : x[i] = Extend(Context(rows[i], n[i], rows[i]), <<tok[i]>>)
  BY ContextTypes DEF Contexts
<1>4. real \subseteq Range(rows)
  BY DEF Range, Real
<1> HIDE DEF x, Row
<1>5. ASSUME NEW s \in Slots PROVE KV(s) \in [Positions -> Seq(Token)] /\ State(s) \in Seq(Token)
  <2>1. kv[s] \in [Positions -> Seq(Token)] /\ state[s] \in Seq(Token)
    BY DEF TypeOK
  <2>2. Rough \in Seq(Token) /\ <<>> \in Seq(Token)
    BY EmptySeq DEF Rough
  <2>3. s \in real => x[Row(s)] \in Seq(Token) /\ tok[Row(s)] \in Token
    BY <1>2, <1>3
  <2>4. s \in real => Append(state[s], tok[Row(s)]) \in Seq(Token)
    BY <2>1, <2>3, AppendProperties
  <2> QED BY <2>1, <2>2, <2>3, <2>4
<1>6. \A s \in Slots : s \notin Range(rows) => KV(s) = kv[s] /\ State(s) = state[s]
  BY <1>4
<1> HIDE DEF KV, State
<1> QED BY <1>1, <1>5, <1>6

\* It writes a row that shares its slot with no other to its next position.
LEMMA ForwardAt ==
    ASSUME TypeOK, NEW n, NEW tok, NEW rows, NEW i \in DOMAIN tok,
           n[i] \in Positions, rows[i] \in Slots, tok[i] \in Token,
           \A j \in DOMAIN tok : rows[j] = rows[i] => j = i
    PROVE  /\ \A p \in Positions : KVAfter(n, tok, rows)[rows[i]][p] =
                 IF p = n[i] + 1 THEN Extend(Context(rows[i], n[i], rows[i]), <<tok[i]>>)
                 ELSE kv[rows[i]][p]
           /\ StateAfter(tok, rows)[rows[i]] =
                 IF model.recurrent THEN Append(state[rows[i]], tok[i]) ELSE state[rows[i]]
<1> DEFINE x == Contexts(n, tok, rows)
<1>1. rows[i] \in Real(tok, rows)
  BY DEF Real
<1>2. RowOf(tok, rows, rows[i]) = i
  BY DEF RowOf
<1>3. x[i] = Extend(Context(rows[i], n[i], rows[i]), <<tok[i]>>)
  BY DEF Contexts
<1>4. KVAfter(n, tok, rows)[rows[i]] = [kv[rows[i]] EXCEPT ![n[i] + 1] = x[i]]
  <2> HIDE DEF x
  <2> QED BY <1>1, <1>2 DEF KVAfter, x
<1>5. kv[rows[i]] \in [Positions -> Seq(Token)]
  BY DEF TypeOK
<1>6. StateAfter(tok, rows)[rows[i]] =
         IF model.recurrent THEN Append(state[rows[i]], tok[i]) ELSE state[rows[i]]
  BY <1>1, <1>2 DEF StateAfter
<1> HIDE DEF x
<1> QED BY <1>3, <1>4, <1>5, <1>6

-----------------------------------------------------------------------------
(* The batch *)

\* Positions are numbered from 1; what fits a row of the block table has one.
LEMMA PositionFacts ==
    /\ Positions \subseteq Nat \ {0}
    /\ \A n \in Nat \ {0} : BlocksFor(n) <= MaxBlocksPerSeq => n \in Positions
    /\ \A p \in Positions : \A q \in Nat \ {0} : q <= p => q \in Positions
<1> DEFINE top == MaxBlocksPerSeq * BlockSize
<1>1. /\ MaxBlocksPerSeq \in Nat \ {0} /\ BlockSize \in Nat \ {0} /\ MaxDepths \in Nat
  BY DecodeConstants
<1>2. \A j, k \in Nat : j * k \in Nat
  BY SMTT(20)
<1>3. top \in Nat
  BY <1>1, <1>2
<1>4. Positions = 1..top + MaxDepths + 2
  BY DEF Positions
<1>5. ASSUME NEW n \in Nat \ {0}, BlocksFor(n) <= MaxBlocksPerSeq PROVE n <= top
  BY <1>1, <1>5, BlocksCover
<1> HIDE DEF top
<1> QED BY <1>1, <1>3, <1>4, <1>5

\* A history is longer than its prompt, which is not empty.
LEMMA HistoryFacts ==
    ASSUME TypeOK, NEW r \in Requests
    PROVE  /\ Prompt[r] \in Seq(Token) /\ Len(Prompt[r]) \in Nat \ {0}
           /\ History(r) \in Seq(Token)
           /\ Len(History(r)) = Len(Prompt[r]) + Len(output_ids[r])
           /\ output_ids[r] \in Seq(Token) /\ Len(output_ids[r]) \in Nat
           /\ output_ids[r] # <<>> =>
                 /\ Len(output_ids[r]) > 0
                 /\ output_ids[r][Len(output_ids[r])] = History(r)[Len(History(r))]
<1>1. /\ Prompt[r] \in Seq(Token) /\ Prompt[r] # <<>> /\ output_ids[r] \in Seq(Token)
  BY DecodeConstants DEF TypeOK
<1>2. Len(Prompt[r]) \in Nat \ {0} /\ Len(output_ids[r]) \in Nat
  BY <1>1
<1>3. /\ History(r) \in Seq(Token)
      /\ Len(History(r)) = Len(Prompt[r]) + Len(output_ids[r])
      /\ \A i \in 1..Len(Prompt[r]) + Len(output_ids[r]) : History(r)[i] =
            IF i <= Len(Prompt[r]) THEN Prompt[r][i] ELSE output_ids[r][i - Len(Prompt[r])]
  BY <1>1, ConcatProperties DEF History
<1>4. output_ids[r] # <<>> => Len(output_ids[r]) > 0
  BY <1>1
<1>5. ASSUME output_ids[r] # <<>>
      PROVE  output_ids[r][Len(output_ids[r])] = History(r)[Len(History(r))]
  <2> DEFINE m == Len(Prompt[r])
             n == Len(output_ids[r])
  <2>1. m \in Nat /\ n \in Nat /\ n > 0 /\ Len(History(r)) = m + n
    BY <1>2, <1>3, <1>4, <1>5
  <2>2. \A i \in 1..m + n : History(r)[i] = IF i <= m THEN Prompt[r][i] ELSE output_ids[r][i - m]
    BY <1>3
  <2> HIDE DEF m, n
  <2>3. m + n \in 1..m + n /\ ~(m + n <= m) /\ m + n - m = n
    BY <2>1
  <2>4. ASSUME NEW k \in 1..m + n, k = m + n
        PROVE  History(r)[k] = output_ids[r][n]
    <3>1. History(r)[k] = IF k <= m THEN Prompt[r][k] ELSE output_ids[r][k - m]
      BY <2>2
    <3>2. ~(k <= m) /\ k - m = n
      BY <2>1, <2>4
    <3> QED BY <3>1, <3>2
  <2>5. History(r)[Len(History(r))] = output_ids[r][n]
    BY <2>1, <2>3, <2>4
  <2> QED BY <2>5 DEF n
<1> QED BY <1>1, <1>2, <1>3, <1>4, <1>5

\* The rows of a batch, one by one.
LEMMA BatchFacts ==
    ASSUME TypeOK, Members
    PROVE  /\ running \in Seq(Requests) /\ Len(running) \in Nat
           /\ DOMAIN running = 1..Len(running)
           /\ DOMAIN SlotsOf(running) = DOMAIN running
           /\ DOMAIN LengthsOf(running) = DOMAIN running
           /\ DOMAIN LastTokens(running) = DOMAIN running
           /\ Range(SlotsOf(running)) = {slot[r] : r \in Range(running)}
           /\ \A r \in Range(running) : r \in Requests /\ \E i \in DOMAIN running : running[i] = r
           /\ \A i \in DOMAIN running :
                 /\ running[i] \in Range(running) /\ running[i] \in Requests
                 /\ slot[running[i]] \in Slots
                 /\ SlotsOf(running)[i] = slot[running[i]]
                 /\ LengthsOf(running)[i] = length[running[i]]
                 /\ length[running[i]] \in Nat \ {0}
                 /\ LastTokens(running)[i] = History(running[i])[length[running[i]] + 1]
                 /\ LastTokens(running)[i] \in Token
                 /\ \A j \in DOMAIN running : slot[running[j]] = slot[running[i]] => j = i
                 /\ \A j \in DOMAIN running : running[j] = running[i] => j = i
<1>1. /\ running \in Seq(Requests) /\ Len(running) \in Nat
      /\ DOMAIN running = 1..Len(running)
  BY DEF TypeOK
<1>2. /\ DOMAIN SlotsOf(running) = DOMAIN running
      /\ DOMAIN LengthsOf(running) = DOMAIN running
      /\ DOMAIN LastTokens(running) = DOMAIN running
      /\ \A i \in DOMAIN running :
            /\ SlotsOf(running)[i] = slot[running[i]]
            /\ LengthsOf(running)[i] = length[running[i]]
            /\ LastTokens(running)[i] = output_ids[running[i]][Len(output_ids[running[i]])]
  BY DEF SlotsOf, LengthsOf, LastTokens
<1>3. /\ \A i \in DOMAIN running : running[i] \in Range(running)
      /\ \A r \in Range(running) : r \in Requests /\ \E i \in DOMAIN running : running[i] = r
  BY <1>1 DEF Range
<1>4. Range(SlotsOf(running)) = {slot[r] : r \in Range(running)}
  BY <1>2 DEF Range
<1>5. ASSUME NEW i \in DOMAIN running
      PROVE  /\ slot[running[i]] \in Slots
             /\ length[running[i]] \in Nat \ {0}
             /\ LastTokens(running)[i] = History(running[i])[length[running[i]] + 1]
             /\ LastTokens(running)[i] \in Token
             /\ \A j \in DOMAIN running : slot[running[j]] = slot[running[i]] => j = i
             /\ \A j \in DOMAIN running : running[j] = running[i] => j = i
  <2> DEFINE r == running[i]
  <2>1. r \in Range(running) /\ r \in Requests
    BY <1>3
  <2>2. slot[r] \in Slots /\ output_ids[r] # <<>> /\ length[r] + 1 = Len(History(r))
    BY <2>1 DEF Members
  <2>3. length[r] \in Nat
    BY <2>1 DEF TypeOK
  <2>4. length[r] \in Nat \ {0}
    <3>1. /\ Len(Prompt[r]) \in Nat \ {0} /\ Len(output_ids[r]) \in Nat
          /\ Len(output_ids[r]) > 0
          /\ Len(History(r)) = Len(Prompt[r]) + Len(output_ids[r])
      BY <2>1, <2>2, HistoryFacts
    <3>2. \A l, m, n \in Nat : m # 0 /\ n > 0 /\ l + 1 = m + n => l # 0
      OBVIOUS
    <3> QED BY <2>2, <2>3, <3>1, <3>2
  <2>5. LastTokens(running)[i] = History(r)[length[r] + 1] /\ LastTokens(running)[i] \in Token
    <3>1. LastTokens(running)[i] = output_ids[r][Len(output_ids[r])]
      BY <1>2
    <3>2. /\ output_ids[r] \in Seq(Token) /\ Len(output_ids[r]) \in Nat
          /\ Len(output_ids[r]) > 0
          /\ output_ids[r][Len(output_ids[r])] = History(r)[Len(History(r))]
      BY <2>1, <2>2, HistoryFacts
    <3>3. LastTokens(running)[i] \in Token
      BY <3>1, <3>2
    <3> QED BY <2>2, <3>1, <3>2, <3>3
  <2>6. \A j \in DOMAIN running : running[j] = running[i] => j = i
    BY DEF Members, NoDuplicates
  <2>7. \A j \in DOMAIN running : slot[running[j]] = slot[running[i]] => j = i
    BY <1>3, <2>6 DEF Members
  <2> QED BY <2>2, <2>4, <2>5, <2>6, <2>7
<1> QED BY <1>1, <1>2, <1>3, <1>4, <1>5

\* A batch whose next tokens fit its tables reads and writes positions that
\* the slots have.
LEMMA FitsFacts ==
    ASSUME TypeOK, NEW batch, NEW n,
           \A i \in DOMAIN batch : slot[batch[i]] \in Slots /\ n[i] \in Nat \ {0},
           \A i, j \in DOMAIN batch : slot[batch[j]] = slot[batch[i]] => j = i,
           Fits(batch, Ensured(batch, [i \in DOMAIN n |-> n[i] + 1])),
           DOMAIN n = DOMAIN batch
    PROVE  \A i \in DOMAIN batch : n[i] \in Positions /\ n[i] + 1 \in Positions
<1> DEFINE m == [i \in DOMAIN n |-> n[i] + 1]
<1> SUFFICES ASSUME NEW i \in DOMAIN batch
             PROVE  n[i] \in Positions /\ n[i] + 1 \in Positions
  OBVIOUS
<1>1. \A j \in DOMAIN batch : m[j] \in Nat
  OBVIOUS
<1>2. m[i] = n[i] + 1
  OBVIOUS
<1> HIDE DEF m
<1>3. /\ Ensured(batch, m)[slot[batch[i]]] <= MaxBlocksPerSeq
  BY DEF Fits, Range, m
<1>4. /\ Ensured(batch, m) \in [Slots -> Nat]
      /\ BlocksFor(m[i]) <= Ensured(batch, m)[slot[batch[i]]]
  BY <1>1, EnsuredFacts DEF TypeOK
<1>5. MaxBlocksPerSeq \in Nat /\ BlocksFor(m[i]) \in Nat
  BY <1>1, BlocksCover, DecodeConstants
<1>6. BlocksFor(m[i]) <= MaxBlocksPerSeq
  BY <1>3, <1>4, <1>5
<1>7. m[i] \in Positions
  BY <1>1, <1>2, <1>6, PositionFacts
<1>8. n[i] \in Positions
  BY <1>2, <1>7, PositionFacts
<1> QED BY <1>2, <1>7, <1>8

-----------------------------------------------------------------------------
(* Types, members, graphs and steps under way *)

\* At first the batch is empty and every part of the shape holds.
LEMMA InitShape == Init => ShapeInv
<1> SUFFICES ASSUME Init PROVE ShapeInv
  OBVIOUS
<1>1. /\ running = <<>> /\ bound = <<>> /\ graphs = <<>> /\ scratch = NoSlot
      /\ slot = [r \in Requests |-> NoSlot] /\ output_ids = [r \in Requests |-> <<>>]
      /\ length = [r \in Requests |-> 0] /\ freeSlots = Slots
      /\ capacity = [s \in Slots |-> 0] /\ state = [s \in Slots |-> <<>>]
      /\ kv = [s \in Slots |-> [p \in Positions |-> Rough]] /\ model \in Models
  BY DEF Init
<1>2. call = [pc |-> "idle", base |-> <<>>, drafts |-> <<>>,
              canon |-> <<>>, from |-> <<>>, round |-> 1]
  BY DEF Init, Idle
<1>3. \A S : <<>> \in Seq(S) /\ DOMAIN <<>> = {} /\ Range(<<>>) = {} /\ NoDuplicates(<<>>)
  BY EmptySeq, RangeOfList
<1>4. TypeOK
  <2>1. call \in [pc : {"idle", "replay", "verify", "canon", "post", "too_wide"},
                  base : Seq(Token), drafts : Seq(Seq(Token)),
                  canon : Seq(Seq(Token)), from : Seq(Nat), round : Nat \ {0}]
    BY <1>2, <1>3
  <2>2. kv \in [Slots -> [Positions -> Seq(Token)]]
    BY <1>1, <1>3 DEF Rough
  <2> QED BY <1>1, <1>3, <2>1, <2>2 DEF TypeOK
<1>5. Members
  BY <1>1, <1>3, DecodeConstants DEF Members
<1>6. GraphShape
  BY <1>1, <1>3 DEF GraphShape
<1>7. SpecShape
  BY <1>2 DEF SpecShape
<1> QED BY <1>4, <1>5, <1>6, <1>7 DEF ShapeInv

\* A step under way is described by these fields.
LEMMA IdleTypes ==
    /\ Idle \in [pc : {"idle", "replay", "verify", "canon", "post", "too_wide"},
                 base : Seq(Token), drafts : Seq(Seq(Token)),
                 canon : Seq(Seq(Token)), from : Seq(Nat), round : Nat \ {0}]
    /\ Idle.pc = "idle" /\ Idle.round = 1
BY EmptySeq DEF Idle

\* Prefill takes a free slot for a new member.
LEMMA PrefillShape ==
    ASSUME ShapeInv, NEW r \in Requests, Prefill(r)
    PROVE  ShapeInv'
<1> DEFINE w == Prompt[r]
<1>1. PICK s \in freeSlots :
        /\ slot' = [slot EXCEPT ![r] = s]
        /\ freeSlots' = freeSlots \ {s}
        /\ capacity' = [capacity EXCEPT ![s] = BlocksFor(Len(w))]
        /\ kv' = [kv EXCEPT ![s] = [p \in Positions |->
                     IF p <= Len(w) THEN SubSeq(w, 1, p) ELSE @[p]]]
        /\ state' = [state EXCEPT ![s] = IF model.recurrent THEN w ELSE @]
        /\ bound' = <<s>>
  BY DEF Prefill
<1>2. PICK t \in Token : output_ids' = [output_ids EXCEPT ![r] = <<t>>]
  BY DEF Prefill, Sample
<1>3. /\ output_ids[r] = <<>>
      /\ length' = [length EXCEPT ![r] = Len(w)]
      /\ running' = Append(running, r)
      /\ call' = [Idle EXCEPT !.pc = "post"]
      /\ UNCHANGED <<model, graphs, scratch>>
  BY DEF Prefill
<1>4. TypeOK /\ Members /\ GraphShape
  BY DEF ShapeInv
<1>5. s \in Slots
  BY <1>4 DEF TypeOK
<1>6. w \in Seq(Token) /\ Len(w) \in Nat \ {0}
  BY <1>4, HistoryFacts
<1>7. r \notin Range(running)
  BY <1>3, <1>4 DEF Members
<1>8. /\ running' \in Seq(Requests) /\ NoDuplicates(running')
      /\ Range(running') = Range(running) \cup {r}
  BY <1>3, <1>4, <1>7, AppendFacts DEF TypeOK, Members
<1>9. TypeOK'
  <2>1. BlocksFor(Len(w)) \in Nat
    BY <1>6, BlocksCover
  <2>2. ASSUME NEW p \in Positions, p <= Len(w) PROVE SubSeq(w, 1, p) \in Seq(Token)
    <3>1. p \in 1..Len(w)
      BY <1>6, <2>2, PositionFacts
    <3> QED BY <1>6, <3>1
  <2>3. [p \in Positions |-> IF p <= Len(w) THEN SubSeq(w, 1, p) ELSE kv[s][p]]
          \in [Positions -> Seq(Token)]
    BY <1>4, <1>5, <2>2 DEF TypeOK
  <2>4. kv' \in [Slots -> [Positions -> Seq(Token)]]
    <3> HIDE DEF w
    <3> QED BY <1>1, <1>4, <2>3 DEF TypeOK
  <2>5. state' \in [Slots -> Seq(Token)]
    BY <1>1, <1>4, <1>6 DEF TypeOK
  <2>6. <<t>> \in Seq(Token)
    OBVIOUS
  <2>7. DOMAIN bound' \subseteq Nat /\ Range(bound') \subseteq Slots
    <3>1. bound' \in Seq(Slots)
      BY <1>1, <1>5
    <3> QED BY <3>1, RangeOfList
  <2>8. call' \in [pc : {"idle", "replay", "verify", "canon", "post", "too_wide"},
                   base : Seq(Token), drafts : Seq(Seq(Token)),
                   canon : Seq(Seq(Token)), from : Seq(Nat), round : Nat \ {0}]
    BY <1>3, IdleTypes
  <2>9. slot' \in [Requests -> Slots \cup {NoSlot}] /\ freeSlots' \subseteq Slots
    BY <1>1, <1>4, <1>5 DEF TypeOK
  <2>10. capacity' \in [Slots -> Nat]
    BY <1>1, <1>4, <2>1 DEF TypeOK
  <2>11. output_ids' \in [Requests -> Seq(Token)] /\ length' \in [Requests -> Nat]
    BY <1>2, <1>3, <1>4, <1>6, <2>6 DEF TypeOK
  <2>12. /\ model' \in Models /\ scratch' \in Slots \cup {NoSlot}
         /\ \A k \in DOMAIN graphs' : graphs'[k] \in [1..k[1] -> Slots]
    BY <1>3, <1>4 DEF TypeOK
  <2> QED BY <1>8, <2>4, <2>5, <2>7, <2>8, <2>9, <2>10, <2>11, <2>12 DEF TypeOK
<1>10. Members'
  <2>1. /\ slot'[r] = s /\ output_ids'[r] = <<t>> /\ length'[r] = Len(w)
        /\ \A q \in Range(running) : /\ slot'[q] = slot[q] /\ output_ids'[q] = output_ids[q]
                                     /\ length'[q] = length[q] /\ q # r
    BY <1>1, <1>2, <1>3, <1>4, <1>7, SMTT(30) DEF TypeOK
  <2>2. \A q \in Range(running) : q \in Requests
    BY <1>4, BatchFacts
  <2>3. ASSUME NEW q \in Range(running)
        PROVE  /\ slot'[q] \in Slots \ (freeSlots' \cup {scratch'}) /\ slot'[q] # s
               /\ output_ids'[q] # <<>> /\ length'[q] + 1 = Len(History(q)')
    <3>1. /\ slot[q] \in Slots /\ slot[q] \notin freeSlots /\ slot[q] # scratch
          /\ output_ids[q] # <<>> /\ length[q] + 1 = Len(History(q))
      BY <1>4 DEF Members
    <3>2. History(q)' = History(q)
      BY <2>1 DEF History
    <3> HIDE DEF w
    <3>3. slot'[q] \in Slots \ (freeSlots' \cup {scratch'}) /\ slot'[q] # s
      BY <1>1, <1>3, <2>1, <3>1
    <3>4. output_ids'[q] # <<>> /\ length'[q] + 1 = Len(History(q)')
      BY <2>1, <3>1, <3>2
    <3> QED BY <3>3, <3>4
  <2>4. length'[r] + 1 = Len(History(r)')
    <3>1. History(r)' = w \o <<t>>
      BY <2>1 DEF History
    <3>2. Len(w \o <<t>>) = Len(w) + Len(<<t>>) /\ Len(<<t>>) = 1
      <4>1. <<t>> \in Seq(Token)
        OBVIOUS
      <4> HIDE DEF w
      <4> QED BY <1>6, <4>1, ConcatProperties
    <3> QED BY <2>1, <3>1, <3>2
  <2>5. s \in Slots \ (freeSlots' \cup {scratch'}) /\ scratch' \notin freeSlots' /\ <<t>> # <<>>
    BY <1>1, <1>3, <1>4, <1>5 DEF Members
  <2>6. \A q1, q2 \in Range(running') : slot'[q1] = slot'[q2] => q1 = q2
    BY <1>4, <1>8, <2>1, <2>3 DEF Members
  <2> QED BY <1>8, <2>1, <2>3, <2>4, <2>5, <2>6 DEF Members
<1>11. GraphShape'
  BY <1>3, <1>4 DEF GraphShape, Buckets
<1>12. SpecShape'
  BY <1>3, IdleTypes DEF SpecShape
<1> QED BY <1>9, <1>10, <1>11, <1>12 DEF ShapeInv

\* postprocess takes a member and its slot away.
LEMMA FreeShape == ASSUME ShapeInv, FreeFinished PROVE ShapeInv'
<1>1. PICK i \in DOMAIN running :
        /\ running' = Without(running, i)
        /\ freeSlots' = freeSlots \cup {slot[running[i]]}
        /\ capacity' = [capacity EXCEPT ![slot[running[i]]] = 0]
  BY DEF FreeFinished
<1>2. /\ call.pc = "post"
      /\ UNCHANGED <<model, slot, output_ids, length, kv, state, bound, graphs, scratch, call>>
  BY DEF FreeFinished
<1>3. TypeOK /\ Members /\ GraphShape
  BY DEF ShapeInv
<1>4. /\ running[i] \in Range(running) /\ slot[running[i]] \in Slots
      /\ slot[running[i]] # scratch
  BY <1>3, BatchFacts DEF Members
<1>5. /\ running' \in Seq(Requests) /\ NoDuplicates(running')
      /\ Range(running') = Range(running) \ {running[i]}
  <2>1. running \in Seq(Requests) /\ NoDuplicates(running)
    BY <1>3 DEF TypeOK, Members
  <2> QED BY <1>1, <2>1, WithoutFacts, WithoutRange
<1>6. TypeOK'
  BY <1>1, <1>2, <1>3, <1>4, <1>5 DEF TypeOK
<1>7. Members'
  <2>1. \A r \in Range(running') : r \in Range(running) /\ slot[r] # slot[running[i]]
    BY <1>3, <1>4, <1>5 DEF Members
  <2>2. \A r \in Range(running') :
          /\ slot'[r] \in Slots \ (freeSlots' \cup {scratch'})
          /\ output_ids'[r] # <<>>
          /\ length'[r] + 1 = Len(History(r)')
    BY <1>1, <1>2, <1>3, <2>1 DEF Members, History
  <2>3. \A q, r \in Range(running') : slot'[q] = slot'[r] => q = r
    BY <1>2, <1>3, <2>1 DEF Members
  <2>4. scratch' \notin freeSlots'
    BY <1>1, <1>2, <1>3, <1>4 DEF Members
  <2> QED BY <1>5, <2>2, <2>3, <2>4 DEF Members
<1>8. GraphShape'
  BY <1>2, <1>3 DEF GraphShape, Buckets
<1>9. SpecShape'
  BY <1>2 DEF SpecShape
<1> QED BY <1>6, <1>7, <1>8, <1>9 DEF ShapeInv

\* Where a call is at rest, in or after one forward, only types count.
LEMMA RestShape ==
    ASSUME ShapeInv, call' \in [pc : {"idle", "post", "replay", "too_wide"},
                                base : Seq(Token), drafts : Seq(Seq(Token)),
                                canon : Seq(Seq(Token)), from : Seq(Nat), round : Nat \ {0}],
           UNCHANGED <<model, running, slot, output_ids, length, freeSlots, capacity,
                       kv, state, bound, graphs, scratch>>
    PROVE  ShapeInv'
<1>1. TypeOK'
  BY DEF ShapeInv, TypeOK
<1>2. Members'
  BY DEF ShapeInv, Members, History
<1>3. GraphShape'
  BY DEF ShapeInv, GraphShape, Buckets
<1>4. SpecShape'
  BY DEF SpecShape
<1> QED BY <1>1, <1>2, <1>3, <1>4 DEF ShapeInv

-----------------------------------------------------------------------------
(* One token for each member *)

\* What a decode forward asks of the tables.
NextRoom == Ensured(running, [i \in DOMAIN LengthsOf(running) |-> LengthsOf(running)[i] + 1])

\* The tables after a step of one token; where they fit a row, its positions
\* exist.
LEMMA StepRoom ==
    ASSUME TypeOK, Members
    PROVE  /\ NextRoom \in [Slots -> Nat]
           /\ Fits(running, NextRoom) =>
                 \A i \in DOMAIN running :
                     length[running[i]] \in Positions /\ length[running[i]] + 1 \in Positions
<1> DEFINE n == LengthsOf(running)
           m == [i \in DOMAIN n |-> n[i] + 1]
<1>1. /\ DOMAIN n = DOMAIN running
      /\ \A i \in DOMAIN running : n[i] = length[running[i]] /\ n[i] \in Nat \ {0}
      /\ \A i \in DOMAIN running : slot[running[i]] \in Slots
      /\ \A i, j \in DOMAIN running : slot[running[j]] = slot[running[i]] => j = i
  BY BatchFacts
<1> HIDE DEF n
<1>2. \A i \in DOMAIN running : m[i] \in Nat
  BY <1>1
<1>3. NextRoom = Ensured(running, m)
  BY DEF NextRoom, n
<1>4. NextRoom \in [Slots -> Nat]
  <2> HIDE DEF m
  <2> QED BY <1>1, <1>2, <1>3, EnsuredFacts DEF TypeOK
<1>5. ASSUME Fits(running, NextRoom)
      PROVE  \A i \in DOMAIN running : n[i] \in Positions /\ n[i] + 1 \in Positions
  BY <1>1, <1>3, <1>5, FitsFacts
<1> QED BY <1>1, <1>4, <1>5

\* A forward of all the members, with or without spare rows behind them.
LEMMA MemberForward ==
    ASSUME TypeOK, Members, NEW rows,
           Fits(running, NextRoom),
           DOMAIN running \subseteq DOMAIN rows,
           \A i \in DOMAIN running : rows[i] = slot[running[i]],
           Forward(LengthsOf(running), LastTokens(running), rows)
    PROVE  /\ kv' \in [Slots -> [Positions -> Seq(Token)]]
           /\ state' \in [Slots -> Seq(Token)]
           /\ \A s \in Slots : s \notin Range(rows) => kv'[s] = kv[s] /\ state'[s] = state[s]
           /\ \A i \in DOMAIN running :
                 LET s == slot[running[i]]
                     p == length[running[i]]
                     t == LastTokens(running)[i]
                 IN
                 /\ \A q \in Positions :
                       kv'[s][q] = IF q = p + 1 THEN Extend(Context(s, p, s), <<t>>) ELSE kv[s][q]
                 /\ state'[s] = IF model.recurrent THEN Append(state[s], t) ELSE state[s]
<1> DEFINE n == LengthsOf(running)
           tok == LastTokens(running)
<1>1. DOMAIN tok = DOMAIN running
  BY BatchFacts
<1>2. \A i \in DOMAIN running :
         /\ n[i] = length[running[i]] /\ n[i] \in Positions
         /\ rows[i] \in Slots /\ tok[i] \in Token
         /\ \A j \in DOMAIN running : rows[j] = rows[i] => j = i
  BY BatchFacts, StepRoom
<1>3. kv' = KVAfter(n, tok, rows) /\ state' = StateAfter(tok, rows)
  BY DEF Forward
<1> HIDE DEF n, tok
<1>4. /\ DOMAIN tok \subseteq DOMAIN rows
      /\ \A i \in DOMAIN tok : n[i] \in Positions /\ rows[i] \in Slots /\ tok[i] \in Token
  BY <1>1, <1>2
<1>5. /\ kv' \in [Slots -> [Positions -> Seq(Token)]]
      /\ state' \in [Slots -> Seq(Token)]
      /\ \A s \in Slots : s \notin Range(rows) => kv'[s] = kv[s] /\ state'[s] = state[s]
  BY <1>3, <1>4, ForwardFacts
<1>6. ASSUME NEW i \in DOMAIN running
      PROVE  LET s == slot[running[i]]
                 p == length[running[i]]
                 t == LastTokens(running)[i]
             IN
             /\ \A q \in Positions :
                   kv'[s][q] = IF q = p + 1 THEN Extend(Context(s, p, s), <<t>>) ELSE kv[s][q]
             /\ state'[s] = IF model.recurrent THEN Append(state[s], t) ELSE state[s]
  <2>1. rows[i] = slot[running[i]] /\ n[i] = length[running[i]] /\ tok[i] = LastTokens(running)[i]
    BY <1>2 DEF tok
  <2>2. \A j \in DOMAIN tok : rows[j] = rows[i] => j = i
    BY <1>1, <1>2
  <2>3. /\ \A p \in Positions : KVAfter(n, tok, rows)[rows[i]][p] =
              IF p = n[i] + 1 THEN Extend(Context(rows[i], n[i], rows[i]), <<tok[i]>>)
              ELSE kv[rows[i]][p]
        /\ StateAfter(tok, rows)[rows[i]] =
              IF model.recurrent THEN Append(state[rows[i]], tok[i]) ELSE state[rows[i]]
    BY <1>1, <1>4, <2>2, ForwardAt
  <2> QED BY <1>3, <2>1, <2>3
<1> QED BY <1>5, <1>6

\* Every member has one more token and one more position.
LEMMA AppendOne ==
    ASSUME TypeOK, Members, NEW tok \in [DOMAIN running -> Token],
           Append1(running, tok), Advance(running)
    PROVE  /\ output_ids' \in [Requests -> Seq(Token)]
           /\ length' \in [Requests -> Nat]
           /\ \A r \in Requests : r \notin Range(running) => output_ids'[r] = output_ids[r]
           /\ \A i \in DOMAIN running : \A r \in Requests : r = running[i] =>
                 /\ output_ids'[r] = Append(output_ids[r], tok[i])
                 /\ output_ids'[r] # <<>>
                 /\ History(r)' = Append(History(r), tok[i])
                 /\ length'[r] = length[r] + 1
                 /\ length'[r] + 1 = Len(History(r)')
<1> DEFINE At(r) == CHOOSE i \in DOMAIN running : running[i] = r
<1>1. /\ output_ids' = [r \in Requests |->
             IF \E i \in DOMAIN running : running[i] = r
             THEN Append(output_ids[r], tok[At(r)]) ELSE output_ids[r]]
      /\ length' = [r \in Requests |-> IF r \in Range(running) THEN length[r] + 1 ELSE length[r]]
  BY DEF Append1, Advance
<1>2. ASSUME NEW i \in DOMAIN running PROVE At(running[i]) = i
  <2>1. \A j \in DOMAIN running : running[j] = running[i] => j = i
    BY BatchFacts
  <2> QED BY <2>1
<1>3. ASSUME NEW r \in Requests, NEW i \in DOMAIN running, running[i] = r
      PROVE  At(r) \in DOMAIN running
  BY <1>3
<1>4. \A r \in Requests : output_ids[r] \in Seq(Token) /\ length[r] \in Nat
  BY DEF TypeOK
<1> HIDE DEF At
<1>5. output_ids' \in [Requests -> Seq(Token)] /\ length' \in [Requests -> Nat]
  <2>1. ASSUME NEW r \in Requests
        PROVE  IF \E i \in DOMAIN running : running[i] = r
               THEN Append(output_ids[r], tok[At(r)]) \in Seq(Token) ELSE TRUE
    BY <1>3, <1>4, AppendProperties
  <2> QED BY <1>1, <1>4, <2>1
<1>6. \A r \in Requests : r \notin Range(running) => output_ids'[r] = output_ids[r]
  <2>1. \A i \in DOMAIN running : running[i] \in Range(running)
    BY DEF Range
  <2> QED BY <1>1, <2>1
<1>7. ASSUME NEW i \in DOMAIN running, NEW r \in Requests, r = running[i]
      PROVE  /\ output_ids'[r] = Append(output_ids[r], tok[i])
             /\ output_ids'[r] # <<>>
             /\ History(r)' = Append(History(r), tok[i])
             /\ length'[r] = length[r] + 1
             /\ length'[r] + 1 = Len(History(r)')
  <2>1. r \in Range(running) /\ length[r] + 1 = Len(History(r))
    BY <1>7, BatchFacts DEF Members
  <2>2. output_ids'[r] = Append(output_ids[r], tok[i]) /\ length'[r] = length[r] + 1
    BY <1>1, <1>2, <1>7, <2>1
  <2>3. /\ History(r) \in Seq(Token) /\ output_ids[r] \in Seq(Token) /\ Prompt[r] \in Seq(Token)
        /\ tok[i] \in Token
    BY <2>1, HistoryFacts
  <2>4. History(r)' = Append(History(r), tok[i])
    <3>1. \A p, q \in Seq(Token), t \in Token : p \o Append(q, t) = Append(p \o q, t)
      BY ConcatAppend
    <3>2. Prompt[r] \o Append(output_ids[r], tok[i]) = Append(Prompt[r] \o output_ids[r], tok[i])
      BY <2>3, <3>1
    <3> QED BY <2>2, <3>2 DEF History
  <2>5. Len(Append(History(r), tok[i])) = Len(History(r)) + 1
    BY <2>3, AppendProperties
  <2>6. length'[r] + 1 = Len(History(r)')
    BY <2>1, <2>2, <2>4, <2>5
  <2>7. output_ids'[r] # <<>>
    BY <2>2, <2>3, AppendProperties
  <2> QED BY <2>2, <2>4, <2>6, <2>7
<1> QED BY <1>5, <1>6, <1>7

\* Members whose outputs have grown are members still.
LEMMA GrownMembers ==
    ASSUME Members, TypeOK, UNCHANGED <<running, slot, freeSlots, scratch>>,
           \A r \in Range(running) :
              output_ids'[r] # <<>> /\ length'[r] + 1 = Len(History(r)')
    PROVE  Members'
BY DEF Members

-----------------------------------------------------------------------------
(* Decode steps *)

CallTypes == [pc : {"idle", "replay", "verify", "canon", "post", "too_wide"},
              base : Seq(Token), drafts : Seq(Seq(Token)),
              canon : Seq(Seq(Token)), from : Seq(Nat), round : Nat \ {0}]

\* A batch that a graph is keyed for has its rows.
LEMMA KeyFacts ==
    ASSUME Key # <<0, 0>>
    PROVE  Key[1] \in Buckets /\ Key[1] \in Nat \ {0} /\ Len(running) <= Key[1]
<1> DEFINE fit == {b \in Buckets : Len(running) <= b}
           least == CHOOSE b \in fit : \A c \in fit : b <= c
<1>1. fit \subseteq Nat /\ Buckets \subseteq Nat \ {0}
  BY DecodeConstants DEF Buckets
<1>2. fit # {}
  BY DEF Key
<1>3. least \in fit
  <2> HIDE DEF fit
  <2>1. \E b \in fit : \A c \in fit : b <= c
    BY <1>1, <1>2, HasLeast
  <2> QED BY <2>1
<1>4. Key[1] = least
  <2> HIDE DEF least
  <2> QED BY <1>2 DEF Key, least
<1> HIDE DEF least
<1> QED BY <1>1, <1>3, <1>4

\* One token more for each member, whose rows are the first of `rows`.
LEMMA StepShape ==
    ASSUME ShapeInv, NEW rows, NEW tok \in [DOMAIN running -> Token],
           DOMAIN rows \subseteq Nat, Range(rows) \subseteq Slots,
           DOMAIN running \subseteq DOMAIN rows,
           \A i \in DOMAIN running : rows[i] = slot[running[i]],
           Fits(running, NextRoom), capacity' = NextRoom,
           bound' = rows \/ bound' = bound,
           Forward(LengthsOf(running), LastTokens(running), rows),
           Append1(running, tok), Advance(running),
           call' = [Idle EXCEPT !.pc = "post"],
           \A k \in DOMAIN graphs' :
              k[1] \in Buckets /\ scratch \in Slots /\ graphs'[k] \in [1..k[1] -> Slots],
           UNCHANGED <<model, running, slot, freeSlots, scratch>>
    PROVE  ShapeInv'
<1>1. TypeOK /\ Members /\ GraphShape
  BY DEF ShapeInv
<1>2. kv' \in [Slots -> [Positions -> Seq(Token)]] /\ state' \in [Slots -> Seq(Token)]
  BY <1>1, MemberForward
<1>3. capacity' \in [Slots -> Nat]
  BY <1>1, StepRoom
<1>4. /\ output_ids' \in [Requests -> Seq(Token)] /\ length' \in [Requests -> Nat]
      /\ \A i \in DOMAIN running : \A r \in Requests : r = running[i] =>
            output_ids'[r] # <<>> /\ length'[r] + 1 = Len(History(r)')
  BY <1>1, AppendOne
<1>5. DOMAIN bound' \subseteq Nat /\ Range(bound') \subseteq Slots
  BY <1>1 DEF TypeOK
<1>6. call' \in CallTypes /\ call'.pc = "post"
  BY IdleTypes DEF CallTypes
<1>7. TypeOK'
  BY <1>1, <1>2, <1>3, <1>4, <1>5, <1>6 DEF TypeOK, CallTypes
<1>8. Members'
  <2>1. \A r \in Range(running) : r \in Requests /\ \E i \in DOMAIN running : running[i] = r
    BY <1>1, BatchFacts
  <2>2. \A r \in Range(running) : output_ids'[r] # <<>> /\ length'[r] + 1 = Len(History(r)')
    BY <1>4, <2>1
  <2> QED BY <1>1, <2>2, GrownMembers
<1>9. GraphShape'
  BY DEF GraphShape, Buckets
<1>10. SpecShape'
  BY <1>6 DEF SpecShape
<1> QED BY <1>7, <1>8, <1>9, <1>10 DEF ShapeInv

\* An eager step appends a token to each member and keeps the shape.
LEMMA DecodeEagerShape == ASSUME ShapeInv, DecodeEager PROVE ShapeInv'
<1> DEFINE rows == SlotsOf(running)
<1>1. TypeOK /\ Members /\ GraphShape
  BY DEF ShapeInv
<1>2. PICK tok \in Samples(running, Contexts(LengthsOf(running), LastTokens(running), rows)) :
         Append1(running, tok)
  BY DEF DecodeEager
<1>3. /\ Fits(running, NextRoom) /\ capacity' = NextRoom /\ bound' = rows
      /\ Forward(LengthsOf(running), LastTokens(running), rows)
      /\ Advance(running) /\ call' = [Idle EXCEPT !.pc = "post"]
      /\ UNCHANGED <<model, running, slot, freeSlots, graphs, scratch>>
  BY DEF DecodeEager, NextRoom
<1>4. tok \in [DOMAIN running -> Token]
  BY <1>2 DEF Samples
<1>5. /\ DOMAIN rows = DOMAIN running /\ DOMAIN rows \subseteq Nat /\ Range(rows) \subseteq Slots
      /\ \A i \in DOMAIN running : rows[i] = slot[running[i]]
  BY <1>1, BatchFacts DEF Range
<1>6. \A k \in DOMAIN graphs' :
         k[1] \in Buckets /\ scratch \in Slots /\ graphs'[k] \in [1..k[1] -> Slots]
  BY <1>1, <1>3 DEF GraphShape, TypeOK
<1> HIDE DEF rows
<1> QED BY <1>2, <1>3, <1>4, <1>5, <1>6, StepShape

\* The rows of a graph: the members' slots, then the scratch slot.
LEMMA FilledFacts ==
    ASSUME ShapeInv, Key \in DOMAIN graphs, running # <<>>
    PROVE  LET rows == Filled(graphs[Key]) IN
           /\ rows \in [1..Key[1] -> Slots]
           /\ Range(rows) \subseteq {slot[r] : r \in Range(running)} \cup {scratch}
           /\ DOMAIN running \subseteq DOMAIN rows
           /\ \A i \in DOMAIN running : rows[i] = slot[running[i]]
           /\ Key[1] \in Buckets /\ Key[1] \in Nat \ {0} /\ scratch \in Slots
<1> DEFINE rows == Filled(graphs[Key])
<1>1. TypeOK /\ Members /\ GraphShape
  BY DEF ShapeInv
<1>2. /\ graphs[Key] \in [1..Key[1] -> Slots] /\ Key[1] \in Buckets /\ scratch \in Slots
  BY <1>1 DEF TypeOK, GraphShape
<1>3. Buckets \subseteq Nat \ {0}
  BY DecodeConstants DEF Buckets
<1>4. Key # <<0, 0>>
  BY <1>2, <1>3
<1>5. Key[1] \in Nat \ {0} /\ Len(running) <= Key[1]
  BY <1>4, KeyFacts
<1>6. rows = [i \in 1..Key[1] |-> IF i <= Len(running) THEN slot[running[i]] ELSE scratch]
  BY <1>2 DEF Filled
<1>7. /\ DOMAIN running = 1..Len(running) /\ Len(running) \in Nat
      /\ \A i \in DOMAIN running : slot[running[i]] \in Slots /\ running[i] \in Range(running)
  BY <1>1, BatchFacts
<1>8. \A i \in 1..Key[1] : i <= Len(running) => i \in DOMAIN running
  BY <1>5, <1>7
<1>9. /\ rows \in [1..Key[1] -> Slots]
      /\ Range(rows) \subseteq {slot[r] : r \in Range(running)} \cup {scratch}
  BY <1>2, <1>6, <1>7, <1>8 DEF Range
<1>10. \A i \in DOMAIN running : i \in 1..Key[1] /\ i <= Len(running)
  BY <1>5, <1>7
<1>11. /\ DOMAIN running \subseteq DOMAIN rows
       /\ \A i \in DOMAIN running : rows[i] = slot[running[i]]
  BY <1>6, <1>10
<1> QED BY <1>2, <1>5, <1>9, <1>11

\* So does a replayed graph, whose padding rows are the scratch slot's.
LEMMA ReplayShape == ASSUME ShapeInv, Replay PROVE ShapeInv'
<1> DEFINE rows == Filled(graphs[Key])
<1>1. TypeOK /\ Members /\ GraphShape
  BY DEF ShapeInv
<1>2. PICK tok \in Samples(running, Contexts(LengthsOf(running), LastTokens(running), rows)) :
         Append1(running, tok)
  BY DEF Replay
<1>3. /\ Fits(running, NextRoom) /\ capacity' = NextRoom
      /\ bound' = rows \/ bound' = bound
      /\ graphs' = [graphs EXCEPT ![Key] = rows]
      /\ Key \in DOMAIN graphs /\ running # <<>>
      /\ Forward(LengthsOf(running), LastTokens(running), rows)
      /\ Advance(running) /\ call' = [Idle EXCEPT !.pc = "post"]
      /\ UNCHANGED <<model, running, slot, freeSlots, scratch>>
  BY DEF Replay, NextRoom
<1>4. tok \in [DOMAIN running -> Token]
  BY <1>2 DEF Samples
<1>5. /\ rows \in [1..Key[1] -> Slots]
      /\ DOMAIN running \subseteq DOMAIN rows
      /\ \A i \in DOMAIN running : rows[i] = slot[running[i]]
      /\ Key[1] \in Buckets /\ Key[1] \in Nat \ {0} /\ scratch \in Slots
  BY <1>3, FilledFacts
<1> HIDE DEF rows
<1>6. DOMAIN rows \subseteq Nat /\ Range(rows) \subseteq Slots
  BY <1>5 DEF Range
<1>7. \A k \in DOMAIN graphs' :
         k[1] \in Buckets /\ scratch \in Slots /\ graphs'[k] \in [1..k[1] -> Slots]
  BY <1>1, <1>3, <1>5 DEF GraphShape, TypeOK
<1> QED BY <1>2, <1>3, <1>4, <1>5, <1>6, <1>7, StepShape

\* A capture writes to the scratch slot only, which no member has.
LEMMA CaptureFacts ==
    ASSUME ShapeInv, Capture
    PROVE  /\ scratch' \in Slots /\ scratch' \notin freeSlots'
           /\ freeSlots' \subseteq freeSlots
           /\ \A r \in Range(running) : slot[r] # scratch'
           /\ Key[1] \in Buckets /\ Key[1] \in Nat \ {0}
           /\ capacity' \in [Slots -> Nat]
           /\ kv' \in [Slots -> [Positions -> Seq(Token)]] /\ state' \in [Slots -> Seq(Token)]
           /\ \A s \in Slots : s # scratch' => kv'[s] = kv[s] /\ state'[s] = state[s]
<1> DEFINE rows == [i \in 1..Key[1] |-> scratch']
<1>1. TypeOK /\ Members /\ GraphShape
  BY DEF ShapeInv
<1>2. /\ IF scratch = NoSlot
         THEN \E s \in freeSlots :
                scratch' = s /\ freeSlots' = freeSlots \ {s} /\ capacity' = [capacity EXCEPT ![s] = 1]
         ELSE UNCHANGED <<scratch, freeSlots, capacity>>
      /\ Key # <<0, 0>>
      /\ kv' = KVAfter(<<>>, <<>>, rows) /\ state' = StateAfter(<<>>, rows)
  BY DEF Capture, GraphMiss, Forward
<1>3. /\ scratch' \in Slots /\ scratch' \notin freeSlots' /\ freeSlots' \subseteq freeSlots
      /\ \A r \in Range(running) : slot[r] # scratch'
      /\ capacity' \in [Slots -> Nat]
  <2>1. /\ scratch \in Slots \cup {NoSlot} /\ freeSlots \subseteq Slots
        /\ capacity \in [Slots -> Nat] /\ scratch \notin freeSlots
        /\ \A r \in Range(running) : slot[r] \notin freeSlots /\ slot[r] # scratch
    BY <1>1 DEF TypeOK, Members
  <2>2. CASE scratch = NoSlot
    <3>1. PICK s \in freeSlots :
            scratch' = s /\ freeSlots' = freeSlots \ {s} /\ capacity' = [capacity EXCEPT ![s] = 1]
      BY <1>2, <2>2
    <3> QED BY <2>1, <3>1
  <2>3. CASE scratch # NoSlot
    <3>1. scratch' = scratch /\ freeSlots' = freeSlots /\ capacity' = capacity
      BY <1>2, <2>3
    <3> QED BY <2>1, <2>3, <3>1
  <2> QED BY <2>2, <2>3
<1>4. Key[1] \in Buckets /\ Key[1] \in Nat \ {0}
  BY <1>2, KeyFacts
<1>5. Range(rows) = {scratch'}
  <2>1. 1 \in 1..Key[1]
    BY <1>4
  <2> QED BY <2>1 DEF Range
<1> HIDE DEF rows
<1>6. /\ KVAfter(<<>>, <<>>, rows) \in [Slots -> [Positions -> Seq(Token)]]
      /\ StateAfter(<<>>, rows) \in [Slots -> Seq(Token)]
      /\ \A s \in Slots : s \notin Range(rows) =>
            KVAfter(<<>>, <<>>, rows)[s] = kv[s] /\ StateAfter(<<>>, rows)[s] = state[s]
  <2>1. DOMAIN <<>> = {}
    OBVIOUS
  <2>2. ASSUME NEW e, e = <<>>
        PROVE  /\ KVAfter(e, e, rows) \in [Slots -> [Positions -> Seq(Token)]]
               /\ StateAfter(e, rows) \in [Slots -> Seq(Token)]
               /\ \A s \in Slots : s \notin Range(rows) =>
                     KVAfter(e, e, rows)[s] = kv[s] /\ StateAfter(e, rows)[s] = state[s]
    <3>1. DOMAIN e = {}
      BY <2>1, <2>2
    <3>2. /\ DOMAIN e \subseteq DOMAIN rows
          /\ \A i \in DOMAIN e : e[i] \in Positions /\ rows[i] \in Slots /\ e[i] \in Token
      BY <3>1
    <3> QED BY <1>1, <3>2, ForwardFacts
  <2> QED BY <2>2
<1> QED BY <1>2, <1>3, <1>4, <1>5, <1>6

\* Capturing takes the scratch slot out of the free ones.
LEMMA CaptureShape == ASSUME ShapeInv, Capture PROVE ShapeInv'
<1> DEFINE rows == [i \in 1..Key[1] |-> scratch']
<1>1. TypeOK /\ Members /\ GraphShape
  BY DEF ShapeInv
<1>2. /\ graphs' = [k \in DOMAIN graphs \cup {Key} |-> IF k = Key THEN rows ELSE graphs[k]]
      /\ bound' = rows \/ bound' = bound
      /\ call' = [Idle EXCEPT !.pc = "replay"]
      /\ UNCHANGED <<model, running, slot, output_ids, length>>
      /\ scratch # NoSlot => scratch' = scratch
  BY DEF Capture
<1>3. /\ scratch' \in Slots /\ scratch' \notin freeSlots' /\ freeSlots' \subseteq freeSlots
      /\ \A r \in Range(running) : slot[r] # scratch'
      /\ Key[1] \in Buckets /\ Key[1] \in Nat \ {0}
      /\ capacity' \in [Slots -> Nat]
      /\ kv' \in [Slots -> [Positions -> Seq(Token)]] /\ state' \in [Slots -> Seq(Token)]
  BY CaptureFacts
<1>4. rows \in [1..Key[1] -> Slots] /\ DOMAIN rows \subseteq Nat /\ Range(rows) \subseteq Slots
  BY <1>3 DEF Range
<1> HIDE DEF rows
<1>5. \A k \in DOMAIN graphs' : graphs'[k] \in [1..k[1] -> Slots] /\ k[1] \in Buckets
  BY <1>1, <1>2, <1>3, <1>4 DEF TypeOK, GraphShape
<1>6. call' \in CallTypes /\ call'.pc = "replay"
  BY <1>2, IdleTypes DEF CallTypes
<1>7. TypeOK'
  BY <1>1, <1>2, <1>3, <1>4, <1>5, <1>6 DEF TypeOK, CallTypes
<1>8. Members'
  BY <1>1, <1>2, <1>3 DEF Members, History
<1>9. GraphShape'
  BY <1>3, <1>5 DEF GraphShape, Buckets
<1>10. SpecShape'
  BY <1>6 DEF SpecShape
<1> QED BY <1>7, <1>8, <1>9, <1>10 DEF ShapeInv

-----------------------------------------------------------------------------
(* Speculative steps *)

\* The base forward leaves a token and the drafts of each member.
LEMMA SpecBaseShape == ASSUME ShapeInv, SpecBase PROVE ShapeInv'
<1> DEFINE rows == SlotsOf(running)
<1>1. TypeOK /\ Members /\ GraphShape
  BY DEF ShapeInv
<1>2. PICK base \in Samples(running, Contexts(LengthsOf(running), LastTokens(running), rows)),
           drafts \in [DOMAIN running -> [1..model.depths -> Token]] :
         call' = [Idle EXCEPT !.pc = "verify", !.base = base, !.drafts = drafts]
  BY DEF SpecBase
<1>3. /\ Fits(running, NextRoom) /\ capacity' = NextRoom /\ bound' = rows
      /\ Forward(LengthsOf(running), LastTokens(running), rows)
      /\ Speculative
      /\ UNCHANGED <<model, running, slot, output_ids, length, freeSlots, graphs, scratch>>
  BY DEF SpecBase, NextRoom
<1>4. base \in [DOMAIN running -> Token]
  BY <1>2 DEF Samples
<1>5. /\ DOMAIN rows = DOMAIN running /\ DOMAIN rows \subseteq Nat /\ Range(rows) \subseteq Slots
      /\ \A i \in DOMAIN running : rows[i] = slot[running[i]]
  BY <1>1, BatchFacts DEF Range
<1>6. kv' \in [Slots -> [Positions -> Seq(Token)]] /\ state' \in [Slots -> Seq(Token)]
  <2> HIDE DEF rows
  <2> QED BY <1>1, <1>3, <1>5, MemberForward
<1>7. /\ call'.pc = "verify" /\ call'.base = base /\ call'.drafts = drafts /\ call'.round = 1
      /\ call' \in CallTypes
  <2>1. DOMAIN running = 1..Len(running) /\ Len(running) \in Nat
    BY <1>1, BatchFacts
  <2>2. model.depths \in Nat
    BY <1>1, DecodeConstants DEF TypeOK
  <2>3. base \in Seq(Token)
    BY <1>4, <2>1
  <2>4. [1..model.depths -> Token] \subseteq Seq(Token)
    BY <2>2
  <2>5. drafts \in Seq(Seq(Token))
    <3>1. drafts \in [1..Len(running) -> Seq(Token)]
      BY <2>1, <2>4
    <3> QED BY <2>1, <3>1
  <2> QED BY <1>2, <2>3, <2>5, IdleTypes DEF CallTypes, Idle
<1>8. capacity' \in [Slots -> Nat]
  BY <1>1, <1>3, StepRoom
<1>9. DOMAIN bound' \subseteq Nat /\ Range(bound') \subseteq Slots
  BY <1>3, <1>5
<1>10. TypeOK'
  BY <1>1, <1>3, <1>6, <1>7, <1>8, <1>9 DEF TypeOK, CallTypes
<1>11. Members'
  BY <1>1, <1>3 DEF Members, History
<1>12. GraphShape'
  BY <1>1, <1>3 DEF GraphShape, Buckets
<1>13. SpecShape'
  BY <1>2, <1>3, <1>4, <1>7 DEF SpecShape, Speculative, SlotsOf
<1> QED BY <1>10, <1>11, <1>12, <1>13 DEF ShapeInv

\* Verification commits the base token and at most m drafts, in their order.
LEMMA AcceptedFacts ==
    ASSUME ShapeInv, call.pc = "verify", NEW i \in DOMAIN running, NEW m \in 0..model.depths
    PROVE  /\ VerifyIds(i) \in Seq(Token) /\ Len(VerifyIds(i)) = model.depths + 1
           /\ Accepted(i, m) \in Seq(Token)
           /\ Len(Accepted(i, m)) \in 1..m + 1
           /\ \A j \in 1..Len(Accepted(i, m)) : Accepted(i, m)[j] = VerifyIds(i)[j]
           /\ Len(output_ids[running[i]]) < MaxTokens[running[i]] =>
                 Len(output_ids[running[i]]) + Len(Accepted(i, m)) <= MaxTokens[running[i]]
<1> DEFINE v == VerifyIds(i)
           out == output_ids[running[i]]
           most == MaxTokens[running[i]]
           left == most - Len(out)
           k == MaxOf({1, IF m + 1 <= left THEN m + 1 ELSE left})
<1>1. TypeOK /\ Members /\ SpecShape
  BY DEF ShapeInv
<1>2. model.depths \in Nat
  BY <1>1, DecodeConstants DEF TypeOK
<1>3. running[i] \in Requests
  BY <1>1, BatchFacts
<1>4. Len(out) \in Nat /\ most \in Nat
  BY <1>1, <1>3, DecodeConstants, HistoryFacts
<1>5. v \in Seq(Token) /\ Len(v) = model.depths + 1
  <2>1. call.base[i] \in Token /\ call.drafts[i] \in [1..model.depths -> Token]
    BY <1>1 DEF SpecShape
  <2>2. /\ <<call.base[i]>> \in Seq(Token) /\ Len(<<call.base[i]>>) = 1
        /\ call.drafts[i] \in Seq(Token) /\ Len(call.drafts[i]) = model.depths
    BY <1>2, <2>1
  <2> QED BY <1>2, <2>2, ConcatProperties DEF VerifyIds
<1>6. k \in 1..m + 1 /\ (Len(out) < most => Len(out) + k <= most)
  <2>1. left \in Int /\ m + 1 \in Int /\ m + 1 >= 1
    BY <1>2, <1>4
  <2>2. \A l \in Int : MaxOf({1, l}) = IF 1 <= l THEN l ELSE 1
    BY Larger
  <2>3. k = IF 1 <= (IF m + 1 <= left THEN m + 1 ELSE left)
            THEN (IF m + 1 <= left THEN m + 1 ELSE left) ELSE 1
    <3> HIDE DEF left
    <3> QED BY <2>1, <2>2
  <2> HIDE DEF k
  <2> QED BY <1>2, <1>4, <2>1, <2>3
<1>7. Accepted(i, m) = SubSeq(v, 1, k)
  BY DEF Accepted
<1> HIDE DEF v, k, left
<1>8. k \in 1..Len(v)
  BY <1>2, <1>5, <1>6
<1>9. /\ SubSeq(v, 1, k) \in Seq(Token) /\ Len(SubSeq(v, 1, k)) = k
      /\ \A j \in 1..k : SubSeq(v, 1, k)[j] = v[j]
  BY <1>5, <1>8
<1>10. /\ VerifyIds(i) = v
  BY DEF v
<1> QED BY <1>5, <1>6, <1>7, <1>9, <1>10

\* What a verify forward and the commitment do.
LEMMA VerifyFacts ==
    ASSUME ShapeInv, SpecVerify
    PROVE  \E m \in [DOMAIN running -> 0..model.depths] :
             /\ \A i \in DOMAIN running : m[i] \in Verdicts(i)
             /\ \A i \in DOMAIN running : \A r \in Requests : r = running[i] =>
                   /\ output_ids'[r] = output_ids[r] \o Accepted(i, m[i])
                   /\ length'[r] = length[r] + Len(Accepted(i, m[i]))
             /\ call' = [call EXCEPT !.pc = "canon",
                    !.canon = [i \in DOMAIN running |-> Intermediate(Accepted(i, m[i]))],
                    !.from = [i \in DOMAIN running |-> length[running[i]] + 1]]
             /\ output_ids' \in [Requests -> Seq(Token)]
             /\ length' \in [Requests -> Nat]
             /\ \A r \in Requests : r \notin Range(running) => output_ids'[r] = output_ids[r]
<1> DEFINE n == LengthsOf(running)
           Index(r) == CHOOSE i \in DOMAIN running : running[i] = r
<1>1. TypeOK /\ Members
  BY DEF ShapeInv
<1>2. call.pc = "verify"
  BY DEF SpecVerify
<1>3. PICK m \in [DOMAIN running -> 0..model.depths] :
        /\ \A i \in DOMAIN running : m[i] \in Verdicts(i)
        /\ LET new == [i \in DOMAIN running |-> Accepted(i, m[i])] IN
            /\ output_ids' = [r \in Requests |->
                   IF r \in Range(running) THEN output_ids[r] \o new[Index(r)] ELSE output_ids[r]]
            /\ length' = [r \in Requests |->
                   IF r \in Range(running) THEN length[r] + Len(new[Index(r)]) ELSE length[r]]
            /\ call' = [call EXCEPT !.pc = "canon",
                   !.canon = [i \in DOMAIN running |-> Intermediate(new[i])],
                   !.from = [i \in DOMAIN running |-> n[i] + 1]]
  BY DEF SpecVerify
<1> DEFINE new == [i \in DOMAIN running |-> Accepted(i, m[i])]
<1>4. \A i \in DOMAIN running : new[i] = Accepted(i, m[i]) /\ n[i] = length[running[i]]
  BY <1>1, BatchFacts
<1>5. \A i \in DOMAIN running : new[i] \in Seq(Token) /\ Len(new[i]) \in Nat
  BY <1>2, AcceptedFacts
<1>6. ASSUME NEW r \in Range(running)
      PROVE  Index(r) \in DOMAIN running /\ running[Index(r)] = r
  <2>1. \E i \in DOMAIN running : running[i] = r
    BY <1>1, <1>6, BatchFacts
  <2> QED BY <2>1
<1>7. ASSUME NEW i \in DOMAIN running, NEW r \in Requests, r = running[i]
      PROVE  Index(r) = i /\ r \in Range(running)
  <2>1. /\ \A j \in DOMAIN running : running[j] = running[i] => j = i
        /\ r \in Range(running)
    BY <1>1, <1>7, BatchFacts
  <2> QED BY <1>6, <1>7, <2>1
<1> HIDE DEF Index, n, new
<1>8. /\ output_ids' = [r \in Requests |->
             IF r \in Range(running) THEN output_ids[r] \o new[Index(r)] ELSE output_ids[r]]
      /\ length' = [r \in Requests |->
             IF r \in Range(running) THEN length[r] + Len(new[Index(r)]) ELSE length[r]]
      /\ call' = [call EXCEPT !.pc = "canon",
             !.canon = [i \in DOMAIN running |-> Intermediate(new[i])],
             !.from = [i \in DOMAIN running |-> n[i] + 1]]
  BY <1>3 DEF new
<1>9. /\ [i \in DOMAIN running |-> Intermediate(new[i])]
           = [i \in DOMAIN running |-> Intermediate(Accepted(i, m[i]))]
      /\ [i \in DOMAIN running |-> n[i] + 1]
           = [i \in DOMAIN running |-> length[running[i]] + 1]
  BY <1>4
<1>10. output_ids' \in [Requests -> Seq(Token)]
  <2>1. ASSUME NEW r \in Requests
        PROVE  (IF r \in Range(running) THEN output_ids[r] \o new[Index(r)] ELSE output_ids[r])
                  \in Seq(Token)
    <3>1. output_ids[r] \in Seq(Token)
      BY <1>1 DEF TypeOK
    <3>2. CASE r \in Range(running)
      <4>1. new[Index(r)] \in Seq(Token)
        BY <1>5, <1>6, <3>2
      <4> QED BY <3>1, <3>2, <4>1, ConcatProperties
    <3> QED BY <3>1, <3>2
  <2> QED BY <1>8, <2>1
<1>11. length' \in [Requests -> Nat]
  <2>1. \A r \in Requests : length[r] \in Nat
    BY <1>1 DEF TypeOK
  <2>2. \A r \in Requests :
           r \in Range(running) => Len(new[Index(r)]) \in Nat
    BY <1>5, <1>6
  <2> QED BY <1>8, <2>1, <2>2
<1>12. /\ \A i \in DOMAIN running : \A r \in Requests : r = running[i] =>
             /\ output_ids'[r] = output_ids[r] \o Accepted(i, m[i])
             /\ length'[r] = length[r] + Len(Accepted(i, m[i]))
       /\ \A r \in Requests : r \notin Range(running) => output_ids'[r] = output_ids[r]
  BY <1>4, <1>7, <1>8
<1>13. call' = [call EXCEPT !.pc = "canon",
             !.canon = [i \in DOMAIN running |-> Intermediate(Accepted(i, m[i]))],
             !.from = [i \in DOMAIN running |-> length[running[i]] + 1]]
  BY <1>8, <1>9
<1> QED BY <1>3, <1>10, <1>11, <1>12, <1>13

\* What a verify forward asks of the tables.
RoomToVerify == Ensured(running, [i \in DOMAIN LengthsOf(running) |-> VerifyRoom(LengthsOf(running)[i])])

\* The tables a verify forward asks for hold all it writes.
LEMMA VerifyRoomFacts ==
    ASSUME TypeOK, Members
    PROVE  /\ RoomToVerify \in [Slots -> Nat]
           /\ \A i \in DOMAIN running :
                 length[running[i]] + model.depths + 2 <= RoomToVerify[slot[running[i]]] * BlockSize
<1> DEFINE n == LengthsOf(running)
           m == [i \in DOMAIN n |-> VerifyRoom(n[i])]
<1>1. model.depths \in Nat
  BY DecodeConstants DEF TypeOK
<1>2. /\ DOMAIN n = DOMAIN running
      /\ \A i \in DOMAIN running : n[i] = length[running[i]] /\ n[i] \in Nat
      /\ \A i \in DOMAIN running : slot[running[i]] \in Slots
      /\ \A i, j \in DOMAIN running : slot[running[j]] = slot[running[i]] => j = i
  BY BatchFacts
<1> HIDE DEF n
<1>3. \A i \in DOMAIN running : m[i] = length[running[i]] + model.depths + 2 /\ m[i] \in Nat
  BY <1>1, <1>2 DEF VerifyRoom
<1>4. RoomToVerify = Ensured(running, m)
  BY DEF RoomToVerify, n
<1> HIDE DEF m
<1>5. /\ RoomToVerify \in [Slots -> Nat]
      /\ \A i \in DOMAIN running : BlocksFor(m[i]) <= RoomToVerify[slot[running[i]]]
  BY <1>2, <1>3, <1>4, EnsuredFacts DEF TypeOK
<1>6. ASSUME NEW i \in DOMAIN running
      PROVE  m[i] <= RoomToVerify[slot[running[i]]] * BlockSize
  <2>1. RoomToVerify[slot[running[i]]] \in Nat
    BY <1>2, <1>5
  <2> QED BY <1>3, <1>5, <2>1, BlocksCover
<1> QED BY <1>3, <1>5, <1>6

\* Verification appends one token or more to each member.
LEMMA SpecVerifyShape == ASSUME ShapeInv, SpecVerify PROVE ShapeInv'
<1> DEFINE Fed(s) == CHOOSE i \in DOMAIN running : bound[i] = s
           n == LengthsOf(running)
           Row(s) == CHOOSE i \in DOMAIN running : slot[running[i]] = s
<1>1. TypeOK /\ Members /\ GraphShape /\ SpecShape
  BY DEF ShapeInv
<1>2. /\ call.pc = "verify" /\ capacity' = RoomToVerify
      /\ kv' = [s \in Slots |-> [p \in Positions |->
                 IF s \in Range(SlotsOf(running)) /\ p - n[Row(s)] \in 2..model.depths + 2
                 THEN Rough ELSE kv[s][p]]]
      /\ state' = [s \in Slots |->
                 IF model.recurrent /\ s \in Range(bound)
                 THEN state[s] \o VerifyIds(Fed(s)) ELSE state[s]]
      /\ UNCHANGED <<model, running, slot, freeSlots, bound, graphs, scratch>>
  BY DEF SpecVerify, RoomToVerify
<1>3. /\ bound = SlotsOf(running) /\ Speculative /\ model.depths \in Nat
      /\ DOMAIN running = 1..Len(running) /\ Len(running) \in Nat
  BY <1>1, <1>2, BatchFacts, DecodeConstants DEF SpecShape, TypeOK
<1>4. PICK m \in [DOMAIN running -> 0..model.depths] :
        /\ \A i \in DOMAIN running : \A r \in Requests : r = running[i] =>
              /\ output_ids'[r] = output_ids[r] \o Accepted(i, m[i])
              /\ length'[r] = length[r] + Len(Accepted(i, m[i]))
        /\ call' = [call EXCEPT !.pc = "canon",
               !.canon = [i \in DOMAIN running |-> Intermediate(Accepted(i, m[i]))],
               !.from = [i \in DOMAIN running |-> length[running[i]] + 1]]
        /\ output_ids' \in [Requests -> Seq(Token)]
        /\ length' \in [Requests -> Nat]
  BY VerifyFacts
<1>5. \A i \in DOMAIN running :
         Accepted(i, m[i]) \in Seq(Token) /\ Len(Accepted(i, m[i])) \in Nat \ {0}
  <2>1. \A i \in DOMAIN running : m[i] \in 0..model.depths
    OBVIOUS
  <2>2. \A i \in DOMAIN running :
           Accepted(i, m[i]) \in Seq(Token) /\ Len(Accepted(i, m[i])) \in 1..m[i] + 1
    BY <1>2, <2>1, AcceptedFacts
  <2> QED BY <1>3, <2>1, <2>2
<1>6. \A i \in DOMAIN running : Intermediate(Accepted(i, m[i])) \in Seq(Token)
  <2>1. ASSUME NEW a \in Seq(Token), Len(a) \in Nat \ {0}
        PROVE  Intermediate(a) \in Seq(Token)
    <3>1. \A j \in 1..Len(a) - 1 : a[j] \in Token
      OBVIOUS
    <3>2. 1 \in Int /\ Len(a) - 1 \in Int
      OBVIOUS
    <3> QED BY <3>1, <3>2, SubSeqProperties DEF Intermediate
  <2> QED BY <1>5, <2>1
<1>7. /\ kv' \in [Slots -> [Positions -> Seq(Token)]]
  <2>1. Rough \in Seq(Token)
    BY EmptySeq DEF Rough
  <2> HIDE DEF n, Row
  <2> QED BY <1>1, <1>2, <2>1 DEF TypeOK
<1>8. state' \in [Slots -> Seq(Token)]
  <2>1. ASSUME NEW s \in Range(bound) PROVE VerifyIds(Fed(s)) \in Seq(Token)
    <3>1. \E i \in DOMAIN running : bound[i] = s
      BY <1>1, <1>3, <2>1, BatchFacts DEF Range
    <3>2. Fed(s) \in DOMAIN running
      BY <3>1
    <3>3. 0 \in 0..model.depths
      BY <1>3
    <3> HIDE DEF Fed
    <3> QED BY <1>2, <3>2, <3>3, AcceptedFacts
  <2> HIDE DEF Fed
  <2>2. \A s \in Slots : s \in Range(bound) => state[s] \o VerifyIds(Fed(s)) \in Seq(Token)
    BY <1>1, <2>1, ConcatProperties DEF TypeOK
  <2> QED BY <1>1, <1>2, <2>2 DEF TypeOK
<1>9. call' \in CallTypes /\ call'.pc = "canon"
      /\ call'.canon \in [DOMAIN running -> Seq(Token)]
      /\ call'.from \in [DOMAIN running -> Nat \ {0}]
  <2> DEFINE c == [i \in DOMAIN running |-> Intermediate(Accepted(i, m[i]))]
             f == [i \in DOMAIN running |-> length[running[i]] + 1]
  <2>1. c \in [DOMAIN running -> Seq(Token)] /\ f \in [DOMAIN running -> Nat \ {0}]
    BY <1>1, <1>6, BatchFacts
  <2> HIDE DEF c, f
  <2>2. c \in Seq(Seq(Token)) /\ f \in Seq(Nat)
    <3>1. c \in [1..Len(running) -> Seq(Token)] /\ f \in [1..Len(running) -> Nat]
      BY <1>3, <2>1
    <3>2. \A S, k : k \in Nat => \A g \in [1..k -> S] : g \in Seq(S)
      OBVIOUS
    <3> QED BY <1>3, <3>1, <3>2
  <2>3. call \in CallTypes
    BY <1>1 DEF TypeOK, CallTypes
  <2>4. call' = [call EXCEPT !.pc = "canon", !.canon = c, !.from = f]
    BY <1>4 DEF c, f
  <2> QED BY <2>1, <2>2, <2>3, <2>4 DEF CallTypes
<1>10. TypeOK'
  <2>1. capacity' \in [Slots -> Nat]
    BY <1>1, <1>2, VerifyRoomFacts
  <2> HIDE DEF Fed, n, Row
  <2> QED BY <1>1, <1>2, <1>4, <1>7, <1>8, <1>9, <2>1 DEF TypeOK, CallTypes
<1>11. Members'
  <2>1. ASSUME NEW i \in DOMAIN running, NEW r, r = running[i]
        PROVE  output_ids'[r] # <<>> /\ length'[r] + 1 = Len(History(r)')
    <3>1. r \in Requests /\ r \in Range(running) /\ length[r] \in Nat
      BY <1>1, <2>1, BatchFacts
    <3>2. /\ output_ids[r] \in Seq(Token) /\ Prompt[r] \in Seq(Token)
          /\ length[r] + 1 = Len(Prompt[r]) + Len(output_ids[r])
      BY <1>1, <3>1, HistoryFacts DEF Members
    <3> DEFINE a == Accepted(i, m[i])
    <3>3. output_ids'[r] = output_ids[r] \o a /\ length'[r] = length[r] + Len(a)
      BY <1>4, <2>1, <3>1
    <3>4. a \in Seq(Token) /\ Len(a) \in Nat \ {0}
      BY <1>5
    <3> HIDE DEF a
    <3>5. /\ output_ids'[r] \in Seq(Token)
          /\ Len(output_ids'[r]) = Len(output_ids[r]) + Len(a)
      BY <3>2, <3>3, <3>4, ConcatProperties
    <3>6. Len(Prompt[r] \o output_ids'[r]) = Len(Prompt[r]) + Len(output_ids'[r])
      <4>1. \A p, q \in Seq(Token) : Len(p \o q) = Len(p) + Len(q)
        BY ConcatProperties
      <4> QED BY <3>2, <3>5, <4>1
    <3>7. Len(output_ids[r]) \in Nat /\ Len(Prompt[r]) \in Nat
      BY <3>2
    <3>8. Len(output_ids'[r]) > 0
      BY <3>4, <3>5, <3>7
    <3>9. output_ids'[r] # <<>>
      BY <3>5, <3>8
    <3>10. length'[r] + 1 = Len(Prompt[r] \o output_ids'[r])
      <4> DEFINE x == length[r]
                 y == Len(Prompt[r])
                 z == Len(output_ids[r])
                 d == Len(a)
      <4>1. x \in Nat /\ y \in Nat /\ z \in Nat /\ d \in Nat /\ x + 1 = y + z
        BY <3>1, <3>2, <3>4, <3>7
      <4>2. length'[r] = x + d /\ Len(Prompt[r] \o output_ids'[r]) = y + (z + d)
        BY <3>3, <3>5, <3>6
      <4> HIDE DEF x, y, z, d
      <4>3. (x + d) + 1 = y + (z + d)
        BY <4>1
      <4> QED BY <4>2, <4>3
    <3> QED BY <3>9, <3>10 DEF History
  <2>2. \A r \in Range(running) : \E i \in DOMAIN running : r = running[i]
    BY <1>1, BatchFacts
  <2> QED BY <1>1, <1>2, <2>1, <2>2, GrownMembers
<1>12. GraphShape'
  BY <1>1, <1>2 DEF GraphShape, Buckets
<1>13. SpecShape'
  BY <1>2, <1>3, <1>9 DEF SpecShape, Speculative
<1> QED BY <1>10, <1>11, <1>12, <1>13 DEF ShapeInv

\* A round of _canonicalize_accepted_kv writes the next position of the rows
\* that have another token.
LEMMA CanonFacts ==
    ASSUME ShapeInv, Canonicalize
    PROVE  /\ capacity' \in [Slots -> Nat] /\ \A s \in Slots : capacity[s] <= capacity'[s]
           /\ kv' \in [Slots -> [Positions -> Seq(Token)]] /\ state' \in [Slots -> Seq(Token)]
           /\ \A s \in Slots : (\A i \in CanonRows : slot[running[i]] # s) =>
                 kv'[s] = kv[s] /\ state'[s] = state[s]
           /\ DOMAIN bound' \subseteq Nat /\ Range(bound') \subseteq Slots
           /\ CanonRows \subseteq DOMAIN running
           /\ \A i \in CanonRows :
                 LET s == slot[running[i]]
                     p == call.from[i] + call.round - 1
                 IN
                 /\ p \in Positions /\ p + 1 \in Positions
                 /\ \A q \in Positions : kv'[s][q] =
                       IF q = p + 1 THEN Extend(Context(s, p, s), <<call.canon[i][call.round]>>)
                       ELSE kv[s][q]
<1> DEFINE batch == [i \in CanonRows |-> running[i]]
           n     == [i \in CanonRows |-> call.from[i] + call.round - 1]
           tok   == [i \in CanonRows |-> call.canon[i][call.round]]
           rows  == SlotsOf(batch)
           more  == [i \in CanonRows |-> n[i] + 1]
           room  == Ensured(batch, more)
<1>1. TypeOK /\ Members /\ SpecShape
  BY DEF ShapeInv
<1>2. /\ call.pc = "canon" /\ Fits(batch, room) /\ capacity' = room /\ bound' = rows
      /\ kv' = KVAfter(n, tok, rows) /\ state' = StateAfter(tok, rows)
  BY DEF Canonicalize, Forward
<1>3. /\ call.round \in Nat \ {0}
      /\ call.canon \in [DOMAIN running -> Seq(Token)]
      /\ call.from \in [DOMAIN running -> Nat \ {0}]
      /\ CanonRows \subseteq DOMAIN running
      /\ \A i \in CanonRows : call.round <= Len(call.canon[i])
  BY <1>1, <1>2 DEF SpecShape, TypeOK, CanonRows
<1>4. /\ DOMAIN batch = CanonRows /\ DOMAIN n = CanonRows /\ DOMAIN tok = CanonRows
      /\ DOMAIN rows = CanonRows
      /\ \A i \in CanonRows : /\ batch[i] = running[i] /\ rows[i] = slot[running[i]]
                              /\ n[i] = call.from[i] + call.round - 1
                              /\ tok[i] = call.canon[i][call.round]
  BY DEF SlotsOf
<1>5. \A i \in CanonRows : /\ n[i] \in Nat \ {0} /\ more[i] \in Nat
                           /\ slot[running[i]] \in Slots
  BY <1>1, <1>3, BatchFacts
<1>6. \A i, j \in CanonRows : slot[running[j]] = slot[running[i]] => j = i
  BY <1>1, <1>3, BatchFacts
<1>7. \A i \in CanonRows : tok[i] \in Token
  <2>1. ASSUME NEW i \in CanonRows PROVE call.canon[i][call.round] \in Token
    <3>1. call.canon[i] \in Seq(Token) /\ call.round \in 1..Len(call.canon[i])
      BY <1>3
    <3> QED BY <3>1
  <2> QED BY <2>1
<1>8. more = [i \in DOMAIN n |-> n[i] + 1]
  BY <1>4
<1> HIDE DEF batch, n, tok, rows, more
<1>9. \A i \in CanonRows : n[i] \in Positions /\ n[i] + 1 \in Positions
  <2>1. \A i \in DOMAIN batch : slot[batch[i]] \in Slots /\ n[i] \in Nat \ {0}
    BY <1>4, <1>5
  <2>2. \A i, j \in DOMAIN batch : slot[batch[j]] = slot[batch[i]] => j = i
    BY <1>4, <1>6
  <2>3. \A i \in DOMAIN batch : n[i] \in Positions /\ n[i] + 1 \in Positions
    BY <1>1, <1>2, <1>4, <1>8, <2>1, <2>2, FitsFacts
  <2> QED BY <1>4, <2>3
<1>10. room \in [Slots -> Nat] /\ \A s \in Slots : capacity[s] <= room[s]
  <2>1. \A i \in DOMAIN batch : slot[batch[i]] \in Slots /\ more[i] \in Nat
    BY <1>4, <1>5
  <2> QED BY <1>1, <2>1, EnsuredFacts DEF TypeOK
<1>11. /\ DOMAIN tok \subseteq DOMAIN rows
       /\ \A i \in DOMAIN tok : n[i] \in Positions /\ rows[i] \in Slots /\ tok[i] \in Token
       /\ \A i \in DOMAIN tok : \A j \in DOMAIN tok : rows[j] = rows[i] => j = i
  BY <1>4, <1>5, <1>6, <1>7, <1>9
<1>12. /\ kv' \in [Slots -> [Positions -> Seq(Token)]]
       /\ state' \in [Slots -> Seq(Token)]
       /\ \A s \in Slots : s \notin Range(rows) => kv'[s] = kv[s] /\ state'[s] = state[s]
  BY <1>1, <1>2, <1>11, ForwardFacts
<1>13. \A s : (\A i \in CanonRows : slot[running[i]] # s) => s \notin Range(rows)
  BY <1>4 DEF Range
<1>14. DOMAIN rows \subseteq Nat /\ Range(rows) \subseteq Slots
  <2>1. DOMAIN running \subseteq Nat
    BY <1>1, BatchFacts
  <2>2. DOMAIN rows = CanonRows /\ CanonRows \subseteq DOMAIN running
        /\ \A i \in CanonRows : rows[i] \in Slots
    BY <1>3, <1>4, <1>5
  <2> QED BY <2>1, <2>2 DEF Range
<1>15. ASSUME NEW i \in CanonRows
       PROVE  \A q \in Positions : kv'[rows[i]][q] =
                 IF q = n[i] + 1 THEN Extend(Context(rows[i], n[i], rows[i]), <<tok[i]>>)
                 ELSE kv[rows[i]][q]
  <2>1. /\ i \in DOMAIN tok /\ n[i] \in Positions /\ rows[i] \in Slots /\ tok[i] \in Token
        /\ \A j \in DOMAIN tok : rows[j] = rows[i] => j = i
    BY <1>4, <1>11
  <2> QED BY <1>1, <1>2, <2>1, ForwardAt
<1>16. ASSUME NEW i \in CanonRows
       PROVE  LET s == slot[running[i]]
                  p == call.from[i] + call.round - 1
              IN
              /\ p \in Positions /\ p + 1 \in Positions
              /\ \A q \in Positions : kv'[s][q] =
                    IF q = p + 1 THEN Extend(Context(s, p, s), <<call.canon[i][call.round]>>)
                    ELSE kv[s][q]
  <2>1. /\ rows[i] = slot[running[i]] /\ n[i] = call.from[i] + call.round - 1
        /\ tok[i] = call.canon[i][call.round]
    BY <1>4
  <2>2. n[i] \in Positions /\ n[i] + 1 \in Positions
    BY <1>9
  <2> DEFINE s == slot[running[i]]
             p == call.from[i] + call.round - 1
             t == call.canon[i][call.round]
  <2>3. rows[i] = s /\ n[i] = p /\ tok[i] = t
    BY <2>1
  <2> HIDE DEF s, p, t
  <2>4. /\ p \in Positions /\ p + 1 \in Positions
        /\ \A q \in Positions : kv'[s][q] =
              IF q = p + 1 THEN Extend(Context(s, p, s), <<t>>) ELSE kv[s][q]
    BY <1>15, <2>2, <2>3
  <2> QED BY <2>4 DEF s, p, t
<1> QED BY <1>2, <1>3, <1>10, <1>12, <1>13, <1>14, <1>16

\* A round of the rewrite leaves batch and outputs alone.
LEMMA CanonicalizeShape == ASSUME ShapeInv, Canonicalize PROVE ShapeInv'
<1>1. TypeOK /\ Members /\ GraphShape /\ SpecShape
  BY DEF ShapeInv
<1>2. /\ call.pc = "canon" /\ call' = [call EXCEPT !.round = @ + 1]
      /\ UNCHANGED <<model, running, slot, output_ids, length, freeSlots, graphs, scratch>>
  BY DEF Canonicalize
<1>3. call' \in CallTypes /\ call'.pc = "canon" /\ call'.canon = call.canon /\ call'.from = call.from
  <2>1. call \in CallTypes
    BY <1>1 DEF TypeOK, CallTypes
  <2>2. call.round + 1 \in Nat \ {0}
    BY <2>1 DEF CallTypes
  <2> DEFINE k == call.round + 1
  <2>3. call' = [call EXCEPT !.round = k] /\ k \in Nat \ {0}
    BY <1>2, <2>2
  <2> HIDE DEF k
  <2> QED BY <1>2, <2>1, <2>3 DEF CallTypes
<1>4. /\ capacity' \in [Slots -> Nat]
      /\ kv' \in [Slots -> [Positions -> Seq(Token)]] /\ state' \in [Slots -> Seq(Token)]
      /\ DOMAIN bound' \subseteq Nat /\ Range(bound') \subseteq Slots
  BY CanonFacts
<1>5. TypeOK'
  BY <1>1, <1>2, <1>3, <1>4 DEF TypeOK, CallTypes
<1>6. Members'
  BY <1>1, <1>2 DEF Members, History
<1>7. GraphShape'
  BY <1>1, <1>2 DEF GraphShape, Buckets
<1>8. SpecShape'
  BY <1>1, <1>2, <1>3 DEF SpecShape
<1> QED BY <1>5, <1>6, <1>7, <1>8 DEF ShapeInv

\* Every step keeps types, members, graphs and steps under way.
LEMMA NextShape == ASSUME ShapeInv, [Next]_vars PROVE ShapeInv'
<1>1. CASE \E r \in Requests : Prefill(r)
  BY <1>1, PrefillShape
<1>2. CASE FreeFinished
  BY <1>2, FreeShape
<1>3. CASE Postprocessed
  BY <1>3, IdleTypes, RestShape DEF Postprocessed
<1>4. CASE DecodeEager
  BY <1>4, DecodeEagerShape
<1>5. CASE Capture
  BY <1>5, CaptureShape
<1>6. CASE Replay
  BY <1>6, ReplayShape
<1>7. CASE SpecBase
  BY <1>7, SpecBaseShape
<1>8. CASE SpecVerify
  BY <1>8, SpecVerifyShape
<1>9. CASE Canonicalize
  BY <1>9, CanonicalizeShape
<1>10. CASE CanonicalizeDone
  BY <1>10, IdleTypes, RestShape DEF CanonicalizeDone
<1>11. CASE TooWide
  BY <1>11, IdleTypes, RestShape DEF TooWide
<1>12. CASE UNCHANGED vars
  <2>1. /\ UNCHANGED <<model, running, slot, output_ids, length, freeSlots, capacity>>
        /\ UNCHANGED <<kv, state, bound, graphs, scratch, call>>
    BY <1>12 DEF vars
  <2>2. TypeOK'
    BY <2>1 DEF ShapeInv, TypeOK
  <2>3. Members' /\ GraphShape'
    BY <2>1 DEF ShapeInv, Members, GraphShape, History, Buckets
  <2>4. SpecShape'
    BY <2>1 DEF ShapeInv, SpecShape, Speculative, SlotsOf
  <2> QED BY <2>2, <2>3, <2>4 DEF ShapeInv
<1> QED BY <1>1, <1>2, <1>3, <1>4, <1>5, <1>6, <1>7, <1>8, <1>9, <1>10, <1>11, <1>12 DEF Next

\* Types, members, graphs and steps under way keep their shape.
THEOREM ShapeHolds == Spec => []ShapeInv
<1>1. Init => ShapeInv
  BY InitShape
<1>2. ShapeInv /\ [Next]_vars => ShapeInv'
  BY NextShape
<1> QED BY <1>1, <1>2, PTL DEF Spec

\* The variables have their types in every reachable state.
THEOREM DecodeTypesHold == Spec => []TypeOK
<1>1. ShapeInv => TypeOK
  BY DEF ShapeInv
<1> QED BY <1>1, ShapeHolds, PTL

-----------------------------------------------------------------------------
(* Writes stay within the batch *)

\* The slots that a step may write.
Writable == {slot[r] : r \in Range(running)} \cup {scratch}

\* A step writes the slots of members and the scratch slot.
Confined == \A s \in Slots : kv'[s] # kv[s] \/ state'[s] # state[s] => s \in Writable'

\* Where nobody joins or leaves, and the scratch slot stays, it is enough that
\* the batch's rows are writable.
LEMMA ConfinedTo ==
    ASSUME NEW W, W \subseteq Writable,
           \A s \in Slots : s \notin W => kv'[s] = kv[s] /\ state'[s] = state[s],
           UNCHANGED <<running, slot, scratch>>
    PROVE  Confined
BY DEF Confined, Writable

\* A prefill writes the slot it has just taken.
LEMMA PrefillConfined == ASSUME ShapeInv, NEW r \in Requests, Prefill(r) PROVE Confined
<1>1. PICK s \in freeSlots :
        /\ slot' = [slot EXCEPT ![r] = s]
        /\ kv' = [kv EXCEPT ![s] = [p \in Positions |->
                     IF p <= Len(Prompt[r]) THEN SubSeq(Prompt[r], 1, p) ELSE @[p]]]
        /\ state' = [state EXCEPT ![s] = IF model.recurrent THEN Prompt[r] ELSE @]
  BY DEF Prefill
<1>2. running' = Append(running, r)
  BY DEF Prefill
<1>3. TypeOK
  BY DEF ShapeInv
<1>4. r \in Range(running')
  <2>1. running \in Seq(Requests)
    BY <1>3 DEF TypeOK
  <2> QED BY <1>2, <2>1, AppendFacts
<1>5. slot'[r] = s
  BY <1>1, <1>3 DEF TypeOK
<1>6. ASSUME NEW u \in Slots, u # s PROVE kv'[u] = kv[u] /\ state'[u] = state[u]
  BY <1>1, <1>3, <1>6 DEF TypeOK
<1> QED BY <1>4, <1>5, <1>6 DEF Confined, Writable

\* Every step of Decode writes slots of members or the scratch slot.
LEMMA NextConfined == ASSUME ShapeInv, [Next]_vars PROVE Confined
<1>1. TypeOK /\ Members /\ GraphShape /\ SpecShape
  BY DEF ShapeInv
<1>2. Range(SlotsOf(running)) \subseteq Writable
  BY <1>1, BatchFacts DEF Writable
<1>3. /\ DOMAIN SlotsOf(running) = DOMAIN running
      /\ \A i \in DOMAIN running : SlotsOf(running)[i] = slot[running[i]]
  BY <1>1, BatchFacts
<1>4. ASSUME UNCHANGED <<kv, state>> PROVE Confined
  BY <1>4 DEF Confined
<1>5. CASE \E r \in Requests : Prefill(r)
  BY <1>5, PrefillConfined
<1>6. CASE DecodeEager
  <2>1. /\ Fits(running, NextRoom)
        /\ Forward(LengthsOf(running), LastTokens(running), SlotsOf(running))
        /\ UNCHANGED <<running, slot, scratch>>
    BY <1>6 DEF DecodeEager, NextRoom
  <2>2. \A s \in Slots : s \notin Range(SlotsOf(running)) => kv'[s] = kv[s] /\ state'[s] = state[s]
    BY <1>1, <1>3, <2>1, MemberForward
  <2> QED BY <1>2, <2>1, <2>2, ConfinedTo
<1>7. CASE Capture
  <2>1. \A s \in Slots : s # scratch' => kv'[s] = kv[s] /\ state'[s] = state[s]
    BY <1>7, CaptureFacts
  <2> QED BY <2>1 DEF Confined, Writable
<1>8. CASE Replay
  <2> DEFINE rows == Filled(graphs[Key])
  <2>1. /\ Fits(running, NextRoom)
        /\ Key \in DOMAIN graphs /\ running # <<>>
        /\ Forward(LengthsOf(running), LastTokens(running), rows)
        /\ UNCHANGED <<running, slot, scratch>>
    BY <1>8 DEF Replay, NextRoom
  <2>2. /\ DOMAIN running \subseteq DOMAIN rows
        /\ \A i \in DOMAIN running : rows[i] = slot[running[i]]
        /\ Range(rows) \subseteq Writable
    BY <2>1, FilledFacts DEF Writable
  <2> HIDE DEF rows
  <2>3. \A s \in Slots : s \notin Range(rows) => kv'[s] = kv[s] /\ state'[s] = state[s]
    BY <1>1, <2>1, <2>2, MemberForward
  <2> QED BY <2>1, <2>2, <2>3, ConfinedTo
<1>9. CASE SpecBase
  <2>1. /\ Fits(running, NextRoom)
        /\ Forward(LengthsOf(running), LastTokens(running), SlotsOf(running))
        /\ UNCHANGED <<running, slot, scratch>>
    BY <1>9 DEF SpecBase, NextRoom
  <2>2. \A s \in Slots : s \notin Range(SlotsOf(running)) => kv'[s] = kv[s] /\ state'[s] = state[s]
    BY <1>1, <1>3, <2>1, MemberForward
  <2> QED BY <1>2, <2>1, <2>2, ConfinedTo
<1>10. CASE SpecVerify
  <2> DEFINE KV(s) == [p \in Positions |->
                 IF s \in Range(SlotsOf(running))
                    /\ p - LengthsOf(running)[CHOOSE i \in DOMAIN running : slot[running[i]] = s]
                          \in 2..model.depths + 2
                 THEN Rough ELSE kv[s][p]]
             State(s) == IF model.recurrent /\ s \in Range(bound)
                 THEN state[s] \o VerifyIds(CHOOSE i \in DOMAIN running : bound[i] = s)
                 ELSE state[s]
  <2>1. /\ call.pc = "verify"
        /\ kv' = [s \in Slots |-> KV(s)]
        /\ state' = [s \in Slots |-> State(s)]
        /\ UNCHANGED <<running, slot, scratch>>
    BY <1>10 DEF SpecVerify
  <2>2. bound = SlotsOf(running)
    BY <1>1, <2>1 DEF SpecShape
  <2>3. ASSUME NEW s \in Slots, s \notin Range(SlotsOf(running))
        PROVE  kv'[s] = kv[s] /\ state'[s] = state[s]
    <3>1. KV(s) = [p \in Positions |-> kv[s][p]] /\ State(s) = state[s]
      BY <2>2, <2>3
    <3>2. kv[s] = [p \in Positions |-> kv[s][p]]
      BY <1>1 DEF TypeOK
    <3> HIDE DEF KV, State
    <3> QED BY <2>1, <3>1, <3>2
  <2> QED BY <1>2, <2>1, <2>3, ConfinedTo
<1>11. CASE Canonicalize
  <2>1. UNCHANGED <<running, slot, scratch>>
    BY <1>11 DEF Canonicalize
  <2>2. ASSUME NEW s \in Slots, s \notin Range(SlotsOf(running))
        PROVE  \A i \in CanonRows : slot[running[i]] # s
    BY <1>3, <2>2 DEF CanonRows, Range
  <2>3. \A s \in Slots : s \notin Range(SlotsOf(running)) => kv'[s] = kv[s] /\ state'[s] = state[s]
    BY <1>11, <2>2, CanonFacts
  <2> QED BY <1>2, <2>1, <2>3, ConfinedTo
<1>12. CASE FreeFinished \/ Postprocessed \/ CanonicalizeDone \/ TooWide \/ UNCHANGED vars
  BY <1>4, <1>12 DEF FreeFinished, Postprocessed, CanonicalizeDone, TooWide, vars
<1> QED BY <1>5, <1>6, <1>7, <1>8, <1>9, <1>10, <1>11, <1>12 DEF Next

\* No forward pass, whether eager, replayed from a graph with spare rows,
\* verifying drafts or decoding accepted tokens again, writes the K/V or the
\* recurrent state of a slot that no member of the batch owns, but for the
\* scratch slot, which nobody else is ever given.
THEOREM OnlyMembersAreWritten == Spec => OnlyMembersWritten
<1>1. ASSUME ShapeInv, [Next]_vars
      PROVE  \A s \in Slots :
                /\ kv'[s] # kv[s] \/ state'[s] # state[s] =>
                      s \in {slot'[r] : r \in Range(running')} \cup {scratch'}
                /\ s = scratch' => s \notin {slot'[r] : r \in Range(running')} \cup freeSlots'
  <2>1. Confined
    BY <1>1, NextConfined
  <2>2. Members'
    BY <1>1, NextShape DEF ShapeInv
  <2> QED BY <2>1, <2>2 DEF Confined, Writable, Members
<1>2. ShapeInv /\ [Next]_vars =>
        [\A s \in Slots :
            /\ kv'[s] # kv[s] \/ state'[s] # state[s] =>
                  s \in {slot'[r] : r \in Range(running')} \cup {scratch'}
            /\ s = scratch' => s \notin {slot'[r] : r \in Range(running')} \cup freeSlots']_vars
  BY <1>1
<1> QED BY <1>2, ShapeHolds, PTL DEF Spec, OnlyMembersWritten

-----------------------------------------------------------------------------
(* Room for verification *)

\* Tables do not shrink while a speculative step is under way.
LEMMA RoomKept == ASSUME ShapeInv, VerifyHasRoom, [Next]_vars PROVE VerifyHasRoom'
<1>1. TypeOK /\ Members /\ SpecShape
  BY DEF ShapeInv
<1>2. CASE SpecVerify
  <2>1. /\ capacity' = RoomToVerify /\ UNCHANGED <<running, slot, model>>
    BY <1>2 DEF SpecVerify, RoomToVerify
  <2>2. \A i \in DOMAIN running :
           length[running[i]] + model.depths + 2 <= RoomToVerify[slot[running[i]]] * BlockSize
    BY <1>1, VerifyRoomFacts
  <2>3. call'.from = [i \in DOMAIN running |-> length[running[i]] + 1]
    <3>1. call \in CallTypes
      BY <1>1 DEF TypeOK, CallTypes
    <3>2. PICK m : call' = [call EXCEPT !.pc = "canon",
             !.canon = [i \in DOMAIN running |-> Intermediate(Accepted(i, m[i]))],
             !.from = [i \in DOMAIN running |-> length[running[i]] + 1]]
      BY <1>2, VerifyFacts
    <3> QED BY <3>1, <3>2 DEF CallTypes
  <2>4. ASSUME NEW i \in DOMAIN running
        PROVE  RoomToVerify[slot[running[i]]] * BlockSize >= call'.from[i] + model.depths + 1
    <3> DEFINE b == RoomToVerify[slot[running[i]]] * BlockSize
               l == length[running[i]]
               d == model.depths
    <3>1. l \in Nat /\ d \in Nat
      BY <1>1, BatchFacts, DecodeConstants DEF TypeOK
    <3>2. b \in Int
      <4>1. RoomToVerify[slot[running[i]]] \in Nat /\ BlockSize \in Nat
        BY <1>1, BatchFacts, VerifyRoomFacts, DecodeConstants
      <4> QED BY <4>1
    <3>3. l + d + 2 <= b /\ call'.from[i] = l + 1
      BY <2>2, <2>3
    <3> HIDE DEF b, l, d
    <3>4. b >= (l + 1) + d + 1
      BY <3>1, <3>2, <3>3
    <3> QED BY <3>3, <3>4 DEF b, d
  <2> QED BY <2>1, <2>4 DEF VerifyHasRoom
<1>3. CASE Canonicalize
  <2>1. /\ call.pc = "canon" /\ call' = [call EXCEPT !.round = @ + 1]
        /\ UNCHANGED <<running, slot, model>>
    BY <1>3 DEF Canonicalize
  <2>2. call'.from = call.from
    BY <1>1, <2>1 DEF TypeOK
  <2>3. capacity' \in [Slots -> Nat] /\ \A s \in Slots : capacity[s] <= capacity'[s]
    BY <1>3, CanonFacts
  <2>4. ASSUME NEW i \in DOMAIN running
        PROVE  capacity'[slot[running[i]]] * BlockSize >= call.from[i] + model.depths + 1
    <3> DEFINE a == capacity[slot[running[i]]]
               b == capacity'[slot[running[i]]]
               need == call.from[i] + model.depths + 1
    <3>1. a \in Nat /\ b \in Nat /\ a <= b
      BY <1>1, <2>3, BatchFacts DEF TypeOK
    <3>2. a * BlockSize >= need
      BY <2>1 DEF VerifyHasRoom
    <3>3. BlockSize \in Nat
      BY DecodeConstants
    <3>4. need \in Int
      BY <1>1, <2>1, DecodeConstants, SMTT(30) DEF SpecShape, TypeOK
    <3> HIDE DEF a, b, need
    <3>5. \A j, k, d \in Nat : j <= k => j * d <= k * d /\ j * d \in Int /\ k * d \in Int
      BY SMTT(20)
    <3>6. a * BlockSize <= b * BlockSize /\ a * BlockSize \in Int /\ b * BlockSize \in Int
      BY <3>1, <3>3, <3>5
    <3>7. b * BlockSize >= need
      BY <3>2, <3>4, <3>6
    <3> QED BY <3>7 DEF b, need
  <2> QED BY <2>1, <2>2, <2>4 DEF VerifyHasRoom
<1>4. ASSUME call'.pc # "canon" PROVE VerifyHasRoom'
  BY <1>4 DEF VerifyHasRoom
<1>5. CASE (\E r \in Requests : Prefill(r)) \/ DecodeEager \/ Capture \/ Replay
           \/ CanonicalizeDone \/ Postprocessed \/ TooWide
  <2>1. call'.pc \in {"post", "replay", "idle", "too_wide"}
    BY <1>5 DEF Prefill, DecodeEager, Capture, Replay, CanonicalizeDone, Postprocessed,
                TooWide, Idle
  <2> QED BY <1>4, <2>1
<1>6. CASE SpecBase
  <2>1. call'.pc = "verify"
    BY <1>6 DEF SpecBase, Idle
  <2> QED BY <1>4, <2>1
<1>7. CASE FreeFinished
  <2>1. call'.pc = "post"
    BY <1>7 DEF FreeFinished
  <2> QED BY <1>4, <2>1
<1>8. CASE UNCHANGED vars
  BY <1>8 DEF vars, VerifyHasRoom
<1> QED BY <1>2, <1>3, <1>5, <1>6, <1>7, <1>8 DEF Next

\* After verification the block tables of every member cover all positions
\* that the verify forward has written, those of rejected drafts included, and
\* decoding accepted tokens again never takes any of it back.
THEOREM VerificationHasRoom == Spec => []VerifyHasRoom
<1>1. Init => VerifyHasRoom
  BY DEF Init, Idle, VerifyHasRoom
<1>2. ShapeInv /\ VerifyHasRoom /\ [Next]_vars => VerifyHasRoom'
  BY RoomKept
<1> QED BY <1>1, <1>2, ShapeHolds, PTL DEF Spec

-----------------------------------------------------------------------------
(* K/V and state are the history *)

\* A slot that holds the first n tokens of a history predicts after one more.
LEMMA ContextHolds ==
    ASSUME TypeOK, NEW r \in Requests, NEW n \in 1..Len(History(r)),
           n < Len(History(r)),
           \A p \in 1..n : HoldsAt(r, p),
           model.recurrent => state[slot[r]] = SubSeq(History(r), 1, n)
    PROVE  Extend(Context(slot[r], n, slot[r]), <<History(r)[n + 1]>>)
              = SubSeq(History(r), 1, n + 1)
<1> DEFINE h == History(r)
           w == SubSeq(h, 1, n)
<1>1. h \in Seq(Token) /\ Len(h) \in Nat
  <2>1. h \in Seq(Token)
    BY HistoryFacts
  <2> HIDE DEF h
  <2> QED BY <2>1
<1>2. /\ Len(w) = n /\ w # <<>>
      /\ \A i \in 1..n : SubSeq(w, 1, i) = SubSeq(h, 1, i)
      /\ w \o <<h[n + 1]>> = SubSeq(h, 1, n + 1)
  <2> HIDE DEF h
  <2>1. n \in 1..Len(h) /\ n < Len(h)
    BY DEF h
  <2> QED BY <1>1, <2>1, PrefixProperties
<1>3. /\ kv[slot[r]][n] = w
      /\ \A i \in 1..n : kv[slot[r]][i] = SubSeq(w, 1, i)
  <2>1. \A p \in 1..n : kv[slot[r]][p] = SubSeq(h, 1, p)
    BY DEF HoldsAt
  <2>2. n \in 1..n
    BY <1>1
  <2> HIDE DEF h
  <2> QED BY <1>2, <2>1, <2>2
<1>4. Context(slot[r], n, slot[r]) = w
  <2> HIDE DEF h
  <2>1. model.recurrent => state[slot[r]] = w
    BY DEF h
  <2> HIDE DEF w
  <2> QED BY <1>2, <1>3, <2>1 DEF Context
<1> HIDE DEF h, w
<1>5. Extend(w, <<h[n + 1]>>) = SubSeq(h, 1, n + 1)
  BY <1>2 DEF Extend, Rough
<1> QED BY <1>4, <1>5 DEF h

\* A history that grows at its end keeps its prefixes.
LEMMA PrefixKept ==
    ASSUME NEW h \in Seq(Token), NEW a \in Seq(Token)
    PROVE  \A p \in 1..Len(h) : SubSeq(h \o a, 1, p) = SubSeq(h, 1, p)
<1> SUFFICES ASSUME NEW p \in 1..Len(h) PROVE SubSeq(h \o a, 1, p) = SubSeq(h, 1, p)
  OBVIOUS
<1>1. 1 \in 1..Len(h)
  OBVIOUS
<1> QED BY <1>1, SubSeqOfConcat1

\* A forward of the members extends what each slot holds by one position.
LEMMA ForwardHolds ==
    ASSUME ShapeInv, NEW rows,
           \A r \in Range(running) :
              /\ \A p \in 1..length[r] : HoldsAt(r, p)
              /\ model.recurrent => state[slot[r]] = SubSeq(History(r), 1, length[r]),
           Fits(running, NextRoom),
           DOMAIN running \subseteq DOMAIN rows,
           \A i \in DOMAIN running : rows[i] = slot[running[i]],
           Forward(LengthsOf(running), LastTokens(running), rows)
    PROVE  \A r \in Range(running) :
              /\ \A p \in 1..length[r] + 1 :
                    p \in Positions /\ kv'[slot[r]][p] = SubSeq(History(r), 1, p)
              /\ model.recurrent => state'[slot[r]] = SubSeq(History(r), 1, length[r] + 1)
<1>1. TypeOK /\ Members
  BY DEF ShapeInv
<1> SUFFICES ASSUME NEW i \in DOMAIN running, NEW r, r = running[i]
             PROVE  /\ \A p \in 1..length[r] + 1 :
                          p \in Positions /\ kv'[slot[r]][p] = SubSeq(History(r), 1, p)
                    /\ model.recurrent => state'[slot[r]] = SubSeq(History(r), 1, length[r] + 1)
  BY <1>1, BatchFacts
<1> DEFINE s == slot[r]
           n == length[r]
           h == History(r)
           t == LastTokens(running)[i]
<1>2. /\ r \in Range(running) /\ r \in Requests /\ s \in Slots /\ n \in Nat \ {0}
      /\ t = h[n + 1] /\ n + 1 = Len(h) /\ h \in Seq(Token)
  BY <1>1, BatchFacts, HistoryFacts DEF Members
<1>3. /\ \A q \in Positions : kv'[s][q] =
            IF q = n + 1 THEN Extend(Context(s, n, s), <<t>>) ELSE kv[s][q]
      /\ state'[s] = IF model.recurrent THEN Append(state[s], t) ELSE state[s]
  BY <1>1, MemberForward
<1>4. n + 1 \in Positions
  BY <1>1, StepRoom
<1>5. n \in 1..Len(h) /\ n < Len(h)
  <2> HIDE DEF n, h
  <2> QED BY <1>2
<1>6. Extend(Context(s, n, s), <<h[n + 1]>>) = SubSeq(h, 1, n + 1)
  <2>1. TypeOK /\ n \in 1..Len(History(r)) /\ n < Len(History(r)) /\ r \in Requests
    BY <1>1, <1>2, <1>5
  <2>2. /\ \A p \in 1..n : HoldsAt(r, p)
        /\ model.recurrent => state[slot[r]] = SubSeq(History(r), 1, n)
    BY <1>2
  <2> HIDE DEF n
  <2> QED BY <2>1, <2>2, ContextHolds
<1>7. model.recurrent => Append(state[s], h[n + 1]) = SubSeq(h, 1, n + 1)
  <2>1. model.recurrent => state[s] = SubSeq(h, 1, n)
    BY <1>2
  <2> HIDE DEF h, n, s
  <2>2. Append(SubSeq(h, 1, n), h[n + 1]) = SubSeq(h, 1, n + 1)
    BY <1>2, <1>5, PrefixProperties
  <2> QED BY <2>1, <2>2
<1>8. \A p \in 1..n : p \in Positions /\ kv[s][p] = SubSeq(h, 1, p)
  BY <1>2 DEF HoldsAt
<1> HIDE DEF s, n, h, t
<1>9. ASSUME NEW p \in 1..n + 1
      PROVE  p \in Positions /\ kv'[s][p] = SubSeq(h, 1, p)
  <2>1. CASE p = n + 1
    BY <1>2, <1>3, <1>4, <1>6, <2>1
  <2>2. CASE p # n + 1
    <3>1. p \in 1..n
      BY <1>2, <2>2
    <3> QED BY <1>3, <1>8, <2>2, <3>1
  <2> QED BY <2>1, <2>2
<1>10. model.recurrent => state'[s] = SubSeq(h, 1, n + 1)
  BY <1>2, <1>3, <1>7
<1> QED BY <1>9, <1>10 DEF s, n, h

\* What a slot holds once its member has its token.
LEMMA StepHistory ==
    ASSUME ShapeInv, NEW rows, NEW tok \in [DOMAIN running -> Token],
           \A r \in Range(running) :
              /\ \A p \in 1..length[r] : HoldsAt(r, p)
              /\ model.recurrent => state[slot[r]] = SubSeq(History(r), 1, length[r]),
           Fits(running, NextRoom),
           DOMAIN running \subseteq DOMAIN rows,
           \A i \in DOMAIN running : rows[i] = slot[running[i]],
           Forward(LengthsOf(running), LastTokens(running), rows),
           Append1(running, tok), Advance(running),
           call' = [Idle EXCEPT !.pc = "post"],
           UNCHANGED <<model, running, slot>>
    PROVE  HistoryInv'
<1>1. TypeOK /\ Members
  BY DEF ShapeInv
<1>2. \A r \in Range(running) :
         /\ \A p \in 1..length[r] + 1 :
               p \in Positions /\ kv'[slot[r]][p] = SubSeq(History(r), 1, p)
         /\ model.recurrent => state'[slot[r]] = SubSeq(History(r), 1, length[r] + 1)
  BY ForwardHolds
<1>3. call'.pc = "post"
  BY IdleTypes DEF CallTypes
<1>4. ASSUME NEW i \in DOMAIN running, NEW r, r = running[i]
      PROVE  /\ \A p \in 1..length'[r] : HoldsAt(r, p)'
             /\ model.recurrent => state'[slot[r]] = SubSeq(History(r)', 1, length'[r])
  <2> DEFINE h == History(r)
             g == History(r)'
             n == length[r]
  <2>1. /\ r \in Range(running) /\ r \in Requests /\ n \in Nat \ {0}
        /\ n + 1 = Len(h) /\ h \in Seq(Token)
    BY <1>1, <1>4, BatchFacts, HistoryFacts DEF Members
  <2>2. g = Append(h, tok[i]) /\ length'[r] = n + 1 /\ tok[i] \in Token
    BY <1>1, <1>4, <2>1, AppendOne
  <2>3. \A p \in 1..n + 1 : p \in Positions /\ kv'[slot[r]][p] = SubSeq(h, 1, p)
    BY <1>2, <2>1
  <2>4. model.recurrent => state'[slot[r]] = SubSeq(h, 1, n + 1)
    BY <1>2, <2>1
  <2>5. \A p \in 1..n + 1 : SubSeq(g, 1, p) = SubSeq(h, 1, p)
    <3> HIDE DEF h, g, n
    <3>1. g = h \o <<tok[i]>> /\ <<tok[i]>> \in Seq(Token)
      BY <2>1, <2>2, AppendIsConcat
    <3> QED BY <2>1, <3>1, PrefixKept
  <2>6. n + 1 \in 1..n + 1
    <3> HIDE DEF n
    <3> QED BY <2>1
  <2>7. \A p \in 1..n + 1 : p \in Positions /\ kv'[slot'[r]][p] = SubSeq(g, 1, p)
    <3> HIDE DEF h, g, n
    <3> QED BY <2>3, <2>5
  <2>8. model.recurrent => state'[slot[r]] = SubSeq(g, 1, n + 1)
    <3> HIDE DEF h, g, n
    <3> QED BY <2>4, <2>5, <2>6
  <2> QED BY <2>2, <2>7, <2>8 DEF HoldsAt
<1>5. \A r \in Range(running) : \E i \in DOMAIN running : r = running[i]
  BY <1>1, BatchFacts
<1> QED BY <1>3, <1>4, <1>5 DEF HistoryInv, CanonFollows

\* At rest a member's slot holds all its tokens but the last.
Held(r) == /\ \A p \in 1..length[r] : HoldsAt(r, p)
           /\ model.recurrent => state[slot[r]] = SubSeq(History(r), 1, length[r])

\* The history between forwards, member by member, and back.
LEMMA RestHeld ==
    ASSUME HistoryInv, call.pc \in {"idle", "replay", "post"}
    PROVE  \A r \in Range(running) : Held(r)
BY DEF HistoryInv, Held

\* The converse, for the next state.
LEMMA HeldAtRest ==
    ASSUME call'.pc \in {"idle", "replay", "post", "too_wide"},
           \A r \in Range(running') : Held(r)'
    PROVE  HistoryInv'
BY DEF HistoryInv, CanonFollows, Held

\* A prefill writes the whole prompt and clears what was in the slot.
LEMMA PrefillHistory ==
    ASSUME ShapeInv, HistoryInv, NEW r \in Requests, Prefill(r)
    PROVE  HistoryInv'
<1> DEFINE w == Prompt[r]
<1>1. PICK s \in freeSlots :
        /\ slot' = [slot EXCEPT ![r] = s]
        /\ kv' = [kv EXCEPT ![s] = [p \in Positions |->
                     IF p <= Len(w) THEN SubSeq(w, 1, p) ELSE @[p]]]
        /\ state' = [state EXCEPT ![s] = IF model.recurrent THEN w ELSE @]
  BY DEF Prefill
<1>2. PICK t \in Token : output_ids' = [output_ids EXCEPT ![r] = <<t>>]
  BY DEF Prefill, Sample
<1>3. /\ call.pc = "idle" /\ output_ids[r] = <<>>
      /\ length' = [length EXCEPT ![r] = Len(w)]
      /\ running' = Append(running, r)
      /\ call' = [Idle EXCEPT !.pc = "post"]
      /\ UNCHANGED model
      /\ BlocksFor(Len(w)) <= MaxBlocksPerSeq
  BY DEF Prefill
<1>4. TypeOK /\ Members
  BY DEF ShapeInv
<1>5. w \in Seq(Token) /\ Len(w) \in Nat \ {0}
  BY <1>4, HistoryFacts
<1>6. s \in Slots /\ \A q \in Range(running) : q \in Requests /\ q # r /\ slot[q] # s /\ slot[q] \in Slots
  <2>1. /\ s \in Slots
        /\ \A q \in Range(running) : output_ids[q] # <<>> /\ slot[q] \in Slots /\ slot[q] \notin freeSlots
    BY <1>4 DEF Members, TypeOK
  <2>2. \A q \in Range(running) : q \in Requests
    BY <1>4, BatchFacts
  <2> QED BY <1>3, <2>1, <2>2
<1>7. Range(running') = Range(running) \cup {r}
  BY <1>3, <1>4, AppendFacts DEF TypeOK
<1>8. ASSUME NEW q \in Range(running) PROVE Held(q)'
  <2>1. Held(q)
    BY <1>3, <1>8, RestHeld
  <2>2. /\ slot'[q] = slot[q] /\ output_ids'[q] = output_ids[q] /\ length'[q] = length[q]
    BY <1>1, <1>2, <1>3, <1>4, <1>6, <1>8 DEF TypeOK
  <2>3. kv'[slot[q]] = kv[slot[q]] /\ state'[slot[q]] = state[slot[q]]
    BY <1>1, <1>4, <1>6, <1>8 DEF TypeOK
  <2>4. History(q)' = History(q)
    BY <2>2 DEF History
  <2> QED BY <1>3, <2>1, <2>2, <2>3, <2>4 DEF Held, HoldsAt
<1>9. Held(r)'
  <2>1. /\ slot'[r] = s /\ output_ids'[r] = <<t>> /\ length'[r] = Len(w)
    BY <1>1, <1>2, <1>3, <1>4 DEF TypeOK
  <2>2. History(r)' = w \o <<t>>
    BY <2>1 DEF History
  <2>3. \A p \in 1..Len(w) : SubSeq(w \o <<t>>, 1, p) = SubSeq(w, 1, p)
    <3>1. <<t>> \in Seq(Token)
      OBVIOUS
    <3> HIDE DEF w
    <3> QED BY <1>5, <3>1, PrefixKept
  <2>4. \A p \in 1..Len(w) : p \in Positions
    <3>1. Len(w) \in Positions
      BY <1>3, <1>5, PositionFacts
    <3> DEFINE k == Len(w)
    <3>2. k \in Nat /\ k \in Positions
      BY <1>5, <3>1
    <3> HIDE DEF k
    <3>3. \A p \in 1..k : p \in Positions
      BY <3>2, PositionFacts
    <3> QED BY <3>3 DEF k
  <2>5. \A p \in 1..Len(w) : kv'[s][p] = SubSeq(w, 1, p)
    <3>1. kv'[s] = [p \in Positions |-> IF p <= Len(w) THEN SubSeq(w, 1, p) ELSE kv[s][p]]
      BY <1>1, <1>4, <1>6 DEF TypeOK
    <3>2. \A p \in 1..Len(w) : p <= Len(w)
      BY <1>5
    <3> HIDE DEF w
    <3> QED BY <2>4, <3>1, <3>2
  <2>6. model.recurrent => state'[s] = SubSeq(w, 1, Len(w))
    <3>1. model.recurrent => state'[s] = w
      BY <1>1, <1>4, <1>6 DEF TypeOK
    <3> HIDE DEF w
    <3> QED BY <1>5, <3>1, SubSeqFull
  <2>7. Len(w) \in 1..Len(w)
    BY <1>5
  <2> HIDE DEF w
  <2> QED BY <1>3, <2>1, <2>2, <2>3, <2>4, <2>5, <2>6, <2>7 DEF Held, HoldsAt
<1>10. call'.pc = "post"
  BY <1>3, IdleTypes
<1> QED BY <1>7, <1>8, <1>9, <1>10, HeldAtRest

\* The warm-up of a capture writes the scratch slot only.
LEMMA CaptureHistory ==
    ASSUME ShapeInv, HistoryInv, Capture
    PROVE  HistoryInv'
<1>1. TypeOK /\ Members
  BY DEF ShapeInv
<1>2. /\ \A r \in Range(running) : slot[r] # scratch'
      /\ \A s \in Slots : s # scratch' => kv'[s] = kv[s] /\ state'[s] = state[s]
  BY CaptureFacts
<1>3. /\ call.pc = "idle" /\ call'.pc = "replay"
      /\ UNCHANGED <<model, running, slot, output_ids, length>>
  BY IdleTypes DEF Capture
<1>4. ASSUME NEW r \in Range(running) PROVE Held(r)'
  <2>1. Held(r) /\ slot[r] \in Slots
    BY <1>1, <1>3, RestHeld DEF Members
  <2>2. kv'[slot[r]] = kv[slot[r]] /\ state'[slot[r]] = state[slot[r]]
    BY <1>2, <2>1
  <2> QED BY <1>3, <2>1, <2>2 DEF Held, HoldsAt, History
<1> QED BY <1>3, <1>4, HeldAtRest

\* An eager step writes the last token of each member.
LEMMA DecodeEagerHistory == ASSUME ShapeInv, HistoryInv, DecodeEager PROVE HistoryInv'
<1> DEFINE rows == SlotsOf(running)
<1>1. TypeOK /\ Members
  BY DEF ShapeInv
<1>2. PICK tok \in Samples(running, Contexts(LengthsOf(running), LastTokens(running), rows)) :
         Append1(running, tok)
  BY DEF DecodeEager
<1>3. /\ call.pc = "idle" /\ Fits(running, NextRoom)
      /\ Forward(LengthsOf(running), LastTokens(running), rows)
      /\ Advance(running) /\ call' = [Idle EXCEPT !.pc = "post"]
      /\ UNCHANGED <<model, running, slot>>
  BY DEF DecodeEager, NextRoom
<1>4. tok \in [DOMAIN running -> Token]
  BY <1>2 DEF Samples
<1>5. DOMAIN rows = DOMAIN running /\ \A i \in DOMAIN running : rows[i] = slot[running[i]]
  BY <1>1, BatchFacts
<1>6. \A r \in Range(running) :
         /\ \A p \in 1..length[r] : HoldsAt(r, p)
         /\ model.recurrent => state[slot[r]] = SubSeq(History(r), 1, length[r])
  BY <1>3, RestHeld DEF Held
<1> HIDE DEF rows
<1> QED BY <1>2, <1>3, <1>4, <1>5, <1>6, StepHistory

\* So does a replayed graph.
LEMMA ReplayHistory == ASSUME ShapeInv, HistoryInv, Replay PROVE HistoryInv'
<1> DEFINE rows == Filled(graphs[Key])
<1>1. PICK tok \in Samples(running, Contexts(LengthsOf(running), LastTokens(running), rows)) :
         Append1(running, tok)
  BY DEF Replay
<1>2. /\ call.pc \in {"idle", "replay"} /\ Fits(running, NextRoom)
      /\ Key \in DOMAIN graphs /\ running # <<>>
      /\ Forward(LengthsOf(running), LastTokens(running), rows)
      /\ Advance(running) /\ call' = [Idle EXCEPT !.pc = "post"]
      /\ UNCHANGED <<model, running, slot>>
  BY DEF Replay, NextRoom
<1>3. tok \in [DOMAIN running -> Token]
  BY <1>1 DEF Samples
<1>4. /\ DOMAIN running \subseteq DOMAIN rows
      /\ \A i \in DOMAIN running : rows[i] = slot[running[i]]
  BY <1>2, FilledFacts
<1>5. \A r \in Range(running) :
         /\ \A p \in 1..length[r] : HoldsAt(r, p)
         /\ model.recurrent => state[slot[r]] = SubSeq(History(r), 1, length[r])
  BY <1>2, RestHeld DEF Held
<1> HIDE DEF rows
<1> QED BY <1>1, <1>2, <1>3, <1>4, <1>5, StepHistory

\* So does the base forward, which leaves one position more than length.
LEMMA SpecBaseHistory == ASSUME ShapeInv, HistoryInv, SpecBase PROVE HistoryInv'
<1> DEFINE rows == SlotsOf(running)
<1>1. TypeOK /\ Members
  BY DEF ShapeInv
<1>2. /\ call.pc = "idle" /\ call'.pc = "verify" /\ Fits(running, NextRoom)
      /\ Forward(LengthsOf(running), LastTokens(running), rows)
      /\ UNCHANGED <<model, running, slot, output_ids, length>>
  BY IdleTypes DEF SpecBase, NextRoom, Idle
<1>3. DOMAIN rows = DOMAIN running /\ \A i \in DOMAIN running : rows[i] = slot[running[i]]
  BY <1>1, BatchFacts
<1>4. \A r \in Range(running) :
         /\ \A p \in 1..length[r] : HoldsAt(r, p)
         /\ model.recurrent => state[slot[r]] = SubSeq(History(r), 1, length[r])
  BY <1>2, RestHeld DEF Held
<1> HIDE DEF rows
<1>5. \A r \in Range(running) : \A p \in 1..length[r] + 1 :
         p \in Positions /\ kv'[slot[r]][p] = SubSeq(History(r), 1, p)
  BY <1>2, <1>3, <1>4, ForwardHolds
<1>6. \A r \in Range(running') : \A p \in 1..length'[r] + 1 : HoldsAt(r, p)'
  BY <1>2, <1>5 DEF HoldsAt, History
<1> QED BY <1>2, <1>6 DEF HistoryInv, CanonFollows

\* A model that drafts has no recurrent layers: see the README.
DraftersKeepNoState == \A m \in Models : m.recurrent => m.depths = 0

\* Verification leaves the members' K/V up to the base token alone.
LEMMA VerifyKeeps ==
    ASSUME ShapeInv, SpecVerify, NEW i \in DOMAIN running, NEW r, r = running[i],
           NEW p \in Positions, p <= length[r] + 1
    PROVE  kv'[slot[r]][p] = kv[slot[r]][p]
<1> DEFINE n == LengthsOf(running)
           Row(s) == CHOOSE j \in DOMAIN running : slot[running[j]] = s
           s == slot[r]
<1>1. TypeOK /\ Members
  BY DEF ShapeInv
<1>2. kv' = [u \in Slots |-> [q \in Positions |->
                 IF u \in Range(SlotsOf(running)) /\ q - n[Row(u)] \in 2..model.depths + 2
                 THEN Rough ELSE kv[u][q]]]
  BY DEF SpecVerify
<1>3. /\ s \in Slots /\ n[i] = length[r] /\ length[r] \in Nat
      /\ \A j \in DOMAIN running : slot[running[j]] = s => j = i
  BY <1>1, BatchFacts
<1>4. Row(s) = i
  BY <1>3
<1>5. p \in Nat /\ model.depths \in Nat
  BY <1>1, PositionFacts, DecodeConstants DEF TypeOK
<1>6. ~(p - n[Row(s)] \in 2..model.depths + 2)
  BY <1>3, <1>4, <1>5
<1> HIDE DEF n, Row, s
<1>7. kv'[s][p] = kv[s][p]
  BY <1>2, <1>3, <1>6
<1> QED BY <1>7 DEF s

\* Verification makes positions rough from the second on, all of which are
\* to be rewritten or past the history.
LEMMA SpecVerifyHistory == ASSUME ShapeInv, HistoryInv, SpecVerify PROVE HistoryInv'
<1>1. TypeOK /\ Members /\ SpecShape
  BY DEF ShapeInv
<1>2. call.pc = "verify" /\ UNCHANGED <<model, running, slot>>
  BY DEF SpecVerify
<1>3. PICK m \in [DOMAIN running -> 0..model.depths] :
        /\ \A i \in DOMAIN running : \A r \in Requests : r = running[i] =>
              /\ output_ids'[r] = output_ids[r] \o Accepted(i, m[i])
              /\ length'[r] = length[r] + Len(Accepted(i, m[i]))
        /\ call' = [call EXCEPT !.pc = "canon",
               !.canon = [i \in DOMAIN running |-> Intermediate(Accepted(i, m[i]))],
               !.from = [i \in DOMAIN running |-> length[running[i]] + 1]]
  BY VerifyFacts
<1>4. /\ call'.pc = "canon" /\ call'.round = 1
      /\ call'.canon = [i \in DOMAIN running |-> Intermediate(Accepted(i, m[i]))]
      /\ call'.from = [i \in DOMAIN running |-> length[running[i]] + 1]
  <2>1. call \in CallTypes /\ call.round = 1
    BY <1>1, <1>2 DEF TypeOK, CallTypes, SpecShape
  <2> QED BY <1>3, <2>1 DEF CallTypes
<1>5. ASSUME NEW i \in DOMAIN running, NEW r, r = running[i]
      PROVE  /\ call'.from[i] + Len(call'.canon[i]) = length'[r]
             /\ \A j \in 1..Len(call'.canon[i]) :
                   call'.canon[i][j] = History(r)'[call'.from[i] + j]
             /\ \A p \in 1..length'[r] : p < call'.from[i] + call'.round => HoldsAt(r, p)'
  <2> DEFINE a == Accepted(i, m[i])
             h == History(r)
             g == History(r)'
             n == length[r]
             c == Intermediate(a)
  <2>1. /\ r \in Range(running) /\ r \in Requests /\ n \in Nat \ {0}
        /\ n + 1 = Len(h) /\ h \in Seq(Token)
    BY <1>1, <1>5, BatchFacts, HistoryFacts DEF Members
  <2>2. /\ call'.canon[i] = c /\ call'.from[i] = n + 1 /\ length'[r] = n + Len(a)
        /\ output_ids'[r] = output_ids[r] \o a
    BY <1>3, <1>4, <1>5, <2>1
  <2>3. a \in Seq(Token) /\ Len(a) \in Nat \ {0}
    <3>1. m[i] \in 0..model.depths /\ model.depths \in Nat
      BY <1>1, DecodeConstants DEF TypeOK
    <3>2. a \in Seq(Token) /\ Len(a) \in 1..m[i] + 1
      BY <1>2, <3>1, AcceptedFacts
    <3> HIDE DEF a
    <3> QED BY <3>1, <3>2
  <2>4. g = h \o a
    <3>1. output_ids[r] \in Seq(Token) /\ Prompt[r] \in Seq(Token)
      BY <1>1, <2>1, HistoryFacts
    <3> HIDE DEF a
    <3>2. (Prompt[r] \o output_ids[r]) \o a = Prompt[r] \o (output_ids[r] \o a)
      <4>1. \A p, q, u \in Seq(Token) : (p \o q) \o u = p \o (q \o u)
        BY ConcatAssociative
      <4> QED BY <2>3, <3>1, <4>1
    <3> QED BY <2>2, <3>2 DEF History
  <2>5. Len(c) = Len(a) - 1 /\ \A j \in 1..Len(c) : c[j] = a[j]
    <3> HIDE DEF a
    <3>1. \A j \in 1..Len(a) - 1 : a[j] \in Token
      BY <2>3
    <3>2. /\ Len(SubSeq(a, 1, Len(a) - 1)) = IF 1 <= Len(a) - 1 THEN Len(a) - 1 - 1 + 1 ELSE 0
          /\ \A j \in 1..Len(a) - 1 - 1 + 1 : SubSeq(a, 1, Len(a) - 1)[j] = a[1 + j - 1]
      BY <2>3, <3>1, SubSeqProperties
    <3>3. \A j \in Int : 1 + j - 1 = j
      OBVIOUS
    <3>4. Len(a) - 1 - 1 + 1 = Len(a) - 1
      BY <2>3
    <3>5. Len(SubSeq(a, 1, Len(a) - 1)) = Len(a) - 1
      BY <2>3, <3>2, <3>4
    <3>6. \A j \in 1..Len(a) - 1 : SubSeq(a, 1, Len(a) - 1)[j] = a[j]
      BY <2>3, <3>2, <3>3, <3>4
    <3> QED BY <3>5, <3>6 DEF Intermediate
  <2>6. \A j \in 1..Len(c) : c[j] = g[n + 1 + j]
    <3> HIDE DEF a, c, g, h, n
    <3>1. \A k \in 1..Len(h) + Len(a) :
             (h \o a)[k] = IF k <= Len(h) THEN h[k] ELSE a[k - Len(h)]
      BY <2>1, <2>3, ConcatProperties
    <3>2. ASSUME NEW j \in 1..Len(c), NEW k, k = n + 1 + j PROVE c[j] = g[k]
      <4>1. /\ k \in 1..Len(h) + Len(a) /\ ~(k <= Len(h)) /\ k - Len(h) = j
        <5> DEFINE lh == Len(h)
                   la == Len(a)
                   lc == Len(c)
        <5>1. /\ lh = n + 1 /\ n \in Nat /\ la \in Nat /\ lc = la - 1
              /\ j \in 1..lc /\ k = n + 1 + j
          BY <2>1, <2>3, <2>5, <3>2
        <5> HIDE DEF lh, la, lc
        <5>2. k \in 1..lh + la /\ ~(k <= lh) /\ k - lh = j
          BY <5>1
        <5> QED BY <5>2 DEF lh, la
      <4>2. g[k] = a[j]
        BY <2>4, <3>1, <4>1
      <4> QED BY <2>5, <4>2
    <3> QED BY <3>2
  <2>7. \A p \in 1..n + 1 : p \in Positions /\ kv[slot[r]][p] = SubSeq(h, 1, p)
    BY <1>2, <2>1 DEF HistoryInv, HoldsAt
  <2>8. \A p \in 1..n + 1 : kv'[slot[r]][p] = kv[slot[r]][p]
    BY <1>5, <2>1, <2>7, VerifyKeeps
  <2>9. \A p \in 1..n + 1 : SubSeq(g, 1, p) = SubSeq(h, 1, p)
    <3> HIDE DEF a, g, h, n
    <3> QED BY <2>1, <2>3, <2>4, PrefixKept
  <2>10. \A p \in 1..n + 1 : p \in Positions /\ kv'[slot'[r]][p] = SubSeq(g, 1, p)
    <3> HIDE DEF g, h, n
    <3> QED BY <1>2, <2>7, <2>8, <2>9
  <2> HIDE DEF a, c, h, n
  <2>11. (n + 1) + Len(c) = n + Len(a)
    BY <2>1, <2>3, <2>5
  <2>12. \A p \in 1..n + Len(a) : p < (n + 1) + 1 => p \in 1..n + 1
    BY <2>1, <2>3
  <2>13. \A p \in 1..n + Len(a) : p < (n + 1) + 1 =>
            p \in Positions /\ kv'[slot'[r]][p] = SubSeq(g, 1, p)
    BY <2>10, <2>12
  <2>14. \A p \in 1..n + Len(a) : p < (n + 1) + 1 => HoldsAt(r, p)'
    BY <2>13 DEF HoldsAt
  <2> QED BY <1>4, <2>2, <2>6, <2>11, <2>14
<1> QED BY <1>2, <1>4, <1>5 DEF HistoryInv, CanonFollows

\* A round of _canonicalize_accepted_kv takes each member that has a token
\* left one position on.
LEMMA CanonicalizeHistory ==
    ASSUME DraftersKeepNoState, ShapeInv, HistoryInv, Canonicalize
    PROVE  HistoryInv'
<1>1. TypeOK /\ Members /\ SpecShape
  BY DEF ShapeInv
<1>2. /\ call.pc = "canon" /\ call' = [call EXCEPT !.round = @ + 1]
      /\ UNCHANGED <<model, running, slot, output_ids, length>>
  BY DEF Canonicalize
<1>3. /\ call'.pc = "canon" /\ call'.canon = call.canon /\ call'.from = call.from
      /\ call'.round = call.round + 1 /\ call.round \in Nat \ {0}
  <2>1. call \in CallTypes
    BY <1>1 DEF TypeOK, CallTypes
  <2> QED BY <1>2, <2>1 DEF CallTypes
<1>4. ~model.recurrent
  BY <1>1, <1>2, DecodeConstants DEF TypeOK, SpecShape, DraftersKeepNoState
<1>5. ASSUME NEW i \in DOMAIN running, NEW r, r = running[i],
             NEW p \in 1..length[r], p < call.from[i] + call.round + 1
      PROVE  p \in Positions /\ kv'[slot[r]][p] = SubSeq(History(r), 1, p)
  <2> DEFINE f == call.from[i]
             d == call.round
             l == Len(call.canon[i])
             h == History(r)
             s == slot[r]
  <2>1. /\ r \in Range(running) /\ r \in Requests /\ length[r] \in Nat \ {0}
        /\ length[r] + 1 = Len(h) /\ h \in Seq(Token) /\ s \in Slots
    BY <1>1, <1>5, BatchFacts, HistoryFacts DEF Members
  <2>2. /\ f \in Nat \ {0} /\ d \in Nat \ {0} /\ l \in Nat
        /\ f + l = length[r]
        /\ \A j \in 1..l : call.canon[i][j] = h[f + j]
    BY <1>1, <1>2, <1>3, <1>5 DEF HistoryInv, CanonFollows, SpecShape
  <2>3. \A q \in 1..length[r] : q < f + d => HoldsAt(r, q)
    BY <1>2, <1>5 DEF HistoryInv
  <2>4. i \in CanonRows <=> d <= l
    BY DEF CanonRows
  <2>5. CASE d <= l
    <3> DEFINE n == f + d - 1
               t == call.canon[i][d]
    <3>1. /\ n \in Positions /\ n + 1 \in Positions
          /\ \A q \in Positions : kv'[s][q] =
                IF q = n + 1 THEN Extend(Context(s, n, s), <<t>>) ELSE kv[s][q]
      BY <1>5, <2>4, <2>5, CanonFacts
    <3>2. t = h[f + d]
      <4>1. d \in 1..l
        BY <2>2, <2>5
      <4> HIDE DEF d, l, f, h
      <4> QED BY <2>2, <4>1
    <3>3. /\ n + 1 = f + d /\ n \in 1..Len(h) /\ n < Len(h) /\ n \in Nat \ {0}
          /\ n <= length[r]
      <4> HIDE DEF d, l, f, h
      <4> QED BY <2>1, <2>2, <2>5
    <3>4. \A q \in 1..n : HoldsAt(r, q)
      <4>1. \A q \in 1..n : q \in 1..length[r] /\ q < f + d
        <5> HIDE DEF d, l, f, h
        <5> QED BY <2>1, <2>2, <3>3
      <4> HIDE DEF d, l, f, h, n
      <4> QED BY <2>3, <4>1
    <3>5. Extend(Context(s, n, s), <<h[n + 1]>>) = SubSeq(h, 1, n + 1)
      <4> HIDE DEF n
      <4> QED BY <1>1, <1>4, <2>1, <3>3, <3>4, ContextHolds
    <3>6. CASE p = n + 1
      <4> HIDE DEF d, l, f, h, s, t, n
      <4>1. h[n + 1] = t
        BY <3>2, <3>3
      <4>2. kv'[s][n + 1] = SubSeq(h, 1, n + 1)
        BY <3>1, <3>5, <4>1
      <4> QED BY <3>1, <3>6, <4>2 DEF h, s
    <3>7. CASE p # n + 1
      <4>1. p \in 1..n
        <5> HIDE DEF h, s, t, l
        <5>1. p < f + d + 1
          BY <1>5 DEF f, d
        <5> HIDE DEF f, d, n
        <5> QED BY <2>1, <2>2, <3>3, <3>7, <5>1
      <4>2. HoldsAt(r, p)
        BY <3>4, <4>1
      <4> HIDE DEF d, l, f, h, t, n
      <4> QED BY <3>1, <3>7, <4>2 DEF HoldsAt, h
    <3> QED BY <3>6, <3>7
  <2>6. CASE ~(d <= l)
    <3>1. \A j \in CanonRows : slot[running[j]] # s
      <4>1. \A j \in DOMAIN running : slot[running[j]] = slot[running[i]] => j = i
        BY <1>1, BatchFacts
      <4>2. CanonRows \subseteq DOMAIN running
        BY DEF CanonRows
      <4> QED BY <1>5, <2>4, <2>6, <4>1, <4>2
    <3>2. kv'[s] = kv[s]
      BY <2>1, <3>1, CanonFacts
    <3>3. p < f + d
      <4>1. p <= length[r] /\ p \in Nat
        BY <2>1
      <4> HIDE DEF d, l, f, h, s
      <4> QED BY <2>1, <2>2, <2>6, <4>1
    <3>4. HoldsAt(r, p)
      BY <2>3, <3>3
    <3> QED BY <3>2, <3>4 DEF HoldsAt
  <2> QED BY <2>5, <2>6
<1>6. ASSUME NEW i \in DOMAIN running
      PROVE  \A p \in 1..length'[running'[i]] :
                p < call'.from[i] + call'.round => HoldsAt(running[i], p)'
  <2> DEFINE r == running[i]
  <2>1. call.from[i] \in Nat
    BY <1>1, <1>2 DEF SpecShape
  <2>2. call.from[i] + (call.round + 1) = call.from[i] + call.round + 1
    BY <1>3, <2>1
  <2>3. \A p \in 1..length[running[i]] : p < call'.from[i] + call'.round =>
           p \in Positions /\ kv'[slot[running[i]]][p] = SubSeq(History(running[i]), 1, p)
    BY <1>3, <1>5, <2>2
  <2> QED BY <1>2, <2>3 DEF HoldsAt, History
<1>7. CanonFollows'
  <2>1. CanonFollows
    BY DEF HistoryInv
  <2>2. ASSUME NEW i \in DOMAIN running, NEW r, r = running[i]
        PROVE  /\ call.from[i] + Len(call.canon[i]) = length'[r]
               /\ \A j \in 1..Len(call.canon[i]) :
                     call.canon[i][j] = History(r)'[call.from[i] + j]
    <3>1. History(r)' = History(r) /\ length'[r] = length[r]
      BY <1>2 DEF History
    <3> QED BY <1>2, <2>1, <2>2, <3>1 DEF CanonFollows
  <2> QED BY <1>2, <1>3, <2>2 DEF CanonFollows
<1>8. \A i \in DOMAIN running' : \A p \in 1..length'[running'[i]] :
         p < call'.from[i] + call'.round => HoldsAt(running[i], p)'
  BY <1>2, <1>6
<1> QED BY <1>2, <1>3, <1>7, <1>8 DEF HistoryInv

\* Freeing one member leaves the slots of the others alone.
LEMMA FreeHistory == ASSUME ShapeInv, HistoryInv, FreeFinished PROVE HistoryInv'
<1>1. PICK i \in DOMAIN running : running' = Without(running, i)
  BY DEF FreeFinished
<1>2. /\ call.pc = "post" /\ UNCHANGED <<model, slot, output_ids, length, kv, state, call>>
  BY DEF FreeFinished
<1>3. Range(running') \subseteq Range(running)
  <2>1. running \in Seq(Requests)
    BY DEF ShapeInv, TypeOK
  <2> QED BY <1>1, <2>1, WithoutRange
<1>4. \A r \in Range(running) : Held(r)
  BY <1>2, RestHeld
<1>5. \A r \in Range(running') : Held(r)'
  BY <1>2, <1>3, <1>4 DEF Held, HoldsAt, History
<1> QED BY <1>2, <1>5, HeldAtRest

\* When every row has run out of tokens, every slot holds its history.
LEMMA DoneHistory ==
    ASSUME DraftersKeepNoState, ShapeInv, HistoryInv, CanonicalizeDone
    PROVE  HistoryInv'
<1>1. TypeOK /\ Members /\ SpecShape
  BY DEF ShapeInv
<1>2. /\ call.pc = "canon" /\ CanonRows = {} /\ call'.pc = "post"
      /\ UNCHANGED <<model, running, slot, output_ids, length, kv, state>>
  BY IdleTypes DEF CanonicalizeDone
<1>3. ~model.recurrent
  BY <1>1, <1>2, DecodeConstants DEF TypeOK, SpecShape, DraftersKeepNoState
<1>4. ASSUME NEW i \in DOMAIN running, NEW r, r = running[i]
      PROVE  \A p \in 1..length[r] : HoldsAt(r, p)
  <2> DEFINE f == call.from[i]
             d == call.round
             l == Len(call.canon[i])
  <2>1. f \in Nat \ {0} /\ d \in Nat \ {0} /\ l \in Nat /\ f + l = length[r]
    BY <1>1, <1>2, <1>4, SMTT(30) DEF HistoryInv, CanonFollows, SpecShape, TypeOK
  <2>2. ~(d <= l)
    BY <1>2 DEF CanonRows
  <2>3. \A p \in 1..length[r] : p < f + d => HoldsAt(r, p)
    BY <1>2, <1>4 DEF HistoryInv
  <2> HIDE DEF f, d, l
  <2>4. \A p \in 1..length[r] : p < f + d
    BY <2>1, <2>2
  <2> QED BY <2>3, <2>4
<1>5. \A r \in Range(running) : \E i \in DOMAIN running : r = running[i]
  BY <1>1, BatchFacts
<1>6. \A r \in Range(running) : Held(r)
  BY <1>3, <1>4, <1>5 DEF Held
<1>7. \A r \in Range(running') : Held(r)'
  BY <1>2, <1>6 DEF Held, HoldsAt, History
<1> QED BY <1>2, <1>7, HeldAtRest

\* Every step preserves the history.
LEMMA NextHistory ==
    ASSUME DraftersKeepNoState, ShapeInv, HistoryInv, [Next]_vars
    PROVE  HistoryInv'
<1>1. CASE \E r \in Requests : Prefill(r)
  BY <1>1, PrefillHistory
<1>2. CASE FreeFinished
  BY <1>2, FreeHistory
<1>3. CASE DecodeEager
  BY <1>3, DecodeEagerHistory
<1>4. CASE Capture
  BY <1>4, CaptureHistory
<1>5. CASE Replay
  BY <1>5, ReplayHistory
<1>6. CASE SpecBase
  BY <1>6, SpecBaseHistory
<1>7. CASE SpecVerify
  BY <1>7, SpecVerifyHistory
<1>8. CASE Canonicalize
  BY <1>8, CanonicalizeHistory
<1>9. CASE CanonicalizeDone
  BY <1>9, DoneHistory
<1>10. CASE Postprocessed
  <2>1. /\ call.pc = "post" /\ call'.pc = "idle"
        /\ UNCHANGED <<model, running, slot, output_ids, length, kv, state>>
    BY <1>10, IdleTypes DEF Postprocessed
  <2>2. \A r \in Range(running) : Held(r)
    BY <2>1, RestHeld
  <2>3. \A r \in Range(running') : Held(r)'
    BY <2>1, <2>2 DEF Held, HoldsAt, History
  <2> QED BY <2>1, <2>3, HeldAtRest
<1>11. CASE TooWide
  <2>1. call'.pc = "too_wide"
    BY <1>11, IdleTypes DEF TooWide, CallTypes, Idle
  <2> QED BY <2>1 DEF HistoryInv, CanonFollows
<1>12. CASE UNCHANGED vars
  BY <1>12 DEF vars, HistoryInv, CanonFollows, HoldsAt, History
<1> QED BY <1>1, <1>2, <1>3, <1>4, <1>5, <1>6, <1>7, <1>8, <1>9, <1>10, <1>11, <1>12 DEF Next

\* At every point of a call, slots hold the histories as far as it says.
THEOREM HistoryHolds == ASSUME DraftersKeepNoState PROVE Spec => []HistoryInv
<1>1. Init => HistoryInv
  <2>1. Range(<<>>) = {}
    BY DEF Range
  <2>2. Init => running = <<>> /\ call.pc = "idle"
    BY DEF Init, Idle
  <2> QED BY <2>1, <2>2 DEF HistoryInv, CanonFollows
<1>2. ShapeInv /\ HistoryInv /\ [Next]_vars => HistoryInv'
  BY NextHistory
<1> QED BY <1>1, <1>2, ShapeHolds, PTL DEF Spec

\* Whatever the order of prefills, eager steps, captures, replays and
\* speculative steps, between calls the K/V of a member is what plain decoding
\* would have left for all its tokens but the last, and its recurrent state
\* has consumed exactly these: rejected drafts, verification's own K/V and
\* padding leave no trace.
THEOREM CommittedTokensAreHistory ==
    ASSUME DraftersKeepNoState
    PROVE  Spec => []CommittedIsHistory
<1>1. ShapeInv /\ HistoryInv => CommittedIsHistory
  <2> SUFFICES ASSUME ShapeInv, HistoryInv, call.pc = "idle", NEW r \in Range(running)
               PROVE  LET w == SubSeq(History(r), 1, Len(History(r)) - 1) IN
                      /\ length[r] = Len(w)
                      /\ \A i \in 1..Len(w) : kv[slot[r]][i] = SubSeq(w, 1, i)
                      /\ model.recurrent => state[slot[r]] = w
    BY DEF CommittedIsHistory
  <2> DEFINE h == History(r)
             n == length[r]
  <2>1. TypeOK /\ Members
    BY DEF ShapeInv
  <2>2. n \in Nat \ {0} /\ n + 1 = Len(h) /\ h \in Seq(Token)
    <3>1. PICK i \in DOMAIN running : running[i] = r
      BY <2>1, BatchFacts
    <3>2. r \in Requests /\ length[r] \in Nat \ {0}
      BY <2>1, <3>1, BatchFacts
    <3> QED BY <2>1, <3>2, HistoryFacts DEF Members
  <2>3. Held(r)
    BY RestHeld
  <2>4. /\ \A p \in 1..n : kv[slot[r]][p] = SubSeq(h, 1, p)
        /\ model.recurrent => state[slot[r]] = SubSeq(h, 1, n)
    BY <2>3 DEF Held, HoldsAt
  <2> HIDE DEF h, n
  <2>5. n \in 1..Len(h) /\ Len(h) - 1 = n
    BY <2>2
  <2>6. /\ Len(SubSeq(h, 1, n)) = n
        /\ \A i \in 1..n : SubSeq(SubSeq(h, 1, n), 1, i) = SubSeq(h, 1, i)
    BY <2>2, <2>5, PrefixProperties
  <2>7. /\ n = Len(SubSeq(h, 1, n))
        /\ \A i \in 1..n : kv[slot[r]][i] = SubSeq(SubSeq(h, 1, n), 1, i)
    BY <2>4, <2>6
  <2>8. LET w == SubSeq(h, 1, Len(h) - 1) IN
        /\ n = Len(w)
        /\ \A i \in 1..Len(w) : kv[slot[r]][i] = SubSeq(w, 1, i)
        /\ model.recurrent => state[slot[r]] = w
    BY <2>4, <2>5, <2>6, <2>7
  <2> QED BY <2>8 DEF h, n
<1> QED BY <1>1, ShapeHolds, HistoryHolds, PTL

-----------------------------------------------------------------------------
(* Speculative, replayed and eager steps decode greedily *)

\* What follows a greedy output token by token is greedy with it.
LEMMA GreedyMore ==
    ASSUME NEW r \in Requests, NEW out \in Seq(Token), NEW a \in Seq(Token),
           Greedy!IsGreedy(r, out),
           \A j \in 1..Len(a) :
              a[j] = Argmax[(Prompt[r] \o out) \o SubSeq(a, 1, j - 1)]
    PROVE  Greedy!IsGreedy(r, out \o a)
<1> DEFINE m == Len(out)
           n == Len(a)
           w == Prompt[r]
<1>1. /\ m \in Nat /\ n \in Nat /\ DOMAIN (out \o a) = 1..m + n
      /\ \A i \in 1..m + n : (out \o a)[i] = IF i <= m THEN out[i] ELSE a[i - m]
  <2>1. out \o a \in Seq(Token) /\ Len(out \o a) = m + n
    BY ConcatProperties
  <2> QED BY <2>1, ConcatProperties
<1>2. w \in Seq(Token)
  BY DecodeConstants
<1>3. /\ \A k \in 0..m : SubSeq(out \o a, 1, k) = SubSeq(out, 1, k)
      /\ \A k \in 0..n : SubSeq(out \o a, 1, m + k) = out \o SubSeq(a, 1, k)
  <2>1. \A k \in 0..Len(out) : SubSeq(out \o a, 1, k) = SubSeq(out, 1, k)
    BY PrefixBefore
  <2>2. \A k \in 0..Len(a) : SubSeq(out \o a, 1, Len(out) + k) = out \o SubSeq(a, 1, k)
    BY PrefixPast
  <2> QED BY <2>1, <2>2
<1>4. \A i \in 1..m : out[i] = Argmax[w \o SubSeq(out, 1, i - 1)]
  BY DEF Greedy!IsGreedy
<1>5. \A k \in 0..n : (w \o out) \o SubSeq(a, 1, k) = w \o (out \o SubSeq(a, 1, k))
  <2>1. \A k \in 0..n : SubSeq(a, 1, k) \in Seq(Token)
    BY FirstMembers
  <2>2. \A p, q, u \in Seq(Token) : (p \o q) \o u = p \o (q \o u)
    BY ConcatAssociative, SMTT(30)
  <2> HIDE DEF w, n
  <2> QED BY <1>2, <2>1, <2>2
<1>6. \A j \in 1..n : a[j] = Argmax[(w \o out) \o SubSeq(a, 1, j - 1)]
  OBVIOUS
<1> HIDE DEF m, n, w
<1>7. ASSUME NEW i \in 1..m + n
      PROVE  (out \o a)[i] = Argmax[w \o SubSeq(out \o a, 1, i - 1)]
  <2>1. CASE i <= m
    <3> DEFINE k == i - 1
    <3>1. k \in 0..m /\ i \in 1..m
      BY <1>1, <2>1
    <3>2. SubSeq(out \o a, 1, k) = SubSeq(out, 1, k)
      BY <1>3, <3>1
    <3>3. out[i] = Argmax[w \o SubSeq(out, 1, k)] /\ (out \o a)[i] = out[i]
      BY <1>1, <1>4, <2>1, <3>1
    <3> HIDE DEF k
    <3>4. (out \o a)[i] = Argmax[w \o SubSeq(out \o a, 1, k)]
      BY <3>2, <3>3
    <3> QED BY <3>4 DEF k
  <2>2. CASE ~(i <= m)
    <3> DEFINE j == i - m
               k == j - 1
    <3>1. j \in 1..n /\ k \in 0..n /\ i - 1 = m + k
      BY <1>1, <2>2
    <3>2. (out \o a)[i] = a[j]
      BY <1>1, <2>2
    <3>3. a[j] = Argmax[(w \o out) \o SubSeq(a, 1, k)]
      BY <1>6, <3>1
    <3> HIDE DEF j, k
    <3>4. (w \o out) \o SubSeq(a, 1, k) = w \o SubSeq(out \o a, 1, m + k)
      BY <1>3, <1>5, <3>1
    <3>5. (out \o a)[i] = Argmax[w \o SubSeq(out \o a, 1, m + k)]
      BY <3>2, <3>3, <3>4
    <3> QED BY <3>1, <3>5
  <2> QED BY <2>1, <2>2
<1> QED BY <1>1, <1>7 DEF Greedy!IsGreedy, w

\* One more token, the most likely one after all before it.
LEMMA GreedyOne ==
    ASSUME NEW r \in Requests, NEW out \in Seq(Token), NEW t \in Token,
           Greedy!IsGreedy(r, out), t = Argmax[Prompt[r] \o out]
    PROVE  Greedy!IsGreedy(r, Append(out, t))
<1>1. Append(out, t) = out \o <<t>> /\ <<t>> \in Seq(Token) /\ Len(<<t>>) = 1 /\ <<t>>[1] = t
  <2>1. <<t>> \in Seq(Token) /\ Len(<<t>>) = 1 /\ <<t>>[1] = t
    OBVIOUS
  <2> QED BY <2>1, AppendIsConcat
<1>2. Prompt[r] \in Seq(Token) /\ Prompt[r] \o out \in Seq(Token)
  BY ConcatProperties, DecodeConstants
<1>3. (Prompt[r] \o out) \o SubSeq(<<t>>, 1, 0) = Prompt[r] \o out
  <2>1. SubSeq(<<t>>, 1, 0) = <<>>
    BY SubSeqEmpty
  <2>2. \A q \in Seq(Token) : q \o <<>> = q
    BY ConcatEmptySeq
  <2> QED BY <1>2, <2>1, <2>2
<1> DEFINE a == <<t>>
<1>4. \A j \in 1..Len(a) : a[j] = Argmax[(Prompt[r] \o out) \o SubSeq(a, 1, j - 1)]
  <2> SUFFICES ASSUME NEW j \in 1..Len(a)
               PROVE  a[j] = Argmax[(Prompt[r] \o out) \o SubSeq(a, 1, j - 1)]
    OBVIOUS
  <2>1. j = 1 /\ j - 1 = 0
    BY <1>1
  <2>2. a[1] = Argmax[(Prompt[r] \o out) \o SubSeq(a, 1, 0)]
    BY <1>1, <1>3
  <2> HIDE DEF a
  <2> QED BY <2>1, <2>2
<1>5. a \in Seq(Token) /\ Append(out, t) = out \o a
  BY <1>1
<1> HIDE DEF a
<1>6. Greedy!IsGreedy(r, out \o a)
  BY <1>4, <1>5, GreedyMore
<1> QED BY <1>5, <1>6

\* A request that has not reached its end may have one more token.
LEMMA OneInTime ==
    ASSUME TypeOK, NEW r \in Requests, NEW t \in Token, ~Finished(r),
           Greedy!StopsInTime(r, output_ids[r])
    PROVE  Greedy!StopsInTime(r, Append(output_ids[r], t))
<1> DEFINE out == output_ids[r]
           n == Len(out)
<1>1. out \in Seq(Token) /\ n \in Nat /\ MaxTokens[r] \in Nat
  BY DecodeConstants DEF TypeOK
<1>2. n < MaxTokens[r] /\ (out # <<>> /\ out[n] = Eos => r \in IgnoreEos)
  BY <1>1 DEF Finished
<1>3. /\ Len(Append(out, t)) = n + 1 /\ \A i \in 1..n : Append(out, t)[i] = out[i]
  BY <1>1, AppendProperties
<1>4. \A i \in 1..n - 1 : out[i] = Eos => r \in IgnoreEos
  BY DEF Greedy!StopsInTime
<1>5. n > 0 => out # <<>>
  BY <1>1
<1> HIDE DEF out, n
<1>6. ASSUME NEW i \in 1..n, out[i] = Eos PROVE r \in IgnoreEos
  <2>1. CASE i = n
    BY <1>1, <1>2, <1>5, <1>6, <2>1
  <2>2. CASE i # n
    BY <1>1, <1>4, <1>6, <2>2
  <2> QED BY <2>1, <2>2
<1>7. /\ n + 1 <= MaxTokens[r]
      /\ \A i \in 1..(n + 1) - 1 : Append(out, t)[i] = Eos => r \in IgnoreEos
  BY <1>1, <1>2, <1>3, <1>6
<1>8. Greedy!StopsInTime(r, Append(out, t))
  BY <1>3, <1>7 DEF Greedy!StopsInTime
<1> QED BY <1>8 DEF out

\* A model that drafts serves greedy requests only that ignore eos_id: what
\* happens to the others is a finding, see the README.
DraftersIgnoreEos == (\E m \in Models : m.depths > 0) => Requests \ Sampled \subseteq IgnoreEos

\* What every output is.
OutputsFine ==
    \A r \in Requests :
        /\ r \notin Sampled => Greedy!IsGreedy(r, output_ids[r])
        /\ Greedy!StopsInTime(r, output_ids[r])

\* Outputs change at their end only.
OutputsGrow ==
    \A r \in Requests : \E a \in Seq(Token) : output_ids'[r] = output_ids[r] \o a

\* An unchanged output is one that grows by nothing.
LEMMA GrowByNothing ==
    ASSUME TypeOK, NEW r \in Requests, output_ids'[r] = output_ids[r]
    PROVE  \E a \in Seq(Token) : output_ids'[r] = output_ids[r] \o a
<1>1. output_ids[r] \in Seq(Token) /\ <<>> \in Seq(Token)
  BY EmptySeq DEF TypeOK
<1>2. output_ids[r] \o <<>> = output_ids[r]
  BY <1>1, ConcatEmptySeq
<1> QED BY <1>1, <1>2

\* What a member's row is computed from is all its tokens.
LEMMA MemberContext ==
    ASSUME ShapeInv, NEW rows, NEW i \in DOMAIN running, NEW r, r = running[i],
           Held(r), rows[i] = slot[r]
    PROVE  /\ Contexts(LengthsOf(running), LastTokens(running), rows)[i] = History(r)
           /\ History(r) # Rough
<1> DEFINE n == LengthsOf(running)
           tok == LastTokens(running)
           h == History(r)
           l == length[r]
<1>1. TypeOK /\ Members
  BY DEF ShapeInv
<1>2. /\ r \in Range(running) /\ r \in Requests /\ l \in Nat \ {0} /\ l + 1 = Len(h)
      /\ h \in Seq(Token) /\ n[i] = l /\ tok[i] = h[l + 1] /\ i \in DOMAIN tok
  BY <1>1, BatchFacts, HistoryFacts DEF Members
<1>3. Contexts(n, tok, rows)[i] = Extend(Context(slot[r], l, slot[r]), <<h[l + 1]>>)
  <2> HIDE DEF n, tok, h, l
  <2> QED BY <1>2 DEF Contexts
<1>4. l \in 1..Len(h) /\ l < Len(h)
  <2> HIDE DEF l, h
  <2> QED BY <1>2
<1>5. Extend(Context(slot[r], l, slot[r]), <<h[l + 1]>>) = SubSeq(h, 1, l + 1)
  <2>1. TypeOK /\ l \in 1..Len(History(r)) /\ l < Len(History(r)) /\ r \in Requests
    BY <1>1, <1>2, <1>4
  <2>2. /\ \A p \in 1..l : HoldsAt(r, p)
        /\ model.recurrent => state[slot[r]] = SubSeq(History(r), 1, l)
    BY DEF Held
  <2> HIDE DEF l
  <2> QED BY <2>1, <2>2, ContextHolds
<1>6. SubSeq(h, 1, l + 1) = h /\ h # <<>>
  <2> HIDE DEF l, h
  <2>1. SubSeq(h, 1, Len(h)) = h
    BY <1>2, SubSeqFull
  <2>2. Len(h) > 0
    BY <1>2
  <2> QED BY <1>2, <2>1, <2>2
<1> HIDE DEF h
<1>7. Contexts(n, tok, rows)[i] = h /\ h # <<>>
  BY <1>3, <1>5, <1>6
<1> QED BY <1>7 DEF h, Rough

\* Every member's next token is that of plain decoding.
LEMMA StepGreedy ==
    ASSUME ShapeInv, GreedyInv, call.pc \in {"idle", "replay"}, NEW rows,
           \A r \in Range(running) : Held(r),
           \A i \in DOMAIN running : rows[i] = slot[running[i]],
           NEW tok \in Samples(running, Contexts(LengthsOf(running), LastTokens(running), rows)),
           Append1(running, tok), Advance(running)
    PROVE  OutputsFine' /\ OutputsGrow
<1>1. TypeOK /\ Members
  BY DEF ShapeInv
<1>2. /\ tok \in [DOMAIN running -> Token]
      /\ \A i \in DOMAIN running : tok[i] \in
            Sample(running[i], Contexts(LengthsOf(running), LastTokens(running), rows)[i])
  BY DEF Samples
<1>3. /\ \A r \in Requests : r \notin Range(running) => output_ids'[r] = output_ids[r]
      /\ \A i \in DOMAIN running : \A r \in Requests : r = running[i] =>
            output_ids'[r] = Append(output_ids[r], tok[i])
  BY <1>1, <1>2, AppendOne
<1>4. ASSUME NEW i \in DOMAIN running, NEW r \in Requests, r = running[i]
      PROVE  /\ r \notin Sampled => Greedy!IsGreedy(r, output_ids'[r])
             /\ Greedy!StopsInTime(r, output_ids'[r])
             /\ \E a \in Seq(Token) : output_ids'[r] = output_ids[r] \o a
  <2> DEFINE out == output_ids[r]
             t == tok[i]
  <2>1. out \in Seq(Token) /\ t \in Token /\ r \in Range(running)
    BY <1>1, <1>2, <1>4, BatchFacts DEF TypeOK
  <2>2. output_ids'[r] = Append(out, t)
    BY <1>3, <1>4
  <2>3. r \notin Sampled => t = Argmax[History(r)]
    <3>1. /\ Contexts(LengthsOf(running), LastTokens(running), rows)[i] = History(r)
          /\ History(r) # Rough
      BY <1>4, <2>1, MemberContext
    <3>2. t \in Sample(r, History(r))
      BY <1>2, <1>4, <3>1
    <3> QED BY <3>1, <3>2 DEF Sample
  <2>4. ~Finished(r) /\ Greedy!StopsInTime(r, out) /\ (r \notin Sampled => Greedy!IsGreedy(r, out))
    BY <2>1 DEF GreedyInv
  <2>5. Greedy!StopsInTime(r, Append(out, t))
    <3> HIDE DEF t
    <3> QED BY <1>1, <2>1, <2>4, OneInTime
  <2>6. r \notin Sampled => Greedy!IsGreedy(r, Append(out, t))
    <3>1. r \notin Sampled => t = Argmax[Prompt[r] \o out]
      BY <2>3 DEF History
    <3> HIDE DEF t, out
    <3> QED BY <2>1, <2>4, <3>1, GreedyOne
  <2>7. Append(out, t) = out \o <<t>> /\ <<t>> \in Seq(Token)
    <3>1. <<t>> \in Seq(Token)
      BY <2>1
    <3> HIDE DEF t, out
    <3> QED BY <2>1, <3>1, AppendIsConcat
  <2> HIDE DEF t, out
  <2> QED BY <2>2, <2>5, <2>6, <2>7 DEF out
<1>5. ASSUME NEW r \in Requests, r \notin Range(running)
      PROVE  /\ r \notin Sampled => Greedy!IsGreedy(r, output_ids'[r])
             /\ Greedy!StopsInTime(r, output_ids'[r])
             /\ \E a \in Seq(Token) : output_ids'[r] = output_ids[r] \o a
  <2>1. output_ids'[r] = output_ids[r]
    BY <1>3, <1>5
  <2>2. \E a \in Seq(Token) : output_ids'[r] = output_ids[r] \o a
    BY <1>1, <2>1, GrowByNothing
  <2>3. /\ r \notin Sampled => Greedy!IsGreedy(r, output_ids[r])
        /\ Greedy!StopsInTime(r, output_ids[r])
    BY DEF GreedyInv
  <2> QED BY <2>1, <2>2, <2>3
<1>6. \A r \in Range(running) : \E i \in DOMAIN running : r = running[i]
  BY <1>1, BatchFacts
<1>7. \A r \in Requests :
         /\ r \notin Sampled => Greedy!IsGreedy(r, output_ids'[r])
         /\ Greedy!StopsInTime(r, output_ids'[r])
         /\ \E a \in Seq(Token) : output_ids'[r] = output_ids[r] \o a
  BY <1>4, <1>5, <1>6
<1> QED BY <1>7 DEF OutputsFine, OutputsGrow

\* A first token.
LEMMA PrefillGreedy ==
    ASSUME ShapeInv, GreedyInv, NEW r \in Requests, Prefill(r)
    PROVE  OutputsFine' /\ OutputsGrow
<1> DEFINE w == Prompt[r]
<1>1. PICK t \in Sample(r, w) : output_ids' = [output_ids EXCEPT ![r] = <<t>>]
  BY DEF Prefill
<1>2. output_ids[r] = <<>>
  BY DEF Prefill
<1>3. TypeOK
  BY DEF ShapeInv
<1>4. w \in Seq(Token) /\ w # <<>> /\ MaxTokens[r] \in Nat \ {0}
  BY DecodeConstants
<1>5. t \in Token /\ (r \notin Sampled => t = Argmax[w])
  BY <1>1, <1>4 DEF Sample, Rough
<1>6. ASSUME NEW q \in Requests, q # r PROVE output_ids'[q] = output_ids[q]
  BY <1>1, <1>3, <1>6 DEF TypeOK
<1>7. output_ids'[r] = <<t>>
  BY <1>1, <1>3 DEF TypeOK
<1>8. <<t>> \in Seq(Token) /\ Len(<<t>>) = 1 /\ <<t>> = Append(<<>>, t) /\ <<>> \in Seq(Token)
  BY <1>5
<1>9. <<>> \o <<t>> = <<t>>
  <2>1. \A q \in Seq(Token) : <<>> \o q = q
    BY ConcatEmptySeq
  <2> QED BY <1>8, <2>1
<1>10. r \notin Sampled => Greedy!IsGreedy(r, <<t>>)
  <2>1. Greedy!IsGreedy(r, <<>>)
    BY DEF Greedy!IsGreedy
  <2>2. w \o <<>> = w
    <3> HIDE DEF w
    <3> QED BY <1>4, ConcatEmptySeq
  <2>3. r \notin Sampled => t = Argmax[w \o <<>>]
    BY <1>5, <2>2
  <2>4. ASSUME NEW e \in Seq(Token), e = <<>>, r \notin Sampled
        PROVE  Greedy!IsGreedy(r, Append(e, t))
    <3>1. t = Argmax[Prompt[r] \o e] /\ Greedy!IsGreedy(r, e)
      BY <2>1, <2>3, <2>4
    <3> HIDE <2>4
    <3> QED BY <1>5, <3>1, GreedyOne
  <2> QED BY <1>8, <2>4
<1>11. Greedy!StopsInTime(r, <<t>>)
  <2>1. 1 <= MaxTokens[r] /\ 1..1 - 1 = {}
    BY <1>4
  <2> QED BY <1>8, <2>1 DEF Greedy!StopsInTime
<1>12. ASSUME NEW q \in Requests
       PROVE  /\ q \notin Sampled => Greedy!IsGreedy(q, output_ids'[q])
              /\ Greedy!StopsInTime(q, output_ids'[q])
              /\ \E a \in Seq(Token) : output_ids'[q] = output_ids[q] \o a
  <2>1. CASE q = r
    <3>1. output_ids'[r] = output_ids[r] \o <<t>>
      BY <1>2, <1>7, <1>9
    <3> QED BY <1>7, <1>8, <1>10, <1>11, <2>1, <3>1
  <2>2. CASE q # r
    <3>1. \E a \in Seq(Token) : output_ids'[q] = output_ids[q] \o a
      BY <1>3, <1>6, <2>2, GrowByNothing
    <3>2. /\ q \notin Sampled => Greedy!IsGreedy(q, output_ids[q])
          /\ Greedy!StopsInTime(q, output_ids[q])
      BY DEF GreedyInv
    <3>3. output_ids'[q] = output_ids[q]
      BY <1>6, <2>2
    <3> QED BY <3>1, <3>2, <3>3
  <2> QED BY <2>1, <2>2
<1> QED BY <1>12 DEF OutputsFine, OutputsGrow

\* Verification accepts drafts as far as they are the tokens of plain
\* decoding.
LEMMA MatchesFacts ==
    ASSUME ShapeInv, NEW i, NEW w
    PROVE  /\ Matches(i, w) \in 0..model.depths
           /\ \A t \in 1..Matches(i, w) :
                 call.drafts[i][t] = Argmax[w \o SubSeq(VerifyIds(i), 1, t)]
<1> DEFINE Good(m) == \A t \in 1..m :
              call.drafts[i][t] = Argmax[w \o SubSeq(VerifyIds(i), 1, t)]
           M == {m \in 0..model.depths : Good(m)}
<1>1. model.depths \in Nat
  BY DecodeConstants DEF ShapeInv, TypeOK
<1>2. Matches(i, w) = MaxOf(M)
  BY DEF Matches
<1>3. 0 \in M
  BY <1>1
<1>4. M \subseteq 0..model.depths /\ \A m \in M : Good(m)
  OBVIOUS
<1> HIDE DEF Good, M
<1>5. \E m \in M : \A n \in M : n <= m
  BY <1>1, <1>3, <1>4, HasGreatest
<1>6. MaxOf(M) \in M
  BY <1>5 DEF MaxOf
<1> QED BY <1>2, <1>4, <1>6 DEF Good

\* The tokens that a speculative step commits are those of plain decoding.
LEMMA AcceptedGreedy ==
    ASSUME DraftersKeepNoState, ShapeInv, HistoryInv, GreedyInv, call.pc = "verify",
           NEW i \in DOMAIN running, NEW m \in Verdicts(i),
           NEW r, r = running[i]
    PROVE  /\ m \in 0..model.depths
           /\ \A j \in 1..Len(Accepted(i, m)) :
                 Accepted(i, m)[j] =
                    Argmax[History(r) \o SubSeq(Accepted(i, m), 1, j - 1)]
<1> DEFINE h == History(r)
           l == length[r]
           v == VerifyIds(i)
           a == Accepted(i, m)
<1>1. TypeOK /\ Members /\ SpecShape
  BY DEF ShapeInv
<1>2. /\ r \in Range(running) /\ r \in Requests /\ l \in Nat \ {0} /\ l + 1 = Len(h)
      /\ h \in Seq(Token)
  BY <1>1, BatchFacts, HistoryFacts DEF Members
<1>3. /\ ~model.recurrent /\ model.depths \in Nat
      /\ bound[i] = slot[r]
      /\ call.base[i] \in Token /\ call.drafts[i] \in [1..model.depths -> Token]
      /\ call.base[i] = Argmax[h]
  <2>1. /\ Speculative /\ bound = SlotsOf(running) /\ call.base \in [DOMAIN running -> Token]
        /\ call.drafts \in [DOMAIN running -> [1..model.depths -> Token]]
    BY <1>1 DEF SpecShape
  <2>2. ~model.recurrent /\ model.depths \in Nat
    BY <1>1, <2>1, DecodeConstants DEF TypeOK, Speculative, DraftersKeepNoState
  <2>3. SlotsOf(running)[i] = slot[r]
    BY <1>1, BatchFacts
  <2>4. call.base[i] = Argmax[h]
    BY DEF GreedyInv
  <2> QED BY <2>1, <2>2, <2>3, <2>4
<1>4. Context(slot[r], l + 1, bound[i]) = h /\ h # Rough
  <2>1. \A p \in 1..l + 1 : kv[slot[r]][p] = SubSeq(h, 1, p)
    BY <1>2 DEF HistoryInv, HoldsAt
  <2> HIDE DEF h, l
  <2>2. SubSeq(h, 1, Len(h)) = h
    BY <1>2, SubSeqFull
  <2>3. l + 1 \in 1..l + 1
    BY <1>2
  <2>4. kv[slot[r]][l + 1] = h
    BY <1>2, <2>1, <2>2, <2>3
  <2>5. h # <<>>
    <3>1. Len(h) > 0
      BY <1>2
    <3> QED BY <1>2, <3>1
  <2> QED BY <1>2, <1>3, <2>1, <2>4, <2>5 DEF Context, Rough
<1>5. m = Matches(i, h)
  <2> HIDE DEF h
  <2>1. Verdicts(i) = {Matches(i, h)}
    <3>1. Context(slot[running[i]], length[running[i]] + 1, bound[i]) = h
      BY <1>4
    <3> QED BY <1>4, <3>1 DEF Verdicts
  <2> QED BY <2>1
<1>6. /\ m \in 0..model.depths
      /\ \A t \in 1..m : call.drafts[i][t] = Argmax[h \o SubSeq(v, 1, t)]
  <2> HIDE DEF h
  <2> QED BY <1>5, MatchesFacts
<1>7. /\ v \in Seq(Token) /\ Len(v) = model.depths + 1
      /\ a \in Seq(Token) /\ Len(a) \in 1..m + 1
      /\ \A j \in 1..Len(a) : a[j] = v[j]
  BY <1>6, AcceptedFacts
<1>8. v[1] = call.base[i] /\ \A t \in 1..model.depths : v[t + 1] = call.drafts[i][t]
  <2>1. /\ <<call.base[i]>> \in Seq(Token) /\ Len(<<call.base[i]>>) = 1
        /\ <<call.base[i]>>[1] = call.base[i]
        /\ call.drafts[i] \in Seq(Token) /\ Len(call.drafts[i]) = model.depths
    BY <1>3
  <2> DEFINE b == <<call.base[i]>>
             d == call.drafts[i]
  <2>2. v = b \o d
    BY DEF VerifyIds
  <2>3. b \in Seq(Token) /\ d \in Seq(Token) /\ Len(b) = 1 /\ Len(d) = model.depths
    BY <2>1
  <2> HIDE DEF b, d, v
  <2>4. \A k \in 1..Len(b) + Len(d) : (b \o d)[k] = IF k <= Len(b) THEN b[k] ELSE d[k - Len(b)]
    BY <2>3, ConcatProperties
  <2>5. v[1] = b[1]
    <3>1. 1 \in 1..Len(b) + Len(d) /\ 1 <= Len(b)
      BY <1>3, <2>3
    <3> QED BY <2>2, <2>4, <3>1
  <2>6. ASSUME NEW t \in 1..model.depths, NEW k, k = t + 1 PROVE v[k] = d[t]
    <3>1. k \in 1..Len(b) + Len(d) /\ ~(k <= Len(b)) /\ k - Len(b) = t
      BY <1>3, <2>3, <2>6
    <3> QED BY <2>2, <2>4, <3>1
  <2> QED BY <2>1, <2>5, <2>6 DEF b, d
<1> HIDE DEF h, l, v, a
<1>9. \A k \in 0..Len(a) : SubSeq(a, 1, k) = SubSeq(v, 1, k)
  <2> SUFFICES ASSUME NEW k \in 0..Len(a) PROVE SubSeq(a, 1, k) = SubSeq(v, 1, k)
    OBVIOUS
  <2> DEFINE x == SubSeq(a, 1, k)
             y == SubSeq(v, 1, k)
  <2>1. k \in 0..Len(v) /\ \A j \in 1..k : j \in 1..Len(a)
    BY <1>3, <1>6, <1>7
  <2>2. x \in Seq(Token) /\ Len(x) = k /\ \A j \in 1..k : x[j] = a[j]
    BY <1>7, FirstMembers
  <2>3. y \in Seq(Token) /\ Len(y) = k /\ \A j \in 1..k : y[j] = v[j]
    BY <1>7, <2>1, FirstMembers
  <2> HIDE DEF x, y
  <2>4. \A j \in 1..k : x[j] = y[j]
    BY <1>7, <2>1, <2>2, <2>3
  <2>5. x = y
    BY <2>2, <2>3, <2>4, SeqEqual
  <2> QED BY <2>5 DEF x, y
<1>10. ASSUME NEW j \in 1..Len(a)
       PROVE  a[j] = Argmax[h \o SubSeq(a, 1, j - 1)]
  <2>1. CASE j = 1
    <3>1. SubSeq(a, 1, 0) = <<>> /\ h \o <<>> = h
      BY <1>2, SubSeqEmpty, ConcatEmptySeq
    <3>2. a[1] = Argmax[h] /\ j - 1 = 0
      BY <1>3, <1>7, <1>8, <2>1 DEF h
    <3> QED BY <2>1, <3>1, <3>2
  <2>2. CASE j # 1
    <3> DEFINE t == j - 1
    <3>1. t \in 1..m /\ t \in 1..model.depths /\ t \in 0..Len(a) /\ t + 1 = j
      BY <1>3, <1>6, <1>7, <2>2
    <3> HIDE DEF t
    <3>2. a[j] = v[j] /\ v[t + 1] = call.drafts[i][t]
      BY <1>7, <1>8, <3>1
    <3>3. call.drafts[i][t] = Argmax[h \o SubSeq(v, 1, t)]
      BY <1>6, <3>1
    <3>4. SubSeq(a, 1, t) = SubSeq(v, 1, t)
      BY <1>9, <3>1
    <3>5. a[j] = Argmax[h \o SubSeq(a, 1, t)]
      BY <3>1, <3>2, <3>3, <3>4
    <3> QED BY <3>5 DEF t
  <2> QED BY <2>1, <2>2
<1> QED BY <1>6, <1>10 DEF a, h

\* A speculative step commits any number of tokens, all of them greedy.
LEMMA SpecVerifyGreedy ==
    ASSUME DraftersKeepNoState, DraftersIgnoreEos, ShapeInv, HistoryInv, GreedyInv, SpecVerify
    PROVE  OutputsFine' /\ OutputsGrow
<1>1. TypeOK /\ Members /\ SpecShape
  BY DEF ShapeInv
<1>2. call.pc = "verify"
  BY DEF SpecVerify
<1>3. PICK m \in [DOMAIN running -> 0..model.depths] :
        /\ \A i \in DOMAIN running : m[i] \in Verdicts(i)
        /\ \A i \in DOMAIN running : \A r \in Requests : r = running[i] =>
              output_ids'[r] = output_ids[r] \o Accepted(i, m[i])
        /\ \A r \in Requests : r \notin Range(running) => output_ids'[r] = output_ids[r]
  BY VerifyFacts
<1>4. \A r \in Range(running) : r \notin Sampled /\ r \in IgnoreEos
  <2>1. Speculative /\ model \in Models
    BY <1>1, <1>2 DEF SpecShape, TypeOK
  <2>2. \A r \in Range(running) : r \in Requests
    BY <1>1, BatchFacts
  <2> QED BY <2>1, <2>2 DEF Speculative, DraftersIgnoreEos
<1>5. ASSUME NEW i \in DOMAIN running, NEW r \in Requests, r = running[i]
      PROVE  /\ r \notin Sampled => Greedy!IsGreedy(r, output_ids'[r])
             /\ Greedy!StopsInTime(r, output_ids'[r])
             /\ \E a \in Seq(Token) : output_ids'[r] = output_ids[r] \o a
  <2> DEFINE out == output_ids[r]
             a == Accepted(i, m[i])
  <2>1. out \in Seq(Token) /\ r \in Range(running) /\ MaxTokens[r] \in Nat
    BY <1>1, <1>5, BatchFacts, DecodeConstants DEF TypeOK
  <2>2. output_ids'[r] = out \o a
    BY <1>3, <1>5
  <2>3. /\ m[i] \in 0..model.depths
        /\ \A j \in 1..Len(a) : a[j] = Argmax[History(r) \o SubSeq(a, 1, j - 1)]
    BY <1>2, <1>3, <1>5, AcceptedGreedy
  <2>4. /\ a \in Seq(Token)
        /\ Len(out) < MaxTokens[r] => Len(out) + Len(a) <= MaxTokens[r]
    BY <1>2, <1>5, <2>3, AcceptedFacts
  <2>5. ~Finished(r) /\ (r \notin Sampled => Greedy!IsGreedy(r, out))
    BY <1>2, <2>1 DEF GreedyInv
  <2> HIDE DEF a
  <2>6. r \notin Sampled => Greedy!IsGreedy(r, out \o a)
    <3>1. \A j \in 1..Len(a) : a[j] = Argmax[(Prompt[r] \o out) \o SubSeq(a, 1, j - 1)]
      BY <2>3 DEF History
    <3> HIDE DEF out
    <3> QED BY <2>1, <2>4, <2>5, <3>1, GreedyMore
  <2>7. Len(out) < MaxTokens[r]
    BY <2>1, <2>5 DEF Finished
  <2> HIDE DEF out
  <2>8. Len(out \o a) <= MaxTokens[r]
    <3>1. Len(out \o a) = Len(out) + Len(a)
      BY <2>1, <2>4, ConcatProperties
    <3> QED BY <2>4, <2>7, <3>1
  <2>9. Greedy!StopsInTime(r, out \o a)
    BY <1>4, <2>1, <2>8 DEF Greedy!StopsInTime
  <2> QED BY <2>2, <2>4, <2>6, <2>9 DEF out
<1>6. ASSUME NEW r \in Requests, r \notin Range(running)
      PROVE  /\ r \notin Sampled => Greedy!IsGreedy(r, output_ids'[r])
             /\ Greedy!StopsInTime(r, output_ids'[r])
             /\ \E a \in Seq(Token) : output_ids'[r] = output_ids[r] \o a
  <2>1. output_ids'[r] = output_ids[r]
    BY <1>3, <1>6
  <2>2. \E a \in Seq(Token) : output_ids'[r] = output_ids[r] \o a
    BY <1>1, <2>1, GrowByNothing
  <2>3. /\ r \notin Sampled => Greedy!IsGreedy(r, output_ids[r])
        /\ Greedy!StopsInTime(r, output_ids[r])
    BY DEF GreedyInv
  <2> QED BY <2>1, <2>2, <2>3
<1>7. \A r \in Range(running) : \E i \in DOMAIN running : r = running[i]
  BY <1>1, BatchFacts
<1>8. \A r \in Requests :
         /\ r \notin Sampled => Greedy!IsGreedy(r, output_ids'[r])
         /\ Greedy!StopsInTime(r, output_ids'[r])
         /\ \E a \in Seq(Token) : output_ids'[r] = output_ids[r] \o a
  BY <1>5, <1>6, <1>7
<1> QED BY <1>8 DEF OutputsFine, OutputsGrow

\* The base tokens of a speculative step.
LEMMA SpecBaseGreedy ==
    ASSUME ShapeInv, HistoryInv, GreedyInv, SpecBase
    PROVE  \A i \in DOMAIN running : call'.base[i] = Argmax[History(running[i])]
<1> DEFINE rows == SlotsOf(running)
<1>1. PICK base \in Samples(running, Contexts(LengthsOf(running), LastTokens(running), rows)),
           drafts \in [DOMAIN running -> [1..model.depths -> Token]] :
         call' = [Idle EXCEPT !.pc = "verify", !.base = base, !.drafts = drafts]
  BY DEF SpecBase
<1>2. call.pc = "idle" /\ Speculative
  BY DEF SpecBase
<1>3. TypeOK /\ Members
  BY DEF ShapeInv
<1>4. call'.base = base
  BY <1>1 DEF Idle
<1>5. \A i \in DOMAIN running :
         base[i] \in Sample(running[i], Contexts(LengthsOf(running), LastTokens(running), rows)[i])
  BY <1>1 DEF Samples
<1>6. ASSUME NEW i \in DOMAIN running, NEW r, r = running[i]
      PROVE  base[i] = Argmax[History(r)]
  <2>1. r \in Range(running) /\ rows[i] = slot[r]
    BY <1>3, <1>6, BatchFacts
  <2>2. Held(r) /\ r \notin Sampled
    BY <1>2, <2>1, RestHeld DEF Speculative
  <2> HIDE DEF rows
  <2>3. /\ Contexts(LengthsOf(running), LastTokens(running), rows)[i] = History(r)
        /\ History(r) # Rough
    BY <1>6, <2>1, <2>2, MemberContext
  <2>4. base[i] \in Sample(r, History(r))
    BY <1>5, <1>6, <2>3
  <2> QED BY <2>2, <2>3, <2>4 DEF Sample
<1> QED BY <1>4, <1>6

\* Every step keeps outputs fine, and grows them.
LEMMA NextGreedy ==
    ASSUME DraftersKeepNoState, DraftersIgnoreEos, ShapeInv, HistoryInv, GreedyInv, [Next]_vars
    PROVE  GreedyInv' /\ OutputsGrow
<1>1. TypeOK /\ Members
  BY DEF ShapeInv
<1>2. ASSUME OutputsFine', call'.pc \in {"post", "canon", "too_wide"}
      PROVE  GreedyInv'
  BY <1>2 DEF OutputsFine, GreedyInv
<1>3. ASSUME output_ids' = output_ids
      PROVE  OutputsFine' /\ OutputsGrow
  <2>1. OutputsFine'
    BY <1>3 DEF GreedyInv, OutputsFine
  <2> QED BY <1>1, <1>3, <2>1, GrowByNothing DEF OutputsGrow
<1>4. CASE \E r \in Requests : Prefill(r)
  <2>1. call'.pc = "post"
    BY <1>4, IdleTypes DEF Prefill
  <2> QED BY <1>2, <1>4, <2>1, PrefillGreedy
<1>5. CASE DecodeEager
  <2> DEFINE rows == SlotsOf(running)
  <2>1. PICK tok \in Samples(running, Contexts(LengthsOf(running), LastTokens(running), rows)) :
           Append1(running, tok)
    BY <1>5 DEF DecodeEager
  <2>2. call.pc = "idle" /\ Advance(running) /\ call'.pc = "post"
    BY <1>5, IdleTypes DEF DecodeEager
  <2>3. \A i \in DOMAIN running : rows[i] = slot[running[i]]
    BY <1>1, BatchFacts
  <2>4. \A r \in Range(running) : Held(r)
    BY <2>2, RestHeld
  <2> HIDE DEF rows
  <2>5. OutputsFine' /\ OutputsGrow
    BY <2>1, <2>2, <2>3, <2>4, StepGreedy
  <2> QED BY <1>2, <2>2, <2>5
<1>6. CASE Replay
  <2> DEFINE rows == Filled(graphs[Key])
  <2>1. PICK tok \in Samples(running, Contexts(LengthsOf(running), LastTokens(running), rows)) :
           Append1(running, tok)
    BY <1>6 DEF Replay
  <2>2. /\ call.pc \in {"idle", "replay"} /\ Advance(running) /\ call'.pc = "post"
        /\ Key \in DOMAIN graphs /\ running # <<>>
    BY <1>6, IdleTypes DEF Replay
  <2>3. \A i \in DOMAIN running : rows[i] = slot[running[i]]
    BY <2>2, FilledFacts
  <2>4. \A r \in Range(running) : Held(r)
    BY <2>2, RestHeld
  <2> HIDE DEF rows
  <2>5. OutputsFine' /\ OutputsGrow
    BY <2>1, <2>2, <2>3, <2>4, StepGreedy
  <2> QED BY <1>2, <2>2, <2>5
<1>7. CASE SpecVerify
  <2>1. call'.pc = "canon"
    <3>1. call \in CallTypes
      BY <1>1 DEF TypeOK, CallTypes
    <3>2. PICK m : call' = [call EXCEPT !.pc = "canon",
             !.canon = [i \in DOMAIN running |-> Intermediate(Accepted(i, m[i]))],
             !.from = [i \in DOMAIN running |-> length[running[i]] + 1]]
      BY <1>7, VerifyFacts
    <3> QED BY <3>1, <3>2 DEF CallTypes
  <2> QED BY <1>2, <1>7, <2>1, SpecVerifyGreedy
<1>8. CASE SpecBase
  <2>1. /\ call.pc = "idle" /\ call'.pc = "verify"
        /\ UNCHANGED <<running, output_ids>>
    BY <1>8 DEF SpecBase, Idle
  <2>2. \A i \in DOMAIN running : call'.base[i] = Argmax[History(running[i])]
    BY <1>8, SpecBaseGreedy
  <2>3. \A r \in Range(running) : ~Finished(r)
    BY <2>1 DEF GreedyInv
  <2>4. OutputsFine' /\ OutputsGrow
    BY <1>3, <2>1
  <2> QED BY <2>1, <2>2, <2>3, <2>4 DEF GreedyInv, OutputsFine, Finished, History
<1>9. CASE Capture
  <2>1. /\ call.pc = "idle" /\ call'.pc = "replay" /\ UNCHANGED <<running, output_ids>>
    BY <1>9, IdleTypes DEF Capture
  <2>2. \A r \in Range(running) : ~Finished(r)
    BY <2>1 DEF GreedyInv
  <2>3. OutputsFine' /\ OutputsGrow
    BY <1>3, <2>1
  <2> QED BY <2>1, <2>2, <2>3 DEF GreedyInv, OutputsFine, Finished
<1>10. CASE Postprocessed
  <2>1. /\ \A r \in Range(running) : ~Finished(r)
        /\ call'.pc = "idle" /\ UNCHANGED <<running, output_ids>>
    BY <1>10, IdleTypes DEF Postprocessed
  <2>2. OutputsFine' /\ OutputsGrow
    BY <1>3, <2>1
  <2> QED BY <2>1, <2>2 DEF GreedyInv, OutputsFine, Finished
<1>11. CASE FreeFinished \/ Canonicalize \/ CanonicalizeDone \/ TooWide
  <2>1. call \in CallTypes
    BY <1>1 DEF TypeOK, CallTypes
  <2>2. output_ids' = output_ids /\ call'.pc \in {"post", "canon", "too_wide"}
    BY <1>11, <2>1, IdleTypes DEF FreeFinished, Canonicalize, CanonicalizeDone, TooWide,
                                  CallTypes, Idle
  <2> QED BY <1>2, <1>3, <2>2
<1>12. CASE UNCHANGED vars
  <2>1. /\ UNCHANGED <<running, output_ids, call>>
    BY <1>12 DEF vars
  <2>2. OutputsFine' /\ OutputsGrow
    BY <1>3, <2>1
  <2> QED BY <2>1, <2>2 DEF GreedyInv, OutputsFine, Finished, History
<1> QED BY <1>4, <1>5, <1>6, <1>7, <1>8, <1>9, <1>10, <1>11, <1>12 DEF Next

\* However a greedy request is decoded, by eager steps, replayed graphs or
\* speculative steps and whatever their order, it gets the tokens of plain
\* greedy decoding, at most max_tokens of them and none after eos_id.
THEOREM GreedyDecodingImplemented ==
    ASSUME DraftersKeepNoState, DraftersIgnoreEos
    PROVE  Spec => ImplementsGreedyDecoding
<1>1. Init => GreedyInv /\ Greedy!Init
  <2> SUFFICES ASSUME Init PROVE GreedyInv /\ Greedy!Init
    OBVIOUS
  <2>1. /\ running = <<>> /\ call.pc = "idle"
        /\ output_ids = [r \in Requests |-> <<>>]
    BY DEF Init, Idle
  <2>2. \A r \in Requests : Greedy!IsGreedy(r, <<>>) /\ Greedy!StopsInTime(r, <<>>)
    <3>1. \A r \in Requests : MaxTokens[r] \in Nat /\ 0 <= MaxTokens[r]
      BY DecodeConstants
    <3>2. Len(<<>>) = 0 /\ DOMAIN <<>> = {} /\ 1..0 - 1 = {}
      OBVIOUS
    <3> QED BY <3>1, <3>2 DEF Greedy!IsGreedy, Greedy!StopsInTime
  <2>3. Range(running) = {}
    BY <2>1 DEF Range
  <2> QED BY <2>1, <2>2, <2>3 DEF GreedyInv, Greedy!Init
<1>2. ASSUME ShapeInv, HistoryInv, GreedyInv, [Next]_vars
      PROVE  GreedyInv' /\ [Greedy!Next]_output_ids
  <2>1. GreedyInv' /\ OutputsGrow
    BY <1>2, NextGreedy
  <2>2. ASSUME NEW r \in Requests PROVE Greedy!IsPrefix(output_ids[r], output_ids'[r])
    <3>1. PICK a \in Seq(Token) : output_ids'[r] = output_ids[r] \o a
      BY <2>1 DEF OutputsGrow
    <3>2. output_ids[r] \in Seq(Token)
      BY <1>2 DEF ShapeInv, TypeOK
    <3> DEFINE out == output_ids[r]
    <3>3. out \in Seq(Token) /\ output_ids'[r] = out \o a
      BY <3>1, <3>2
    <3> HIDE DEF out
    <3>4. Len(out) \in 0..Len(out) /\ Len(out) \in Nat /\ Len(a) \in Nat
      BY <3>3
    <3>5. SubSeq(out \o a, 1, Len(out)) = SubSeq(out, 1, Len(out))
      BY <3>3, <3>4, PrefixBefore
    <3>6. Len(out \o a) = Len(out) + Len(a)
      BY <3>3, ConcatProperties
    <3>7. Len(out) <= Len(out \o a)
      BY <3>4, <3>6
    <3> QED BY <3>3, <3>5, <3>7 DEF Greedy!IsPrefix, out
  <2> QED BY <2>1, <2>2 DEF Greedy!Next, GreedyInv
<1>3. ShapeInv /\ HistoryInv /\ GreedyInv /\ [Next]_vars => GreedyInv' /\ [Greedy!Next]_output_ids
  BY <1>2
<1> QED BY <1>1, <1>3, ShapeHolds, HistoryHolds, PTL DEF Spec, ImplementsGreedyDecoding, Greedy!Spec
=============================================================================
