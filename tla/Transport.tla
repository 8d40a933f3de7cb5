------------------------------ MODULE Transport ------------------------------
(***************************************************************************)
(* dist/__init__.py, dist/entropy.py, dist/codec_quality.py: one transfer  *)
(* of an activation between two devices.  send picks a scheme, compresses, *)
(* may code the payload's bytes with rANS, and copies payload and scales   *)
(* on two streams; recv undoes all of it on the other side.                *)
(*                                                                         *)
(* What is abstracted.                                                     *)
(*  - fni8.compress_activation gives a payload of elements of a few bytes  *)
(*    and scales; what they mean is left to fni8.decompress_activation.    *)
(*  - The coder keeps its arithmetic and loses its size: a byte is a digit *)
(*    below Base (256 in the code), the frequencies sum to Mass (2^12),    *)
(*    Low (2^23) is the lower end of the state.  One round of each of its  *)
(*    loops is one action.                                                 *)
(***************************************************************************)
EXTENDS Integers, Sequences, FiniteSets, Functions

CONSTANTS
    Base,        \* 256: _ALPHABET_SIZE, and one byte
    Mass,        \* _M
    Low,         \* _L
    Payloads     \* what compression may give: [width, elements]

Digits == 0..Base - 1
StateBytes == 4

\* What these parameters are: a state holds a whole number of masses, and
\* StateBytes bytes hold a state.
TransportConstants ==
    /\ Base \in Nat \ {0, 1} /\ Mass \in Nat \ {0} /\ Low \in Nat \ {0}
    /\ Low % Mass = 0 /\ Low * Base <= (Base * Base) * (Base * Base)
    /\ \A p \in Payloads :
        p.width \in Nat \ {0} /\ p.elements \in Seq([1..p.width -> Digits])

VARIABLE xfer  \* the transfer: everything send and recv hold

\* The bytes of a payload, row by row: view(torch.uint8).ravel().
BytesOf(p) ==
    [i \in 1..Len(p.elements) * p.width |->
        p.elements[((i - 1) \div p.width) + 1][((i - 1) % p.width) + 1]]

\* select_wire_scheme: int4 if the data tolerates it.
Scheme(sqnrPass, cosPass) == IF sqnrPass /\ cosPass THEN "int4" ELSE "int8"

CanUseP2P(src, dst, peers) == src # dst /\ peers

\* `trail` is what the coder went through: for each symbol the bytes that were
\* out before it and the states from its start to where it was pushed.
Init ==
    \E p \in Payloads, entropy, sqnr, cos, peers \in BOOLEAN, dst \in {0, 1} :
        xfer = [pc |-> IF entropy THEN "count" ELSE "copy",
                entropy |-> entropy, sent |-> p, scheme |-> Scheme(sqnr, cos),
                p2p |-> CanUseP2P(0, dst, peers),
                freqs |-> [s \in Digits |-> 0], order |-> <<>>, turn |-> 0,
                state |-> Low, out |-> <<>>, left |-> BytesOf(p),
                trail |-> <<[from |-> 0, through |-> <<Low>>]>>, landed |-> {},
                n |-> Len(BytesOf(p)), pos |-> 0, decoded |-> <<>>, received |-> <<>>]

-----------------------------------------------------------------------------
(* entropy.py *)

Counts(bytes) == [s \in Digits |-> Cardinality({i \in DOMAIN bytes : bytes[i] = s})]

\* np.argsort(-counts): symbols by falling count, equals in any order.
Orders(counts) ==
    {o \in [1..Base -> Digits] :
        IsInjective(o) /\ \A i, j \in DOMAIN o : i < j => counts[o[i]] >= counts[o[j]]}

\* Without the floor of 1: a rare symbol gets no slot.
FaultyQuota(counts, total, s) == (counts[s] * Mass) \div total

\* Proportional share, at least 1 for a symbol that occurs.
Quota(counts, total, s) ==
    LET share == (counts[s] * Mass) \div total IN
    IF counts[s] > 0 /\ share = 0 THEN 1 ELSE share

\* counts, and _normalize_freqs up to its loop; an empty payload is coded as no
\* bytes at all.
Count ==
    LET counts == Counts(xfer.left) IN
    /\ xfer.pc = "count"
    /\ IF xfer.left = <<>>
       THEN xfer' = [xfer EXCEPT !.pc = "copy"]
       ELSE \E o \in Orders(counts) :
                xfer' = [xfer EXCEPT !.pc = "nudge", !.order = o, !.freqs =
                            [s \in Digits |-> Quota(counts, SumFunction(counts), s)]]

\* A round of the loop that moves the sum of the frequencies to Mass, one unit
\* at a time over the present symbols, leaving none below 1.
Nudge ==
    LET diff    == Mass - SumFunction(xfer.freqs)
        present == Cardinality({s \in Digits : Counts(xfer.left)[s] > 0})
        s       == xfer.order[(xfer.turn % present) + 1]
        f       == xfer.freqs[s] IN
    /\ xfer.pc = "nudge"
    /\ IF diff = 0
       THEN xfer' = [xfer EXCEPT !.pc = "push", !.order = <<>>, !.turn = 0]
       ELSE xfer' = [xfer EXCEPT !.turn = @ + 1, !.freqs[s] =
                        IF diff > 0 THEN f + 1 ELSE IF f > 1 THEN f - 1 ELSE f]

\* _cumulative: first slot of a symbol.
Start(f, s) == SumFunctionOnSet(f, 0..s - 1)

\* slot_to_sym: the symbol whose slots include `slot`.
SymbolAt(f, slot) ==
    CHOOSE s \in Digits : Start(f, s) <= slot /\ slot < Start(f, s) + f[s]

\* x_max of a symbol.
XMax(s) == ((Low \div Mass) * Base) * xfer.freqs[s]

\* A round of `while state >= x_max`, for the last symbol not yet coded.
Spill ==
    /\ xfer.pc = "push"
    /\ xfer.left # <<>>
    /\ xfer.state >= XMax(xfer.left[Len(xfer.left)])
    /\ xfer' = [xfer EXCEPT
            !.out = Append(@, xfer.state % Base),
            !.state = @ \div Base,
            !.trail[Len(xfer.trail)].through = Append(@, xfer.state \div Base)]

\* It goes into the state.
Encoded(f, s, x) == (x \div f[s]) * Mass + (x % f[s]) + Start(f, s)

Push ==
    LET s == xfer.left[Len(xfer.left)]
        y == Encoded(xfer.freqs, s, xfer.state) IN
    /\ xfer.pc = "push"
    /\ xfer.left # <<>>
    /\ xfer.state < XMax(s)
    /\ xfer' = [xfer EXCEPT
            !.state = y,
            !.left = SubSeq(@, 1, Len(@) - 1),
            !.trail = Append(@, [from |-> Len(xfer.out), through |-> <<y>>])]

\* The final state, low byte first.
Flush ==
    LET x == xfer.state IN
    /\ xfer.pc = "push"
    /\ xfer.left = <<>>
    /\ xfer' = [xfer EXCEPT
            !.pc = "copy",
            !.out = @ \o <<x % Base, (x \div Base) % Base, ((x \div Base) \div Base) % Base,
                          (((x \div Base) \div Base) \div Base) % Base>>]

-----------------------------------------------------------------------------
(* dist/__init__.py *)

Parts == {"payload", "scales"}

\* A copy arrives: directly or through pinned host memory, on its own stream.
Land(part) ==
    /\ xfer.pc = "copy"
    /\ part \notin xfer.landed
    /\ xfer' = [xfer EXCEPT !.landed = @ \cup {part}]

\* Both streams are synchronized before send returns.
Synchronized == xfer.landed = Parts

\* send returns the handle; recv begins: with entropy it loads the state.
Handle ==
    LET at == Len(xfer.out) - StateBytes
        d(i) == xfer.out[at + i] IN
    /\ xfer.pc = "copy"
    /\ Synchronized
    /\ xfer' = IF xfer.entropy /\ xfer.n > 0
               THEN [xfer EXCEPT !.pc = "pop", !.pos = at, !.state =
                        d(1) + d(2) * Base + d(3) * (Base * Base) + d(4) * (Base * Base * Base)]
               ELSE [xfer EXCEPT !.pc = "rebuild"]

\* A round of `while state < _L`.
Refill ==
    /\ xfer.pc = "pop"
    /\ xfer.state < Low
    /\ xfer' = [xfer EXCEPT !.state = @ * Base + xfer.out[xfer.pos], !.pos = @ - 1]

\* One symbol out of the state.
Pop ==
    LET slot == xfer.state % Mass
        s    == SymbolAt(xfer.freqs, slot) IN
    /\ xfer.pc = "pop"
    /\ xfer.state >= Low
    /\ Len(xfer.decoded) < xfer.n
    /\ xfer' = [xfer EXCEPT
            !.state = xfer.freqs[s] * (@ \div Mass) + slot - Start(xfer.freqs, s),
            !.decoded = Append(@, s)]

\* The bytes as elements of the recorded dtype again: view and reshape.
Elements(bytes, width) ==
    [k \in 1..(Len(bytes) \div width) |-> [j \in 1..width |-> bytes[(k - 1) * width + j]]]

Rebuild ==
    /\ \/ xfer.pc = "rebuild"
       \/ xfer.pc = "pop" /\ xfer.state >= Low /\ Len(xfer.decoded) = xfer.n
    /\ xfer' = [xfer EXCEPT !.pc = "done", !.received =
            [payload |-> IF xfer.entropy THEN Elements(xfer.decoded, xfer.sent.width)
                                         ELSE xfer.sent.elements,
             scheme |-> xfer.scheme,
             parts |-> xfer.landed]]

Done == xfer.pc = "done" /\ UNCHANGED xfer

Next ==
    \/ Count
    \/ Nudge
    \/ Spill
    \/ Push
    \/ Flush
    \/ \E part \in Parts : Land(part)
    \/ Handle
    \/ Refill
    \/ Pop
    \/ Rebuild
    \/ Done

-----------------------------------------------------------------------------
\* Between two symbols the coder's state is in [Low, Low * Base), so that
\* StateBytes hold it and the decoder's test is the encoder's; every symbol
\* that occurs has a slot and the slots are exactly Mass; each pop, with its
\* refills, returns the decoder to the state and the byte position from which
\* the encoder pushed that symbol; and what recv rebuilds is what send
\* compressed, whole.
TransferInverts ==
    /\ \A k \in DOMAIN xfer.trail : xfer.trail[k].through[1] \in Low..Low * Base - 1
    /\ xfer.pc = "push" =>
        /\ SumFunction(xfer.freqs) = Mass
        /\ \A i \in DOMAIN BytesOf(xfer.sent) : xfer.freqs[BytesOf(xfer.sent)[i]] > 0
    /\ xfer.pc = "pop" /\ xfer.state >= Low =>
        LET at == xfer.trail[xfer.n - Len(xfer.decoded) + 1] IN
        xfer.state = at.through[1] /\ xfer.pos = at.from
    /\ xfer.pc = "done" =>
        /\ xfer.received.payload = xfer.sent.elements
        /\ xfer.received.parts = Parts
=============================================================================
