------------------------------ MODULE Structured ------------------------------
(***************************************************************************)
(* structured.py over Engine: every request carries a                      *)
(* GrammarLogitsProcessor of its own, which Sampler.forward calls with the *)
(* whole history of the sequence each time a token is sampled for it, and  *)
(* which remembers how much of that history its matcher has been fed.      *)
(* What a grammar permits is left open: a sample is any token.             *)
(***************************************************************************)
EXTENDS Engine

VARIABLES
    seen,  \* GrammarLogitsProcessor._seen, NotYet before the first call
    fed    \* the tokens its matcher has accepted

NotYet == -1

GInit ==
    /\ Init
    /\ seen = [r \in Requests |-> NotYet]
    /\ fed = [r \in Requests |-> <<>>]

\* Sequence.all_token_ids
AllTokenIds(r) == prompt_ids[r] \o output_ids[r]

\* __call__: the first call only notes the length, later ones feed the rest.
Call(r) ==
    IF seen[r] = NotYet THEN fed[r]
    ELSE fed[r] \o SubSeq(AllTokenIds(r), seen[r] + 1, Len(AllTokenIds(r)))

\* _sample: the processor of each member is called before its token is drawn.
Sample ==
    /\ Emit
    /\ fed' = [r \in Requests |-> IF r \in Range(step.batch) THEN Call(r) ELSE fed[r]]
    /\ seen' = [r \in Requests |->
                    IF r \in Range(step.batch) THEN Len(AllTokenIds(r)) ELSE seen[r]]

\* The rest of a call of step, and arrivals, leave the processors alone.
Elsewhere ==
    /\ \/ BeginStep
       \/ AdmitHead
       \/ StartPrefill
       \/ PreemptOne
       \/ StartDecode
       \/ GrowTable
       \/ OutOfBlocks
       \/ PastTable
       \/ WriteKV
       \/ StoreNext
       \/ StoreLoop
       \/ StoreDone
       \/ FreeFinished
       \/ EndStep
       \/ \E r \in Requests : AddRequest(r)
    /\ UNCHANGED <<seen, fed>>

GNext == Sample \/ Elsewhere

GSpec == GInit /\ [][GNext]_<<vars, seen, fed>>

-----------------------------------------------------------------------------
\* "every later call advances the matcher by the one token sampled since the
\* previous step" (GrammarLogitsProcessor.__call__): the matcher has been fed
\* exactly what was generated before the last sample.
MatcherFollowsOutput ==
    \A r \in Requests : seen[r] # NotYet => fed[r] = SubSeq(output_ids[r], 1, Len(output_ids[r]) - 1)
=============================================================================
