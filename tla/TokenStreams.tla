---------------------------- MODULE TokenStreams ----------------------------
(***************************************************************************)
(* What EngineWorker.submit promises of the queue it returns: "token ids,  *)
(* terminated by a single Done" (api/runtime.py).                          *)
(***************************************************************************)
EXTENDS Sequences

CONSTANTS Requests, Token, Reasons

VARIABLE out_queue  \* everything ever put on the queue of a request

TokenItem(t) == <<"token", t>>
DoneItem(reason) == <<"done", reason>>

Ended(q) == q # <<>> /\ q[Len(q)][1] = "done"

Init == out_queue = [r \in Requests |-> <<>>]

\* Another token of a request that has not ended.
PutToken(r, t) ==
    /\ ~Ended(out_queue[r])
    /\ out_queue' = [out_queue EXCEPT ![r] = Append(@, TokenItem(t))]

\* The end of a request.
PutDone(r, reason) ==
    /\ ~Ended(out_queue[r])
    /\ out_queue' = [out_queue EXCEPT ![r] = Append(@, DoneItem(reason))]

Next ==
    \E r \in Requests :
        \/ \E t \in Token : PutToken(r, t)
        \/ \E reason \in Reasons : PutDone(r, reason)

Spec == Init /\ [][Next]_out_queue
=============================================================================
