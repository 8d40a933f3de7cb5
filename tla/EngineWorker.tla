---------------------------- MODULE EngineWorker ----------------------------
(***************************************************************************)
(* api/runtime.py: the thread that owns the LLMEngine, between the HTTP    *)
(* handlers, which put requests in its inbox, and their queues, on which   *)
(* it puts the tokens.  Extends Engine: a call of step() is a run of       *)
(* its actions.                                                            *)
(*                                                                         *)
(* HTTP handlers interleave with every action of the worker; they touch    *)
(* the inbox only.  out_queue is the history of everything put: what a     *)
(* client has received is a prefix of it.  Statistics are left out.        *)
(* Not modelled here: EngineWorker.encode, which calls the engine from the *)
(* HTTP thread.                                                            *)
(***************************************************************************)
EXTENDS Engine

VARIABLES
    inbox,      \* _inbox
    pending,    \* _pending, in order of registration
    thread,     \* where _run is; cursor: the request _dispatch is at
    sent,       \* _PendingRequest.sent
    out_queue   \* _PendingRequest.out_queue

Reasons == {"length", "stop"}

Streams == INSTANCE TokenStreams

workerVars == <<inbox, pending, thread, sent, out_queue>>
allVars    == <<vars, workerVars>>

WInit ==
    /\ Init
    /\ inbox = <<>>
    /\ pending = <<>>
    /\ thread = [pc |-> "block", cursor |-> 1]
    /\ sent = [r \in Requests |-> 0]
    /\ Streams!Init

\* submit, on the thread of an HTTP handler.
Submit(r) ==
    /\ status[r] = "new"
    /\ r \notin Range(inbox)
    /\ inbox' = Append(inbox, r)
    /\ UNCHANGED <<vars, pending, thread, sent, out_queue>>

-----------------------------------------------------------------------------
(* _run *)

\* `_inbox.get` and `_inbox.get_nowait`, and _register.
Register ==
    /\ thread.pc \in {"block", "drain"}
    /\ inbox # <<>>
    /\ AddRequest(Head(inbox))
    /\ inbox' = Tail(inbox)
    /\ pending' = Append(pending, Head(inbox))
    /\ thread' = [thread EXCEPT !.pc = "drain"]
    /\ UNCHANGED <<sent, out_queue>>

\* queue.Empty: call step().
CallStep ==
    /\ thread.pc = "drain"
    /\ inbox = <<>>
    /\ BeginStep
    /\ thread' = [thread EXCEPT !.pc = "step"]
    /\ UNCHANGED <<inbox, pending, sent, out_queue>>

\* Within step(); an exception out of it ends the thread.
InStep ==
    /\ thread.pc = "step"
    /\ StepCall
    /\ thread' = [pc |-> CASE step'.pc = "idle" -> "dispatch"
                           [] step'.pc = "dead" -> "dead"
                           [] OTHER -> "step",
                  cursor |-> 1]
    /\ UNCHANGED <<inbox, pending, sent, out_queue>>

-----------------------------------------------------------------------------
(* _dispatch *)

\* out_queue.put.
Put(r, item) == out_queue' = [out_queue EXCEPT ![r] = Append(@, item)]

At(r) ==
    /\ thread.pc = "dispatch"
    /\ thread.cursor <= Len(pending)
    /\ r = pending[thread.cursor]

\* The inner loop: the next token that has not been sent.
PutToken ==
    \E r \in Requests :
        /\ At(r)
        /\ sent[r] < Len(output_ids[r])
        /\ Put(r, Streams!TokenItem(output_ids[r][sent[r] + 1]))
        /\ sent' = [sent EXCEPT ![r] = @ + 1]
        /\ UNCHANGED <<vars, inbox, pending, thread>>

\* `>` for `>=`.
FaultyFinishReason(r) ==
    LET out == output_ids[r] IN
    CASE Len(out) > MaxTokens[r] -> "length"
      [] out[Len(out)] = Eos     -> "stop"
      [] OTHER                   -> "none"

FinishReason(r) == IF Len(output_ids[r]) >= MaxTokens[r] THEN "length" ELSE "stop"

\* The Done does not wait for the tokens.
FaultyPutDone ==
    \E r \in Requests :
        /\ At(r)
        /\ IF status[r] = "finished" THEN Put(r, Streams!DoneItem(FinishReason(r)))
                                     ELSE UNCHANGED out_queue
        /\ thread' = [thread EXCEPT !.cursor = @ + 1]
        /\ UNCHANGED <<vars, inbox, pending, sent>>

\* Everything is sent; a finished request gets its Done.
PutDone ==
    \E r \in Requests :
        /\ At(r)
        /\ sent[r] >= Len(output_ids[r])
        /\ IF status[r] = "finished" THEN Put(r, Streams!DoneItem(FinishReason(r)))
                                     ELSE UNCHANGED out_queue
        /\ thread' = [thread EXCEPT !.cursor = @ + 1]
        /\ UNCHANGED <<vars, inbox, pending, sent>>

\* Waits for the next request, whether or not some are pending.
FaultyTop(p) == "block"

\* The top of the loop of _run: it blocks only with nothing pending.
Top(p) == IF p = <<>> THEN "block" ELSE "drain"

\* Only what ended at eos_id.
FaultyDone(r) == status[r] = "finished" /\ FinishReason(r) = "stop"

\* Every request it has sent something.
FaultyDoneEarly(r) == out_queue[r] # <<>>

\* done_ids.
Done(r) == status[r] = "finished"

\* The loop over done_ids: forget the next that is finished.
ForgetDone ==
    /\ thread.pc = "dispatch"
    /\ thread.cursor > Len(pending)
    /\ \E i \in DOMAIN pending :
        /\ Done(pending[i])
        /\ \A j \in 1..i - 1 : ~Done(pending[j])
        /\ pending' = Without(pending, i)
    /\ UNCHANGED <<vars, inbox, thread, sent, out_queue>>

\* Go round.
EndDispatch ==
    /\ thread.pc = "dispatch"
    /\ thread.cursor > Len(pending)
    /\ \A r \in Range(pending) : ~Done(r)
    /\ thread' = [pc |-> Top(pending), cursor |-> 1]
    /\ UNCHANGED <<vars, inbox, pending, sent, out_queue>>

Worker ==
    \/ Register
    \/ CallStep
    \/ InStep
    \/ PutToken
    \/ PutDone
    \/ ForgetDone
    \/ EndDispatch

WNext == Worker \/ \E r \in Requests : Submit(r)

WSpec == WInit /\ [][WNext]_allVars

\* The thread runs; nobody has to submit anything.
WFairSpec == WSpec /\ WF_allVars(Worker)
-----------------------------------------------------------------------------
\* Types of the worker's own variables.
WorkerTypeOK ==
    /\ inbox \in Seq(Requests)
    /\ pending \in Seq(Requests)
    /\ thread \in [pc : {"block", "drain", "step", "dispatch", "dead"}, cursor : Nat \ {0}]
    /\ sent \in [Requests -> Nat]
    /\ out_queue \in [Requests -> Seq({"token"} \X Token \cup {"done"} \X Reasons)]

\* A client gets exactly what was generated for it, in order and without a
\* gap, through preemptions and re-admissions; a Done comes when all of it
\* is sent, to a request that reached its end, and says which end that was.
StreamIsOutput ==
    \A r \in Requests :
        LET q == out_queue[r]
            n == sent[r]
        IN
        /\ n <= Len(output_ids[r]) /\ n <= Len(q)
        /\ \A i \in 1..n : q[i] = Streams!TokenItem(output_ids[r][i])
        /\ Len(q) # n =>
            /\ Len(q) = n + 1
            /\ n = Len(output_ids[r])
            /\ Finished(r)
            /\ q[n + 1] = Streams!DoneItem(FinishReason(r))

\* The worker keeps exactly the requests that still wait for their Done: it
\* forgets none early (the client would hang) and none late (they would
\* accumulate in a long-lived server).
PendingUnanswered ==
    /\ NoDuplicates(inbox \o pending)
    /\ thread.pc # "dispatch" =>
        \A r \in Requests :
            r \in Range(pending) <=> status[r] # "new" /\ ~Streams!Ended(out_queue[r])

\* The worker blocks on its inbox only when the scheduler has no work, and
\* never spins without any.
AwakeIffWork ==
    LET work == waiting # <<>> \/ running # <<>> IN
    /\ thread.pc = "block" => ~work
    /\ thread.pc = "drain" => work

\* submit: "the queue it will be streamed onto (token ids, terminated by a
\* single `Done`)".  The safety half: one Done, nothing after it.
ImplementsTokenStreams == Streams!Spec

\* The other half: every queue is terminated.
QueuesEnd == \A r \in Requests : r \in Range(inbox) ~> Streams!Ended(out_queue[r])

-----------------------------------------------------------------------------
(* The inductive invariant behind them, with PlacesInv and EndIsNoticed of *)
(* Engine                                                                  *)

\* Where the thread is and where the call of step() is.
ThreadShape ==
    /\ thread.pc \in {"block", "drain", "dispatch"} => step.pc = "idle"
    /\ thread.pc = "step" => step.pc \notin {"idle", "dead"}
    /\ thread.pc = "block" => pending = <<>>
    /\ thread.pc = "drain" => pending # <<>>

\* Requests wait in the inbox before they are submitted to the engine, in
\* pending afterwards.
InboxAndPending ==
    /\ NoDuplicates(inbox) /\ NoDuplicates(pending)
    /\ \A r \in Range(inbox) : status[r] = "new"
    /\ \A r \in Range(pending) : status[r] # "new"
    /\ thread.pc \in {"block", "drain"} => \A r \in Range(pending) : status[r] # "finished"

\* _dispatch is done with r.
Passed(r) ==
    /\ thread.pc = "dispatch"
    /\ \E i \in DOMAIN pending : i < thread.cursor /\ pending[i] = r

\* Who has a Done: finished requests, but for those _dispatch has still to
\* come to.
Answers ==
    \A r \in Requests :
        /\ Streams!Ended(out_queue[r]) => status[r] = "finished"
        /\ r \notin Range(pending) => status[r] \in {"new", "finished"}
        /\ r \in Range(pending) /\ ~Passed(r) => ~Streams!Ended(out_queue[r])
        /\ status[r] = "finished" /\ (r \notin Range(pending) \/ Passed(r)) =>
              Streams!Ended(out_queue[r])

WorkerInv == WorkerTypeOK /\ ThreadShape /\ InboxAndPending /\ Answers /\ StreamIsOutput
=============================================================================
