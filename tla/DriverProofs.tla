---------------------------- MODULE DriverProofs ----------------------------
(***************************************************************************)
(* Theorems about what drives the engine of EngineProofs, for every        *)
(* instance: first EngineWorker, the thread that feeds it and answers,     *)
(* then Pipeline, whose second stage has a cache of its own and with it an *)
(* invariant of its own; the requests, queues, slots and the cache of      *)
(* stage 0 are those of EngineProofs.                                      *)
(***************************************************************************)
EXTENDS EngineWorker, Pipeline, EngineProofs

Items == {"token"} \X Token \cup {"done"} \X Reasons

-----------------------------------------------------------------------------
(* The worker and the engine it drives *)

\* The types of the worker's variables, one by one.
LEMMA WorkerTypes ==
    ASSUME WorkerTypeOK
    PROVE  /\ inbox \in Seq(Requests) /\ pending \in Seq(Requests)
           /\ thread.pc \in {"block", "drain", "step", "dispatch", "dead"}
           /\ thread.cursor \in Nat \ {0}
           /\ sent \in [Requests -> Nat] /\ out_queue \in [Requests -> Seq(Items)]
BY DEF WorkerTypeOK, Items

\* A step of the worker is a step of the engine, or none: it calls add_request
\* and step() as generate() does, one at a time.
LEMMA WorkerStep ==
    ASSUME WorkerTypeOK, [WNext]_allVars
    PROVE  [Next]_vars
<1>1. CASE Register
  <2>1. inbox # <<>> /\ AddRequest(Head(inbox))
    BY <1>1 DEF Register
  <2>2. Head(inbox) \in Requests
    BY <2>1, WorkerTypes, HeadFacts
  <2> QED BY <2>1, <2>2 DEF Next
<1>2. CASE CallStep
  BY <1>2 DEF CallStep, Next, StepCall
<1>3. CASE InStep
  BY <1>3 DEF InStep, Next
<1>4. CASE \/ PutToken \/ PutDone \/ ForgetDone \/ EndDispatch
           \/ \E r \in Requests : Submit(r)
  BY <1>4 DEF PutToken, PutDone, ForgetDone, EndDispatch, Submit
<1>5. CASE UNCHANGED allVars
  BY <1>5 DEF allVars
<1> QED BY <1>1, <1>2, <1>3, <1>4, <1>5 DEF WNext, Worker

\* What step() never takes back: a finished request keeps its output, other
\* outputs only grow, and no request comes or goes.
LEMMA StepCallKeeps ==
    ASSUME PlacesInv, StepCall, NEW r \in Requests
    PROVE  /\ status[r] = "finished" => /\ status'[r] = "finished"
                                        /\ output_ids'[r] = output_ids[r]
           /\ status'[r] = "new" <=> status[r] = "new"
           /\ Len(output_ids[r]) <= Len(output_ids'[r])
           /\ \A i \in 1..Len(output_ids[r]) : output_ids'[r][i] = output_ids[r][i]
<1>1. /\ status \in [Requests -> {"new", "waiting", "running", "finished"}]
      /\ output_ids[r] \in Seq(Token) /\ Len(output_ids[r]) \in Nat
  BY DEF PlacesInv, TypeOK
<1>2. CASE Emit
  <2>1. PICK tok \in [Range(step.batch) -> Token] :
            output_ids' = [q \in Requests |->
                              IF q \in Range(step.batch) THEN Append(output_ids[q], tok[q])
                                                         ELSE output_ids[q]]
    BY <1>2 DEF Emit
  <2>2. status' = status /\ step.pc = "forward"
    BY <1>2 DEF Emit
  <2>3. CASE r \notin Range(step.batch)
    <3>1. output_ids'[r] = output_ids[r]
      BY <2>1, <2>3
    <3> QED BY <1>1, <2>2, <3>1
  <2>4. CASE r \in Range(step.batch)
    <3>1. status[r] = "running"
      BY <2>2, <2>4 DEF PlacesInv, StepShape, Places, ActiveSet, Prefilling
    <3>2. output_ids'[r] = Append(output_ids[r], tok[r]) /\ tok[r] \in Token
      BY <2>1, <2>4
    <3> QED BY <1>1, <2>2, <3>1, <3>2
  <2> QED BY <2>3, <2>4
<1>3. CASE AdmitHead
  <2> DEFINE q == Head(waiting)
  <2>1. /\ output_ids' = output_ids /\ step.pc = "schedule" /\ waiting # <<>>
        /\ status' = [status EXCEPT ![q] = "running"]
    BY <1>3 DEF AdmitHead, CanAdmit
  <2>2. q \in Requests /\ q \in Range(waiting)
    <3>1. waiting \in Seq(Requests)
      BY ListTypes DEF PlacesInv
    <3> QED BY <2>1, <3>1, HeadFacts
  <2>3. status[q] = "waiting"
    BY <2>1, <2>2 DEF PlacesInv, Places
  <2> HIDE DEF q
  <2> QED BY <1>1, <2>1, <2>2, <2>3
<1>4. CASE PreemptOne
  <2> DEFINE q == running[VictimAt]
  <2>1. /\ output_ids' = output_ids /\ step.pc = "schedule" /\ running # <<>>
        /\ status' = [status EXCEPT ![q] = IF Finished(q) THEN "finished" ELSE "waiting"]
    BY <1>4 DEF PreemptOne, BlockPressure, Requeue
  <2>2. q \in Range(running)
    BY <2>1, VictimIsRunning DEF PlacesInv, Range
  <2>3. q \in Requests /\ status[q] = "running"
    BY <2>1, <2>2, ListTypes DEF PlacesInv, Places, ActiveSet
  <2> HIDE DEF q
  <2> QED BY <1>1, <2>1, <2>3
<1>5. CASE FreeFinished
  <2>1. PICK i \in DOMAIN running : status' = [status EXCEPT ![running[i]] = "finished"]
    BY <1>5 DEF FreeFinished
  <2>2. output_ids' = output_ids /\ step.pc = "post"
    BY <1>5 DEF FreeFinished
  <2>3. running[i] \in Requests /\ status[running[i]] = "running"
    BY <2>1, <2>2, ListTypes DEF PlacesInv, Places, ActiveSet, Range
  <2> QED BY <1>1, <2>1, <2>2, <2>3
<1>6. CASE \/ BeginStep \/ StartPrefill \/ StartDecode \/ GrowTable \/ OutOfBlocks \/ PastTable
           \/ WriteKV \/ StoreNext \/ StoreLoop \/ StoreDone \/ EndStep
  <2>1. output_ids' = output_ids /\ status' = status
    BY <1>6 DEF BeginStep, StartPrefill, StartDecode, GrowTable, OutOfBlocks, PastTable,
                WriteKV, StoreNext, StoreLoop, StoreDone, EndStep, seqVars
  <2> QED BY <1>1, <2>1
<1> QED BY <1>2, <1>3, <1>4, <1>5, <1>6 DEF StepCall

\* add_request of a request in the inbox.
LEMMA RegisterFacts ==
    ASSUME WorkerTypeOK, Register
    PROVE  LET r == Head(inbox) IN
           /\ r \in Requests /\ r \in Range(inbox) /\ status[r] = "new"
           /\ Range(inbox') \subseteq Range(inbox)
           /\ NoDuplicates(inbox) => NoDuplicates(inbox') /\ r \notin Range(inbox')
           /\ inbox' \in Seq(Requests) /\ pending' = Append(pending, r)
           /\ status' = [status EXCEPT ![r] = "waiting"]
           /\ UNCHANGED <<step, output_ids, sent, out_queue>>
           /\ thread' = [thread EXCEPT !.pc = "drain"]
<1>1. inbox \in Seq(Requests) /\ inbox # <<>> /\ AddRequest(Head(inbox)) /\ inbox' = Tail(inbox)
  BY WorkerTypes DEF Register
<1>2. /\ Head(inbox) \in Requests /\ Tail(inbox) \in Seq(Requests)
      /\ Range(inbox) = {Head(inbox)} \cup Range(Tail(inbox))
      /\ NoDuplicates(inbox) => NoDuplicates(Tail(inbox)) /\ Head(inbox) \notin Range(Tail(inbox))
  BY <1>1, HeadFacts
<1>3. /\ status[Head(inbox)] = "new"
      /\ status' = [status EXCEPT ![Head(inbox)] = "waiting"]
      /\ UNCHANGED <<step, output_ids>>
  BY <1>1 DEF AddRequest
<1>4. /\ pending' = Append(pending, Head(inbox)) /\ UNCHANGED <<sent, out_queue>>
      /\ thread' = [thread EXCEPT !.pc = "drain"]
  BY DEF Register
<1> QED BY <1>1, <1>2, <1>3, <1>4

-----------------------------------------------------------------------------
(* Types *)

\* The initial types.
LEMMA InitWorkerTypes == WInit => WorkerTypeOK
<1> SUFFICES ASSUME WInit PROVE WorkerTypeOK
  OBVIOUS
<1>1. /\ inbox = <<>> /\ pending = <<>> /\ thread = [pc |-> "block", cursor |-> 1]
      /\ sent = [r \in Requests |-> 0] /\ out_queue = [r \in Requests |-> <<>>]
  BY DEF WInit, Streams!Init
<1>2. out_queue \in [Requests -> Seq(Items)]
  BY <1>1
<1> QED BY <1>1, <1>2 DEF WorkerTypeOK, Items

ThreadSet == [pc : {"block", "drain", "step", "dispatch", "dead"}, cursor : Nat \ {0}]

\* Every step keeps the types.
LEMMA NextWorkerTypes ==
    ASSUME PlacesInv, WorkerTypeOK, [WNext]_allVars
    PROVE  WorkerTypeOK'
<1>1. /\ inbox \in Seq(Requests) /\ pending \in Seq(Requests) /\ thread \in ThreadSet
      /\ sent \in [Requests -> Nat] /\ out_queue \in [Requests -> Seq(Items)]
  BY DEF WorkerTypeOK, ThreadSet, Items
<1> SUFFICES /\ inbox' \in Seq(Requests) /\ pending' \in Seq(Requests) /\ thread' \in ThreadSet
             /\ sent' \in [Requests -> Nat] /\ out_queue' \in [Requests -> Seq(Items)]
  BY DEF WorkerTypeOK, ThreadSet, Items
<1>2. CASE \E r \in Requests : Submit(r)
  <2>1. PICK r \in Requests : Submit(r)
    BY <1>2
  <2> QED BY <1>1, <2>1 DEF Submit
<1>3. CASE Register
  <2>1. /\ inbox' \in Seq(Requests) /\ Head(inbox) \in Requests
        /\ pending' = Append(pending, Head(inbox)) /\ UNCHANGED <<sent, out_queue>>
        /\ thread' = [thread EXCEPT !.pc = "drain"]
    BY <1>3, RegisterFacts
  <2>2. thread' \in ThreadSet
    BY <1>1, <2>1 DEF ThreadSet
  <2> QED BY <1>1, <2>1, <2>2
<1>4. CASE CallStep
  <2>1. thread' \in ThreadSet
    BY <1>1, <1>4 DEF CallStep, ThreadSet
  <2> QED BY <1>1, <1>4, <2>1 DEF CallStep
<1>5. CASE InStep
  <2>1. thread' \in ThreadSet
    BY <1>1, <1>5 DEF InStep, ThreadSet
  <2> QED BY <1>1, <1>5, <2>1 DEF InStep
<1>6. CASE PutToken
  <2>1. PICK r \in Requests :
            /\ sent[r] < Len(output_ids[r])
            /\ out_queue' = [out_queue EXCEPT ![r] =
                                Append(@, <<"token", output_ids[r][sent[r] + 1]>>)]
            /\ sent' = [sent EXCEPT ![r] = @ + 1]
            /\ UNCHANGED <<inbox, pending, thread>>
    BY <1>6 DEF PutToken, Put, Streams!TokenItem
  <2>2. sent[r] \in Nat /\ output_ids[r] \in Seq(Token)
    BY <1>1 DEF PlacesInv, TypeOK
  <2>3. output_ids[r][sent[r] + 1] \in Token
    BY <2>1, <2>2
  <2>4. <<"token", output_ids[r][sent[r] + 1]>> \in Items
    BY <2>3 DEF Items
  <2> QED BY <1>1, <2>1, <2>2, <2>4
<1>7. CASE PutDone
  <2>1. PICK r \in Requests :
            /\ IF status[r] = "finished"
               THEN out_queue' = [out_queue EXCEPT ![r] = Append(@, <<"done", FinishReason(r)>>)]
               ELSE out_queue' = out_queue
            /\ thread' = [thread EXCEPT !.cursor = @ + 1]
            /\ UNCHANGED <<inbox, pending, sent>>
    BY <1>7 DEF PutDone, Put, Streams!DoneItem
  <2>2. <<"done", FinishReason(r)>> \in Items
    BY DEF Items, Reasons, FinishReason
  <2> HIDE DEF Items
  <2>3. out_queue' \in [Requests -> Seq(Items)]
    <3>1. CASE status[r] = "finished"
      <4>1. out_queue[r] \in Seq(Items)
        BY <1>1
      <4>2. Append(out_queue[r], <<"done", FinishReason(r)>>) \in Seq(Items)
        BY <2>2, <4>1
      <4> QED BY <1>1, <2>1, <3>1, <4>2
    <3> QED BY <1>1, <2>1, <3>1
  <2>4. thread' \in ThreadSet
    <3>1. thread.cursor \in Nat \ {0}
      BY <1>1 DEF ThreadSet
    <3>2. thread.cursor + 1 \in Nat \ {0}
      BY <3>1
    <3> QED BY <1>1, <2>1, <3>2 DEF ThreadSet
  <2> QED BY <1>1, <2>1, <2>3, <2>4
<1>8. CASE ForgetDone
  <2>1. PICK i \in DOMAIN pending : pending' = Without(pending, i)
    BY <1>8 DEF ForgetDone
  <2>2. pending' \in Seq(Requests)
    BY <1>1, <2>1, WithoutFacts
  <2> QED BY <1>1, <1>8, <2>2 DEF ForgetDone
<1>9. CASE EndDispatch
  <2>1. thread' \in ThreadSet
    BY <1>9 DEF EndDispatch, Top, ThreadSet
  <2> QED BY <1>1, <1>9, <2>1 DEF EndDispatch
<1>10. CASE UNCHANGED allVars
  BY <1>1, <1>10 DEF allVars, workerVars
<1> QED BY <1>2, <1>3, <1>4, <1>5, <1>6, <1>7, <1>8, <1>9, <1>10 DEF WNext, Worker

-----------------------------------------------------------------------------
(* The loop of the thread, and its two lists *)

\* Every step keeps the thread where the call of step() is.
LEMMA NextThread ==
    ASSUME PlacesInv, WorkerTypeOK, ThreadShape, [WNext]_allVars
    PROVE  ThreadShape'
<1>1. thread \in ThreadSet /\ pending \in Seq(Requests)
  BY DEF WorkerTypeOK, ThreadSet
<1>2. CASE \E r \in Requests : Submit(r)
  BY <1>2 DEF Submit, vars, ThreadShape
<1>3. CASE Register
  <2>1. /\ step.pc = "idle" /\ step' = step
        /\ thread' = [thread EXCEPT !.pc = "drain"]
        /\ Head(inbox) \in Requests /\ pending' = Append(pending, Head(inbox))
    BY <1>3, RegisterFacts DEF Register, AddRequest
  <2>2. pending' # <<>> /\ thread'.pc = "drain"
    BY <1>1, <2>1 DEF ThreadSet
  <2> QED BY <2>1, <2>2 DEF ThreadShape
<1>4. CASE CallStep
  <2>1. thread'.pc = "step" /\ step' = [Returned EXCEPT !.pc = "schedule"]
    BY <1>1, <1>4 DEF CallStep, BeginStep, ThreadSet
  <2>2. step'.pc = "schedule"
    BY <2>1 DEF Returned
  <2> QED BY <2>1, <2>2 DEF ThreadShape
<1>5. CASE InStep
  BY <1>5 DEF InStep, ThreadShape
<1>6. CASE PutToken
  BY <1>6 DEF PutToken, vars, ThreadShape
<1>7. CASE PutDone
  <2>1. step' = step /\ pending' = pending /\ thread' = [thread EXCEPT !.cursor = @ + 1]
    BY <1>7 DEF PutDone, vars
  <2>2. thread'.pc = thread.pc
    BY <1>1, <2>1 DEF ThreadSet
  <2> QED BY <2>1, <2>2 DEF ThreadShape
<1>8. CASE ForgetDone
  BY <1>8 DEF ForgetDone, vars, ThreadShape
<1>9. CASE EndDispatch
  BY <1>9 DEF EndDispatch, Top, vars, ThreadShape
<1>10. CASE UNCHANGED allVars
  BY <1>10 DEF allVars, workerVars, vars, ThreadShape
<1> QED BY <1>2, <1>3, <1>4, <1>5, <1>6, <1>7, <1>8, <1>9, <1>10 DEF WNext, Worker

\* Every step keeps a request in at most one of the two lists, once.
LEMMA NextLists ==
    ASSUME PlacesInv, WorkerTypeOK, ThreadShape, InboxAndPending, [WNext]_allVars
    PROVE  InboxAndPending'
<1>1. /\ inbox \in Seq(Requests) /\ pending \in Seq(Requests) /\ thread \in ThreadSet
      /\ status \in [Requests -> {"new", "waiting", "running", "finished"}]
      /\ Range(inbox) \subseteq Requests /\ Range(pending) \subseteq Requests
  BY RangeOfList DEF WorkerTypeOK, ThreadSet, PlacesInv, TypeOK
<1>2. CASE \E r \in Requests : Submit(r)
  <2>1. PICK r \in Requests : Submit(r)
    BY <1>2
  <2>2. /\ status[r] = "new" /\ r \notin Range(inbox)
        /\ inbox' = Append(inbox, r) /\ UNCHANGED <<status, pending, thread>>
    BY <2>1 DEF Submit, vars, seqVars
  <2>3. Range(inbox') = Range(inbox) \cup {r} /\ (NoDuplicates(inbox) => NoDuplicates(inbox'))
    BY <1>1, <2>2, AppendFacts
  <2> QED BY <2>2, <2>3 DEF InboxAndPending
<1>3. CASE Register
  <2> DEFINE r == Head(inbox)
  <2>1. /\ r \in Requests /\ r \in Range(inbox) /\ status[r] = "new"
        /\ Range(inbox') \subseteq Range(inbox)
        /\ NoDuplicates(inbox) => NoDuplicates(inbox') /\ r \notin Range(inbox')
        /\ pending' = Append(pending, r)
        /\ status' = [status EXCEPT ![r] = "waiting"]
    BY <1>3, RegisterFacts
  <2> HIDE DEF r
  <2>2. r \notin Range(pending)
    BY <2>1 DEF InboxAndPending
  <2>3. Range(pending') = Range(pending) \cup {r}
        /\ (NoDuplicates(pending) => NoDuplicates(pending'))
    BY <1>1, <2>1, <2>2, AppendFacts
  <2>4. thread.pc \in {"block", "drain"} /\ (thread.pc = "block" => pending = <<>>)
    BY <1>3 DEF Register, ThreadShape
  <2>5. \A q \in Range(pending) : status[q] # "finished"
    BY <2>4 DEF InboxAndPending
  <2>6. NoDuplicates(inbox') /\ NoDuplicates(pending')
    BY <2>1, <2>3 DEF InboxAndPending
  <2>7. \A q \in Range(inbox') : status'[q] = "new"
    BY <1>1, <2>1 DEF InboxAndPending
  <2>8. \A q \in Range(pending') : status'[q] # "new" /\ status'[q] # "finished"
    BY <1>1, <2>1, <2>3, <2>5 DEF InboxAndPending
  <2> QED BY <2>6, <2>7, <2>8 DEF InboxAndPending
<1>4. CASE CallStep
  BY <1>4 DEF CallStep, BeginStep, seqVars, InboxAndPending
<1>5. CASE InStep
  <2>1. /\ UNCHANGED <<inbox, pending>> /\ StepCall
        /\ thread'.pc \notin {"block", "drain"}
    BY <1>5 DEF InStep
  <2>2. \A r \in Requests : status'[r] = "new" <=> status[r] = "new"
    BY <2>1, StepCallKeeps
  <2> QED BY <1>1, <2>1, <2>2 DEF InboxAndPending
<1>6. CASE PutToken
  BY <1>6 DEF PutToken, vars, seqVars, InboxAndPending
<1>7. CASE PutDone
  <2>1. /\ UNCHANGED <<inbox, pending, status>> /\ thread' = [thread EXCEPT !.cursor = @ + 1]
    BY <1>7 DEF PutDone, vars, seqVars
  <2>2. thread'.pc = thread.pc
    BY <1>1, <2>1 DEF ThreadSet
  <2> QED BY <2>1, <2>2 DEF InboxAndPending
<1>8. CASE ForgetDone
  <2>1. PICK i \in DOMAIN pending : pending' = Without(pending, i)
    BY <1>8 DEF ForgetDone
  <2>2. UNCHANGED <<inbox, status, thread>>
    BY <1>8 DEF ForgetDone, vars, seqVars
  <2>3. /\ Range(pending') \subseteq Range(pending)
        /\ NoDuplicates(pending) => NoDuplicates(pending')
    BY <1>1, <2>1, WithoutRange
  <2> QED BY <2>2, <2>3 DEF InboxAndPending
<1>9. CASE EndDispatch
  BY <1>9 DEF EndDispatch, Done, vars, seqVars, InboxAndPending
<1>10. CASE UNCHANGED allVars
  BY <1>10 DEF allVars, workerVars, vars, seqVars, InboxAndPending
<1> QED BY <1>2, <1>3, <1>4, <1>5, <1>6, <1>7, <1>8, <1>9, <1>10 DEF WNext, Worker

-----------------------------------------------------------------------------
(* Who has a Done *)

\* A queue has ended when its last item is a Done.
LEMMA EndedAfter ==
    ASSUME NEW q \in Seq(Items), NEW x \in Items
    PROVE  Streams!Ended(Append(q, x)) <=> x[1] = "done"
<1> HIDE DEF Items
<1>1. /\ Append(q, x) # <<>> /\ Len(Append(q, x)) = Len(q) + 1
      /\ Append(q, x)[Len(q) + 1] = x
  OBVIOUS
<1> QED BY <1>1 DEF Streams!Ended

\* _dispatch is done with nobody when it starts, and with everybody when its
\* cursor is past the end.
LEMMA PassedEnds ==
    ASSUME WorkerTypeOK, NEW r
    PROVE  /\ thread.pc # "dispatch" \/ thread.cursor = 1 => ~Passed(r)
           /\ thread.pc = "dispatch" /\ thread.cursor > Len(pending) /\ r \in Range(pending)
                 => Passed(r)
<1>1. /\ pending \in Seq(Requests) /\ thread.cursor \in Nat \ {0}
      /\ DOMAIN pending = 1..Len(pending) /\ Len(pending) \in Nat
  BY WorkerTypes
<1> QED BY <1>1 DEF Passed, Range

\* The request at hand: _dispatch has not been at it, so it has no Done yet.
LEMMA AtHand ==
    ASSUME WorkerTypeOK, InboxAndPending, Answers, NEW r \in Requests, At(r)
    PROVE  r \in Range(pending) /\ ~Passed(r) /\ ~Streams!Ended(out_queue[r])
<1>1. /\ pending \in Seq(Requests) /\ thread.cursor \in Nat \ {0}
      /\ DOMAIN pending = 1..Len(pending) /\ Len(pending) \in Nat
  BY WorkerTypes
<1>2. thread.cursor \in DOMAIN pending /\ r = pending[thread.cursor]
  BY <1>1 DEF At
<1>3. r \in Range(pending)
  BY <1>2 DEF Range
<1>4. ~Passed(r)
  BY <1>1, <1>2 DEF Passed, InboxAndPending, NoDuplicates
<1> QED BY <1>3, <1>4 DEF Answers

\* At the start nobody waits.
LEMMA InitAnswers == WInit => ThreadShape /\ InboxAndPending /\ Answers
<1> SUFFICES ASSUME WInit PROVE ThreadShape /\ InboxAndPending /\ Answers
  OBVIOUS
<1>1. /\ inbox = <<>> /\ pending = <<>> /\ thread = [pc |-> "block", cursor |-> 1]
      /\ out_queue = [r \in Requests |-> <<>>] /\ step.pc = "idle"
      /\ status = [r \in Requests |-> "new"]
  BY DEF WInit, Init, Returned, Streams!Init
<1>2. Range(inbox) = {} /\ Range(pending) = {} /\ NoDuplicates(inbox) /\ NoDuplicates(pending)
  BY <1>1 DEF Range, NoDuplicates
<1> QED BY <1>1, <1>2 DEF ThreadShape, InboxAndPending, Answers, Streams!Ended

\* Every step answers whom it should and nobody else.
LEMMA NextAnswers ==
    ASSUME PlacesInv, WorkerTypeOK, ThreadShape, InboxAndPending, Answers, [WNext]_allVars
    PROVE  Answers'
<1>1. /\ inbox \in Seq(Requests) /\ pending \in Seq(Requests) /\ thread \in ThreadSet
      /\ status \in [Requests -> {"new", "waiting", "running", "finished"}]
      /\ Range(pending) \subseteq Requests /\ out_queue \in [Requests -> Seq(Items)]
  BY RangeOfList, WorkerTypes DEF WorkerTypeOK, ThreadSet, PlacesInv, TypeOK
<1>2. WorkerTypeOK'
  BY NextWorkerTypes
<1> HIDE DEF Items
<1> DEFINE Ended(r) == Streams!Ended(out_queue[r])
<1> SUFFICES ASSUME NEW q \in Requests
             PROVE  /\ Ended(q)' => status'[q] = "finished"
                    /\ q \notin Range(pending') => status'[q] \in {"new", "finished"}
                    /\ q \in Range(pending') /\ ~Passed(q)' => ~Ended(q)'
                    /\ status'[q] = "finished" /\ (q \notin Range(pending') \/ Passed(q)')
                          => Ended(q)'
  BY DEF Answers
<1>3. /\ Ended(q) => status[q] = "finished"
      /\ q \notin Range(pending) => status[q] \in {"new", "finished"}
      /\ q \in Range(pending) /\ ~Passed(q) => ~Ended(q)
      /\ status[q] = "finished" /\ (q \notin Range(pending) \/ Passed(q)) => Ended(q)
  BY DEF Answers
<1>4. CASE (\E r \in Requests : Submit(r)) \/ UNCHANGED allVars
  <2>1. UNCHANGED <<status, pending, thread, out_queue>>
    BY <1>4 DEF Submit, vars, seqVars, allVars, workerVars
  <2>2. Passed(q)' = Passed(q) /\ Ended(q)' = Ended(q)
    BY <2>1 DEF Passed
  <2> QED BY <1>3, <2>1, <2>2
<1>5. CASE Register
  <2> DEFINE r == Head(inbox)
  <2>1. /\ r \in Requests /\ status[r] = "new"
        /\ pending' = Append(pending, r)
        /\ status' = [status EXCEPT ![r] = "waiting"]
        /\ out_queue' = out_queue
        /\ thread' = [thread EXCEPT !.pc = "drain"]
    BY <1>5, RegisterFacts
  <2> HIDE DEF r
  <2>2. Range(pending') = Range(pending) \cup {r}
    BY <1>1, <2>1, AppendFacts
  <2>3. thread'.pc = "drain" /\ thread.pc # "dispatch"
    BY <1>1, <1>5, <2>1 DEF Register, ThreadSet
  <2>4. ~Passed(q) /\ ~Passed(q)' /\ Ended(q)' = Ended(q)
    BY <2>1, <2>3 DEF Passed
  <2>5. status'[q] = IF q = r THEN "waiting" ELSE status[q]
    BY <1>1, <2>1
  <2> QED BY <1>3, <2>1, <2>2, <2>4, <2>5
<1>6. CASE CallStep
  <2>1. /\ UNCHANGED <<status, pending, out_queue>>
        /\ thread.pc = "drain" /\ thread' = [thread EXCEPT !.pc = "step"]
    BY <1>6 DEF CallStep, BeginStep, seqVars
  <2>2. thread'.pc = "step"
    BY <1>1, <2>1 DEF ThreadSet
  <2>3. ~Passed(q) /\ ~Passed(q)' /\ Ended(q)' = Ended(q)
    BY <2>1, <2>2 DEF Passed
  <2> QED BY <1>3, <2>1, <2>3
<1>7. CASE InStep
  <2>1. /\ UNCHANGED <<pending, out_queue>> /\ StepCall
        /\ thread.pc = "step" /\ thread'.cursor = 1
    BY <1>7 DEF InStep
  <2>2. ~Passed(q)
    BY <2>1, PassedEnds
  <2>3. ~Passed(q)'
    BY <1>1, <2>1 DEF Passed
  <2>4. /\ status[q] = "finished" => status'[q] = "finished"
        /\ status'[q] = "new" <=> status[q] = "new"
    BY <2>1, StepCallKeeps
  <2>5. Ended(q)' = Ended(q)
    BY <2>1
  <2> QED BY <1>1, <1>3, <2>1, <2>2, <2>3, <2>4, <2>5
<1>8. CASE PutToken
  <2>1. PICK r \in Requests :
            /\ At(r) /\ sent[r] < Len(output_ids[r])
            /\ out_queue' = [out_queue EXCEPT ![r] =
                                Append(@, <<"token", output_ids[r][sent[r] + 1]>>)]
            /\ UNCHANGED <<status, pending, thread>>
    BY <1>8 DEF PutToken, Put, Streams!TokenItem, vars, seqVars
  <2> DEFINE x == <<"token", output_ids[r][sent[r] + 1]>>
  <2>2. x \in Items
    <3>1. sent[r] \in Nat /\ output_ids[r] \in Seq(Token)
      BY WorkerTypes DEF PlacesInv, TypeOK
    <3>2. output_ids[r][sent[r] + 1] \in Token
      BY <2>1, <3>1
    <3> QED BY <3>2 DEF Items
  <2>3. x[1] = "token"
    OBVIOUS
  <2>4. out_queue' = [out_queue EXCEPT ![r] = Append(@, x)]
    BY <2>1
  <2> HIDE DEF x
  <2>5. r \in Range(pending) /\ ~Passed(r) /\ ~Ended(r)
    BY <2>1, AtHand
  <2>6. Passed(q)' = Passed(q)
    BY <2>1 DEF Passed
  <2>7. CASE q = r
    <3>1. out_queue'[r] = Append(out_queue[r], x) /\ out_queue[r] \in Seq(Items)
      BY <1>1, <2>4
    <3>2. ~Ended(q)'
      BY <2>2, <2>3, <2>7, <3>1, EndedAfter
    <3> QED BY <1>3, <2>1, <2>5, <2>6, <2>7, <3>2
  <2>8. CASE q # r
    <3>1. Ended(q)' = Ended(q)
      BY <1>1, <2>4, <2>8
    <3> QED BY <1>3, <2>1, <2>6, <3>1
  <2> QED BY <2>7, <2>8
<1>9. CASE PutDone
  <2>1. PICK r \in Requests :
            /\ At(r)
            /\ IF status[r] = "finished"
               THEN out_queue' = [out_queue EXCEPT ![r] = Append(@, <<"done", FinishReason(r)>>)]
               ELSE out_queue' = out_queue
            /\ thread' = [thread EXCEPT !.cursor = @ + 1]
            /\ UNCHANGED <<status, pending>>
    BY <1>9 DEF PutDone, Put, Streams!DoneItem, vars, seqVars
  <2> DEFINE x == <<"done", FinishReason(r)>>
  <2>2. x \in Items /\ x[1] = "done"
    BY DEF Items, Reasons, FinishReason
  <2>3. IF status[r] = "finished" THEN out_queue' = [out_queue EXCEPT ![r] = Append(@, x)]
                                  ELSE out_queue' = out_queue
    BY <2>1
  <2> HIDE DEF x
  <2>4. r \in Range(pending) /\ ~Passed(r) /\ ~Ended(r)
    BY <2>1, AtHand
  <2>5. /\ thread.pc = "dispatch" /\ thread.cursor \in 1..Len(pending)
        /\ r = pending[thread.cursor] /\ Len(pending) \in Nat
        /\ DOMAIN pending = 1..Len(pending)
        /\ thread'.pc = "dispatch" /\ thread'.cursor = thread.cursor + 1
    BY <1>1, <2>1 DEF At, ThreadSet
  <2>6. CASE q = r
    <3>1. Passed(q)'
      BY <2>1, <2>5, <2>6 DEF Passed
    <3>2. ASSUME status[r] = "finished" PROVE Ended(r)'
      <4>1. out_queue'[r] = Append(out_queue[r], x) /\ out_queue[r] \in Seq(Items)
        BY <1>1, <2>3, <3>2
      <4> QED BY <2>2, <4>1, EndedAfter
    <3>3. ASSUME status[r] # "finished" PROVE ~Ended(r)'
      BY <2>3, <2>4, <3>3
    <3> QED BY <2>1, <2>4, <2>6, <3>1, <3>2, <3>3
  <2>7. CASE q # r
    <3>1. Ended(q)' = Ended(q)
      BY <1>1, <2>3, <2>7
    <3>2. ASSUME NEW i \in DOMAIN pending, i < thread'.cursor, pending[i] = q
          PROVE  i < thread.cursor
      BY <2>5, <2>7, <3>2
    <3>3. Passed(q)' <=> Passed(q)
      BY <2>1, <2>5, <3>2 DEF Passed
    <3> QED BY <1>3, <2>1, <3>1, <3>3
  <2> QED BY <2>6, <2>7
<1>10. CASE ForgetDone
  <2>1. PICK i \in DOMAIN pending : Done(pending[i]) /\ pending' = Without(pending, i)
    BY <1>10 DEF ForgetDone
  <2>2. /\ UNCHANGED <<status, thread, out_queue>>
        /\ thread.pc = "dispatch" /\ thread.cursor > Len(pending)
    BY <1>10 DEF ForgetDone, vars, seqVars
  <2>3. Range(pending') = Range(pending) \ {pending[i]}
    BY <1>1, <2>1, WithoutRange DEF InboxAndPending
  <2>4. \A p \in Range(pending) : Passed(p)
    BY <2>2, PassedEnds
  <2>5. Len(pending') < thread'.cursor
    <3>1. /\ i \in 1..Len(pending) /\ Len(pending) \in Nat
          /\ DOMAIN pending' = 1..Len(pending) - 1 /\ pending' \in Seq(Requests)
      BY <1>1, <2>1, WithoutFacts
    <3>2. Len(pending') = Len(pending) - 1
      BY <3>1
    <3>3. thread.cursor \in Nat
      BY WorkerTypes
    <3> QED BY <2>2, <3>1, <3>2, <3>3
  <2>6. q \in Range(pending') => Passed(q)'
    <3>1. thread'.cursor \in Nat /\ pending' \in Seq(Requests) /\ thread'.pc = "dispatch"
      BY <1>2, <2>2 DEF WorkerTypeOK
    <3> QED BY <2>5, <3>1 DEF Passed, Range
  <2>7. Ended(q)' = Ended(q)
    BY <2>2
  <2>8. q = pending[i] => q \in Range(pending) /\ status[q] = "finished"
    BY <2>1 DEF Done, Range
  <2> QED BY <1>3, <2>2, <2>3, <2>4, <2>6, <2>7, <2>8
<1>11. CASE EndDispatch
  <2>1. /\ UNCHANGED <<status, pending, out_queue>> /\ thread'.cursor = 1
        /\ thread.pc = "dispatch" /\ thread.cursor > Len(pending)
        /\ \A r \in Range(pending) : status[r] # "finished"
    BY <1>11 DEF EndDispatch, Done, vars, seqVars
  <2>2. ~Passed(q)'
    BY <1>1, <2>1 DEF Passed
  <2>3. Ended(q)' = Ended(q)
    BY <2>1
  <2> QED BY <1>3, <2>1, <2>2, <2>3
<1> QED BY <1>4, <1>5, <1>6, <1>7, <1>8, <1>9, <1>10, <1>11 DEF WNext, Worker

-----------------------------------------------------------------------------
(* What is on the queues *)

\* StreamIsOutput, of one request.
StreamOf(r) ==
    LET q == out_queue[r]
        n == sent[r]
    IN
    /\ n <= Len(output_ids[r]) /\ n <= Len(q)
    /\ \A i \in 1..n : q[i] = Streams!TokenItem(output_ids[r][i])
    /\ Len(q) # n =>
        /\ Len(q) = n + 1
        /\ n = Len(output_ids[r])
        /\ Finished(r)
        /\ q[n + 1] = Streams!DoneItem(FinishReason(r))

\* A queue has a Done when it has more items than tokens were sent.
LEMMA EndedIffLonger ==
    ASSUME WorkerTypeOK, NEW r \in Requests, StreamOf(r)
    PROVE  Streams!Ended(out_queue[r]) <=> Len(out_queue[r]) # sent[r]
<1>1. out_queue[r] \in Seq(Items) /\ sent[r] \in Nat
  BY WorkerTypes
<1>2. /\ sent[r] <= Len(out_queue[r])
      /\ \A i \in 1..sent[r] : out_queue[r][i][1] = "token"
      /\ Len(out_queue[r]) # sent[r] => /\ Len(out_queue[r]) = sent[r] + 1
                                        /\ out_queue[r][sent[r] + 1][1] = "done"
  BY DEF StreamOf, Streams!TokenItem, Streams!DoneItem
<1> HIDE DEF Items
<1>3. CASE Len(out_queue[r]) # sent[r]
  <2>1. out_queue[r] # <<>>
    BY <1>1, <1>2, <1>3, EmptySeq
  <2> QED BY <1>2, <1>3, <2>1 DEF Streams!Ended
<1>4. CASE Len(out_queue[r]) = sent[r]
  <2>1. out_queue[r] # <<>> => sent[r] \in 1..sent[r]
    BY <1>1, <1>4, EmptySeq
  <2> QED BY <1>2, <1>4, <2>1 DEF Streams!Ended
<1> QED BY <1>3, <1>4

\* Whoever leaves the queue and the count of a request alone, and of its
\* output only what was sent, leaves its stream correct.
LEMMA SameStream ==
    ASSUME WorkerTypeOK, PlacesInv, NEW r \in Requests, StreamOf(r),
           out_queue'[r] = out_queue[r], sent'[r] = sent[r],
           Len(output_ids[r]) <= Len(output_ids'[r]), output_ids'[r] \in Seq(Token),
           \A i \in 1..Len(output_ids[r]) : output_ids'[r][i] = output_ids[r][i],
           Streams!Ended(out_queue[r]) => output_ids'[r] = output_ids[r]
    PROVE  StreamOf(r)'
<1>1. /\ sent[r] \in Nat /\ output_ids[r] \in Seq(Token)
      /\ Len(output_ids[r]) \in Nat /\ Len(output_ids'[r]) \in Nat
  BY WorkerTypes DEF PlacesInv, TypeOK
<1>2. /\ sent[r] <= Len(output_ids[r]) /\ sent[r] <= Len(out_queue[r])
      /\ \A i \in 1..sent[r] : out_queue[r][i] = Streams!TokenItem(output_ids[r][i])
  BY DEF StreamOf
<1>3. /\ sent'[r] <= Len(output_ids'[r]) /\ sent'[r] <= Len(out_queue'[r])
      /\ \A i \in 1..sent'[r] : out_queue'[r][i] = Streams!TokenItem(output_ids'[r][i])
  BY <1>1, <1>2 DEF Streams!TokenItem
<1>4. ASSUME Len(out_queue'[r]) # sent'[r]
      PROVE  /\ Len(out_queue'[r]) = sent'[r] + 1
             /\ sent'[r] = Len(output_ids'[r])
             /\ Finished(r)'
             /\ out_queue'[r][sent'[r] + 1] = Streams!DoneItem(FinishReason(r))'
  <2>1. output_ids'[r] = output_ids[r]
    BY <1>4, EndedIffLonger
  <2> QED BY <1>4, <2>1 DEF StreamOf, Finished, FinishReason, Streams!DoneItem
<1> QED BY <1>3, <1>4 DEF StreamOf, Streams!TokenItem, Streams!DoneItem

\* At the start nothing is sent.
LEMMA InitStreams == WInit => StreamIsOutput
<1> SUFFICES ASSUME WInit, NEW r \in Requests PROVE StreamOf(r)
  BY DEF StreamIsOutput, StreamOf
<1>1. out_queue[r] = <<>> /\ sent[r] = 0 /\ output_ids[r] = <<>>
  BY DEF WInit, Init, Streams!Init
<1> QED BY <1>1, EmptySeq DEF StreamOf

\* Every step keeps the streams correct.
LEMMA NextStreams ==
    ASSUME PlacesInv, PlacesInv', EndIsNoticed, WorkerTypeOK, InboxAndPending, Answers,
           StreamIsOutput, [WNext]_allVars
    PROVE  StreamIsOutput'
<1>1. /\ out_queue \in [Requests -> Seq(Items)] /\ sent \in [Requests -> Nat]
      /\ output_ids \in [Requests -> Seq(Token)] /\ output_ids' \in [Requests -> Seq(Token)]
  BY WorkerTypes DEF PlacesInv, TypeOK
<1> HIDE DEF Items
<1> SUFFICES ASSUME NEW q \in Requests PROVE StreamOf(q)'
  BY DEF StreamIsOutput, StreamOf
<1>2. StreamOf(q)
  BY DEF StreamIsOutput, StreamOf
<1>3. CASE UNCHANGED <<output_ids, sent, out_queue>>
  BY <1>2, <1>3 DEF StreamOf, Finished, FinishReason
<1>4. CASE InStep
  <2>1. StepCall /\ UNCHANGED <<sent, out_queue>>
    BY <1>4 DEF InStep
  <2>2. /\ status[q] = "finished" => output_ids'[q] = output_ids[q]
        /\ Len(output_ids[q]) <= Len(output_ids'[q])
        /\ \A i \in 1..Len(output_ids[q]) : output_ids'[q][i] = output_ids[q][i]
    BY <2>1, StepCallKeeps
  <2>3. Streams!Ended(out_queue[q]) => output_ids'[q] = output_ids[q]
    BY <2>2 DEF Answers
  <2>4. output_ids'[q] \in Seq(Token)
    BY <1>1
  <2> QED BY <1>2, <2>1, <2>2, <2>3, <2>4, SameStream
<1>5. CASE PutToken
  <2>1. PICK r \in Requests :
            /\ At(r) /\ sent[r] < Len(output_ids[r])
            /\ out_queue' = [out_queue EXCEPT ![r] =
                                Append(@, Streams!TokenItem(output_ids[r][sent[r] + 1]))]
            /\ sent' = [sent EXCEPT ![r] = @ + 1]
            /\ output_ids' = output_ids
    BY <1>5 DEF PutToken, Put, vars, seqVars
  <2> DEFINE x == Streams!TokenItem(output_ids[r][sent[r] + 1])
  <2>2. out_queue' = [out_queue EXCEPT ![r] = Append(@, x)]
    BY <2>1
  <2>3. x \in Items /\ x = Streams!TokenItem(output_ids[r][sent[r] + 1])
    <3>1. sent[r] \in Nat /\ output_ids[r] \in Seq(Token)
      BY <1>1
    <3>2. output_ids[r][sent[r] + 1] \in Token
      BY <2>1, <3>1
    <3> QED BY <3>2 DEF Items, Streams!TokenItem
  <2> HIDE DEF x
  <2>4. CASE q # r
    <3>1. out_queue'[q] = out_queue[q] /\ sent'[q] = sent[q] /\ output_ids'[q] = output_ids[q]
      BY <1>1, <2>1, <2>2, <2>4
    <3> QED BY <1>2, <3>1 DEF StreamOf, Finished, FinishReason
  <2>5. CASE q = r
    <3> DEFINE n == sent[r]
               s == out_queue[r]
    <3>1. Len(s) = n
      <4>1. ~Streams!Ended(s)
        BY <2>1, AtHand
      <4> QED BY <1>2, <2>5, <4>1, EndedIffLonger
    <3>2. n \in Nat /\ s \in Seq(Items) /\ n < Len(output_ids[r]) /\ Len(output_ids[r]) \in Nat
      BY <1>1, <2>1
    <3>3. \A i \in 1..n : s[i] = Streams!TokenItem(output_ids[r][i])
      BY <1>2, <2>5 DEF StreamOf
    <3>4. out_queue'[r] = Append(s, x) /\ sent'[r] = n + 1 /\ output_ids'[r] = output_ids[r]
      BY <1>1, <2>1, <2>2
    <3>5. x = Streams!TokenItem(output_ids[r][n + 1])
      BY <2>3
    <3> HIDE DEF n, s
    <3>6. /\ Len(Append(s, x)) = n + 1
          /\ \A i \in 1..n + 1 : Append(s, x)[i] = IF i = n + 1 THEN x ELSE s[i]
      BY <2>3, <3>1, <3>2
    <3>7. \A i \in 1..n + 1 : Append(s, x)[i] = Streams!TokenItem(output_ids[r][i])
      BY <3>2, <3>3, <3>5, <3>6
    <3>8. n + 1 <= Len(output_ids[r])
      BY <3>2
    <3> QED BY <2>5, <3>2, <3>4, <3>6, <3>7, <3>8 DEF StreamOf, Streams!TokenItem
  <2> QED BY <2>4, <2>5
<1>6. CASE PutDone
  <2>1. PICK r \in Requests :
            /\ At(r) /\ sent[r] >= Len(output_ids[r])
            /\ IF status[r] = "finished"
               THEN out_queue' = [out_queue EXCEPT ![r] =
                                     Append(@, Streams!DoneItem(FinishReason(r)))]
               ELSE out_queue' = out_queue
            /\ UNCHANGED <<sent, output_ids>>
    BY <1>6 DEF PutDone, Put, vars, seqVars
  <2> DEFINE x == Streams!DoneItem(FinishReason(r))
  <2>2. CASE status[r] # "finished" \/ q # r
    <3>1. out_queue'[q] = out_queue[q]
      BY <1>1, <2>1, <2>2
    <3> QED BY <1>2, <2>1, <3>1 DEF StreamOf, Finished, FinishReason
  <2>3. CASE status[r] = "finished" /\ q = r
    <3>1. out_queue'[r] = Append(out_queue[r], x)
      BY <1>1, <2>1, <2>3
    <3>2. Len(out_queue[r]) = sent[r]
      <4>1. ~Streams!Ended(out_queue[r])
        BY <2>1, AtHand
      <4> QED BY <1>2, <2>3, <4>1, EndedIffLonger
    <3>3. Finished(r)
      BY <2>3 DEF EndIsNoticed
    <3>4. /\ sent[r] = Len(output_ids[r]) /\ sent[r] \in Nat /\ out_queue[r] \in Seq(Items)
          /\ \A i \in 1..sent[r] : out_queue[r][i] = Streams!TokenItem(output_ids[r][i])
      BY <1>1, <1>2, <2>1, <2>3 DEF StreamOf
    <3>5. x \in Items
      BY DEF Items, Reasons, FinishReason, Streams!DoneItem
    <3>6. x = Streams!DoneItem(FinishReason(r))'
      BY <2>1 DEF FinishReason, Streams!DoneItem
    <3> HIDE DEF x
    <3>7. /\ Len(Append(out_queue[r], x)) = sent[r] + 1
          /\ Append(out_queue[r], x)[sent[r] + 1] = x
          /\ \A i \in 1..sent[r] : Append(out_queue[r], x)[i] = out_queue[r][i]
      BY <3>2, <3>4, <3>5
    <3>8. Finished(r)'
      BY <2>1, <3>3, FinishedFrame
    <3> QED BY <2>1, <2>3, <3>1, <3>4, <3>6, <3>7, <3>8
            DEF StreamOf, Streams!TokenItem, Streams!DoneItem
  <2> QED BY <2>2, <2>3
<1>7. CASE Register \/ CallStep \/ ForgetDone \/ EndDispatch \/ (\E r \in Requests : Submit(r))
           \/ UNCHANGED allVars
  <2>1. UNCHANGED <<output_ids, sent, out_queue>>
    BY <1>7 DEF Register, AddRequest, CallStep, BeginStep, ForgetDone, EndDispatch, Submit,
                vars, seqVars, allVars, workerVars
  <2> QED BY <1>3, <2>1
<1> QED BY <1>4, <1>5, <1>6, <1>7 DEF WNext, Worker

-----------------------------------------------------------------------------
(* Theorems *)

\* The inductive invariant: the worker and the engine it drives.
AllInv == PlacesInv /\ EndIsNoticed /\ WorkerInv

\* It holds in every state of the worker.
LEMMA AllAlways == WSpec => []AllInv
<1>1. WInit => AllInv
  <2>1. WInit => Init
    BY DEF WInit
  <2> QED BY <2>1, InitPlaces, InitEnds, InitWorkerTypes, InitAnswers, InitStreams
          DEF AllInv, WorkerInv
<1>2. AllInv /\ [WNext]_allVars => AllInv'
  <2> SUFFICES ASSUME PlacesInv, EndIsNoticed, WorkerInv, [WNext]_allVars PROVE AllInv'
    BY DEF AllInv
  <2>1. WorkerTypeOK /\ ThreadShape /\ InboxAndPending /\ Answers /\ StreamIsOutput
    BY DEF WorkerInv
  <2>2. [Next]_vars
    BY <2>1, WorkerStep
  <2>3. PlacesInv' /\ EndIsNoticed'
    BY <2>2, NextPlaces, NextEnds
  <2>4. WorkerTypeOK' /\ ThreadShape' /\ InboxAndPending' /\ Answers' /\ StreamIsOutput'
    BY <2>1, <2>3, NextWorkerTypes, NextThread, NextLists, NextAnswers, NextStreams
  <2> QED BY <2>3, <2>4 DEF AllInv, WorkerInv
<1> QED BY <1>1, <1>2, PTL DEF WSpec

\* The worker calls the engine as the engine may be called: whatever is proved
\* of Engine holds under the worker, however handlers submit.
THEOREM WorkerDrivesEngine == WSpec => Spec
<1>1. WInit => Init
  BY DEF WInit
<1>2. AllInv /\ [WNext]_allVars => [Next]_vars
  BY WorkerStep DEF AllInv, WorkerInv
<1> QED BY <1>1, <1>2, AllAlways, PTL DEF WSpec, Spec

\* The inbox, _pending, the thread's place, the counts and the queues keep
\* their types: WorkerTypeOK for every instance.
THEOREM WorkerTypesHold == WSpec => []WorkerTypeOK
<1>1. AllInv => WorkerTypeOK
  BY DEF AllInv, WorkerInv
<1> QED BY <1>1, AllAlways, PTL

\* A client gets what was generated for it, in order, without a gap, and a
\* Done that says the truth: StreamIsOutput for every instance, through any
\* sequence of batches, preemptions and re-admissions.
THEOREM StreamAlwaysOutput == WSpec => []StreamIsOutput
<1>1. AllInv => StreamIsOutput
  BY DEF AllInv, WorkerInv
<1> QED BY <1>1, AllAlways, PTL

\* The worker keeps the requests that wait for their Done and no other:
\* PendingUnanswered for every instance.
THEOREM PendingAlwaysUnanswered == WSpec => []PendingUnanswered
<1>1. AllInv => PendingUnanswered
  <2> SUFFICES ASSUME WorkerTypeOK, InboxAndPending, Answers PROVE PendingUnanswered
    BY DEF AllInv, WorkerInv
  <2>1. inbox \in Seq(Requests) /\ pending \in Seq(Requests)
    BY WorkerTypes
  <2>2. NoDuplicates(inbox \o pending)
    <3>1. Range(inbox) \cap Range(pending) = {}
      BY DEF InboxAndPending
    <3> QED BY <2>1, <3>1, ConcatFacts DEF InboxAndPending
  <2>3. ASSUME thread.pc # "dispatch", NEW r \in Requests
        PROVE  r \in Range(pending) <=> status[r] # "new" /\ ~Streams!Ended(out_queue[r])
    <3>1. ~Passed(r)
      BY <2>3 DEF Passed
    <3> QED BY <3>1 DEF InboxAndPending, Answers
  <2> QED BY <2>2, <2>3 DEF PendingUnanswered
<1> QED BY <1>1, AllAlways, PTL

\* The worker blocks only when the scheduler has no work and goes round only
\* when it has some: AwakeIffWork for every instance.
THEOREM AlwaysAwakeIffWork == WSpec => []AwakeIffWork
<1>1. AllInv => AwakeIffWork
  <2> SUFFICES ASSUME AllInv PROVE AwakeIffWork
    OBVIOUS
  <2>1. /\ PlacesInv /\ EndIsNoticed /\ WorkerTypeOK /\ ThreadShape /\ InboxAndPending /\ Answers
        /\ pending \in Seq(Requests) /\ waiting \in Seq(Requests) /\ running \in Seq(Requests)
    BY WorkerTypes, ListTypes DEF AllInv, WorkerInv, PlacesInv
  <2>2. ASSUME step.pc = "idle"
        PROVE  /\ ActiveSet = Range(running)
               /\ \A r \in Requests : r \in Range(waiting) => status[r] = "waiting"
               /\ \A r \in Requests : r \in Range(running) => status[r] = "running"
               /\ \A r \in Requests : status[r] = "waiting" => r \in Range(waiting)
               /\ \A r \in Requests : status[r] = "running" => r \in Range(running)
    <3>1. ActiveSet = Range(running)
      BY <2>2 DEF ActiveSet, Prefilling, Range
    <3> QED BY <2>1, <2>2, <3>1 DEF PlacesInv, Places
  <2>3. ASSUME thread.pc = "block" PROVE waiting = <<>> /\ running = <<>>
    <3>1. step.pc = "idle" /\ pending = <<>>
      BY <2>1, <2>3 DEF ThreadShape
    <3>2. \A r \in Requests : status[r] \in {"new", "finished"}
      BY <2>1, <3>1, RangeOfList DEF Answers
    <3>3. Range(waiting) = {} /\ Range(running) = {}
      BY <2>1, <2>2, <3>1, <3>2, RangeOfList
    <3> QED BY <2>1, <3>3, RangeOfList
  <2>4. ASSUME thread.pc = "drain" PROVE waiting # <<>> \/ running # <<>>
    <3>1. step.pc = "idle" /\ pending # <<>>
      BY <2>1, <2>4 DEF ThreadShape
    <3>2. PICK r \in Requests : r \in Range(pending)
      BY <2>1, <3>1, RangeOfList
    <3>3. status[r] \notin {"new", "finished"}
      BY <2>1, <2>4, <3>2 DEF InboxAndPending
    <3>4. status[r] \in {"waiting", "running"}
      BY <2>1, <3>3 DEF PlacesInv, TypeOK
    <3> QED BY <2>2, <3>1, <3>4, RangeOfList
  <2> QED BY <2>3, <2>4 DEF AwakeIffWork
<1> QED BY <1>1, AllAlways, PTL

\* Every step puts one token or one Done on a queue that has not ended, or
\* nothing on any: the worker implements what submit promises of its queues.
THEOREM WorkerImplementsTokenStreams == WSpec => ImplementsTokenStreams
<1>1. WInit => Streams!Init
  BY DEF WInit
<1>2. AllInv /\ [WNext]_allVars => [Streams!Next]_out_queue
  <2> SUFFICES ASSUME AllInv, [WNext]_allVars PROVE [Streams!Next]_out_queue
    OBVIOUS
  <2>1. PlacesInv /\ WorkerTypeOK /\ InboxAndPending /\ Answers
    BY DEF AllInv, WorkerInv
  <2>2. CASE PutToken
    <3>1. PICK r \in Requests :
              /\ At(r) /\ sent[r] < Len(output_ids[r])
              /\ Put(r, Streams!TokenItem(output_ids[r][sent[r] + 1]))
      BY <2>2 DEF PutToken
    <3>2. sent[r] \in Nat /\ output_ids[r] \in Seq(Token)
      BY <2>1, WorkerTypes DEF PlacesInv, TypeOK
    <3>3. output_ids[r][sent[r] + 1] \in Token
      BY <3>1, <3>2
    <3>4. ~Streams!Ended(out_queue[r])
      BY <2>1, <3>1, AtHand
    <3>5. Streams!PutToken(r, output_ids[r][sent[r] + 1])
      BY <3>1, <3>4 DEF Streams!PutToken, Put
    <3> QED BY <3>3, <3>5 DEF Streams!Next
  <2>3. CASE PutDone
    <3>1. PICK r \in Requests :
              /\ At(r)
              /\ IF status[r] = "finished" THEN Put(r, Streams!DoneItem(FinishReason(r)))
                                           ELSE UNCHANGED out_queue
      BY <2>3 DEF PutDone
    <3>2. ~Streams!Ended(out_queue[r]) /\ FinishReason(r) \in Reasons
      BY <2>1, <3>1, AtHand DEF FinishReason, Reasons
    <3>3. UNCHANGED out_queue \/ Streams!PutDone(r, FinishReason(r))
      BY <3>1, <3>2 DEF Streams!PutDone, Put
    <3> QED BY <3>2, <3>3 DEF Streams!Next
  <2>4. CASE Register \/ CallStep \/ InStep \/ ForgetDone \/ EndDispatch
             \/ (\E r \in Requests : Submit(r)) \/ UNCHANGED allVars
    BY <2>4 DEF Register, CallStep, InStep, ForgetDone, EndDispatch, Submit, allVars, workerVars
  <2> QED BY <2>2, <2>3, <2>4 DEF WNext, Worker
<1> QED BY <1>1, <1>2, AllAlways, PTL DEF WSpec, ImplementsTokenStreams, Streams!Spec

-----------------------------------------------------------------------------
(* The pipeline *)

\* Types of the cache of stage 1 and of the forward under way, but for what
\* the blocks and the wire hold.
FarTypes ==
    /\ far = [free |-> far.free, table |-> far.table, kv |-> far.kv]
    /\ far.free \subseteq Blocks
    /\ far.table \in [Slots -> Seq(Blocks)]
    /\ pipe = [stage |-> pipe.stage, done |-> pipe.done, wire |-> pipe.wire]
    /\ pipe.stage \in {0, 1}
    /\ pipe.done \in Nat

-----------------------------------------------------------------------------
(* The micro-batch *)

\* A micro-batch is a part of the batch.
LEMMA FlightFacts ==
    ASSUME PlacesInv
    PROVE  /\ Flight \in Seq(Requests) /\ Len(Flight) \in Nat
           /\ DOMAIN Flight = 1..Len(Flight)
           /\ step.prefill => Flight = step.batch
           /\ ~step.prefill =>
                 /\ Len(Flight) <= Micro
                 /\ step.cursor <= Len(step.batch) => Len(Flight) >= 1
                 /\ \A i \in DOMAIN Flight :
                       /\ step.cursor + i - 1 \in DOMAIN step.batch
                       /\ Flight[i] = step.batch[step.cursor + i - 1]
                 /\ \/ step.cursor + Len(Flight) = Len(step.batch) + 1
                    \/ step.cursor + Len(Flight) <= Len(step.batch) /\ Len(Flight) = Micro
                    \/ step.cursor > Len(step.batch) /\ Len(Flight) = 0
<1>1. step.batch \in Seq(Requests) /\ step.cursor \in Nat \ {0} /\ Len(step.batch) \in Nat
  BY ListTypes DEF PlacesInv
<1>2. CASE step.prefill
  BY <1>1, <1>2 DEF Flight
<1>3. CASE ~step.prefill
  <2> DEFINE c == step.cursor
             n == Len(step.batch)
             e == Cache!MinOf(c + Micro - 1, n)
  <2>1. /\ e \in Nat /\ e <= n /\ e <= c + Micro - 1
        /\ e = n \/ e = c + Micro - 1
    BY <1>1, PipelineConstants DEF Cache!MinOf
  <2>2. Flight = SubSeq(step.batch, c, e)
    BY <1>3 DEF Flight
  <2> HIDE DEF e, c, n
  <2>3. CASE c <= e
    <3>1. /\ Flight \in Seq(Requests) /\ Len(Flight) = e - c + 1
          /\ \A i \in 1..Len(Flight) : Flight[i] = step.batch[c + i - 1]
      BY <1>1, <2>1, <2>2, <2>3, SMTT(30) DEF c, n
    <3>2. Micro \in Nat \ {0} /\ c \in Nat \ {0} /\ n \in Nat /\ DOMAIN step.batch = 1..n
      BY <1>1, PipelineConstants DEF c, n
    <3>3. Len(Flight) <= Micro /\ Len(Flight) >= 1 /\ Len(Flight) \in Nat
      BY <2>1, <2>3, <3>1, <3>2
    <3>4. DOMAIN Flight = 1..Len(Flight)
      BY <3>1
    <3>5. ASSUME NEW i \in DOMAIN Flight
          PROVE  c + i - 1 \in DOMAIN step.batch /\ Flight[i] = step.batch[c + i - 1]
      BY <2>1, <2>3, <3>1, <3>2, <3>3, <3>4
    <3>6. \/ c + Len(Flight) = n + 1
          \/ c + Len(Flight) <= n /\ Len(Flight) = Micro
      BY <2>1, <2>3, <3>1, <3>2
    <3> QED BY <1>3, <3>1, <3>3, <3>4, <3>5, <3>6 DEF c, n
  <2>4. CASE ~ (c <= e)
    <3>1. Flight = <<>>
      BY <1>1, <2>1, <2>2, <2>4 DEF c, n
    <3>2. n < c
      BY <1>1, <2>1, <2>4, PipelineConstants DEF c, n
    <3>3. Flight \in Seq(Requests) /\ Len(Flight) = 0 /\ DOMAIN Flight = 1..0
      BY <3>1, EmptySeq
    <3>4. c \in Nat /\ n \in Nat /\ Micro \in Nat /\ 1..0 = {}
      BY <1>1, PipelineConstants DEF c, n
    <3> QED BY <1>3, <3>2, <3>3, <3>4 DEF c, n
  <2> QED BY <2>3, <2>4
<1> QED BY <1>2, <1>3

\* Its members are active.
LEMMA FlightIsActive ==
    ASSUME PlacesInv, step.pc = "forward", NEW i \in DOMAIN Flight
    PROVE  /\ Flight[i] \in Requests /\ Flight[i] \in Range(step.batch)
           /\ Flight[i] \in ActiveSet /\ slot[Flight[i]] \in Slots
<1>1. step.batch \in Seq(Requests) /\ StepShape
  BY ListTypes DEF PlacesInv
<1>2. \E j \in DOMAIN step.batch : Flight[i] = step.batch[j]
  BY FlightFacts
<1>3. Flight[i] \in Requests /\ Flight[i] \in Range(step.batch)
  BY <1>1, <1>2, RangeOfList
<1>4. Range(step.batch) \subseteq ActiveSet
  <2>1. step.prefill => Prefilling = step.batch
    BY DEF Prefilling
  <2> QED BY <1>1, <2>1 DEF ActiveSet, StepShape
<1>5. \A r \in ActiveSet : slot[r] \in Slots
  BY DEF PlacesInv, SlotOfEach
<1> QED BY <1>3, <1>4, <1>5

\* Of the tables that are too short, one comes first.
LEMMA NeediestLacks ==
    ASSUME PlacesInv, FarTypes, Lacking # {}
    PROVE  /\ Neediest \in Lacking
           /\ Neediest[1] \in DOMAIN Flight /\ Neediest[2] \in Due /\ Neediest[2] \in {0, 1}
<1> DEFINE First(w) == \A v \in Lacking : w[1] < v[1] \/ (w[1] = v[1] /\ w[2] <= v[2])
<1>1. Due \subseteq {0, 1}
  BY DEF Due, FarTypes
<1>2. DOMAIN Flight \subseteq Nat
  BY FlightFacts
<1>3. \A w \in Lacking : w = <<w[1], w[2]>> /\ w[1] \in DOMAIN Flight /\ w[2] \in Due
  BY DEF Lacking
<1>4. \A w \in Lacking : w[1] \in Nat /\ w[2] \in Nat
  BY <1>1, <1>2, <1>3
<1>5. \E w \in Lacking : First(w)
  <2> DEFINE Rows == {w[1] : w \in Lacking}
  <2>1. Rows \subseteq Nat /\ Rows # {}
    BY <1>4
  <2> HIDE DEF Rows
  <2>2. PICK i \in Rows : \A j \in Rows : i <= j
    BY <2>1, HasLeast
  <2> DEFINE Stages == {v[2] : v \in {w \in Lacking : w[1] = i}}
  <2>3. Stages \subseteq Nat /\ Stages # {}
    BY <1>4, <2>2 DEF Rows
  <2> HIDE DEF Stages
  <2>4. PICK s \in Stages : \A t \in Stages : s <= t
    BY <2>3, HasLeast
  <2>5. PICK w \in Lacking : w[1] = i /\ w[2] = s
    BY <2>4 DEF Stages
  <2>6. ASSUME NEW v \in Lacking PROVE w[1] < v[1] \/ (w[1] = v[1] /\ w[2] <= v[2])
    <3>1. i <= v[1] /\ i \in Nat /\ v[1] \in Nat
      BY <1>4, <2>2, <2>5 DEF Rows
    <3>2. v[1] = i => s <= v[2]
      BY <2>4 DEF Stages
    <3> QED BY <2>5, <3>1, <3>2
  <2> QED BY <2>5, <2>6
<1>6. Neediest \in Lacking
  BY <1>5 DEF Neediest
<1> QED BY <1>1, <1>3, <1>6

-----------------------------------------------------------------------------
(* Requests and slots, whatever the stages do *)

\* The scheduler's steps are those of Engine.
LEMMA SchedulerSteps == SchedulerPart => Next
BY DEF SchedulerPart, Next, StepCall

\* What a call looks like once a micro-batch is sampled.
LEMMA SampledStep ==
    ASSUME PlacesInv, SampleFlight
    PROVE  /\ step.pc = "forward" /\ step' \in StepSet
           /\ step'.batch = step.batch /\ step'.prefill = step.prefill
           /\ \/ step.prefill /\ step'.pc = "store" /\ step'.cursor = 1
              \/ /\ ~step.prefill /\ step'.pc = "forward"
                 /\ step'.cursor = step.cursor + Len(Flight)
                 /\ step.cursor + Len(Flight) <= Len(step.batch)
              \/ /\ ~step.prefill /\ step'.pc = "post" /\ step'.cursor = 1
                 /\ ~ (step.cursor + Len(Flight) <= Len(step.batch))
<1>1. step \in StepSet /\ step.cursor \in Nat \ {0}
  BY DEF PlacesInv, TypeOK, StepSet
<1>2. Len(Flight) \in Nat
  BY FlightFacts
<1>3. step.cursor + Len(Flight) \in Nat \ {0}
  BY <1>1, <1>2
<1>4. CASE step.prefill
  <2>1. step' = [step EXCEPT !.pc = "store", !.cursor = 1]
    BY <1>4 DEF SampleFlight
  <2>2. /\ step' \in StepSet /\ step'.pc = "store" /\ step'.cursor = 1
        /\ step'.batch = step.batch /\ step'.prefill = step.prefill
    <3> DEFINE moved == [step EXCEPT !.pc = "store"]
    <3>1. /\ moved \in StepSet /\ moved.pc = "store"
          /\ moved.batch = step.batch /\ moved.prefill = step.prefill
      BY <1>1 DEF StepSet
    <3>2. step' = [moved EXCEPT !.cursor = 1]
      BY <2>1
    <3> HIDE DEF moved
    <3> QED BY <3>1, <3>2 DEF StepSet
  <2> QED BY <1>4, <2>2 DEF SampleFlight, InForward
<1>5. CASE ~step.prefill /\ NextFlight <= Len(step.batch)
  <2>1. step' = [step EXCEPT !.cursor = step.cursor + Len(Flight)]
    BY <1>5 DEF SampleFlight, NextFlight
  <2> QED BY <1>1, <1>3, <1>5, <2>1 DEF StepSet, SampleFlight, InForward, NextFlight
<1>6. CASE ~step.prefill /\ ~ (NextFlight <= Len(step.batch))
  <2>1. step' = [step EXCEPT !.pc = "post", !.cursor = 1]
    BY <1>6 DEF SampleFlight
  <2>2. /\ step' \in StepSet /\ step'.pc = "post" /\ step'.cursor = 1
        /\ step'.batch = step.batch /\ step'.prefill = step.prefill
    <3> DEFINE moved == [step EXCEPT !.pc = "post"]
    <3>1. /\ moved \in StepSet /\ moved.pc = "post"
          /\ moved.batch = step.batch /\ moved.prefill = step.prefill
      BY <1>1 DEF StepSet
    <3>2. step' = [moved EXCEPT !.cursor = 1]
      BY <2>1
    <3> HIDE DEF moved
    <3> QED BY <3>1, <3>2 DEF StepSet
  <2> QED BY <1>6, <2>2 DEF SampleFlight, InForward, NextFlight
<1> QED BY <1>4, <1>5, <1>6

\* A micro-batch that is sampled moves nobody.
LEMMA SampleFlightPlaces ==
    ASSUME PlacesInv, SampleFlight
    PROVE  PlacesInv'
<1>1. PICK tok \in [Range(Flight) -> Token] :
          output_ids' = [r \in Requests |->
                            IF r \in Range(Flight) THEN Append(output_ids[r], tok[r])
                                                   ELSE output_ids[r]]
  BY DEF SampleFlight
<1>2. UNCHANGED <<queueVars, status, seq_id, slot, prompt_ids, evictions, freeSlots>>
  BY DEF SampleFlight, cacheVars
<1>3. output_ids' \in [Requests -> Seq(Token)]
  <2>1. output_ids \in [Requests -> Seq(Token)]
    BY DEF PlacesInv, TypeOK
  <2>2. \A r \in Requests : r \in Range(Flight) => Append(output_ids[r], tok[r]) \in Seq(Token)
    BY <2>1
  <2> QED BY <1>1, <2>1, <2>2
<1>4. StepShape /\ UNCHANGED <<running>>
  BY <1>2 DEF PlacesInv, queueVars
<1>5. StepShape' /\ Prefilling' = Prefilling
  BY <1>4, SampledStep DEF StepShape, Prefilling
<1> QED BY <1>2, <1>3, <1>5, SampledStep, QuietPlaces

\* Every step of the two stages keeps requests and slots in place.
LEMMA PNextPlaces ==
    ASSUME PlacesInv, [PNext]_stageVars
    PROVE  PlacesInv'
<1>1. CASE SchedulerPart
  BY <1>1, SchedulerSteps, NextPlaces
<1>2. CASE ExtendFar \/ Cross \/ ForwardFar \/ UNCHANGED stageVars
  <2>1. UNCHANGED vars
    BY <1>2 DEF ExtendFar, Cross, ForwardFar, stageVars, vars
  <2> QED BY <2>1, NextPlaces
<1>3. CASE ExtendNear \/ ForwardNear
  <2>1. freeSlots' = freeSlots
    BY <1>3, CacheKeepsSlots DEF ExtendNear, ForwardNear
  <2>2. /\ UNCHANGED <<queueVars, step, status, seq_id, slot, prompt_ids, output_ids, evictions>>
        /\ step.pc = "forward"
    BY <1>3 DEF ExtendNear, ForwardNear, seqVars, InForward
  <2>3. step' \in StepSet /\ output_ids' \in [Requests -> Seq(Token)] /\ StepShape
    BY <2>2 DEF PlacesInv, TypeOK, StepSet
  <2>4. StepShape' /\ Prefilling' = Prefilling
    BY <2>2, <2>3 DEF StepShape, Prefilling, queueVars
  <2> QED BY <2>1, <2>2, <2>3, <2>4, QuietPlaces
<1>4. CASE PoolDry \/ TableRaises
  <2>1. /\ UNCHANGED <<queueVars, status, seq_id, slot, prompt_ids, output_ids, evictions,
                       freeSlots>>
        /\ step.pc = "forward" /\ step' = Raised
    BY <1>4 DEF PoolDry, TableRaises, seqVars, cacheVars, InForward
  <2>2. step' \in StepSet /\ step'.pc = "dead" /\ step'.batch = <<>>
    <3>1. Returned \in StepSet /\ Returned.batch = <<>>
      BY EmptySeq DEF Returned, StepSet
    <3> QED BY <2>1, <3>1 DEF Raised, StepSet
  <2>3. StepShape'
    BY <2>2 DEF StepShape
  <2>4. output_ids' \in [Requests -> Seq(Token)]
    BY <2>1 DEF PlacesInv, TypeOK
  <2> QED BY <2>1, <2>2, <2>3, <2>4, QuietPlaces
<1>5. CASE SampleFlight
  BY <1>5, SampleFlightPlaces
<1> QED BY <1>1, <1>2, <1>3, <1>4, <1>5 DEF PNext

-----------------------------------------------------------------------------
(* The blocks of stage 1 *)

\* Sampling, scheduling and the stage before leave the cache of stage 1 alone.
LEMMA FarSteps ==
    ASSUME [PNext]_stageVars
    PROVE  far' = far \/ ExtendFar \/ ForwardFar
BY DEF PNext, SchedulerPart, ExtendNear, PoolDry, TableRaises, ForwardNear, Cross, SampleFlight,
       stageVars, pipeVars

\* What ExtendFar does to the table of one slot of stage 1.
LEMMA ExtendFarFacts ==
    ASSUME PlacesInv, FarTypes, ExtendFar
    PROVE  \E b \in far.free, s \in Slots :
              /\ Neediest[1] \in DOMAIN Flight /\ s = slot[Flight[Neediest[1]]]
              /\ far'.free = far.free \ {b}
              /\ far'.table = [far.table EXCEPT ![s] = Append(far.table[s], b)]
              /\ far'.kv = far.kv
              /\ far' = [free |-> far'.free, table |-> far'.table, kv |-> far'.kv]
<1>1. /\ step.pc = "forward" /\ Lacking # {}
      /\ \E b \in far.free :
            far' = [far EXCEPT !.free = @ \ {b},
                               !.table[slot[Flight[Neediest[1]]]] = Append(@, b)]
  BY DEF ExtendFar, InForward
<1>2. PICK s : s = slot[Flight[Neediest[1]]]
  OBVIOUS
<1>3. Neediest[1] \in DOMAIN Flight /\ s \in Slots
  BY <1>1, <1>2, NeediestLacks, FlightIsActive
<1>4. PICK b \in far.free :
          far' = [[far EXCEPT !.free = far.free \ {b}]
                     EXCEPT !.table = [far.table EXCEPT ![s] = Append(far.table[s], b)]]
  BY <1>1, <1>2, <1>3 DEF FarTypes
<1> DEFINE t == [far.table EXCEPT ![s] = Append(far.table[s], b)]
           moved == [far EXCEPT !.free = far.free \ {b}]
<1>5. moved = [free |-> far.free \ {b}, table |-> far.table, kv |-> far.kv]
  <2>1. PICK f, u, k : far = [free |-> f, table |-> u, kv |-> k]
    BY DEF FarTypes
  <2> QED BY <2>1
<1>6. far' = [moved EXCEPT !.table = t]
  BY <1>4
<1> HIDE DEF t, moved
<1>7. far' = [free |-> far.free \ {b}, table |-> t, kv |-> far.kv]
  BY <1>5, <1>6
<1>8. /\ far'.free = far.free \ {b} /\ far'.table = t /\ far'.kv = far.kv
      /\ far' = [free |-> far'.free, table |-> far'.table, kv |-> far'.kv]
  BY <1>7
<1> QED BY <1>2, <1>3, <1>8 DEF t

\* What ForwardFar does to the contents of stage 1.
LEMMA ForwardFarFrame ==
    ASSUME FarTypes, ForwardFar
    PROVE  /\ far'.free = far.free /\ far'.table = far.table
           /\ far' = [free |-> far'.free, table |-> far'.table, kv |-> far'.kv]
<1>1. PICK v : far' = [far EXCEPT !.kv = v]
  BY DEF ForwardFar
<1> QED BY <1>1 DEF FarTypes

\* The types of stage 1 last.
LEMMA NextFarTypes ==
    ASSUME PlacesInv, FarTypes, [PNext]_stageVars
    PROVE  FarTypes'
<1>1. /\ far'.free \subseteq Blocks /\ far'.table \in [Slots -> Seq(Blocks)]
      /\ far' = [free |-> far'.free, table |-> far'.table, kv |-> far'.kv]
  <2>1. CASE far' = far
    BY <2>1 DEF FarTypes
  <2>2. CASE ExtendFar
    <3>1. PICK b \in far.free, s \in Slots :
              /\ far'.free = far.free \ {b}
              /\ far'.table = [far.table EXCEPT ![s] = Append(far.table[s], b)]
              /\ far' = [free |-> far'.free, table |-> far'.table, kv |-> far'.kv]
      BY <2>2, ExtendFarFacts
    <3>2. Append(far.table[s], b) \in Seq(Blocks)
      BY DEF FarTypes
    <3> QED BY <3>1, <3>2 DEF FarTypes
  <2>3. CASE ForwardFar
    BY <2>3, ForwardFarFrame DEF FarTypes
  <2> QED BY <2>1, <2>2, <2>3, FarSteps
<1>2. /\ pipe'.stage \in {0, 1} /\ pipe'.done \in Nat
      /\ pipe' = [stage |-> pipe'.stage, done |-> pipe'.done, wire |-> pipe'.wire]
  <2>1. CASE pipe' = pipe
    BY <2>1 DEF FarTypes
  <2>2. CASE pipe' = NoFlight
    BY <2>2 DEF NoFlight
  <2>3. CASE pipe' = [pipe EXCEPT !.done = @ + 1]
    BY <2>3 DEF FarTypes
  <2>4. CASE Cross
    BY <2>4 DEF Cross
  <2>5. \/ pipe' = pipe \/ pipe' = NoFlight
        \/ pipe' = [pipe EXCEPT !.done = @ + 1] \/ Cross
    BY DEF PNext, SchedulerPart, ExtendNear, ExtendFar, PoolDry, TableRaises, ForwardNear,
           ForwardFar, SampleFlight, stageVars, pipeVars
  <2> QED BY <2>1, <2>2, <2>3, <2>4, <2>5
<1> QED BY <1>1, <1>2 DEF FarTypes

\* A block that goes from the free list of stage 1 to one table was in none.
LEMMA NextFarOwned ==
    ASSUME PlacesInv, FarTypes, FarBlocksAreOwned, [PNext]_stageVars
    PROVE  FarBlocksAreOwned'
<1>1. CASE far' = far
  BY <1>1 DEF FarBlocksAreOwned
<1>2. CASE ForwardFar
  BY <1>2, ForwardFarFrame DEF FarBlocksAreOwned
<1>3. CASE ExtendFar
  <2>1. PICK b \in far.free, x \in Slots :
            /\ far'.free = far.free \ {b}
            /\ far'.table = [far.table EXCEPT ![x] = Append(far.table[x], b)]
    BY <1>3, ExtendFarFacts
  <2>2. far.table \in [Slots -> Seq(Blocks)] /\ b \in Blocks
    BY DEF FarTypes
  <2>3. \A s \in Slots : b \notin Range(far.table[s])
    BY DEF FarBlocksAreOwned
  <2>4. \A s \in Slots \ {x} : far'.table[s] = far.table[s]
    BY <2>1, <2>2
  <2>5. /\ far'.table[x] = Append(far.table[x], b)
        /\ Range(far'.table[x]) = Range(far.table[x]) \cup {b}
    BY <2>1, <2>2, AppendFacts
  <2>6. far'.free = Blocks \ UNION {Range(far'.table[s]) : s \in Slots}
    <3>1. ASSUME NEW y
          PROVE  (\E s \in Slots : y \in Range(far'.table[s]))
                    <=> y = b \/ \E s \in Slots : y \in Range(far.table[s])
      BY <2>4, <2>5
    <3>2. \A y : y \in far.free <=> y \in Blocks /\ ~ \E s \in Slots : y \in Range(far.table[s])
      BY DEF FarBlocksAreOwned
    <3>3. \A y : y \in far'.free <=>
             y \in Blocks /\ ~ \E s \in Slots : y \in Range(far'.table[s])
      BY <2>1, <3>1, <3>2
    <3> QED BY <3>3
  <2>7. ASSUME NEW s \in Slots, NEW i \in DOMAIN far'.table[s]
        PROVE  \/ i \in DOMAIN far.table[s] /\ far'.table[s][i] = far.table[s][i]
               \/ s = x /\ i = Len(far.table[x]) + 1 /\ far'.table[s][i] = b
    <3>1. CASE s # x
      BY <2>4, <3>1
    <3>2. CASE s = x
      <4>1. /\ far.table[x] \in Seq(Blocks) /\ Len(far.table[x]) \in Nat
            /\ DOMAIN far.table[x] = 1..Len(far.table[x])
        BY <2>2
      <4>2. /\ DOMAIN far'.table[x] = 1..Len(far.table[x]) + 1
            /\ \A j \in 1..Len(far.table[x]) : far'.table[x][j] = far.table[x][j]
            /\ far'.table[x][Len(far.table[x]) + 1] = b
        BY <2>2, <2>5, <4>1
      <4> QED BY <2>7, <3>2, <4>1, <4>2
    <3> QED BY <3>1, <3>2
  <2>8. \A s \in Slots : \A i \in DOMAIN far.table[s] : far.table[s][i] # b
    BY <2>3 DEF Range
  <2>9. ASSUME NEW s \in Slots, NEW t \in Slots,
               NEW i \in DOMAIN far'.table[s], NEW j \in DOMAIN far'.table[t],
               far'.table[s][i] = far'.table[t][j]
        PROVE  s = t /\ i = j
    BY <2>7, <2>8, <2>9 DEF FarBlocksAreOwned
  <2> QED BY <2>6, <2>9 DEF FarBlocksAreOwned
<1> QED BY <1>1, <1>2, <1>3, FarSteps

\* At the start no slot of stage 1 has blocks.
LEMMA InitFar == PInit => FarTypes /\ FarBlocksAreOwned
<1> SUFFICES ASSUME PInit PROVE FarTypes /\ FarBlocksAreOwned
  OBVIOUS
<1>1. /\ far.free = Blocks /\ far.table = [s \in Slots |-> <<>>]
      /\ far = [free |-> far.free, table |-> far.table, kv |-> far.kv]
      /\ pipe = [stage |-> 0, done |-> 0, wire |-> <<>>]
  BY DEF PInit, NoFlight
<1>2. <<>> \in Seq(Blocks) /\ Range(<<>>) = {}
  BY EmptySeq DEF Range
<1>3. FarTypes
  BY <1>1, <1>2 DEF FarTypes
<1>4. UNION {Range(far.table[s]) : s \in Slots} = {}
  BY <1>1, <1>2
<1>5. \A s \in Slots : DOMAIN far.table[s] = {}
  BY <1>1
<1> QED BY <1>1, <1>3, <1>4, <1>5 DEF FarBlocksAreOwned

\* Although slots are freed and reassigned behind its back, stage 1 never
\* lends a block to two slots, twice to one, or loses one: FarBlocksAreOwned
\* for every instance.
THEOREM FarBlocksAlwaysOwned == PSpec => []FarBlocksAreOwned
<1> DEFINE All == PlacesInv /\ FarTypes /\ FarBlocksAreOwned
<1>1. PInit => All
  BY InitPlaces, InitFar DEF PInit
<1>2. All /\ [PNext]_stageVars => All'
  BY PNextPlaces, NextFarTypes, NextFarOwned
<1>3. All => FarBlocksAreOwned
  OBVIOUS
<1> HIDE DEF All
<1> QED BY <1>1, <1>2, <1>3, PTL DEF PSpec

-----------------------------------------------------------------------------
(* The cache of stage 0 *)

\* Of the two stages' own steps only sampling changes the tokens and only the
\* first stage changes its cache.
LEMMA StageSteps ==
    ASSUME [PNext]_stageVars, ~SchedulerPart
    PROVE  /\ UNCHANGED <<waiting, running, status, seq_id, slot, prompt_ids, evictions>>
           /\ ExtendNear \/ ForwardNear \/ UNCHANGED cacheVars
           /\ SampleFlight \/ output_ids' = output_ids
           /\ SampleFlight \/ step' = step \/ step'.pc = "dead"
<1>1. CASE ExtendNear \/ ForwardNear \/ ExtendFar \/ Cross \/ ForwardFar \/ UNCHANGED stageVars
  BY <1>1 DEF ExtendNear, ExtendFar, ForwardNear, Cross, ForwardFar, stageVars, vars, seqVars,
              queueVars
<1>2. CASE PoolDry \/ TableRaises
  BY <1>2 DEF PoolDry, TableRaises, seqVars, queueVars, Raised, Returned
<1>3. CASE SampleFlight
  BY <1>3 DEF SampleFlight, queueVars
<1> QED BY <1>1, <1>2, <1>3 DEF PNext

\* Every step of the stages is an orderly step of the cache of stage 0.
LEMMA PNextCache ==
    ASSUME PlacesInv, FarTypes, PromptsFit, CacheInv, [PNext]_stageVars
    PROVE  CacheInv'
<1>1. CASE SchedulerPart
  BY <1>1, SchedulerSteps, NextCache
<1>2. CASE ExtendNear
  <2>1. PICK s : Cache!Grow(s)
    BY <1>2 DEF ExtendNear
  <2> QED BY <2>1, CacheServes
<1>3. CASE ForwardNear
  <2>1. PICK r : r = Flight[pipe.done + 1]
    OBVIOUS
  <2>2. CASE step.prefill
    <3>1. Cache!WritePrefill(slot[r], 0)
      BY <1>3, <2>1, <2>2 DEF ForwardNear
    <3> QED BY <3>1, CacheServes
  <2>3. CASE ~step.prefill
    <3>1. Cache!WriteDecode(slot[r], LastToken(r))
      BY <1>3, <2>1, <2>3 DEF ForwardNear
    <3>2. LastToken(r) \in Token
      <4>1. pipe.done + 1 \in DOMAIN Flight
        <5>1. pipe.done < Len(Flight) /\ pipe.done \in Nat
          BY <1>3 DEF ForwardNear, FarTypes
        <5> QED BY <5>1, FlightFacts
      <4> QED BY <4>1, <2>1, FlightFacts, LastTokenType
    <3> QED BY <3>1, <3>2, CacheServes
  <2> QED BY <2>2, <2>3
<1>4. CASE ~SchedulerPart /\ ~ExtendNear /\ ~ForwardNear
  BY <1>4, StageSteps, CacheFrame
<1> QED BY <1>1, <1>2, <1>3, <1>4

\* Only preemption changes prompts.
LEMMA PNextPrompts ==
    ASSUME PromptsClosed, PlacesInv, PromptsFit, [PNext]_stageVars
    PROVE  PromptsFit'
<1>1. CASE SchedulerPart
  BY <1>1, SchedulerSteps, NextPrompts
<1>2. CASE ~SchedulerPart
  BY <1>2, StageSteps DEF PromptsFit
<1> QED BY <1>1, <1>2

\* The members of a micro-batch have one token more when it is sampled.
LEMMA SampledOutput ==
    ASSUME PlacesInv, SampleFlight
    PROVE  \A r \in Requests :
              \/ r \notin Range(Flight) /\ output_ids'[r] = output_ids[r]
              \/ /\ r \in Range(Flight)
                 /\ \E t \in Token : output_ids'[r] = Append(output_ids[r], t)
                 /\ Len(output_ids'[r]) = Len(output_ids[r]) + 1
<1>1. PICK tok \in [Range(Flight) -> Token] :
          output_ids' = [r \in Requests |->
                            IF r \in Range(Flight) THEN Append(output_ids[r], tok[r])
                                                   ELSE output_ids[r]]
  BY DEF SampleFlight
<1>2. output_ids \in [Requests -> Seq(Token)]
  BY DEF PlacesInv, TypeOK
<1>3. ASSUME NEW r \in Requests, r \in Range(Flight)
      PROVE  /\ tok[r] \in Token /\ output_ids'[r] = Append(output_ids[r], tok[r])
             /\ Len(output_ids'[r]) = Len(output_ids[r]) + 1
  <2>1. tok[r] \in Token /\ output_ids'[r] = Append(output_ids[r], tok[r])
    BY <1>1, <1>3
  <2>2. output_ids[r] \in Seq(Token)
    BY <1>2
  <2>3. \A o \in Seq(Token), t \in Token : Len(Append(o, t)) = Len(o) + 1
    OBVIOUS
  <2> QED BY <2>1, <2>2, <2>3
<1>4. \A r \in Requests : r \notin Range(Flight) => output_ids'[r] = output_ids[r]
  BY <1>1
<1> QED BY <1>3, <1>4

\* Each eviction is paid for in the pipeline as well.
LEMMA PNextPaid ==
    ASSUME PlacesInv, EvictionsPaidInv, [PNext]_stageVars
    PROVE  EvictionsPaidInv'
<1>1. CASE SchedulerPart
  BY <1>1, SchedulerSteps, NextPaid
<1>2. CASE ~SchedulerPart /\ ~SampleFlight
  <2>1. UNCHANGED <<running, evictions, output_ids>> /\ (step' = step \/ step'.pc = "dead")
    BY <1>2, StageSteps
  <2> QED BY <2>1 DEF EvictionsPaidInv
<1>3. CASE SampleFlight
  <2>1. /\ step.pc = "forward" /\ step'.batch = step.batch
        /\ step'.pc = "store" => step.prefill
        /\ UNCHANGED <<running, evictions>>
    BY <1>3, SampledStep DEF SampleFlight, queueVars
  <2>2. SUFFICES ASSUME NEW r \in Requests
                 PROVE  /\ evictions[r] <= Len(output_ids'[r])
                        /\ r \in Range(running) => evictions[r] < Len(output_ids'[r])
                        /\ step'.pc = "store" /\ r \in Range(step.batch)
                              => evictions[r] < Len(output_ids'[r])
    BY <2>1 DEF EvictionsPaidInv
  <2>3. /\ evictions[r] <= Len(output_ids[r])
        /\ r \in Range(running) => evictions[r] < Len(output_ids[r])
        /\ evictions[r] \in Nat /\ Len(output_ids[r]) \in Nat
    <3>1. output_ids[r] \in Seq(Token) /\ evictions[r] \in Nat
      BY HistoryTypes
    <3>2. Len(output_ids[r]) \in Nat
      BY <3>1
    <3> QED BY <3>1, <3>2 DEF EvictionsPaidInv
  <2>4. step'.pc = "store" => Flight = step.batch
    BY <2>1, FlightFacts
  <2>5. \/ r \notin Range(Flight) /\ output_ids'[r] = output_ids[r]
        \/ r \in Range(Flight) /\ Len(output_ids'[r]) = Len(output_ids[r]) + 1
    BY <1>3, SampledOutput
  <2> QED BY <2>3, <2>4, <2>5
<1> QED BY <1>1, <1>2, <1>3

-----------------------------------------------------------------------------
(* What attention reads *)

\* Block arithmetic, as in the cache.
LEMMA BlockFacts ==
    ASSUME NEW n \in Nat
    PROVE  /\ Cache!BlocksFor(n) \in Nat
           /\ n > 0 => Cache!BlocksFor(n) >= 1
           /\ n <= Cache!BlocksFor(n) * BlockSize
           /\ \A i \in 1..Cache!BlocksFor(n) :
                 /\ Cache!MinOf(n, i * BlockSize) \in 1..n
                 /\ (i - 1) * BlockSize < n
                 /\ i * BlockSize \in Nat
<1>1. /\ Cache!BlocksFor(n) = KV!BlocksFor(n)
      /\ \A a, b : Cache!MinOf(a, b) = KV!MinOf(a, b)
  BY DEF Cache!BlocksFor, KV!BlocksFor, Cache!MinOf, KV!MinOf
<1>2. /\ KV!BlocksFor(n) \in Nat
      /\ n >= 1 => KV!BlocksFor(n) >= 1
      /\ \A i \in Nat : i <= KV!BlocksFor(n) /\ i >= 1 => (i - 1) * BlockSize < n
  BY KV!BlockBounds, EngineConstants, SameSets
<1>3. \A i \in 1..KV!BlocksFor(n) :
          KV!MinOf(n, i * BlockSize) \in 1..n /\ i * BlockSize \in Nat
  BY KV!BlockEnd, EngineConstants, SameSets
<1>4. n <= Cache!BlocksFor(n) * BlockSize
  <2>1. \A m \in Nat, d \in Nat \ {0} : m <= ((m + d - 1) \div d) * d
    BY SMTT(20)
  <2> QED BY <2>1, EngineConstants DEF Cache!BlocksFor
<1>5. \A i \in 1..Cache!BlocksFor(n) : i \in Nat /\ i <= Cache!BlocksFor(n) /\ i >= 1
  BY <1>1, <1>2
<1> QED BY <1>1, <1>2, <1>3, <1>4, <1>5

\* A table whose blocks hold a string reads as that string.
LEMMA ReadsBack ==
    ASSUME NEW c, NEW t, NEW w \in Seq(Token),
           c[t[Cache!BlocksFor(Len(w))]] = w,
           \A i \in 1..Cache!BlocksFor(Len(w)) :
              /\ Len(c[t[i]]) >= Cache!MinOf(Len(w), i * BlockSize)
              /\ SubSeq(c[t[i]], 1, Cache!MinOf(Len(w), i * BlockSize))
                    = SubSeq(w, 1, Cache!MinOf(Len(w), i * BlockSize))
    PROVE  Reading(c, t, Len(w)) = w
BY DEF Reading

\* And it reads as that string only if they do.
LEMMA ReadsOnly ==
    ASSUME NEW c, NEW t, NEW w, w # <<>>, Reading(c, t, Len(w)) = w
    PROVE  /\ c[t[Cache!BlocksFor(Len(w))]] = w
           /\ \A i \in 1..Cache!BlocksFor(Len(w)) :
                 /\ Len(c[t[i]]) >= Cache!MinOf(Len(w), i * BlockSize)
                 /\ SubSeq(c[t[i]], 1, Cache!MinOf(Len(w), i * BlockSize))
                       = SubSeq(w, 1, Cache!MinOf(Len(w), i * BlockSize))
BY DEF Reading, Garbage

\* A reading depends on the blocks of the table, and on no others.
LEMMA SameReading ==
    ASSUME NEW c, NEW t, NEW d, NEW u, NEW n \in Nat, n > 0,
           \A i \in 1..Cache!BlocksFor(n) : d[u[i]] = c[t[i]]
    PROVE  Reading(d, u, n) = Reading(c, t, n)
<1>1. Cache!BlocksFor(n) \in 1..Cache!BlocksFor(n)
  BY BlockFacts
<1> QED BY <1>1 DEF Reading

\* At stage 0 a slot that has K/V is read as its context.
LEMMA NearReads ==
    ASSUME CacheInv, NEW s \in Slots, committed[s] # <<>>
    PROVE  /\ committed[s] \in Seq(Token)
           /\ Reading(kv, slotBlocks[s], Len(committed[s])) = committed[s]
<1> DEFINE w == committed[s]
           n == Len(w)
<1>1. w \in Seq(Token) /\ n \in Nat /\ n > 0
  <2>1. w \in Seq(Token)
    BY DEF CacheInv, KV!LedgerInv, KV!TypeOK
  <2> QED BY <2>1
<1>2. /\ KV!BlocksFor(n) = Cache!BlocksFor(n)
      /\ \A a, b : KV!MinOf(a, b) = Cache!MinOf(a, b)
  BY DEF Cache!BlocksFor, KV!BlocksFor, Cache!MinOf, KV!MinOf
<1>3. \A i \in 1..Cache!BlocksFor(n) :
          kv[slotBlocks[s][i]] = SubSeq(w, 1, Cache!MinOf(n, i * BlockSize))
  BY <1>2 DEF CacheInv, KV!ContentsInv, KV!HoldsContext, KV!HoldsExactly
<1> HIDE DEF n, w
<1>4. ASSUME NEW i \in 1..Cache!BlocksFor(n)
      PROVE  /\ Len(kv[slotBlocks[s][i]]) >= Cache!MinOf(n, i * BlockSize)
             /\ SubSeq(kv[slotBlocks[s][i]], 1, Cache!MinOf(n, i * BlockSize))
                   = SubSeq(w, 1, Cache!MinOf(n, i * BlockSize))
  <2>1. PICK m \in 1..n : m = Cache!MinOf(n, i * BlockSize)
    BY <1>1, <1>4, BlockFacts
  <2>2. m \in 0..Len(w) /\ m \in Nat
    BY <1>1, <2>1 DEF n
  <2>3. Len(SubSeq(w, 1, m)) = m /\ SubSeq(SubSeq(w, 1, m), 1, m) = SubSeq(w, 1, m)
    <3>1. m \in 0..m
      BY <2>2
    <3>2. \A u \in Seq(Token), k \in Nat : k <= Len(u) =>
             Len(SubSeq(u, 1, k)) = k /\ SubSeq(SubSeq(u, 1, k), 1, k) = SubSeq(u, 1, k)
      <4> SUFFICES ASSUME NEW u \in Seq(Token), NEW k \in Nat, k <= Len(u)
                   PROVE  /\ Len(SubSeq(u, 1, k)) = k
                          /\ SubSeq(SubSeq(u, 1, k), 1, k) = SubSeq(u, 1, k)
        OBVIOUS
      <4>1. k \in 0..Len(u) /\ k \in 0..k
        OBVIOUS
      <4> QED BY <4>1, KV!PrefixOfPrefix, EngineConstants, SameSets
    <3> QED BY <1>1, <2>2, <3>2
  <2>4. kv[slotBlocks[s][i]] = SubSeq(w, 1, m)
    BY <1>3, <2>1
  <2>5. Len(kv[slotBlocks[s][i]]) = m /\ m >= m
    BY <2>2, <2>3, <2>4
  <2>6. SubSeq(kv[slotBlocks[s][i]], 1, m) = SubSeq(w, 1, m)
    BY <2>3, <2>4
  <2>7. Len(kv[slotBlocks[s][i]]) >= m
    BY <2>5
  <2> QED BY <2>1, <2>6, <2>7
<1>5. kv[slotBlocks[s][Cache!BlocksFor(n)]] = w
  <2>0. PICK b : b = Cache!BlocksFor(n)
    OBVIOUS
  <2>1. b \in 1..b /\ b \in Nat /\ n <= b * BlockSize
    <3>1. b \in Nat /\ b >= 1 /\ n <= b * BlockSize
      BY <1>1, <2>0, BlockFacts
    <3> QED BY <3>1
  <2>2. Cache!MinOf(n, b * BlockSize) = n
    BY <2>1 DEF Cache!MinOf
  <2>3. SubSeq(w, 1, n) = w
    BY <1>1 DEF n
  <2> QED BY <1>3, <2>0, <2>1, <2>2, <2>3
<1>6. Reading(kv, slotBlocks[s], n) = w
  BY <1>1, <1>3, <1>4, <1>5, ReadsBack DEF n
<1> QED BY <1>1, <1>6 DEF n, w

-----------------------------------------------------------------------------
(* What the stages have of each sequence *)

\* Outside a forward nobody is half way.
LEMMA NotThrough ==
    ASSUME PlacesInv, pipe = NoFlight, NEW r
    PROVE  ~Through(0, r) /\ ~Through(1, r)
<1>1. pipe.stage = 0 /\ pipe.done = 0
  BY DEF NoFlight
<1>2. \A i \in DOMAIN Flight : ~ (i <= 0)
  BY FlightFacts
<1> QED BY <1>1, <1>2 DEF Through

\* Whoever is through the second stage is through the first.
LEMMA ThroughBoth ==
    ASSUME FarTypes, NEW r, Through(1, r)
    PROVE  Through(0, r) /\ pipe.stage = 1
BY DEF Through, FarTypes

\* Types of what the slots hold.
LEMMA ContextTypes ==
    ASSUME PlacesInv, CacheInv, step.pc # "dead", NEW r \in ActiveSet
    PROVE  /\ r \in Requests /\ slot[r] \in Slots
           /\ committed[slot[r]] \in Seq(Token)
           /\ FarContext(r) \in Seq(Token) /\ ButLast(committed[slot[r]]) \in Seq(Token)
<1>1. r \in Requests /\ slot[r] \in Slots
  <2>1. ActiveSet \subseteq Requests
    BY ListTypes, RangeOfList DEF PlacesInv, ActiveSet
  <2> QED BY <2>1 DEF PlacesInv, SlotOfEach
<1>2. committed[slot[r]] \in Seq(Token)
  BY <1>1 DEF CacheInv, KV!LedgerInv, KV!TypeOK
<1>3. \A w \in Seq(Token) : ButLast(w) \in Seq(Token)
  BY DEF ButLast
<1> QED BY <1>1, <1>2, <1>3, EmptySeq DEF FarContext

\* What a step leaves alone of a slot, stage 0 keeps.
LEMMA SlotFrame ==
    ASSUME NEW r \in Requests, SlotFollows(r),
           slot'[r] = slot[r], prompt_ids'[r] = prompt_ids[r],
           prompt'[slot[r]] = prompt[slot[r]], committed'[slot[r]] = committed[slot[r]],
           Fresh(r)' <=> Fresh(r), Through(0, r)' <=> Through(0, r)
    PROVE  SlotFollows(r)'
BY DEF SlotFollows

\* Stage 1 keeps the context of a slot if no block of its table is written.
LEMMA FarFrame ==
    ASSUME FarTypes, NEW r \in Requests, slot[r] \in Slots, FarHolds(r),
           FarContext(r) \in Seq(Token), slot'[r] = slot[r],
           FarContext(r)' = FarContext(r),
           Len(far.table[slot[r]]) <= Len(far'.table[slot[r]]),
           Len(far'.table[slot[r]]) \in Nat,
           \A i \in DOMAIN far.table[slot[r]] :
               far'.kv[far'.table[slot[r]][i]] = far.kv[far.table[slot[r]][i]]
    PROVE  FarHolds(r)'
<1>1. PICK w, s : w = FarContext(r) /\ s = slot[r]
  OBVIOUS
<1>2. SUFFICES ASSUME w # <<>>
               PROVE  /\ Cache!BlocksFor(Len(w)) <= Len(far'.table[s])
                      /\ Reading(far'.kv, far'.table[s], Len(w)) = w
  <2>1. (FarContext(r))' = w /\ slot'[r] = s
    BY <1>1
  <2> QED BY <2>1 DEF FarHolds
<1>3. /\ Cache!BlocksFor(Len(w)) <= Len(far.table[s])
      /\ Reading(far.kv, far.table[s], Len(w)) = w
  BY <1>1, <1>2 DEF FarHolds
<1>4. /\ Len(w) \in Nat /\ Len(w) > 0 /\ far.table[s] \in Seq(Blocks)
      /\ Len(far.table[s]) \in Nat /\ DOMAIN far.table[s] = 1..Len(far.table[s])
  <2>1. w \in Seq(Token) /\ far.table[s] \in Seq(Blocks)
    BY <1>1 DEF FarTypes
  <2> QED BY <1>2, <2>1
<1>5. Cache!BlocksFor(Len(w)) \in Nat
  BY <1>4, BlockFacts
<1>6. \A i \in 1..Cache!BlocksFor(Len(w)) : far'.kv[far'.table[s][i]] = far.kv[far.table[s][i]]
  <2>1. \A i \in 1..Len(far.table[s]) : far'.kv[far'.table[s][i]] = far.kv[far.table[s][i]]
    BY <1>1, <1>4
  <2> QED BY <1>3, <1>4, <1>5, <2>1
<1>7. Reading(far'.kv, far'.table[s], Len(w)) = Reading(far.kv, far.table[s], Len(w))
  <2>1. PICK c, t, d, u : c = far.kv /\ t = far.table[s] /\ d = far'.kv /\ u = far'.table[s]
    OBVIOUS
  <2> QED BY <1>4, <1>6, <2>1, SameReading
<1>8. Cache!BlocksFor(Len(w)) <= Len(far'.table[s])
  BY <1>1, <1>3, <1>4, <1>5
<1> QED BY <1>3, <1>7, <1>8

\* Stage 1 keeps the context of a slot if it does nothing.
LEMMA FarSame ==
    ASSUME far' = far, NEW r, FarHolds(r), slot'[r] = slot[r], FarContext(r)' = FarContext(r)
    PROVE  FarHolds(r)'
<1>1. FarHolds(r)' <=> LET w == FarContext(r) IN
          w # <<>> =>
             /\ Cache!BlocksFor(Len(w)) <= Len(far.table[slot[r]])
             /\ Reading(far.kv, far.table[slot[r]], Len(w)) = w
  BY DEF FarHolds, Reading, Cache!BlocksFor, Cache!MinOf
<1> QED BY <1>1 DEF FarHolds

\* What a step leaves alone of a request, it keeps of its history.
LEMMA NearFrame ==
    ASSUME NEW r \in Requests, NearHistory(r), evictions'[r] = evictions[r],
           prompt_ids'[r] = prompt_ids[r], output_ids'[r] = output_ids[r],
           status'[r] = status[r], Fresh(r)' <=> Fresh(r),
           r \in ActiveSet' =>
               /\ r \in ActiveSet /\ slot'[r] = slot[r]
               /\ committed'[slot[r]] = committed[slot[r]]
               /\ Through(0, r)' <=> Through(0, r)
    PROVE  NearHistory(r)'
<1>1. History(r)' = History(r)
  BY DEF History
<1>2. r \in ActiveSet' => InNear(r)' = InNear(r)
  BY <1>1 DEF InNear
<1> QED BY <1>1, <1>2 DEF NearHistory

-----------------------------------------------------------------------------
(* The steps of a forward that write nothing *)

\* A call that stands still has the same micro-batch.
LEMMA SameFlight ==
    ASSUME step' = step
    PROVE  /\ Flight' = Flight
           /\ \A r : Fresh(r)' <=> Fresh(r)
           /\ InForward' <=> InForward
           /\ pipe' = pipe => \A r : /\ Through(0, r)' <=> Through(0, r)
                                     /\ Through(1, r)' <=> Through(1, r)
<1>1. Flight' = Flight
  BY DEF Flight, Cache!MinOf
<1> QED BY <1>1 DEF Fresh, InForward, Through

\* The requests and slots a forward leaves alone.
LEMMA ForwardFrame ==
    ASSUME StagesInv, InForward, step' = step,
           UNCHANGED <<running, status, seq_id, slot, prompt_ids, output_ids, evictions>>
    PROVE  /\ ActiveSet' = ActiveSet /\ step.pc = "forward" /\ step'.pc = "forward"
           /\ WireFollows /\ FarRoom
           /\ \A r \in ActiveSet : SlotFollows(r) /\ FarHolds(r)
           /\ \A r \in Requests : evictions[r] <= 1 => NearHistory(r)
           /\ step.batch # <<>> /\ pipe.done <= Len(Flight)
<1>1. step.pc = "forward" /\ step.pc # "dead"
  BY DEF InForward
<1>2. ActiveSet' = ActiveSet
  BY DEF ActiveSet, Prefilling
<1> QED BY <1>1, <1>2 DEF StagesInv, FlightShape

\* A block goes to a table of stage 0.
LEMMA ExtendNearStages ==
    ASSUME PlacesInv, CacheInv, FarTypes, StagesInv, ExtendNear
    PROVE  StagesInv'
<1>1. /\ InForward /\ step' = step /\ far' = far /\ pipe' = pipe
      /\ UNCHANGED <<running, status, seq_id, slot, prompt_ids, output_ids, evictions>>
      /\ UNCHANGED <<prompt, committed>>
  BY DEF ExtendNear, Cache!Grow, queueVars, seqVars, pipeVars
<1>2. /\ Flight' = Flight /\ (InForward' <=> InForward)
      /\ \A r : /\ Fresh(r)' <=> Fresh(r)
                /\ Through(0, r)' <=> Through(0, r)
                /\ Through(1, r)' <=> Through(1, r)
  BY <1>1, SameFlight
<1>3. /\ ActiveSet' = ActiveSet /\ step.pc = "forward" /\ step'.pc = "forward"
      /\ WireFollows /\ FarRoom
      /\ \A r \in ActiveSet : SlotFollows(r) /\ FarHolds(r)
      /\ \A r \in Requests : evictions[r] <= 1 => NearHistory(r)
      /\ step.batch # <<>> /\ pipe.done <= Len(Flight)
  BY <1>1, ForwardFrame
<1>4. FlightShape' /\ WireFollows' /\ FarRoom'
  BY <1>1, <1>2, <1>3 DEF FlightShape, WireFollows, FarRoom, Cache!BlocksFor
<1>5. ASSUME NEW r \in ActiveSet PROVE SlotFollows(r)' /\ FarHolds(r)'
  <2>1. FarContext(r)' = FarContext(r)
    BY <1>1, <1>2 DEF FarContext, ButLast
  <2>2. r \in Requests
    BY <1>3, ContextTypes
  <2>3. FarHolds(r)'
    BY <1>1, <1>3, <2>1, FarSame
  <2> QED BY <1>1, <1>2, <1>3, <2>2, <2>3, SlotFrame
<1>6. ASSUME NEW r \in Requests, evictions'[r] <= 1 PROVE NearHistory(r)'
  BY <1>1, <1>2, <1>3, <1>6, NearFrame
<1> QED BY <1>3, <1>4, <1>5, <1>6 DEF StagesInv

\* A block goes to a table of stage 1.
LEMMA ExtendFarStages ==
    ASSUME PlacesInv, CacheInv, FarTypes, StagesInv, ExtendFar
    PROVE  StagesInv'
<1>1. /\ InForward /\ step' = step /\ pipe' = pipe
      /\ UNCHANGED <<running, status, seq_id, slot, prompt_ids, output_ids, evictions>>
      /\ UNCHANGED <<prompt, committed>>
  BY DEF ExtendFar, cacheVars, queueVars, seqVars
<1>2. /\ Flight' = Flight /\ (InForward' <=> InForward)
      /\ \A r : /\ Fresh(r)' <=> Fresh(r)
                /\ Through(0, r)' <=> Through(0, r)
                /\ Through(1, r)' <=> Through(1, r)
  BY <1>1, SameFlight
<1>3. /\ ActiveSet' = ActiveSet /\ step.pc = "forward" /\ step'.pc = "forward"
      /\ WireFollows /\ FarRoom
      /\ \A r \in ActiveSet : SlotFollows(r) /\ FarHolds(r)
      /\ \A r \in Requests : evictions[r] <= 1 => NearHistory(r)
      /\ step.batch # <<>> /\ pipe.done <= Len(Flight)
  BY <1>1, ForwardFrame
<1>4. ASSUME NEW s \in Slots
      PROVE  /\ Len(far.table[s]) <= Len(far'.table[s]) /\ Len(far'.table[s]) \in Nat
             /\ Len(far.table[s]) \in Nat
             /\ \A i \in DOMAIN far.table[s] :
                   far'.kv[far'.table[s][i]] = far.kv[far.table[s][i]]
  <2>1. PICK b \in far.free, x \in Slots :
            /\ far'.table = [far.table EXCEPT ![x] = Append(far.table[x], b)]
            /\ far'.kv = far.kv
    BY ExtendFarFacts
  <2>2. PICK t \in Seq(Blocks) : t = far.table[s]
    BY DEF FarTypes
  <2>3. b \in Blocks
    BY DEF FarTypes
  <2>4. far'.table[s] = t \/ far'.table[s] = Append(t, b)
    BY <2>1, <2>2 DEF FarTypes
  <2>5. /\ Len(t) \in Nat /\ Len(Append(t, b)) = Len(t) + 1
        /\ \A i \in DOMAIN t : Append(t, b)[i] = t[i]
    BY <2>3
  <2> QED BY <2>1, <2>2, <2>4, <2>5
<1>5. FlightShape' /\ WireFollows'
  BY <1>1, <1>2, <1>3 DEF FlightShape, WireFollows
<1>6. FarRoom'
  <2>1. SUFFICES ASSUME InForward, step.prefill, pipe.stage = 1 \/ pipe.done > 0,
                        NEW i \in DOMAIN Flight
                 PROVE  Cache!BlocksFor(Len(prompt_ids[Flight[i]]))
                           <= Len(far'.table[slot[Flight[i]]])
    BY <1>1, <1>2 DEF FarRoom, Cache!BlocksFor
  <2>2. PICK n, s : n = Cache!BlocksFor(Len(prompt_ids[Flight[i]])) /\ s = slot[Flight[i]]
    OBVIOUS
  <2>3. n <= Len(far.table[s])
    BY <1>3, <2>1, <2>2 DEF FarRoom
  <2>4. n \in Nat /\ s \in Slots
    <3>1. Flight[i] \in Requests /\ s \in Slots
      BY <1>3, <2>2, FlightIsActive
    <3>2. prompt_ids[Flight[i]] \in Seq(Token)
      BY <3>1, HistoryTypes
    <3> QED BY <2>2, <3>1, <3>2, BlockFacts
  <2> QED BY <1>4, <2>2, <2>3, <2>4
<1>7. ASSUME NEW r \in ActiveSet PROVE SlotFollows(r)' /\ FarHolds(r)'
  <2>1. FarContext(r)' = FarContext(r)
    BY <1>1, <1>2 DEF FarContext, ButLast
  <2>2. r \in Requests /\ slot[r] \in Slots /\ FarContext(r) \in Seq(Token)
    BY <1>3, ContextTypes
  <2>3. FarHolds(r)'
    BY <1>1, <1>3, <1>4, <2>1, <2>2, FarFrame
  <2> QED BY <1>1, <1>2, <1>3, <2>2, <2>3, SlotFrame
<1>8. ASSUME NEW r \in Requests, evictions'[r] <= 1 PROVE NearHistory(r)'
  BY <1>1, <1>2, <1>3, <1>8, NearFrame
<1> QED BY <1>3, <1>5, <1>6, <1>7, <1>8 DEF StagesInv

\* A dead call has nothing under way.
LEMMA RaiseStages ==
    ASSUME PoolDry \/ TableRaises
    PROVE  StagesInv'
<1>1. step'.pc = "dead" /\ pipe' = NoFlight
  BY DEF PoolDry, TableRaises, Raised, Returned
<1> QED BY <1>1 DEF StagesInv, FlightShape, InForward

-----------------------------------------------------------------------------
(* The two stages of a forward *)

\* While stage 0 is at work, who is through it.
LEMMA ThroughNear ==
    ASSUME PlacesInv, FarTypes, InForward, pipe.stage = 0
    PROVE  \A r : /\ Through(0, r) <=> \E i \in DOMAIN Flight : i <= pipe.done /\ Flight[i] = r
                  /\ ~Through(1, r)
BY DEF Through

\* The members of a micro-batch are different sequences.
LEMMA FlightOnce ==
    ASSUME PlacesInv, step.pc = "forward"
    PROVE  /\ NoDuplicates(step.batch)
           /\ \A i, j \in DOMAIN Flight : Flight[i] = Flight[j] => i = j
<1>1. step.batch \in Seq(Requests) /\ step.cursor \in Nat \ {0} /\ StepShape
  BY ListTypes DEF PlacesInv
<1>2. NoDuplicates(step.batch)
  <2>1. step.prefill => Prefilling = step.batch
    BY DEF Prefilling
  <2> QED BY <1>1, <2>1 DEF PlacesInv, Places, StepShape
<1>3. CASE step.prefill
  BY <1>2, <1>3, FlightFacts DEF NoDuplicates
<1>4. CASE ~step.prefill
  <2>1. SUFFICES ASSUME NEW i \in DOMAIN Flight, NEW j \in DOMAIN Flight, Flight[i] = Flight[j]
                 PROVE  i = j
    BY <1>2
  <2>2. /\ i \in Nat /\ j \in Nat
        /\ step.cursor + i - 1 \in DOMAIN step.batch /\ step.cursor + j - 1 \in DOMAIN step.batch
        /\ step.batch[step.cursor + i - 1] = step.batch[step.cursor + j - 1]
    BY <1>4, <2>1, FlightFacts
  <2>3. step.cursor + i - 1 = step.cursor + j - 1
    BY <1>2, <2>2 DEF NoDuplicates
  <2> QED BY <1>1, <2>2, <2>3
<1> QED BY <1>2, <1>3, <1>4

\* What crosses the wire for a member is its context.
LEMMA LeavingIsContext ==
    ASSUME PlacesInv, CacheInv, FarTypes, StagesInv, InForward, pipe.stage = 0,
           NEW i \in DOMAIN Flight, i <= pipe.done
    PROVE  Leaving(Flight[i]) = committed[slot[Flight[i]]]
<1>1. PICK r : r = Flight[i]
  OBVIOUS
<1>2. /\ r \in Requests /\ r \in Range(step.batch) /\ r \in ActiveSet /\ slot[r] \in Slots
      /\ step.pc = "forward"
  BY <1>1, FlightIsActive DEF InForward
<1>3. Through(0, r)
  BY <1>1, ThroughNear
<1>4. SlotFollows(r)
  BY <1>2 DEF StagesInv
<1>5. CASE step.prefill
  <2>1. Fresh(r)
    BY <1>2, <1>5 DEF Fresh
  <2> QED BY <1>1, <1>3, <1>4, <1>5, <2>1 DEF SlotFollows, Leaving
<1>6. CASE ~step.prefill
  <2>1. committed[slot[r]] # <<>>
    BY <1>2, <1>3, <1>4, <1>6 DEF SlotFollows
  <2> QED BY <1>1, <1>2, <1>6, <2>1, NearReads DEF Leaving
<1> QED BY <1>5, <1>6

\* The micro-batch crosses to stage 1.
LEMMA CrossStages ==
    ASSUME PlacesInv, CacheInv, FarTypes, StagesInv, Cross
    PROVE  StagesInv'
<1>1. /\ InForward /\ step' = step /\ far' = far
      /\ pipe.stage = 0 /\ pipe.done = Len(Flight)
      /\ pipe' = [stage |-> 1, done |-> 0, wire |-> [i \in DOMAIN Flight |-> Leaving(Flight[i])]]
      /\ UNCHANGED <<running, status, seq_id, slot, prompt_ids, output_ids, evictions>>
      /\ UNCHANGED <<prompt, committed>>
  BY DEF Cross, cacheVars, queueVars, seqVars
<1>2. /\ Flight' = Flight /\ (InForward' <=> InForward)
      /\ \A r : Fresh(r)' <=> Fresh(r)
      /\ pipe'.stage = 1 /\ pipe'.done = 0
  BY <1>1, SameFlight
<1>3. /\ ActiveSet' = ActiveSet /\ step.pc = "forward" /\ step'.pc = "forward"
      /\ WireFollows /\ FarRoom
      /\ \A r \in ActiveSet : SlotFollows(r) /\ FarHolds(r)
      /\ \A r \in Requests : evictions[r] <= 1 => NearHistory(r)
      /\ step.batch # <<>> /\ pipe.done <= Len(Flight)
  BY <1>1, ForwardFrame
<1>4. DOMAIN Flight = 1..Len(Flight) /\ Len(Flight) \in Nat /\ Flight \in Seq(Requests)
  BY FlightFacts
<1>5. ASSUME NEW r
      PROVE  /\ Through(0, r)' <=> Through(0, r)
             /\ Through(1, r)' <=> Through(1, r)
  <2>1. Through(0, r) <=> \E i \in DOMAIN Flight : Flight[i] = r
    BY <1>1, <1>4, ThroughNear
  <2>2. Through(0, r)' <=> \E i \in DOMAIN Flight : Flight[i] = r
    BY <1>1, <1>2 DEF Through
  <2>3. ~Through(1, r)
    BY <1>1, ThroughNear
  <2>4. ~Through(1, r)'
    BY <1>2, <1>4 DEF Through
  <2> QED BY <2>1, <2>2, <2>3, <2>4
<1>6. FlightShape'
  BY <1>2, <1>3, <1>4, <1>1 DEF FlightShape
<1>7. WireFollows'
  <2>1. \A i \in DOMAIN Flight : Leaving(Flight[i]) = committed[slot[Flight[i]]]
    BY <1>1, <1>4, LeavingIsContext
  <2>2. pipe'.wire = [i \in DOMAIN Flight |-> committed[slot[Flight[i]]]]
    BY <1>1, <2>1
  <2> QED BY <1>1, <1>2, <2>2 DEF WireFollows
<1>8. FarRoom'
  <2>1. step.prefill => pipe.done > 0
    <3>1. step.prefill => Flight = step.batch
      BY FlightFacts
    <3>2. Flight # <<>> => Len(Flight) > 0
      BY <1>4
    <3> QED BY <1>1, <1>3, <3>1, <3>2
  <2> QED BY <1>1, <1>2, <1>3, <2>1 DEF FarRoom, Cache!BlocksFor
<1>9. ASSUME NEW r \in ActiveSet PROVE SlotFollows(r)' /\ FarHolds(r)'
  <2>1. FarContext(r)' = FarContext(r)
    BY <1>1, <1>2, <1>5 DEF FarContext, ButLast
  <2>2. r \in Requests
    BY <1>3, ContextTypes
  <2>3. FarHolds(r)'
    BY <1>1, <1>3, <2>1, FarSame
  <2> QED BY <1>1, <1>2, <1>3, <1>5, <2>2, <2>3, SlotFrame
<1>10. ASSUME NEW r \in Requests, evictions'[r] <= 1 PROVE NearHistory(r)'
  BY <1>1, <1>2, <1>3, <1>5, <1>10, NearFrame
<1> QED BY <1>3, <1>6, <1>7, <1>8, <1>9, <1>10 DEF StagesInv

\* One more member goes through the stage that is at work.
LEMMA PassesStage ==
    ASSUME PlacesInv, FarTypes, InForward, pipe.done < Len(Flight), step' = step,
           pipe' = [pipe EXCEPT !.done = @ + 1], NEW m, m = Flight[pipe.done + 1]
    PROVE  /\ pipe.done + 1 \in DOMAIN Flight
           /\ pipe'.stage = pipe.stage /\ pipe'.wire = pipe.wire /\ pipe'.done = pipe.done + 1
           /\ \A r : r # m => /\ Through(0, r)' <=> Through(0, r)
                              /\ Through(1, r)' <=> Through(1, r)
           /\ pipe.stage = 0 => /\ ~Through(0, m) /\ Through(0, m)'
                                /\ ~Through(1, m) /\ ~Through(1, m)'
           /\ pipe.stage = 1 => /\ Through(0, m) /\ Through(0, m)'
                                /\ ~Through(1, m) /\ Through(1, m)'
<1>1. /\ pipe.stage \in {0, 1} /\ pipe.done \in Nat
      /\ DOMAIN Flight = 1..Len(Flight) /\ Len(Flight) \in Nat
  BY FlightFacts DEF FarTypes
<1>2. PICK d, g, wi : d = pipe.done /\ g = pipe.stage /\ wi = pipe.wire
  OBVIOUS
<1>3. d + 1 \in DOMAIN Flight
  BY <1>1, <1>2
<1>4. pipe'.stage = g /\ pipe'.wire = wi /\ pipe'.done = d + 1
  <2>1. pipe = [stage |-> g, done |-> d, wire |-> wi]
    BY <1>2 DEF FarTypes
  <2> QED BY <1>2, <2>1
<1>5. Flight' = Flight /\ (InForward' <=> InForward)
  BY SameFlight
<1>6. \A i \in DOMAIN Flight : Flight[i] = m <=> i = d + 1
  <2>1. \A i, j \in DOMAIN Flight : Flight[i] = Flight[j] => i = j
    BY FlightOnce DEF InForward
  <2> QED BY <1>2, <1>3, <2>1
<1>7. \A i \in DOMAIN Flight : i # d + 1 => (i <= d + 1 <=> i <= d)
  BY <1>1, <1>2
<1>8. ASSUME NEW k \in {0, 1}
      PROVE  /\ \A r : Through(k, r) <=> \E i \in DOMAIN Flight :
                         Flight[i] = r /\ (k < g \/ (k = g /\ i <= d))
             /\ \A r : Through(k, r)' <=> \E i \in DOMAIN Flight :
                         Flight[i] = r /\ (k < g \/ (k = g /\ i <= d + 1))
  BY <1>2, <1>4, <1>5 DEF Through
<1>9. \A r : r # m => /\ Through(0, r)' <=> Through(0, r)
                      /\ Through(1, r)' <=> Through(1, r)
  <2>1. \A r : r # m => \A k \in {0, 1} :
          (\E i \in DOMAIN Flight : Flight[i] = r /\ (k < g \/ (k = g /\ i <= d)))
             <=> (\E i \in DOMAIN Flight : Flight[i] = r /\ (k < g \/ (k = g /\ i <= d + 1)))
    BY <1>3, <1>6, <1>7
  <2> QED BY <1>8, <2>1
<1>10. ~ (d + 1 <= d) /\ d + 1 <= d + 1 /\ ~ (1 < 0) /\ ~ (0 < 0) /\ ~ (1 < 1) /\ 0 < 1
  BY <1>1, <1>2
<1>11. g = 0 => ~Through(0, m) /\ Through(0, m)' /\ ~Through(1, m) /\ ~Through(1, m)'
  BY <1>3, <1>6, <1>8, <1>10
<1>12. g = 1 => Through(0, m) /\ Through(0, m)' /\ ~Through(1, m) /\ Through(1, m)'
  BY <1>3, <1>6, <1>8, <1>10
<1> QED BY <1>2, <1>3, <1>4, <1>9, <1>11, <1>12

\* Only the slot of the member at hand is written at stage 0: its prompt, or
\* the token it feeds.
LEMMA ForwardNearWrites ==
    ASSUME PlacesInv, CacheInv, FarTypes, ForwardNear, NEW m, m = Flight[pipe.done + 1]
    PROVE  /\ prompt' = prompt
           /\ \A s \in Slots : s # slot[m] => committed'[s] = committed[s]
           /\ step.prefill => committed'[slot[m]] = prompt[slot[m]]
           /\ ~step.prefill =>
                /\ committed[slot[m]] # <<>>
                /\ committed'[slot[m]] = Append(committed[slot[m]], LastToken(m))
<1>1. pipe.done + 1 \in DOMAIN Flight
  <2>1. pipe.done < Len(Flight) /\ pipe.done \in Nat
    BY DEF ForwardNear, FarTypes
  <2> QED BY <2>1, FlightFacts
<1>2. slot[m] \in Slots
  BY <1>1, FlightIsActive DEF ForwardNear, InForward
<1>3. committed \in [Slots -> Seq(Token)]
  BY DEF CacheInv, KV!LedgerInv, KV!TypeOK
<1>4. PICK s : s = slot[m]
  OBVIOUS
<1>5. CASE step.prefill
  <2>1. Cache!WritePrefill(s, 0)
    BY <1>4, <1>5 DEF ForwardNear
  <2>2. prompt' = prompt /\ committed' = [committed EXCEPT ![s] = prompt[s]]
    BY <2>1 DEF Cache!WritePrefill
  <2> QED BY <1>2, <1>3, <1>4, <1>5, <2>2
<1>6. CASE ~step.prefill
  <2>1. Cache!WriteDecode(s, LastToken(m))
    BY <1>4, <1>6 DEF ForwardNear
  <2>2. /\ prompt' = prompt /\ committed[s] # <<>>
        /\ committed' = [committed EXCEPT ![s] = Append(committed[s], LastToken(m))]
    BY <2>1 DEF Cache!WriteDecode
  <2> QED BY <1>2, <1>3, <1>4, <1>6, <2>2
<1> QED BY <1>5, <1>6

\* Before a prefill the tables of stage 1 have been extended too.
LEMMA PrefillRoom ==
    ASSUME PlacesInv, FarTypes, InForward, step.prefill, pipe.stage = 0, Lacking = {}
    PROVE  \A i \in DOMAIN Flight :
              Cache!BlocksFor(Len(prompt_ids[Flight[i]])) <= Len(far.table[slot[Flight[i]]])
<1>1. SUFFICES ASSUME NEW i \in DOMAIN Flight
               PROVE  Cache!BlocksFor(Len(prompt_ids[Flight[i]])) <= Len(far.table[slot[Flight[i]]])
  OBVIOUS
<1>2. Flight[i] \in Requests /\ slot[Flight[i]] \in Slots
  BY FlightIsActive DEF InForward
<1>3. Cache!BlocksFor(Len(prompt_ids[Flight[i]])) \in Nat
  <2>1. prompt_ids[Flight[i]] \in Seq(Token)
    BY <1>2, HistoryTypes
  <2>2. Len(prompt_ids[Flight[i]]) \in Nat
    BY <2>1
  <2> QED BY <2>2, BlockFacts
<1>4. Len(far.table[slot[Flight[i]]]) \in Nat
  <2>1. far.table[slot[Flight[i]]] \in Seq(Blocks)
    BY <1>2 DEF FarTypes
  <2> QED BY <2>1
<1>5. ~ (Len(far.table[slot[Flight[i]]]) < Cache!BlocksFor(Len(prompt_ids[Flight[i]])))
  <2>1. Due = {0, 1}
    BY DEF Due
  <2>2. <<i, 1>> \in (DOMAIN Flight) \X Due
    BY <2>1
  <2> QED BY <2>2 DEF Lacking, TableAt, PNeeded
<1> QED BY <1>3, <1>4, <1>5

\* Stage 0 writes a member: what it had not, it has now.
LEMMA ForwardNearStages ==
    ASSUME PlacesInv, EvictionsPaidInv, PromptsFit, CacheInv, FarTypes, StagesInv, ForwardNear
    PROVE  StagesInv'
<1>1. /\ InForward /\ step' = step /\ far' = far
      /\ pipe.stage = 0 /\ pipe.done < Len(Flight) /\ Lacking = {}
      /\ pipe' = [pipe EXCEPT !.done = @ + 1]
      /\ UNCHANGED <<running, status, seq_id, slot, prompt_ids, output_ids, evictions>>
  BY DEF ForwardNear, queueVars, seqVars
<1>2. PICK m : m = Flight[pipe.done + 1]
  OBVIOUS
<1>3. /\ pipe.done + 1 \in DOMAIN Flight
      /\ pipe'.stage = 0 /\ pipe'.done = pipe.done + 1
      /\ \A r : r # m => /\ Through(0, r)' <=> Through(0, r)
                         /\ Through(1, r)' <=> Through(1, r)
      /\ ~Through(0, m) /\ Through(0, m)' /\ ~Through(1, m) /\ ~Through(1, m)'
  BY <1>1, <1>2, PassesStage
<1>4. /\ Flight' = Flight /\ (InForward' <=> InForward)
      /\ \A r : Fresh(r)' <=> Fresh(r)
  BY <1>1, SameFlight
<1>5. /\ ActiveSet' = ActiveSet /\ step.pc = "forward" /\ step'.pc = "forward"
      /\ \A r \in ActiveSet : SlotFollows(r) /\ FarHolds(r)
      /\ \A r \in Requests : evictions[r] <= 1 => NearHistory(r)
      /\ step.batch # <<>>
  BY <1>1, ForwardFrame
<1>6. m \in Requests /\ m \in Range(step.batch) /\ m \in ActiveSet /\ slot[m] \in Slots
  BY <1>1, <1>2, <1>3, FlightIsActive DEF InForward
<1>7. /\ prompt' = prompt
      /\ \A s \in Slots : s # slot[m] => committed'[s] = committed[s]
      /\ step.prefill => committed'[slot[m]] = prompt[slot[m]]
      /\ ~step.prefill =>
           /\ committed[slot[m]] # <<>>
           /\ committed'[slot[m]] = Append(committed[slot[m]], LastToken(m))
  BY <1>2, ForwardNearWrites
<1>8. Fresh(m) <=> step.prefill
  BY <1>5, <1>6 DEF Fresh
<1>9. \A r \in ActiveSet : r # m => slot[r] \in Slots /\ committed'[slot[r]] = committed[slot[r]]
  <2>1. \A r \in ActiveSet : slot[r] \in Slots /\ (r # m => slot[r] # slot[m])
    BY <1>5, <1>6 DEF PlacesInv, SlotOfEach
  <2> QED BY <1>7, <2>1
<1>10. FlightShape'
  <2>1. pipe.done + 1 <= Len(Flight)
    BY <1>1, <1>3, FlightFacts
  <2> QED BY <1>1, <1>3, <1>4, <1>5, <2>1 DEF FlightShape
<1>11. WireFollows'
  BY <1>3 DEF WireFollows
<1>12. FarRoom'
  <2>1. step.prefill => \A i \in DOMAIN Flight :
            Cache!BlocksFor(Len(prompt_ids[Flight[i]])) <= Len(far.table[slot[Flight[i]]])
    BY <1>1, PrefillRoom
  <2> QED BY <1>1, <1>4, <2>1 DEF FarRoom, Cache!BlocksFor
<1>13. SlotFollows(m)'
  <2>1. prompt[slot[m]] = prompt_ids[m] /\ prompt_ids[m] # <<>>
    BY <1>5, <1>6, EngineConstants DEF SlotFollows, PromptsFit
  <2>2. CASE step.prefill
    BY <1>1, <1>3, <1>4, <1>7, <1>8, <2>1, <2>2 DEF SlotFollows
  <2>3. CASE ~step.prefill
    <3>1. committed[slot[m]] \in Seq(Token)
      BY <1>5, <1>6, ContextTypes
    <3>2. committed'[slot[m]] # <<>>
      <4>1. \A w \in Seq(Token), t \in Token :
               Len(Append(w, t)) = Len(w) + 1 /\ Len(w) \in Nat
        OBVIOUS
      <4>2. LastToken(m) \in Token
        BY <1>6, LastTokenType
      <4>3. Len(committed'[slot[m]]) # 0
        BY <1>7, <2>3, <3>1, <4>1, <4>2
      <4> QED BY <4>3
    <3> QED BY <1>1, <1>3, <1>4, <1>7, <1>8, <2>1, <2>3, <3>2 DEF SlotFollows
  <2> QED BY <2>2, <2>3
<1>14. FarContext(m)' = FarContext(m)
  <2>1. CASE step.prefill
    BY <1>3, <1>4, <1>8, <2>1 DEF FarContext
  <2>2. CASE ~step.prefill
    <3>1. FarContext(m) = committed[slot[m]]
      BY <1>3, <1>8, <2>2 DEF FarContext
    <3>2. FarContext(m)' = ButLast(committed'[slot[m]])
      BY <1>1, <1>3, <1>4, <1>8, <2>2 DEF FarContext, ButLast
    <3>3. committed[slot[m]] \in Seq(Token) /\ LastToken(m) \in Token
      BY <1>5, <1>6, ContextTypes, LastTokenType
    <3>4. \A w \in Seq(Token), t \in Token : SubSeq(Append(w, t), 1, Len(Append(w, t)) - 1) = w
      OBVIOUS
    <3> QED BY <1>7, <2>2, <3>1, <3>2, <3>3, <3>4 DEF ButLast
  <2> QED BY <2>1, <2>2
<1>15. ASSUME NEW r \in ActiveSet PROVE SlotFollows(r)' /\ FarHolds(r)'
  <2>1. CASE r = m
    BY <1>1, <1>5, <1>6, <1>13, <1>14, <2>1, FarSame
  <2>2. CASE r # m
    <3>1. r \in Requests
      BY <1>5, ContextTypes
    <3>2. FarContext(r)' = FarContext(r)
      BY <1>1, <1>3, <1>4, <1>9, <2>2 DEF FarContext, ButLast
    <3>3. FarHolds(r)'
      BY <1>1, <1>5, <3>2, FarSame
    <3>4. SlotFollows(r)'
      BY <1>1, <1>3, <1>4, <1>5, <1>7, <1>9, <2>2, <3>1, SlotFrame
    <3> QED BY <3>3, <3>4
  <2> QED BY <2>1, <2>2
<1>16. ASSUME evictions'[m] <= 1 PROVE NearHistory(m)'
  <2>1. NearHistory(m) /\ History(m)' = History(m)
    BY <1>1, <1>5, <1>6, <1>16 DEF History
  <2>2. InNear(m)' = History(m)
    BY <1>3, <2>1 DEF InNear
  <2>3. committed'[slot[m]] = History(m)
    <3>1. CASE step.prefill
      BY <1>5, <1>6, <1>7, <1>8, <2>1, <3>1 DEF SlotFollows, NearHistory
    <3>2. CASE ~step.prefill
      <4>1. committed[slot[m]] = ButLast(History(m))
        BY <1>3, <1>6, <1>8, <2>1, <3>2 DEF NearHistory, InNear
      <4>2. output_ids[m] # <<>>
        <5>1. m \in Range(running)
          BY <1>5, <1>6, <3>2 DEF PlacesInv, StepShape
        <5>2. evictions[m] < Len(output_ids[m]) /\ evictions[m] \in Nat
          BY <1>6, <5>1, HistoryTypes DEF EvictionsPaidInv
        <5> QED BY <5>2
      <4> QED BY <1>6, <1>7, <3>2, <4>1, <4>2, LastOfHistory
    <3> QED BY <3>1, <3>2
  <2> QED BY <1>1, <1>4, <1>5, <1>6, <2>1, <2>2, <2>3 DEF NearHistory
<1>17. ASSUME NEW r \in Requests, evictions'[r] <= 1 PROVE NearHistory(r)'
  <2>1. CASE r = m
    BY <1>16, <1>17, <2>1
  <2>2. CASE r # m
    BY <1>1, <1>3, <1>4, <1>5, <1>9, <1>17, <2>2, NearFrame
  <2> QED BY <2>1, <2>2
<1> QED BY <1>5, <1>10, <1>11, <1>12, <1>15, <1>17 DEF StagesInv

\* Block arithmetic at the end of a string one token longer.
LEMMA OneMoreBlock ==
    ASSUME NEW n \in Nat
    PROVE  /\ Cache!BlocksFor(n) <= Cache!BlocksFor(n + 1)
           /\ \A i \in Nat : i >= 1 /\ i < Cache!BlocksFor(n + 1) =>
                 i \in 1..Cache!BlocksFor(n) /\ i * BlockSize \in Nat /\ i * BlockSize <= n
           /\ n = 0 => Cache!BlocksFor(n + 1) = 1
<1>1. \A k \in Nat, d \in Nat \ {0} : (k + d - 1) \div d <= (k + 1 + d - 1) \div d
  BY SMTT(20)
<1>2. \A k \in Nat, d \in Nat \ {0}, i \in Nat :
         i < (k + 1 + d - 1) \div d => i * d <= k /\ i <= (k + d - 1) \div d
  BY SMTT(20)
<1>3. \A d \in Nat \ {0} : (0 + 1 + d - 1) \div d = 1
  BY SMTT(20)
<1>4. \A i \in Nat : i * BlockSize \in Nat
  BY EngineConstants
<1>5. Cache!BlocksFor(n) \in Nat
  BY BlockFacts
<1>6. Cache!BlocksFor(n) <= Cache!BlocksFor(n + 1)
  BY <1>1, EngineConstants DEF Cache!BlocksFor
<1>7. ASSUME NEW i \in Nat, i >= 1, i < Cache!BlocksFor(n + 1)
      PROVE  i \in 1..Cache!BlocksFor(n) /\ i * BlockSize \in Nat /\ i * BlockSize <= n
  <2>1. i * BlockSize <= n /\ i <= Cache!BlocksFor(n)
    BY <1>2, <1>7, EngineConstants DEF Cache!BlocksFor
  <2> QED BY <1>4, <1>5, <1>7, <2>1
<1>8. n = 0 => Cache!BlocksFor(n + 1) = 1
  BY <1>3, EngineConstants DEF Cache!BlocksFor
<1> QED BY <1>6, <1>7, <1>8

\* What comes over the wire for a member is its context, which its table at
\* stage 1 has blocks for.
LEMMA ArrivesWithRoom ==
    ASSUME PlacesInv, CacheInv, FarTypes, StagesInv, ForwardFar,
           NEW m, m = Flight[pipe.done + 1]
    PROVE  /\ pipe.wire[pipe.done + 1] = committed[slot[m]]
           /\ committed[slot[m]] \in Seq(Token) /\ committed[slot[m]] # <<>>
           /\ Cache!BlocksFor(Len(committed[slot[m]])) <= Len(far.table[slot[m]])
<1>1. /\ InForward /\ pipe.stage = 1 /\ pipe.done < Len(Flight) /\ Lacking = {}
      /\ pipe.done \in Nat
  BY DEF ForwardFar, FarTypes
<1>2. pipe.done + 1 \in DOMAIN Flight
  BY <1>1, FlightFacts
<1>3. /\ m \in Requests /\ m \in Range(step.batch) /\ m \in ActiveSet /\ slot[m] \in Slots
      /\ step.pc = "forward"
  BY <1>1, <1>2, FlightIsActive DEF InForward
<1>4. /\ WireFollows /\ FarRoom /\ SlotFollows(m)
      /\ committed[slot[m]] \in Seq(Token)
  BY <1>3, ContextTypes DEF StagesInv
<1>5. pipe.wire[pipe.done + 1] = committed[slot[m]]
  BY <1>1, <1>2, <1>4 DEF WireFollows
<1>6. Through(0, m)
  BY <1>1, <1>2 DEF Through
<1>7. committed[slot[m]] # <<>>
  BY <1>4, <1>6 DEF SlotFollows
<1>8. Cache!BlocksFor(Len(committed[slot[m]])) <= Len(far.table[slot[m]])
  <2>1. CASE step.prefill
    <3>1. Fresh(m)
      BY <1>3, <2>1 DEF Fresh
    <3>2. committed[slot[m]] = prompt_ids[m]
      BY <1>4, <1>6, <3>1 DEF SlotFollows
    <3> QED BY <1>1, <1>2, <1>4, <2>1, <3>2 DEF FarRoom
  <2>2. CASE ~step.prefill
    <3>1. Due = {1}
      BY <1>1, <2>2 DEF Due
    <3>2. <<pipe.done + 1, 1>> \in (DOMAIN Flight) \X Due
      BY <1>2, <3>1
    <3>3. PICK n, k : n = Len(committed[slot[m]]) /\ k = Len(far.table[slot[m]])
      OBVIOUS
    <3>4. ~ (k < Cache!BlocksFor(n + 1))
      BY <2>2, <3>2, <3>3, <1>1, SMTT(30) DEF Lacking, TableAt, PNeeded
    <3>5. n \in Nat /\ k \in Nat
      <4>1. far.table[slot[m]] \in Seq(Blocks)
        BY <1>3 DEF FarTypes
      <4> QED BY <1>4, <3>3, <4>1
    <3>6. Cache!BlocksFor(n) \in Nat /\ Cache!BlocksFor(n + 1) \in Nat
      <4>1. n + 1 \in Nat
        BY <3>5
      <4> QED BY <3>5, <4>1, BlockFacts
    <3>7. Cache!BlocksFor(n) <= Cache!BlocksFor(n + 1)
      BY <3>5, OneMoreBlock
    <3> QED BY <3>3, <3>4, <3>5, <3>6, <3>7
  <2> QED BY <2>1, <2>2
<1> QED BY <1>4, <1>5, <1>7, <1>8

\* Stage 1 writes into blocks of that table, each its own part of the context,
\* and into no other.
LEMMA ForwardFarWrites ==
    ASSUME PlacesInv, CacheInv, FarTypes, FarBlocksAreOwned, StagesInv, ForwardFar,
           NEW m, m = Flight[pipe.done + 1]
    PROVE  /\ \A i \in 1..Cache!BlocksFor(Len(committed[slot[m]])) :
                 (step.prefill \/ i = Cache!BlocksFor(Len(committed[slot[m]]))) =>
                    far'.kv[far.table[slot[m]][i]]
                       = SubSeq(committed[slot[m]], 1,
                                Cache!MinOf(Len(committed[slot[m]]), BlockSize * i))
           /\ ~step.prefill => \A i \in 1..Cache!BlocksFor(Len(committed[slot[m]])) :
                 i # Cache!BlocksFor(Len(committed[slot[m]])) =>
                    far'.kv[far.table[slot[m]][i]] = far.kv[far.table[slot[m]][i]]
           /\ \A s \in Slots : s # slot[m] => \A i \in DOMAIN far.table[s] :
                 far'.kv[far.table[s][i]] = far.kv[far.table[s][i]]
<1>0. PICK h, last : h = committed[slot[m]] /\ last = Cache!BlocksFor(Len(h))
  OBVIOUS
<1>1. /\ InForward /\ pipe.done < Len(Flight) /\ pipe.done \in Nat
  BY DEF ForwardFar, FarTypes
<1>2. pipe.done + 1 \in DOMAIN Flight
  BY <1>1, FlightFacts
<1>3. slot[m] \in Slots
  BY <1>1, <1>2, FlightIsActive DEF InForward
<1>4. PICK t, s0, c : t = far.table[slot[m]] /\ s0 = slot[m] /\ c = far.kv
  OBVIOUS
<1>5. /\ pipe.wire[pipe.done + 1] = h /\ h \in Seq(Token) /\ h # <<>>
      /\ last <= Len(t) /\ t \in Seq(Blocks) /\ Len(t) \in Nat
      /\ last \in Nat /\ last >= 1
  <2>1. pipe.wire[pipe.done + 1] = h /\ h \in Seq(Token) /\ h # <<>> /\ last <= Len(t)
    BY <1>0, <1>4, ArrivesWithRoom
  <2>2. t \in Seq(Blocks)
    BY <1>3, <1>4 DEF FarTypes
  <2>3. Len(h) \in Nat /\ Len(h) > 0
    BY <2>1
  <2>4. Cache!BlocksFor(Len(h)) \in Nat /\ Cache!BlocksFor(Len(h)) >= 1
    BY <2>3, BlockFacts
  <2>5. Len(t) \in Nat
    BY <2>2
  <2> QED BY <1>0, <2>1, <2>2, <2>4, <2>5
<1>6. \A i, j \in 1..last : t[i] = t[j] => i = j
  <2>1. \A i \in 1..last : i \in DOMAIN t
    BY <1>5
  <2> QED BY <1>3, <1>4, <2>1 DEF FarBlocksAreOwned
<1> DEFINE at == pipe.done + 1
           row == far.table[slot[Flight[at]]]
           got == pipe.wire[at]
           end == Cache!BlocksFor(Len(got))
           lo == IF step.prefill THEN 1 ELSE end
           wr(b) == \E i \in lo..end : row[i] = b
           new(b) == SubSeq(got, 1, Cache!MinOf(Len(got), BlockSize * CHOOSE i \in 1..end : row[i] = b))
           val == [b \in Blocks |-> IF wr(b) THEN new(b) ELSE far.kv[b]]
<1>7. far' = [far EXCEPT !.kv = val]
  BY DEF ForwardFar, FarTable
<1> HIDE DEF val
<1>8. far'.kv = val
  <2>1. PICK f, u, k : far = [free |-> f, table |-> u, kv |-> k]
    BY DEF FarTypes
  <2> QED BY <1>7, <2>1
<1>9. row = t /\ got = h /\ end = last
  BY <1>0, <1>4, <1>5
<1> HIDE DEF row, got, end
<1>10. \A i \in 1..last : t[i] \in Blocks
  BY <1>5
<1>11. \A i \in 1..last : new(t[i]) = SubSeq(h, 1, Cache!MinOf(Len(h), BlockSize * i))
  <2>1. \A i, j \in 1..end : row[i] = row[j] => i = j
    BY <1>6, <1>9
  <2>2. ASSUME NEW i \in 1..end
        PROVE  new(row[i]) = SubSeq(got, 1, Cache!MinOf(Len(got), BlockSize * i))
    <3>1. (CHOOSE j \in 1..end : row[j] = row[i]) = i
      BY <2>1
    <3> QED BY <3>1
  <2> HIDE DEF new
  <2> QED BY <1>9, <2>2
<1>12. \A b \in Blocks : far'.kv[b] = IF wr(b) THEN new(b) ELSE c[b]
  BY <1>4, <1>8 DEF val
<1> HIDE DEF new
<1>13. lo..last \subseteq 1..last /\ (step.prefill => lo = 1) /\ (~step.prefill => lo = last)
  BY <1>5, <1>9
<1> HIDE DEF lo
<1>14. \A i \in 1..last : wr(t[i]) <=> i \in lo..last
  BY <1>6, <1>13, <1>9
<1>15. ASSUME NEW s \in Slots, s # s0, NEW i \in DOMAIN far.table[s]
       PROVE  far'.kv[far.table[s][i]] = far.kv[far.table[s][i]]
  <2>1. \A j \in 1..last : j \in DOMAIN t
    BY <1>5
  <2>2. \A j \in 1..last : t[j] # far.table[s][i]
    BY <1>3, <1>4, <1>15, <2>1 DEF FarBlocksAreOwned
  <2>3. ~wr(far.table[s][i])
    BY <1>13, <1>9, <2>2
  <2>4. far.table[s][i] \in Blocks
    <3>1. far.table[s] \in Seq(Blocks)
      BY DEF FarTypes
    <3> QED BY <1>15, <3>1
  <2> QED BY <1>4, <1>12, <2>3, <2>4
<1> HIDE DEF wr
<1>16. ASSUME NEW i \in 1..last, step.prefill \/ i = last
       PROVE  far'.kv[t[i]] = SubSeq(h, 1, Cache!MinOf(Len(h), BlockSize * i))
  <2>1. i \in lo..last
    BY <1>5, <1>13, <1>16
  <2> QED BY <1>12, <1>10, <1>11, <1>14, <2>1
<1>17. ASSUME ~step.prefill, NEW i \in 1..last, i # last
       PROVE  far'.kv[t[i]] = far.kv[t[i]]
  <2>1. i \notin lo..last
    BY <1>5, <1>13, <1>17
  <2> QED BY <1>4, <1>12, <1>10, <1>14, <2>1
<1> QED BY <1>0, <1>4, <1>15, <1>16, <1>17

\* A prefix of a string, and a prefix of all but its last token.
LEMMA PrefixFacts ==
    ASSUME NEW u \in Seq(Token), NEW k \in Nat, k <= Len(u)
    PROVE  /\ Len(SubSeq(u, 1, k)) = k
           /\ SubSeq(SubSeq(u, 1, k), 1, k) = SubSeq(u, 1, k)
           /\ k < Len(u) => SubSeq(ButLast(u), 1, k) = SubSeq(u, 1, k)
<1>1. k \in 0..Len(u) /\ k \in 0..k
  OBVIOUS
<1>2. /\ Len(SubSeq(u, 1, k)) = k
      /\ SubSeq(SubSeq(u, 1, k), 1, k) = SubSeq(u, 1, k)
  BY <1>1, KV!PrefixOfPrefix, EngineConstants, SameSets
<1>3. ASSUME k < Len(u) PROVE SubSeq(ButLast(u), 1, k) = SubSeq(u, 1, k)
  <2>1. Len(u) - 1 \in 0..Len(u) /\ k \in 0..Len(u) - 1
    BY <1>3
  <2> QED BY <2>1, KV!PrefixOfPrefix, EngineConstants, SameSets DEF ButLast
<1> QED BY <1>2, <1>3

\* Stage 1 reads back all of the context it has just written the end of.
LEMMA ForwardFarReads ==
    ASSUME PlacesInv, CacheInv, FarTypes, FarBlocksAreOwned, StagesInv, ForwardFar,
           NEW m, m = Flight[pipe.done + 1], NEW h, h = committed[slot[m]]
    PROVE  Reading(far'.kv, far.table[slot[m]], Len(h)) = h
<1>1. PICK last, t, n : last = Cache!BlocksFor(Len(h)) /\ t = far.table[slot[m]] /\ n = Len(h)
  OBVIOUS
<1>2. h \in Seq(Token) /\ h # <<>>
  BY ArrivesWithRoom
<1>3. n \in Nat /\ n > 0
  BY <1>1, <1>2
<1>4. /\ last \in Nat /\ last >= 1 /\ n <= last * BlockSize /\ last * BlockSize \in Nat
      /\ \A i \in 1..last : /\ Cache!MinOf(n, i * BlockSize) \in 1..n
                            /\ i * BlockSize \in Nat
  <2>1. last \in Nat /\ last >= 1 /\ n <= last * BlockSize
    BY <1>1, <1>3, BlockFacts
  <2>2. \A i \in 1..last : /\ Cache!MinOf(n, i * BlockSize) \in 1..n
                           /\ i * BlockSize \in Nat
    BY <1>1, <1>3, BlockFacts
  <2>3. last \in 1..last
    BY <2>1
  <2> QED BY <2>1, <2>2, <2>3
<1>5. /\ \A i \in 1..last : (step.prefill \/ i = last) =>
            far'.kv[t[i]] = SubSeq(h, 1, Cache!MinOf(n, BlockSize * i))
      /\ ~step.prefill => \A i \in 1..last : i # last => far'.kv[t[i]] = far.kv[t[i]]
  BY <1>1, ForwardFarWrites
<1>6. \A i \in Nat : BlockSize * i = i * BlockSize
  BY EngineConstants
<1>7. far'.kv[t[last]] = h
  <2>1. last \in 1..last /\ last \in Nat
    BY <1>4
  <2>2. Cache!MinOf(n, BlockSize * last) = n
    BY <1>3, <1>4, <1>6 DEF Cache!MinOf
  <2>3. SubSeq(h, 1, n) = h
    BY <1>1, <1>2
  <2> QED BY <1>5, <2>1, <2>2, <2>3
<1>8. ASSUME NEW i \in 1..last
      PROVE  /\ Len(far'.kv[t[i]]) >= Cache!MinOf(n, i * BlockSize)
             /\ SubSeq(far'.kv[t[i]], 1, Cache!MinOf(n, i * BlockSize))
                   = SubSeq(h, 1, Cache!MinOf(n, i * BlockSize))
  <2>1. PICK k : k = Cache!MinOf(n, i * BlockSize)
    OBVIOUS
  <2>2. k \in Nat /\ k <= n /\ i \in Nat
    BY <1>3, <1>4, <2>1
  <2>3. Len(SubSeq(h, 1, k)) = k /\ SubSeq(SubSeq(h, 1, k), 1, k) = SubSeq(h, 1, k)
    BY <1>1, <1>2, <2>2, PrefixFacts
  <2>4. CASE step.prefill \/ i = last
    <3>1. far'.kv[t[i]] = SubSeq(h, 1, k)
      BY <1>5, <1>6, <2>1, <2>2, <2>4
    <3>2. Len(far'.kv[t[i]]) = k /\ SubSeq(far'.kv[t[i]], 1, k) = SubSeq(h, 1, k)
      BY <2>3, <3>1
    <3> QED BY <2>1, <2>2, <3>2
  <2>5. CASE ~step.prefill /\ i # last
    <3>1. PICK w : w = ButLast(h)
      OBVIOUS
    <3>2. w \in Seq(Token) /\ Len(w) = n - 1 /\ n - 1 \in Nat /\ (n - 1) + 1 = n
      <4>1. n - 1 \in 0..Len(h) /\ n - 1 \in Nat /\ (n - 1) + 1 = n /\ 0 \in 0..n - 1
        BY <1>1, <1>3
      <4>2. SubSeq(h, 1, n - 1) \in Seq(Token) /\ Len(SubSeq(h, 1, n - 1)) = n - 1
        BY <1>2, <4>1, KV!PrefixOfPrefix, EngineConstants, SameSets
      <4> QED BY <1>1, <3>1, <4>1, <4>2 DEF ButLast
    <3>3. i \in 1..Cache!BlocksFor(n - 1) /\ i * BlockSize <= n - 1
      <4>1. i < Cache!BlocksFor((n - 1) + 1) /\ i >= 1
        BY <1>1, <1>4, <2>2, <2>5, <3>2
      <4> QED BY <2>2, <3>2, <4>1, OneMoreBlock
    <3>4. k = i * BlockSize /\ k = Cache!MinOf(Len(w), i * BlockSize) /\ k < n
      <4>1. i * BlockSize \in Nat
        BY <1>4
      <4> QED BY <1>3, <2>1, <3>2, <3>3, <4>1 DEF Cache!MinOf
    <3>5. w # <<>>
      <4>1. n - 1 = 0 => last = 1
        BY <1>1, <3>2, OneMoreBlock
      <4>2. n - 1 # 0
        BY <1>4, <2>5, <4>1
      <4> QED BY <3>2, <4>2
    <3>6. Reading(far.kv, t, Len(w)) = w
      <4>1. /\ InForward /\ pipe.stage = 1 /\ pipe.done < Len(Flight)
            /\ step' = step /\ pipe' = [pipe EXCEPT !.done = @ + 1]
        BY DEF ForwardFar, queueVars
      <4>2. Through(0, m) /\ ~Through(1, m) /\ pipe.done + 1 \in DOMAIN Flight
        BY <4>1, PassesStage
      <4>3. m \in ActiveSet /\ ~Fresh(m)
        BY <2>5, <4>1, <4>2, FlightIsActive DEF Fresh, InForward
      <4>4. FarHolds(m)
        BY <4>1, <4>3 DEF StagesInv, InForward
      <4>5. FarContext(m) = w
        BY <3>1, <4>2, <4>3 DEF FarContext
      <4> QED BY <1>1, <3>5, <4>4, <4>5 DEF FarHolds
    <3>7. Len(far.kv[t[i]]) >= k /\ SubSeq(far.kv[t[i]], 1, k) = SubSeq(w, 1, k)
      BY <3>2, <3>3, <3>4, <3>5, <3>6, ReadsOnly
    <3>8. SubSeq(w, 1, k) = SubSeq(h, 1, k)
      BY <1>1, <1>2, <2>2, <3>1, <3>4, PrefixFacts
    <3>9. far'.kv[t[i]] = far.kv[t[i]]
      BY <1>5, <2>5
    <3> QED BY <2>1, <3>7, <3>8, <3>9
  <2> QED BY <2>4, <2>5
<1> QED BY <1>1, <1>2, <1>7, <1>8, ReadsBack

\* Stage 1 writes a member: its context, or the end of it.
LEMMA ForwardFarStages ==
    ASSUME PlacesInv, CacheInv, FarTypes, FarBlocksAreOwned, StagesInv, ForwardFar
    PROVE  StagesInv'
<1>1. /\ InForward /\ step' = step
      /\ pipe.stage = 1 /\ pipe.done < Len(Flight) /\ pipe.done \in Nat
      /\ pipe' = [pipe EXCEPT !.done = @ + 1]
      /\ UNCHANGED <<running, status, seq_id, slot, prompt_ids, output_ids, evictions>>
      /\ UNCHANGED <<prompt, committed>>
  BY DEF ForwardFar, queueVars, seqVars, cacheVars, FarTypes
<1>2. PICK m : m = Flight[pipe.done + 1]
  OBVIOUS
<1>3. /\ pipe.done + 1 \in DOMAIN Flight
      /\ pipe'.stage = 1 /\ pipe'.done = pipe.done + 1 /\ pipe'.wire = pipe.wire
      /\ \A r : r # m => /\ Through(0, r)' <=> Through(0, r)
                         /\ Through(1, r)' <=> Through(1, r)
      /\ Through(0, m) /\ Through(0, m)' /\ ~Through(1, m) /\ Through(1, m)'
  BY <1>1, <1>2, PassesStage
<1>4. /\ Flight' = Flight /\ (InForward' <=> InForward)
      /\ \A r : Fresh(r)' <=> Fresh(r)
      /\ \A r : Through(0, r)' <=> Through(0, r)
  BY <1>1, <1>3, SameFlight
<1>5. /\ ActiveSet' = ActiveSet /\ step.pc = "forward" /\ step'.pc = "forward"
      /\ WireFollows /\ FarRoom
      /\ \A r \in ActiveSet : SlotFollows(r) /\ FarHolds(r)
      /\ \A r \in Requests : evictions[r] <= 1 => NearHistory(r)
      /\ step.batch # <<>>
  BY <1>1, ForwardFrame
<1>6. m \in Requests /\ m \in ActiveSet /\ slot[m] \in Slots
  BY <1>1, <1>2, <1>3, FlightIsActive DEF InForward
<1>7. far'.table = far.table
  BY ForwardFarFrame
<1>8. FlightShape'
  <2>1. pipe.done + 1 <= Len(Flight)
    BY <1>1, <1>3, FlightFacts
  <2> QED BY <1>1, <1>3, <1>4, <1>5, <2>1 DEF FlightShape
<1>9. WireFollows' /\ FarRoom'
  BY <1>1, <1>3, <1>4, <1>5, <1>7 DEF WireFollows, FarRoom, Cache!BlocksFor
<1>10. FarHolds(m)'
  <2>1. PICK h, s : h = committed[slot[m]] /\ s = slot[m]
    OBVIOUS
  <2>2. /\ Reading(far'.kv, far.table[s], Len(h)) = h
        /\ Cache!BlocksFor(Len(h)) <= Len(far.table[s])
    BY <1>2, <2>1, ForwardFarReads, ArrivesWithRoom
  <2>3. (FarContext(m))' = h /\ slot'[m] = s
    BY <1>1, <1>3, <2>1 DEF FarContext
  <2> QED BY <1>7, <2>2, <2>3 DEF FarHolds
<1>11. ASSUME NEW r \in ActiveSet, r # m PROVE FarHolds(r)'
  <2>1. /\ r \in Requests /\ slot[r] \in Slots /\ slot[r] # slot[m]
        /\ FarContext(r) \in Seq(Token)
    <3>1. slot[r] # slot[m]
      BY <1>5, <1>6, <1>11 DEF PlacesInv, SlotOfEach
    <3> QED BY <1>5, <3>1, ContextTypes
  <2>2. FarContext(r)' = FarContext(r)
    BY <1>1, <1>3, <1>4, <1>11 DEF FarContext, ButLast
  <2>3. \A i \in DOMAIN far.table[slot[r]] :
            far'.kv[far'.table[slot[r]][i]] = far.kv[far.table[slot[r]][i]]
    BY <1>2, <1>7, <2>1, ForwardFarWrites
  <2>4. Len(far.table[slot[r]]) \in Nat
    <3>1. far.table[slot[r]] \in Seq(Blocks)
      BY <2>1 DEF FarTypes
    <3> QED BY <3>1
  <2>5. Len(far.table[slot[r]]) <= Len(far'.table[slot[r]]) /\ Len(far'.table[slot[r]]) \in Nat
    BY <1>7, <2>4
  <2> QED BY <1>1, <1>5, <2>1, <2>2, <2>3, <2>5, FarFrame
<1>12. ASSUME NEW r \in ActiveSet PROVE SlotFollows(r)'
  <2>1. r \in Requests
    BY <1>5, ContextTypes
  <2> QED BY <1>1, <1>4, <1>5, <2>1, SlotFrame
<1>13. ASSUME NEW r \in Requests, evictions'[r] <= 1 PROVE NearHistory(r)'
  BY <1>1, <1>4, <1>5, <1>13, NearFrame
<1> QED BY <1>5, <1>8, <1>9, <1>10, <1>11, <1>12, <1>13 DEF StagesInv

\* A state in which no micro-batch is under way, before a step and after it.
LEMMA NobodyThrough ==
    PlacesInv /\ pipe = NoFlight =>
        /\ pipe.stage = 0 /\ pipe.done = 0 /\ pipe.done <= Len(Flight)
        /\ \A r : ~Through(0, r) /\ ~Through(1, r)
<1> SUFFICES ASSUME PlacesInv, pipe = NoFlight
             PROVE  /\ pipe.stage = 0 /\ pipe.done = 0 /\ pipe.done <= Len(Flight)
                    /\ \A r : ~Through(0, r) /\ ~Through(1, r)
  OBVIOUS
<1>1. pipe.stage = 0 /\ pipe.done = 0
  BY DEF NoFlight
<1>2. Len(Flight) \in Nat
  BY FlightFacts
<1> QED BY <1>1, <1>2, NotThrough

\* The same of the next state.
LEMMA NobodyThroughNext ==
    (PlacesInv /\ pipe = NoFlight)' =>
        (/\ pipe.stage = 0 /\ pipe.done = 0 /\ pipe.done <= Len(Flight)
         /\ \A r : ~Through(0, r) /\ ~Through(1, r))'
BY NobodyThrough, PTL

\* Sampling ends a micro-batch both stages have been through.
LEMMA SampleFlightStages ==
    ASSUME PlacesInv, CacheInv, FarTypes, StagesInv, SampleFlight
    PROVE  StagesInv'
<1>1. /\ InForward /\ pipe.stage = 1 /\ pipe.done = Len(Flight)
      /\ pipe' = NoFlight /\ far' = far
      /\ UNCHANGED <<running, status, seq_id, slot, prompt_ids, evictions>>
      /\ UNCHANGED <<prompt, committed>>
  BY DEF SampleFlight, queueVars, cacheVars
<1>2. /\ step.pc = "forward" /\ step.batch # <<>>
      /\ \A r \in ActiveSet : SlotFollows(r) /\ FarHolds(r)
      /\ \A r \in Requests : evictions[r] <= 1 => NearHistory(r)
  BY <1>1 DEF StagesInv, FlightShape, InForward
<1>3. /\ step'.batch = step.batch /\ step'.prefill = step.prefill
      /\ \/ step.prefill /\ step'.pc = "store"
         \/ ~step.prefill /\ step'.pc \in {"forward", "post"}
  BY SampledStep
<1>4. ActiveSet' = ActiveSet
  BY <1>1, <1>2, <1>3 DEF ActiveSet, Prefilling
<1>5. PlacesInv'
  BY SampleFlightPlaces
<1>6. /\ pipe'.stage = 0 /\ pipe'.done = 0 /\ pipe'.done <= Len(Flight')
      /\ \A r : ~Through(0, r)' /\ ~Through(1, r)'
  BY <1>1, <1>5, NobodyThroughNext
<1>7. \A r : ~Fresh(r)'
  BY <1>3 DEF Fresh
<1>8. /\ \A r : Through(0, r) <=> r \in Range(Flight)
      /\ \A r : Through(1, r) <=> r \in Range(Flight)
      /\ \A r : Fresh(r) => r \in Range(Flight)
  <2>1. \A i \in DOMAIN Flight : i <= pipe.done
    BY <1>1, FlightFacts
  <2>2. \A r : r \in Range(Flight) <=> \E i \in DOMAIN Flight : Flight[i] = r
    BY DEF Range
  <2>3. \A r : Fresh(r) => r \in Range(Flight)
    <3>1. step.prefill => Flight = step.batch
      BY FlightFacts
    <3> QED BY <1>2, <3>1 DEF Fresh
  <2> QED BY <1>1, <2>1, <2>2, <2>3 DEF Through
<1>9. \A r : FarContext(r) = committed[slot[r]] /\ FarContext(r)' = committed[slot[r]]
  BY <1>1, <1>6, <1>7, <1>8 DEF FarContext
<1>10. FlightShape' /\ WireFollows' /\ FarRoom'
  <2>1. ~ (pipe'.done > 0) /\ pipe'.stage # 1
    BY <1>6
  <2>2. step'.pc # "schedule"
    BY <1>3
  <2> QED BY <1>1, <1>2, <1>3, <1>6, <2>1, <2>2 DEF FlightShape, WireFollows, FarRoom
<1>11. ASSUME NEW r \in ActiveSet PROVE SlotFollows(r)' /\ FarHolds(r)'
  <2>1. prompt[slot[r]] = prompt_ids[r] /\ committed[slot[r]] # <<>>
    BY <1>2, <1>8 DEF SlotFollows
  <2>2. SlotFollows(r)'
    BY <1>1, <1>7, <2>1 DEF SlotFollows
  <2> QED BY <1>1, <1>2, <1>9, <2>2, FarSame
<1>12. ASSUME NEW r \in Requests, evictions'[r] <= 1 PROVE NearHistory(r)'
  <2>1. NearHistory(r)
    BY <1>1, <1>2, <1>12
  <2>2. CASE r \notin Range(Flight)
    <3>1. output_ids'[r] = output_ids[r] /\ ~Fresh(r) /\ ~Through(0, r)
      BY <1>8, <2>2, SampledOutput
    <3> QED BY <1>1, <1>4, <1>6, <1>7, <2>1, <3>1, NearFrame
  <2>3. CASE r \in Range(Flight)
    <3>1. r \in ActiveSet /\ status[r] = "running"
      <4>1. PICK i \in DOMAIN Flight : Flight[i] = r
        BY <2>3 DEF Range
      <4> QED BY <1>2, <4>1, FlightIsActive DEF PlacesInv, Places
    <3>2. committed[slot[r]] = History(r)
      BY <1>8, <2>1, <2>3, <3>1 DEF NearHistory, InNear
    <3>3. PICK t \in Token : output_ids'[r] = Append(output_ids[r], t)
      BY <2>3, SampledOutput
    <3>4. ButLast(History(r)') = History(r)
      <4>1. Prompt[r] \in Seq(Token) /\ output_ids[r] \in Seq(Token)
        BY HistoryTypes
      <4>2. \A p, o \in Seq(Token), u \in Token :
               SubSeq(p \o Append(o, u), 1, Len(p \o Append(o, u)) - 1) = p \o o
        OBVIOUS
      <4> QED BY <3>3, <4>1, <4>2 DEF ButLast, History
    <3>5. InNear(r)' = History(r)
      BY <1>6, <1>7, <3>4 DEF InNear, ButLast
    <3> QED BY <1>1, <1>4, <1>7, <2>1, <3>1, <3>2, <3>5 DEF NearHistory
  <2> QED BY <2>2, <2>3
<1> QED BY <1>4, <1>10, <1>11, <1>12 DEF StagesInv

-----------------------------------------------------------------------------
(* The scheduler, which the second stage does not hear of *)

\* What an active sequence keeps of its slot, and what a new one finds there.
Kept(r) ==
    /\ r \in ActiveSet /\ slot'[r] = slot[r] /\ prompt_ids'[r] = prompt_ids[r]
    /\ prompt'[slot[r]] = prompt[slot[r]] /\ committed'[slot[r]] = committed[slot[r]]
    /\ Fresh(r)' <=> Fresh(r)

Blank(r) ==
    /\ Fresh(r)'
    /\ prompt'[slot'[r]] = prompt_ids'[r] /\ committed'[slot'[r]] = <<>>

\* A sequence that leaves the running list takes nothing with it.
LEMMA LeavingSlots ==
    ASSUME PlacesInv, FreeFinished \/ PreemptOne
    PROVE  /\ step.pc \in {"schedule", "post"} /\ step'.pc = step.pc
           /\ \A r \in ActiveSet' : Kept(r)
<1>1. /\ step \in StepSet
      /\ slot \in [Requests -> Slots \cup {NoSlot}]
      /\ prompt_ids \in [Requests -> Seq(Token)]
  BY DEF PlacesInv, TypeOK, StepSet
<1>2. CASE FreeFinished
  <2>1. PICK i \in DOMAIN running :
            Cache!Free(slot[running[i]]) /\ running' = Without(running, i)
    BY <1>2 DEF FreeFinished
  <2>2. step.pc = "post" /\ UNCHANGED <<step, slot, prompt_ids>>
    BY <1>2 DEF FreeFinished
  <2>3. Prefilling = <<>> /\ Prefilling' = <<>>
    BY <2>2 DEF Prefilling
  <2>4. /\ \A r : ~Fresh(r) /\ ~Fresh(r)'
        /\ \A r \in ActiveSet' :
              /\ r \in ActiveSet /\ prompt'[slot[r]] = prompt[slot[r]]
              /\ committed'[slot[r]] = committed[slot[r]]
    BY <2>1, <2>2, <2>3, LeavingKeeps
  <2> QED BY <2>2, <2>4 DEF Kept
<1>3. CASE PreemptOne
  <2>1. PICK i, q : i = VictimAt /\ q = running[i]
    OBVIOUS
  <2>2. /\ step.pc = "schedule" /\ step.batch = <<>> /\ running # <<>>
        /\ running' = Without(running, i)
        /\ Cache!Free(slot[q])
        /\ UNCHANGED <<slot, prompt_ids>> \/ Requeue(q)
        /\ step' = [step EXCEPT !.preempted = @ + 1]
    BY <1>3, <2>1 DEF PreemptOne, BlockPressure
  <2>3. /\ step'.pc = "schedule" /\ step'.batch = <<>>
        /\ Prefilling = <<>> /\ Prefilling' = <<>>
    <3>1. step'.pc = "schedule" /\ step'.batch = <<>>
      BY <1>1, <2>2 DEF StepSet
    <3> QED BY <2>2, <3>1 DEF Prefilling
  <2>4. i \in DOMAIN running
    BY <2>1, <2>2, VictimIsRunning DEF PlacesInv
  <2>5. \A r \in Requests \ {q} : slot'[r] = slot[r] /\ prompt_ids'[r] = prompt_ids[r]
    BY <1>1, <2>2 DEF Requeue
  <2>6. /\ \A r : ~Fresh(r) /\ ~Fresh(r)'
        /\ \A r \in ActiveSet' :
              /\ r \in ActiveSet /\ r \in Requests \ {q} /\ prompt'[slot[r]] = prompt[slot[r]]
              /\ committed'[slot[r]] = committed[slot[r]]
    BY <2>1, <2>2, <2>3, <2>4, <2>5, LeavingKeeps
  <2> QED BY <2>2, <2>3, <2>5, <2>6 DEF Kept
<1> QED BY <1>2, <1>3

\* Every step of the scheduler leaves each active sequence what it has or
\* has given it a blank slot.
LEMMA SchedulerSlots ==
    ASSUME PlacesInv, CacheInv, SchedulerPart, step.pc = "schedule" => step.cursor = 1
    PROVE  /\ step.pc # "forward" /\ step.pc # "dead" /\ step'.pc # "dead"
           /\ \A r : ~Written(r) /\ ~Written(r)'
           /\ step'.pc = "forward" => step'.batch # <<>>
           /\ ActiveSet' \subseteq Requests
           /\ \A r \in ActiveSet' : Kept(r) \/ Blank(r)
<1>1. /\ step \in StepSet /\ slot \in [Requests -> Slots \cup {NoSlot}]
      /\ ActiveSet' \subseteq Requests
  <2>1. PlacesInv'
    BY SchedulerSteps, NextPlaces
  <2>2. running' \in Seq(Requests) /\ step'.batch \in Seq(Requests)
    BY <2>1 DEF PlacesInv, TypeOK
  <2>3. Range(running') \subseteq Requests /\ Range(step'.batch) \subseteq Requests
    BY <2>2, RangeOfList
  <2>4. Range(<<>>) = {}
    BY DEF Range
  <2> QED BY <2>3, <2>4 DEF PlacesInv, TypeOK, StepSet, ActiveSet, Prefilling
<1>2. step.pc # "forward" => \A r : ~Written(r)
  BY DEF Written
<1>3. step'.pc # "forward" => \A r : ~Written(r)'
  BY DEF Written
<1>4. CASE \E q \in Requests : AddRequest(q)
  <2>1. /\ step.pc = "idle"
        /\ UNCHANGED <<running, step, slot, prompt_ids, prompt, committed>>
    BY <1>4 DEF AddRequest, cacheVars
  <2>2. ActiveSet' = ActiveSet /\ \A r : Fresh(r)' <=> Fresh(r)
    BY <2>1 DEF ActiveSet, Prefilling, Fresh
  <2> QED BY <1>1, <1>2, <1>3, <2>1, <2>2 DEF Kept
<1>5. CASE AdmitHead
  <2>1. PICK q : q = Head(waiting)
    OBVIOUS
  <2>2. /\ step.pc = "schedule" /\ step'.pc = "schedule"
        /\ Fresh(q)' /\ prompt'[slot'[q]] = prompt_ids[q] /\ committed'[slot'[q]] = <<>>
        /\ prompt_ids' = prompt_ids
        /\ \A r \in Requests \ {q} :
              /\ slot'[r] = slot[r] /\ (Fresh(r)' <=> Fresh(r))
              /\ r \in ActiveSet' => /\ r \in ActiveSet /\ prompt'[slot[r]] = prompt[slot[r]]
                                     /\ committed'[slot[r]] = committed[slot[r]]
    BY <1>5, <2>1, AdmitHeadKeeps
  <2> QED BY <1>1, <1>2, <1>3, <2>2 DEF Kept, Blank
<1>6. CASE FreeFinished \/ PreemptOne
  BY <1>1, <1>2, <1>3, <1>6, LeavingSlots
<1>7. CASE BeginStep \/ StartPrefill \/ StartDecode \/ StoreNext \/ StoreLoop \/ StoreDone \/ EndStep
  <2>1. /\ step.pc # "dead" /\ step'.pc # "dead"
        /\ UNCHANGED <<slot, prompt_ids, prompt, committed>>
        /\ ActiveSet' \subseteq ActiveSet
        /\ \A r : /\ Fresh(r)' <=> Fresh(r)
                  /\ Written(r)' <=> Written(r)
    BY <1>7, StepKeeps
  <2>2. step.pc # "forward"
    BY <1>7 DEF BeginStep, StartPrefill, StartDecode, StoreNext, StoreLoop, StoreDone, EndStep
  <2>3. step'.pc = "forward" => step'.batch # <<>>
    <3>1. CASE StartPrefill
      <4>1. step'.batch = step.batch /\ step.batch # <<>>
        BY <1>1, <3>1 DEF StartPrefill, StepSet
      <4> QED BY <4>1
    <3>2. CASE StartDecode
      <4>1. \/ step'.pc = "idle"
            \/ step'.batch = running /\ running # <<>>
        BY <1>1, <3>2 DEF StartDecode, StepSet, Returned
      <4> QED BY <4>1
    <3>3. CASE BeginStep \/ EndStep
      BY <3>3 DEF BeginStep, EndStep, Returned
    <3>4. CASE StoreNext \/ StoreLoop \/ StoreDone
      <4>1. /\ step.pc = "store"
            /\ \/ step' = step \/ step' = [step EXCEPT !.cursor = @ + 1]
               \/ step' = [step EXCEPT !.pc = "post"]
        BY <3>4 DEF StoreNext, StoreLoop, StoreDone
      <4> QED BY <1>1, <4>1 DEF StepSet
    <3> QED BY <1>7, <3>1, <3>2, <3>3, <3>4
  <2> QED BY <1>1, <1>2, <2>1, <2>2, <2>3 DEF Kept
<1> QED BY <1>1, <1>4, <1>5, <1>6, <1>7 DEF SchedulerPart

\* Outside a forward stage 0 is a cache of Engine.
LEMMA StagesHistory ==
    ASSUME PlacesInv, StagesInv, step.pc # "forward"
    PROVE  HistoryInv
<1>1. pipe = NoFlight
  BY DEF StagesInv, FlightShape, InForward
<1>2. \A r : ~Through(0, r) /\ ~Written(r)
  BY <1>1, NobodyThrough DEF Written
<1>3. ASSUME NEW r \in Requests, evictions[r] <= 1, step.pc # "dead" PROVE KeepsHistory(r)
  <2>1. NearHistory(r) /\ InKV(r) = InNear(r)
    BY <1>2, <1>3 DEF StagesInv, InKV, InNear
  <2>2. r \in ActiveSet => prompt[slot[r]] = prompt_ids[r]
    BY <1>3 DEF StagesInv, SlotFollows
  <2> QED BY <2>1, <2>2 DEF NearHistory, KeepsHistory
<1> QED BY <1>3 DEF HistoryInv, StagesInv, FlightShape

\* The scheduler's steps keep what both stages have of each sequence.
LEMMA SchedulerStages ==
    ASSUME PlacesInv, EvictionsPaidInv, CacheInv, FarTypes, StagesInv, SchedulerPart
    PROVE  StagesInv'
<1>1. step.pc = "schedule" => step.cursor = 1
  BY DEF StagesInv, FlightShape
<1>2. /\ step.pc # "forward" /\ step.pc # "dead" /\ step'.pc # "dead"
      /\ \A r : ~Written(r) /\ ~Written(r)'
      /\ step'.pc = "forward" => step'.batch # <<>>
      /\ ActiveSet' \subseteq Requests
      /\ \A r \in ActiveSet' : Kept(r) \/ Blank(r)
  BY <1>1, SchedulerSlots
<1>3. pipe = NoFlight /\ pipe' = NoFlight /\ far' = far
  BY <1>2 DEF StagesInv, FlightShape, InForward, SchedulerPart, pipeVars
<1>4. PlacesInv'
  BY SchedulerSteps, NextPlaces
<1>5. /\ \A r : ~Through(0, r) /\ ~Through(1, r)
      /\ pipe'.stage = 0 /\ pipe'.done = 0 /\ pipe'.done <= Len(Flight')
      /\ \A r : ~Through(0, r)' /\ ~Through(1, r)'
  BY <1>3, <1>4, NobodyThrough, NobodyThroughNext
<1>6. HistoryInv
  BY <1>2, StagesHistory
<1>7. HistoryInv'
  BY <1>6, SchedulerSteps, NextHistory
<1>8. FlightShape' /\ WireFollows' /\ FarRoom'
  <2>1. ~ (pipe'.done > 0) /\ pipe'.stage # 1
    BY <1>5
  <2>2. step'.pc = "schedule" => step'.cursor = 1
    BY <1>2, <1>7 DEF HistoryInv
  <2> QED BY <1>2, <1>3, <1>5, <2>1, <2>2 DEF FlightShape, WireFollows, FarRoom, InForward
<1>9. ASSUME NEW r \in ActiveSet' PROVE SlotFollows(r)' /\ FarHolds(r)'
  <2>1. r \in Requests
    BY <1>2, <1>9
  <2>2. CASE Kept(r)
    <3>1. SlotFollows(r) /\ FarHolds(r)
      BY <1>2, <2>2 DEF StagesInv, Kept
    <3>2. FarContext(r)' = FarContext(r)
      BY <1>5, <2>2 DEF FarContext, Kept
    <3> QED BY <1>3, <1>5, <2>1, <2>2, <3>1, <3>2, SlotFrame, FarSame DEF Kept
  <2>3. CASE Blank(r)
    <3>1. (FarContext(r))' = <<>>
      BY <1>5, <2>3 DEF FarContext, Blank
    <3>2. FarHolds(r)'
      BY <3>1 DEF FarHolds
    <3> QED BY <1>5, <2>3, <3>2 DEF SlotFollows, Blank
  <2> QED BY <1>2, <1>9, <2>2, <2>3
<1>10. ASSUME NEW r \in Requests, evictions'[r] <= 1 PROVE NearHistory(r)'
  <2>1. KeepsHistory(r)'
    BY <1>2, <1>7, <1>10 DEF HistoryInv
  <2>2. InKV(r)' = InNear(r)'
    BY <1>2, <1>5 DEF InKV, InNear
  <2> QED BY <2>1, <2>2 DEF KeepsHistory, NearHistory
<1> QED BY <1>8, <1>9, <1>10 DEF StagesInv

-----------------------------------------------------------------------------
(* Two stages compute what one model would *)

\* Before anybody asks, neither stage has anything.
LEMMA InitStages == PInit => StagesInv
<1> SUFFICES ASSUME PInit PROVE StagesInv
  OBVIOUS
<1>1. /\ step = Returned /\ running = <<>> /\ pipe = NoFlight
      /\ pipe.stage = 0 /\ pipe.done = 0
  BY DEF PInit, Init, NoFlight
<1>2. step.pc = "idle"
  BY <1>1 DEF Returned
<1>3. \A r : r \notin ActiveSet /\ ~Fresh(r)
  <2>1. Prefilling = <<>> /\ Range(<<>>) = {}
    BY <1>1 DEF Prefilling, Returned, Range
  <2> QED BY <1>1, <1>2, <2>1 DEF ActiveSet, Fresh
<1>4. ASSUME NEW r \in Requests, evictions[r] <= 1 PROVE NearHistory(r)
  <2>1. KeepsHistory(r)
    BY <1>2, <1>4, InitHistory DEF PInit, HistoryInv
  <2> QED BY <1>3, <2>1 DEF KeepsHistory, NearHistory
<1>5. FlightShape /\ WireFollows /\ FarRoom
  BY <1>1, <1>2 DEF FlightShape, WireFollows, FarRoom, InForward
<1> QED BY <1>3, <1>4, <1>5 DEF StagesInv

\* A step that changes nothing.
LEMMA StutterStages ==
    ASSUME PlacesInv, StagesInv, UNCHANGED stageVars
    PROVE  StagesInv'
<1>1. /\ step' = step /\ far' = far /\ pipe' = pipe
      /\ UNCHANGED <<running, status, seq_id, slot, prompt_ids, output_ids, evictions>>
      /\ UNCHANGED <<prompt, committed>>
  BY DEF stageVars, vars, cacheVars, queueVars, seqVars, pipeVars
<1>2. /\ Flight' = Flight /\ (InForward' <=> InForward)
      /\ \A r : /\ Fresh(r)' <=> Fresh(r)
                /\ Through(0, r)' <=> Through(0, r)
                /\ Through(1, r)' <=> Through(1, r)
  BY <1>1, SameFlight
<1>3. ActiveSet' = ActiveSet /\ ActiveSet \subseteq Requests
  <2>1. ActiveSet' = ActiveSet
    BY <1>1 DEF ActiveSet, Prefilling
  <2> QED BY <2>1, ListTypes, RangeOfList DEF PlacesInv, ActiveSet
<1>4. FlightShape'
  BY <1>1, <1>2 DEF FlightShape, StagesInv
<1>5. SUFFICES ASSUME step.pc # "dead"
               PROVE  /\ WireFollows' /\ FarRoom'
                      /\ \A r \in ActiveSet : SlotFollows(r)' /\ FarHolds(r)'
                      /\ \A r \in Requests : evictions[r] <= 1 => NearHistory(r)'
  BY <1>1, <1>3, <1>4 DEF StagesInv
<1>6. WireFollows' /\ FarRoom'
  BY <1>1, <1>2, <1>5 DEF WireFollows, FarRoom, StagesInv, Cache!BlocksFor
<1>7. ASSUME NEW r \in ActiveSet PROVE SlotFollows(r)' /\ FarHolds(r)'
  <2>1. SlotFollows(r) /\ FarHolds(r)
    BY <1>5 DEF StagesInv
  <2>2. FarContext(r)' = FarContext(r)
    BY <1>1, <1>2 DEF FarContext, ButLast
  <2> QED BY <1>1, <1>2, <1>3, <2>1, <2>2, SlotFrame, FarSame
<1>8. ASSUME NEW r \in Requests, evictions[r] <= 1 PROVE NearHistory(r)'
  <2>1. NearHistory(r)
    BY <1>5, <1>8 DEF StagesInv
  <2> QED BY <1>1, <1>2, <1>3, <2>1, NearFrame
<1> QED BY <1>6, <1>7, <1>8

\* Every step keeps what both stages have of each sequence.
LEMMA PNextStages ==
    ASSUME PlacesInv, EvictionsPaidInv, PromptsFit, CacheInv, FarTypes, FarBlocksAreOwned,
           StagesInv, [PNext]_stageVars
    PROVE  StagesInv'
<1>1. CASE SchedulerPart
  BY <1>1, SchedulerStages
<1>2. CASE ExtendNear
  BY <1>2, ExtendNearStages
<1>3. CASE ExtendFar
  BY <1>3, ExtendFarStages
<1>4. CASE PoolDry \/ TableRaises
  BY <1>4, RaiseStages
<1>5. CASE ForwardNear
  BY <1>5, ForwardNearStages
<1>6. CASE Cross
  BY <1>6, CrossStages
<1>7. CASE ForwardFar
  BY <1>7, ForwardFarStages
<1>8. CASE SampleFlight
  BY <1>8, SampleFlightStages
<1>9. CASE UNCHANGED stageVars
  BY <1>9, StutterStages
<1> QED BY <1>1, <1>2, <1>3, <1>4, <1>5, <1>6, <1>7, <1>8, <1>9 DEF PNext

\* What both stages have is what StagesHoldHistory asks for.
LEMMA StagesRead ==
    ASSUME PlacesInv, EvictionsPaidInv, CacheInv, FarTypes, StagesInv
    PROVE  StagesHoldHistory
<1>1. ASSUME pipe.stage = 1, NEW i \in DOMAIN Flight, evictions[Flight[i]] <= 1
      PROVE  pipe.wire[i] = Prompt[Flight[i]] \o output_ids[Flight[i]]
  <2>1. InForward /\ step.pc = "forward" /\ WireFollows
    <3>1. InForward
      BY <1>1 DEF StagesInv, FlightShape, NoFlight
    <3> QED BY <3>1 DEF StagesInv, InForward
  <2>2. PICK r : r = Flight[i]
    OBVIOUS
  <2>3. r \in Requests /\ r \in ActiveSet
    BY <2>1, <2>2, FlightIsActive
  <2>4. Through(0, r)
    BY <1>1, <2>1, <2>2 DEF Through
  <2>5. NearHistory(r)
    BY <1>1, <2>1, <2>2, <2>3 DEF StagesInv
  <2>6. committed[slot[r]] = History(r)
    BY <2>3, <2>4, <2>5 DEF NearHistory, InNear
  <2> QED BY <1>1, <2>1, <2>2, <2>6 DEF WireFollows, History
<1>2. ASSUME step.pc = "idle", NEW r \in Range(running), evictions[r] <= 1
      PROVE  /\ KVIsHistory(r)
             /\ Reading(far.kv, far.table[slot[r]], Len(committed[slot[r]])) = committed[slot[r]]
  <2>1. HistoryInv
    BY <1>2, StagesHistory
  <2>2. KVIsHistory(r)
    BY <1>2, <2>1, HistoryRead
  <2>3. r \in ActiveSet /\ ~Fresh(r) /\ ~Through(0, r) /\ ~Through(1, r)
    BY <1>2 DEF ActiveSet, Fresh, Through, InForward
  <2>4. SlotFollows(r) /\ FarHolds(r) /\ FarContext(r) = committed[slot[r]]
    BY <1>2, <2>3 DEF StagesInv, FarContext
  <2>5. committed[slot[r]] # <<>>
    BY <2>3, <2>4 DEF SlotFollows
  <2> QED BY <2>2, <2>4, <2>5 DEF FarHolds
<1> QED BY <1>1, <1>2 DEF StagesHoldHistory

\* Two stages that share one scheduler compute what one model would, although
\* the second is told nothing of slots that change hands: what crosses the wire
\* for a sequence is computed from its own history, and between calls both
\* stages hold the K/V of it.  StagesHoldHistory for every instance in which a
\* preempted sequence may be queued again.
THEOREM StagesAlwaysHoldHistory ==
    ASSUME PromptsClosed
    PROVE  PSpec => []StagesHoldHistory
<1> DEFINE All == /\ PlacesInv /\ EvictionsPaidInv /\ PromptsFit /\ CacheInv
                  /\ FarTypes /\ FarBlocksAreOwned /\ StagesInv
<1>1. PInit => All
  <2>1. Init => PromptsFit
    BY EngineConstants DEF Init, PromptsFit
  <2>2. Init => CacheInv
    BY CacheStarts DEF Init
  <2>3. PInit => Init
    BY DEF PInit
  <2> QED BY <2>1, <2>2, <2>3, InitPlaces, InitPaid, InitFar, InitStages
<1>2. All /\ [PNext]_stageVars => All'
  <2> SUFFICES ASSUME All, [PNext]_stageVars PROVE All'
    OBVIOUS
  <2>1. PlacesInv' /\ EvictionsPaidInv'
    BY PNextPlaces, PNextPaid
  <2>2. PromptsFit' /\ CacheInv'
    BY PNextPrompts, PNextCache
  <2>3. FarTypes' /\ FarBlocksAreOwned'
    BY NextFarTypes, NextFarOwned
  <2>4. StagesInv'
    BY PNextStages
  <2> QED BY <2>1, <2>2, <2>3, <2>4
<1>3. All => StagesHoldHistory
  BY StagesRead
<1> HIDE DEF All
<1> QED BY <1>1, <1>2, <1>3, PTL DEF PSpec
=============================================================================
