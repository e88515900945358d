------------------------- MODULE ToolApprovalProofs -------------------------
(***************************************************************************)
(* Proofs that a risky call is sent at most once and only if its user      *)
(* approved it, and of what a run fails for, with any number of workers.   *)
(***************************************************************************)
EXTENDS ToolApproval, TLAPS

-----------------------------------------------------------------------------
(* The inductive invariant *)

(* What executes, executes a run. *)
BusyHasRun == \A w \in Worker : wk[w].pc \in Busy => wk[w].run \in Run

TypeInv == TypeOK /\ BusyHasRun

Asking == {"revalidate", "send"}
Answering == {"failed_call", "record"}

(* Behind the row that claims the call, its worker is alone with it.       *)
CallIsClaimed ==
  \A w \in Worker :
    wk[w].pc \in Asking \union Answering =>
      /\ toolRun[wk[w].run] = "running"
      /\ sent[wk[w].run] = IF wk[w].pc \in Asking THEN 0 ELSE 1
      /\ \A v \in Worker :
           wk[v].pc \in Asking \union Answering /\ wk[v].run = wk[w].run => v = w

(* Who decided has settled the approval, and only approvals approve.       *)
ChoiceAgrees ==
  \A r \in Run :
    /\ approval[r].status = "approved" => approval[r].choice = "approved"
    /\ approval[r].choice # "none" => Settled(r)

IInv == TypeInv /\ CallIsClaimed /\ SentOnce /\ OnlyApprovedRuns
        /\ PendingMeansWaiting /\ ChoiceAgrees

-----------------------------------------------------------------------------
(* Replaced rows *)

(* The worker between two executions, and at the start of one. *)
LEMMA IdleRow == IdleWorker \in WorkerState /\ IdleWorker.pc = "idle"
BY DEF IdleWorker, WorkerState

LEMMA ClaimRow ==
  \A r \in Run :
    /\ [IdleWorker EXCEPT !.pc = "enter", !.run = r] \in WorkerState
    /\ [IdleWorker EXCEPT !.pc = "enter", !.run = r].pc = "enter"
    /\ [IdleWorker EXCEPT !.pc = "enter", !.run = r].run = r
BY DEF IdleWorker, WorkerState, Busy

(* Approval rows keep their shape, and only the named columns change.      *)
LEMMA ApprovalRows ==
  \A a \in ApprovalRow : \A s \in ApprovalStatus :
    /\ [a EXCEPT !.status = s] \in ApprovalRow
    /\ [a EXCEPT !.status = s].status = s
    /\ [a EXCEPT !.status = s].choice = a.choice
    /\ \A d \in {"approved", "rejected"} :
         /\ [a EXCEPT !.status = s, !.choice = d] \in ApprovalRow
         /\ [a EXCEPT !.status = s, !.choice = d].status = s
         /\ [a EXCEPT !.status = s, !.choice = d].choice = d
    /\ [a EXCEPT !.lapsed = TRUE] \in ApprovalRow
    /\ [a EXCEPT !.lapsed = TRUE].status = a.status
    /\ [a EXCEPT !.lapsed = TRUE].choice = a.choice
BY DEF ApprovalRow

(* So do run rows. *)
LEMMA RunRows ==
  /\ \A row \in RunRow : \A s \in EndStatus \union {"queued", "running",
                                                    "waiting_approval"} :
       /\ [row EXCEPT !.status = s] \in RunRow
       /\ [row EXCEPT !.status = s].status = s
       /\ [row EXCEPT !.status = s, !.cancelRequested = TRUE] \in RunRow
       /\ [row EXCEPT !.status = s, !.cancelRequested = TRUE].status = s
       /\ [row EXCEPT !.status = s, !.owner = Nobody, !.lease = "none"] \in RunRow
       /\ [row EXCEPT !.status = s, !.owner = Nobody, !.lease = "none"].status = s
  /\ \A row \in RunRow : \A w \in Worker :
       /\ [row EXCEPT !.status = "running", !.owner = w, !.lease = "live"] \in RunRow
       /\ [row EXCEPT !.status = "running", !.owner = w,
                      !.lease = "live"].status = "running"
  /\ \A row \in RunRow :
       /\ [row EXCEPT !.lease = "expired"] \in RunRow
       /\ [row EXCEPT !.lease = "expired"].status = row.status
<1>1. \A row \in RunRow : \A s \in EndStatus \union {"queued", "running",
                                                    "waiting_approval"} :
       /\ [row EXCEPT !.status = s] \in RunRow
       /\ [row EXCEPT !.status = s].status = s
       /\ [row EXCEPT !.status = s, !.cancelRequested = TRUE] \in RunRow
       /\ [row EXCEPT !.status = s, !.cancelRequested = TRUE].status = s
       /\ [row EXCEPT !.status = s, !.owner = Nobody, !.lease = "none"] \in RunRow
       /\ [row EXCEPT !.status = s, !.owner = Nobody, !.lease = "none"].status = s
  BY DEF RunRow
<1>2. \A row \in RunRow : \A w \in Worker :
       /\ [row EXCEPT !.status = "running", !.owner = w, !.lease = "live"] \in RunRow
       /\ [row EXCEPT !.status = "running", !.owner = w,
                      !.lease = "live"].status = "running"
  BY DEF RunRow
<1>3. \A row \in RunRow :
       /\ [row EXCEPT !.lease = "expired"] \in RunRow
       /\ [row EXCEPT !.lease = "expired"].status = row.status
  BY DEF RunRow
<1> QED
  BY <1>1, <1>2, <1>3

-----------------------------------------------------------------------------
(* A worker's moves *)

(* Nobody but w has moved. *)
OnlyMoves(w) == \A v \in Worker \ {w} : wk'[v] = wk[v]

LEMMA MoveTo ==
  ASSUME TypeInv, NEW w \in Worker, wk[w].pc \in Busy, NEW pc \in Busy,
         Goto(w, pc)
  PROVE  /\ wk' \in [Worker -> WorkerState] /\ BusyHasRun' /\ OnlyMoves(w)
         /\ wk'[w].pc = pc /\ wk'[w].run = wk[w].run
<1>1. PICK s \in WorkerState : s = wk[w]
  BY DEF TypeInv, TypeOK
<1> DEFINE new == [s EXCEPT !.pc = pc]
<1>2. new \in WorkerState /\ new.pc = pc /\ new.run = s.run
  BY <1>1 DEF WorkerState
<1>3. wk' = [wk EXCEPT ![w] = new]
  BY <1>1 DEF Goto
<1> HIDE DEF new
<1>4. /\ wk' \in [Worker -> WorkerState] /\ wk'[w] = new
      /\ \A v \in Worker \ {w} : wk'[v] = wk[v]
  BY <1>2, <1>3 DEF TypeInv, TypeOK
<1> QED
  BY <1>1, <1>2, <1>4 DEF OnlyMoves, BusyHasRun, TypeInv

LEMMA MoveOut ==
  ASSUME TypeInv, NEW w \in Worker, wk' = [wk EXCEPT ![w] = IdleWorker]
  PROVE  /\ wk' \in [Worker -> WorkerState] /\ BusyHasRun' /\ OnlyMoves(w)
         /\ wk'[w].pc = "idle"
<1>1. /\ wk' \in [Worker -> WorkerState] /\ wk'[w] = IdleWorker
      /\ \A v \in Worker \ {w} : wk'[v] = wk[v]
  BY IdleRow DEF TypeInv, TypeOK
<1> QED
  BY <1>1, IdleRow DEF OnlyMoves, BusyHasRun, TypeInv, Busy

LEMMA MoveWith ==
  ASSUME TypeInv, NEW w \in Worker, NEW new \in WorkerState,
         wk' = [wk EXCEPT ![w] = new], new.pc \in Busy => new.run \in Run
  PROVE  /\ wk' \in [Worker -> WorkerState] /\ BusyHasRun' /\ OnlyMoves(w)
         /\ wk'[w] = new
<1>1. /\ wk' \in [Worker -> WorkerState] /\ wk'[w] = new
      /\ \A v \in Worker \ {w} : wk'[v] = wk[v]
  BY DEF TypeInv, TypeOK
<1> QED
  BY <1>1 DEF OnlyMoves, BusyHasRun, TypeInv

(* The three moves that write more than where the worker is. *)
LEMMA EnterMove ==
  ASSUME TypeInv, NEW w \in Worker, Enter(w)
  PROVE  /\ wk' \in [Worker -> WorkerState] /\ BusyHasRun' /\ OnlyMoves(w)
         /\ wk'[w].pc \in {"begin", "idle"}
<1>1. PICK s \in WorkerState : s = wk[w]
  BY DEF TypeInv, TypeOK
<1> DEFINE new == [s EXCEPT !.pc = "begin", !.resume = ResumeOf(wk[w].run)]
<1>2. new \in WorkerState /\ new.pc = "begin" /\ new.run = s.run
  BY <1>1 DEF WorkerState, Busy, ResumeOf
<1>3. \/ wk' = [wk EXCEPT ![w] = new]
      \/ wk' = [wk EXCEPT ![w] = IdleWorker]
  BY <1>1 DEF Enter
<1>4. wk[w].run \in Run
  BY DEF Enter, Busy, TypeInv, BusyHasRun
<1> HIDE DEF new
<1> QED
  BY <1>1, <1>2, <1>3, <1>4, MoveWith, MoveOut

LEMMA ResearchMove ==
  ASSUME TypeInv, NEW w \in Worker, Research(w)
  PROVE  /\ wk' \in [Worker -> WorkerState] /\ BusyHasRun' /\ OnlyMoves(w)
         /\ wk'[w].pc \in {"check", "idle"}
<1>1. PICK s \in WorkerState : s = wk[w]
  BY DEF TypeInv, TypeOK
<1> DEFINE new == [s EXCEPT !.pc = "check", !.answer = TRUE]
<1>2. new \in WorkerState /\ new.pc = "check" /\ new.run = s.run
  BY <1>1 DEF WorkerState, Busy
<1>3. \/ wk' = [wk EXCEPT ![w] = new]
      \/ wk' = [wk EXCEPT ![w] = IdleWorker]
  BY <1>1 DEF Research
<1>4. wk[w].run \in Run
  BY DEF Research, Busy, TypeInv, BusyHasRun
<1> HIDE DEF new
<1> QED
  BY <1>1, <1>2, <1>3, <1>4, MoveWith, MoveOut

LEMMA CrashMove ==
  ASSUME TypeInv, NEW w \in Worker, Crash(w)
  PROVE  /\ wk' \in [Worker -> WorkerState] /\ BusyHasRun' /\ OnlyMoves(w)
         /\ wk'[w].pc = "dead"
<1> DEFINE new == [IdleWorker EXCEPT !.pc = "dead"]
<1>1. new \in WorkerState /\ new.pc = "dead"
  BY DEF IdleWorker, WorkerState
<1>2. wk' = [wk EXCEPT ![w] = new]
  BY DEF Crash
<1> HIDE DEF new
<1> QED
  BY <1>1, <1>2, MoveWith DEF Busy

-----------------------------------------------------------------------------
(* Open transactions *)

(* What the approvals become that a transaction has read, and the others. *)
LEMMA SeenRows ==
  ASSUME TypeInv, NEW p \in Api, NEW status \in {"disabled", "cancelled"},
         WriteSeen(p, status)
  PROVE  /\ approval' \in [Run -> ApprovalRow]
         /\ call' \in [Run -> CallStatus \union {"pending_approval"}]
         /\ \A q \in Run :
              /\ approval'[q].choice = approval[q].choice
              /\ q \in api[p].seen =>
                   approval'[q].status = status /\ call'[q] = status
              /\ q \notin api[p].seen =>
                   approval'[q] = approval[q] /\ call'[q] = call[q]
<1>1. status \in ApprovalStatus /\ status \in CallStatus
  BY DEF CallStatus, ApprovalStatus, Decision
<1>2. \A q \in Run : approval[q] \in ApprovalRow
  BY DEF TypeInv, TypeOK
<1>3. \A q \in Run : approval'[q] = IF q \in api[p].seen
                                   THEN [approval[q] EXCEPT !.status = status]
                                   ELSE approval[q]
  BY DEF WriteSeen
<1>4. ASSUME NEW q \in Run
      PROVE  /\ approval'[q] \in ApprovalRow
             /\ approval'[q].choice = approval[q].choice
             /\ q \in api[p].seen => approval'[q].status = status
  <2>1. PICK a \in ApprovalRow : a = approval[q]
    BY <1>2
  <2>2. /\ [a EXCEPT !.status = status] \in ApprovalRow
        /\ [a EXCEPT !.status = status].choice = a.choice
        /\ [a EXCEPT !.status = status].status = status
    BY <1>1, ApprovalRows
  <2>3. approval'[q] = IF q \in api[p].seen THEN [a EXCEPT !.status = status]
                                           ELSE a
    BY <1>3, <2>1
  <2> QED
    BY <2>1, <2>2, <2>3
<1>5. approval' \in [Run -> ApprovalRow]
  BY <1>4 DEF WriteSeen
<1>6. \A q \in Run : call'[q] = IF q \in api[p].seen THEN status ELSE call[q]
  BY DEF WriteSeen
<1>7. call' \in [Run -> CallStatus \union {"pending_approval"}]
  BY <1>1, <1>6 DEF WriteSeen, TypeInv, TypeOK
<1> QED
  BY <1>3, <1>4, <1>5, <1>6, <1>7

(* A transaction opens or closes in one process. *)
LEMMA ApiTypes ==
  ASSUME TypeInv, NEW p \in Api,
         \/ DisableRead(p) \/ (\E r \in Run : CancelRead(p, r)) \/ Over(p)
  PROVE  api' \in [Api -> ApiState]
<1>1. \E new \in ApiState : api' = [api EXCEPT ![p] = new]
  <2>1. CASE DisableRead(p)
    <3> DEFINE new == [doing |-> "disable",
                       seen |-> {r \in Run : approval[r].status = "pending"},
                       off |-> grant = "disabled"]
    <3>1. new \in ApiState
      BY DEF ApiState
    <3> QED
      BY <2>1, <3>1 DEF DisableRead
  <2>2. ASSUME NEW r \in Run, CancelRead(p, r)
        PROVE  \E new \in ApiState : api' = [api EXCEPT ![p] = new]
    <3> DEFINE new == [doing |-> "cancel",
                       seen |-> {q \in {r} : approval[q].status = "pending"},
                       off |-> FALSE]
    <3>1. new \in ApiState
      BY DEF ApiState
    <3> QED
      BY <2>2, <3>1 DEF CancelRead
  <2>3. CASE Over(p)
    <3>1. IdleApi \in ApiState
      BY DEF ApiState, IdleApi
    <3> QED
      BY <2>3, <3>1 DEF Over
  <2> QED
    BY <2>1, <2>2, <2>3
<1> QED
  BY <1>1 DEF TypeInv, TypeOK

ApiStep(p) ==
  \/ DisableRead(p) \/ DisableWrite(p) \/ CancelWrite(p)
  \/ \E r \in Run : CancelRead(p, r)

(* No transaction touches what workers do. *)
LEMMA ApiFrame ==
  ASSUME NEW p \in Api, ApiStep(p)
  PROVE  UNCHANGED <<wk, toolRun, sent, ckpt, faulted, stalls, crashes>>
BY DEF ApiStep, DisableRead, DisableWrite, CancelRead, CancelWrite, rows, bounds

-----------------------------------------------------------------------------
(* Type correctness *)

LEMMA TypeInit == Init => TypeInv
<1> SUFFICES ASSUME Init PROVE TypeInv
  OBVIOUS
<1>1. run \in [Run -> RunRow]
  BY DEF Init, RunRow
<1>2. approval \in [Run -> ApprovalRow]
  BY DEF Init, ApprovalRow, ApprovalStatus, Decision
<1>3. wk \in [Worker -> WorkerState] /\ BusyHasRun
  BY IdleRow DEF Init, BusyHasRun, Busy
<1>4. api \in [Api -> ApiState]
  BY DEF Init, IdleApi, ApiState
<1> QED
  BY <1>1, <1>2, <1>3, <1>4, BoundsAreNatural
     DEF Init, TypeInv, TypeOK, CallStatus, ApprovalStatus, Decision, Stage

(* What the user, the administrator and the stop request write. *)
LEMMA UserTypes ==
  ASSUME TypeInv, NEW r \in Run,
         \/ \E d \in {"approved", "rejected"} : Decide(r, d)
         \/ Stop(r) \/ Lapse(r) \/ Expire(r)
  PROVE  TypeInv'
<1> USE DEF TypeInv, TypeOK
<1>1. ASSUME NEW d \in {"approved", "rejected"}, Decide(r, d) PROVE TypeInv'
  <2> DEFINE status ==
        IF run[r].cancelRequested THEN "cancelled"
        ELSE IF d = "approved" /\ grant # "enabled" THEN "disabled"
        ELSE IF approval[r].lapsed THEN "expired" ELSE d
  <2>1. status \in ApprovalStatus /\ status \in CallStatus
    BY DEF CallStatus, ApprovalStatus, Decision
  <2>2. /\ approval' = [approval EXCEPT ![r] =
                         [approval[r] EXCEPT !.status = status, !.choice = d]]
        /\ call' = [call EXCEPT ![r] = status]
    BY <1>1 DEF Decide
  <2> HIDE DEF status
  <2>3. approval' \in [Run -> ApprovalRow]
    BY <2>1, <2>2, ApprovalRows
  <2>4. call' \in [Run -> CallStatus \union {"pending_approval"}]
    BY <2>1, <2>2
  <2>5. run' \in [Run -> RunRow]
    BY <1>1, RunRows DEF Decide, Requeued, EndStatus
  <2> QED
    BY <1>1, <2>3, <2>4, <2>5 DEF Decide, bounds, BusyHasRun
<1>2. CASE Stop(r)
  <2>1. run' \in [Run -> RunRow]
    BY <1>2, RunRows DEF Stop, EndStatus
  <2> QED
    BY <1>2, <2>1 DEF Stop, rows, bounds, BusyHasRun
<1>4. CASE Lapse(r)
  <2>1. approval' \in [Run -> ApprovalRow]
    BY <1>4, ApprovalRows DEF Lapse, ApprovalStatus
  <2> QED
    BY <1>4, <2>1 DEF Lapse, bounds, BusyHasRun
<1>5. CASE Expire(r)
  <2>1. run' \in [Run -> RunRow]
    BY <1>5, RunRows DEF Expire
  <2>2. stalls' \in Nat
    BY <1>5 DEF Expire
  <2> QED
    BY <1>5, <2>1, <2>2 DEF Expire, rows, BusyHasRun
<1> QED
  BY <1>1, <1>2, <1>4, <1>5

(* What the transactions of the API write. *)
LEMMA ApiWriteTypes ==
  ASSUME TypeInv, NEW p \in Api, ApiStep(p)
  PROVE  TypeInv'
<1> USE DEF TypeInv, TypeOK, ApiStep
<1>1. api' \in [Api -> ApiState]
  BY ApiTypes DEF DisableWrite, CancelWrite
<1>2. CASE DisableRead(p)
  BY <1>1, <1>2 DEF DisableRead, rows, bounds, BusyHasRun
<1>3. ASSUME NEW r \in Run, CancelRead(p, r) PROVE TypeInv'
  BY <1>1, <1>3 DEF CancelRead, rows, bounds, BusyHasRun
<1>4. CASE DisableWrite(p)
  <2>1. /\ approval' \in [Run -> ApprovalRow]
        /\ call' \in [Run -> CallStatus \union {"pending_approval"}]
    BY <1>4, SeenRows DEF DisableWrite
  <2>2. run' \in [Run -> RunRow]
    BY <1>4, RunRows DEF DisableWrite, Requeued
  <2>3. grant' \in {"none", "enabled", "disabled"}
    BY <1>4 DEF DisableWrite
  <2> QED
    BY <1>1, <1>4, <2>1, <2>2, <2>3 DEF DisableWrite, bounds, BusyHasRun
<1>5. CASE CancelWrite(p)
  <2>1. /\ approval' \in [Run -> ApprovalRow]
        /\ call' \in [Run -> CallStatus \union {"pending_approval"}]
    BY <1>5, SeenRows DEF CancelWrite
  <2> QED
    BY <1>1, <1>5, <2>1 DEF CancelWrite, bounds, BusyHasRun
<1> QED
  BY <1>2, <1>3, <1>4, <1>5

(* What a worker writes on its way into the graph, and how it dies. *)
LEMMA QueueTypes ==
  ASSUME TypeInv, NEW w \in Worker,
         \/ \E r \in Run : Claim(w, r)
         \/ Enter(w) \/ Begin(w) \/ Prepare(w) \/ Note(w) \/ Crash(w)
  PROVE  TypeInv'
<1>1. ASSUME NEW r \in Run, Claim(w, r) PROVE TypeInv'
  <2>1. run' \in [Run -> RunRow]
    BY <1>1, RunRows DEF Claim, TypeInv, TypeOK
  <2>2. wk' \in [Worker -> WorkerState] /\ BusyHasRun'
    BY <1>1, ClaimRow, MoveWith DEF Claim
  <2> QED
    BY <1>1, <2>1, <2>2 DEF Claim, rows, bounds, TypeInv, TypeOK
<1>2. CASE Enter(w)
  BY <1>2, EnterMove DEF Enter, rows, bounds, TypeInv, TypeOK
<1>3. CASE Begin(w)
  <2>1. wk' \in [Worker -> WorkerState] /\ BusyHasRun'
    BY <1>3, MoveTo DEF Begin, Busy
  <2> QED
    BY <1>3, <2>1 DEF Begin, rows, bounds, TypeInv, TypeOK
<1>4. CASE Prepare(w)
  <2>0. wk[w].run \in Run
    BY <1>4 DEF Prepare, Busy, TypeInv, BusyHasRun
  <2>1. wk' \in [Worker -> WorkerState] /\ BusyHasRun'
    BY <1>4, MoveTo DEF Prepare, Busy
  <2>2. run' \in [Run -> RunRow]
    <3>1. PICK row \in RunRow : row = run[wk[w].run]
      BY <2>0 DEF TypeInv, TypeOK
    <3>2. [row EXCEPT !.status = "waiting_approval"] \in RunRow
      BY <3>1 DEF RunRow
    <3> QED
      BY <1>4, <2>0, <3>1, <3>2 DEF Prepare, TypeInv, TypeOK
  <2>3. approval' \in [Run -> ApprovalRow]
    <3>1. PICK a \in ApprovalRow : a = approval[wk[w].run]
      BY <2>0 DEF TypeInv, TypeOK
    <3>2. [a EXCEPT !.status = "pending"] \in ApprovalRow
      BY <3>1 DEF ApprovalRow, ApprovalStatus
    <3> QED
      BY <1>4, <2>0, <3>1, <3>2 DEF Prepare, TypeInv, TypeOK
  <2>4. /\ call' \in [Run -> CallStatus \union {"pending_approval"}]
        /\ grant' \in {"none", "enabled", "disabled"}
        /\ ckpt' \in [Run -> Stage]
    BY <1>4, <2>0 DEF Prepare, Put, Stage, TypeInv, TypeOK
  <2> QED
    BY <1>4, <2>1, <2>2, <2>3, <2>4 DEF Prepare, bounds, TypeInv, TypeOK
<1>5. CASE Note(w)
  <2>0. wk[w].run \in Run
    BY <1>5 DEF Note, Busy, TypeInv, BusyHasRun
  <2>1. wk' \in [Worker -> WorkerState] /\ BusyHasRun'
    BY <1>5, MoveTo, MoveOut DEF Note, Busy
  <2>2. ckpt' \in [Run -> Stage]
    BY <1>5, <2>0 DEF Note, Put, Stage, TypeInv, TypeOK
  <2> QED
    BY <1>5, <2>1, <2>2 DEF Note, rows, bounds, TypeInv, TypeOK
<1>6. CASE Crash(w)
  <2>1. crashes' \in Nat
    BY <1>6 DEF Crash, TypeInv, TypeOK
  <2> QED
    BY <1>6, <2>1, CrashMove DEF Crash, rows, TypeInv, TypeOK
<1> QED
  BY <1>1, <1>2, <1>3, <1>4, <1>5, <1>6

(* What ToolExecutionService.execute and its event write. *)
LEMMA CallTypes ==
  ASSUME TypeInv, NEW w \in Worker,
         \/ Execute(w) \/ Revalidate(w) \/ Send(w) \/ FailedCall(w)
         \/ Record(w) \/ Project(w)
  PROVE  TypeInv'
<1>0. wk[w].pc \in Busy /\ wk[w].run \in Run
  BY DEF Execute, Revalidate, Send, FailedCall, Record, Project, Busy,
         TypeInv, BusyHasRun
<1>1. CASE Execute(w)
  <2>1. wk' \in [Worker -> WorkerState] /\ BusyHasRun'
    BY <1>0, <1>1, MoveTo DEF Execute, Busy
  <2>2. approval' \in [Run -> ApprovalRow]
    <3>1. PICK a \in ApprovalRow : a = approval[wk[w].run]
      BY <1>0 DEF TypeInv, TypeOK
    <3>2. [a EXCEPT !.status = "expired"] \in ApprovalRow
      BY <3>1 DEF ApprovalRow, ApprovalStatus, Decision
    <3> QED
      BY <1>0, <1>1, <3>1, <3>2 DEF Execute, Mark, rows, TypeInv, TypeOK
  <2>3. /\ call' \in [Run -> CallStatus \union {"pending_approval"}]
        /\ toolRun' \in [Run -> {"none", "running", "completed", "failed",
                                 "cancelled"}]
    BY <1>0, <1>1
       DEF Execute, Mark, rows, TypeInv, TypeOK, CallStatus, ApprovalStatus,
           Decision
  <2> QED
    BY <1>1, <2>1, <2>2, <2>3 DEF Execute, bounds, TypeInv, TypeOK
<1>2. CASE Revalidate(w)
  <2>1. wk' \in [Worker -> WorkerState] /\ BusyHasRun'
    BY <1>0, <1>2, MoveTo DEF Revalidate, Busy
  <2> QED
    BY <1>2, <2>1 DEF Revalidate, rows, bounds, TypeInv, TypeOK
<1>3. CASE Send(w)
  <2>1. wk' \in [Worker -> WorkerState] /\ BusyHasRun'
    BY <1>0, <1>3, MoveTo DEF Send, Busy
  <2>2. sent' \in [Run -> Nat] /\ faulted' \subseteq Run
    BY <1>0, <1>3 DEF Send, TypeInv, TypeOK
  <2> QED
    BY <1>3, <2>1, <2>2 DEF Send, rows, bounds, TypeInv, TypeOK
<1>4. CASE FailedCall(w)
  <2>1. wk' \in [Worker -> WorkerState] /\ BusyHasRun'
    BY <1>0, <1>4, MoveTo DEF FailedCall, Busy
  <2>2. /\ call' \in [Run -> CallStatus \union {"pending_approval"}]
        /\ toolRun' \in [Run -> {"none", "running", "completed", "failed",
                                 "cancelled"}]
    BY <1>0, <1>4 DEF FailedCall, TypeInv, TypeOK, CallStatus
  <2> QED
    BY <1>4, <2>1, <2>2 DEF FailedCall, bounds, TypeInv, TypeOK
<1>5. CASE Record(w)
  <2>1. wk' \in [Worker -> WorkerState] /\ BusyHasRun'
    BY <1>0, <1>5, MoveTo DEF Record, Busy
  <2>2. /\ call' \in [Run -> CallStatus \union {"pending_approval"}]
        /\ toolRun' \in [Run -> {"none", "running", "completed", "failed",
                                 "cancelled"}]
    BY <1>0, <1>5
       DEF Record, ResultOf, TypeInv, TypeOK, CallStatus, ApprovalStatus
  <2> QED
    BY <1>5, <2>1, <2>2 DEF Record, bounds, TypeInv, TypeOK
<1>6. CASE Project(w)
  <2>1. wk' \in [Worker -> WorkerState] /\ BusyHasRun'
    BY <1>0, <1>6, MoveTo, MoveOut DEF Project, Busy
  <2>2. ckpt' \in [Run -> Stage]
    BY <1>0, <1>6 DEF Project, Put, Stage, TypeInv, TypeOK
  <2> QED
    BY <1>6, <2>1, <2>2 DEF Project, rows, bounds, TypeInv, TypeOK
<1> QED
  BY <1>1, <1>2, <1>3, <1>4, <1>5, <1>6

LEMMA EndTypes ==
  ASSUME TypeInv, NEW w \in Worker,
         Research(w) \/ Check(w) \/ Final(w) \/ Raise(w) \/ Fail(w)
  PROVE  TypeInv'
<1>0. wk[w].pc \in Busy /\ wk[w].run \in Run
  BY DEF Research, Check, Final, Raise, Fail, Busy, TypeInv, BusyHasRun
<1>1. CASE Research(w)
  <2>1. ckpt' \in [Run -> Stage]
    BY <1>0, <1>1 DEF Research, Stage, TypeInv, TypeOK
  <2> QED
    BY <1>1, <2>1, ResearchMove DEF Research, rows, bounds, TypeInv, TypeOK
<1>2. CASE Check(w)
  <2>1. wk' \in [Worker -> WorkerState] /\ BusyHasRun'
    BY <1>0, <1>2, MoveTo, MoveOut DEF Check, Busy
  <2> QED
    BY <1>2, <2>1 DEF Check, rows, bounds, TypeInv, TypeOK
<1>3. ASSUME NEW status \in EndStatus, End(w, status) PROVE TypeInv'
  <2>1. wk' \in [Worker -> WorkerState] /\ BusyHasRun'
    BY <1>3, MoveOut DEF End
  <2>2. run' \in [Run -> RunRow]
    BY <1>0, <1>3, RunRows DEF End, TypeInv, TypeOK
  <2> QED
    BY <1>3, <2>1, <2>2 DEF End, rows, bounds, TypeInv, TypeOK
<1>4. CASE Raise(w)
  <2>1. wk' \in [Worker -> WorkerState] /\ BusyHasRun'
    BY <1>0, <1>4, MoveTo DEF Raise, Busy
  <2> QED
    BY <1>0, <1>4, <2>1 DEF Raise, rows, bounds, TypeInv, TypeOK
<1> QED
  BY <1>1, <1>2, <1>3, <1>4 DEF Final, Fail, EndStatus

LEMMA TypeStep == TypeInv /\ [Next]_vars => TypeInv'
<1> SUFFICES ASSUME TypeInv, [Next]_vars PROVE TypeInv'
  OBVIOUS
<1>1. CASE UNCHANGED vars
  BY <1>1 DEF vars, rows, bounds, TypeInv, TypeOK, BusyHasRun
<1>2. ASSUME NEW r \in Run,
             \/ \E d \in {"approved", "rejected"} : Decide(r, d)
             \/ Stop(r) \/ Lapse(r) \/ Expire(r)
      PROVE  TypeInv'
  BY <1>2, UserTypes
<1>3. CASE Enable
  BY <1>3 DEF Enable, rows, bounds, TypeInv, TypeOK, BusyHasRun
<1>4. ASSUME NEW p \in Api, ApiStep(p) PROVE TypeInv'
  BY <1>4, ApiWriteTypes
<1>6. ASSUME NEW w \in Worker, Step(w) \/ Raise(w) \/ Crash(w)
                               \/ \E r \in Run : Claim(w, r)
      PROVE  TypeInv'
  BY <1>6, QueueTypes, CallTypes, EndTypes DEF Step
<1> QED
  BY <1>1, <1>2, <1>3, <1>4, <1>6 DEF Next, ApiStep

(* Rows, checkpoints and workers keep their shape. *)
THEOREM ToolTypesCorrect == Spec => []TypeOK
<1>1. TypeInv => TypeOK
  BY DEF TypeInv
<1> QED
  BY <1>1, TypeInit, TypeStep, PTL DEF Spec

-----------------------------------------------------------------------------
(* One call *)

InCall(w) == wk[w].pc \in Asking \union Answering

(* A step that neither starts a call nor carries one out. *)
Quiet ==
  /\ UNCHANGED <<toolRun, sent>>
  /\ \A v \in Worker :
       InCall(v)' => /\ InCall(v) /\ wk'[v].run = wk[v].run
                     /\ wk'[v].pc \in Asking <=> wk[v].pc \in Asking

LEMMA QuietKeepsCalls ==
  ASSUME CallIsClaimed, SentOnce, Quiet
  PROVE  CallIsClaimed' /\ SentOnce'
<1>1. SentOnce'
  BY DEF SentOnce, Quiet
<1>2. ASSUME NEW w \in Worker, InCall(w)'
      PROVE  /\ toolRun'[wk'[w].run] = "running"
             /\ sent'[wk'[w].run] = IF wk'[w].pc \in Asking THEN 0 ELSE 1
             /\ \A v \in Worker : InCall(v)' /\ wk'[v].run = wk'[w].run => v = w
  <2>1. InCall(w) /\ wk'[w].run = wk[w].run
        /\ (wk'[w].pc \in Asking <=> wk[w].pc \in Asking)
    BY <1>2 DEF Quiet
  <2>2. \A v \in Worker : InCall(v)' => InCall(v) /\ wk'[v].run = wk[v].run
    BY DEF Quiet
  <2> QED
    BY <2>1, <2>2 DEF CallIsClaimed, InCall, Quiet
<1> QED
  BY <1>1, <1>2 DEF CallIsClaimed, InCall

(* A worker that moves outside a call is quiet. *)
LEMMA QuietMove ==
  ASSUME NEW w \in Worker, OnlyMoves(w), ~InCall(w)',
         UNCHANGED <<toolRun, sent>>
  PROVE  Quiet
BY DEF Quiet, OnlyMoves, InCall

LEMMA QuietActions ==
  ASSUME TypeInv, NEW w \in Worker,
         \/ \E r \in Run : Claim(w, r)
         \/ Enter(w) \/ Begin(w) \/ Prepare(w) \/ Note(w) \/ Crash(w)
         \/ Revalidate(w) \/ Project(w) \/ Research(w) \/ Check(w)
         \/ Final(w) \/ Raise(w) \/ Fail(w)
  PROVE  Quiet
<1> USE DEF Asking, Answering
<1>1. ASSUME NEW r \in Run, Claim(w, r) PROVE Quiet
  <2>1. OnlyMoves(w) /\ wk'[w].pc = "enter"
    BY <1>1, ClaimRow, MoveWith DEF Claim
  <2> QED
    BY <1>1, <2>1, QuietMove DEF Claim, rows, InCall
<1>2. CASE Enter(w)
  BY <1>2, EnterMove, QuietMove DEF Enter, rows, InCall
<1>3. CASE Begin(w)
  <2>1. OnlyMoves(w) /\ ~InCall(w)'
    BY <1>3, MoveTo DEF Begin, Busy, InCall
  <2> QED
    BY <1>3, <2>1, QuietMove DEF Begin, rows
<1>4. CASE Prepare(w)
  <2>1. OnlyMoves(w) /\ ~InCall(w)'
    BY <1>4, MoveTo DEF Prepare, Busy, InCall
  <2> QED
    BY <1>4, <2>1, QuietMove DEF Prepare
<1>5. CASE Note(w)
  <2>1. OnlyMoves(w) /\ ~InCall(w)'
    BY <1>5, MoveTo, MoveOut DEF Note, Busy, InCall
  <2> QED
    BY <1>5, <2>1, QuietMove DEF Note, rows
<1>6. CASE Crash(w)
  BY <1>6, CrashMove, QuietMove DEF Crash, rows, InCall
<1>7. CASE Revalidate(w)
  <2>1. /\ OnlyMoves(w) /\ wk'[w].run = wk[w].run
        /\ wk'[w].pc \in {"project", "send"}
    BY <1>7, MoveTo DEF Revalidate, Busy
  <2> QED
    BY <1>7, <2>1 DEF Revalidate, rows, InCall, Quiet, OnlyMoves
<1>8. CASE Project(w)
  <2>1. OnlyMoves(w) /\ ~InCall(w)'
    BY <1>8, MoveTo, MoveOut DEF Project, Busy, InCall
  <2> QED
    BY <1>8, <2>1, QuietMove DEF Project, rows
<1>9. CASE Research(w)
  BY <1>9, ResearchMove, QuietMove DEF Research, rows, InCall
<1>10. CASE Check(w)
  <2>1. OnlyMoves(w) /\ ~InCall(w)'
    BY <1>10, MoveTo, MoveOut DEF Check, Busy, InCall
  <2> QED
    BY <1>10, <2>1, QuietMove DEF Check, rows
<1>11. CASE Final(w) \/ Fail(w)
  <2>1. OnlyMoves(w) /\ ~InCall(w)'
    BY <1>11, MoveOut DEF Final, Fail, End, InCall
  <2> QED
    BY <1>11, <2>1, QuietMove DEF Final, Fail, End, rows
<1>12. CASE Raise(w)
  <2>1. OnlyMoves(w) /\ ~InCall(w)'
    BY <1>12, MoveTo DEF Raise, Busy, InCall
  <2> QED
    BY <1>12, <2>1, QuietMove DEF Raise, rows
<1> QED
  BY <1>1, <1>2, <1>3, <1>4, <1>5, <1>6, <1>7, <1>8, <1>9, <1>10, <1>11, <1>12

(* Every step leaves each call to the one worker that claimed it. *)
LEMMA CallStep ==
  ASSUME IInv, [Next]_vars
  PROVE  CallIsClaimed' /\ SentOnce'
<1> USE DEF Asking, Answering
<1>0. TypeInv /\ CallIsClaimed /\ SentOnce
  BY DEF IInv
<1>1. CASE UNCHANGED vars
  BY <1>0, <1>1 DEF vars, rows, CallIsClaimed, SentOnce
<1>2. ASSUME NEW r \in Run,
             \/ \E d \in {"approved", "rejected"} : Decide(r, d)
             \/ Stop(r) \/ Lapse(r) \/ Expire(r)
      PROVE  UNCHANGED <<wk, toolRun, sent>>
  BY <1>2 DEF Decide, Stop, Lapse, Expire, rows
<1>3. CASE Enable \/ \E p \in Api : ApiStep(p)
  BY <1>0, <1>3, ApiFrame DEF Enable, rows, CallIsClaimed, SentOnce
<1>4. ASSUME NEW w \in Worker, Execute(w)
      PROVE  CallIsClaimed' /\ SentOnce'
  <2> DEFINE r == wk[w].run
  <2>1. r \in Run /\ ~InCall(w)
    BY <1>0, <1>4 DEF Execute, Busy, TypeInv, BusyHasRun, InCall
  <2>2. CASE wk'[w].pc # "revalidate"
    <3>1. OnlyMoves(w) /\ ~InCall(w)' /\ UNCHANGED <<toolRun, sent>>
      BY <1>0, <1>4, <2>2, MoveTo DEF Execute, Busy, InCall, rows
    <3> QED
      BY <1>0, <3>1, QuietMove, QuietKeepsCalls
  <2>3. CASE wk'[w].pc = "revalidate"
    <3>1. /\ OnlyMoves(w) /\ wk'[w].run = r
          /\ toolRun[r] = "none"
          /\ toolRun' = [toolRun EXCEPT ![r] = "running"]
          /\ UNCHANGED sent
      BY <1>0, <1>4, <2>3, MoveTo DEF Execute, Busy, AlreadyRun, rows
    <3>2. \A v \in Worker : InCall(v) => wk[v].run # r
      BY <1>0, <3>1 DEF CallIsClaimed, InCall
    <3>3. toolRun'[r] = "running" /\ \A q \in Run \ {r} : toolRun'[q] = toolRun[q]
      BY <1>0, <2>1, <3>1 DEF TypeInv, TypeOK
    <3>4. sent[r] = 0
      BY <1>0, <2>1, <3>1 DEF SentOnce
    <3>5. SentOnce'
      BY <1>0, <2>1, <3>1, <3>3, <3>4 DEF SentOnce
    <3>6. \A v \in Worker \ {w} : InCall(v) => wk[v].run \in Run \ {r}
      BY <1>0, <3>2 DEF TypeInv, BusyHasRun, InCall, Busy
    <3>7. CallIsClaimed'
      BY <1>0, <2>3, <3>1, <3>2, <3>3, <3>4, <3>6
         DEF CallIsClaimed, InCall, OnlyMoves
    <3> QED
      BY <3>5, <3>7
  <2> QED
    BY <2>2, <2>3
<1>5. ASSUME NEW w \in Worker, Send(w) \/ FailedCall(w) \/ Record(w)
      PROVE  CallIsClaimed' /\ SentOnce'
  <2> DEFINE r == wk[w].run
  <2>1. r \in Run /\ InCall(w) /\ wk[w].pc \in {"send", "failed_call", "record"}
    BY <1>0, <1>5 DEF Send, FailedCall, Record, Busy, TypeInv, BusyHasRun, InCall
  <2>2. /\ toolRun[r] = "running"
        /\ sent[r] = IF wk[w].pc = "send" THEN 0 ELSE 1
        /\ \A v \in Worker \ {w} : InCall(v) => wk[v].run \in Run \ {r}
    BY <1>0, <2>1 DEF CallIsClaimed, InCall, TypeInv, BusyHasRun, Busy
  <2>3. /\ OnlyMoves(w) /\ wk'[w].run = r
        /\ wk'[w].pc \in IF wk[w].pc = "send" THEN Answering
                                              ELSE {"fail", "project"}
    BY <1>0, <1>5, MoveTo DEF Send, FailedCall, Record, Busy
  <2>4. /\ sent'[r] = 1
        /\ IF wk[w].pc = "send" THEN toolRun'[r] = "running"
           ELSE toolRun'[r] \in {"completed", "failed", "cancelled"}
        /\ \A q \in Run \ {r} : sent'[q] = sent[q] /\ toolRun'[q] = toolRun[q]
    BY <1>0, <1>5, <2>1, <2>2
       DEF Send, FailedCall, Record, ResultOf, rows, TypeInv, TypeOK
  <2>5. SentOnce'
    BY <1>0, <2>4 DEF SentOnce
  <2>6. CallIsClaimed'
    BY <1>0, <2>1, <2>2, <2>3, <2>4 DEF CallIsClaimed, InCall, OnlyMoves
  <2> QED
    BY <2>5, <2>6
<1>6. ASSUME NEW w \in Worker,
             \/ Step(w) \/ Raise(w) \/ Crash(w)
             \/ \E r \in Run : Claim(w, r)
      PROVE  CallIsClaimed' /\ SentOnce'
  <2>1. \/ Execute(w) \/ Send(w) \/ FailedCall(w) \/ Record(w)
        \/ Quiet
    BY <1>0, <1>6, QuietActions DEF Step
  <2> QED
    BY <1>0, <1>4, <1>5, <2>1, QuietKeepsCalls
<1>7. CASE UNCHANGED <<wk, toolRun, sent>>
  BY <1>0, <1>7 DEF CallIsClaimed, SentOnce
<1> QED
  BY <1>1, <1>2, <1>3, <1>6, <1>7 DEF Next, ApiStep

-----------------------------------------------------------------------------
(* Decisions *)

(* Marking a call changes one approval's status, and no user's decision.   *)
LEMMA MarkFrame ==
  ASSUME TypeInv, NEW r \in Run, NEW status \in ApprovalStatus, Mark(r, status),
         NEW q \in Run
  PROVE  /\ approval'[q].choice = approval[q].choice
         /\ approval'[q].status = IF q = r THEN status ELSE approval[q].status
<1>1. PICK a \in ApprovalRow : a = approval[r]
  BY DEF TypeInv, TypeOK
<1> DEFINE new == [a EXCEPT !.status = status]
<1>2. new.choice = a.choice /\ new.status = status
  BY <1>1 DEF ApprovalRow
<1>3. approval' = [approval EXCEPT ![r] = new]
  BY <1>1 DEF Mark
<1> HIDE DEF new
<1> QED
  BY <1>1, <1>2, <1>3 DEF TypeInv, TypeOK

(* How an approval may change. *)
LEMMA ApprovalMoves ==
  ASSUME TypeInv, [Next]_vars, NEW q \in Run
  PROVE  \/ approval'[q] = approval[q]
         \/ /\ approval'[q].status = approval[q].status
            /\ approval'[q].choice = approval[q].choice /\ approval'[q].lapsed
         \/ /\ approval[q].status = "none" /\ approval'[q].status = "pending"
            /\ approval'[q].choice = approval[q].choice
         \/ /\ approval[q].status = "pending"
            /\ approval'[q].status \in Decision \union {"cancelled"}
            /\ approval'[q].choice \in {"approved", "rejected"}
            /\ approval'[q].status = "approved" => approval'[q].choice = "approved"
            /\ approval'[q].status = "cancelled" => run[q].cancelRequested
         \/ /\ approval'[q].choice = approval[q].choice
            /\ approval[q].choice # "none" /\ approval'[q].lapsed
            /\ approval'[q].status = "expired"
         \/ \E p \in Api :
              /\ DisableWrite(p) \/ CancelWrite(p)
              /\ q \in api[p].seen /\ approval'[q].status = Verdict(p)
              /\ approval'[q].choice = approval[q].choice
<1> DEFINE Moved ==
      \/ approval'[q] = approval[q]
      \/ /\ approval'[q].status = approval[q].status
         /\ approval'[q].choice = approval[q].choice /\ approval'[q].lapsed
      \/ /\ approval[q].status = "none" /\ approval'[q].status = "pending"
         /\ approval'[q].choice = approval[q].choice
      \/ /\ approval[q].status = "pending"
         /\ approval'[q].status \in Decision \union {"cancelled"}
         /\ approval'[q].choice \in {"approved", "rejected"}
         /\ approval'[q].status = "approved" => approval'[q].choice = "approved"
         /\ approval'[q].status = "cancelled" => run[q].cancelRequested
      \/ /\ approval'[q].choice = approval[q].choice
         /\ approval[q].choice # "none" /\ approval'[q].lapsed
         /\ approval'[q].status = "expired"
      \/ \E p \in Api :
           /\ DisableWrite(p) \/ CancelWrite(p)
           /\ q \in api[p].seen /\ approval'[q].status = Verdict(p)
           /\ approval'[q].choice = approval[q].choice
<1>0. PICK a \in ApprovalRow : a = approval[q]
  BY DEF TypeInv, TypeOK
<1>1. CASE approval' = approval
  BY <1>1
<1>2. ASSUME NEW r \in Run, NEW d \in {"approved", "rejected"}, Decide(r, d)
      PROVE  Moved
  <2>1. approval[r].status = "pending"
    BY <1>2 DEF Decide, Open
  <2>2. CASE q # r
    BY <1>2, <2>2 DEF Decide, TypeInv, TypeOK
  <2>3. CASE q = r
    <3> DEFINE status ==
          IF run[r].cancelRequested THEN "cancelled"
          ELSE IF d = "approved" /\ grant # "enabled" THEN "disabled"
          ELSE IF approval[r].lapsed THEN "expired" ELSE d
    <3>1. approval' = [approval EXCEPT ![r] =
                         [a EXCEPT !.status = status, !.choice = d]]
      BY <1>0, <1>2, <2>3 DEF Decide
    <3>2. /\ status \in Decision \union {"cancelled"}
          /\ status = "approved" => d = "approved"
          /\ status = "cancelled" => run[r].cancelRequested
      BY DEF Decision
    <3> HIDE DEF status
    <3>3. /\ [a EXCEPT !.status = status, !.choice = d].choice = d
          /\ [a EXCEPT !.status = status, !.choice = d].status = status
      BY <1>0 DEF ApprovalRow
    <3>4. approval'[q].choice = d /\ approval'[q].status = status
      BY <2>3, <3>1, <3>3 DEF TypeInv, TypeOK
    <3> QED
      BY <2>1, <2>3, <3>2, <3>4
  <2> QED
    BY <2>2, <2>3
<1>3. ASSUME NEW p \in Api, DisableWrite(p) \/ CancelWrite(p) PROVE Moved
  <2>1. WriteSeen(p, Verdict(p)) /\ Verdict(p) \in {"disabled", "cancelled"}
    BY <1>3 DEF DisableWrite, CancelWrite, Verdict
  <2>2. /\ approval'[q].choice = approval[q].choice
        /\ q \in api[p].seen => approval'[q].status = Verdict(p)
        /\ q \notin api[p].seen => approval'[q] = approval[q]
    BY <2>1, SeenRows
  <2> QED
    BY <1>3, <2>2
<1>4. ASSUME NEW p \in Api, DisableRead(p) \/ \E r \in Run : CancelRead(p, r)
      PROVE  approval' = approval
  BY <1>4 DEF DisableRead, CancelRead, rows
<1>5. ASSUME NEW r \in Run, Lapse(r) PROVE Moved
  <2>1. /\ [a EXCEPT !.lapsed = TRUE].choice = a.choice
        /\ [a EXCEPT !.lapsed = TRUE].status = a.status
        /\ [a EXCEPT !.lapsed = TRUE].lapsed
    BY <1>0 DEF ApprovalRow
  <2>2. approval'[q] = IF q = r THEN [a EXCEPT !.lapsed = TRUE] ELSE a
    BY <1>0, <1>5 DEF Lapse, TypeInv, TypeOK
  <2> QED
    BY <1>0, <2>1, <2>2
<1>6. ASSUME NEW w \in Worker, Prepare(w) PROVE Moved
  <2>1. /\ [a EXCEPT !.status = "pending"].choice = a.choice
        /\ [a EXCEPT !.status = "pending"].status = "pending"
    BY <1>0 DEF ApprovalRow
  <2>2. wk[w].run \in Run
    BY <1>6 DEF Prepare, Busy, TypeInv, BusyHasRun
  <2>3. CASE UNCHANGED approval
    BY <2>3
  <2>4. CASE approval' = [approval EXCEPT ![wk[w].run] =
                 IF @.status = "none" THEN [@ EXCEPT !.status = "pending"] ELSE @]
    <3>1. \/ approval'[q] = a
          \/ /\ a.status = "none"
             /\ approval'[q] = [a EXCEPT !.status = "pending"]
      BY <1>0, <2>2, <2>4 DEF TypeInv, TypeOK
    <3> QED
      BY <1>0, <2>1, <3>1
  <2> QED
    BY <1>6, <2>3, <2>4 DEF Prepare
<1>7. ASSUME NEW w \in Worker, Execute(w) PROVE Moved
  <2> DEFINE r == wk[w].run
  <2>1. r \in Run
    BY <1>7 DEF Execute, Busy, TypeInv, BusyHasRun
  <2>2. \/ UNCHANGED approval
        \/ Mark(r, "expired") /\ approval[r].choice # "none" /\ approval[r].lapsed
    BY <1>7 DEF Execute, rows
  <2>3. CASE q # r
    BY <2>1, <2>2, <2>3 DEF Mark, TypeInv, TypeOK
  <2>4. CASE q = r /\ Mark(r, "expired") /\ approval[r].choice # "none" /\ approval[r].lapsed
    <3>1. /\ [a EXCEPT !.status = "expired"].choice = a.choice
          /\ [a EXCEPT !.status = "expired"].lapsed = a.lapsed
          /\ [a EXCEPT !.status = "expired"].status = "expired"
      BY <1>0 DEF ApprovalRow
    <3>2. approval'[q] = [a EXCEPT !.status = "expired"]
      BY <1>0, <2>1, <2>4 DEF Mark, TypeInv, TypeOK
    <3> QED
      BY <1>0, <2>4, <3>1, <3>2
  <2> QED
    BY <1>1, <2>2, <2>3, <2>4
<1>8. ASSUME NEW w \in Worker,
             \/ Step(w) /\ ~Prepare(w) /\ ~Execute(w)
             \/ Raise(w) \/ Crash(w) \/ \E r \in Run : Claim(w, r)
      PROVE  approval' = approval
  BY <1>8 DEF Step, Enter, Begin, Note, Revalidate, Send, FailedCall, Record,
              Project, Research, Check, Final, Fail, End, Raise, Crash, Claim, rows
<1>9. ASSUME NEW r \in Run, Stop(r) \/ Expire(r) PROVE approval' = approval
  BY <1>9 DEF Stop, Expire, rows
<1>10. CASE Enable \/ UNCHANGED vars
  BY <1>1, <1>10 DEF Enable, vars, rows
<1> QED
  BY <1>1, <1>2, <1>3, <1>4, <1>5, <1>6, <1>7, <1>8, <1>9, <1>10, Zenon DEF Next

(* What the moves of an approval keep: a user's choice, what is settled,   *)
(* and that only a user approves.                                          *)
LEMMA ApprovalStep ==
  ASSUME TypeInv, ChoiceAgrees, [Next]_vars, NEW q \in Run
  PROVE  /\ approval[q].choice # "none" =>
              approval'[q].choice = approval[q].choice
         /\ Settled(q) =>
              \/ approval'[q].status \in {approval[q].status, "expired"}
              \/ \E p \in Api : /\ q \in api[p].seen
                                /\ approval'[q].status = Verdict(p)
         /\ approval'[q].status = "approved" => approval'[q].choice = "approved"
         /\ approval'[q].choice # "none" => Settled(q)'
<1>1. /\ approval[q].status = "approved" => approval[q].choice = "approved"
      /\ approval[q].choice # "none" => Settled(q)
  BY DEF ChoiceAgrees
<1>2. \A p \in Api : Verdict(p) \in {"disabled", "cancelled"}
  BY DEF Verdict
<1> QED
  BY <1>1, <1>2, ApprovalMoves DEF Settled, Decision

(* No transaction reads a settled approval. *)
LEMMA SeenStep ==
  ASSUME TypeInv, [Next]_vars, NEW q \in Run, Settled(q), NEW p \in Api,
         q \in api'[p].seen
  PROVE  q \in api[p].seen
<1>1. ASSUME NEW o \in Api, DisableRead(o) PROVE q \in api[p].seen
  BY <1>1 DEF DisableRead, Settled, TypeInv, TypeOK
<1>2. ASSUME NEW o \in Api, NEW r \in Run, CancelRead(o, r)
      PROVE  q \in api[p].seen
  BY <1>2 DEF CancelRead, Settled, TypeInv, TypeOK
<1>3. ASSUME NEW o \in Api, Over(o) PROVE q \in api[p].seen
  BY <1>3 DEF Over, IdleApi, TypeInv, TypeOK
<1>4. CASE api' = api
  BY <1>4
<1>5. ASSUME NEW r \in Run,
             \/ \E d \in {"approved", "rejected"} : Decide(r, d)
             \/ Stop(r) \/ Lapse(r) \/ Expire(r)
      PROVE  api' = api
  BY <1>5 DEF Decide, Stop, Lapse, Expire
<1>6. CASE Enable \/ UNCHANGED vars
  BY <1>4, <1>6 DEF Enable, vars
<1>7. ASSUME NEW w \in Worker,
             Step(w) \/ Raise(w) \/ Crash(w) \/ \E r \in Run : Claim(w, r)
      PROVE  api' = api
  BY <1>7 DEF Step, Enter, Begin, Prepare, Note, Execute, Revalidate, Send,
              FailedCall, Record, Project, Research, Check, Final, Fail, End,
              Raise, Crash, Claim
<1>8. ASSUME NEW o \in Api, DisableWrite(o) \/ CancelWrite(o) PROVE Over(o)
  BY <1>8 DEF DisableWrite, CancelWrite
<1> QED
  BY <1>1, <1>2, <1>3, <1>4, <1>5, <1>6, <1>7, <1>8, Zenon DEF Next

(* A tool run begins with an approval, for a run that is not stopped, and  *)
(* ends without a result if its run was stopped.                           *)
LEMMA ToolRunStep ==
  ASSUME IInv, [Next]_vars, NEW q \in Run, toolRun'[q] # toolRun[q]
  PROVE  \/ /\ toolRun[q] = "none" /\ ~run[q].cancelRequested
            /\ approval[q].status = "approved"
         \/ /\ toolRun[q] = "running"
            /\ run[q].cancelRequested => toolRun'[q] \in {"cancelled", "failed"}
<1> USE DEF IInv
<1>1. ASSUME NEW w \in Worker, Execute(w)
      PROVE  /\ toolRun[q] = "none" /\ ~run[q].cancelRequested
             /\ approval[q].status = "approved"
  BY <1>1 DEF Execute, AlreadyRun, Consented, rows, TypeInv, TypeOK
<1>2. ASSUME NEW w \in Worker, FailedCall(w) \/ Record(w)
      PROVE  /\ toolRun[q] = "running"
             /\ run[q].cancelRequested => toolRun'[q] \in {"cancelled", "failed"}
  <2>1. q = wk[w].run
    BY <1>2 DEF FailedCall, Record, TypeInv, TypeOK
  <2>2. toolRun[q] = "running"
    BY <1>2, <2>1 DEF FailedCall, Record, CallIsClaimed, Answering
  <2> QED
    BY <1>2, <2>1, <2>2 DEF FailedCall, Record, ResultOf, TypeInv, TypeOK
<1>3. CASE UNCHANGED toolRun
  BY <1>3
<1>4. ASSUME NEW w \in Worker,
             \/ Step(w) /\ ~Execute(w) /\ ~FailedCall(w) /\ ~Record(w)
             \/ Raise(w) \/ Crash(w) \/ \E r \in Run : Claim(w, r)
      PROVE  UNCHANGED toolRun
  BY <1>4 DEF Step, Enter, Begin, Prepare, Note, Revalidate, Send, Project,
              Research, Check, Final, Fail, End, Raise, Crash, Claim, rows
<1>5. ASSUME NEW r \in Run,
             \/ \E d \in {"approved", "rejected"} : Decide(r, d)
             \/ Stop(r) \/ Lapse(r) \/ Expire(r)
      PROVE  UNCHANGED toolRun
  BY <1>5 DEF Decide, Stop, Lapse, Expire, rows
<1>6. CASE Enable \/ (\E p \in Api : ApiStep(p)) \/ UNCHANGED vars
  BY <1>3, <1>6, ApiFrame DEF Enable, vars, rows
<1> QED
  BY <1>1, <1>2, <1>3, <1>4, <1>5, <1>6 DEF Next, ApiStep

LEMMA ApprovedStep == IInv /\ [Next]_vars => OnlyApprovedRuns'
<1> SUFFICES ASSUME IInv, [Next]_vars, NEW q \in Run, toolRun'[q] # "none"
             PROVE  /\ approval'[q].choice = "approved"
                    /\ approval'[q].status \in {"approved", "expired",
                                                "disabled", "cancelled"}
  BY DEF OnlyApprovedRuns
<1>0. TypeInv /\ ChoiceAgrees /\ OnlyApprovedRuns
  BY DEF IInv
<1>1. /\ approval[q].choice = "approved"
      /\ approval[q].status \in {"approved", "expired", "disabled", "cancelled"}
  BY <1>0, ToolRunStep DEF ChoiceAgrees, OnlyApprovedRuns
<1>2. \A p \in Api : Verdict(p) \in {"disabled", "cancelled"}
  BY DEF Verdict
<1> QED
  BY <1>0, <1>1, <1>2, ApprovalStep DEF Settled

-----------------------------------------------------------------------------
(* Waiting runs *)

(* An approval becomes pending as its run comes to wait, and an open run   *)
(* leaves its wait as the approval is settled.                             *)
LEMMA PendingStep ==
  ASSUME IInv, [Next]_vars, NEW q \in Run, approval'[q].status = "pending"
  PROVE  run'[q].status \in EndStatus \union {"waiting_approval"}
<1> DEFINE Waits == run'[q].status \in EndStatus \union {"waiting_approval"}
<1>0. /\ TypeInv
      /\ approval[q].status = "pending" =>
           run[q].status \in EndStatus \union {"waiting_approval"}
  BY DEF IInv, PendingMeansWaiting, Ended
<1>1. PICK row \in RunRow, a \in ApprovalRow : row = run[q] /\ a = approval[q]
  BY <1>0 DEF TypeInv, TypeOK
<1>2. CASE UNCHANGED <<run, approval>>
  BY <1>0, <1>2
<1>3. ASSUME NEW r \in Run, NEW d \in {"approved", "rejected"}, Decide(r, d)
      PROVE  Waits
  <2>1. CASE q # r
    BY <1>0, <1>3, <2>1 DEF Decide, TypeInv, TypeOK
  <2>2. CASE q = r
    <3> DEFINE status ==
          IF run[r].cancelRequested THEN "cancelled"
          ELSE IF d = "approved" /\ grant # "enabled" THEN "disabled"
          ELSE IF approval[r].lapsed THEN "expired" ELSE d
    <3>1. status # "pending"
      OBVIOUS
    <3>2. approval' = [approval EXCEPT ![r] =
                         [a EXCEPT !.status = status, !.choice = d]]
      BY <1>1, <1>3, <2>2 DEF Decide
    <3> HIDE DEF status
    <3>3. [a EXCEPT !.status = status, !.choice = d].status = status
      BY <1>1 DEF ApprovalRow
    <3> QED
      BY <1>0, <2>2, <3>1, <3>2, <3>3 DEF TypeInv, TypeOK
  <2> QED
    BY <2>1, <2>2
<1>4. ASSUME NEW p \in Api, DisableWrite(p) \/ CancelWrite(p) PROVE Waits
  <2>1. WriteSeen(p, "disabled") \/ WriteSeen(p, "cancelled")
    BY <1>4 DEF DisableWrite, CancelWrite
  <2>2. q \notin api[p].seen /\ approval'[q] = approval[q]
    BY <1>0, <2>1, SeenRows
  <2>3. run'[q] = run[q]
    BY <1>4, <2>2 DEF DisableWrite, CancelWrite
  <2> QED
    BY <1>0, <2>2, <2>3
<1>5. ASSUME NEW r \in Run, Stop(r) PROVE Waits
  <2>1. [row EXCEPT !.status = "cancelled", !.cancelRequested = TRUE].status
          = "cancelled"
    BY <1>1 DEF RunRow
  <2>2. run'[q] = IF q = r THEN [row EXCEPT !.status = "cancelled",
                                            !.cancelRequested = TRUE] ELSE row
    BY <1>0, <1>1, <1>5 DEF Stop, TypeInv, TypeOK
  <2> QED
    BY <1>0, <1>1, <1>5, <2>1, <2>2 DEF Stop, rows, EndStatus
<1>6. ASSUME NEW p \in Api, DisableRead(p) \/ \E r \in Run : CancelRead(p, r)
      PROVE  UNCHANGED <<run, approval>>
  BY <1>6 DEF DisableRead, CancelRead, rows
<1>7. ASSUME NEW r \in Run, Lapse(r) PROVE Waits
  <2>1. [a EXCEPT !.lapsed = TRUE].status = a.status
    BY <1>1 DEF ApprovalRow
  <2>2. approval'[q] = IF q = r THEN [a EXCEPT !.lapsed = TRUE] ELSE a
    BY <1>0, <1>1, <1>7 DEF Lapse, TypeInv, TypeOK
  <2> QED
    BY <1>0, <1>1, <1>7, <2>1, <2>2 DEF Lapse
<1>8. ASSUME NEW r \in Run, Expire(r) PROVE Waits
  <2>1. [row EXCEPT !.lease = "expired"].status = row.status
    BY <1>1 DEF RunRow
  <2>2. run'[q] = IF q = r THEN [row EXCEPT !.lease = "expired"] ELSE row
    BY <1>0, <1>1, <1>8 DEF Expire, TypeInv, TypeOK
  <2> QED
    BY <1>0, <1>1, <1>8, <2>1, <2>2 DEF Expire, rows
<1>9. ASSUME NEW w \in Worker, NEW r \in Run, Claim(w, r) PROVE Waits
  <2>1. q # r
    BY <1>0, <1>9 DEF Claim, rows, EndStatus
  <2> QED
    BY <1>0, <1>9, <2>1 DEF Claim, rows, TypeInv, TypeOK
<1>10. ASSUME NEW w \in Worker, Prepare(w) PROVE Waits
  <2>1. wk[w].run \in Run
    BY <1>0, <1>10 DEF Prepare, Busy, TypeInv, BusyHasRun
  <2>2. CASE UNCHANGED <<run, approval>>
    BY <1>2, <2>2
  <2>3. CASE q # wk[w].run
    BY <1>0, <1>10, <2>1, <2>3 DEF Prepare, TypeInv, TypeOK
  <2>4. CASE /\ q = wk[w].run
             /\ run' = [run EXCEPT ![q] = [row EXCEPT !.status = "waiting_approval"]]
    <3>1. [row EXCEPT !.status = "waiting_approval"].status = "waiting_approval"
      BY <1>1 DEF RunRow
    <3> QED
      BY <1>0, <2>4, <3>1 DEF TypeInv, TypeOK
  <2> QED
    BY <1>1, <1>10, <2>2, <2>3, <2>4 DEF Prepare
<1>11. ASSUME NEW w \in Worker, Execute(w) PROVE Waits
  <2>1. wk[w].run \in Run
    BY <1>0, <1>11 DEF Execute, Busy, TypeInv, BusyHasRun
  <2>2. /\ UNCHANGED run
        /\ UNCHANGED approval \/ Mark(wk[w].run, "expired")
    BY <1>11 DEF Execute, rows
  <2> QED
    BY <1>0, <2>1, <2>2, MarkFrame DEF ApprovalStatus, Decision
<1>12. ASSUME NEW w \in Worker, Final(w) \/ Fail(w) PROVE Waits
  <2>1. PICK status \in EndStatus : End(w, status)
    BY <1>12 DEF Final, Fail, EndStatus
  <2>2. [row EXCEPT !.status = status, !.owner = Nobody, !.lease = "none"].status
          = status
    BY <1>1 DEF RunRow
  <2>3. \/ run'[q] = row
        \/ run'[q] = [row EXCEPT !.status = status, !.owner = Nobody,
                                 !.lease = "none"]
    BY <1>0, <1>1, <2>1 DEF End, TypeInv, TypeOK
  <2> QED
    BY <1>0, <1>1, <2>1, <2>2, <2>3 DEF End, rows
<1>13. ASSUME NEW w \in Worker,
              \/ Step(w) /\ ~Prepare(w) /\ ~Execute(w) /\ ~Final(w) /\ ~Fail(w)
              \/ Raise(w) \/ Crash(w)
       PROVE  UNCHANGED <<run, approval>>
  BY <1>13 DEF Step, Enter, Begin, Note, Revalidate, Send, FailedCall, Record,
               Project, Research, Check, Raise, Crash, rows
<1>14. CASE Enable \/ UNCHANGED vars
  BY <1>2, <1>14 DEF Enable, vars, rows
<1> QED
  BY <1>2, <1>3, <1>4, <1>5, <1>6, <1>7, <1>8, <1>9, <1>10, <1>11, <1>12,
     <1>13, <1>14 DEF Next

-----------------------------------------------------------------------------
(* The theorems *)

LEMMA InvInit == Init => IInv
<1>1. Init => /\ CallIsClaimed /\ SentOnce /\ OnlyApprovedRuns
              /\ PendingMeansWaiting /\ ChoiceAgrees
  BY IdleRow DEF Init, CallIsClaimed, Asking, Answering, SentOnce,
                 OnlyApprovedRuns, PendingMeansWaiting, ChoiceAgrees
<1> QED
  BY <1>1, TypeInit DEF IInv

LEMMA InvStep == IInv /\ [Next]_vars => IInv'
<1> SUFFICES ASSUME IInv, [Next]_vars PROVE IInv'
  OBVIOUS
<1>1. TypeInv'
  BY TypeStep DEF IInv
<1>2. CallIsClaimed' /\ SentOnce'
  BY CallStep
<1>3. OnlyApprovedRuns'
  BY ApprovedStep
<1>4. PendingMeansWaiting'
  BY PendingStep DEF PendingMeansWaiting, Ended
<1>5. ChoiceAgrees'
  BY ApprovalStep DEF IInv, ChoiceAgrees
<1> QED
  BY <1>1, <1>2, <1>3, <1>4, <1>5 DEF IInv

THEOREM InvHolds == Spec => []IInv
BY InvInit, InvStep, PTL DEF Spec

(* A run's call is sent at most once, and its tool run's row says whether  *)
(* it was: no takeover and no crash repeats it.                            *)
THEOREM CallsAreSentOnce == Spec => []SentOnce
<1>1. IInv => SentOnce
  BY DEF IInv
<1> QED
  BY <1>1, InvHolds, PTL

(* No call gets a tool run without its user's approval. *)
THEOREM CallsAreApproved == Spec => []OnlyApprovedRuns
<1>1. IInv => OnlyApprovedRuns
  BY DEF IInv
<1> QED
  BY <1>1, InvHolds, PTL

(* While a decision is pending nobody can claim its run. *)
THEOREM PendingRunsWait == Spec => []PendingMeansWaiting
<1>1. IInv => PendingMeansWaiting
  BY DEF IInv
<1> QED
  BY <1>1, InvHolds, PTL

(* Only a transaction that read an approval before it was settled writes   *)
(* over it; otherwise it changes no more, but that it may expire.          *)
THEOREM DecisionsStand == Spec => DecisionStands
<1>1. IInv /\ [Next]_vars =>
        [\A r \in Run :
           /\ Settled(r) =>
                /\ \/ approval'[r].status \in {approval[r].status, "expired"}
                   \/ \E p \in Api : /\ r \in api[p].seen
                                     /\ approval'[r].status = Verdict(p)
                /\ \A p \in Api : r \in api'[p].seen => r \in api[p].seen
           /\ approval[r].choice # "none" =>
                approval'[r].choice = approval[r].choice]_vars
  BY ApprovalStep, SeenStep DEF IInv
<1> QED
  BY <1>1, InvHolds, PTL DEF Spec, DecisionStands

(* A stopped run starts no tool run and keeps no result of one. *)
THEOREM StopKeepsNoResult == Spec => StoppedKeepsNoResult
<1>1. IInv /\ [Next]_vars =>
        [\A r \in Run :
           run[r].cancelRequested /\ toolRun'[r] # toolRun[r] =>
             toolRun'[r] \in {"cancelled", "failed"}]_vars
  BY ToolRunStep
<1> QED
  BY <1>1, InvHolds, PTL DEF Spec, StoppedKeepsNoResult

(* A call is sent once, by its user's leave, and waits for it.             *)
THEOREM CallsAreHeld == Spec => []CallsAreSafe
<1>1. TypeOK /\ SentOnce /\ OnlyApprovedRuns /\ PendingMeansWaiting => CallsAreSafe
  BY DEF CallsAreSafe
<1> QED
  BY <1>1, ToolTypesCorrect, CallsAreSentOnce, CallsAreApproved, PendingRunsWait, PTL

(* Neither a decision nor a stop is undone by what executes the run.       *)
THEOREM DecisionsAreKept == Spec => DecisionsHold
BY DecisionsStand, StopKeepsNoResult DEF DecisionsHold

-----------------------------------------------------------------------------
(* What a run fails for *)

(* A worker resumes with what was decided, unless that expired or was      *)
(* overwritten since.                                                      *)
Remembers(a, status) ==
  \/ a.status \in {status, "disabled", "cancelled"}
  \/ a.status = "expired" /\ a.lapsed

Resumed(w) ==
  /\ wk[w].pc \in Busy /\ wk[w].resume # "none" =>
       Remembers(approval[wk[w].run], wk[w].resume)
  /\ wk[w].pc = "execute" => wk[w].resume # "none"
  /\ wk[w].pc \in Busy /\ wk[w].answer => wk[w].pc \in {"check", "final", "fail"}

DecidedByUser ==
  \A r \in Run : approval[r].status \in {"approved", "rejected", "expired"} =>
    approval[r].choice # "none"

StoppedIsOver ==
  \A r \in Run : run[r].cancelRequested => run[r].status = "cancelled"

(* Only approvals of stopped runs are cancelled. *)
CancelsStopped ==
  /\ \A r \in telling : run[r].cancelRequested
  /\ \A p \in Api : api[p].doing = "cancel" =>
       \A r \in api[p].seen : run[r].cancelRequested

CancelledIsStopped ==
  \A r \in Run : approval[r].status = "cancelled" => run[r].cancelRequested

(* No worker of run r was lost, it was not stopped and nothing failed it. *)
Clean(r) ==
  /\ stalls = 0 /\ crashes = 0 /\ r \notin faulted
  /\ ~run[r].cancelRequested

(* It fails for nothing but that its approval was disabled. *)
Unfailed(r) ==
  /\ \A w \in Worker : Executing(w, r) => wk[w].pc # "failed_call"
  /\ approval[r].status # "disabled" =>
       /\ run[r].status # "failed"
       /\ \A w \in Worker : Executing(w, r) => wk[w].pc # "fail"

(* A running run has its owner, whose lease is good. *)
Driven(r) ==
  run[r].status = "running" =>
    run[r].lease = "live" /\ \E w \in Worker : run[r].owner = w /\ Executing(w, r)

(* On its way to the end of a graph that was interrupted. *)
Leaving(w) == wk[w].pc = "note" \/ (wk[w].pc = "check" /\ ~wk[w].answer)

(* Who is not the owner is leaving, and who is leaving is not needed. *)
Trails(r) ==
  \A w \in Worker : Executing(w, r) =>
    /\ Leaving(w) \/ (run[r].owner = w /\ run[r].status = "running")
    /\ Leaving(w) =>
         run[r].status = "waiting_approval" \/ run[r].owner # w \/ Ended(r)

StaysOpen(r) == approval[r].status = "pending" => ~Ended(r)

Sole(w, r) == \A v \in Worker : Executing(v, r) => v = w

(* Nothing was asked yet, or it is decided and the decision can be read. *)
Unasked(r) == approval[r].status = "none" /\ ckpt[r] = "start"

Readable(r) == approval[r].status \in Decision /\ call[r] \in Decision

Resumable(r) ==
  /\ run[r].status = "queued" =>
       \/ Unasked(r) /\ \A w \in Worker : ~Executing(w, r)
       \/ Readable(r)
  /\ \A w \in Worker : Executing(w, r) /\ ~Ended(r) =>
       /\ wk[w].pc = "enter" => (Unasked(r) /\ Sole(w, r)) \/ Readable(r)
       /\ wk[w].pc = "begin" =>
            wk[w].resume # "none" \/ (ckpt[r] = "start" /\ Sole(w, r))

Good(r) ==
  Unfailed(r) /\ Driven(r) /\ Trails(r) /\ StaysOpen(r) /\ Resumable(r)

FInv ==
  /\ IInv /\ (\A w \in Worker : Resumed(w)) /\ DecidedByUser
  /\ StoppedIsOver /\ CancelsStopped /\ CancelledIsStopped
  /\ \A r \in Run : Clean(r) => Good(r)

LEMMA UserStaysNamed ==
  ASSUME TypeInv, DecidedByUser, [Next]_vars
  PROVE  DecidedByUser'
<1> SUFFICES ASSUME NEW q \in Run,
                    approval'[q].status \in {"approved", "rejected", "expired"}
             PROVE  approval'[q].choice # "none"
  BY DEF DecidedByUser
<1>1. \A p \in Api : Verdict(p) \in {"disabled", "cancelled"}
  BY DEF Verdict
<1> QED
  BY <1>1, ApprovalMoves DEF DecidedByUser

(* A stopped run is over for good. *)
LEMMA StopSticks ==
  ASSUME TypeInv, StoppedIsOver, [Next]_vars, NEW q \in Run
  PROVE  /\ run[q].cancelRequested => run'[q] = run[q]
         /\ run'[q].cancelRequested => run'[q].status = "cancelled"
<1> DEFINE Sticks == /\ run[q].cancelRequested => run'[q] = run[q]
                     /\ run'[q].cancelRequested => run'[q].status = "cancelled"
<1>0. PICK row \in RunRow : row = run[q]
  BY DEF TypeInv, TypeOK
<1>1. CASE run'[q] = run[q]
  BY <1>1 DEF StoppedIsOver
<1>2. ASSUME run'[q].cancelRequested = run[q].cancelRequested, ~run[q].cancelRequested
      PROVE  Sticks
  BY <1>2
<1>3. \A s \in EndStatus \union {"queued", "running", "waiting_approval"} :
        /\ [row EXCEPT !.status = s].cancelRequested = row.cancelRequested
        /\ [row EXCEPT !.status = s].status = s
        /\ row.status = s => [row EXCEPT !.status = s] = row
        /\ \A o \in Worker \union {Nobody} : \A l \in {"none", "live"} :
             [row EXCEPT !.status = s, !.owner = o, !.lease = l].cancelRequested
               = row.cancelRequested
        /\ [row EXCEPT !.status = s, !.cancelRequested = TRUE].status = s
  BY <1>0 DEF RunRow, EndStatus
<1>4. ASSUME NEW r \in Run, NEW d \in {"approved", "rejected"}, Decide(r, d)
      PROVE  Sticks
  <2>1. CASE r # q
    BY <1>1, <1>4, <2>1 DEF Decide, TypeInv, TypeOK
  <2>2. CASE r = q /\ row.cancelRequested
    <3>1. run'[q] = [row EXCEPT !.status = "cancelled"]
      BY <1>0, <1>4, <2>2 DEF Decide, TypeInv, TypeOK
    <3>2. row.status = "cancelled"
      BY <1>0, <2>2 DEF StoppedIsOver
    <3> QED
      BY <1>0, <1>1, <1>3, <3>1, <3>2 DEF EndStatus
  <2>3. CASE r = q /\ ~row.cancelRequested
    <3>1. run'[q] = [row EXCEPT !.status = "queued", !.owner = Nobody,
                                !.lease = "none"]
      BY <1>0, <1>4, <2>3 DEF Decide, Requeued, TypeInv, TypeOK
    <3> QED
      BY <1>0, <1>2, <1>3, <2>3, <3>1
  <2> QED
    BY <1>0, <2>1, <2>2, <2>3
<1>5. ASSUME NEW p \in Api, ApiStep(p) PROVE Sticks
  <2>1. \/ run'[q] = run[q]
        \/ /\ ~row.cancelRequested
           /\ run'[q] = [row EXCEPT !.status = "queued", !.owner = Nobody,
                                    !.lease = "none"]
    BY <1>0, <1>5 DEF ApiStep, DisableRead, DisableWrite, CancelRead, CancelWrite,
                      Requeued
  <2>2. CASE run'[q] = run[q]
    BY <1>1, <2>2
  <2>3. CASE /\ ~row.cancelRequested
             /\ run'[q] = [row EXCEPT !.status = "queued", !.owner = Nobody,
                                      !.lease = "none"]
    BY <1>0, <1>2, <1>3, <2>3
  <2> QED
    BY <2>1, <2>2, <2>3
<1>6. ASSUME NEW r \in Run, Stop(r) PROVE Sticks
  <2>1. CASE r # q
    BY <1>1, <1>6, <2>1 DEF Stop, TypeInv, TypeOK
  <2>2. CASE r = q
    <3>1. ~row.cancelRequested
      BY <1>0, <1>6, <2>2 DEF Stop, Ended, EndStatus, StoppedIsOver
    <3>2. run'[q] = [row EXCEPT !.status = "cancelled", !.cancelRequested = TRUE]
      BY <1>0, <1>6, <2>2 DEF Stop, TypeInv, TypeOK
    <3> QED
      BY <1>0, <1>3, <3>1, <3>2 DEF EndStatus
  <2> QED
    BY <2>1, <2>2
<1>7. ASSUME NEW r \in Run, Lapse(r) \/ Expire(r) PROVE Sticks
  <2>1. CASE run'[q] = run[q]
    BY <1>1, <2>1
  <2>2. CASE Expire(r) /\ r = q
    <3>1. ~row.cancelRequested
      BY <1>0, <2>2 DEF Expire, StoppedIsOver
    <3>2. run'[q] = [row EXCEPT !.lease = "expired"]
      BY <1>0, <2>2 DEF Expire, TypeInv, TypeOK
    <3>3. [row EXCEPT !.lease = "expired"].cancelRequested = row.cancelRequested
      BY <1>0 DEF RunRow
    <3> QED
      BY <1>0, <1>2, <3>1, <3>2, <3>3
  <2> QED
    BY <1>7, <2>1, <2>2 DEF Lapse, Expire, TypeInv, TypeOK
<1>8. ASSUME NEW w \in Worker, NEW r \in Run, Claim(w, r) PROVE Sticks
  <2>1. CASE r # q
    BY <1>1, <1>8, <2>1 DEF Claim, TypeInv, TypeOK
  <2>2. CASE r = q
    <3>1. ~row.cancelRequested
      BY <1>0, <1>8, <2>2 DEF Claim
    <3>2. run'[q] = [row EXCEPT !.status = "running", !.owner = w, !.lease = "live"]
      BY <1>0, <1>8, <2>2 DEF Claim, TypeInv, TypeOK
    <3> QED
      BY <1>0, <1>2, <1>3, <3>1, <3>2
  <2> QED
    BY <2>1, <2>2
<1>9. ASSUME NEW w \in Worker, Prepare(w) PROVE Sticks
  <2>1. CASE run'[q] = run[q]
    BY <1>1, <2>1
  <2>2. CASE run'[q] # run[q]
    <3>1. /\ ~row.cancelRequested
          /\ run'[q] = [row EXCEPT !.status = "waiting_approval"]
      BY <1>0, <1>9, <2>2 DEF Prepare, TypeInv, TypeOK
    <3> QED
      BY <1>0, <1>2, <1>3, <3>1
  <2> QED
    BY <2>1, <2>2
<1>10. ASSUME NEW w \in Worker, Final(w) \/ Fail(w) PROVE Sticks
  <2>1. PICK status \in {"completed", "failed"} : End(w, status)
    BY <1>10 DEF Final, Fail
  <2>2. CASE run'[q] = run[q]
    BY <1>1, <2>2
  <2>3. CASE run'[q] # run[q]
    <3>1. /\ ~Ended(q)
          /\ run'[q] = [row EXCEPT !.status = status, !.owner = Nobody,
                                   !.lease = "none"]
      BY <1>0, <2>1, <2>3 DEF End, Holds, TypeInv, TypeOK
    <3>2. ~row.cancelRequested
      BY <1>0, <3>1 DEF Ended, EndStatus, StoppedIsOver
    <3> QED
      BY <1>0, <1>2, <1>3, <3>1, <3>2 DEF EndStatus
  <2> QED
    BY <2>2, <2>3
<1>11. ASSUME NEW w \in Worker,
              \/ Step(w) /\ ~Prepare(w) /\ ~Final(w) /\ ~Fail(w)
              \/ Raise(w) \/ Crash(w)
       PROVE  run' = run
  BY <1>11 DEF Step, Enter, Begin, Note, Execute, Revalidate, Send, FailedCall,
               Record, Project, Research, Check, Raise, Crash
<1>12. CASE Enable \/ UNCHANGED vars
  BY <1>1, <1>12 DEF Enable, vars
<1> QED
  BY <1>1, <1>4, <1>5, <1>6, <1>7, <1>8, <1>9, <1>10, <1>11, <1>12, Zenon
     DEF Next, ApiStep

(* So what is cancelled has been stopped. *)
LEMMA CancelsStay ==
  ASSUME TypeInv, StoppedIsOver, CancelsStopped, [Next]_vars
  PROVE  CancelsStopped'
<1>0. \A r \in Run : run[r].cancelRequested => run'[r].cancelRequested
  BY StopSticks
<1>1. telling \subseteq Run /\ \A p \in Api : api[p].seen \subseteq Run
  BY DEF TypeInv, TypeOK, ApiState
<1>2. CASE telling' = telling /\ api' = api
  BY <1>0, <1>1, <1>2 DEF CancelsStopped
<1>3. ASSUME NEW r \in Run, Stop(r) PROVE CancelsStopped'
  <2>1. run'[r].cancelRequested
    <3>1. PICK row \in RunRow : row = run[r]
      BY DEF TypeInv, TypeOK
    <3>2. [row EXCEPT !.status = "cancelled",
                      !.cancelRequested = TRUE].cancelRequested
      BY <3>1 DEF RunRow
    <3> QED
      BY <1>3, <3>1, <3>2 DEF Stop, TypeInv, TypeOK
  <2> QED
    BY <1>0, <1>1, <1>3, <2>1 DEF Stop, CancelsStopped
<1>4. ASSUME NEW p \in Api, NEW r \in Run, CancelRead(p, r) PROVE CancelsStopped'
  <2>1. /\ r \in telling /\ telling' \subseteq telling
        /\ api'[p].seen \subseteq {r}
        /\ \A o \in Api \ {p} : api'[o] = api[o]
    BY <1>4 DEF CancelRead, TypeInv, TypeOK
  <2> QED
    BY <1>0, <1>1, <2>1 DEF CancelsStopped
<1>5. ASSUME NEW p \in Api, DisableRead(p) \/ DisableWrite(p) \/ CancelWrite(p)
      PROVE  CancelsStopped'
  <2>1. /\ telling' = telling
        /\ api'[p].doing # "cancel"
        /\ \A o \in Api \ {p} : api'[o] = api[o]
    BY <1>5 DEF DisableRead, DisableWrite, CancelWrite, Over, IdleApi, TypeInv, TypeOK
  <2> QED
    BY <1>0, <1>1, <2>1 DEF CancelsStopped
<1>6. ASSUME NEW r \in Run,
             \/ \E d \in {"approved", "rejected"} : Decide(r, d)
             \/ Lapse(r) \/ Expire(r)
      PROVE  telling' = telling /\ api' = api
  BY <1>6 DEF Decide, Lapse, Expire
<1>7. ASSUME NEW w \in Worker,
             Step(w) \/ Raise(w) \/ Crash(w) \/ \E r \in Run : Claim(w, r)
      PROVE  telling' = telling /\ api' = api
  BY <1>7 DEF Step, Enter, Begin, Prepare, Note, Execute, Revalidate, Send,
              FailedCall, Record, Project, Research, Check, Final, Fail, End,
              Raise, Crash, Claim
<1>8. CASE Enable \/ UNCHANGED vars
  BY <1>2, <1>8 DEF Enable, vars
<1> QED
  BY <1>2, <1>3, <1>4, <1>5, <1>6, <1>7, <1>8, Zenon DEF Next

LEMMA CancelledStay ==
  ASSUME TypeInv, StoppedIsOver, CancelsStopped, CancelledIsStopped, [Next]_vars
  PROVE  CancelledIsStopped'
<1> SUFFICES ASSUME NEW q \in Run, approval'[q].status = "cancelled"
             PROVE  run'[q].cancelRequested
  BY DEF CancelledIsStopped
<1>1. \A p \in Api : CancelWrite(p) /\ q \in api[p].seen => run[q].cancelRequested
  BY DEF CancelWrite, CancelsStopped
<1>2. \A p \in Api : DisableWrite(p) => Verdict(p) = "disabled"
  BY DEF DisableWrite, Verdict
<1>3. run[q].cancelRequested
  BY <1>1, <1>2, ApprovalMoves DEF CancelledIsStopped
<1> QED
  BY <1>3, StopSticks

(* What a run may fail for stays. *)
LEMMA CleanBefore ==
  ASSUME TypeInv, StoppedIsOver, [Next]_vars, NEW q \in Run, Clean(q)'
  PROVE  Clean(q)
<1>1. stalls \in Nat /\ crashes \in Nat
  BY DEF TypeInv, TypeOK
<1>2. /\ stalls' = stalls \/ stalls' = stalls + 1
      /\ crashes' = crashes \/ crashes' = crashes + 1
      /\ faulted \subseteq faulted'
  <2>1. ASSUME NEW w \in Worker, Step(w)
        PROVE  UNCHANGED bounds /\ faulted \subseteq faulted'
    BY <2>1 DEF Step, Enter, Begin, Prepare, Note, Execute, Revalidate, Send, FailedCall,
                Record, Project, Research, Check, Final, Fail, End
  <2>2. ASSUME NEW w \in Worker, Raise(w) \/ Crash(w) \/ \E r \in Run : Claim(w, r)
        PROVE  /\ stalls' = stalls /\ (crashes' = crashes \/ crashes' = crashes + 1)
               /\ faulted \subseteq faulted'
    BY <2>2 DEF Raise, Crash, Claim, bounds
  <2>3. ASSUME NEW r \in Run,
               \/ \E d \in {"approved", "rejected"} : Decide(r, d)
               \/ Stop(r) \/ Lapse(r) \/ Expire(r)
        PROVE  /\ crashes' = crashes /\ (stalls' = stalls \/ stalls' = stalls + 1)
               /\ faulted' = faulted
    BY <2>3 DEF Decide, Stop, Lapse, Expire, bounds
  <2>4. CASE Enable \/ (\E p \in Api : ApiStep(p)) \/ UNCHANGED vars
    BY <2>4, ApiFrame DEF Enable, vars, bounds
  <2> QED
    BY <2>1, <2>2, <2>3, <2>4 DEF Next, ApiStep, bounds
<1>3. stalls = 0 /\ crashes = 0 /\ q \notin faulted
  BY <1>1, <1>2 DEF Clean
<1>4. ~run[q].cancelRequested
  BY StopSticks DEF Clean
<1> QED
  BY <1>3, <1>4 DEF Clean

-----------------------------------------------------------------------------
(* What a worker resumes with *)

(* What a worker keeps in mind as it goes on. *)
LEMMA GotoKeeps ==
  ASSUME TypeInv, NEW w \in Worker, wk[w].pc \in Busy, NEW pc \in Busy, Goto(w, pc)
  PROVE  /\ OnlyMoves(w) /\ wk'[w].pc = pc /\ wk'[w].run = wk[w].run
         /\ wk'[w].resume = wk[w].resume /\ wk'[w].answer = wk[w].answer
<1>1. PICK s \in WorkerState : s = wk[w]
  BY DEF TypeInv, TypeOK
<1> DEFINE new == [s EXCEPT !.pc = pc]
<1>2. /\ new \in WorkerState /\ new.pc = pc /\ new.run = s.run
      /\ new.resume = s.resume /\ new.answer = s.answer
  BY <1>1 DEF WorkerState
<1>3. wk' = [wk EXCEPT ![w] = new]
  BY <1>1 DEF Goto
<1> HIDE DEF new
<1> QED
  BY <1>1, <1>2, <1>3 DEF OnlyMoves, TypeInv, TypeOK

LEMMA OutIsIdle ==
  ASSUME TypeInv, NEW w \in Worker, wk' = [wk EXCEPT ![w] = IdleWorker]
  PROVE  OnlyMoves(w) /\ wk'[w].pc = "idle"
BY MoveOut

LEMMA EnterSets ==
  ASSUME TypeInv, NEW w \in Worker, Enter(w)
  PROVE  /\ OnlyMoves(w)
         /\ \/ /\ wk'[w].pc = "begin" /\ wk'[w].run = wk[w].run
               /\ wk'[w].resume = ResumeOf(wk[w].run)
               /\ wk'[w].answer = wk[w].answer
            \/ /\ wk'[w].pc = "idle"
               /\ ~(run[wk[w].run].status = "running" /\ run[wk[w].run].owner = w)
<1>1. PICK s \in WorkerState : s = wk[w]
  BY DEF TypeInv, TypeOK
<1> DEFINE v == ResumeOf(wk[w].run)
           new == [s EXCEPT !.pc = "begin", !.resume = v]
<1>2. v \in Decision \union {"none"}
  BY DEF ResumeOf
<1>3. \/ wk' = [wk EXCEPT ![w] = new]
      \/ /\ wk' = [wk EXCEPT ![w] = IdleWorker]
         /\ ~(run[wk[w].run].status = "running" /\ run[wk[w].run].owner = w)
  BY <1>1 DEF Enter
<1> HIDE DEF v
<1>4. /\ new \in WorkerState /\ new.pc = "begin" /\ new.run = s.run
      /\ new.resume = v /\ new.answer = s.answer
  BY <1>1, <1>2 DEF WorkerState, Busy
<1> HIDE DEF new
<1>5. CASE wk' = [wk EXCEPT ![w] = new]
  BY <1>1, <1>4, <1>5 DEF OnlyMoves, TypeInv, TypeOK, v
<1> QED
  BY <1>3, <1>5, OutIsIdle

LEMMA ResearchSets ==
  ASSUME TypeInv, NEW w \in Worker, Research(w)
  PROVE  /\ OnlyMoves(w)
         /\ \/ wk'[w].pc = "check" /\ wk'[w].run = wk[w].run /\ wk'[w].answer
            \/ wk'[w].pc = "idle" /\ ~Holds(w)
         /\ wk'[w].pc = "check" => wk'[w].resume = wk[w].resume
<1>1. PICK s \in WorkerState : s = wk[w]
  BY DEF TypeInv, TypeOK
<1> DEFINE new == [s EXCEPT !.pc = "check", !.answer = TRUE]
<1>2. /\ new \in WorkerState /\ new.pc = "check" /\ new.run = s.run
      /\ new.resume = s.resume /\ new.answer
  BY <1>1 DEF WorkerState, Busy
<1>3. \/ wk' = [wk EXCEPT ![w] = new]
      \/ wk' = [wk EXCEPT ![w] = IdleWorker] /\ ~Holds(w)
  BY <1>1 DEF Research
<1> HIDE DEF new
<1>4. CASE wk' = [wk EXCEPT ![w] = new]
  BY <1>1, <1>2, <1>4 DEF OnlyMoves, TypeInv, TypeOK
<1> QED
  BY <1>3, <1>4, OutIsIdle

LEMMA ClaimSets ==
  ASSUME TypeInv, NEW w \in Worker, NEW r \in Run, Claim(w, r)
  PROVE  /\ OnlyMoves(w) /\ wk'[w].pc = "enter" /\ wk'[w].run = r
         /\ wk'[w].resume = "none" /\ ~wk'[w].answer
<1> DEFINE new == [IdleWorker EXCEPT !.pc = "enter", !.run = r]
<1>1. /\ new \in WorkerState /\ new.pc = "enter" /\ new.run = r
      /\ new.resume = "none" /\ ~new.answer
  BY DEF IdleWorker, WorkerState, Busy
<1>2. wk' = [wk EXCEPT ![w] = new]
  BY DEF Claim
<1> HIDE DEF new
<1> QED
  BY <1>1, <1>2 DEF OnlyMoves, TypeInv, TypeOK

(* What a worker remembers may have expired, or been overwritten.          *)
LEMMA RemembersOn ==
  ASSUME TypeInv, [Next]_vars, NEW w \in Worker, wk[w].pc \in Busy,
         wk[w].resume # "none", Remembers(approval[wk[w].run], wk[w].resume)
  PROVE  Remembers(approval'[wk[w].run], wk[w].resume)
<1> DEFINE q == wk[w].run
<1>1. q \in Run /\ wk[w].resume \in Decision
  BY DEF TypeInv, TypeOK, BusyHasRun, WorkerState
<1>2. /\ Remembers(approval[q], wk[w].resume)
      /\ approval[q].status # "none" /\ approval[q].status # "pending"
  BY <1>1 DEF Remembers, Decision
<1>3. \A p \in Api : Verdict(p) \in {"disabled", "cancelled"}
  BY DEF Verdict
<1> HIDE DEF q
<1>4. Remembers(approval'[q], wk[w].resume)
  BY <1>1, <1>2, <1>3, ApprovalMoves DEF Remembers
<1> QED
  BY <1>4 DEF q

(* A worker at rest. *)
LEMMA StandsResumed ==
  ASSUME TypeInv, [Next]_vars, NEW w \in Worker, Resumed(w), wk'[w] = wk[w]
  PROVE  Resumed(w)'
<1> SUFFICES ASSUME wk[w].pc \in Busy, wk[w].resume # "none"
             PROVE  Remembers(approval[wk[w].run], wk[w].resume)'
  BY DEF Resumed
<1> QED
  BY RemembersOn DEF Resumed

(* A worker that goes on, or is through. *)
LEMMA GoesResumed ==
  ASSUME TypeInv, [Next]_vars, NEW w \in Worker, Resumed(w), wk[w].pc \in Busy,
         \/ wk'[w].pc \notin Busy
         \/ /\ wk'[w].run = wk[w].run /\ wk'[w].resume = wk[w].resume
            /\ wk'[w].pc = "execute" => wk[w].resume # "none"
            /\ wk'[w].answer => wk'[w].pc \in {"check", "final", "fail"}
  PROVE  Resumed(w)'
<1>1. CASE wk'[w].pc \notin Busy
  BY <1>1 DEF Resumed, Busy
<1>2. CASE /\ wk'[w].run = wk[w].run /\ wk'[w].resume = wk[w].resume
           /\ wk'[w].pc = "execute" => wk[w].resume # "none"
           /\ wk'[w].answer => wk'[w].pc \in {"check", "final", "fail"}
  <2> SUFFICES ASSUME wk[w].resume # "none"
               PROVE  Remembers(approval'[wk[w].run], wk[w].resume)
    BY <1>2 DEF Resumed
  <2> QED
    BY RemembersOn DEF Resumed
<1> QED
  BY <1>1, <1>2

LEMMA ResumedStays ==
  ASSUME TypeInv, \A w \in Worker : Resumed(w), [Next]_vars
  PROVE  \A w \in Worker : Resumed(w)'
<1> DEFINE Keeps(w) == OnlyMoves(w) /\ Resumed(w)'
<1>1. CASE wk' = wk
  BY <1>1, StandsResumed
<1>2. ASSUME NEW w \in Worker, OnlyMoves(w), Resumed(w)'
      PROVE  \A v \in Worker : Resumed(v)'
  BY <1>2, StandsResumed DEF OnlyMoves
<1>3. ASSUME NEW w \in Worker,
             \/ Begin(w) \/ Prepare(w) \/ Note(w) \/ Execute(w) \/ Revalidate(w)
             \/ Send(w) \/ FailedCall(w) \/ Record(w) \/ Project(w) \/ Raise(w)
      PROVE  OnlyMoves(w) /\ Resumed(w)'
  <2>1. wk[w].pc \in Busy \ {"check", "final", "fail"} /\ ~wk[w].answer
    BY <1>3 DEF Begin, Prepare, Note, Execute, Revalidate, Send, FailedCall, Record,
                Project, Raise, Busy, Resumed, TypeInv, TypeOK, WorkerState
  <2>2. \/ \E pc \in Busy : Goto(w, pc) /\ (pc = "execute" => wk[w].resume # "none")
        \/ wk' = [wk EXCEPT ![w] = IdleWorker]
    BY <1>3 DEF Begin, Prepare, Note, Execute, Revalidate, Send, FailedCall, Record,
                Project, Raise, Busy
  <2>3. OnlyMoves(w)
    BY <2>1, <2>2, GotoKeeps, OutIsIdle
  <2>4. \/ wk'[w].pc \notin Busy
        \/ /\ wk'[w].run = wk[w].run /\ wk'[w].resume = wk[w].resume
           /\ wk'[w].pc = "execute" => wk[w].resume # "none"
           /\ ~wk'[w].answer
    BY <2>1, <2>2, GotoKeeps, OutIsIdle DEF Busy
  <2> QED
    BY <2>1, <2>3, <2>4, GoesResumed
<1>4. ASSUME NEW w \in Worker, Check(w) \/ Final(w) \/ Fail(w)
      PROVE  OnlyMoves(w) /\ Resumed(w)'
  <2>1. wk[w].pc \in Busy
    BY <1>4 DEF Check, Final, Fail, Busy
  <2>2. \/ \E pc \in {"final", "fail"} : Goto(w, pc)
        \/ wk' = [wk EXCEPT ![w] = IdleWorker]
    BY <1>4 DEF Check, Final, Fail, End
  <2>3. {"final", "fail"} \subseteq Busy
    BY DEF Busy
  <2>4. OnlyMoves(w)
    BY <2>1, <2>2, <2>3, GotoKeeps, OutIsIdle
  <2>5. \/ wk'[w].pc \notin Busy
        \/ /\ wk'[w].run = wk[w].run /\ wk'[w].resume = wk[w].resume
           /\ wk'[w].pc \in {"final", "fail"}
    BY <2>1, <2>2, <2>3, GotoKeeps, OutIsIdle DEF Busy
  <2> QED
    BY <2>1, <2>4, <2>5, GoesResumed
<1>5. ASSUME NEW w \in Worker, Enter(w) PROVE OnlyMoves(w) /\ Resumed(w)'
  <2>1. wk[w].pc = "enter" /\ wk[w].pc \in Busy /\ UNCHANGED approval
    BY <1>5 DEF Enter, Busy, rows
  <2>2. ~wk[w].answer
    BY <2>1 DEF Resumed, TypeInv, TypeOK, WorkerState
  <2>3. ResumeOf(wk[w].run) # "none" =>
          Remembers(approval[wk[w].run], ResumeOf(wk[w].run))
    BY DEF ResumeOf, Remembers
  <2> QED
    BY <1>5, <2>1, <2>2, <2>3, EnterSets DEF Resumed, Busy
<1>6. ASSUME NEW w \in Worker, Research(w) PROVE OnlyMoves(w) /\ Resumed(w)'
  <2>1. wk[w].pc \in Busy
    BY <1>6 DEF Research, Busy
  <2> QED
    BY <1>6, <2>1, ResearchSets, GoesResumed DEF Busy
<1>7. ASSUME NEW w \in Worker, NEW r \in Run, Claim(w, r)
      PROVE  OnlyMoves(w) /\ Resumed(w)'
  BY <1>7, ClaimSets DEF Resumed
<1>8. ASSUME NEW w \in Worker, Crash(w) PROVE OnlyMoves(w) /\ Resumed(w)'
  BY <1>8, CrashMove DEF Resumed, Busy
<1>9. ASSUME NEW r \in Run,
             \/ \E d \in {"approved", "rejected"} : Decide(r, d)
             \/ Stop(r) \/ Lapse(r) \/ Expire(r)
      PROVE  wk' = wk
  BY <1>9 DEF Decide, Stop, Lapse, Expire
<1>10. CASE Enable \/ (\E p \in Api : ApiStep(p)) \/ UNCHANGED vars
  BY <1>1, <1>10, ApiFrame DEF Enable, vars
<1> QED
  BY <1>1, <1>2, <1>3, <1>4, <1>5, <1>6, <1>7, <1>8, <1>9, <1>10, Zenon
     DEF Next, Step, ApiStep

-----------------------------------------------------------------------------
(* What keeps a run good *)

(* Of run q nothing changes but that its approval may be disabled. *)
Untouched(q) ==
  /\ run'[q] = run[q] /\ ckpt'[q] = ckpt[q]
  /\ \/ approval'[q].status = approval[q].status /\ call'[q] = call[q]
     \/ approval'[q].status = "disabled" /\ call'[q] = "disabled"
  /\ \A v \in Worker :
       Executing(v, q) \/ Executing(v, q)' => wk'[v] = wk[v]

LEMMA UntouchedStays ==
  ASSUME NEW q \in Run, Good(q), Untouched(q)
  PROVE  Good(q)'
<1> USE DEF Good
<1>1. /\ Ended(q)' <=> Ended(q)
      /\ \A v \in Worker : /\ Executing(v, q)' <=> Executing(v, q)
                           /\ Executing(v, q) => wk'[v] = wk[v]
  BY DEF Untouched, Ended, Executing
<1>2. \A v \in Worker : Executing(v, q) => (Leaving(v)' <=> Leaving(v))
  BY <1>1 DEF Leaving
<1>3. \A v \in Worker : Sole(v, q)' <=> Sole(v, q)
  BY <1>1 DEF Sole
<1>4. Unfailed(q)' /\ Driven(q)'
  BY <1>1 DEF Unfailed, Driven, Untouched
<1>5. Trails(q)'
  BY <1>1, <1>2 DEF Trails, Untouched
<1>6. StaysOpen(q)'
  BY <1>1 DEF StaysOpen, Untouched
<1>7. CASE approval'[q].status = "disabled" /\ call'[q] = "disabled"
  <2>1. Readable(q)'
    BY <1>7 DEF Readable, Decision
  <2>2. Resumable(q)'
    BY <1>1, <1>3, <2>1 DEF Resumable, Untouched
  <2> QED
    BY <1>4, <1>5, <1>6, <2>2
<1>8. CASE approval'[q].status = approval[q].status /\ call'[q] = call[q]
  <2>1. (Unasked(q)' <=> Unasked(q)) /\ (Readable(q)' <=> Readable(q))
    BY <1>8 DEF Unasked, Readable, Untouched
  <2>2. Resumable(q)'
    BY <1>1, <1>3, <2>1 DEF Resumable, Untouched
  <2> QED
    BY <1>4, <1>5, <1>6, <2>2
<1> QED
  BY <1>7, <1>8 DEF Untouched

(* A run that ends leaves nobody behind but who is leaving. *)
LEMMA EndsWell ==
  ASSUME NEW q \in Run, Good(q), run'[q].status \in EndStatus,
         approval'[q].status # "pending",
         run'[q].status = "failed" => approval'[q].status = "disabled",
         \A v \in Worker : Executing(v, q)' => wk'[v] = wk[v] /\ Leaving(v)
  PROVE  Good(q)'
<1>1. Ended(q)' /\ run'[q].status # "queued" /\ run'[q].status # "running"
  BY DEF Ended, EndStatus
<1>2. Unfailed(q)'
  BY DEF Unfailed, Leaving
<1>3. Trails(q)'
  BY <1>1 DEF Trails, Leaving
<1> QED
  BY <1>1, <1>2, <1>3 DEF Good, Driven, StaysOpen, Resumable

(* A waiting run is queued with a decision that can be read. *)
LEMMA RequeueStays ==
  ASSUME TypeInv, NEW q \in Run, Good(q), run[q].status = "waiting_approval",
         run'[q].status = "queued", run'[q].owner = Nobody,
         Readable(q)', wk' = wk
  PROVE  Good(q)'
<1> USE DEF Good
<1>1. ~Ended(q) /\ ~Ended(q)'
  BY DEF Ended, EndStatus
<1>2. \A v \in Worker : Executing(v, q)' => Executing(v, q) /\ Leaving(v) /\ Leaving(v)'
  BY <1>1 DEF Trails, Executing, Leaving
<1>3. \A v \in Worker : run'[q].owner # v
  BY NobodyIsNoWorker
<1>4. \A v \in Worker : Executing(v, q)' => wk'[v].pc \notin {"enter", "begin"}
  BY <1>2 DEF Leaving
<1>5. Unfailed(q)'
  BY <1>2 DEF Unfailed, Leaving
<1>6. Trails(q)'
  BY <1>2, <1>3 DEF Trails
<1>7. Resumable(q)'
  BY <1>4 DEF Resumable
<1> QED
  BY <1>1, <1>5, <1>6, <1>7 DEF Driven, StaysOpen

(* While a run is executed by one that is not leaving, all others are.     *)
LEMMA OthersLeave ==
  ASSUME NEW q \in Run, Good(q), NEW w \in Worker, Executing(w, q), ~Leaving(w)
  PROVE  /\ run[q].owner = w /\ run[q].status = "running" /\ ~Ended(q)
         /\ \A v \in Worker : Executing(v, q) /\ v # w => Leaving(v)
BY DEF Good, Trails, Ended, EndStatus

(* Who leaves does not come back. *)
LEMMA LeaverStays ==
  ASSUME NEW q \in Run, Good(q), NEW w \in Worker, Executing(w, q), Leaving(w),
         OnlyMoves(w), run'[q] = run[q], UNCHANGED <<approval, call>>,
         wk'[w].pc = "idle" \/ (Leaving(w)' /\ wk'[w].run = q)
  PROVE  Good(q)'
<1> USE DEF Good
<1>1. Ended(q)' <=> Ended(q)
  BY DEF Ended
<1>2. \A v \in Worker : Executing(v, q)' => Executing(v, q)
  BY DEF OnlyMoves, Executing, Busy, Leaving
<1>3. \A v \in Worker : v # w => (Leaving(v)' <=> Leaving(v)) /\ wk'[v] = wk[v]
  BY DEF OnlyMoves, Leaving
<1>4. Unfailed(q)'
  BY <1>2, <1>3 DEF Unfailed, Leaving
<1>5. Driven(q)'
  BY <1>3 DEF Driven, Trails, Ended, EndStatus, Executing
<1>6. Trails(q)'
  BY <1>1, <1>2, <1>3 DEF Trails, Executing, Busy, Leaving
<1>7. StaysOpen(q)'
  BY <1>1 DEF StaysOpen
<1>8. Resumable(q)'
  <2>1. \A v \in Worker : Sole(v, q) => v = w
    BY DEF Sole
  <2>2. Readable(q)' <=> Readable(q)
    BY DEF Readable
  <2>3. wk'[w].pc \notin {"enter", "begin"}
    BY DEF Leaving
  <2>4. run'[q].status = "queued" => Readable(q)'
    BY <2>2 DEF Resumable
  <2>5. ASSUME NEW v \in Worker, Executing(v, q)', ~Ended(q)'
        PROVE  /\ wk'[v].pc = "enter" => Readable(q)'
               /\ wk'[v].pc = "begin" => wk'[v].resume # "none"
    <3>1. CASE v = w
      BY <2>3, <3>1
    <3>2. CASE v # w
      BY <1>1, <1>2, <1>3, <2>1, <2>2, <2>5, <3>2 DEF Resumable
    <3> QED
      BY <3>1, <3>2
  <2> QED
    BY <2>4, <2>5 DEF Resumable
<1> QED
  BY <1>4, <1>5, <1>6, <1>7, <1>8

(* The one that executes a run goes on with it. *)
LEMMA DriverStays ==
  ASSUME NEW q \in Run, Good(q), NEW w \in Worker, Executing(w, q), ~Leaving(w),
         OnlyMoves(w), run'[q] = run[q], approval'[q].status # "pending",
         wk'[w].pc = "fail" => approval'[q].status = "disabled",
         wk'[w].pc \in Busy \ {"enter", "failed_call"}, wk'[w].run = q,
         ~Leaving(w)',
         wk'[w].pc = "begin" => \/ wk'[w].resume # "none"
                                \/ ckpt'[q] = "start" /\ Sole(w, q)
  PROVE  Good(q)'
<1>1. /\ run[q].owner = w /\ run[q].status = "running" /\ ~Ended(q)
      /\ \A v \in Worker : Executing(v, q) /\ v # w => Leaving(v)
  BY OthersLeave
<1>2. \A v \in Worker : v # w => wk'[v] = wk[v]
  BY DEF OnlyMoves
<1>3. Executing(w, q)'
  BY DEF Executing
<1>4. \A v \in Worker : v # w /\ Executing(v, q)' =>
        /\ Executing(v, q) /\ Leaving(v)'
        /\ wk'[v].pc \in {"note", "check"}
  BY <1>1, <1>2 DEF Executing, Leaving
<1>5. Unfailed(q)'
  BY <1>1, <1>4 DEF Unfailed
<1>6. Driven(q)'
  BY <1>1, <1>3 DEF Good, Driven
<1>7. Trails(q)'
  BY <1>1, <1>4 DEF Trails
<1>8. Sole(w, q) => Sole(w, q)'
  BY <1>4 DEF Sole
<1>9. Resumable(q)'
  BY <1>1, <1>4, <1>8 DEF Resumable
<1> QED
  BY <1>5, <1>6, <1>7, <1>9 DEF Good, StaysOpen

(* A run that is queued again has no holder. *)
LEMMA RequeuedRow ==
  \A row \in RunRow :
    /\ [row EXCEPT !.status = "queued", !.owner = Nobody, !.lease = "none"].status
         = "queued"
    /\ [row EXCEPT !.status = "queued", !.owner = Nobody, !.lease = "none"].owner
         = Nobody
BY DEF RunRow

-----------------------------------------------------------------------------
(* Every step keeps a run good that has still nothing to fail for *)

LEMMA UserKeeps ==
  ASSUME FInv, NEW q \in Run, Clean(q), Clean(q)',
         \/ \E r \in Run : \/ \E d \in {"approved", "rejected"} : Decide(r, d)
                           \/ Stop(r) \/ Lapse(r)
         \/ Enable \/ (\E p \in Api : ApiStep(p)) \/ UNCHANGED vars
  PROVE  Good(q)'
<1>0. Good(q) /\ TypeInv /\ PendingMeansWaiting
  BY DEF FInv, IInv
<1>1. PICK row \in RunRow, a \in ApprovalRow : row = run[q] /\ a = approval[q]
  BY <1>0 DEF TypeInv, TypeOK
<1>2. CASE wk' = wk /\ Untouched(q)
  BY <1>0, <1>2, UntouchedStays
<1>3. ASSUME NEW d \in {"approved", "rejected"}, Decide(q, d)
      PROVE  Good(q)'
  <2> DEFINE status ==
        IF run[q].cancelRequested THEN "cancelled"
        ELSE IF d = "approved" /\ grant # "enabled" THEN "disabled"
        ELSE IF approval[q].lapsed THEN "expired" ELSE d
  <2>1. /\ approval' = [approval EXCEPT ![q] =
                          [a EXCEPT !.status = status, !.choice = d]]
        /\ call' = [call EXCEPT ![q] = status]
        /\ wk' = wk /\ approval[q].status = "pending"
    BY <1>1, <1>3 DEF Decide, Open
  <2>2. ~run[q].cancelRequested /\ status \in Decision
    BY DEF Decision, Clean
  <2> HIDE DEF status
  <2>3. [a EXCEPT !.status = status, !.choice = d].status = status
    BY <1>1 DEF ApprovalRow
  <2>4. approval'[q].status = status /\ call'[q] = status
    BY <1>0, <2>1, <2>3 DEF TypeInv, TypeOK
  <2>5. run[q].status = "waiting_approval"
    BY <1>0, <2>1 DEF Good, StaysOpen, PendingMeansWaiting
  <2>6. run' = [run EXCEPT ![q] = [row EXCEPT !.status = "queued",
                                     !.owner = Nobody, !.lease = "none"]]
    BY <1>1, <1>3, <2>2 DEF Decide, Requeued
  <2>7. run'[q].status = "queued" /\ run'[q].owner = Nobody
    BY <1>0, <1>1, <2>6, RequeuedRow DEF TypeInv, TypeOK
  <2>8. Readable(q)'
    BY <2>2, <2>4 DEF Readable
  <2> QED
    BY <1>0, <2>1, <2>5, <2>7, <2>8, RequeueStays
<1>4. ASSUME NEW r \in Run, NEW d \in {"approved", "rejected"}, Decide(r, d), r # q
      PROVE  wk' = wk /\ Untouched(q)
  BY <1>0, <1>4 DEF Decide, Untouched, TypeInv, TypeOK
<1>5. ASSUME NEW r \in Run, Stop(r) PROVE Good(q)'
  <2>1. CASE r # q
    BY <1>0, <1>2, <1>5, <2>1 DEF Stop, rows, Untouched, TypeInv, TypeOK
  <2>2. CASE r = q
    <3>1. run' = [run EXCEPT ![q] = [row EXCEPT !.status = "cancelled",
                                                !.cancelRequested = TRUE]]
      BY <1>1, <1>5, <2>2 DEF Stop
    <3>2. [row EXCEPT !.status = "cancelled",
                      !.cancelRequested = TRUE].cancelRequested
      BY <1>1 DEF RunRow
    <3>3. run'[q].cancelRequested
      BY <1>0, <3>1, <3>2 DEF TypeInv, TypeOK
    <3> QED
      BY <3>3 DEF Clean
  <2> QED
    BY <2>1, <2>2
<1>6. ASSUME NEW p \in Api,
             DisableRead(p) \/ CancelWrite(p) \/ \E r \in Run : CancelRead(p, r)
      PROVE  wk' = wk /\ Untouched(q)
  <2>1. wk' = wk /\ run' = run /\ ckpt' = ckpt
    BY <1>6 DEF DisableRead, CancelWrite, CancelRead
  <2>2. approval'[q] = approval[q] /\ call'[q] = call[q]
    <3>1. CASE CancelWrite(p)
      <4>1. q \notin api[p].seen
        BY <3>1 DEF CancelWrite, FInv, CancelsStopped, Clean
      <4> QED
        BY <1>0, <3>1, <4>1, SeenRows DEF CancelWrite
    <3> QED
      BY <1>6, <3>1 DEF DisableRead, CancelRead, rows
  <2> QED
    BY <2>1, <2>2 DEF Untouched
<1>7. ASSUME NEW r \in Run, Lapse(r) PROVE wk' = wk /\ Untouched(q)
  <2>1. [a EXCEPT !.lapsed = TRUE].status = a.status
    BY <1>1 DEF ApprovalRow
  <2>2. approval'[q] = IF q = r THEN [a EXCEPT !.lapsed = TRUE] ELSE a
    BY <1>0, <1>1, <1>7 DEF Lapse, TypeInv, TypeOK
  <2> QED
    BY <1>1, <1>7, <2>1, <2>2 DEF Lapse, Untouched
<1>8. ASSUME NEW p \in Api, DisableWrite(p) PROVE Good(q)'
  <2>1. /\ wk' = wk /\ ckpt' = ckpt
        /\ q \in api[p].seen =>
             approval'[q].status = "disabled" /\ call'[q] = "disabled"
        /\ q \notin api[p].seen =>
             approval'[q] = approval[q] /\ call'[q] = call[q]
    BY <1>0, <1>8, SeenRows DEF DisableWrite
  <2>2. CASE run'[q] = run[q]
    BY <1>2, <2>1, <2>2 DEF Untouched
  <2>3. CASE run'[q] # run[q]
    <3>1. /\ q \in api[p].seen /\ run[q].status = "waiting_approval"
          /\ run'[q] = [row EXCEPT !.status = "queued",
                                   !.owner = Nobody, !.lease = "none"]
      BY <1>1, <1>8, <2>3 DEF DisableWrite, Requeued
    <3>2. run'[q].status = "queued" /\ run'[q].owner = Nobody
      BY <1>1, <3>1, RequeuedRow
    <3>3. Readable(q)'
      BY <2>1, <3>1 DEF Readable, Decision
    <3> QED
      BY <1>0, <2>1, <3>1, <3>2, <3>3, RequeueStays
  <2> QED
    BY <2>2, <2>3
<1>9. CASE Enable \/ UNCHANGED vars
  BY <1>2, <1>9 DEF Enable, vars, rows, Untouched
<1> QED
  BY <1>2, <1>3, <1>4, <1>5, <1>6, <1>7, <1>8, <1>9 DEF ApiStep

(* While nothing was lost no lease of an executed run runs out. *)
LEMMA ExpiryKeeps ==
  ASSUME FInv, NEW q \in Run, Clean(q), Clean(q)', NEW r \in Run, Expire(r)
  PROVE  Good(q)'
<1>0. Good(q) /\ TypeInv /\ PendingMeansWaiting
  BY DEF FInv, IInv
<1>1. CASE r # q
  <2>1. Untouched(q)
    BY <1>0, <1>1 DEF Expire, rows, Untouched, TypeInv, TypeOK
  <2> QED
    BY <1>0, <2>1, UntouchedStays
<1>2. CASE r = q
  <2>1. Executing(run[q].owner, q)
    BY <1>0, <1>2 DEF Expire, Good, Driven
  <2>2. stalls = 0 /\ stalls' = 0
    BY DEF Clean
  <2> QED
    BY <1>2, <2>1, <2>2 DEF Expire
<1> QED
  BY <1>1, <1>2

LEMMA ClaimKeeps ==
  ASSUME FInv, NEW q \in Run, Clean(q), Clean(q)',
         NEW w \in Worker, NEW r \in Run, Claim(w, r)
  PROVE  Good(q)'
<1>0. Good(q) /\ TypeInv /\ PendingMeansWaiting
  BY DEF FInv, IInv
<1>1. /\ OnlyMoves(w) /\ wk'[w].pc = "enter" /\ wk'[w].run = r
      /\ \A v \in Worker : ~Executing(w, v)
      /\ wk[w].pc = "idle"
      /\ UNCHANGED <<approval, call, ckpt>>
  BY <1>0, ClaimSets DEF Claim, Executing, Busy, rows
<1>2. CASE r # q
  <2>1. run'[q] = run[q]
    BY <1>0, <1>2 DEF Claim, TypeInv, TypeOK
  <2>2. ~Executing(w, q) /\ ~Executing(w, q)'
    BY <1>1, <1>2 DEF Executing, Busy
  <2>3. \A v \in Worker : Executing(v, q) \/ Executing(v, q)' => wk'[v] = wk[v]
    BY <1>1, <2>2 DEF OnlyMoves
  <2> QED
    BY <1>0, <1>1, <2>1, <2>3, UntouchedStays DEF Untouched
<1>3. CASE r = q
  <2>1. run[q].status = "queued"
    BY <1>0, <1>3 DEF Claim, Good, Driven
  <2>2. PICK row \in RunRow : row = run[q]
    BY <1>0 DEF TypeInv, TypeOK
  <2>3. run' = [run EXCEPT ![q] = [row EXCEPT !.status = "running", !.owner = w,
                                              !.lease = "live"]]
    BY <1>3, <2>2 DEF Claim
  <2>4. /\ [row EXCEPT !.status = "running", !.owner = w,
                       !.lease = "live"].status = "running"
        /\ [row EXCEPT !.status = "running", !.owner = w, !.lease = "live"].owner = w
        /\ [row EXCEPT !.status = "running", !.owner = w,
                       !.lease = "live"].lease = "live"
    BY <2>2 DEF RunRow
  <2>5. /\ run'[q].status = "running" /\ run'[q].owner = w
        /\ run'[q].lease = "live"
    BY <1>0, <2>3, <2>4 DEF TypeInv, TypeOK
  <2>6. ~Ended(q) /\ ~Ended(q)'
    BY <2>1, <2>5 DEF Ended, EndStatus
  <2>7. Executing(w, q)' /\ ~Leaving(w)'
    BY <1>1, <1>3 DEF Executing, Busy, Leaving
  <2>8. \A v \in Worker : v # w /\ Executing(v, q)' =>
          Executing(v, q) /\ Leaving(v)' /\ wk'[v].pc \in {"note", "check"}
    BY <1>0, <1>1, <2>1, <2>6 DEF OnlyMoves, Executing, Leaving, Good, Trails
  <2>9. Unfailed(q)'
    BY <1>1, <2>5, <2>8 DEF Unfailed
  <2>10. Driven(q)'
    BY <2>5, <2>7 DEF Driven
  <2>11. Trails(q)'
    BY <2>5, <2>6, <2>7, <2>8 DEF Trails
  <2>12. StaysOpen(q)'
    BY <2>6 DEF StaysOpen
  <2>13. (Unasked(q)' /\ Sole(w, q)') \/ Readable(q)'
    <3>1. CASE Readable(q)
      BY <1>1, <3>1 DEF Readable
    <3>2. CASE Unasked(q) /\ \A v \in Worker : ~Executing(v, q)
      BY <1>1, <2>8, <3>2 DEF Unasked, Sole
    <3> QED
      BY <1>0, <2>1, <3>1, <3>2 DEF Good, Resumable
  <2>14. Resumable(q)'
    BY <1>1, <2>5, <2>8, <2>13 DEF Resumable
  <2> QED
    BY <2>9, <2>10, <2>11, <2>12, <2>14 DEF Good
<1> QED
  BY <1>2, <1>3

(* A step of a worker concerns the run it executes. *)
LEMMA ElsewhereKeeps ==
  ASSUME FInv, NEW q \in Run, Clean(q), NEW w \in Worker, Step(w) \/ Raise(w),
         wk[w].run # q
  PROVE  Good(q)'
<1>0. Good(q) /\ TypeInv /\ PendingMeansWaiting
  BY DEF FInv, IInv
<1>1. wk[w].pc \in Busy /\ wk[w].run \in Run
  <2>1. wk[w].pc \in Busy
    BY DEF Step, Raise, Enter, Begin, Prepare, Note, Execute, Revalidate, Send,
           FailedCall, Record, Project, Research, Check, Final, Fail, Busy
  <2> QED
    BY <1>0, <2>1 DEF TypeInv, BusyHasRun
<1>2. run'[q] = run[q] /\ ckpt'[q] = ckpt[q] /\ call'[q] = call[q]
      /\ approval'[q].status = approval[q].status
  <2>1. CASE \/ Enter(w) \/ Begin(w) \/ Note(w) \/ Revalidate(w) \/ Send(w)
             \/ FailedCall(w) \/ Record(w) \/ Project(w) \/ Research(w)
             \/ Check(w) \/ Final(w) \/ Fail(w) \/ Raise(w)
    BY <1>0, <1>1, <2>1 DEF Enter, Begin, Note, Revalidate, Send, FailedCall,
       Record, Project, Research, Check, Final, Fail, Raise, End, Put, rows,
       TypeInv, TypeOK
  <2>2. CASE Prepare(w)
    BY <1>0, <1>1, <2>2 DEF Prepare, Put, TypeInv, TypeOK
  <2>3. CASE Execute(w)
    BY <1>0, <1>1, <2>3 DEF Execute, Mark, rows, TypeInv, TypeOK
  <2> QED
    BY <2>1, <2>2, <2>3 DEF Step
<1>3. OnlyMoves(w) /\ ~Executing(w, q)'
  <2>1. CASE Enter(w)
    BY <1>0, <2>1, EnterSets DEF Executing, Busy
  <2>2. CASE Research(w)
    BY <1>0, <2>2, ResearchSets DEF Executing, Busy
  <2>3. CASE \/ Begin(w) \/ Prepare(w) \/ Note(w) \/ Execute(w) \/ Revalidate(w)
             \/ Send(w) \/ FailedCall(w) \/ Record(w) \/ Project(w) \/ Check(w)
             \/ Final(w) \/ Fail(w) \/ Raise(w)
    <3>1. \/ \E pc \in Busy : Goto(w, pc)
          \/ wk' = [wk EXCEPT ![w] = IdleWorker]
      BY <2>3 DEF Begin, Prepare, Note, Execute, Revalidate, Send, FailedCall,
                  Record, Project, Check, Final, Fail, End, Raise, Busy
    <3>2. ASSUME NEW pc \in Busy, Goto(w, pc)
          PROVE  OnlyMoves(w) /\ ~Executing(w, q)'
      BY <1>0, <1>1, <3>2, GotoKeeps DEF Executing
    <3>3. CASE wk' = [wk EXCEPT ![w] = IdleWorker]
      BY <1>0, <3>3, OutIsIdle DEF Executing, Busy
    <3> QED
      BY <3>1, <3>2, <3>3
  <2> QED
    BY <2>1, <2>2, <2>3 DEF Step
<1>4. Untouched(q)
  BY <1>2, <1>3 DEF Untouched, OnlyMoves, Executing
<1> QED
  BY <1>0, <1>4, UntouchedStays

(* A step of a worker keeps the run good that it executes. *)
LEMMA StepKeeps ==
  ASSUME FInv, NEW w \in Worker, NEW q \in Run, wk[w].run = q, Clean(q), Clean(q)',
         Step(w) \/ Raise(w)
  PROVE  Good(q)'
<1>0. /\ Good(q) /\ TypeInv /\ PendingMeansWaiting /\ Resumed(w)
      /\ DecidedByUser /\ CancelledIsStopped
  BY DEF FInv, IInv
<1>1. /\ wk[w].pc \in Busy /\ Executing(w, q)
      /\ wk[w].pc # "failed_call"
      /\ wk[w].pc = "fail" => approval[q].status = "disabled"
  <2>1. wk[w].pc \in Busy
    BY DEF Step, Raise, Enter, Begin, Prepare, Note, Execute, Revalidate, Send,
           FailedCall, Record, Project, Research, Check, Final, Fail, Busy
  <2> QED
    BY <1>0, <2>1 DEF Executing, Good, Unfailed
<1>2. ~Leaving(w) => /\ Holds(w) /\ run[q].status = "running" /\ ~Ended(q)
                     /\ run[q].owner = w /\ approval[q].status # "pending"
  BY <1>0, <1>1, OthersLeave DEF Holds, PendingMeansWaiting
<1>3. wk[w].answer => wk[w].pc \in {"check", "final", "fail"}
  BY <1>0, <1>1 DEF Resumed
<1>4. q \notin faulted /\ q \notin faulted'
  BY DEF Clean
(* A worker that stays in the execution of a run whose rows stay.          *)
<1>5. ASSUME NEW pc \in Busy \ {"enter", "begin", "note", "failed_call"},
             Goto(w, pc), ~Leaving(w), run' = run,
             approval'[q].status # "pending",
             pc = "fail" => approval'[q].status = "disabled",
             pc = "check" => wk[w].answer
      PROVE  Good(q)'
  <2>1. /\ OnlyMoves(w) /\ wk'[w].pc = pc /\ wk'[w].run = q
        /\ wk'[w].answer = wk[w].answer
    BY <1>0, <1>1, <1>5, GotoKeeps
  <2>2. ~Leaving(w)'
    BY <1>5, <2>1 DEF Leaving
  <2> QED
    BY <1>0, <1>1, <1>5, <2>1, <2>2, DriverStays
<1>7. CASE Enter(w)
  <2>1. wk[w].pc = "enter" /\ UNCHANGED <<run, approval, call, ckpt>> /\ ~Leaving(w)
    BY <1>7 DEF Enter, rows, Leaving
  <2>2. CASE /\ wk'[w].pc = "idle"
             /\ ~(run[q].status = "running" /\ run[q].owner = w)
    BY <1>2, <2>1, <2>2
  <2>3. CASE /\ wk'[w].pc = "begin" /\ wk'[w].run = q
             /\ wk'[w].resume = ResumeOf(q)
    <3>1. (Unasked(q) /\ Sole(w, q)) \/ Readable(q)
      BY <1>0, <1>1, <1>2, <2>1 DEF Good, Resumable
    <3>2. Readable(q) => ResumeOf(q) # "none"
      BY DEF Readable, ResumeOf, Decision
    <3>3. Unasked(q) => ckpt'[q] = "start"
      BY <2>1 DEF Unasked
    <3>4. /\ wk'[w].pc \in Busy \ {"enter", "failed_call"}
          /\ ~Leaving(w)' /\ OnlyMoves(w)
      BY <1>0, <1>7, <2>3, EnterSets DEF Busy, Leaving
    <3> QED
      BY <1>0, <1>1, <1>2, <2>1, <2>3, <3>1, <3>2, <3>3, <3>4, DriverStays
  <2> QED
    BY <1>0, <1>7, <2>2, <2>3, EnterSets
<1>8. CASE Begin(w)
  <2>1. wk[w].pc = "begin" /\ run' = run /\ approval' = approval /\ ~Leaving(w)
    BY <1>8 DEF Begin, rows, Leaving
  <2>2. wk[w].resume # "none" \/ ckpt[q] = "start"
    BY <1>0, <1>1, <1>2, <2>1 DEF Good, Resumable
  <2>3. \E pc \in {"prepare", "execute", "research"} : Goto(w, pc)
    BY <1>8, <2>2 DEF Begin
  <2>4. {"prepare", "execute", "research"}
          \subseteq Busy \ {"enter", "begin", "note", "fail", "failed_call", "check"}
    BY DEF Busy
  <2> QED
    BY <1>2, <1>5, <2>1, <2>3, <2>4
<1>9. CASE Prepare(w)
  <2>1. wk[w].pc = "prepare" /\ ~Leaving(w)
    BY <1>9 DEF Prepare, Leaving
  <2>2. CASE Goto(w, "research") /\ UNCHANGED <<run, approval, call>>
    BY <1>2, <1>5, <2>1, <2>2 DEF Busy
  <2>3. CASE /\ ~Ended(q) /\ Goto(w, "note")
             /\ run' = [run EXCEPT ![q] = [@ EXCEPT !.status = "waiting_approval"]]
    <3>1. PICK row \in RunRow : row = run[q]
      BY <1>0 DEF TypeInv, TypeOK
    <3>2. [row EXCEPT !.status = "waiting_approval"].status = "waiting_approval"
      BY <3>1 DEF RunRow
    <3>3. run'[q].status = "waiting_approval"
      BY <1>0, <2>3, <3>1, <3>2 DEF TypeInv, TypeOK
    <3>4. "note" \in Busy
      BY DEF Busy
    <3>5. OnlyMoves(w) /\ wk'[w].pc = "note"
      BY <1>0, <1>1, <2>3, <3>4, GotoKeeps
    <3>6. \A v \in Worker : v # w /\ Executing(v, q) => Leaving(v)
      BY <1>0, <1>1, <2>1, <2>3, OthersLeave
    <3>7. \A v \in Worker : Executing(v, q)' =>
            Leaving(v)' /\ wk'[v].pc \in {"note", "check"}
      BY <3>5, <3>6 DEF OnlyMoves, Executing, Leaving
    <3>8. Unfailed(q)' /\ Driven(q)'
      BY <3>3, <3>7 DEF Unfailed, Driven
    <3>9. Trails(q)'
      BY <3>3, <3>7 DEF Trails
    <3>10. StaysOpen(q)'
      BY <3>3 DEF StaysOpen, Ended, EndStatus
    <3>11. Resumable(q)'
      BY <3>3, <3>7 DEF Resumable
    <3> QED
      BY <3>8, <3>9, <3>10, <3>11 DEF Good
  <2> QED
    BY <1>9, <2>2, <2>3 DEF Prepare
<1>10. CASE Note(w)
  <2>1. wk[w].pc = "note" /\ Leaving(w) /\ UNCHANGED <<run, approval, call>>
    BY <1>10 DEF Note, rows, Leaving
  <2>2. ~wk[w].answer
    BY <1>0, <1>3, <2>1 DEF TypeInv, TypeOK, WorkerState
  <2>3. Goto(w, "check") \/ wk' = [wk EXCEPT ![w] = IdleWorker]
    BY <1>10 DEF Note
  <2>4. CASE Goto(w, "check")
    <3>1. "check" \in Busy
      BY DEF Busy
    <3>2. /\ OnlyMoves(w) /\ wk'[w].pc = "check" /\ wk'[w].run = q
          /\ ~wk'[w].answer
      BY <1>0, <1>1, <2>2, <2>4, <3>1, GotoKeeps
    <3> QED
      BY <1>0, <1>1, <2>1, <3>2, LeaverStays DEF Leaving
  <2>5. CASE wk' = [wk EXCEPT ![w] = IdleWorker]
    BY <1>0, <1>1, <2>1, <2>5, OutIsIdle, LeaverStays
  <2> QED
    BY <2>3, <2>4, <2>5
<1>11. CASE Execute(w)
  <2>1. wk[w].pc = "execute" /\ run' = run /\ ~Leaving(w)
    BY <1>11 DEF Execute, Leaving
  <2>2. wk[w].resume \in Decision /\ Remembers(approval[q], wk[w].resume)
    BY <1>0, <1>1, <2>1 DEF Resumed, TypeInv, TypeOK, WorkerState
  <2>3. approval[q].status # "pending" /\ ~run[q].cancelRequested
    BY <1>2, <2>1 DEF Clean
  <2>4. CASE UNCHANGED approval /\ Goto(w, "fail")
    <3>1. approval[q].status # "cancelled"
      BY <1>0, <2>3 DEF CancelledIsStopped
    <3>2. approval[q].status = "disabled"
      <4>1. \/ approval[q].choice = "none"
            \/ ~approval[q].lapsed /\ approval[q].status # wk[w].resume
        BY <1>11, <2>3, <2>4, <1>0, <1>1, GotoKeeps DEF Execute, Busy
      <4> QED
        BY <1>0, <2>2, <3>1, <4>1 DEF Remembers, Decision, DecidedByUser
    <3> QED
      BY <1>5, <2>1, <2>3, <2>4, <3>2 DEF Busy
  <2>5. CASE \E pc \in {"project", "revalidate"} : Goto(w, pc)
    <3>1. UNCHANGED approval \/ Mark(q, "expired")
      BY <1>11 DEF Execute, rows
    <3>2. approval'[q].status = approval[q].status \/ approval'[q].status = "expired"
      BY <1>0, <3>1, MarkFrame DEF ApprovalStatus, Decision
    <3>3. {"project", "revalidate"}
            \subseteq Busy \ {"enter", "begin", "note", "fail", "failed_call", "check"}
      BY DEF Busy
    <3> QED
      BY <1>5, <2>1, <2>3, <2>5, <3>2, <3>3
  <2> QED
    BY <1>11, <2>4, <2>5 DEF Execute, rows
<1>12. CASE Revalidate(w) \/ Send(w) \/ Record(w)
  <2>1. ~Leaving(w) /\ run' = run /\ approval' = approval
    BY <1>12 DEF Revalidate, Send, Record, rows, Leaving
  <2>2. \E pc \in {"project", "send", "record"} : Goto(w, pc)
    BY <1>4, <1>12 DEF Revalidate, Send, Record
  <2>3. {"project", "send", "record"}
          \subseteq Busy \ {"enter", "begin", "note", "fail", "failed_call", "check"}
    BY DEF Busy
  <2> QED
    BY <1>2, <1>5, <2>1, <2>2, <2>3
<1>13. CASE Project(w)
  <2>1. ~Leaving(w) /\ run' = run /\ approval' = approval
    BY <1>13 DEF Project, rows, Leaving
  <2>2. \/ Goto(w, "research")
        \/ ~Holds(w) /\ wk' = [wk EXCEPT ![w] = IdleWorker]
    BY <1>13 DEF Project
  <2> QED
    BY <1>2, <1>5, <2>1, <2>2 DEF Busy
<1>14. CASE Research(w)
  <2>1. ~Leaving(w) /\ run' = run /\ approval' = approval
    BY <1>14 DEF Research, rows, Leaving
  <2>2. OnlyMoves(w) /\ wk'[w].pc = "check" /\ wk'[w].run = q /\ wk'[w].answer
    BY <1>0, <1>2, <1>14, <2>1, ResearchSets
  <2>3. ~Leaving(w)' /\ wk'[w].pc \in Busy \ {"enter", "failed_call"}
    BY <2>2 DEF Leaving, Busy
  <2> QED
    BY <1>0, <1>1, <1>2, <2>1, <2>2, <2>3, DriverStays
<1>15. CASE Check(w)
  <2>1. wk[w].pc = "check" /\ UNCHANGED <<run, approval, call>>
    BY <1>15 DEF Check, rows
  <2>2. CASE Leaving(w)
    <3>1. run[q].status = "waiting_approval" \/ ~Holds(w)
      BY <1>0, <1>1, <2>2 DEF Good, Trails, Holds
    <3> QED
      BY <1>0, <1>1, <1>15, <2>1, <2>2, <3>1, OutIsIdle, LeaverStays DEF Check
  <2>3. CASE ~Leaving(w)
    <3>1. wk[w].answer
      BY <2>1, <2>3 DEF Leaving
    <3>2. Goto(w, "final")
      BY <1>2, <1>15, <2>3, <3>1 DEF Check
    <3> QED
      BY <1>2, <1>5, <2>1, <2>3, <3>2 DEF Busy
  <2> QED
    BY <2>2, <2>3
<1>16. CASE Final(w) \/ Fail(w)
  <2>1. /\ ~Leaving(w) /\ approval' = approval
        /\ wk' = [wk EXCEPT ![w] = IdleWorker]
    BY <1>16 DEF Final, Fail, End, rows, Leaving
  <2>2. PICK status \in {"completed", "failed"} :
          End(w, status) /\ (status = "failed" => approval[q].status = "disabled")
    BY <1>1, <1>16 DEF Final, Fail
  <2>3. PICK row \in RunRow : row = run[q]
    BY <1>0 DEF TypeInv, TypeOK
  <2>4. run' = [run EXCEPT ![q] = [row EXCEPT !.status = status,
                                       !.owner = Nobody, !.lease = "none"]]
    BY <1>2, <2>1, <2>2, <2>3 DEF End
  <2>5. [row EXCEPT !.status = status, !.owner = Nobody, !.lease = "none"].status
          = status
    BY <2>3 DEF RunRow
  <2>6. run'[q].status = status
    BY <1>0, <2>4, <2>5 DEF TypeInv, TypeOK
  <2>7. \A v \in Worker : Executing(v, q) /\ v # w => Leaving(v)
    BY <1>0, <1>1, <2>1, OthersLeave
  <2>8. \A v \in Worker : Executing(v, q)' => wk'[v] = wk[v] /\ Leaving(v)
    BY <1>0, <2>1, <2>7, OutIsIdle DEF OnlyMoves, Executing, Busy
  <2> QED
    BY <1>0, <1>2, <2>1, <2>2, <2>6, <2>8, EndsWell DEF EndStatus
<1>17. ~FailedCall(w) /\ ~Raise(w)
  BY <1>1, <1>4 DEF FailedCall, Raise
<1> QED
  BY <1>7, <1>8, <1>9, <1>10, <1>11, <1>12, <1>13, <1>14, <1>15, <1>16, <1>17,
     Zenon DEF Step

LEMMA GoodStays ==
  ASSUME FInv, [Next]_vars, NEW q \in Run, Clean(q)'
  PROVE  Good(q)'
<1>1. Clean(q)
  BY CleanBefore DEF FInv, IInv
<1>2. ASSUME NEW w \in Worker, Step(w) \/ Raise(w) PROVE Good(q)'
  BY <1>1, <1>2, StepKeeps, ElsewhereKeeps
<1>3. ASSUME NEW w \in Worker, Crash(w) PROVE FALSE
  BY <1>1, <1>3 DEF Crash, Clean
<1>4. ASSUME NEW w \in Worker, NEW r \in Run, Claim(w, r) PROVE Good(q)'
  BY <1>1, <1>4, ClaimKeeps
<1>5. ASSUME NEW r \in Run, Expire(r) PROVE Good(q)'
  BY <1>1, <1>5, ExpiryKeeps
<1>6. CASE \/ \E r \in Run : \/ \E d \in {"approved", "rejected"} : Decide(r, d)
                             \/ Stop(r) \/ Lapse(r)
           \/ Enable \/ (\E p \in Api : ApiStep(p)) \/ UNCHANGED vars
  BY <1>1, <1>6, UserKeeps
<1> QED
  BY <1>2, <1>3, <1>4, <1>5, <1>6, Zenon DEF Next, ApiStep

LEMMA CausesInit == Init => FInv
<1> SUFFICES ASSUME Init PROVE FInv
  OBVIOUS
<1>1. IInv
  BY InvInit
<1>2. /\ \A w \in Worker : wk[w].pc = "idle"
      /\ \A r \in Run : /\ run[r].status = "queued" /\ ~run[r].cancelRequested
                        /\ approval[r].status = "none" /\ ckpt[r] = "start"
      /\ telling = {} /\ \A p \in Api : api[p].doing = "nothing"
  BY IdleRow DEF Init, IdleApi
<1>3. \A w \in Worker : Resumed(w) /\ \A r \in Run : ~Executing(w, r)
  BY <1>2 DEF Resumed, Executing, Busy
<1>4. /\ DecidedByUser /\ StoppedIsOver /\ CancelsStopped
      /\ CancelledIsStopped
  BY <1>2 DEF DecidedByUser, StoppedIsOver, CancelsStopped, CancelledIsStopped
<1>5. ASSUME NEW r \in Run PROVE Good(r)
  BY <1>2, <1>3 DEF Good, Unfailed, Driven, Trails, StaysOpen, Resumable, Unasked
<1> QED
  BY <1>1, <1>3, <1>4, <1>5 DEF FInv

LEMMA CausesStep == FInv /\ [Next]_vars => FInv'
<1> SUFFICES ASSUME FInv, [Next]_vars PROVE FInv'
  OBVIOUS
<1>1. IInv'
  BY InvStep DEF FInv
<1>2. \A w \in Worker : Resumed(w)'
  BY ResumedStays DEF FInv, IInv
<1>3. /\ DecidedByUser' /\ StoppedIsOver' /\ CancelsStopped'
      /\ CancelledIsStopped'
  BY UserStaysNamed, StopSticks, CancelsStay, CancelledStay
     DEF FInv, IInv, StoppedIsOver
<1>4. \A r \in Run : Clean(r)' => Good(r)'
  BY GoodStays
<1> QED
  BY <1>1, <1>2, <1>3, <1>4 DEF FInv

(* While no worker is lost, a run fails only because a provider or the     *)
(* tool did, or because its call was disabled while it waited.             *)
THEOREM FailuresHaveCause == Spec => []FailsForCause
<1>1. FInv => FailsForCause
  BY DEF FInv, FailsForCause, StoppedIsOver, Clean, Good, Unfailed
<1> QED
  BY <1>1, CausesInit, CausesStep, PTL DEF Spec

=============================================================================
