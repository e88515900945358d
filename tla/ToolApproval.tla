---------------------------- MODULE ToolApproval ----------------------------
(***************************************************************************)
(* The approval of a risky tool call (tool_execution.py) and the run that  *)
(* waits for it (graph.py, coordinator.py, run_queue.py): a run prepares   *)
(* its call, waits for its user, is queued again by the decision and sends *)
(* the call from whichever worker resumes it.                              *)
(*                                                                         *)
(* Every run here asks for one tool call.  What the run does before and    *)
(* after it, its tasks, quota and log, is module RunLifecycle's.           *)
(***************************************************************************)
EXTENDS Integers, FiniteSets

CONSTANTS
  Run, Worker,
  Api,          \* API processes that may hold such a transaction open; requests
                \* are served by others meanwhile (_lock is a process's own)
  Nobody,       \* lease_owner IS NULL, no run
  MaxStalls,    \* bound: leases that run out under a live worker
  MaxCrashes    \* bound: workers that die

ASSUME NobodyIsNoWorker == Nobody \notin Worker \union Run
ASSUME BoundsAreNatural == MaxStalls \in Nat /\ MaxCrashes \in Nat

VARIABLES
  run,       \* the research_runs rows
  grant,     \* the workspace's workspace_mcp_grants row
  call,      \* call[r]: status of the tool_calls row
  approval,  \* the tool_approvals rows
  toolRun,   \* toolRun[r]: status of the tool_runs row
  sent,      \* sent[r]: how often the gateway was called
  ckpt,      \* ckpt[r]: how far the latest durable checkpoint got
  telling,   \* stopped runs whose approvals are yet to be cancelled
  api,       \* api[p]: the transaction open in process p
  faulted,   \* runs in which something outside the program failed
  wk,        \* wk[w]: what worker w is doing
  stalls, crashes  \* what the bounds count

vars == <<run, grant, call, approval, toolRun, sent, ckpt, telling, api,
          faulted, wk, stalls, crashes>>
rows == <<call, approval, toolRun>>
bounds == <<stalls, crashes>>

-----------------------------------------------------------------------------
EndStatus == {"completed", "failed", "cancelled"}

RunRow == [status: {"queued", "running", "waiting_approval"} \union EndStatus,
           cancelRequested: BOOLEAN, owner: Worker \union {Nobody},
           lease: {"none", "live", "expired"}]

(* What ends a wait.  The call has the same statuses as its approval, and  *)
(* those of its execution.                                                 *)
Decision == {"approved", "rejected", "expired", "disabled"}
ApprovalStatus == Decision \union {"none", "pending", "cancelled"}
CallStatus == ApprovalStatus \union {"completed", "failed"}

(* choice: what its user decided; the row keeps that decided_by_user_id is *)
(* set.  lapsed: expires_at is past.                                       *)
ApprovalRow == [status: ApprovalStatus,
                choice: {"none", "approved", "rejected"}, lapsed: BOOLEAN]

(* The checkpoint: before tool_prepare, behind it with a call to approve,  *)
(* past the tool nodes.                                                    *)
Stage == {"start", "prepared", "past"}

Busy == {"enter", "begin", "prepare", "note", "execute", "revalidate", "send",
         "failed_call", "record", "project", "research", "check", "final",
         "fail"}

(* resume: the value the execution was resumed with; answer: its graph ran *)
(* to its end.                                                             *)
WorkerState == [pc: Busy \union {"idle", "dead"}, run: Run \union {Nobody},
                resume: Decision \union {"none"}, answer: BOOLEAN]

(* A disabled grant or a cancellation between its reads and its commit,    *)
(* which take no lock another process respects.  seen: the approvals it    *)
(* read as pending; off: it read the grant as disabled.                    *)
ApiState == [doing: {"nothing", "disable", "cancel"}, seen: SUBSET Run,
             off: BOOLEAN]

IdleApi == [doing |-> "nothing", seen |-> {}, off |-> FALSE]

IdleWorker ==
  [pc |-> "idle", run |-> Nobody, resume |-> "none", answer |-> FALSE]

Init ==
  /\ run = [r \in Run |-> [status |-> "queued", cancelRequested |-> FALSE,
                           owner |-> Nobody, lease |-> "none"]]
  /\ grant \in {"none", "enabled", "disabled"}
  /\ call = [r \in Run |-> "none"]
  /\ approval = [r \in Run |->
                   [status |-> "none", choice |-> "none", lapsed |-> FALSE]]
  /\ toolRun = [r \in Run |-> "none"]
  /\ sent = [r \in Run |-> 0]
  /\ ckpt = [r \in Run |-> "start"]
  /\ telling = {} /\ faulted = {}
  /\ api = [p \in Api |-> IdleApi]
  /\ wk = [w \in Worker |-> IdleWorker]
  /\ stalls = 0 /\ crashes = 0

-----------------------------------------------------------------------------
Ended(r) == run[r].status \in EndStatus

Executing(w, r) == wk[w].pc \in Busy /\ wk[w].run = r

Goto(w, pc) == wk' = [wk EXCEPT ![w] = [wk[w] EXCEPT !.pc = pc]]

(* The test of every event append and of the last transactions. *)
Holds(w) ==
  /\ run[wk[w].run].owner = w
  /\ ~Ended(wk[w].run)

(* A checkpoint is durable later than the step it follows. *)
Put(r, stage) == ckpt' \in {ckpt, [ckpt EXCEPT ![r] = stage]}

(* Approval and call take one status. *)
Mark(r, status) ==
  /\ approval' = [approval EXCEPT ![r] = [@ EXCEPT !.status = status]]
  /\ call' = [call EXCEPT ![r] = status]

(* A definition named XSlip is a plausible mistake in the code of X; the   *)
(* specification never uses it.                                            *)

RequeuedSlip(r) == [run[r] EXCEPT !.status = "running", !.owner = Nobody,
                                  !.lease = "none"]

Requeued(r) == [run[r] EXCEPT !.status = "queued", !.owner = Nobody,
                              !.lease = "none"]

-----------------------------------------------------------------------------
(* The user and the administrator *)

OpenSlip(r, decision) == approval[r].status \notin {"none", decision}

Open(r, decision) == approval[r].status = "pending"

(* A process does one of these at a time, under its _lock.  Decide and     *)
(* Enable are transactions of a process that holds none open.              *)
Free(p) == api[p].doing = "nothing"

(* decide.  A repeated decision and a contrary one change nothing.  The    *)
(* run is queued whatever its status, unless it was stopped.               *)
Decide(r, decision) ==
  /\ Open(r, decision)
  /\ LET status ==
           IF run[r].cancelRequested THEN "cancelled"
           ELSE IF decision = "approved" /\ grant # "enabled" THEN "disabled"
           ELSE IF approval[r].lapsed THEN "expired" ELSE decision
     IN
     /\ approval' = [approval EXCEPT ![r] =
                       [@ EXCEPT !.status = status, !.choice = decision]]
     /\ call' = [call EXCEPT ![r] = status]
  /\ run' = [run EXCEPT ![r] =
               IF @.cancelRequested THEN [@ EXCEPT !.status = "cancelled"]
                                    ELSE Requeued(r)]
  /\ UNCHANGED <<grant, toolRun, sent, ckpt, telling, api, faulted, wk, bounds>>

(* set_workspace_enabled *)
Enable ==
  /\ grant' = "enabled"
  /\ UNCHANGED <<run, rows, sent, ckpt, telling, api, faulted, wk, bounds>>

DisableRead(p) ==
  /\ Free(p)
  /\ api' = [api EXCEPT ![p] =
               [doing |-> "disable",
                seen |-> {r \in Run : approval[r].status = "pending"},
                off |-> grant = "disabled"]]
  /\ UNCHANGED <<run, grant, rows, sent, ckpt, telling, faulted, wk, bounds>>

Over(p) == api' = [api EXCEPT ![p] = IdleApi]

(* The rows are written by their ids, whatever they hold by now. *)
WriteSeen(p, status) ==
  LET seen == api[p].seen IN
  /\ approval' = [r \in Run |-> IF r \in seen
                                THEN [approval[r] EXCEPT !.status = status]
                                ELSE approval[r]]
  /\ call' = [r \in Run |-> IF r \in seen THEN status ELSE call[r]]

(* A grant read as disabled is not written: nothing changed. *)
DisableWrite(p) ==
  /\ api[p].doing = "disable"
  /\ grant' = IF api[p].off THEN grant ELSE "disabled"
  /\ WriteSeen(p, "disabled")
  /\ run' = [r \in Run |-> IF /\ r \in api[p].seen
                              /\ run[r].status = "waiting_approval"
                              /\ ~run[r].cancelRequested
                           THEN Requeued(r) ELSE run[r]]
  /\ Over(p)
  /\ UNCHANGED <<toolRun, sent, ckpt, telling, faulted, wk, bounds>>

(* request_cancel; the approvals of a waiting run are cancelled in a       *)
(* transaction of their own.                                               *)
Stop(r) ==
  /\ ~Ended(r)
  /\ run' = [run EXCEPT ![r] = [@ EXCEPT !.status = "cancelled",
                                         !.cancelRequested = TRUE]]
  /\ telling' = IF run[r].status = "waiting_approval" THEN telling \union {r}
                                                      ELSE telling
  /\ UNCHANGED <<grant, rows, sent, ckpt, api, faulted, wk, bounds>>

CancelRead(p, r) ==
  /\ Free(p) /\ r \in telling
  /\ telling' = telling \ {r}
  /\ api' = [api EXCEPT ![p] =
               [doing |-> "cancel",
                seen |-> {q \in {r} : approval[q].status = "pending"},
                off |-> FALSE]]
  /\ UNCHANGED <<run, grant, rows, sent, ckpt, faulted, wk, bounds>>

CancelWrite(p) ==
  /\ api[p].doing = "cancel"
  /\ WriteSeen(p, "cancelled")
  /\ Over(p)
  /\ UNCHANGED <<run, grant, toolRun, sent, ckpt, telling, faulted, wk, bounds>>

-----------------------------------------------------------------------------
(* Time, pauses and crashes *)

Lapse(r) ==
  /\ approval[r].status # "none" /\ ~approval[r].lapsed
  /\ approval' = [approval EXCEPT ![r] = [@ EXCEPT !.lapsed = TRUE]]
  /\ UNCHANGED <<run, grant, call, toolRun, sent, ckpt, telling, api, faulted,
                 wk, bounds>>

Expire(r) ==
  /\ run[r].status = "running" /\ run[r].lease = "live"
  /\ \/ ~Executing(run[r].owner, r) /\ UNCHANGED stalls
     \/ /\ Executing(run[r].owner, r)
        /\ stalls < MaxStalls
        /\ stalls' = stalls + 1
  /\ run' = [run EXCEPT ![r] = [@ EXCEPT !.lease = "expired"]]
  /\ UNCHANGED <<grant, rows, sent, ckpt, telling, api, faulted, wk, crashes>>

Crash(w) ==
  /\ wk[w].pc \in Busy
  /\ crashes < MaxCrashes
  /\ crashes' = crashes + 1
  /\ wk' = [wk EXCEPT ![w] = [IdleWorker EXCEPT !.pc = "dead"]]
  /\ UNCHANGED <<run, grant, rows, sent, ckpt, telling, api, faulted, stalls>>

-----------------------------------------------------------------------------
(* A worker: from the queue to the graph *)

Claim(w, r) ==
  /\ wk[w].pc = "idle"
  /\ ~run[r].cancelRequested
  /\ \/ run[r].status = "queued"
     \/ run[r].status = "running" /\ run[r].lease = "expired"
  /\ run' = [run EXCEPT ![r] = [@ EXCEPT !.status = "running", !.owner = w,
                                         !.lease = "live"]]
  /\ wk' = [wk EXCEPT ![w] = [IdleWorker EXCEPT !.pc = "enter", !.run = r]]
  /\ UNCHANGED <<grant, rows, sent, ckpt, telling, api, faulted, bounds>>

(* pending_resume; the slip resumes every decision as an approval. *)
ResumeOfSlip(r) == IF approval[r].status \in Decision THEN "approved" ELSE "none"

ResumeOf(r) ==
  IF approval[r].status \in Decision /\ call[r] \in Decision
  THEN approval[r].status ELSE "none"

Enter(w) ==
  LET r == wk[w].run IN
  /\ wk[w].pc = "enter"
  /\ wk' = [wk EXCEPT ![w] =
       IF run[r].status \in {"queued", "running"} /\ run[r].owner = w
       THEN [wk[w] EXCEPT !.pc = "begin", !.resume = ResumeOf(r)]
       ELSE IdleWorker]
  /\ UNCHANGED <<run, grant, rows, sent, ckpt, telling, api, faulted, bounds>>

(* Where the graph continues.  A resume value is for the interrupted node; *)
(* before tool_prepare there is none and the value is lost.  Without a     *)
(* value the interrupted node interrupts again, and the graph is over.     *)
Begin(w) ==
  LET stage == ckpt[wk[w].run] IN
  /\ wk[w].pc = "begin"
  /\ Goto(w, IF stage = "start" THEN "prepare"
             ELSE IF stage = "prepared"
             THEN IF wk[w].resume = "none" THEN "check" ELSE "execute"
             ELSE "research")
  /\ UNCHANGED <<run, grant, rows, sent, ckpt, telling, api, faulted, bounds>>

(* prepare: neither the lease nor what was decided is looked at. *)
Prepare(w) ==
  LET r == wk[w].run IN
  /\ wk[w].pc = "prepare"
  /\ IF run[r].cancelRequested \/ Ended(r)
     THEN /\ Goto(w, "research") /\ Put(r, "past")
          /\ UNCHANGED <<run, grant, approval, call>>
     ELSE /\ grant' = IF grant = "none" THEN "enabled" ELSE grant
          /\ IF grant' = "disabled"
             THEN /\ Goto(w, "research") /\ Put(r, "past")
                  /\ UNCHANGED <<run, approval, call>>
             ELSE /\ call' = [call EXCEPT ![r] =
                       IF @ = "none" THEN "pending_approval" ELSE @]
                  /\ approval' = [approval EXCEPT ![r] =
                       IF @.status = "none"
                       THEN [@ EXCEPT !.status = "pending"] ELSE @]
                  /\ run' = [run EXCEPT ![r] =
                               [@ EXCEPT !.status = "waiting_approval"]]
                  /\ Goto(w, "note")
                  /\ UNCHANGED ckpt
  /\ UNCHANGED <<toolRun, sent, telling, api, faulted, bounds>>

(* tool_approval_requested is logged and the graph interrupts, which makes *)
(* its checkpoint durable.  A worker that lost the run stops before that.  *)
Note(w) ==
  LET r == wk[w].run IN
  /\ wk[w].pc = "note"
  /\ \/ /\ ckpt' = [ckpt EXCEPT ![r] = "prepared"]
        /\ Goto(w, "check")
     \/ /\ ~Holds(w)
        /\ Put(r, "prepared")
        /\ wk' = [wk EXCEPT ![w] = IdleWorker]
  /\ UNCHANGED <<run, grant, rows, sent, telling, api, faulted, bounds>>

-----------------------------------------------------------------------------
(* ToolExecutionService.execute *)

Consented(r) == approval[r].status = "approved"

AlreadyRunSlip(r) == toolRun[r] \in {"completed", "failed", "cancelled"}

AlreadyRun(r) == toolRun[r] # "none"

(* The outcome without a call: the run goes on. *)
Execute(w) ==
  LET r == wk[w].run
      refused == run[r].cancelRequested \/ approval[r].lapsed
                 \/ grant # "enabled" \/ ~Consented(r)
  IN
  /\ wk[w].pc = "execute"
  /\ IF ~run[r].cancelRequested /\ approval[r].choice = "none"
     THEN Goto(w, "fail") /\ UNCHANGED rows
     ELSE IF ~run[r].cancelRequested /\ approval[r].lapsed
     THEN Goto(w, "project") /\ Mark(r, "expired") /\ UNCHANGED toolRun
     ELSE IF ~run[r].cancelRequested /\ grant = "enabled"
             /\ approval[r].status # wk[w].resume
     THEN Goto(w, "fail") /\ UNCHANGED rows
     ELSE IF refused \/ AlreadyRun(r)
     THEN Goto(w, "project") /\ UNCHANGED rows
     ELSE /\ toolRun' = [toolRun EXCEPT ![r] = "running"]
          /\ Goto(w, "revalidate")
          /\ UNCHANGED <<approval, call>>
  /\ UNCHANGED <<run, grant, sent, ckpt, telling, api, faulted, bounds>>

(* The unlocked second look; a refusal leaves the tool run as it is. *)
Revalidate(w) ==
  LET r == wk[w].run IN
  /\ wk[w].pc = "revalidate"
  /\ Goto(w, IF \/ run[r].cancelRequested \/ ~Consented(r)
                \/ approval[r].lapsed \/ grant # "enabled"
             THEN "project" ELSE "send")
  /\ UNCHANGED <<run, grant, rows, sent, ckpt, telling, api, faulted, bounds>>

Send(w) ==
  LET r == wk[w].run IN
  /\ wk[w].pc = "send"
  /\ sent' = [sent EXCEPT ![r] = @ + 1]
  /\ \/ Goto(w, "record") /\ UNCHANGED faulted
     \/ Goto(w, "failed_call") /\ faulted' = faulted \union {r}
  /\ UNCHANGED <<run, grant, rows, ckpt, telling, api, bounds>>

FailedCall(w) ==
  LET r == wk[w].run IN
  /\ wk[w].pc = "failed_call"
  /\ toolRun' = [toolRun EXCEPT ![r] = IF @ = "running" THEN "failed" ELSE @]
  /\ call' = [call EXCEPT ![r] = "failed"]
  /\ Goto(w, "fail")
  /\ UNCHANGED <<run, grant, approval, sent, ckpt, telling, api, faulted,
                 bounds>>

ResultOfRunSlip(r) == run[r].status

ResultOf(r) ==
  IF run[r].cancelRequested \/ run[r].status = "cancelled"
  THEN "cancelled" ELSE "completed"

Record(w) ==
  LET r == wk[w].run IN
  /\ wk[w].pc = "record"
  /\ toolRun' = [toolRun EXCEPT ![r] = ResultOf(r)]
  /\ call' = [call EXCEPT ![r] = ResultOf(r)]
  /\ Goto(w, "project")
  /\ UNCHANGED <<run, grant, approval, sent, ckpt, telling, api, faulted,
                 bounds>>

(* The outcome is logged, which a worker that lost the run may not do. *)
Project(w) ==
  /\ wk[w].pc = "project"
  /\ Put(wk[w].run, "past")
  /\ \/ Goto(w, "research")
     \/ ~Holds(w) /\ wk' = [wk EXCEPT ![w] = IdleWorker]
  /\ UNCHANGED <<run, grant, rows, sent, telling, api, faulted, bounds>>

-----------------------------------------------------------------------------
(* The rest of the execution *)

Research(w) ==
  LET r == wk[w].run IN
  /\ wk[w].pc = "research"
  /\ \/ /\ wk' = [wk EXCEPT ![w] =
                    [wk[w] EXCEPT !.pc = "check", !.answer = TRUE]]
        /\ ckpt' = [ckpt EXCEPT ![r] = "past"]
     \/ /\ ~Holds(w)
        /\ wk' = [wk EXCEPT ![w] = IdleWorker]
        /\ UNCHANGED ckpt
  /\ UNCHANGED <<run, grant, rows, sent, telling, api, faulted, bounds>>

(* After the graph: a waiting run is left waiting, a lost one is left to   *)
(* its holder, one without an answer raises (KeyError).                    *)
Check(w) ==
  LET r == wk[w].run IN
  /\ wk[w].pc = "check"
  /\ IF run[r].status = "waiting_approval" \/ ~Holds(w)
     THEN wk' = [wk EXCEPT ![w] = IdleWorker]
     ELSE Goto(w, IF wk[w].answer THEN "final" ELSE "fail")
  /\ UNCHANGED <<run, grant, rows, sent, ckpt, telling, api, faulted, bounds>>

End(w, status) ==
  LET r == wk[w].run IN
  /\ run' = IF Holds(w)
            THEN [run EXCEPT ![r] = [@ EXCEPT !.status = status,
                                      !.owner = Nobody, !.lease = "none"]]
            ELSE run
  /\ wk' = [wk EXCEPT ![w] = IdleWorker]
  /\ UNCHANGED <<grant, rows, sent, ckpt, telling, api, faulted, bounds>>

Final(w) == wk[w].pc = "final" /\ End(w, "completed")

(* A provider or the checkpoint store fails. *)
Raise(w) ==
  /\ wk[w].pc \in {"begin", "note", "research"}
  /\ Goto(w, "fail")
  /\ faulted' = faulted \union {wk[w].run}
  /\ UNCHANGED <<run, grant, rows, sent, ckpt, telling, api, bounds>>

Fail(w) == wk[w].pc = "fail" /\ End(w, "failed")

-----------------------------------------------------------------------------
Step(w) ==
  \/ Enter(w) \/ Begin(w) \/ Prepare(w) \/ Note(w) \/ Execute(w)
  \/ Revalidate(w) \/ Send(w) \/ FailedCall(w) \/ Record(w) \/ Project(w)
  \/ Research(w) \/ Check(w) \/ Final(w) \/ Fail(w)

Next ==
  \/ \E r \in Run : \/ \E d \in {"approved", "rejected"} : Decide(r, d)
                    \/ Stop(r) \/ Lapse(r) \/ Expire(r)
                    \/ \E p \in Api : CancelRead(p, r)
  \/ Enable
  \/ \E p \in Api : DisableRead(p) \/ DisableWrite(p) \/ CancelWrite(p)
  \/ \E w \in Worker : \/ Step(w) \/ Raise(w) \/ Crash(w)
                       \/ \E r \in Run : Claim(w, r)

Spec == Init /\ [][Next]_vars

(* Workers poll and execute in a loop; a lease nobody renews runs out.     *)
(* Nobody is forced to decide, to stop or to toggle the grant.             *)
Fairness ==
  /\ \A w \in Worker : WF_vars(Step(w)) /\ WF_vars(\E r \in Run : Claim(w, r))
  /\ \A r \in Run : WF_vars(Expire(r) /\ stalls' = stalls)

FairSpec == Spec /\ Fairness

-----------------------------------------------------------------------------
(* Invariants *)

(* Rows and workers keep their shape. *)
TypeOK ==
  /\ run \in [Run -> RunRow]
  /\ grant \in {"none", "enabled", "disabled"}
  /\ call \in [Run -> CallStatus \union {"pending_approval"}]
  /\ approval \in [Run -> ApprovalRow]
  /\ toolRun \in [Run -> {"none", "running", "completed", "failed", "cancelled"}]
  /\ sent \in [Run -> Nat]
  /\ ckpt \in [Run -> Stage]
  /\ telling \subseteq Run /\ faulted \subseteq Run
  /\ api \in [Api -> ApiState]
  /\ wk \in [Worker -> WorkerState]
  /\ stalls \in Nat /\ crashes \in Nat

(* However often a run is resumed, by how many workers and after whatever  *)
(* crash, its call is sent at most once, and a tool run that is over was.  *)
SentOnce ==
  \A r \in Run :
    /\ sent[r] <= 1
    /\ toolRun[r] = "none" => sent[r] = 0
    /\ toolRun[r] \in {"completed", "failed", "cancelled"} => sent[r] = 1

(* A call with a tool run was approved by its user, and was not rejected:  *)
(* what may have become of its approval since is that its time ran out, or *)
(* that a transaction which had read it as pending disabled or cancelled   *)
(* it.                                                                     *)
OnlyApprovedRuns ==
  \A r \in Run : toolRun[r] # "none" =>
    /\ approval[r].choice = "approved"
    /\ approval[r].status \in {"approved", "expired", "disabled", "cancelled"}

(* A decision that is still to come finds a run that waits for it: nobody  *)
(* executes or queues an open run whose approval is pending.               *)
PendingMeansWaiting ==
  \A r \in Run :
    approval[r].status = "pending" /\ ~Ended(r) =>
      run[r].status = "waiting_approval"

(* A call with an effect outside is sent once, if and only after its user  *)
(* allowed it, and its run waits for that (tool_execution.py).  The types  *)
(* are the first part: an execution has its run and its answer in hand.    *)
CallsAreSafe ==
  /\ TypeOK
  /\ SentOnce
  /\ OnlyApprovedRuns
  /\ PendingMeansWaiting

(* Unless a worker was lost, a run fails only because a provider or the    *)
(* tool did, or because its waiting call was disabled: set_workspace_enabled *)
(* names no deciding user, and the resumed execute takes that for another  *)
(* user's decision.  Above all a rejected or stopped call fails no run.     *)
FailsForCause ==
  \A r \in Run :
    run[r].status = "failed" /\ stalls = 0 /\ crashes = 0 =>
      r \in faulted \/ approval[r].status = "disabled"

-----------------------------------------------------------------------------
(* What a step may never do *)

Settled(r) == approval[r].status \notin {"none", "pending"}

(* What the open transaction of a process makes of the approvals it read.  *)
Verdict(p) == IF api[p].doing = "disable" THEN "disabled" ELSE "cancelled"

(* A decision stands: its user takes none back, only time may turn it into *)
(* "expired", and only a transaction that read the approval while it was   *)
(* pending may disable or cancel it; none reads a settled one as pending.  *)
DecisionStands ==
  [][\A r \in Run :
       /\ Settled(r) =>
            /\ \/ approval'[r].status \in {approval[r].status, "expired"}
               \/ \E p \in Api : /\ r \in api[p].seen
                                 /\ approval'[r].status = Verdict(p)
            /\ \A p \in Api : r \in api'[p].seen => r \in api[p].seen
       /\ approval[r].choice # "none" =>
            approval'[r].choice = approval[r].choice]_vars

(* A run that was stopped, even while its call was under way, starts no    *)
(* tool run and keeps no result.                                           *)
StoppedKeepsNoResult ==
  [][\A r \in Run :
       run[r].cancelRequested /\ toolRun'[r] # toolRun[r] =>
         toolRun'[r] \in {"cancelled", "failed"}]_vars

(* What was decided of a call, by its user or by stopping the run, is not  *)
(* undone by any execution, and by an open transaction only if that read   *)
(* the approval before it was decided (tool_execution.py).                 *)
DecisionsHold ==
  /\ DecisionStands
  /\ StoppedKeepsNoResult

-----------------------------------------------------------------------------
(* Liveness *)

(* A run that is queued or executed ends, or comes to wait for its user,   *)
(* unless every worker has died.                                           *)
EndsOrWaits ==
  \A r \in Run :
    run[r].status \in {"queued", "running"} ~>
      \/ Ended(r) \/ run[r].status = "waiting_approval"
      \/ \A w \in Worker : wk[w].pc = "dead"
=============================================================================
