---------------------------- MODULE RunLifecycle ----------------------------
(***************************************************************************)
(* The durable execution of Research Runs: the PostgreSQL run queue        *)
(* (run_queue.py), the workers that lease runs from it (worker.py), the    *)
(* coordinator's transactions (coordinator.py), the per-run event log      *)
(* (event_log.py), the workspace quota (quota.py) and the LangGraph        *)
(* checkpoint a takeover resumes from (graph.py).                          *)
(*                                                                         *)
(* One action is one database transaction, or one step of a worker between *)
(* two of them.  A transaction that reads the run row without FOR UPDATE   *)
(* and writes on the strength of it is two actions, so that a cancel or a  *)
(* takeover may commit in between.  The questions asked here need no tool  *)
(* approval, no sandbox job and no whole-page map.                         *)
(***************************************************************************)
EXTENDS Integers, FiniteSets, Sequences

CONSTANTS
  Run,          \* research runs that clients may submit
  Worker,       \* worker processes; a restarted process is a new owner string
  Nobody,       \* lease_owner IS NULL
  TaskCount,    \* tasks of the plan, numbered by ordinal; task 1 has no dependency
  Budget,       \* tokens a run reserves: the sum of its tasks' token_budget
  Usage,        \* tokens the writer's model call reports
  Limit,        \* token_limit of the workspace quota policy
  MaxCrashes,   \* bound: worker processes that die
  MaxStalls,    \* bound: leases that expire under a live worker
  MaxBeats      \* bound: heartbeats sent

ASSUME NobodyIsNoWorker == Nobody \notin Worker
ASSUME RunIsFinite == IsFiniteSet(Run)
ASSUME CountsAreNatural ==
  /\ TaskCount \in Nat \ {0}
  /\ Budget \in Nat /\ Usage \in Nat /\ Limit \in Nat
  /\ MaxCrashes \in Nat /\ MaxStalls \in Nat /\ MaxBeats \in Nat

VARIABLES
  run,        \* the research_runs rows
  policy,     \* the workspace's quota_policies row
  task,       \* task[r][t]: status of the research_tasks row
  lead,       \* lead[r]: lease_owner and fencing_epoch of the row of task First
  outcome,    \* outcome[r][t]: kind of the task_outcomes row, "none" without one
  log,        \* log[r]: the run_events rows
  stop,       \* stop[r]: route of the run's stop_decisions row, "none" without one
  result,     \* result[r]: the published answer and the promoted research record
  ckpt,       \* ckpt[r]: latest LangGraph checkpoint of thread run:{r}
  wk,         \* wk[w]: what worker w is doing, all of it lost when it dies
  submitted,  \* runs created so far, the source of created_at
  crashes, stalls, beats,  \* what the bounds count
  faulted     \* auxiliary: runs for which a provider or the quota raised

rows == <<run, policy, task, lead, outcome, log, stop, result>>
env == <<submitted, crashes, stalls, beats, faulted>>
vars == <<run, policy, task, lead, outcome, log, stop, result, ckpt, wk,
          submitted, crashes, stalls, beats, faulted>>

-----------------------------------------------------------------------------
Task == 1..TaskCount
First == 1                       \* the only task with no dependency
Whole == 0                       \* the task field of an event about the run

TerminalStatus == {"completed", "partial", "cancelled", "failed"}
RunStatus == {"absent", "queued", "running"} \union TerminalStatus

LiveTask == {"pending", "ready", "running"}
FinishedTask == {"completed", "failed", "cancelled", "skipped"}

RunRow == [status: RunStatus, owner: Worker \union {Nobody},
           lease: {"none", "live", "expired"}, attempt: Nat,
           cancelRequested: BOOLEAN,
           reservation: {"none", "reserved", "settled", "released"},
           nextSeq: Nat, created: Nat]

(* The graph's super-steps in order, as the worker's program counter; the  *)
(* n-th is what runs next when n - 1 of them are checkpointed.             *)
GraphStep == <<"planner", "research", "verify", "write", "validate", "leave">>

(* Program counters of a worker that executes a run. *)
Active == {"enter", "start", "search", "planner", "planRead", "planCommit",
           "reserve", "research", "researchRead", "researchCommit", "verify",
           "write", "wrote", "validate", "leave", "wait", "conclude", "delta",
           "usage", "final", "cancel", "fail", "release"}
Pc == Active \union {"idle", "dead"}

Finding == {"none", "ok", "failed"}

(* got: the graph updates this execution has seen, which is all that its   *)
(* graph_state holds; seen: the fencing epoch the unlocked plan transaction *)
(* read; beat: the heartbeat thread is between its read and its write.     *)
WorkerState == [pc: Pc, run: Run \union {Nobody}, epoch: Nat,
                got: SUBSET {"verification", "usage", "answer"},
                findings: Finding, seen: Nat, beat: BOOLEAN,
                err: {"none", "search", "budget", "other"}]

IdleWorker == [pc |-> "idle", run |-> Nobody, epoch |-> 0, got |-> {},
               findings |-> "none", seen |-> 0, beat |-> FALSE,
               err |-> "none"]

EventName == {"run-queued", "plan-created", "run-started", "stage-planning",
              "stage-researching", "stage-verifying", "stage-writing",
              "assistant-delta", "model-usage", "assistant-failure",
              "task-terminal", "run-terminal", "run-cancelled"}

Event == [seq: Nat, name: EventName, task: Nat]

(* Events written with event_key NULL: nothing in the schema keeps a       *)
(* second one out.                                                         *)
Unkeyed == {"assistant-delta", "run-cancelled"}

(* The events that tell a client that the run is over. *)
Ending == {"run-terminal", "run-cancelled"}

Route == {"none", "complete", "partial", "failed", "cancelled"}

Init ==
  /\ run = [r \in Run |->
             [status |-> "absent", owner |-> Nobody, lease |-> "none",
              attempt |-> 0, cancelRequested |-> FALSE,
              reservation |-> "none", nextSeq |-> 1, created |-> 0]]
  /\ policy = [used |-> 0, reserved |-> 0]
  /\ task = [r \in Run |-> [t \in Task |-> "pending"]]
  /\ lead = [r \in Run |-> [owner |-> Nobody, epoch |-> 0]]
  /\ outcome = [r \in Run |-> [t \in Task |-> "none"]]
  /\ log = [r \in Run |-> {}]
  /\ stop = [r \in Run |-> "none"]
  /\ result = [r \in Run |-> [answered |-> FALSE, record |-> FALSE]]
  /\ ckpt = [r \in Run |-> [stage |-> 0, findings |-> "none"]]
  /\ wk = [w \in Worker |-> IdleWorker]
  /\ submitted = 0 /\ crashes = 0 /\ stalls = 0 /\ beats = 0
  /\ faulted = {}

-----------------------------------------------------------------------------
(* What a worker may see and do *)

Open(r) == run[r].status \in {"queued", "running"}

Goto(w, pc) == wk' = [wk EXCEPT ![w] = [wk[w] EXCEPT !.pc = pc]]

GotoFail(w, err) ==
  wk' = [wk EXCEPT ![w] = [wk[w] EXCEPT !.pc = "fail", !.err = err]]

GotoHaving(w, pc, update) ==
  wk' = [wk EXCEPT ![w] = [wk[w] EXCEPT !.pc = pc,
                             !.got = wk[w].got \union {update}]]

(* RunCancelledError is raised for a cancelled run and for a lost lease. *)
Lost(w) ==
  \/ run[wk[w].run].cancelRequested
  \/ run[wk[w].run].owner # w

Accepts(w) ==
  LET row == run[wk[w].run] IN
  /\ row.status \notin TerminalStatus
  /\ ~row.cancelRequested
  /\ row.owner = w
  /\ row.attempt = wk[w].epoch

Logged(r, name) == \E e \in log[r] : e.name = name

(* One _append_event: an event whose key exists is returned as it is, one  *)
(* the log rejects is dropped without a trace.                             *)
Append1(w, name) ==
  LET r == wk[w].run IN
  IF Accepts(w) /\ (name \in Unkeyed \/ ~Logged(r, name))
  THEN /\ run' = [run EXCEPT ![r] =
                    [run[r] EXCEPT !.nextSeq = run[r].nextSeq + 1]]
       /\ log' = [log EXCEPT ![r] = @ \union
            {[seq |-> run[r].nextSeq, name |-> name, task |-> Whole]}]
  ELSE UNCHANGED <<run, log>>

(* A definition named XSlip is a plausible mistake in the code of X.  The   *)
(* specification never uses it; it shows that a property notices X.        *)

MayEndSlip2(w) == run[wk[w].run].owner = w

MayEndSlip3(w) ==
  /\ run[wk[w].run].status \notin TerminalStatus
  /\ run[wk[w].run].owner = w
  /\ run[wk[w].run].lease = "live"

(* The transactions that end a run test its status and its owner.  None of *)
(* them tests the epoch: FencedOwner is why the owner suffices.            *)
MayEnd(w) ==
  /\ run[wk[w].run].status \notin TerminalStatus
  /\ run[wk[w].run].owner = w

-----------------------------------------------------------------------------
(* Quota of the workspace, one policy row for all of its runs *)

Less(p) == [p EXCEPT !.reserved = IF @ > Budget THEN @ - Budget ELSE 0]

AlreadyReserved(r) == run[r].reservation # "none"

Fits(p) == p.used + p.reserved + Budget <= Limit

Settle(r, tokens) ==
  IF run[r].reservation = "reserved"
  THEN [Less(policy) EXCEPT !.used = @ + tokens]
  ELSE policy

ReleaseQuota(r) ==
  IF run[r].reservation = "reserved" THEN Less(policy) ELSE policy

ReservationAfterSlip(r, to) == run[r].reservation

ReservationAfter(r, to) ==
  IF run[r].reservation = "reserved" THEN to ELSE run[r].reservation

-----------------------------------------------------------------------------
(* What every transaction that ends a run writes *)

FinishedSlip(ts) == {t \in Task : ts[t] \in FinishedTask \ {"skipped"}}

Finished(ts) == {t \in Task : ts[t] \in FinishedTask}

(* The tasks whose task_terminal event is still to be written. *)
Unannounced(r, ts) ==
  Finished(ts) \ {e.task : e \in {x \in log[r] : x.name = "task-terminal"}}

(* The last events of run r in their order: one per task of tasks (by      *)
(* ordinal; the query that lists them has no ORDER BY) and then closing.   *)
Batch(r, tasks, closing) ==
  LET next == run[r].nextSeq IN
  {[seq |-> next + Cardinality({u \in tasks : u < t}),
    name |-> "task-terminal", task |-> t] : t \in tasks}
  \union
  {[seq |-> next + Cardinality(tasks) + i - 1,
    name |-> closing[i], task |-> Whole] : i \in 1..Len(closing)}

SeqAfter(r, tasks, closing) ==
  run[r].nextSeq + Cardinality(tasks) + Len(closing)

Write(r, row, tasks, closing) ==
  /\ run' = [run EXCEPT ![r] =
               [row EXCEPT !.nextSeq = SeqAfter(r, tasks, closing)]]
  /\ log' = [log EXCEPT ![r] = @ \union Batch(r, tasks, closing)]

(* One outcome for every finished task, never rewritten; the claim on task *)
(* First is fenced when somebody else holds it, then given up.             *)
SettleTasks(w, r, ts) ==
  /\ task' = [task EXCEPT ![r] = ts]
  /\ outcome' = [outcome EXCEPT ![r] =
       [t \in Task |-> IF @[t] = "none" /\ t \in Finished(ts)
                       THEN ts[t] ELSE @[t]]]
  /\ lead' = [lead EXCEPT ![r] =
       IF outcome[r][First] = "none" /\ First \in Finished(ts)
       THEN [owner |-> Nobody,
             epoch |-> IF @.owner = w THEN @.epoch ELSE @.epoch + 1]
       ELSE @]

RouteOfSlip(status) == status

RouteOf(status) == IF status = "completed" THEN "complete" ELSE status

Decide(r, status) ==
  stop' = [stop EXCEPT ![r] = IF @ = "none" THEN RouteOf(status) ELSE @]

DecideStopSlip(gap, verification, claims, citations) ==
  IF \/ verification \in {"insufficient", "not_checkable"}
     \/ claims = 0
     \/ citations < claims
  THEN "partial"
  ELSE "completed"

(* decide_stop for a run that asks to be completed, without map work. *)
DecideStop(gap, verification, claims, citations) ==
  IF \/ gap
     \/ verification \in {"insufficient", "not_checkable"}
     \/ claims = 0
     \/ citations < claims
  THEN "partial"
  ELSE "completed"

-----------------------------------------------------------------------------
(* The API: submitting and stopping a run *)

(* The queued run, its plan and its first two events are one transaction.  *)
Submit(r) ==
  /\ run[r].status = "absent"
  /\ run' = [run EXCEPT ![r] =
               [run[r] EXCEPT !.status = "queued", !.nextSeq = 3,
                         !.created = submitted + 1]]
  /\ task' = [task EXCEPT ![r] =
                [t \in Task |-> IF t = First THEN "ready" ELSE "pending"]]
  /\ log' = [log EXCEPT ![r] =
               {[seq |-> 1, name |-> "run-queued", task |-> Whole],
                [seq |-> 2, name |-> "plan-created", task |-> Whole]}]
  /\ submitted' = submitted + 1
  /\ UNCHANGED <<policy, lead, outcome, stop, result, ckpt, wk,
                 crashes, stalls, beats, faulted>>

StoppableSlip(r) == run[r].status \notin {"absent", "cancelled"}

(* The route stops a run whoever executes it: the run is cancelled here    *)
(* and now, and its executor finds out later.  Ready tasks are left alone  *)
(* and no task gets an outcome.                                            *)
Stoppable(r) == run[r].status \notin TerminalStatus \union {"absent"}

RequestCancel(r) ==
  /\ Stoppable(r)
  /\ policy' = ReleaseQuota(r)
  /\ task' = [task EXCEPT ![r] =
       [t \in Task |-> IF @[t] \in {"pending", "running"}
                       THEN "cancelled" ELSE @[t]]]
  /\ Write(r, [run[r] EXCEPT !.status = "cancelled", !.cancelRequested = TRUE,
                 !.reservation = ReservationAfter(r, "released")],
           {}, IF Logged(r, "run-terminal") THEN <<>> ELSE <<"run-terminal">>)
  /\ Decide(r, "cancelled")
  /\ UNCHANGED <<lead, outcome, result, ckpt, wk, env>>

-----------------------------------------------------------------------------
(* The queue: lease, heartbeat, expiry and release *)

ClaimableSlip(r) == ~run[r].cancelRequested /\ run[r].status = "queued"

Claimable(r) ==
  /\ ~run[r].cancelRequested
  /\ \/ run[r].status = "queued"
     \/ run[r].status = "running" /\ run[r].lease = "expired"

NextAttempt(r) == run[r].attempt + 1

Claim(w, r) ==
  /\ wk[w].pc = "idle"
  /\ Claimable(r)
  /\ \A q \in Run : Claimable(q) => run[r].created <= run[q].created
  /\ run' = [run EXCEPT ![r] =
               [run[r] EXCEPT !.status = "running", !.owner = w,
                         !.lease = "live", !.attempt = NextAttempt(r)]]
  /\ wk' = [wk EXCEPT ![w] = [IdleWorker EXCEPT !.pc = "enter", !.run = r,
                                !.epoch = NextAttempt(r)]]
  /\ UNCHANGED <<policy, task, lead, outcome, log, stop, result, ckpt, env>>

(* The heartbeat thread reads the row without a lock and updates it by its *)
(* id, so a late write extends the lease of whoever holds the run by then. *)
HeartbeatRead(w) ==
  LET row == run[wk[w].run] IN
  /\ beats < MaxBeats
  /\ wk[w].pc \in Active
  /\ ~wk[w].beat
  /\ row.owner = w
  /\ row.status \in {"queued", "running"}
  /\ row.attempt = wk[w].epoch
  /\ wk' = [wk EXCEPT ![w] = [wk[w] EXCEPT !.beat = TRUE]]
  /\ beats' = beats + 1
  /\ UNCHANGED <<rows, ckpt, submitted, crashes, stalls, faulted>>

HeartbeatWrite(w) ==
  /\ wk[w].beat
  /\ run' = [run EXCEPT ![wk[w].run] =
               [run[wk[w].run] EXCEPT !.lease = "live"]]
  /\ wk' = [wk EXCEPT ![w] = [wk[w] EXCEPT !.beat = FALSE]]
  /\ UNCHANGED <<policy, task, lead, outcome, log, stop, result, ckpt, env>>

Executing(w, r) == wk[w].pc \in Active /\ wk[w].run = r

(* Nobody renews the lease of a worker that is gone. *)
ExpireOrphan(r) ==
  /\ run[r].status = "running" /\ run[r].lease = "live"
  /\ ~\E w \in Worker : run[r].owner = w /\ Executing(w, r)
  /\ run' = [run EXCEPT ![r] = [run[r] EXCEPT !.lease = "expired"]]
  /\ UNCHANGED <<policy, task, lead, outcome, log, stop, result, ckpt, wk, env>>

(* A paused or partitioned worker misses its heartbeats for lease_seconds. *)
Stall(r) ==
  /\ stalls < MaxStalls
  /\ run[r].status = "running" /\ run[r].lease = "live"
  /\ \E w \in Worker : run[r].owner = w /\ Executing(w, r)
  /\ run' = [run EXCEPT ![r] = [run[r] EXCEPT !.lease = "expired"]]
  /\ stalls' = stalls + 1
  /\ UNCHANGED <<policy, task, lead, outcome, log, stop, result, ckpt, wk,
                 submitted, crashes, beats, faulted>>

Release(w) ==
  LET r == wk[w].run IN
  /\ wk[w].pc = "release"
  /\ run' = IF /\ run[r].owner = w
               /\ run[r].attempt = wk[w].epoch
               /\ run[r].status \in TerminalStatus
            THEN [run EXCEPT ![r] =
                    [run[r] EXCEPT !.owner = Nobody, !.lease = "none"]]
            ELSE run
  /\ wk' = [wk EXCEPT ![w] = IdleWorker]
  /\ UNCHANGED <<policy, task, lead, outcome, log, stop, result, ckpt, env>>

(* A process dies with all it held in memory; the one started in its place *)
(* draws a new owner string, so it is another worker.                      *)
Crash(w) ==
  /\ crashes < MaxCrashes
  /\ wk[w].pc \in Active
  /\ wk' = [wk EXCEPT ![w] = [IdleWorker EXCEPT !.pc = "dead"]]
  /\ crashes' = crashes + 1
  /\ UNCHANGED <<rows, ckpt, submitted, stalls, beats, faulted>>

-----------------------------------------------------------------------------
(* execute_runtime_v2 up to the graph *)

Enter(w) ==
  LET row == run[wk[w].run] IN
  /\ wk[w].pc = "enter"
  /\ Goto(w, IF /\ Open(wk[w].run)
                /\ row.owner = w
                /\ row.attempt = wk[w].epoch
             THEN "start" ELSE "release")
  /\ UNCHANGED <<rows, ckpt, env>>

Start(w) ==
  /\ wk[w].pc = "start"
  /\ Append1(w, "run-started")
  /\ Goto(w, "search")
  /\ UNCHANGED <<policy, task, lead, outcome, stop, result, ckpt, env>>

(* The search is over and the graph starts, at the step its checkpoint is  *)
(* for.  What earlier steps returned is in the checkpoint, not in got.     *)
Search(w) ==
  LET saved == ckpt[wk[w].run] IN
  /\ wk[w].pc = "search"
  /\ wk' = [wk EXCEPT ![w] = [wk[w] EXCEPT !.pc = GraphStep[saved.stage + 1],
                                       !.findings = saved.findings]]
  /\ UNCHANGED <<rows, ckpt, env>>

(* A provider raises: the search, the model, the citation check of the     *)
(* graph, or the one of the last transaction, which is rolled back.        *)
Raise(w) ==
  /\ wk[w].pc \in {"search", "write", "validate", "final"}
  /\ wk[w].pc = "final" => MayEnd(w)
  /\ GotoFail(w, IF wk[w].pc = "search" THEN "search" ELSE "other")
  /\ faulted' = faulted \union {wk[w].run}
  /\ UNCHANGED <<rows, ckpt, submitted, crashes, stalls, beats>>

-----------------------------------------------------------------------------
(* The graph's steps and what the coordinator does with their updates      *)

(* Checkpoints are put in the background: n steps are durable, or not yet. *)
Put(w, n) ==
  \E durable \in BOOLEAN :
    ckpt' = IF durable
            THEN [ckpt EXCEPT ![wk[w].run] =
                    [stage |-> n, findings |-> wk'[w].findings]]
            ELSE ckpt

Plan(w) ==
  /\ wk[w].pc = "planner"
  /\ Append1(w, "stage-planning")
  /\ Goto(w, "planRead")
  /\ UNCHANGED <<policy, task, lead, outcome, stop, result, ckpt, env>>

(* _materialize_plan reads run and tasks without a lock; a claim this very *)
(* worker made before stands.                                              *)
PlanRead(w) ==
  LET r == wk[w].run IN
  /\ wk[w].pc = "planRead"
  /\ IF /\ Open(r) /\ run[r].owner = w
        /\ ~(task[r][First] = "running" /\ lead[r].owner = w)
     THEN wk' = [wk EXCEPT ![w] = [wk[w] EXCEPT !.pc = "planCommit",
                                            !.seen = lead[r].epoch]]
     ELSE Goto(w, "reserve")
  /\ UNCHANGED <<rows, ckpt, env>>

(* ... and writes what it decided then.  task_claims is unique by task and *)
(* epoch, so a claim somebody else made in the meantime makes this one fail. *)
PlanCommit(w) ==
  LET r == wk[w].run IN
  /\ wk[w].pc = "planCommit"
  /\ IF lead[r].epoch # wk[w].seen
     THEN /\ GotoFail(w, "other")
          /\ UNCHANGED <<task, lead>>
     ELSE /\ task' = [task EXCEPT ![r][First] = "running"]
          /\ lead' = [lead EXCEPT ![r] =
                        [owner |-> w, epoch |-> wk[w].seen + 1]]
          /\ Goto(w, "reserve")
  /\ UNCHANGED <<run, policy, outcome, log, stop, result, ckpt, env>>

(* The budget is reserved under the locks of the run and of the policy.    *)
Reserve(w) ==
  LET r == wk[w].run IN
  /\ wk[w].pc = "reserve"
  /\ IF Lost(w)
     THEN /\ Goto(w, "cancel")
          /\ UNCHANGED <<run, policy, ckpt, faulted>>
     ELSE IF AlreadyReserved(r)
     THEN /\ Goto(w, "research")
          /\ Put(w, 1)
          /\ UNCHANGED <<run, policy, faulted>>
     ELSE IF ~Fits(policy)
     THEN /\ GotoFail(w, "budget")
          /\ faulted' = faulted \union {r}
          /\ UNCHANGED <<run, policy, ckpt>>
     ELSE /\ policy' = [policy EXCEPT !.reserved = @ + Budget]
          /\ run' = [run EXCEPT ![r] = [run[r] EXCEPT !.reservation = "reserved"]]
          /\ Goto(w, "research")
          /\ Put(w, 1)
          /\ UNCHANGED faulted
  /\ UNCHANGED <<task, lead, outcome, log, stop, result,
                 submitted, crashes, stalls, beats>>

(* The researchers' findings: one of them failed, or none. *)
Research(w) ==
  /\ wk[w].pc = "research"
  /\ Append1(w, "stage-researching")
  /\ \E f \in {"ok", "failed"} :
       wk' = [wk EXCEPT ![w] = [wk[w] EXCEPT !.findings = f,
                !.pc = IF f = "failed" THEN "researchRead" ELSE "verify"]]
  /\ \/ /\ wk'[w].pc = "verify"
        /\ Put(w, 2)
     \/ /\ wk'[w].pc = "researchRead"
        /\ UNCHANGED ckpt
  /\ UNCHANGED <<policy, task, lead, outcome, stop, result, env>>

(* _record_researcher_outcome reads the run without a lock. *)
ResearchRead(w) ==
  /\ wk[w].pc = "researchRead"
  /\ IF Lost(w)
     THEN /\ Goto(w, "verify")
          /\ Put(w, 2)
     ELSE /\ Goto(w, "researchCommit")
          /\ UNCHANGED ckpt
  /\ UNCHANGED <<rows, env>>

ResearchCommit(w) ==
  /\ wk[w].pc = "researchCommit"
  /\ task' = [task EXCEPT ![wk[w].run][First] = "failed"]
  /\ Goto(w, "verify")
  /\ Put(w, 2)
  /\ UNCHANGED <<run, policy, lead, outcome, log, stop, result, env>>

Verify(w) ==
  /\ wk[w].pc = "verify"
  /\ Append1(w, "stage-verifying")
  /\ GotoHaving(w, "write", "verification")
  /\ Put(w, 3)
  /\ UNCHANGED <<policy, task, lead, outcome, stop, result, env>>

(* The model streams; its cancellation token is checked at every delta.    *)
WriteAnswer(w) ==
  /\ wk[w].pc = "write"
  /\ IF Lost(w)
     THEN Goto(w, "cancel")
     ELSE GotoHaving(w, "wrote", "usage")
  /\ UNCHANGED <<rows, ckpt, env>>

Wrote(w) ==
  /\ wk[w].pc = "wrote"
  /\ Append1(w, "stage-writing")
  /\ Goto(w, "validate")
  /\ Put(w, 4)
  /\ UNCHANGED <<policy, task, lead, outcome, stop, result, env>>

Validate(w) ==
  /\ wk[w].pc = "validate"
  /\ GotoHaving(w, "leave", "answer")
  /\ Put(w, 5)
  /\ UNCHANGED <<rows, env>>

(* The graph's exit waits for the checkpoints still in flight. *)
Leave(w) ==
  /\ wk[w].pc = "leave"
  /\ ckpt' = [ckpt EXCEPT ![wk[w].run] =
                [stage |-> 5, findings |-> wk[w].findings]]
  /\ Goto(w, "wait")
  /\ UNCHANGED <<rows, env>>

-----------------------------------------------------------------------------
(* execute_runtime_v2 after the graph *)

(* _wait_for_sandbox_todos, for a run without one. *)
Wait(w) ==
  /\ wk[w].pc = "wait"
  /\ Goto(w, IF Lost(w) THEN "cancel" ELSE "conclude")
  /\ UNCHANGED <<rows, ckpt, env>>

(* graph_state["answer"] is a KeyError when this execution's graph had     *)
(* nothing left to run.                                                    *)
Conclude(w) ==
  /\ wk[w].pc = "conclude"
  /\ IF run[wk[w].run].cancelRequested
     THEN Goto(w, "cancel")
     ELSE IF "answer" \notin wk[w].got
     THEN GotoFail(w, "other")
     ELSE Goto(w, "delta")
  /\ UNCHANGED <<rows, ckpt, env>>

Delta(w) ==
  /\ wk[w].pc = "delta"
  /\ Append1(w, "assistant-delta")
  /\ Goto(w, "usage")
  /\ UNCHANGED <<policy, task, lead, outcome, stop, result, ckpt, env>>

RecordUsage(w) ==
  /\ wk[w].pc = "usage"
  /\ IF "usage" \in wk[w].got
     THEN Append1(w, "model-usage")
     ELSE UNCHANGED <<run, log>>
  /\ Goto(w, "final")
  /\ UNCHANGED <<policy, task, lead, outcome, stop, result, ckpt, env>>

(* The answer is published, the quota settled with the usage seen, the     *)
(* record promoted, and the run completed or partial.  A verification this *)
(* execution did not see counts as "supported".                            *)
Publish(w, r, cited) ==
  LET tokens == IF "usage" \in wk[w].got THEN Usage ELSE 0
      verification ==
        IF "verification" \in wk[w].got /\ wk[w].findings = "failed"
        THEN "insufficient" ELSE "supported"
      record == cited /\ verification = "supported"
      gap == \E t \in Task : task[r][t] \in {"failed", "skipped"}
      status == DecideStop(gap, verification, IF record THEN 1 ELSE 0,
                           IF cited THEN 1 ELSE 0)
      done == [t \in Task |-> IF task[r][t] \in LiveTask
                              THEN "completed" ELSE task[r][t]]
  IN
  /\ policy' = Settle(r, tokens)
  /\ result' = [result EXCEPT ![r] = [answered |-> TRUE, record |-> record]]
  /\ Decide(r, status)
  /\ SettleTasks(w, r, done)
  /\ Write(r, [run[r] EXCEPT !.status = status,
                 !.reservation = ReservationAfter(r, "settled")],
           Unannounced(r, done), <<"run-terminal">>)

(* The last transaction's answer to a cancellation it finds requested. *)
StopInFinal(w, r) ==
  LET done == [t \in Task |-> IF task[r][t] \in {"pending", "running"}
                              THEN "cancelled" ELSE task[r][t]]
  IN
  /\ policy' = ReleaseQuota(r)
  /\ SettleTasks(w, r, done)
  /\ Write(r, [run[r] EXCEPT !.status = "cancelled",
                 !.reservation = ReservationAfter(r, "released")],
           Unannounced(r, done), <<"run-terminal">>)
  /\ UNCHANGED <<stop, result>>

Final(w) ==
  LET r == wk[w].run IN
  /\ wk[w].pc = "final"
  /\ IF ~MayEnd(w)
     THEN UNCHANGED rows
     ELSE IF run[r].cancelRequested
     THEN StopInFinal(w, r)
     ELSE \E cited \in BOOLEAN : Publish(w, r, cited)
  /\ Goto(w, "release")
  /\ UNCHANGED <<ckpt, env>>

(* _fail: a budget error skips the tasks that never started. *)
Fail(w) ==
  LET r == wk[w].run
      done == [t \in Task |->
                 IF task[r][t] \notin LiveTask THEN task[r][t]
                 ELSE IF wk[w].err = "budget" /\ task[r][t] = "pending"
                 THEN "skipped" ELSE "failed"]
  IN
  /\ wk[w].pc = "fail"
  /\ IF MayEnd(w)
     THEN /\ policy' = ReleaseQuota(r)
          /\ SettleTasks(w, r, done)
          /\ Decide(r, "failed")
          /\ Write(r, [run[r] EXCEPT !.status = "failed",
                         !.reservation = ReservationAfter(r, "released")],
                   Unannounced(r, done),
                   IF wk[w].err = "search"
                   THEN <<"assistant-failure", "run-terminal">>
                   ELSE <<"run-terminal">>)
          /\ UNCHANGED result
     ELSE UNCHANGED rows
  /\ Goto(w, "release")
  /\ UNCHANGED <<ckpt, env>>

(* _cancel: how an executor that finds its run stopped, or its lease lost, *)
(* ends.  Its event carries no key.                                        *)
Cancel(w) ==
  LET r == wk[w].run
      done == [t \in Task |-> IF task[r][t] \in LiveTask
                              THEN "cancelled" ELSE task[r][t]]
  IN
  /\ wk[w].pc = "cancel"
  /\ IF MayEnd(w)
     THEN /\ policy' = ReleaseQuota(r)
          /\ Decide(r, "cancelled")
          /\ SettleTasks(w, r, done)
          /\ Write(r, [run[r] EXCEPT !.status = "cancelled",
                         !.reservation = ReservationAfter(r, "released")],
                   Unannounced(r, done), <<"run-cancelled">>)
          /\ UNCHANGED result
     ELSE UNCHANGED rows
  /\ Goto(w, "release")
  /\ UNCHANGED <<ckpt, env>>

-----------------------------------------------------------------------------
(* What a worker that executes a run does next; Raise is the alternative   *)
(* a provider may choose.                                                  *)
Step(w) ==
  \/ Enter(w) \/ Start(w) \/ Search(w)
  \/ Plan(w) \/ PlanRead(w) \/ PlanCommit(w) \/ Reserve(w)
  \/ Research(w) \/ ResearchRead(w) \/ ResearchCommit(w)
  \/ Verify(w) \/ WriteAnswer(w) \/ Wrote(w) \/ Validate(w) \/ Leave(w)
  \/ Wait(w) \/ Conclude(w) \/ Delta(w) \/ RecordUsage(w)
  \/ Final(w) \/ Fail(w) \/ Cancel(w) \/ Release(w)

Next ==
  \/ \E r \in Run :
       Submit(r) \/ RequestCancel(r) \/ ExpireOrphan(r) \/ Stall(r)
  \/ \E w \in Worker :
       \/ \E r \in Run : Claim(w, r)
       \/ HeartbeatRead(w) \/ HeartbeatWrite(w)
       \/ Step(w) \/ Raise(w) \/ Crash(w)

Spec == Init /\ [][Next]_vars

(* The worker loop keeps polling and executing, and time passes: a lease   *)
(* nobody renews expires.  Nothing forces a client to submit or stop.      *)
Fairness ==
  /\ \A w \in Worker : WF_vars(Step(w)) /\ WF_vars(\E r \in Run : Claim(w, r))
  /\ \A r \in Run : WF_vars(ExpireOrphan(r))

FairSpec == Spec /\ Fairness

-----------------------------------------------------------------------------
(* Invariants *)

(* Every row, checkpoint and worker keeps its shape; in particular a stop  *)
(* decision's route is one the stop_decisions table knows.                 *)
TypeOK ==
  /\ run \in [Run -> RunRow]
  /\ policy \in [used: Nat, reserved: Nat]
  /\ task \in [Run -> [Task -> LiveTask \union FinishedTask]]
  /\ lead \in [Run -> [owner: Worker \union {Nobody}, epoch: Nat]]
  /\ outcome \in [Run -> [Task -> FinishedTask \union {"none"}]]
  /\ log \in [Run -> SUBSET Event]
  /\ stop \in [Run -> Route]
  /\ result \in [Run -> [answered: BOOLEAN, record: BOOLEAN]]
  /\ ckpt \in [Run -> [stage: 0..5, findings: Finding]]
  /\ wk \in [Worker -> WorkerState]
  /\ submitted \in Nat /\ crashes \in Nat /\ stalls \in Nat /\ beats \in Nat
  /\ faulted \in SUBSET Run

(* A worker that executes a run it owns holds the run's current epoch, and *)
(* no two executions of a run share one.  The last transaction, _fail and  *)
(* _cancel test the owner alone; this is what makes that enough.           *)
FencedOwner ==
  \A w \in Worker, r \in Run : Executing(w, r) =>
    /\ run[r].owner = w => wk[w].epoch = run[r].attempt
    /\ \A v \in Worker \ {w} :
         Executing(v, r) => wk[v].epoch # wk[w].epoch

(* A running run belongs to a process that died or that still executes it: *)
(* no worker goes back to the queue and leaves a run of its own behind.    *)
NoOrphan ==
  \A r \in Run, w \in Worker :
    run[r].status = "running" /\ run[r].owner = w /\ wk[w].pc # "dead"
      => Executing(w, r)

(* A stop request is the only thing that cancels a run, and it does so at  *)
(* once: an executor that finds its lease lost cancels nothing.            *)
CancelIsImmediate ==
  \A r \in Run : run[r].cancelRequested <=> run[r].status = "cancelled"

(* A lease keeps executions apart: whoever owns a running run executes it  *)
(* at its epoch, and one that lost it neither cancels it nor leaves it     *)
(* behind (run_queue.py, worker.py, _cancel of coordinator.py).            *)
Fencing ==
  /\ FencedOwner
  /\ NoOrphan
  /\ CancelIsImmediate

(* A run is over exactly when its log says so, once and as its last word:  *)
(* a client that reads up to the ending event has missed nothing.          *)
TerminalEventLast ==
  \A r \in Run :
    LET endings == {e \in log[r] : e.name \in Ending} IN
    IF run[r].status \in TerminalStatus
    THEN \E e \in endings :
           endings = {e} /\ \A x \in log[r] : x.seq <= e.seq
    ELSE endings = {}

(* Sequence numbers are contiguous from 1 and no key is used twice: the    *)
(* two unique indexes of run_events never reject an insert.                *)
LogWellFormed ==
  \A r \in Run :
    /\ {e.seq : e \in log[r]} = 1..(run[r].nextSeq - 1)
    /\ \A e, f \in log[r] :
         \/ e = f
         \/ /\ e.seq # f.seq
            /\ e.name = f.name => e.name \in Unkeyed \/ e.task # f.task

(* A client that follows the log of a run by sequence number reads all of  *)
(* it, each event once, and its ending last (event_log.py).                *)
LogSound ==
  /\ TerminalEventLast
  /\ LogWellFormed

Holders == {r \in Run : run[r].reservation = "reserved"}

(* The policy's reserved tokens are those of the runs that hold a          *)
(* reservation, whoever crashed, resumed or stopped; the max(0, _) of the  *)
(* release never hides a difference.                                       *)
QuotaBalanced == policy.reserved = Budget * Cardinality(Holders)

(* If no run uses more than it reserved, the workspace never exceeds its   *)
(* limit, however many runs reserve at once.                               *)
QuotaRespected ==
  Usage <= Budget => policy.used + policy.reserved <= Limit

(* The books of a workspace are right and inside its limit (quota.py).     *)
QuotaSound ==
  /\ QuotaBalanced
  /\ QuotaRespected

(* A run that its executor ended has one outcome and one task_terminal     *)
(* event for every task.                                                   *)
OutcomesComplete ==
  \A r \in Run : run[r].status \in {"completed", "partial", "failed"} =>
    \A t \in Task :
      /\ outcome[r][t] # "none"
      /\ \E e \in log[r] : e.name = "task-terminal" /\ e.task = t

(* What an ended run left in five tables agrees: the row, the stop         *)
(* decision, the message, the record, the outcomes, and the reservation,   *)
(* which never outlives the run.  "completed" is earned by a verified      *)
(* record and by every task.                                               *)
EndingsAgree ==
  \A r \in Run :
    LET status == run[r].status IN
    /\ stop[r] = IF status \notin TerminalStatus THEN "none"
                 ELSE IF status = "completed" THEN "complete" ELSE status
    /\ result[r].answered <=> status \in {"completed", "partial"}
    /\ status = "completed" =>
         /\ result[r].record
         /\ \A t \in Task : outcome[r][t] = "completed"
    /\ status \in TerminalStatus => run[r].reservation # "reserved"

(* A run of one execution fails only because a provider, the citation check *)
(* or the budget did.  One that was taken over may fail although its        *)
(* checkpoint holds the answer (execute_runtime_v2's KeyError), or because  *)
(* its two holders claimed the same task.                                   *)
FailureHasCause ==
  \A r \in Run :
    run[r].status = "failed" => r \in faulted \/ run[r].attempt > 1

(* A run of one execution promotes a record only if its verification was   *)
(* sufficient, so never beside a failed task.  One that is resumed behind  *)
(* the verifier may: it assumes "supported".                               *)
RecordIsVerified ==
  \A r \in Run :
    result[r].record => outcome[r][First] # "failed" \/ run[r].attempt > 1

(* An ended run ended one way in every table, for a reason, and on a       *)
(* verification (_finish_runtime_v2, _fail and _cancel of coordinator.py). *)
EndingsSound ==
  /\ EndingsAgree
  /\ FailureHasCause
  /\ RecordIsVerified

-----------------------------------------------------------------------------
(* What a step may never do *)

(* A run that ended stays as it ended: status, answer, record, decision,   *)
(* outcomes and log survive every late executor and every second request.  *)
EndedStaysEnded ==
  [][\A r \in Run : run[r].status \in TerminalStatus =>
       /\ run'[r].status = run[r].status
       /\ result'[r] = result[r] /\ stop'[r] = stop[r]
       /\ outcome'[r] = outcome[r] /\ log'[r] = log[r]]_vars

(* Only a stop request or the worker that holds the run's lease at its     *)
(* current epoch ends a run.                                               *)
OnlyHolderEnds ==
  [][\A r \in Run :
       /\ run[r].status \notin TerminalStatus
       /\ run'[r].status \in TerminalStatus
       => \/ run'[r].cancelRequested
          \/ \E w \in Worker :
               /\ Executing(w, r) /\ run[r].owner = w
               /\ wk[w].epoch = run[r].attempt
               /\ wk'[w].pc = "release"]_vars

(* A run ends once, by a stop request or by the holder of its lease, and   *)
(* keeps its ending (coordinator.py).                                      *)
EndsOnceByHolder ==
  /\ EndedStaysEnded
  /\ OnlyHolderEnds

-----------------------------------------------------------------------------
(* Refinement *)

Contract == INSTANCE RunContract WITH
  phase <- [r \in Run |-> IF run[r].status \in {"queued", "running"}
                          THEN "open" ELSE run[r].status],
  held <- [r \in Run |-> run[r].reservation = "reserved"],
  answered <- [r \in Run |-> result[r].answered]

(* Whatever workers, leases and checkpoints do, a run behaves as RunContract *)
(* promises: it ends once, and gives its reservation back as it ends.      *)
ImplementsContract == Contract!ContractSafety

(* ... and it does end.  Neither a crash nor a lost lease parks a run for  *)
(* good as long as one worker process lives.                               *)
RunsEnd == Contract!ContractSpec
=============================================================================
