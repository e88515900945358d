---------------------------- MODULE TaskRuntime ----------------------------
(***************************************************************************)
(* The task runtime (task_runtime.py): claims of the tasks of one run,     *)
(* their dependencies, and ReActTaskController.advance, which takes a      *)
(* claimed task through one model turn and at most one tool call.  Its     *)
(* callers are workers; the tests are the only ones in the repository.     *)
(*                                                                         *)
(* One action is one transaction, together with the call of the model or   *)
(* of a tool that precedes it and the unlocked look behind that call.  A   *)
(* worker's memory between two of them is wk[w].                           *)
(*                                                                         *)
(* Two databases: PostgreSQL locks the rows a transaction selects FOR      *)
(* UPDATE; SQLite, which the tests use, ignores that clause, and its       *)
(* transactions are taken to run one after the other.                      *)
(***************************************************************************)
EXTENDS Integers, FiniteSets, Sequences

CONSTANTS
  Task,         \* the tasks of the run's plan
  Worker,       \* lease owners
  Nobody,       \* lease_owner IS NULL
  Needs,        \* Needs[t]: the tasks t depends on
  Adapted,      \* tasks advanced by TaskRuntime.advance and its adapter
  Databases,    \* a subset of {"postgresql", "sqlite"}
  MaxFanOut,    \* max_fan_out
  MaxTurns,     \* max_turns
  GainLimit,    \* no_evidence_gain_limit
  MaxRunClaims, \* bound: times the run itself is leased
  MaxStalls,    \* bound: leases that run out under a live worker
  MaxCrashes    \* bound: workers that die and come back without their memory

ASSUME NobodyIsNoWorker == Nobody \notin Worker /\ Nobody \notin Task
ASSUME NeedsAreTasks == Needs \in [Task -> SUBSET Task] /\ Adapted \subseteq Task
ASSUME LimitsArePositive ==
  MaxFanOut \in Nat \ {0} /\ MaxTurns \in Nat \ {0} /\ GainLimit \in Nat \ {0}
ASSUME BoundsAreNatural ==
  MaxRunClaims \in Nat /\ MaxStalls \in Nat /\ MaxCrashes \in Nat
ASSUME KnownDatabases == Databases \subseteq {"postgresql", "sqlite"}

VARIABLES
  db,        \* the database, never changed
  run,       \* the research_runs row
  doomed,    \* tasks that request_cancel has read and will cancel
  task,      \* the research_tasks rows
  turns,     \* turns[t]: output_kind of the task_model_turns rows, by ordinal
  obs,       \* obs[t]: the task_observations rows, by time
  proposal,  \* proposal[t]: the task_result_proposals row
  outcome,   \* outcome[t]: kind of the task_outcomes row
  overdue,   \* tasks past their deadline
  holder,    \* holder[t]: whose open transaction has the task's row
  wk,        \* wk[w]: what worker w is doing
  stalls, crashes  \* what the bounds count

vars == <<db, run, doomed, task, turns, obs, proposal, outcome, overdue,
          holder, wk, stalls, crashes>>
stop == <<run, doomed>>
facts == <<turns, obs, proposal>>
bounds == <<stalls, crashes>>

-----------------------------------------------------------------------------
Terminal == {"completed", "partial", "failed", "cancelled", "skipped",
             "superseded"}

(* "stopping": the transaction of request_cancel is open, and nobody else  *)
(* sees it yet.                                                            *)
RunRow == [status: {"active", "stopping", "stopped"},
           owner: Worker \union {Nobody}, attempt: Nat]

(* live: lease_expires_at is in the future. *)
TaskRow == [status: {"pending", "ready", "running"} \union Terminal,
            owner: Worker \union {Nobody}, live: BOOLEAN, epoch: Nat]

TurnKind == {"call", "proposal", "invalid", "budget"}
(* "gain" and "plain" are successes with and without evidence gain. *)
ToolResult == {"gain", "plain", "failed", "waiting"}
Observation == [turn: Nat, status: ToolResult]

(* out: the outcome to record, the observation to persist or the turn to   *)
(* commit, depending on the program counter.  "stopped" is the failed      *)
(* observation of a call that the policy refused because of a stop.        *)
Out == {"none", "valid", "invalid", "budget", "stopped"} \union Terminal
       \union ToolResult
Busy == {"claim", "claimed", "ask", "note", "propose", "call", "execute",
         "observe", "settle"}
WorkerState == [pc: Busy \union {"idle"}, task: Task \union {Nobody},
                epoch: Nat, runEpoch: Nat, turn: Nat, out: Out]

IdleWorker == [pc |-> "idle", task |-> Nobody, epoch |-> 0, runEpoch |-> 0,
               turn |-> 0, out |-> "none"]

Init ==
  /\ db \in Databases
  /\ run = [status |-> "active", owner |-> Nobody, attempt |-> 0]
  /\ doomed = {}
  /\ task = [t \in Task |->
       [status |-> IF Needs[t] = {} THEN "ready" ELSE "pending",
        owner |-> Nobody, live |-> FALSE, epoch |-> 0]]
  /\ turns = [t \in Task |-> <<>>]
  /\ obs = [t \in Task |-> <<>>]
  /\ proposal = [t \in Task |-> "none"]
  /\ outcome = [t \in Task |-> "none"]
  /\ overdue = {}
  /\ holder = [t \in Task |-> Nobody]
  /\ wk = [w \in Worker |-> IdleWorker]
  /\ stalls = 0 /\ crashes = 0

-----------------------------------------------------------------------------
(* Rows and transactions *)

(* A transaction on task t may begin. *)
Free(t) ==
  IF db = "postgresql"
  THEN holder[t] = Nobody
  ELSE run.status # "stopping" /\ \A u \in Task : holder[u] = Nobody

Stopped == run.status = "stopped"

Goto(w, pc, out) ==
  wk' = [wk EXCEPT ![w] = [wk[w] EXCEPT !.pc = pc, !.out = out]]

(* The advance is over and the worker keeps its claim. *)
Yield(w) == Goto(w, "claimed", "none")

(* The claim is gone: its task ended, or StaleTaskClaimError was raised. *)
Drop(w) == wk' = [wk EXCEPT ![w] = IdleWorker]

(* A definition named XSlip is a plausible mistake in the code of X; the   *)
(* specification never uses it.                                            *)

ClaimantSlip(w) ==
  LET t == wk[w].task IN
  task[t].owner = w /\ task[t].epoch = wk[w].epoch

(* The fence of _active_claim_state and of record_outcome. *)
Claimant(w) ==
  LET t == wk[w].task IN
  /\ task[t].owner = w /\ task[t].epoch = wk[w].epoch /\ task[t].live
  /\ wk[w].runEpoch = 0 \/ run.attempt = wk[w].runEpoch

Concluded(t) == outcome[t] # "none"

DependenciesDone(t) == \A u \in Needs[t] : outcome[u] = "completed"

-----------------------------------------------------------------------------
(* The run, time and crashes *)

(* A worker leases the run in the queue. *)
TakeRun(w) ==
  /\ wk[w].pc = "idle" /\ run.status = "active"
  /\ run.attempt < MaxRunClaims
  /\ run' = [run EXCEPT !.owner = w, !.attempt = @ + 1]
  /\ UNCHANGED <<db, doomed, task, facts, outcome, overdue, holder, wk, bounds>>

(* request_cancel reads the tasks without locking them and cancels what it *)
(* read.  Ready tasks stay ready, and no task gets an outcome.             *)
StopRead ==
  /\ run.status = "active"
  /\ db = "sqlite" => \A t \in Task : Free(t)
  /\ run' = [run EXCEPT !.status = "stopping"]
  /\ doomed' = {t \in Task : task[t].status \in {"pending", "running"}}
  /\ UNCHANGED <<db, task, facts, outcome, overdue, holder, wk, bounds>>

StopWrite ==
  /\ run.status = "stopping"
  /\ \A t \in doomed : holder[t] = Nobody
  /\ run' = [run EXCEPT !.status = "stopped"]
  /\ task' = [t \in Task |-> IF t \in doomed
                             THEN [task[t] EXCEPT !.status = "cancelled"]
                             ELSE task[t]]
  /\ doomed' = {}
  /\ UNCHANGED <<db, facts, outcome, overdue, holder, wk, bounds>>

Overdue(t) ==
  /\ t \notin overdue
  /\ overdue' = overdue \union {t}
  /\ UNCHANGED <<db, stop, task, facts, outcome, holder, wk, bounds>>

Remembered(t) ==
  \E w \in Worker : wk[w].task = t /\ wk[w].epoch = task[t].epoch

Lapse(t) ==
  /\ task[t].live
  /\ \/ ~Remembered(t) /\ UNCHANGED stalls
     \/ Remembered(t) /\ stalls < MaxStalls /\ stalls' = stalls + 1
  /\ task' = [task EXCEPT ![t] = [@ EXCEPT !.live = FALSE]]
  /\ UNCHANGED <<db, stop, facts, outcome, overdue, holder, wk, crashes>>

(* The process comes back under its name; its transaction is rolled back. *)
Crash(w) ==
  /\ wk[w].pc \in Busy
  /\ crashes < MaxCrashes
  /\ crashes' = crashes + 1
  /\ Drop(w)
  /\ holder' = [t \in Task |-> IF holder[t] = w THEN Nobody ELSE holder[t]]
  /\ UNCHANGED <<db, stop, task, facts, outcome, overdue, stalls>>

-----------------------------------------------------------------------------
(* TaskRuntime: the frontier and claims *)

Refreshed(t) ==
  LET back == task[t].status = "running" /\ ~task[t].live /\ ~Concluded(t)
  IN
  IF task[t].status \in Terminal THEN task[t]
  ELSE IF back
  THEN [task[t] EXCEPT !.status = "ready", !.owner = Nobody]
  ELSE IF task[t].status = "pending" /\ DependenciesDone(t)
  THEN [task[t] EXCEPT !.status = "ready"]
  ELSE task[t]

RefreshReady ==
  /\ \A t \in Task : Free(t)
  /\ task' = [t \in Task |-> Refreshed(t)]
  /\ UNCHANGED <<db, stop, facts, outcome, overdue, holder, wk, bounds>>

(* barrier_satisfied *)
Barrier ==
  \A t \in Task :
    /\ \/ task[t].status \in {"ready", "running"}
       \/ task[t].status = "pending" /\ DependenciesDone(t)
       => Concluded(t)
    /\ task[t].status \in Terminal => Concluded(t)

Running == {t \in Task : task[t].status = "running"}

Claimable(t) ==
  /\ task[t].status \notin Terminal /\ ~Stopped
  /\ DependenciesDone(t)

Room(t) == task[t].status = "running" \/ Cardinality(Running) < MaxFanOut

Leased(t) == task[t].status = "running" /\ task[t].live

ClaimOf(w, t, epoch) ==
  [IdleWorker EXCEPT !.pc = "claimed", !.task = t, !.epoch = epoch,
                     !.runEpoch = IF run.owner = w THEN run.attempt ELSE 0]

(* The lease of a claim still lasts: its owner is given the same claim. *)
Reclaim(w, t) ==
  /\ wk[w].pc = "idle" /\ Free(t)
  /\ Claimable(t) /\ Leased(t) /\ task[t].owner = w
  /\ wk' = [wk EXCEPT ![w] = ClaimOf(w, t, task[t].epoch)]
  /\ UNCHANGED <<db, stop, task, facts, outcome, overdue, holder, bounds>>

(* The first half of claim locks the task alone, and counts the others.  A *)
(* worker that was refused asks again later.                               *)
ClaimRead(w, t) ==
  /\ wk[w].pc = "idle" /\ Free(t)
  /\ Claimable(t) /\ Room(t) /\ ~Leased(t)
  /\ wk' = [wk EXCEPT ![w] =
       [ClaimOf(w, t, task[t].epoch + 1) EXCEPT !.pc = "claim"]]
  /\ holder' = [holder EXCEPT ![t] = w]
  /\ UNCHANGED <<db, stop, task, facts, outcome, overdue, bounds>>

ClaimWrite(w) ==
  LET t == wk[w].task IN
  /\ wk[w].pc = "claim"
  /\ task' = [task EXCEPT ![t] = [status |-> "running", owner |-> w,
                                  live |-> TRUE, epoch |-> wk[w].epoch]]
  /\ holder' = [holder EXCEPT ![t] = Nobody]
  /\ Yield(w)
  /\ UNCHANGED <<db, stop, facts, outcome, overdue, bounds>>

(* TaskRuntime.advance: the adapter proposes the outcome. *)
Adapt(w) ==
  /\ wk[w].pc = "claimed" /\ wk[w].task \in Adapted
  /\ \E kind \in Terminal : Goto(w, "settle", kind)
  /\ UNCHANGED <<db, stop, task, facts, outcome, overdue, holder, bounds>>

-----------------------------------------------------------------------------
(* record_outcome *)

(* A stopped run is cancelled in the same transaction, so even the outcome *)
(* "cancelled", which the stop itself would allow, is refused.             *)
RunAccepts(w) ==
  /\ ~Stopped
  /\ wk[w].runEpoch = 0 \/ run.owner = w

Settle(w) ==
  LET t == wk[w].task IN
  /\ wk[w].pc = "settle" /\ Free(t)
  /\ IF ~Concluded(t) /\ Claimant(w) /\ RunAccepts(w)
     THEN /\ outcome' = [outcome EXCEPT ![t] = wk[w].out]
          /\ task' = [task EXCEPT ![t] =
               [@ EXCEPT !.status = wk[w].out, !.owner = Nobody,
                         !.live = FALSE]]
     ELSE UNCHANGED <<outcome, task>>
  /\ Drop(w)
  /\ UNCHANGED <<db, stop, facts, overdue, holder, bounds>>

-----------------------------------------------------------------------------
(* ReActTaskController.advance: the first look *)

Spent(t) ==
  t \in overdue \/ \E n \in DOMAIN turns[t] : turns[t][n] = "budget"

(* _no_evidence_gain_streak has reached its limit in observations os. *)
NoGain(os) ==
  /\ Len(os) >= GainLimit
  /\ \A n \in (Len(os) - GainLimit + 1)..Len(os) : os[n].status = "plain"

Exhausted(t) == Len(turns[t]) >= MaxTurns

Waiting(t) == obs[t] # <<>> /\ obs[t][Len(obs[t])].status = "waiting"

InFlightSlip(t) == turns[t] # <<>> /\ turns[t][Len(turns[t])] = "call"

(* The latest turn is a tool call and the task has no observation at all. *)
InFlight(t) ==
  turns[t] # <<>> /\ turns[t][Len(turns[t])] = "call" /\ obs[t] = <<>>

(* The outcome that the look itself arrives at. *)
Verdict(t) ==
  IF Stopped THEN "cancelled"
  ELSE IF proposal[t] # "none"
  THEN IF proposal[t] = "valid" THEN "completed" ELSE "partial"
  ELSE IF Exhausted(t) \/ NoGain(obs[t]) \/ Spent(t) THEN "failed"
  ELSE "none"

Looks(w) ==
  /\ wk[w].pc = "claimed" /\ wk[w].task \notin Adapted
  /\ Free(wk[w].task)

Entitled(w) == ~Concluded(wk[w].task) /\ Claimant(w)

(* What follows happens while the session of the look is open, which keeps *)
(* the row that _active_claim_state locked.                                *)
InsideLook(w) ==
  holder' = IF db = "postgresql" THEN [holder EXCEPT ![wk[w].task] = w]
                                 ELSE holder

TurnedAway(w) ==
  /\ Looks(w) /\ ~Entitled(w)
  /\ Drop(w)
  /\ UNCHANGED <<db, stop, task, facts, outcome, overdue, holder, bounds>>

Judge(w) ==
  /\ Looks(w) /\ Entitled(w) /\ Verdict(wk[w].task) # "none"
  /\ Goto(w, "settle", Verdict(wk[w].task))
  /\ InsideLook(w)
  /\ UNCHANGED <<db, stop, task, facts, outcome, overdue, bounds>>

GoOn(w) == Looks(w) /\ Entitled(w) /\ Verdict(wk[w].task) = "none"

(* _resume_waiting_tool.  A tool that is still waiting, or that cannot be  *)
(* resumed, leaves everything as it is.                                    *)
Resume(w) ==
  LET t == wk[w].task IN
  /\ GoOn(w) /\ Waiting(t)
  /\ \E result \in ToolResult \ {"waiting"} :
       wk' = [wk EXCEPT ![w] = [wk[w] EXCEPT !.pc = "observe",
                !.turn = Len(turns[t]), !.out = result]]
  /\ InsideLook(w)
  /\ UNCHANGED <<db, stop, task, facts, outcome, overdue, bounds>>

(* _recover_inflight_tool *)
Recover(w) ==
  LET t == wk[w].task IN
  /\ GoOn(w) /\ ~Waiting(t) /\ InFlight(t)
  /\ \E result \in ToolResult :
       wk' = [wk EXCEPT ![w] = [wk[w] EXCEPT !.pc = "observe",
                !.turn = Len(turns[t]), !.out = result]]
  /\ UNCHANGED <<db, stop, task, facts, outcome, overdue, holder, bounds>>

Think(w) ==
  LET t == wk[w].task IN
  /\ GoOn(w) /\ ~Waiting(t) /\ ~InFlight(t)
  /\ wk' = [wk EXCEPT ![w] = [wk[w] EXCEPT !.pc = "ask",
              !.turn = Len(turns[t]) + 1]]
  /\ UNCHANGED <<db, stop, task, facts, outcome, overdue, holder, bounds>>

-----------------------------------------------------------------------------
(* ReActTaskController.advance: the model turn and its tool call *)

(* The model answers, after a repair or not, and then the run and the      *)
(* budget are looked at without locks.                                     *)
Ask(w) ==
  LET t == wk[w].task IN
  /\ wk[w].pc = "ask"
  /\ \/ Goto(w, "note", "invalid")
     \/ Stopped /\ Goto(w, "settle", "cancelled")
     \/ ~Stopped /\ Goto(w, "note", "budget")
     \/ /\ ~Stopped /\ ~Spent(t)
        /\ \/ Goto(w, "call", "none")
           \/ \E out \in {"valid", "partial"} : Goto(w, "propose", out)
  /\ UNCHANGED <<db, stop, task, facts, outcome, overdue, holder, bounds>>

(* The key (task_id, turn_ordinal) is unique: a second turn of one ordinal *)
(* raises.                                                                 *)
MayAppend(w) == Entitled(w) /\ wk[w].turn = Len(turns[wk[w].task]) + 1

Append1(w, kind) ==
  turns' = [turns EXCEPT ![wk[w].task] = Append(@, kind)]

(* _persist_failed_turn, which an outcome turns into nothing. *)
Note(w) ==
  /\ wk[w].pc = "note" /\ Free(wk[w].task)
  /\ IF Concluded(wk[w].task)
     THEN Goto(w, "settle", "failed") /\ UNCHANGED turns
     ELSE IF MayAppend(w)
     THEN Goto(w, "settle", "failed") /\ Append1(w, wk[w].out)
     ELSE Drop(w) /\ UNCHANGED turns
  /\ UNCHANGED <<db, stop, task, obs, proposal, outcome, overdue, holder,
                 bounds>>

(* _commit_result_proposal *)
Propose(w) ==
  LET t == wk[w].task IN
  /\ wk[w].pc = "propose" /\ Free(t)
  /\ IF MayAppend(w)
     THEN /\ Append1(w, "proposal")
          /\ proposal' = [proposal EXCEPT ![t] = wk[w].out]
          /\ Goto(w, "settle",
                  IF wk[w].out = "valid" THEN "completed" ELSE "partial")
     ELSE Drop(w) /\ UNCHANGED <<turns, proposal>>
  /\ UNCHANGED <<db, stop, task, obs, outcome, overdue, holder, bounds>>

(* _persist_turn.  The reference of the call contains the ordinal of this  *)
(* new turn, so there is never an observation of it to replay.             *)
Call(w) ==
  /\ wk[w].pc = "call" /\ Free(wk[w].task)
  /\ IF MayAppend(w)
     THEN Append1(w, "call") /\ Goto(w, "execute", "none")
     ELSE Drop(w) /\ UNCHANGED turns
  /\ UNCHANGED <<db, stop, task, obs, proposal, outcome, overdue, holder,
                 bounds>>

(* The policy, which may refuse the call or ask for approval, the tool and *)
(* the look at the run behind it.                                          *)
Execute(w) ==
  /\ wk[w].pc = "execute"
  /\ \/ Goto(w, "observe", "failed")
     \/ Stopped /\ Goto(w, "observe", "stopped")
     \/ Stopped /\ Goto(w, "settle", "cancelled")
     \/ ~Stopped /\ \E result \in ToolResult : Goto(w, "observe", result)
  /\ UNCHANGED <<db, stop, task, facts, outcome, overdue, holder, bounds>>

StatusOf(out) == IF out = "stopped" THEN "failed" ELSE out

AfterObservation(w, os) ==
  CASE wk[w].out = "failed" -> Goto(w, "settle", "failed")
    [] wk[w].out = "stopped" -> Goto(w, "settle", "cancelled")
    [] wk[w].out = "plain" /\ NoGain(os) -> Goto(w, "settle", "failed")
    [] OTHER -> Yield(w)

(* _persist_observation, which an outcome turns into nothing, and the      *)
(* streak of observations without gain.                                    *)
Observe(w) ==
  LET t == wk[w].task
      row == [turn |-> wk[w].turn, status |-> StatusOf(wk[w].out)]
  IN
  /\ wk[w].pc = "observe" /\ Free(t)
  /\ IF Concluded(t)
     THEN AfterObservation(w, obs[t]) /\ UNCHANGED obs
     ELSE IF Claimant(w)
     THEN /\ obs' = [obs EXCEPT ![t] = Append(@, row)]
          /\ AfterObservation(w, obs'[t])
     ELSE Drop(w) /\ UNCHANGED obs
  /\ UNCHANGED <<db, stop, task, turns, proposal, outcome, overdue, holder,
                 bounds>>

-----------------------------------------------------------------------------
Step(w) ==
  \/ ClaimWrite(w) \/ Adapt(w) \/ Settle(w)
  \/ TurnedAway(w) \/ Judge(w) \/ Resume(w) \/ Recover(w) \/ Think(w)
  \/ Ask(w) \/ Note(w) \/ Propose(w) \/ Call(w) \/ Execute(w) \/ Observe(w)

Next ==
  \/ StopRead \/ StopWrite \/ RefreshReady
  \/ \E t \in Task : Overdue(t) \/ Lapse(t)
  \/ \E w \in Worker :
       \/ TakeRun(w) \/ Crash(w) \/ Step(w)
       \/ \E t \in Task : Reclaim(w, t) \/ ClaimRead(w, t)

Spec == Init /\ [][Next]_vars

-----------------------------------------------------------------------------
(* Properties *)

(* Every variable holds a value of its columns, and the turn budget of     *)
(* advance (task_runtime.py:778) bounds the turns of a task, whoever       *)
(* crashes and retries.                                                    *)
TypeOK ==
  /\ db \in {"postgresql", "sqlite"}
  /\ run \in RunRow
  /\ doomed \subseteq Task
  /\ task \in [Task -> TaskRow]
  /\ turns \in [Task -> Seq(TurnKind)]
  /\ obs \in [Task -> Seq(Observation)]
  /\ proposal \in [Task -> {"none", "valid", "partial"}]
  /\ outcome \in [Task -> {"none"} \union Terminal]
  /\ overdue \subseteq Task
  /\ holder \in [Task -> Worker \union {Nobody}]
  /\ wk \in [Worker -> WorkerState]
  /\ stalls \in 0..MaxStalls /\ crashes \in 0..MaxCrashes
  /\ \A t \in Task : Len(turns[t]) <= MaxTurns

(* record_outcome ends a task for good: its claim is released and nobody   *)
(* claims it again, so its row says what its outcome says, or that the run *)
(* was stopped while the outcome was recorded.  Without a stop no task is  *)
(* over before its outcome is there.                                       *)
OutcomeAgrees ==
  \A t \in Task :
    /\ Concluded(t) =>
         /\ task[t].owner = Nobody /\ ~task[t].live
         /\ task[t].status \in {outcome[t], "cancelled"}
         /\ ~Stopped => task[t].status = outcome[t]
    /\ task[t].status \in Terminal => Concluded(t) \/ Stopped

(* A task is claimed, takes turns and ends only behind the completed       *)
(* outcomes of all it depends on; failed, partial, skipped and cancelled   *)
(* ones never unlock it (refresh_ready's docstring).                       *)
DependenciesFirst ==
  \A t \in Task :
    task[t].epoch > 0 \/ turns[t] # <<>> \/ Concluded(t) =>
      \A u \in Needs[t] : outcome[u] = "completed"

(* A tool call is answered at most once, by its execution, by its recovery *)
(* or, if it waited, by its resumption, whoever takes the task over.       *)
OneAnswerPerCall ==
  \A t \in Task : \A n \in 1..Len(turns[t]) :
    /\ Cardinality({i \in DOMAIN obs[t] :
                      obs[t][i].turn = n /\ obs[t][i].status # "waiting"}) <= 1
    /\ Cardinality({i \in DOMAIN obs[t] : obs[t][i].turn = n}) <= 2
    /\ turns[t][n] # "call" => \A i \in DOMAIN obs[t] : obs[t][i].turn # n

(* A result proposal decides how its task ends, also when the worker that  *)
(* committed it dies before it records the outcome; and a task of the      *)
(* controller is completed only by a proposal that was found valid.        *)
ProposalDecides ==
  \A t \in Task \ Adapted :
    Concluded(t) =>
      /\ outcome[t] = "completed" <=> proposal[t] = "valid"
      /\ outcome[t] = "partial" <=> proposal[t] = "partial"

(* The row of a task, its turns, observations, proposal and outcome tell   *)
(* one story, in their shapes, whoever crashes between the transactions    *)
(* that write them (task_runtime.py).                                      *)
TaskAgrees ==
  /\ TypeOK
  /\ OutcomeAgrees
  /\ DependenciesFirst
  /\ OneAnswerPerCall
  /\ ProposalDecides

(* What an advance writes to a task it writes as the task's current        *)
(* claimant: a worker whose lease ran out, was taken over, or whose run    *)
(* was leased again, leaves no turn, observation, proposal or outcome.     *)
OnlyClaimantWrites ==
  [][\A t \in Task :
       \/ turns'[t] # turns[t] \/ obs'[t] # obs[t]
       \/ proposal'[t] # proposal[t] \/ outcome'[t] # outcome[t]
       => \E w \in Worker :
            /\ wk[w].task = t /\ wk'[w] # wk[w]
            /\ task[t].owner = w /\ task[t].epoch = wk[w].epoch
            /\ task[t].live
            /\ wk[w].runEpoch \in {0, run.attempt}]_vars

(* An outcome is immutable, and once the run is stopped no task gets one   *)
(* or leaves the status it was stopped in.                                 *)
OutcomeStands ==
  [][\A t \in Task :
       /\ Concluded(t) => outcome'[t] = outcome[t]
       /\ Stopped /\ task[t].status \in Terminal =>
            outcome'[t] = outcome[t] /\ task'[t].status = task[t].status]_vars

(* While a tool call waits for its approval or result the model is not     *)
(* asked for another turn that is kept.                                    *)
WaitingHolds ==
  [][\A t \in Task :
       /\ obs[t] # <<>> /\ obs[t][Len(obs[t])].status = "waiting"
       => turns'[t] = turns[t]]_vars

(* A stage that has passed its barrier is over: as long as the run goes on *)
(* no task of it becomes claimable again, whatever late workers do.        *)
BarrierIsStable == [][Barrier /\ ~Stopped' => Barrier']_vars

(* Only the claimant of a task adds to its history, never while a call     *)
(* waits, and what is concluded stays concluded (task_runtime.py).         *)
HistoryStands ==
  /\ OnlyClaimantWrites
  /\ OutcomeStands
  /\ WaitingHolds
  /\ BarrierIsStable
=============================================================================
