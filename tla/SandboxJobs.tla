---------------------------- MODULE SandboxJobs ----------------------------
(***************************************************************************)
(* Durable Python sandbox jobs (sandbox_jobs.py): the job queue, the       *)
(* threads that lease an attempt, execute it in a container and publish    *)
(* the job's one observation, and the projection of that observation into  *)
(* the todo of the run that waits for it (app.py, coordinator.py).         *)
(*                                                                         *)
(* One action is one transaction or one look of the loop of run_once.      *)
(* Threads have names: the sandbox loop of a run and the main loop of the  *)
(* same process lease under the same worker_id, and the former may outlive *)
(* the two seconds its run waits for it.                                   *)
(***************************************************************************)
EXTENDS Integers, FiniteSets, Sequences

CONSTANTS
  Job,          \* sandbox jobs, one per todo and task
  Thread,       \* threads that call run_once
  Nobody,       \* lease_owner IS NULL
  NameOf,       \* NameOf[t]: the worker_id of thread t; threads may share one
  MaxAttempts,  \* max_attempts of a job
  MaxStalls,    \* bound: leases that run out under a live thread
  MaxCrashes    \* bound: threads killed with their process

Name == {NameOf[t] : t \in Thread}

ASSUME NobodyIsNoName == Nobody \notin Name
ASSUME JobsAreFinite == IsFiniteSet(Job)
ASSUME BoundsAreNatural ==
  MaxAttempts \in Nat \ {0} /\ MaxStalls \in Nat /\ MaxCrashes \in Nat

VARIABLES
  job,       \* the sandbox_jobs rows
  attempt,   \* attempt[j]: the sandbox_attempts rows, in their order
  obs,       \* obs[j]: the sandbox_observations row, NoObservation without one
  todo,      \* todo[j]: status of the todo that waits for the job
  evidence,  \* jobs with a derived_evidence row
  stopped,   \* jobs whose run was asked to stop
  telling,   \* jobs a cancel request ended and has yet to notify about
  saw,       \* transactions that read a todo as pending and will write it
  th,        \* th[t]: what thread t is doing
  stalls, crashes  \* what the bounds count

vars == <<job, attempt, obs, todo, evidence, stopped, telling, saw, th,
          stalls, crashes>>
rows == <<job, attempt, obs>>
bounds == <<stalls, crashes>>

-----------------------------------------------------------------------------
TerminalStatus == {"completed", "failed", "timed_out", "cancelled"}
JobStatus == {"absent", "queued", "running", "retry_wait", "cancel_requested"}
             \union TerminalStatus

JobRow == [status: JobStatus, cancelRequested: BOOLEAN, attempts: Nat,
           owner: Name \union {Nobody}, overdue: BOOLEAN, created: Nat]

(* live: lease_expires_at of the attempt is in the future.  The job's own  *)
(* lease is the one of the attempt renewed last.                           *)
AttemptRow == [status: {"leased", "retry_wait"} \union TerminalStatus,
               owner: Name \union {Nobody}, live: BOOLEAN]

NoObservation == [status |-> "none", n |-> 0]

(* Program counters inside run_once.  "stop": the container was killed and *)
(* the thread waits for it; cause says why.                                *)
Working == {"execute", "stop", "decide", "retry", "publish", "notify",
            "project"}
ThreadState == [pc: Working \union {"idle", "dead"}, job: Job \union {Nobody},
                n: Nat, cause: {"none", "deadline", "heartbeat"},
                out: TerminalStatus \union {"none"}, retryable: BOOLEAN]

IdleThread == [pc |-> "idle", job |-> Nobody, n |-> 0, cause |-> "none",
               out |-> "none", retryable |-> FALSE]

DeadThread == [IdleThread EXCEPT !.pc = "dead"]

Init ==
  /\ job = [j \in Job |->
             [status |-> "absent", cancelRequested |-> FALSE, attempts |-> 0,
              owner |-> Nobody, overdue |-> FALSE, created |-> 0]]
  /\ attempt = [j \in Job |-> <<>>]
  /\ obs = [j \in Job |-> NoObservation]
  /\ todo = [j \in Job |-> "pending"]
  /\ evidence = {} /\ stopped = {} /\ telling = {} /\ saw = {}
  /\ th = [t \in Thread |-> IdleThread]
  /\ stalls = 0 /\ crashes = 0

-----------------------------------------------------------------------------
Ended(j) == job[j].status \in TerminalStatus

(* A definition named XSlip is a plausible mistake in the code of X; the   *)
(* specification never uses it.                                            *)

Leased(j) == \E n \in DOMAIN attempt[j] : attempt[j][n].live

ClaimableSlip(j) ==
  ~job[j].cancelRequested /\ job[j].status \in {"queued", "retry_wait"}

Claimable(j) ==
  /\ ~job[j].cancelRequested
  /\ \/ job[j].status \in {"queued", "retry_wait"}
     \/ job[j].status = "running" /\ ~Leased(j)

Executing(t, j, n) ==
  th[t].pc \in Working /\ th[t].job = j /\ th[t].n = n

Goto(t, pc) == th' = [th EXCEPT ![t] = [th[t] EXCEPT !.pc = pc]]

Outcome(t, pc, out, retryable) ==
  th' = [th EXCEPT ![t] =
          [th[t] EXCEPT !.pc = pc, !.out = out, !.retryable = retryable]]

(* The owner tests of publish, heartbeat and _schedule_retry.  The attempt *)
(* is always the thread's own; the job's owner is whoever leased it last.  *)
Leaseholder(t) ==
  /\ job[th[t].job].owner = NameOf[t]
  /\ attempt[th[t].job][th[t].n].owner = NameOf[t]

(* A job ends: its row, its attempt and its observation in one transaction. *)
EndJob(j, n, status) ==
  /\ job' = [job EXCEPT ![j] = [@ EXCEPT !.status = status, !.owner = Nobody]]
  /\ obs' = [obs EXCEPT ![j] = [status |-> status, n |-> n]]

(* _publish_unclaimed_terminal closes the last attempt, or writes one that *)
(* was never executed.                                                     *)
AttemptsAfter(j, status) ==
  IF attempt[j] = <<>>
  THEN <<[status |-> status, owner |-> Nobody, live |-> FALSE]>>
  ELSE [attempt[j] EXCEPT ![Len(attempt[j])].status = status]

EndUnclaimed(j, status) ==
  /\ attempt' = [attempt EXCEPT ![j] = AttemptsAfter(j, status)]
  /\ EndJob(j, Len(attempt'[j]), status)

-----------------------------------------------------------------------------
(* The run: it submits the job, may be stopped, and waits for 20 seconds   *)

Submit(j) ==
  /\ job[j].status = "absent"
  /\ job' = [job EXCEPT ![j] = [@ EXCEPT !.status = "queued",
        !.created = Cardinality({k \in Job : job[k].created > 0}) + 1]]
  /\ UNCHANGED <<attempt, obs, todo, evidence, stopped, telling, saw, th, bounds>>

(* The todo is read without a lock and written later, if it was pending,   *)
(* by whoever concludes something about it: the stop request, the run that *)
(* waited long enough, and the notifications below.                        *)
See(j, writer) == saw' = saw \union {<<j, writer>>}

Settle(j, writer, status) ==
  /\ <<j, writer>> \in saw
  /\ saw' = saw \ {<<j, writer>>}
  /\ todo' = [todo EXCEPT ![j] = status]

StopRead(j) ==
  /\ j \notin stopped
  /\ todo[j] = "pending"
  /\ See(j, "stop")
  /\ UNCHANGED <<rows, todo, evidence, stopped, telling, th, bounds>>

(* request_cancel of the run; the cancellation of its jobs comes after the *)
(* commit, each in a transaction of its own.                               *)
StopRun(j) ==
  /\ j \notin stopped
  /\ stopped' = stopped \union {j}
  /\ \/ Settle(j, "stop", "cancelled")
     \/ /\ todo[j] # "pending" /\ <<j, "stop">> \notin saw
        /\ UNCHANGED <<todo, saw>>
  /\ UNCHANGED <<rows, evidence, telling, th, bounds>>

WaitTimeout(j) ==
  /\ job[j].status # "absent" /\ j \notin stopped
  /\ todo[j] = "pending"
  /\ See(j, "wait")
  /\ UNCHANGED <<rows, todo, evidence, stopped, telling, th, bounds>>

GiveUp(j) ==
  /\ Settle(j, "wait", "failed")
  /\ UNCHANGED <<rows, evidence, stopped, telling, th, bounds>>

(* SandboxJobService.cancel, called by the stopped run or by a user, any   *)
(* number of times.                                                        *)
Cancel(j) ==
  /\ job[j].status # "absent"
  /\ IF Ended(j)
     THEN UNCHANGED rows
     ELSE IF job[j].status \in {"queued", "retry_wait"}
     THEN /\ attempt' = [attempt EXCEPT ![j] = AttemptsAfter(j, "cancelled")]
          /\ job' = [job EXCEPT ![j] = [@ EXCEPT !.status = "cancelled",
                       !.cancelRequested = TRUE, !.owner = Nobody]]
          /\ obs' = [obs EXCEPT ![j] =
                       [status |-> "cancelled", n |-> Len(attempt'[j])]]
     ELSE /\ job' = [job EXCEPT ![j] = [@ EXCEPT
                       !.status = "cancel_requested", !.cancelRequested = TRUE]]
          /\ UNCHANGED <<attempt, obs>>
  /\ telling' = IF job'[j].status = "cancelled" THEN telling \union {j}
                                                ELSE telling
  /\ UNCHANGED <<todo, evidence, stopped, saw, th, bounds>>

Pending(j) == todo[j] = "pending"

Projected(j) == IF obs[j].status = "completed" THEN "completed" ELSE "failed"

Derive(j) ==
  evidence' = IF obs[j].status = "completed" THEN evidence \union {j}
                                             ELSE evidence

(* notify_sandbox_observation after a cancellation.  RunQueue.wake, which  *)
(* it calls last, wakes runs that are "waiting", a status no code gives.   *)
Tell(j) ==
  /\ j \in telling
  /\ telling' = telling \ {j}
  /\ IF Pending(j) THEN See(j, "tell") ELSE UNCHANGED saw
  /\ UNCHANGED <<rows, todo, evidence, stopped, th, bounds>>

Told(j) ==
  /\ Settle(j, "tell", Projected(j))
  /\ UNCHANGED <<rows, evidence, stopped, telling, th, bounds>>

-----------------------------------------------------------------------------
(* Time *)

Overdue(j) ==
  /\ job[j].status # "absent" /\ ~job[j].overdue
  /\ job' = [job EXCEPT ![j] = [@ EXCEPT !.overdue = TRUE]]
  /\ UNCHANGED <<attempt, obs, todo, evidence, stopped, telling, saw, th, bounds>>

(* The lease of an attempt nobody executes runs out; one that a thread     *)
(* executes does only if the thread stalls, for it is renewed every second. *)
Lapse(j, n) ==
  /\ attempt[j][n].live
  /\ \/ /\ ~\E t \in Thread : Executing(t, j, n)
        /\ UNCHANGED stalls
     \/ /\ \E t \in Thread : Executing(t, j, n)
        /\ stalls < MaxStalls
        /\ stalls' = stalls + 1
  /\ attempt' = [attempt EXCEPT ![j][n].live = FALSE]
  /\ UNCHANGED <<job, obs, todo, evidence, stopped, telling, saw, th, crashes>>

-----------------------------------------------------------------------------
(* SandboxJobService.run_once *)

NoAttemptLeft(j) == job[j].attempts >= MaxAttempts

Claim(t) ==
  /\ th[t].pc = "idle"
  /\ \E j \in Job :
       /\ Claimable(j)
       /\ \A k \in Job : Claimable(k) => job[j].created <= job[k].created
       /\ IF job[j].overdue
          THEN EndUnclaimed(j, "timed_out") /\ UNCHANGED th
          ELSE IF NoAttemptLeft(j)
          THEN EndUnclaimed(j, "failed") /\ UNCHANGED th
          ELSE LET n == job[j].attempts + 1 IN
               /\ job' = [job EXCEPT ![j] = [@ EXCEPT !.status = "running",
                            !.attempts = n, !.owner = NameOf[t]]]
               /\ attempt' = [attempt EXCEPT ![j] = Append(@,
                    [status |-> "leased", owner |-> NameOf[t], live |-> TRUE])]
               /\ th' = [th EXCEPT ![t] = [IdleThread EXCEPT
                           !.pc = "execute", !.job = j, !.n = n]]
               /\ UNCHANGED obs
  /\ UNCHANGED <<todo, evidence, stopped, telling, saw, bounds>>

(* The container ends by itself, or the executor raises, which is the one  *)
(* outcome worth another attempt.                                          *)
Finish(t) ==
  /\ th[t].pc = "execute"
  /\ \/ \E out \in {"completed", "failed", "timed_out"} :
          Outcome(t, "decide", out, FALSE)
     \/ Outcome(t, "decide", "failed", TRUE)
  /\ UNCHANGED <<rows, todo, evidence, stopped, telling, saw, bounds>>

(* The look every second: past the deadline the container is killed; else  *)
(* the lease is renewed, and the container killed if that is refused.      *)
Beat(t) ==
  LET j == th[t].job IN
  /\ th[t].pc = "execute"
  /\ IF job[j].overdue \/ ~Leaseholder(t) \/ job[j].cancelRequested
     THEN /\ th' = [th EXCEPT ![t] = [th[t] EXCEPT !.pc = "stop",
               !.cause = IF job[j].overdue THEN "deadline" ELSE "heartbeat"]]
          /\ UNCHANGED attempt
     ELSE /\ attempt' = [attempt EXCEPT ![j][th[t].n].live = TRUE]
          /\ UNCHANGED th
  /\ UNCHANGED <<job, obs, todo, evidence, stopped, telling, saw, bounds>>

(* The killed container is gone.  A refused heartbeat without a request to *)
(* cancel means that the lease is lost, and the thread leaves.             *)
Stopped(t) ==
  /\ th[t].pc = "stop"
  /\ IF th[t].cause = "heartbeat" /\ ~job[th[t].job].cancelRequested
     THEN th' = [th EXCEPT ![t] = IdleThread]
     ELSE \/ \E out \in {"completed", "failed", "timed_out", "cancelled"} :
               Outcome(t, "decide", out, FALSE)
          \/ Outcome(t, "decide", "failed", TRUE)
  /\ UNCHANGED <<rows, todo, evidence, stopped, telling, saw, bounds>>

(* The job is read again without a lock; attempt_count is the claimed one. *)
Decide(t) ==
  /\ th[t].pc = "decide"
  /\ IF job[th[t].job].cancelRequested
     THEN Outcome(t, "publish", "cancelled", FALSE)
     ELSE Goto(t, IF th[t].retryable /\ th[t].n < MaxAttempts
                  THEN "retry" ELSE "publish")
  /\ UNCHANGED <<rows, todo, evidence, stopped, telling, saw, bounds>>

(* A fenced thread raises, and nothing catches it. *)
Retry(t) ==
  LET j == th[t].job IN
  /\ th[t].pc = "retry"
  /\ IF Leaseholder(t)
     THEN /\ job' = [job EXCEPT ![j] = [@ EXCEPT !.status = "retry_wait",
                                                 !.owner = Nobody]]
          /\ attempt' = [attempt EXCEPT ![j][th[t].n] =
               [@ EXCEPT !.status = "retry_wait", !.live = FALSE]]
          /\ th' = [th EXCEPT ![t] = IdleThread]
     ELSE /\ th' = [th EXCEPT ![t] = DeadThread]
          /\ UNCHANGED <<job, attempt>>
  /\ UNCHANGED <<obs, todo, evidence, stopped, telling, saw, bounds>>

VerdictSlip(t) == th[t].out

(* What is published: a cancellation beats the output, a missed deadline   *)
(* beats both.                                                             *)
Verdict(t) ==
  IF job[th[t].job].overdue THEN "timed_out"
  ELSE IF job[th[t].job].cancelRequested THEN "cancelled"
  ELSE th[t].out

MayPublishSlip(t) == attempt[th[t].job][th[t].n].owner = NameOf[t]

MayPublish(t) == Leaseholder(t) /\ attempt[th[t].job][th[t].n].live

Publish(t) ==
  LET j == th[t].job IN
  /\ th[t].pc = "publish"
  /\ IF obs[j] # NoObservation
     THEN /\ th' = [th EXCEPT ![t] = IdleThread]
          /\ UNCHANGED rows
     ELSE IF ~MayPublish(t)
     THEN /\ th' = [th EXCEPT ![t] = DeadThread]
          /\ UNCHANGED rows
     ELSE /\ EndJob(j, th[t].n, Verdict(t))
          /\ attempt' = [attempt EXCEPT ![j][th[t].n].status = Verdict(t)]
          /\ Goto(t, "notify")
  /\ UNCHANGED <<todo, evidence, stopped, telling, saw, bounds>>

(* notify_sandbox_observation after a publication. *)
Notify(t) ==
  /\ th[t].pc = "notify"
  /\ IF Pending(th[t].job)
     THEN Goto(t, "project") /\ UNCHANGED evidence
     ELSE th' = [th EXCEPT ![t] = IdleThread] /\ Derive(th[t].job)
  /\ UNCHANGED <<rows, todo, stopped, telling, saw, bounds>>

Project(t) ==
  LET j == th[t].job IN
  /\ th[t].pc = "project"
  /\ todo' = [todo EXCEPT ![j] = Projected(j)]
  /\ Derive(j)
  /\ th' = [th EXCEPT ![t] = IdleThread]
  /\ UNCHANGED <<rows, stopped, telling, saw, bounds>>

Crash(t) ==
  /\ crashes < MaxCrashes
  /\ th[t].pc \in Working
  /\ th' = [th EXCEPT ![t] = DeadThread]
  /\ crashes' = crashes + 1
  /\ UNCHANGED <<rows, todo, evidence, stopped, telling, saw, stalls>>

-----------------------------------------------------------------------------
Step(t) ==
  \/ Claim(t) \/ Stopped(t) \/ Decide(t) \/ Retry(t) \/ Publish(t) \/ Notify(t)
  \/ Project(t)

Passes(j) ==
  \/ Overdue(j)
  \/ \E n \in DOMAIN attempt[j] : Lapse(j, n)

Next ==
  \/ \E j \in Job : \/ Submit(j) \/ StopRead(j) \/ StopRun(j) \/ WaitTimeout(j)
                    \/ GiveUp(j) \/ Cancel(j) \/ Tell(j) \/ Told(j) \/ Passes(j)
  \/ \E t \in Thread : Step(t) \/ Finish(t) \/ Beat(t) \/ Crash(t)

Spec == Init /\ [][Next]_vars

(* Loops poll, a container past its deadline is killed, leases nobody      *)
(* renews run out and deadlines pass.  A container need not end by itself. *)
Orphaned(j, n) == attempt[j][n].live /\ ~\E t \in Thread : Executing(t, j, n)

Fairness ==
  /\ \A t \in Thread : WF_vars(Step(t)) /\ WF_vars(Beat(t) /\ th' # th)
  /\ \A j \in Job :
       /\ WF_vars(Overdue(j))
       /\ WF_vars(\E n \in DOMAIN attempt[j] : Orphaned(j, n) /\ Lapse(j, n))

FairSpec == Spec /\ Fairness

-----------------------------------------------------------------------------
(* Invariants *)

(* Rows and threads keep their shape. *)
TypeOK ==
  /\ job \in [Job -> JobRow]
  /\ attempt \in [Job -> Seq(AttemptRow)]
  /\ obs \in [Job -> [status: TerminalStatus \union {"none"}, n: Nat]]
  /\ todo \in [Job -> {"pending", "completed", "failed", "cancelled"}]
  /\ evidence \subseteq Job /\ stopped \subseteq Job /\ telling \subseteq Job
  /\ saw \subseteq Job \X {"stop", "wait", "tell"}
  /\ th \in [Thread -> ThreadState]
  /\ stalls \in Nat /\ crashes \in Nat

(* The fence compares names, so it takes an attempt for the last one that  *)
(* another thread of the same name leased.  Nothing else passes for it.    *)
Shared(name) ==
  \E t, u \in Thread : t # u /\ NameOf[t] = name /\ NameOf[u] = name

PassesForLast(j, n) ==
  LET last == Len(attempt[j]) IN
  \/ n = last
  \/ /\ n \in 1..last
     /\ attempt[j][n].owner = attempt[j][last].owner
     /\ Shared(attempt[j][n].owner)

(* A job is over exactly when it has an observation; the observation, the  *)
(* job and the attempt it names agree, nobody holds an ended job, and the  *)
(* attempt is the last or was taken for it.                                *)
ObservationAgrees ==
  \A j \in Job :
    IF Ended(j)
    THEN /\ obs[j].status = job[j].status
         /\ PassesForLast(j, obs[j].n)
         /\ attempt[j][obs[j].n].status = job[j].status
         /\ job[j].owner = Nobody
    ELSE obs[j] = NoObservation

(* max_attempts is a limit on containers started: no job has more attempts *)
(* and no attempt has two executors.                                       *)
AttemptsBounded ==
  \A j \in Job :
    /\ Len(attempt[j]) <= MaxAttempts
    /\ \A n \in DOMAIN attempt[j] :
         Cardinality({t \in Thread : Executing(t, j, n)}) <= 1

(* A cancelled job has no result: nothing it computed is published, shown  *)
(* in its todo or kept as evidence.                                        *)
CancelWins ==
  \A j \in Job : job[j].cancelRequested =>
    /\ obs[j].status # "completed"
    /\ todo[j] # "completed"
    /\ j \notin evidence

(* Evidence and a completed todo rest on a completed observation, whoever  *)
(* wrote that observation: a thread, a cancellation or a claim that found  *)
(* no time or no attempt left.                                             *)
ResultsRestOnObservation ==
  \A j \in Job :
    j \in evidence \/ todo[j] = "completed" => obs[j].status = "completed"

(* The tables a job is spread over tell one story: its row, its attempts,  *)
(* its observation, its todo and its evidence, in their shapes, whoever    *)
(* cancels, dies or comes late (sandbox_jobs.py).                          *)
JobAgrees ==
  /\ TypeOK
  /\ ObservationAgrees
  /\ AttemptsBounded
  /\ CancelWins
  /\ ResultsRestOnObservation

-----------------------------------------------------------------------------
(* What a step may never do *)

(* An ended job never comes back, and its observation is never rewritten:  *)
(* a late publication, a late retry and a second cancellation change none. *)
EndsOnce ==
  [][\A j \in Job : Ended(j) =>
       job'[j].status = job[j].status /\ obs'[j] = obs[j]]_vars

(* What was concluded of a todo stands against every transaction that      *)
(* begins after it: an observation that is published after the run gave up *)
(* waiting, or was stopped, does not change it.  (One that had already     *)
(* read the todo does: nobody locks it.)                                   *)
Settling(j) ==
  \/ \E w \in {"stop", "wait", "tell"} : <<j, w>> \in saw
  \/ \E t \in Thread : th[t].pc = "project" /\ th[t].job = j

TodoSettles ==
  [][\A j \in Job :
       todo[j] # "pending" /\ ~Settling(j) =>
         todo'[j] = todo[j] /\ (~Settling(j))']_vars

(* A thread acts for its attempt: it renews it or publishes its output.    *)
RenewsLease(t, j, n) ==
  Executing(t, j, n) /\ n \in DOMAIN attempt[j]
    /\ attempt'[j][n].live /\ ~attempt[j][n].live

PublishesOutput(t, j, n) ==
  Executing(t, j, n) /\ th[t].pc = "publish" /\ th'[t].pc = "notify"

(* A thread renews or publishes an attempt only while it is the job's last *)
(* or passes for it: one that was overtaken by another worker_id does not. *)
OnlyCurrentAttempt ==
  [][\A t \in Thread, j \in Job, n \in 1..MaxAttempts :
       RenewsLease(t, j, n) \/ PublishesOutput(t, j, n) => PassesForLast(j, n)]_vars

(* No late step rewrites what a job and its todo came to, or acts for an   *)
(* attempt that was given up (publish, heartbeat and notify of             *)
(* sandbox_jobs.py).                                                       *)
JobStands ==
  /\ EndsOnce
  /\ TodoSettles
  /\ OnlyCurrentAttempt

-----------------------------------------------------------------------------
(* Liveness *)

(* A submitted job ends unless it was cancelled or no thread is left: a    *)
(* crash, a lost lease or a failed attempt parks it for a while only.      *)
JobsEnd ==
  \A j \in Job :
    job[j].status # "absent" ~>
      \/ Ended(j)
      \/ job[j].cancelRequested
      \/ \A t \in Thread : th[t].pc = "dead"
=============================================================================
