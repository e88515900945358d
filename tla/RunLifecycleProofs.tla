------------------------ MODULE RunLifecycleProofs ------------------------
(***************************************************************************)
(* Proofs about RunLifecycle, for every set of runs and workers and every  *)
(* value of the other constants:                                           *)
(*   its types;                                                            *)
(*   that leases and epochs keep executions apart: whoever ends a run      *)
(*   holds it, and an ended run stays as it ended;                         *)
(*   how runs end: what the event log says, what the tables record, what   *)
(*   the quota gets back, and that RunLifecycle implements RunContract.    *)
(***************************************************************************)
EXTENDS RunLifecycle, FiniteSetTheorems, TLAPS

-----------------------------------------------------------------------------
(* Lemmas about the operators the transactions are built from *)

(* Sets of tasks can be counted. *)
LEMMA TasksAreFinite ==
  ASSUME NEW S \in SUBSET Task
  PROVE  IsFiniteSet(S) /\ Cardinality(S) \in Nat
<1>1. IsFiniteSet(Task)
  BY FS_Interval, CountsAreNatural DEF Task
<1>2. IsFiniteSet(S)
  BY <1>1, FS_Subset
<1> QED
  BY <1>2, FS_CardinalityType

(* Only tasks are announced. *)
LEMMA UnannouncedAreTasks ==
  ASSUME NEW r, NEW ts
  PROVE  Unannounced(r, ts) \in SUBSET Task
BY DEF Unannounced, Finished

(* The transactions that end a run write well-formed rows and events. *)
LEMMA WriteType ==
  ASSUME TypeOK, NEW r \in Run, NEW row \in RunRow,
         NEW tasks \in SUBSET Task, NEW closing \in Seq(EventName),
         Write(r, row, tasks, closing)
  PROVE  /\ run' \in [Run -> RunRow]
         /\ log' \in [Run -> SUBSET Event]
<1>1. Cardinality(tasks) \in Nat /\ Len(closing) \in Nat
  BY TasksAreFinite
<1>2. run[r].nextSeq \in Nat
  BY DEF TypeOK, RunRow
<1>3. SeqAfter(r, tasks, closing) \in Nat
  BY <1>1, <1>2 DEF SeqAfter
<1>4. [row EXCEPT !.nextSeq = SeqAfter(r, tasks, closing)] \in RunRow
  BY <1>3 DEF RunRow
<1>5. run' \in [Run -> RunRow]
  BY <1>4 DEF Write, TypeOK
<1>6. ASSUME NEW t \in tasks
      PROVE  [seq |-> run[r].nextSeq + Cardinality({u \in tasks : u < t}),
              name |-> "task-terminal", task |-> t] \in Event
  <2>1. Cardinality({u \in tasks : u < t}) \in Nat
    BY TasksAreFinite
  <2>2. t \in Nat
    BY CountsAreNatural DEF Task
  <2> QED
    BY <1>2, <2>1, <2>2 DEF Event, EventName
<1>7. ASSUME NEW i \in 1..Len(closing)
      PROVE  [seq |-> run[r].nextSeq + Cardinality(tasks) + i - 1,
              name |-> closing[i], task |-> Whole] \in Event
  <2>1. closing[i] \in EventName
    OBVIOUS
  <2>2. run[r].nextSeq + Cardinality(tasks) + i - 1 \in Nat
    BY <1>1, <1>2
  <2> QED
    BY <2>1, <2>2 DEF Event, Whole
<1>8. Batch(r, tasks, closing) \in SUBSET Event
  BY <1>6, <1>7 DEF Batch
<1>9. log' \in [Run -> SUBSET Event]
  BY <1>8 DEF Write, TypeOK
<1> QED
  BY <1>5, <1>9

(* One appended event keeps rows and log well-formed, and touches nothing  *)
(* else of the rows.                                                       *)
LEMMA AppendType ==
  ASSUME TypeOK, NEW w \in Worker, NEW name \in EventName,
         wk[w].run \in Run, Append1(w, name)
  PROVE  /\ run' \in [Run -> RunRow]
         /\ log' \in [Run -> SUBSET Event]
<1>1. PICK r \in Run : r = wk[w].run
  OBVIOUS
<1>2. run[r] \in RunRow /\ run[r].nextSeq \in Nat
  BY DEF TypeOK, RunRow
<1>3. [run[r] EXCEPT !.nextSeq = run[r].nextSeq + 1] \in RunRow
  BY <1>2 DEF RunRow
<1>4. [seq |-> run[r].nextSeq, name |-> name, task |-> Whole] \in Event
  BY <1>2 DEF Event, Whole
<1>5. CASE UNCHANGED <<run, log>>
  BY <1>5 DEF TypeOK
<1>6. CASE /\ run' = [run EXCEPT ![r] =
                [run[r] EXCEPT !.nextSeq = run[r].nextSeq + 1]]
           /\ log' = [log EXCEPT ![r] = @ \union
                {[seq |-> run[r].nextSeq, name |-> name, task |-> Whole]}]
  <2>1. run' \in [Run -> RunRow]
    BY <1>3, <1>6 DEF TypeOK
  <2>2. log' \in [Run -> SUBSET Event]
    BY <1>4, <1>6 DEF TypeOK
  <2> QED
    BY <2>1, <2>2
<1> QED
  BY <1>1, <1>5, <1>6 DEF Append1

(* The policy's counters never go below zero. *)
LEMMA QuotaType ==
  ASSUME TypeOK, NEW r \in Run, NEW tokens \in Nat
  PROVE  /\ Settle(r, tokens) \in [used: Nat, reserved: Nat]
         /\ ReleaseQuota(r) \in [used: Nat, reserved: Nat]
<1>1. ASSUME NEW p \in [used: Nat, reserved: Nat]
      PROVE  /\ [p EXCEPT !.used = @ + tokens] \in [used: Nat, reserved: Nat]
             /\ Less(p) \in [used: Nat, reserved: Nat]
  <2>1. p.reserved \in Nat /\ p.used \in Nat
    OBVIOUS
  <2>2. [p EXCEPT !.used = @ + tokens] \in [used: Nat, reserved: Nat]
    BY <2>1
  <2>3. CASE p.reserved > Budget
    BY <2>1, <2>3, CountsAreNatural DEF Less
  <2>4. CASE ~(p.reserved > Budget)
    BY <2>1, <2>4, CountsAreNatural DEF Less
  <2> QED
    BY <2>2, <2>3, <2>4
<1>2. policy \in [used: Nat, reserved: Nat]
  BY DEF TypeOK
<1> QED
  BY <1>1, <1>2 DEF Settle, ReleaseQuota

(* Settling the tasks keeps their rows, outcomes and claims well-formed. *)
LEMMA SettleTasksType ==
  ASSUME TypeOK, NEW w \in Worker, NEW r \in Run,
         NEW ts \in [Task -> LiveTask \union FinishedTask],
         SettleTasks(w, r, ts)
  PROVE  /\ task' \in [Run -> [Task -> LiveTask \union FinishedTask]]
         /\ lead' \in [Run -> [owner: Worker \union {Nobody}, epoch: Nat]]
         /\ outcome' \in [Run -> [Task -> FinishedTask \union {"none"}]]
<1>1. task' \in [Run -> [Task -> LiveTask \union FinishedTask]]
  BY DEF SettleTasks, TypeOK
<1>2. lead' \in [Run -> [owner: Worker \union {Nobody}, epoch: Nat]]
  BY DEF SettleTasks, TypeOK
<1>3. [t \in Task |-> IF outcome[r][t] = "none" /\ t \in Finished(ts)
                      THEN ts[t] ELSE outcome[r][t]]
        \in [Task -> FinishedTask \union {"none"}]
  BY DEF Finished, TypeOK
<1>4. outcome' \in [Run -> [Task -> FinishedTask \union {"none"}]]
  BY <1>3 DEF SettleTasks, TypeOK
<1> QED
  BY <1>1, <1>2, <1>4

-----------------------------------------------------------------------------
(* Type correctness *)

(* A worker that executes something executes a run. *)
RunOfActive == \A w \in Worker : wk[w].pc \in Active => wk[w].run \in Run

LEMMA GotoType ==
  ASSUME wk \in [Worker -> WorkerState], NEW w \in Worker
  PROVE  /\ \A pc \in Pc : Goto(w, pc) => wk' \in [Worker -> WorkerState]
         /\ \A e \in {"none", "search", "budget", "other"} :
              GotoFail(w, e) => wk' \in [Worker -> WorkerState]
         /\ \A pc \in Pc, u \in {"verification", "usage", "answer"} :
              GotoHaving(w, pc, u) => wk' \in [Worker -> WorkerState]
<1>1. PICK s \in WorkerState : s = wk[w]
  OBVIOUS
<1>2. ASSUME NEW pc \in Pc, Goto(w, pc)
      PROVE  wk' \in [Worker -> WorkerState]
  <2>1. [s EXCEPT !.pc = pc] \in WorkerState
    BY DEF WorkerState
  <2> QED
    BY <1>1, <1>2, <2>1 DEF Goto
<1>3. ASSUME NEW e \in {"none", "search", "budget", "other"}, GotoFail(w, e)
      PROVE  wk' \in [Worker -> WorkerState]
  <2>1. [s EXCEPT !.pc = "fail", !.err = e] \in WorkerState
    BY DEF WorkerState, Pc, Active
  <2> QED
    BY <1>1, <1>3, <2>1 DEF GotoFail
<1>4. ASSUME NEW pc \in Pc, NEW u \in {"verification", "usage", "answer"},
             GotoHaving(w, pc, u)
      PROVE  wk' \in [Worker -> WorkerState]
  <2>1. [s EXCEPT !.pc = pc, !.got = s.got \union {u}] \in WorkerState
    BY DEF WorkerState
  <2> QED
    BY <1>1, <1>4, <2>1 DEF GotoHaving
<1> QED
  BY <1>2, <1>3, <1>4

LEMMA PutType ==
  ASSUME TypeOK, NEW w \in Worker, NEW n \in 0..5,
         wk' \in [Worker -> WorkerState], Put(w, n)
  PROVE  ckpt' \in [Run -> [stage: 0..5, findings: Finding]]
<1>1. [stage |-> n, findings |-> wk'[w].findings]
        \in [stage: 0..5, findings: Finding]
  BY DEF WorkerState
<1> QED
  BY <1>1 DEF Put, TypeOK

(* The first half of a step: what the worker remembers stays well-formed.  *)
LEMMA WorkerType ==
  ASSUME TypeOK, RunOfActive, Next
  PROVE  wk' \in [Worker -> WorkerState]
<1> USE DEF TypeOK
<1>1. ASSUME NEW r \in Run,
             Submit(r) \/ RequestCancel(r) \/ ExpireOrphan(r) \/ Stall(r)
      PROVE  wk' \in [Worker -> WorkerState]
  BY <1>1 DEF Submit, RequestCancel, ExpireOrphan, Stall
<1>2. ASSUME NEW w \in Worker, NEW r \in Run, Claim(w, r)
      PROVE  wk' \in [Worker -> WorkerState]
  <2>1. NextAttempt(r) \in Nat
    BY DEF NextAttempt, RunRow
  <2>2. [IdleWorker EXCEPT !.pc = "enter", !.run = r, !.epoch = NextAttempt(r)]
          \in WorkerState
    BY <2>1 DEF IdleWorker, WorkerState, Pc, Active, Finding
  <2> QED
    BY <1>2, <2>2 DEF Claim
<1>3. ASSUME NEW w \in Worker, HeartbeatRead(w) \/ HeartbeatWrite(w)
      PROVE  wk' \in [Worker -> WorkerState]
  <2>1. PICK s \in WorkerState : s = wk[w]
    OBVIOUS
  <2>2. [s EXCEPT !.beat = TRUE] \in WorkerState
        /\ [s EXCEPT !.beat = FALSE] \in WorkerState
    BY DEF WorkerState
  <2> QED
    BY <1>3, <2>1, <2>2 DEF HeartbeatRead, HeartbeatWrite
<1>4. ASSUME NEW w \in Worker, Crash(w) \/ Release(w)
      PROVE  wk' \in [Worker -> WorkerState]
  <2>1. IdleWorker \in WorkerState
        /\ [IdleWorker EXCEPT !.pc = "dead"] \in WorkerState
    BY DEF IdleWorker, WorkerState, Pc, Active, Finding
  <2> QED
    BY <1>4, <2>1 DEF Crash, Release
<1>5. ASSUME NEW w \in Worker,
             \/ Enter(w) \/ Start(w) \/ Plan(w) \/ ResearchRead(w)
             \/ ResearchCommit(w) \/ Wrote(w) \/ Leave(w) \/ Wait(w)
             \/ Delta(w) \/ RecordUsage(w) \/ Final(w) \/ Fail(w) \/ Cancel(w)
      PROVE  wk' \in [Worker -> WorkerState]
  <2>1. PICK pc \in Pc : Goto(w, pc)
    BY <1>5 DEF Enter, Start, Plan, ResearchRead, ResearchCommit, Wrote,
                Leave, Wait, Delta, RecordUsage, Final, Fail, Cancel,
                Pc, Active
  <2> QED
    BY <2>1, GotoType
<1>6. ASSUME NEW w \in Worker,
             \/ Raise(w) \/ PlanCommit(w) \/ Reserve(w) \/ Conclude(w)
             \/ Verify(w) \/ WriteAnswer(w) \/ Validate(w)
      PROVE  wk' \in [Worker -> WorkerState]
  <2>1. \/ \E pc \in Pc : Goto(w, pc)
        \/ \E e \in {"none", "search", "budget", "other"} : GotoFail(w, e)
        \/ \E pc \in Pc, u \in {"verification", "usage", "answer"} :
             GotoHaving(w, pc, u)
    BY <1>6, Zenon DEF Raise, PlanCommit, Reserve, Conclude, Verify,
                       WriteAnswer, Validate, Pc, Active
  <2> QED
    BY <2>1, GotoType
<1>7. ASSUME NEW w \in Worker, Search(w)
      PROVE  wk' \in [Worker -> WorkerState]
  <2>1. wk[w].run \in Run
    BY <1>7 DEF Search, RunOfActive, Active
  <2>2. PICK saved \in [stage: 0..5, findings: Finding] :
          saved = ckpt[wk[w].run]
    BY <2>1
  <2>3. GraphStep[saved.stage + 1] \in Pc
    BY <2>2 DEF GraphStep, Pc, Active
  <2>4. PICK s \in WorkerState : s = wk[w]
    OBVIOUS
  <2>5. [s EXCEPT !.pc = GraphStep[saved.stage + 1],
                  !.findings = saved.findings] \in WorkerState
    BY <2>3 DEF WorkerState
  <2> QED
    BY <1>7, <2>2, <2>4, <2>5 DEF Search
<1>8. ASSUME NEW w \in Worker, PlanRead(w)
      PROVE  wk' \in [Worker -> WorkerState]
  <2>1. PICK s \in WorkerState : s = wk[w]
    OBVIOUS
  <2>2. lead[s.run].epoch \in Nat
    BY <1>8, <2>1 DEF PlanRead, RunOfActive, Active
  <2>3. [s EXCEPT !.pc = "planCommit", !.seen = lead[s.run].epoch]
          \in WorkerState
    BY <2>2 DEF WorkerState, Pc, Active
  <2>4. Goto(w, "reserve") => wk' \in [Worker -> WorkerState]
    BY GotoType DEF Pc, Active
  <2> QED
    BY <1>8, <2>1, <2>3, <2>4 DEF PlanRead
<1>9. ASSUME NEW w \in Worker, Research(w)
      PROVE  wk' \in [Worker -> WorkerState]
  <2>1. PICK s \in WorkerState : s = wk[w]
    OBVIOUS
  <2>2. PICK f \in {"ok", "failed"} :
          wk' = [wk EXCEPT ![w] = [wk[w] EXCEPT !.findings = f,
                   !.pc = IF f = "failed" THEN "researchRead" ELSE "verify"]]
    BY <1>9 DEF Research
  <2>3. [s EXCEPT !.findings = f,
           !.pc = IF f = "failed" THEN "researchRead" ELSE "verify"]
          \in WorkerState
    BY DEF WorkerState, Pc, Active, Finding
  <2> QED
    BY <2>1, <2>2, <2>3
<1> QED
  BY <1>1, <1>2, <1>3, <1>4, <1>5, <1>6, <1>7, <1>8, <1>9 DEF Next, Step

(* The rows that the transactions outside Write put in place of a run's. *)
LEMMA RowType ==
  ASSUME run \in [Run -> RunRow], NEW r \in Run
  PROVE  /\ \A n \in Nat : [run[r] EXCEPT !.status = "queued", !.nextSeq = 3,
                                        !.created = n] \in RunRow
         /\ \A s \in {"completed", "partial", "failed"},
              c \in {"none", "reserved", "settled", "released"} :
              [run[r] EXCEPT !.status = s, !.reservation = c] \in RunRow
         /\ \A c \in {"none", "reserved", "settled", "released"} :
              /\ [run[r] EXCEPT !.status = "cancelled", !.reservation = c]
                   \in RunRow
              /\ [run[r] EXCEPT !.status = "cancelled",
                     !.cancelRequested = TRUE, !.reservation = c] \in RunRow
         /\ \A w \in Worker, n \in Nat :
              [run[r] EXCEPT !.status = "running", !.owner = w,
                 !.lease = "live", !.attempt = n] \in RunRow
         /\ [run[r] EXCEPT !.lease = "live"] \in RunRow
         /\ [run[r] EXCEPT !.lease = "expired"] \in RunRow
         /\ [run[r] EXCEPT !.owner = Nobody, !.lease = "none"] \in RunRow
         /\ [run[r] EXCEPT !.reservation = "reserved"] \in RunRow
<1>1. PICK row \in RunRow : row = run[r]
  OBVIOUS
<1> USE DEF RunRow, RunStatus, TerminalStatus
<1>2. \A n \in Nat : [row EXCEPT !.status = "queued", !.nextSeq = 3,
                                !.created = n] \in RunRow
  OBVIOUS
<1>3. \A s \in {"completed", "partial", "failed"},
        c \in {"none", "reserved", "settled", "released"} :
        [row EXCEPT !.status = s, !.reservation = c] \in RunRow
  OBVIOUS
<1>4. \A c \in {"none", "reserved", "settled", "released"} :
        [row EXCEPT !.status = "cancelled", !.reservation = c] \in RunRow
  OBVIOUS
<1>5. \A c \in {"none", "reserved", "settled", "released"} :
        [row EXCEPT !.status = "cancelled", !.cancelRequested = TRUE,
                    !.reservation = c] \in RunRow
  OBVIOUS
<1>6. \A w \in Worker, n \in Nat :
        [row EXCEPT !.status = "running", !.owner = w, !.lease = "live",
                    !.attempt = n] \in RunRow
  OBVIOUS
<1>7. /\ [row EXCEPT !.lease = "live"] \in RunRow
      /\ [row EXCEPT !.lease = "expired"] \in RunRow
      /\ [row EXCEPT !.owner = Nobody, !.lease = "none"] \in RunRow
      /\ [row EXCEPT !.reservation = "reserved"] \in RunRow
  OBVIOUS
<1> HIDE DEF RunRow, RunStatus, TerminalStatus
<1> QED
  BY <1>1, <1>2, <1>3, <1>4, <1>5, <1>6, <1>7, Zenon

(* A reservation that is given back has a known state. *)
LEMMA ReservationType ==
  ASSUME run \in [Run -> RunRow], NEW r \in Run, NEW to \in {"settled", "released"}
  PROVE  ReservationAfter(r, to) \in {"none", "reserved", "settled", "released"}
<1>1. run[r].reservation \in {"none", "reserved", "settled", "released"}
  BY DEF RunRow
<1> QED
  BY <1>1 DEF ReservationAfter

(* The stop decision of an ended run has a route the table knows. *)
LEMMA DecideType ==
  ASSUME TypeOK, NEW r \in Run, NEW status \in TerminalStatus, Decide(r, status)
  PROVE  stop' \in [Run -> Route]
<1>1. RouteOf(status) \in Route
  BY DEF RouteOf, Route, TerminalStatus
<1> QED
  BY <1>1 DEF Decide, TypeOK

(* The second half: a step of the API or of the queue keeps the rows.      *)
LEMMA ApiType ==
  ASSUME TypeOK, NEW r \in Run, wk' \in [Worker -> WorkerState],
         Submit(r) \/ RequestCancel(r) \/ ExpireOrphan(r) \/ Stall(r)
  PROVE  TypeOK'
<1>1. CASE Submit(r)
  <2>1. submitted + 1 \in Nat
    BY DEF TypeOK
  <2>2. [run[r] EXCEPT !.status = "queued", !.nextSeq = 3,
                       !.created = submitted + 1] \in RunRow
    BY <2>1, RowType DEF TypeOK
  <2>3. run' \in [Run -> RunRow]
    BY <1>1, <2>2 DEF Submit, TypeOK
  <2>4. task' \in [Run -> [Task -> LiveTask \union FinishedTask]]
    <3>1. [t \in Task |-> IF t = First THEN "ready" ELSE "pending"]
            \in [Task -> LiveTask \union FinishedTask]
      BY DEF LiveTask
    <3> QED BY <1>1, <3>1 DEF Submit, TypeOK
  <2>5. {[seq |-> 1, name |-> "run-queued", task |-> Whole],
         [seq |-> 2, name |-> "plan-created", task |-> Whole]} \in SUBSET Event
    BY DEF Event, EventName, Whole
  <2>6. log' \in [Run -> SUBSET Event]
    BY <1>1, <2>5 DEF Submit, TypeOK
  <2> QED
    BY <1>1, <2>1, <2>3, <2>4, <2>6 DEF Submit, TypeOK
<1>2. CASE RequestCancel(r)
  <2> DEFINE row == [run[r] EXCEPT !.status = "cancelled",
                       !.cancelRequested = TRUE,
                       !.reservation = ReservationAfter(r, "released")]
             closing == IF Logged(r, "run-terminal") THEN <<>>
                        ELSE <<"run-terminal">>
  <2>1. row \in RunRow
    BY RowType, ReservationType DEF TypeOK
  <2>2. closing \in Seq(EventName)
    <3>1. <<>> \in Seq(EventName) /\ <<"run-terminal">> \in Seq(EventName)
      BY DEF EventName
    <3> QED BY <3>1
  <2>3. Write(r, row, {}, closing)
    BY <1>2 DEF RequestCancel
  <2>4. run' \in [Run -> RunRow] /\ log' \in [Run -> SUBSET Event]
    <3> HIDE DEF row, closing
    <3> QED BY <2>1, <2>2, <2>3, WriteType
  <2>5. policy' \in [used: Nat, reserved: Nat]
    BY <1>2, QuotaType DEF RequestCancel
  <2>6. task' \in [Run -> [Task -> LiveTask \union FinishedTask]]
    <3>1. [t \in Task |-> IF task[r][t] \in {"pending", "running"}
                          THEN "cancelled" ELSE task[r][t]]
            \in [Task -> LiveTask \union FinishedTask]
      BY DEF TypeOK, FinishedTask
    <3> QED BY <1>2, <3>1 DEF RequestCancel, TypeOK
  <2>7. stop' \in [Run -> Route]
    BY <1>2, DecideType DEF RequestCancel, TerminalStatus
  <2> QED
    BY <1>2, <2>4, <2>5, <2>6, <2>7 DEF RequestCancel, TypeOK, env
<1>3. CASE ExpireOrphan(r) \/ Stall(r)
  <2>1. [run[r] EXCEPT !.lease = "expired"] \in RunRow
    BY RowType DEF TypeOK
  <2>2. run' \in [Run -> RunRow]
    BY <1>3, <2>1 DEF ExpireOrphan, Stall, TypeOK
  <2> QED
    BY <1>3, <2>2 DEF ExpireOrphan, Stall, TypeOK, env
<1> QED
  BY <1>1, <1>2, <1>3

LEMMA LeaseType ==
  ASSUME TypeOK, RunOfActive, NEW w \in Worker,
         wk' \in [Worker -> WorkerState],
         \/ \E r \in Run : Claim(w, r)
         \/ HeartbeatRead(w) \/ HeartbeatWrite(w) \/ Crash(w) \/ Release(w)
  PROVE  TypeOK'
<1>4. ASSUME NEW r \in Run, Claim(w, r)
      PROVE  TypeOK'
  <2>1. [run[r] EXCEPT !.status = "running", !.owner = w,
           !.lease = "live", !.attempt = NextAttempt(r)] \in RunRow
    <3>1. NextAttempt(r) \in Nat
      BY DEF TypeOK, RunRow, NextAttempt
    <3> QED BY <3>1, RowType DEF TypeOK
  <2>2. run' \in [Run -> RunRow]
    BY <1>4, <2>1 DEF Claim, TypeOK
  <2> QED
    BY <1>4, <2>2 DEF Claim, TypeOK, env
<1>5. CASE HeartbeatRead(w) \/ Crash(w)
  BY <1>5 DEF HeartbeatRead, Crash, TypeOK, rows
<1>6. CASE HeartbeatWrite(w)
  <2>1. ASSUME NEW q \in Run
        PROVE  [run[q] EXCEPT !.lease = "live"] \in RunRow
    BY RowType DEF TypeOK
  <2>2. CASE wk[w].run \in Run
    <3>1. run' \in [Run -> RunRow]
      BY <1>6, <2>1, <2>2 DEF HeartbeatWrite, TypeOK
    <3> QED BY <1>6, <3>1 DEF HeartbeatWrite, TypeOK, env
  <2>3. CASE wk[w].run \notin Run
    <3>1. run' = run
      BY <1>6, <2>3 DEF HeartbeatWrite, TypeOK
    <3> QED BY <1>6, <3>1 DEF HeartbeatWrite, TypeOK, env
  <2> QED
    BY <2>2, <2>3
<1>7. CASE Release(w)
  <2>1. PICK q \in Run : q = wk[w].run
    BY <1>7 DEF Release, RunOfActive, Active
  <2>2. [run[q] EXCEPT !.owner = Nobody, !.lease = "none"] \in RunRow
    BY RowType DEF TypeOK
  <2>3. run' \in [Run -> RunRow]
    BY <1>7, <2>1, <2>2 DEF Release, TypeOK
  <2> QED
    BY <1>7, <2>3 DEF Release, TypeOK, env
<1> QED
  BY <1>4, <1>5, <1>6, <1>7

(* Publishing an answer writes well-formed rows. *)
LEMMA PublishType ==
  ASSUME TypeOK, NEW w \in Worker, NEW r \in Run, NEW cited \in BOOLEAN,
         Publish(w, r, cited)
  PROVE  /\ run' \in [Run -> RunRow] /\ log' \in [Run -> SUBSET Event]
         /\ policy' \in [used: Nat, reserved: Nat]
         /\ task' \in [Run -> [Task -> LiveTask \union FinishedTask]]
         /\ lead' \in [Run -> [owner: Worker \union {Nobody}, epoch: Nat]]
         /\ outcome' \in [Run -> [Task -> FinishedTask \union {"none"}]]
         /\ stop' \in [Run -> Route]
         /\ result' \in [Run -> [answered: BOOLEAN, record: BOOLEAN]]
<1> DEFINE done == [t \in Task |-> IF task[r][t] \in LiveTask
                                 THEN "completed" ELSE task[r][t]]
           row(status) == [run[r] EXCEPT !.status = status,
                             !.reservation = ReservationAfter(r, "settled")]
<1>1. PICK status \in {"completed", "partial"}, record \in BOOLEAN,
           tokens \in Nat :
        /\ policy' = Settle(r, tokens)
        /\ result' = [result EXCEPT ![r] = [answered |-> TRUE, record |-> record]]
        /\ Decide(r, status)
        /\ SettleTasks(w, r, done)
        /\ Write(r, row(status), Unannounced(r, done), <<"run-terminal">>)
  BY CountsAreNatural DEF Publish, DecideStop
<1>2. done \in [Task -> LiveTask \union FinishedTask]
  BY DEF TypeOK, FinishedTask
<1>3. row(status) \in RunRow
  BY RowType, ReservationType DEF TypeOK
<1>4. <<"run-terminal">> \in Seq(EventName)
  BY DEF EventName
<1> HIDE DEF done, row
<1>5. run' \in [Run -> RunRow] /\ log' \in [Run -> SUBSET Event]
  BY <1>1, <1>3, <1>4, WriteType, UnannouncedAreTasks
<1>6. /\ task' \in [Run -> [Task -> LiveTask \union FinishedTask]]
      /\ lead' \in [Run -> [owner: Worker \union {Nobody}, epoch: Nat]]
      /\ outcome' \in [Run -> [Task -> FinishedTask \union {"none"}]]
  BY <1>1, <1>2, SettleTasksType
<1>7. stop' \in [Run -> Route] /\ policy' \in [used: Nat, reserved: Nat]
  BY <1>1, DecideType, QuotaType DEF TerminalStatus
<1>8. result' \in [Run -> [answered: BOOLEAN, record: BOOLEAN]]
  BY <1>1 DEF TypeOK
<1> QED
  BY <1>5, <1>6, <1>7, <1>8

(* ... and so does the last transaction when it finds the run stopped. *)
LEMMA StopInFinalType ==
  ASSUME TypeOK, NEW w \in Worker, NEW r \in Run, StopInFinal(w, r)
  PROVE  /\ run' \in [Run -> RunRow] /\ log' \in [Run -> SUBSET Event]
         /\ policy' \in [used: Nat, reserved: Nat]
         /\ task' \in [Run -> [Task -> LiveTask \union FinishedTask]]
         /\ lead' \in [Run -> [owner: Worker \union {Nobody}, epoch: Nat]]
         /\ outcome' \in [Run -> [Task -> FinishedTask \union {"none"}]]
         /\ stop' \in [Run -> Route]
         /\ result' \in [Run -> [answered: BOOLEAN, record: BOOLEAN]]
<1> DEFINE done == [t \in Task |-> IF task[r][t] \in {"pending", "running"}
                                 THEN "cancelled" ELSE task[r][t]]
           row == [run[r] EXCEPT !.status = "cancelled",
                     !.reservation = ReservationAfter(r, "released")]
<1>1. /\ policy' = ReleaseQuota(r)
      /\ SettleTasks(w, r, done)
      /\ Write(r, row, Unannounced(r, done), <<"run-terminal">>)
      /\ UNCHANGED <<stop, result>>
  BY DEF StopInFinal
<1>2. done \in [Task -> LiveTask \union FinishedTask]
  BY DEF TypeOK, FinishedTask
<1>3. row \in RunRow
  BY RowType, ReservationType DEF TypeOK
<1>4. <<"run-terminal">> \in Seq(EventName)
  BY DEF EventName
<1> HIDE DEF done, row
<1>5. run' \in [Run -> RunRow] /\ log' \in [Run -> SUBSET Event]
  BY <1>1, <1>3, <1>4, WriteType, UnannouncedAreTasks
<1>6. /\ task' \in [Run -> [Task -> LiveTask \union FinishedTask]]
      /\ lead' \in [Run -> [owner: Worker \union {Nobody}, epoch: Nat]]
      /\ outcome' \in [Run -> [Task -> FinishedTask \union {"none"}]]
  BY <1>1, <1>2, SettleTasksType
<1> QED
  BY <1>1, <1>5, <1>6, QuotaType DEF TypeOK

(* ... and so does a step of a worker. *)
LEMMA StepType ==
  ASSUME TypeOK, RunOfActive, NEW w \in Worker,
         wk' \in [Worker -> WorkerState],
         Raise(w) \/ (Step(w) /\ ~Release(w))
  PROVE  TypeOK'
<1>1. PICK r \in Run : r = wk[w].run
  BY DEF Raise, Step, Enter, Start, Search, Plan, PlanRead, PlanCommit, Reserve,
         Research, ResearchRead, ResearchCommit, Verify, WriteAnswer, Wrote,
         Validate, Leave, Wait, Conclude, Delta, RecordUsage, Final, Fail,
         Cancel, RunOfActive, Active
<1>2. CASE \/ Enter(w) \/ Search(w) \/ PlanRead(w) \/ WriteAnswer(w)
           \/ Wait(w) \/ Conclude(w)
  BY <1>2 DEF Enter, Search, PlanRead, WriteAnswer, Wait, Conclude,
              TypeOK, rows, env
<1>3. CASE Raise(w)
  BY <1>1, <1>3 DEF Raise, TypeOK, rows
<1>4. CASE Start(w) \/ Plan(w) \/ Delta(w) \/ RecordUsage(w)
  <2>1. \/ UNCHANGED <<run, log>>
        \/ \E name \in EventName : Append1(w, name)
    BY <1>4 DEF Start, Plan, Delta, RecordUsage, EventName
  <2>2. run' \in [Run -> RunRow] /\ log' \in [Run -> SUBSET Event]
    BY <1>1, <2>1, AppendType DEF TypeOK
  <2> QED
    BY <1>4, <2>2 DEF Start, Plan, Delta, RecordUsage, TypeOK, env
<1>5. CASE Research(w) \/ Verify(w) \/ Wrote(w)
  <2>1. PICK name \in EventName : Append1(w, name)
    BY <1>5 DEF Research, Verify, Wrote, EventName
  <2>2. run' \in [Run -> RunRow] /\ log' \in [Run -> SUBSET Event]
    BY <1>1, <2>1, AppendType
  <2>3. UNCHANGED ckpt \/ \E n \in 0..5 : Put(w, n)
    BY <1>5 DEF Research, Verify, Wrote
  <2>4. ckpt' \in [Run -> [stage: 0..5, findings: Finding]]
    BY <2>3, PutType DEF TypeOK
  <2> QED
    BY <1>5, <2>2, <2>4 DEF Research, Verify, Wrote, TypeOK, env
<1>6. CASE ResearchRead(w) \/ Validate(w) \/ Leave(w)
  <2>1. [stage |-> 5, findings |-> wk[w].findings]
          \in [stage: 0..5, findings: Finding]
    BY DEF TypeOK, WorkerState
  <2>2. Leave(w) => ckpt' \in [Run -> [stage: 0..5, findings: Finding]]
    BY <1>1, <2>1 DEF Leave, TypeOK
  <2>3. \/ UNCHANGED ckpt
        \/ \E n \in 0..5 : Put(w, n)
        \/ Leave(w)
    BY <1>6 DEF ResearchRead, Validate
  <2>4. ckpt' \in [Run -> [stage: 0..5, findings: Finding]]
    BY <2>2, <2>3, PutType DEF TypeOK
  <2> QED
    BY <1>6, <2>4 DEF ResearchRead, Validate, Leave, TypeOK, rows, env
<1>7. CASE PlanCommit(w)
  <2>1. wk[w].seen + 1 \in Nat
    BY DEF TypeOK, WorkerState
  <2>2. First \in Task
    BY CountsAreNatural DEF First, Task
  <2>3. [task[r] EXCEPT ![First] = "running"]
          \in [Task -> LiveTask \union FinishedTask]
    BY <2>2 DEF TypeOK, LiveTask
  <2>4. [owner |-> w, epoch |-> wk[w].seen + 1]
          \in [owner: Worker \union {Nobody}, epoch: Nat]
    BY <2>1
  <2>5. \/ UNCHANGED <<task, lead>>
        \/ /\ task' = [task EXCEPT ![r] = [task[r] EXCEPT ![First] = "running"]]
           /\ lead' = [lead EXCEPT ![r] =
                         [owner |-> w, epoch |-> wk[w].seen + 1]]
    BY <1>1, <1>7 DEF PlanCommit
  <2>6. task' \in [Run -> [Task -> LiveTask \union FinishedTask]]
    BY <2>3, <2>5 DEF TypeOK
  <2>7. lead' \in [Run -> [owner: Worker \union {Nobody}, epoch: Nat]]
    BY <2>4, <2>5 DEF TypeOK
  <2> QED
    BY <1>7, <2>6, <2>7 DEF PlanCommit, TypeOK, env
<1>8. CASE Reserve(w)
  <2>1. UNCHANGED ckpt \/ Put(w, 1)
    BY <1>8 DEF Reserve
  <2>2. ckpt' \in [Run -> [stage: 0..5, findings: Finding]]
    BY <2>1, PutType DEF TypeOK
  <2>3. UNCHANGED policy \/ policy' = [policy EXCEPT !.reserved = @ + Budget]
    BY <1>8 DEF Reserve
  <2>4. policy' \in [used: Nat, reserved: Nat]
    BY <2>3, CountsAreNatural DEF TypeOK
  <2>5. [run[r] EXCEPT !.reservation = "reserved"] \in RunRow
    BY RowType DEF TypeOK
  <2>6. run' \in [Run -> RunRow]
    BY <1>1, <1>8, <2>5 DEF Reserve, TypeOK
  <2>7. faulted' \in SUBSET Run
    BY <1>1, <1>8 DEF Reserve, TypeOK
  <2> QED
    BY <1>8, <2>2, <2>4, <2>6, <2>7 DEF Reserve, TypeOK
<1>9. CASE ResearchCommit(w)
  <2>1. First \in Task
    BY CountsAreNatural DEF First, Task
  <2>2. task' \in [Run -> [Task -> LiveTask \union FinishedTask]]
    BY <1>1, <1>9, <2>1 DEF ResearchCommit, TypeOK, FinishedTask
  <2>3. ckpt' \in [Run -> [stage: 0..5, findings: Finding]]
    BY <1>9, PutType DEF ResearchCommit
  <2> QED
    BY <1>9, <2>2, <2>3 DEF ResearchCommit, TypeOK, env
<1>10. CASE Final(w)
  <2>1. CASE UNCHANGED rows
    BY <1>10, <2>1 DEF Final, TypeOK, rows, env
  <2>2. CASE StopInFinal(w, r) \/ \E cited \in BOOLEAN : Publish(w, r, cited)
    <3>1. /\ run' \in [Run -> RunRow] /\ log' \in [Run -> SUBSET Event]
          /\ policy' \in [used: Nat, reserved: Nat]
          /\ task' \in [Run -> [Task -> LiveTask \union FinishedTask]]
          /\ lead' \in [Run -> [owner: Worker \union {Nobody}, epoch: Nat]]
          /\ outcome' \in [Run -> [Task -> FinishedTask \union {"none"}]]
          /\ stop' \in [Run -> Route]
          /\ result' \in [Run -> [answered: BOOLEAN, record: BOOLEAN]]
      BY <2>2, PublishType, StopInFinalType
    <3> QED
      BY <1>10, <3>1 DEF Final, TypeOK, env
  <2> QED
    BY <1>1, <1>10, <2>1, <2>2 DEF Final
<1>11. CASE Fail(w)
  <2> DEFINE done == [t \in Task |->
                 IF task[r][t] \notin LiveTask THEN task[r][t]
                 ELSE IF wk[w].err = "budget" /\ task[r][t] = "pending"
                 THEN "skipped" ELSE "failed"]
             row == [run[r] EXCEPT !.status = "failed",
                       !.reservation = ReservationAfter(r, "released")]
             closing == IF wk[w].err = "search"
                        THEN <<"assistant-failure", "run-terminal">>
                        ELSE <<"run-terminal">>
  <2>1. done \in [Task -> LiveTask \union FinishedTask]
    BY DEF TypeOK, FinishedTask
  <2>2. row \in RunRow
    BY RowType, ReservationType DEF TypeOK
  <2>3. closing \in Seq(EventName)
    <3>1. /\ <<"assistant-failure", "run-terminal">> \in Seq(EventName)
          /\ <<"run-terminal">> \in Seq(EventName)
      BY DEF EventName
    <3> QED BY <3>1
  <2>4. CASE UNCHANGED rows
    BY <1>11, <2>4 DEF Fail, TypeOK, rows, env
  <2>5. CASE /\ policy' = ReleaseQuota(r)
             /\ SettleTasks(w, r, done)
             /\ Decide(r, "failed")
             /\ Write(r, row, Unannounced(r, done), closing)
             /\ UNCHANGED result
    <3> HIDE DEF done, row, closing
    <3>1. run' \in [Run -> RunRow] /\ log' \in [Run -> SUBSET Event]
      BY <2>2, <2>3, <2>5, WriteType, UnannouncedAreTasks
    <3>2. /\ task' \in [Run -> [Task -> LiveTask \union FinishedTask]]
          /\ lead' \in [Run -> [owner: Worker \union {Nobody}, epoch: Nat]]
          /\ outcome' \in [Run -> [Task -> FinishedTask \union {"none"}]]
      BY <2>1, <2>5, SettleTasksType
    <3>3. stop' \in [Run -> Route] /\ policy' \in [used: Nat, reserved: Nat]
      BY <2>5, DecideType, QuotaType DEF TerminalStatus
    <3> QED
      BY <1>11, <2>5, <3>1, <3>2, <3>3 DEF Fail, TypeOK, env
  <2> QED
    BY <1>1, <1>11, <2>4, <2>5 DEF Fail
<1>12. CASE Cancel(w)
  <2> DEFINE done == [t \in Task |-> IF task[r][t] \in LiveTask
                                   THEN "cancelled" ELSE task[r][t]]
             row == [run[r] EXCEPT !.status = "cancelled",
                       !.reservation = ReservationAfter(r, "released")]
  <2>1. done \in [Task -> LiveTask \union FinishedTask]
    BY DEF TypeOK, FinishedTask
  <2>2. row \in RunRow
    BY RowType, ReservationType DEF TypeOK
  <2>3. <<"run-cancelled">> \in Seq(EventName)
    BY DEF EventName
  <2>4. CASE UNCHANGED rows
    BY <1>12, <2>4 DEF Cancel, TypeOK, rows, env
  <2>5. CASE /\ policy' = ReleaseQuota(r)
             /\ SettleTasks(w, r, done)
             /\ Decide(r, "cancelled")
             /\ Write(r, row, Unannounced(r, done), <<"run-cancelled">>)
             /\ UNCHANGED result
    <3> HIDE DEF done, row
    <3>1. run' \in [Run -> RunRow] /\ log' \in [Run -> SUBSET Event]
      BY <2>2, <2>3, <2>5, WriteType, UnannouncedAreTasks
    <3>2. /\ task' \in [Run -> [Task -> LiveTask \union FinishedTask]]
          /\ lead' \in [Run -> [owner: Worker \union {Nobody}, epoch: Nat]]
          /\ outcome' \in [Run -> [Task -> FinishedTask \union {"none"}]]
      BY <2>1, <2>5, SettleTasksType
    <3>3. stop' \in [Run -> Route] /\ policy' \in [used: Nat, reserved: Nat]
      BY <2>5, DecideType, QuotaType DEF TerminalStatus
    <3> QED
      BY <1>12, <2>5, <3>1, <3>2, <3>3 DEF Cancel, TypeOK, env
  <2> QED
    BY <1>1, <1>12, <2>4, <2>5 DEF Cancel
<1> QED
  BY <1>2, <1>3, <1>4, <1>5, <1>6, <1>7, <1>8, <1>9, <1>10, <1>11, <1>12
  DEF Step

(* A worker keeps executing the run it claimed, at the epoch it claimed it, *)
(* until it goes back to the queue or dies.                                *)
LEMMA WorkerFrame ==
  ASSUME TypeOK, RunOfActive, NEW w \in Worker, Step(w) \/ Raise(w)
  PROVE  /\ wk[w].pc \in Active
         /\ \A v \in Worker \ {w} : wk'[v] = wk[v]
         /\ wk'[w].pc \in Active =>
              wk'[w].run = wk[w].run /\ wk'[w].epoch = wk[w].epoch
         /\ wk'[w].pc \notin Active <=> Release(w)
<1>1. PICK s \in WorkerState : s = wk[w]
  BY DEF TypeOK
<1>2. wk \in [Worker -> WorkerState]
  BY DEF TypeOK
<1>3. CASE Release(w)
  <2>1. wk'[w] = IdleWorker /\ \A v \in Worker \ {w} : wk'[v] = wk[v]
    BY <1>2, <1>3 DEF Release
  <2> QED
    BY <1>3, <2>1 DEF Release, IdleWorker, Active
<1>4. ASSUME ~Release(w)
      PROVE  /\ s.pc \in Active
             /\ \E x : /\ x.pc \in Active /\ x.run = s.run /\ x.epoch = s.epoch
                      /\ wk' = [wk EXCEPT ![w] = x]
  <2> DEFINE Keeps(x) == x.pc \in Active /\ x.run = s.run /\ x.epoch = s.epoch
  <2>1. /\ \A pc \in Active : Keeps([s EXCEPT !.pc = pc])
        /\ \A e : Keeps([s EXCEPT !.pc = "fail", !.err = e])
        /\ \A pc \in Active : \A u : Keeps([s EXCEPT !.pc = pc, !.got = u])
        /\ \A pc \in Active : \A f : Keeps([s EXCEPT !.pc = pc, !.findings = f])
        /\ \A pc \in Active : \A f : Keeps([s EXCEPT !.findings = f, !.pc = pc])
        /\ \A pc \in Active : \A n : Keeps([s EXCEPT !.pc = pc, !.seen = n])
    BY DEF WorkerState, Active
  <2>0. SUFFICES s.pc \in Active /\ \E x : Keeps(x) /\ wk' = [wk EXCEPT ![w] = x]
    OBVIOUS
  <2> HIDE DEF Keeps
  <2>2. ASSUME \/ \E pc \in Active : Goto(w, pc)
               \/ \E e : GotoFail(w, e)
               \/ \E pc \in Active,
                     u \in {"verification", "usage", "answer"} : GotoHaving(w, pc, u)
        PROVE  \E x : Keeps(x) /\ wk' = [wk EXCEPT ![w] = x]
    <3>1. CASE \E pc \in Active : Goto(w, pc)
      <4>1. PICK pc \in Active : wk' = [wk EXCEPT ![w] = [s EXCEPT !.pc = pc]]
        BY <1>1, <3>1 DEF Goto
      <4> QED
        BY <2>1, <4>1
    <3>2. CASE \E e : GotoFail(w, e)
      <4>1. PICK e : wk' = [wk EXCEPT ![w] = [s EXCEPT !.pc = "fail", !.err = e]]
        BY <1>1, <3>2 DEF GotoFail
      <4> QED
        BY <2>1, <4>1
    <3>3. CASE \E pc \in Active,
                  u \in {"verification", "usage", "answer"} : GotoHaving(w, pc, u)
      <4>1. PICK pc \in Active,
                 u \in {"verification", "usage", "answer"} :
              wk' = [wk EXCEPT ![w] = [s EXCEPT !.pc = pc, !.got = s.got \union {u}]]
        BY <1>1, <3>3 DEF GotoHaving
      <4> QED
        BY <2>1, <4>1
    <3> QED
      BY <2>2, <3>1, <3>2, <3>3
  <2>3. CASE \/ Enter(w) \/ Start(w) \/ Plan(w) \/ ResearchRead(w)
             \/ ResearchCommit(w) \/ Wrote(w) \/ Leave(w) \/ Wait(w)
             \/ Delta(w) \/ RecordUsage(w) \/ Final(w) \/ Fail(w) \/ Cancel(w)
    <3>1. s.pc \in Active /\ \E pc \in Active : Goto(w, pc)
      BY <1>1, <2>3 DEF Enter, Start, Plan, ResearchRead, ResearchCommit, Wrote,
                  Leave, Wait, Delta, RecordUsage, Final, Fail, Cancel, Active
    <3> QED
      BY <2>2, <3>1
  <2>4. CASE \/ Raise(w) \/ PlanCommit(w) \/ Reserve(w) \/ Conclude(w)
             \/ Verify(w) \/ WriteAnswer(w) \/ Validate(w)
    <3>1. wk[w].pc \in Active
      BY <2>4 DEF Raise, PlanCommit, Reserve, Conclude, Verify,
                  WriteAnswer, Validate, Active
    <3>2. \/ \E pc \in Active : Goto(w, pc)
          \/ \E e : GotoFail(w, e)
          \/ \E pc \in Active,
                u \in {"verification", "usage", "answer"} : GotoHaving(w, pc, u)
      BY <2>4, Zenon DEF Raise, PlanCommit, Reserve, Conclude, Verify,
                         WriteAnswer, Validate, Active
    <3> QED
      BY <1>1, <2>2, <3>1, <3>2
  <2>5. CASE Search(w)
    <3>1. s.pc \in Active
      BY <1>1, <2>5 DEF Search, Active
    <3>2. PICK saved \in [stage: 0..5, findings: Finding] :
            saved = ckpt[wk[w].run]
      BY <2>5, <3>1, <1>1 DEF TypeOK, RunOfActive
    <3>3. GraphStep[saved.stage + 1] \in Active
      BY <3>2 DEF GraphStep, Active
    <3>4. PICK pc \in Active, f \in Finding :
            wk' = [wk EXCEPT ![w] = [s EXCEPT !.pc = pc, !.findings = f]]
      BY <1>1, <2>5, <3>2, <3>3 DEF Search
    <3> QED
      BY <2>1, <3>1, <3>4
  <2>6. CASE PlanRead(w)
    <3>1. s.pc \in Active
      BY <1>1, <2>6 DEF PlanRead, Active
    <3>2. \/ \E pc \in Active : Goto(w, pc)
          \/ \E n : wk' = [wk EXCEPT ![w] = [s EXCEPT !.pc = "planCommit",
                                                     !.seen = n]]
      BY <1>1, <2>6 DEF PlanRead, Active
    <3>3. "planCommit" \in Active
      BY DEF Active
    <3> QED
      BY <2>1, <2>2, <3>1, <3>2, <3>3
  <2>7. CASE Research(w)
    <3>1. s.pc \in Active
      BY <1>1, <2>7 DEF Research, Active
    <3>2. PICK f \in {"ok", "failed"} :
            wk' = [wk EXCEPT ![w] = [s EXCEPT !.findings = f,
                     !.pc = IF f = "failed" THEN "researchRead" ELSE "verify"]]
      BY <1>1, <2>7 DEF Research
    <3>3. (IF f = "failed" THEN "researchRead" ELSE "verify") \in Active
      BY DEF Active
    <3> QED
      BY <2>1, <3>1, <3>2, <3>3
  <2> QED
    BY <1>4, <2>3, <2>4, <2>5, <2>6, <2>7 DEF Step
<1>5. CASE ~Release(w)
  <2>1. PICK x : /\ x.pc \in Active /\ x.run = s.run /\ x.epoch = s.epoch
                 /\ wk' = [wk EXCEPT ![w] = x]
    BY <1>4, <1>5
  <2>2. wk'[w] = x /\ \A v \in Worker \ {w} : wk'[v] = wk[v]
    BY <1>2, <2>1
  <2> QED
    BY <1>1, <1>4, <1>5, <2>1, <2>2
<1> QED
  BY <1>3, <1>5

(* The lease transactions change what one worker does, if any. *)
LEMMA LeaseFrame ==
  ASSUME TypeOK, NEW w \in Worker
  PROVE  /\ \A r \in Run : Claim(w, r) =>
              /\ wk[w].pc = "idle" /\ wk'[w].pc = "enter"
              /\ wk'[w].run = r /\ wk'[w].epoch = NextAttempt(r)
              /\ \A v \in Worker \ {w} : wk'[v] = wk[v]
         /\ HeartbeatRead(w) \/ HeartbeatWrite(w) =>
              /\ wk'[w].pc = wk[w].pc /\ wk'[w].run = wk[w].run
              /\ wk'[w].epoch = wk[w].epoch
              /\ \A v \in Worker \ {w} : wk'[v] = wk[v]
         /\ Crash(w) =>
              /\ wk[w].pc \in Active /\ wk'[w].pc = "dead"
              /\ \A v \in Worker \ {w} : wk'[v] = wk[v]
         /\ "idle" \notin Active /\ "dead" \notin Active /\ "enter" \in Active
<1>1. PICK s \in WorkerState : s = wk[w]
  BY DEF TypeOK
<1>2. wk \in [Worker -> WorkerState]
  BY DEF TypeOK
<1>3. "idle" \notin Active /\ "dead" \notin Active /\ "enter" \in Active
  BY DEF Active
<1>4. ASSUME NEW x, wk' = [wk EXCEPT ![w] = x]
      PROVE  wk'[w] = x /\ \A v \in Worker \ {w} : wk'[v] = wk[v]
  BY <1>2, <1>4
<1>5. ASSUME NEW r \in Run, Claim(w, r)
      PROVE  /\ wk[w].pc = "idle" /\ wk'[w].pc = "enter"
             /\ wk'[w].run = r /\ wk'[w].epoch = NextAttempt(r)
             /\ \A v \in Worker \ {w} : wk'[v] = wk[v]
  BY <1>4, <1>5 DEF Claim, IdleWorker
<1>6. ASSUME NEW b \in BOOLEAN, wk' = [wk EXCEPT ![w] = [wk[w] EXCEPT !.beat = b]]
      PROVE  /\ wk'[w].pc = wk[w].pc /\ wk'[w].run = wk[w].run
             /\ wk'[w].epoch = wk[w].epoch
             /\ \A v \in Worker \ {w} : wk'[v] = wk[v]
  <2>1. /\ [s EXCEPT !.beat = b].pc = s.pc /\ [s EXCEPT !.beat = b].run = s.run
        /\ [s EXCEPT !.beat = b].epoch = s.epoch
    BY DEF WorkerState
  <2>2. wk' = [wk EXCEPT ![w] = [s EXCEPT !.beat = b]]
    BY <1>1, <1>6
  <2> QED
    BY <1>1, <1>4, <2>1, <2>2
<1>7. HeartbeatRead(w) \/ HeartbeatWrite(w) =>
        \E b \in BOOLEAN : wk' = [wk EXCEPT ![w] = [wk[w] EXCEPT !.beat = b]]
  <2>1. HeartbeatRead(w) => wk' = [wk EXCEPT ![w] = [wk[w] EXCEPT !.beat = TRUE]]
    BY DEF HeartbeatRead
  <2>2. HeartbeatWrite(w) => wk' = [wk EXCEPT ![w] = [wk[w] EXCEPT !.beat = FALSE]]
    BY DEF HeartbeatWrite
  <2>3. TRUE \in BOOLEAN /\ FALSE \in BOOLEAN
    OBVIOUS
  <2> QED
    BY <2>1, <2>2, <2>3, Zenon
<1>8. Crash(w) => /\ wk[w].pc \in Active /\ wk'[w].pc = "dead"
                  /\ \A v \in Worker \ {w} : wk'[v] = wk[v]
  <2> DEFINE new == [IdleWorker EXCEPT !.pc = "dead"]
  <2>1. new.pc = "dead"
    BY DEF IdleWorker
  <2>2. Crash(w) => wk[w].pc \in Active /\ wk' = [wk EXCEPT ![w] = new]
    BY DEF Crash
  <2> HIDE DEF new
  <2> QED
    BY <1>4, <2>1, <2>2
<1> QED
  BY <1>3, <1>5, <1>6, <1>7, <1>8

(* TypeOK is inductive together with RunOfActive. *)
LEMMA TypeStep ==
  ASSUME TypeOK, RunOfActive, [Next]_vars
  PROVE  TypeOK' /\ RunOfActive'
<1>1. CASE UNCHANGED vars
  BY <1>1 DEF TypeOK, RunOfActive, vars
<1>2. CASE Next
  <2>1. wk' \in [Worker -> WorkerState]
    BY <1>2, WorkerType
  <2>2. TypeOK'
    BY <1>2, <2>1, ApiType, LeaseType, StepType DEF Next
  <2>3. RunOfActive'
    <3>1. ASSUME NEW r \in Run,
                 Submit(r) \/ RequestCancel(r) \/ ExpireOrphan(r) \/ Stall(r)
          PROVE  wk' = wk
      BY <3>1 DEF Submit, RequestCancel, ExpireOrphan, Stall
    <3>2. ASSUME NEW w \in Worker, Step(w) \/ Raise(w)
          PROVE  \A v \in Worker : wk'[v].pc \in Active =>
                   wk[v].pc \in Active /\ wk'[v].run = wk[v].run
      BY <3>2, WorkerFrame
    <3>3. ASSUME NEW w \in Worker,
                 \/ \E r \in Run : Claim(w, r)
                 \/ HeartbeatRead(w) \/ HeartbeatWrite(w) \/ Crash(w)
          PROVE  \A v \in Worker : wk'[v].pc \in Active =>
                   \/ wk[v].pc \in Active /\ wk'[v].run = wk[v].run
                   \/ wk'[v].run \in Run
      BY <3>3, LeaseFrame
    <3> QED
      BY <1>2, <3>1, <3>2, <3>3 DEF RunOfActive, Next
  <2> QED
    BY <2>2, <2>3
<1> QED
  BY <1>1, <1>2

LEMMA TypeInit == Init => TypeOK /\ RunOfActive
<1> SUFFICES ASSUME Init PROVE TypeOK /\ RunOfActive
  OBVIOUS
<1>1. IdleWorker \in WorkerState /\ IdleWorker.pc \notin Active
  BY DEF IdleWorker, WorkerState, Pc, Active, Finding
<1>2. TypeOK
  BY <1>1 DEF Init, TypeOK, RunRow, RunStatus, LiveTask, Route, Finding
<1>3. RunOfActive
  BY <1>1 DEF Init, RunOfActive
<1> QED
  BY <1>2, <1>3

(* Every row, checkpoint and worker keeps its shape (run_queue.py,         *)
(* coordinator.py, models.py), for every number of runs and workers.       *)
THEOREM TypeCorrect == Spec => []TypeOK
<1>1. TypeOK /\ RunOfActive /\ [Next]_vars => (TypeOK /\ RunOfActive)'
  BY TypeStep
<1> QED
  BY <1>1, TypeInit, PTL DEF Spec

-----------------------------------------------------------------------------
(* What a step leaves alone in the run rows *)

(* The lease of run q, and whether it is stopped, are as they were. *)
SameLease(q) ==
  /\ run'[q].owner = run[q].owner
  /\ run'[q].attempt = run[q].attempt
  /\ run'[q].cancelRequested = run[q].cancelRequested

Same(q) == SameLease(q) /\ run'[q].status = run[q].status

(* What run q recorded for good is as it was. *)
SameRecord(q) ==
  /\ result'[q] = result[q] /\ stop'[q] = stop[q]
  /\ outcome'[q] = outcome[q] /\ log'[q] = log[q]

(* Appending an event changes no lease, and an ended run's log not at all. *)
LEMMA AppendFrame ==
  ASSUME TypeOK, NEW w \in Worker, NEW name, Append1(w, name), wk[w].run \in Run
  PROVE  \A q \in Run :
           /\ Same(q)
           /\ run[q].status \in TerminalStatus => log'[q] = log[q]
<1>1. PICK r \in Run : r = wk[w].run
  OBVIOUS
<1>2. PICK row \in RunRow : row = run[r]
  BY DEF TypeOK
<1>3. CASE UNCHANGED <<run, log>>
  BY <1>3 DEF Same, SameLease
<1>4. CASE /\ Accepts(w)
           /\ run' = [run EXCEPT ![r] =
                        [run[r] EXCEPT !.nextSeq = run[r].nextSeq + 1]]
           /\ log' = [log EXCEPT ![r] = @ \union
                {[seq |-> run[r].nextSeq, name |-> name, task |-> Whole]}]
  <2> DEFINE new == [row EXCEPT !.nextSeq = row.nextSeq + 1]
  <2>1. /\ new.owner = row.owner /\ new.attempt = row.attempt
        /\ new.cancelRequested = row.cancelRequested
        /\ new.status = row.status
    BY DEF RunRow
  <2>2. run' = [run EXCEPT ![r] = new]
    BY <1>2, <1>4
  <2> HIDE DEF new
  <2>3. \A q \in Run : Same(q)
    BY <1>2, <2>1, <2>2 DEF Same, SameLease, TypeOK
  <2>4. \A q \in Run \ {r} : log'[q] = log[q]
    BY <1>4 DEF TypeOK
  <2>5. run[r].status \notin TerminalStatus
    BY <1>1, <1>4 DEF Accepts
  <2> QED
    BY <2>3, <2>4, <2>5
<1> QED
  BY <1>1, <1>3, <1>4 DEF Append1

(* The transactions that end run r write the row they are given, and touch *)
(* no other run.                                                           *)
LEMMA WriteFrame ==
  ASSUME TypeOK, NEW r \in Run, NEW row \in RunRow, NEW tasks, NEW closing,
         Write(r, row, tasks, closing)
  PROVE  /\ run'[r].owner = row.owner /\ run'[r].attempt = row.attempt
         /\ run'[r].cancelRequested = row.cancelRequested
         /\ run'[r].status = row.status
         /\ run'[r].reservation = row.reservation
         /\ \A q \in Run \ {r} : run'[q] = run[q] /\ log'[q] = log[q]
<1> DEFINE new == [row EXCEPT !.nextSeq = SeqAfter(r, tasks, closing)]
<1>1. /\ new.owner = row.owner /\ new.attempt = row.attempt
      /\ new.cancelRequested = row.cancelRequested
      /\ new.status = row.status /\ new.reservation = row.reservation
  BY DEF RunRow
<1>2. run' = [run EXCEPT ![r] = new]
  BY DEF Write
<1> HIDE DEF new
<1>3. run'[r] = new /\ \A q \in Run \ {r} : run'[q] = run[q]
  BY <1>2 DEF TypeOK
<1>4. \A q \in Run \ {r} : log'[q] = log[q]
  BY DEF Write, TypeOK
<1> QED
  BY <1>1, <1>3, <1>4

(* What the rows that replace a run's have in common with it. *)
LEMMA RowFrame ==
  ASSUME run \in [Run -> RunRow], NEW r \in Run
  PROVE  /\ \A s, c : LET new == [run[r] EXCEPT !.status = s,
                                               !.reservation = c] IN
              /\ new.owner = run[r].owner /\ new.attempt = run[r].attempt
              /\ new.cancelRequested = run[r].cancelRequested
              /\ new.status = s /\ new.reservation = c
         /\ \A s, c : LET new == [run[r] EXCEPT !.status = s,
                          !.cancelRequested = TRUE, !.reservation = c] IN
              /\ new.owner = run[r].owner /\ new.attempt = run[r].attempt
              /\ new.cancelRequested
              /\ new.status = s /\ new.reservation = c
         /\ \A n, c : LET new == [run[r] EXCEPT !.status = "queued",
                          !.nextSeq = n, !.created = c] IN
              /\ new.owner = run[r].owner /\ new.attempt = run[r].attempt
              /\ new.cancelRequested = run[r].cancelRequested
              /\ new.status = "queued"
         /\ \A l : LET new == [run[r] EXCEPT !.lease = l] IN
              /\ new.owner = run[r].owner /\ new.attempt = run[r].attempt
              /\ new.cancelRequested = run[r].cancelRequested
              /\ new.status = run[r].status
         /\ \A c : LET new == [run[r] EXCEPT !.reservation = c] IN
              /\ new.owner = run[r].owner /\ new.attempt = run[r].attempt
              /\ new.cancelRequested = run[r].cancelRequested
              /\ new.status = run[r].status
         /\ \A w, n : LET new == [run[r] EXCEPT !.status = "running",
                          !.owner = w, !.lease = "live", !.attempt = n] IN
              /\ new.owner = w /\ new.attempt = n
              /\ new.cancelRequested = run[r].cancelRequested
              /\ new.status = "running"
         /\ \A o, l : LET new == [run[r] EXCEPT !.owner = o, !.lease = l] IN
              /\ new.owner = o /\ new.attempt = run[r].attempt
              /\ new.cancelRequested = run[r].cancelRequested
              /\ new.status = run[r].status
<1>1. PICK row \in RunRow : row = run[r]
  OBVIOUS
<1> QED
  BY <1>1 DEF RunRow
(* What the last transaction, _fail and _cancel have in common.            *)
EndsRun(w, r, cancels) ==
  /\ MayEnd(w)
  /\ \A q \in Run : SameLease(q)
  /\ \A q \in Run \ {r} : Same(q) /\ SameRecord(q)
  /\ run'[r].status \in TerminalStatus
  /\ run'[r].status = "cancelled" <=> cancels

LEMMA PublishFrame ==
  ASSUME TypeOK, NEW w \in Worker, NEW r \in Run, r = wk[w].run, MayEnd(w),
         NEW cited \in BOOLEAN, Publish(w, r, cited)
  PROVE  EndsRun(w, r, FALSE)
<1> DEFINE row(s) == [run[r] EXCEPT !.status = s,
                        !.reservation = ReservationAfter(r, "settled")]
<1>0. PICK s \in {"completed", "partial"}, record \in BOOLEAN : \E ts :
        /\ result' = [result EXCEPT ![r] = [answered |-> TRUE, record |-> record]]
        /\ Decide(r, s)
        /\ SettleTasks(w, r, ts)
        /\ Write(r, row(s), Unannounced(r, ts), <<"run-terminal">>)
  BY DEF Publish, DecideStop
<1>1. PICK ts :
        /\ result' = [result EXCEPT ![r] = [answered |-> TRUE, record |-> record]]
        /\ Decide(r, s)
        /\ SettleTasks(w, r, ts)
        /\ Write(r, row(s), Unannounced(r, ts), <<"run-terminal">>)
  BY <1>0
<1>2. row(s) \in RunRow
  BY RowType, ReservationType DEF TypeOK
<1>3. /\ row(s).owner = run[r].owner /\ row(s).attempt = run[r].attempt
      /\ row(s).cancelRequested = run[r].cancelRequested /\ row(s).status = s
  BY RowFrame DEF TypeOK
<1> HIDE DEF row
<1>4. /\ run'[r].owner = run[r].owner /\ run'[r].attempt = run[r].attempt
      /\ run'[r].cancelRequested = run[r].cancelRequested /\ run'[r].status = s
      /\ \A q \in Run \ {r} : run'[q] = run[q] /\ log'[q] = log[q]
  BY <1>1, <1>2, <1>3, WriteFrame
<1>5. \A q \in Run \ {r} :
        result'[q] = result[q] /\ stop'[q] = stop[q] /\ outcome'[q] = outcome[q]
  BY <1>1 DEF TypeOK, Decide, SettleTasks
<1>6. s \in TerminalStatus /\ s # "cancelled"
  BY DEF TerminalStatus
<1> QED
  BY <1>4, <1>5, <1>6 DEF EndsRun, Same, SameLease, SameRecord

LEMMA StopInFinalFrame ==
  ASSUME TypeOK, NEW w \in Worker, NEW r \in Run, r = wk[w].run, MayEnd(w),
         StopInFinal(w, r)
  PROVE  EndsRun(w, r, TRUE)
<1> DEFINE row == [run[r] EXCEPT !.status = "cancelled",
                     !.reservation = ReservationAfter(r, "released")]
<1>1. PICK ts :
        /\ UNCHANGED <<stop, result>>
        /\ SettleTasks(w, r, ts)
        /\ Write(r, row, Unannounced(r, ts), <<"run-terminal">>)
  BY DEF StopInFinal
<1>2. row \in RunRow
  BY RowType, ReservationType DEF TypeOK
<1>3. /\ row.owner = run[r].owner /\ row.attempt = run[r].attempt
      /\ row.cancelRequested = run[r].cancelRequested /\ row.status = "cancelled"
  BY RowFrame DEF TypeOK
<1> HIDE DEF row
<1>4. /\ run'[r].owner = run[r].owner /\ run'[r].attempt = run[r].attempt
      /\ run'[r].cancelRequested = run[r].cancelRequested
      /\ run'[r].status = "cancelled"
      /\ \A q \in Run \ {r} : run'[q] = run[q] /\ log'[q] = log[q]
  BY <1>1, <1>2, <1>3, WriteFrame
<1>5. \A q \in Run \ {r} : outcome'[q] = outcome[q]
  BY <1>1 DEF TypeOK, SettleTasks
<1> QED
  BY <1>1, <1>4, <1>5 DEF EndsRun, Same, SameLease, SameRecord, TerminalStatus

LEMMA FailFrame ==
  ASSUME TypeOK, NEW w \in Worker, NEW r \in Run, r = wk[w].run, MayEnd(w),
         Fail(w)
  PROVE  EndsRun(w, r, FALSE)
<1> DEFINE row == [run[r] EXCEPT !.status = "failed",
                     !.reservation = ReservationAfter(r, "released")]
<1>1. PICK ts, closing :
        /\ UNCHANGED result
        /\ Decide(r, "failed")
        /\ SettleTasks(w, r, ts)
        /\ Write(r, row, Unannounced(r, ts), closing)
  BY DEF Fail
<1>2. row \in RunRow
  BY RowType, ReservationType DEF TypeOK
<1>3. /\ row.owner = run[r].owner /\ row.attempt = run[r].attempt
      /\ row.cancelRequested = run[r].cancelRequested /\ row.status = "failed"
  BY RowFrame DEF TypeOK
<1> HIDE DEF row
<1>4. /\ run'[r].owner = run[r].owner /\ run'[r].attempt = run[r].attempt
      /\ run'[r].cancelRequested = run[r].cancelRequested
      /\ run'[r].status = "failed"
      /\ \A q \in Run \ {r} : run'[q] = run[q] /\ log'[q] = log[q]
  BY <1>1, <1>2, <1>3, WriteFrame
<1>5. \A q \in Run \ {r} : stop'[q] = stop[q] /\ outcome'[q] = outcome[q]
  BY <1>1 DEF TypeOK, Decide, SettleTasks
<1> QED
  BY <1>1, <1>4, <1>5 DEF EndsRun, Same, SameLease, SameRecord, TerminalStatus

LEMMA CancelFrame ==
  ASSUME TypeOK, NEW w \in Worker, NEW r \in Run, r = wk[w].run, MayEnd(w),
         Cancel(w)
  PROVE  EndsRun(w, r, TRUE)
<1> DEFINE row == [run[r] EXCEPT !.status = "cancelled",
                     !.reservation = ReservationAfter(r, "released")]
<1>1. PICK ts, closing :
        /\ UNCHANGED result
        /\ Decide(r, "cancelled")
        /\ SettleTasks(w, r, ts)
        /\ Write(r, row, Unannounced(r, ts), closing)
  BY DEF Cancel
<1>2. row \in RunRow
  BY RowType, ReservationType DEF TypeOK
<1>3. /\ row.owner = run[r].owner /\ row.attempt = run[r].attempt
      /\ row.cancelRequested = run[r].cancelRequested /\ row.status = "cancelled"
  BY RowFrame DEF TypeOK
<1> HIDE DEF row
<1>4. /\ run'[r].owner = run[r].owner /\ run'[r].attempt = run[r].attempt
      /\ run'[r].cancelRequested = run[r].cancelRequested
      /\ run'[r].status = "cancelled"
      /\ \A q \in Run \ {r} : run'[q] = run[q] /\ log'[q] = log[q]
  BY <1>1, <1>2, <1>3, WriteFrame
<1>5. \A q \in Run \ {r} : stop'[q] = stop[q] /\ outcome'[q] = outcome[q]
  BY <1>1 DEF TypeOK, Decide, SettleTasks
<1> QED
  BY <1>1, <1>4, <1>5 DEF EndsRun, Same, SameLease, SameRecord, TerminalStatus

(* A step of worker w, other than going back to the queue, ends the run it *)
(* executes or leaves every lease and status, and every ended run, alone.  *)
LEMMA StepFrame ==
  ASSUME TypeOK, RunOfActive, NEW w \in Worker, Step(w) \/ Raise(w), ~Release(w)
  PROVE  \/ \A q \in Run : /\ Same(q)
                           /\ run[q].status \in TerminalStatus => SameRecord(q)
         \/ /\ Final(w) \/ Fail(w) \/ Cancel(w)
            /\ EndsRun(w, wk[w].run,
                 Cancel(w) \/ (Final(w) /\ run[wk[w].run].cancelRequested))
<1>1. PICK r \in Run : r = wk[w].run
  BY WorkerFrame DEF RunOfActive
<1>2. CASE UNCHANGED rows
  BY <1>2 DEF rows, Same, SameLease, SameRecord
<1>3. CASE /\ \E name : Append1(w, name)
           /\ UNCHANGED <<stop, result, outcome>>
  BY <1>1, <1>3, AppendFrame DEF SameRecord
<1>4. CASE Reserve(w)
  <2>1. \/ UNCHANGED run
        \/ run' = [run EXCEPT ![r] = [run[r] EXCEPT !.reservation = "reserved"]]
    BY <1>1, <1>4 DEF Reserve
  <2>2. \A q \in Run : Same(q)
    <3> DEFINE new == [run[r] EXCEPT !.reservation = "reserved"]
    <3>1. /\ new.owner = run[r].owner /\ new.attempt = run[r].attempt
          /\ new.cancelRequested = run[r].cancelRequested
          /\ new.status = run[r].status
      BY RowFrame DEF TypeOK
    <3>2. UNCHANGED run \/ run' = [run EXCEPT ![r] = new]
      BY <2>1
    <3> HIDE DEF new
    <3> QED BY <3>1, <3>2 DEF Same, SameLease, TypeOK
  <2> QED
    BY <1>4, <2>2 DEF Reserve, SameRecord
<1>5. CASE PlanCommit(w) \/ ResearchCommit(w)
  BY <1>5 DEF PlanCommit, ResearchCommit, Same, SameLease, SameRecord
<1>6. CASE Final(w)
  <2>1. CASE UNCHANGED rows
    BY <1>2, <2>1
  <2>2. CASE MayEnd(w) /\ run[r].cancelRequested /\ StopInFinal(w, r)
    <3>1. ~Cancel(w)
      BY <1>6 DEF Final, Cancel
    <3> QED BY <1>1, <1>6, <2>2, StopInFinalFrame
  <2>3. CASE /\ MayEnd(w) /\ ~run[r].cancelRequested
             /\ \E cited \in BOOLEAN : Publish(w, r, cited)
    <3>1. ~Cancel(w)
      BY <1>6 DEF Final, Cancel
    <3> QED BY <1>1, <1>6, <2>3, <3>1, PublishFrame
  <2> QED
    BY <1>1, <1>6, <2>1, <2>2, <2>3 DEF Final
<1>7. CASE Fail(w)
  <2>1. ~Cancel(w) /\ ~Final(w)
    BY <1>7 DEF Fail, Cancel, Final
  <2> QED BY <1>1, <1>2, <1>7, <2>1, FailFrame DEF Fail
<1>8. CASE Cancel(w)
  BY <1>1, <1>2, <1>8, CancelFrame DEF Cancel
<1>9. CASE \/ Enter(w) \/ Search(w) \/ PlanRead(w) \/ WriteAnswer(w) \/ Wait(w)
           \/ Conclude(w) \/ Raise(w) \/ ResearchRead(w) \/ Validate(w) \/ Leave(w)
  <2>1. UNCHANGED rows
    BY <1>9 DEF Enter, Search, PlanRead, WriteAnswer, Wait, Conclude, Raise,
                ResearchRead, Validate, Leave
  <2> QED BY <1>2, <2>1
<1>10. CASE \/ Start(w) \/ Plan(w) \/ Research(w) \/ Verify(w) \/ Wrote(w)
            \/ Delta(w) \/ RecordUsage(w)
  <2>1. /\ UNCHANGED <<run, log>> \/ \E name : Append1(w, name)
        /\ UNCHANGED <<stop, result, outcome>>
    BY <1>10, Zenon DEF Start, Plan, Research, Verify, Wrote, Delta, RecordUsage
  <2> QED
    BY <1>3, <2>1 DEF Same, SameLease, SameRecord
<1> QED
  BY <1>4, <1>5, <1>6, <1>7, <1>8, <1>9, <1>10 DEF Step
(* What the API and the queue do to the leases and statuses of the runs.   *)
LEMMA QueueFrame ==
  ASSUME TypeOK, RunOfActive, NEW r \in Run
  PROVE  /\ Submit(r) =>
              /\ run[r].status = "absent" /\ run'[r].status = "queued"
              /\ SameLease(r)
              /\ \A q \in Run \ {r} : Same(q) /\ SameRecord(q)
         /\ RequestCancel(r) =>
              /\ run[r].status \notin TerminalStatus
              /\ run'[r].status = "cancelled" /\ run'[r].cancelRequested
              /\ run'[r].owner = run[r].owner /\ run'[r].attempt = run[r].attempt
              /\ \A q \in Run \ {r} : Same(q) /\ SameRecord(q)
         /\ ExpireOrphan(r) \/ Stall(r) =>
              \A q \in Run : Same(q) /\ SameRecord(q)
<1> USE DEF TypeOK
<1>1. ASSUME Submit(r)
      PROVE  /\ run[r].status = "absent" /\ run'[r].status = "queued"
             /\ SameLease(r)
             /\ \A q \in Run \ {r} : Same(q) /\ SameRecord(q)
  <2> DEFINE new == [run[r] EXCEPT !.status = "queued", !.nextSeq = 3,
                                   !.created = submitted + 1]
  <2>1. /\ new.owner = run[r].owner /\ new.attempt = run[r].attempt
        /\ new.cancelRequested = run[r].cancelRequested
        /\ new.status = "queued"
    BY RowFrame
  <2>2. run' = [run EXCEPT ![r] = new]
    BY <1>1 DEF Submit
  <2> HIDE DEF new
  <2> QED BY <1>1, <2>1, <2>2 DEF Submit, Same, SameLease, SameRecord
<1>2. ASSUME RequestCancel(r)
      PROVE  /\ run[r].status \notin TerminalStatus
             /\ run'[r].status = "cancelled" /\ run'[r].cancelRequested
             /\ run'[r].owner = run[r].owner /\ run'[r].attempt = run[r].attempt
             /\ \A q \in Run \ {r} : Same(q) /\ SameRecord(q)
  <2> DEFINE new == [run[r] EXCEPT !.status = "cancelled",
                       !.cancelRequested = TRUE,
                       !.reservation = ReservationAfter(r, "released")]
  <2>1. /\ new.owner = run[r].owner /\ new.attempt = run[r].attempt
        /\ new.cancelRequested /\ new.status = "cancelled"
    BY RowFrame
  <2>2. new \in RunRow
    BY RowType, ReservationType
  <2>3. PICK closing : Write(r, new, {}, closing)
    BY <1>2 DEF RequestCancel
  <2> HIDE DEF new
  <2>4. /\ run'[r].owner = run[r].owner /\ run'[r].attempt = run[r].attempt
        /\ run'[r].cancelRequested /\ run'[r].status = "cancelled"
        /\ \A q \in Run \ {r} : run'[q] = run[q] /\ log'[q] = log[q]
    BY <2>1, <2>2, <2>3, WriteFrame
  <2>5. \A q \in Run \ {r} : stop'[q] = stop[q]
    BY <1>2 DEF RequestCancel, Decide
  <2> QED
    BY <1>2, <2>4, <2>5 DEF RequestCancel, Stoppable, Same, SameLease, SameRecord
<1>3. ASSUME ExpireOrphan(r) \/ Stall(r)
      PROVE  \A q \in Run : Same(q) /\ SameRecord(q)
  <2> DEFINE new == [run[r] EXCEPT !.lease = "expired"]
  <2>1. /\ new.owner = run[r].owner /\ new.attempt = run[r].attempt
        /\ new.cancelRequested = run[r].cancelRequested
        /\ new.status = run[r].status
    BY RowFrame
  <2>2. run' = [run EXCEPT ![r] = new]
    BY <1>3 DEF ExpireOrphan, Stall
  <2> HIDE DEF new
  <2> QED
    BY <1>3, <2>1, <2>2 DEF ExpireOrphan, Stall, Same, SameLease, SameRecord
<1> QED
  BY <1>1, <1>2, <1>3

LEMMA LeaseRows ==
  ASSUME TypeOK, RunOfActive, NEW w \in Worker
  PROVE  /\ \A r \in Run : Claim(w, r) =>
              /\ run[r].status \notin TerminalStatus
              /\ run'[r].owner = w /\ run'[r].attempt = run[r].attempt + 1
              /\ run'[r].cancelRequested = run[r].cancelRequested
              /\ run'[r].status = "running" /\ ~run[r].cancelRequested
              /\ \A q \in Run \ {r} : Same(q)
              /\ \A q \in Run : SameRecord(q)
         /\ HeartbeatRead(w) \/ HeartbeatWrite(w) \/ Crash(w) =>
              \A q \in Run : Same(q) /\ SameRecord(q)
         /\ Release(w) =>
              /\ \A q \in Run : SameRecord(q)
              /\ \A q \in Run :
                   \/ Same(q)
                   \/ /\ run[q].owner = w /\ run'[q].owner = Nobody
                      /\ run[q].status \in TerminalStatus
                      /\ run'[q].attempt = run[q].attempt
                      /\ run'[q].cancelRequested = run[q].cancelRequested
                      /\ run'[q].status = run[q].status
<1> USE DEF TypeOK
<1>1. ASSUME NEW r \in Run, Claim(w, r)
      PROVE  /\ run[r].status \notin TerminalStatus
             /\ run'[r].owner = w /\ run'[r].attempt = run[r].attempt + 1
             /\ run'[r].cancelRequested = run[r].cancelRequested
             /\ run'[r].status = "running" /\ ~run[r].cancelRequested
             /\ \A q \in Run \ {r} : Same(q)
             /\ \A q \in Run : SameRecord(q)
  <2> DEFINE new == [run[r] EXCEPT !.status = "running", !.owner = w,
                       !.lease = "live", !.attempt = NextAttempt(r)]
  <2>1. /\ new.owner = w /\ new.attempt = NextAttempt(r)
        /\ new.cancelRequested = run[r].cancelRequested
        /\ new.status = "running"
    BY RowFrame
  <2>2. run' = [run EXCEPT ![r] = new]
    BY <1>1 DEF Claim
  <2>3. Claimable(r)
    BY <1>1 DEF Claim
  <2> HIDE DEF new
  <2> QED
    BY <1>1, <2>1, <2>2, <2>3
    DEF Claim, Claimable, NextAttempt, TerminalStatus, Same, SameLease, SameRecord
<1>2. ASSUME HeartbeatRead(w) \/ Crash(w)
      PROVE  \A q \in Run : Same(q) /\ SameRecord(q)
  BY <1>2 DEF HeartbeatRead, Crash, rows, Same, SameLease, SameRecord
<1>3. ASSUME HeartbeatWrite(w)
      PROVE  \A q \in Run : Same(q) /\ SameRecord(q)
  <2>1. CASE wk[w].run \notin Run
    <3>1. run' = run
      BY <1>3, <2>1 DEF HeartbeatWrite
    <3> QED
      BY <1>3, <3>1 DEF HeartbeatWrite, Same, SameLease, SameRecord
  <2>2. CASE wk[w].run \in Run
    <3>1. PICK r \in Run : r = wk[w].run
      BY <2>2
    <3> DEFINE new == [run[r] EXCEPT !.lease = "live"]
    <3>2. /\ new.owner = run[r].owner /\ new.attempt = run[r].attempt
          /\ new.cancelRequested = run[r].cancelRequested
          /\ new.status = run[r].status
      BY RowFrame
    <3>3. run' = [run EXCEPT ![r] = new]
      BY <1>3, <3>1 DEF HeartbeatWrite
    <3> HIDE DEF new
    <3> QED
      BY <1>3, <3>2, <3>3 DEF HeartbeatWrite, Same, SameLease, SameRecord
  <2> QED
    BY <2>1, <2>2
<1>4. ASSUME Release(w)
      PROVE  /\ \A q \in Run : SameRecord(q)
             /\ \A q \in Run :
                   \/ Same(q)
                   \/ /\ run[q].owner = w /\ run'[q].owner = Nobody
                      /\ run[q].status \in TerminalStatus
                      /\ run'[q].attempt = run[q].attempt
                      /\ run'[q].cancelRequested = run[q].cancelRequested
                      /\ run'[q].status = run[q].status
  <2>1. PICK r \in Run : r = wk[w].run
    BY <1>4 DEF Release, RunOfActive, Active
  <2> DEFINE new == [run[r] EXCEPT !.owner = Nobody, !.lease = "none"]
  <2>2. /\ new.owner = Nobody /\ new.attempt = run[r].attempt
        /\ new.cancelRequested = run[r].cancelRequested
        /\ new.status = run[r].status
    BY RowFrame
  <2>3. \/ run' = run
        \/ /\ run' = [run EXCEPT ![r] = new]
           /\ run[r].owner = w /\ run[r].status \in TerminalStatus
    BY <1>4, <2>1 DEF Release
  <2> HIDE DEF new
  <2> QED
    BY <1>4, <2>2, <2>3 DEF Release, Same, SameLease, SameRecord
<1> QED
  BY <1>1, <1>2, <1>3, <1>4
(* Where a worker's next program counter comes from. *)
LEMMA GotoPc ==
  ASSUME wk \in [Worker -> WorkerState], NEW w \in Worker
  PROVE  /\ \A pc : Goto(w, pc) => wk'[w].pc = pc
         /\ \A e : GotoFail(w, e) => wk'[w].pc = "fail"
         /\ \A pc, u : GotoHaving(w, pc, u) => wk'[w].pc = pc
<1>1. PICK s \in WorkerState : s = wk[w]
  OBVIOUS
<1>2. ASSUME NEW x, wk' = [wk EXCEPT ![w] = x] PROVE wk'[w] = x
  BY <1>2
<1>3. /\ \A pc : [s EXCEPT !.pc = pc].pc = pc
      /\ \A e : [s EXCEPT !.pc = "fail", !.err = e].pc = "fail"
      /\ \A pc, u : [s EXCEPT !.pc = pc, !.got = u].pc = pc
  BY DEF WorkerState
<1>4. ASSUME NEW pc, Goto(w, pc) PROVE wk'[w].pc = pc
  <2>1. wk' = [wk EXCEPT ![w] = [s EXCEPT !.pc = pc]]
    BY <1>1, <1>4 DEF Goto
  <2> QED BY <1>2, <1>3, <2>1
<1>5. ASSUME NEW e, GotoFail(w, e) PROVE wk'[w].pc = "fail"
  <2>1. wk' = [wk EXCEPT ![w] = [s EXCEPT !.pc = "fail", !.err = e]]
    BY <1>1, <1>5 DEF GotoFail
  <2> QED BY <1>2, <1>3, <2>1
<1>6. ASSUME NEW pc, NEW u, GotoHaving(w, pc, u) PROVE wk'[w].pc = pc
  <2>1. wk' = [wk EXCEPT ![w] = [s EXCEPT !.pc = pc, !.got = s.got \union {u}]]
    BY <1>1, <1>6 DEF GotoHaving
  <2> QED BY <1>2, <1>3, <2>1
<1> QED
  BY <1>4, <1>5, <1>6

(* A worker cancels because its run is stopped or its lease lost; it goes  *)
(* back to the queue from a run it could not enter or that it tried to end. *)
LEMMA PcFrame ==
  ASSUME TypeOK, RunOfActive, NEW w \in Worker, Step(w) \/ Raise(w)
  PROVE  /\ wk'[w].pc = "cancel" => Lost(w) /\ UNCHANGED run
         /\ wk'[w].pc = "release" =>
              \/ /\ UNCHANGED run
                 /\ ~(/\ Open(wk[w].run) /\ run[wk[w].run].owner = w
                      /\ run[wk[w].run].attempt = wk[w].epoch)
              \/ Final(w) \/ Fail(w) \/ Cancel(w)
         /\ Final(w) \/ Fail(w) \/ Cancel(w) => wk'[w].pc = "release"
<1>1. wk \in [Worker -> WorkerState]
  BY DEF TypeOK
<1>2. PICK s \in WorkerState : s = wk[w]
  BY <1>1
<1>3. ASSUME Final(w) \/ Fail(w) \/ Cancel(w)
      PROVE  wk'[w].pc = "release"
  <2>1. Goto(w, "release")
    BY <1>3 DEF Final, Fail, Cancel
  <2> QED BY <1>1, <2>1, GotoPc
<1>4. CASE Enter(w)
  <2>1. /\ UNCHANGED run
        /\ \/ Goto(w, "start")
           \/ /\ Goto(w, "release")
              /\ ~(/\ Open(wk[w].run) /\ run[wk[w].run].owner = w
                   /\ run[wk[w].run].attempt = wk[w].epoch)
    BY <1>4 DEF Enter, rows
  <2>2. ~Final(w) /\ ~Fail(w) /\ ~Cancel(w)
    BY <1>4 DEF Enter, Final, Fail, Cancel
  <2> QED BY <1>1, <2>1, <2>2, GotoPc
<1>5. CASE Reserve(w) \/ WriteAnswer(w) \/ Wait(w) \/ Conclude(w)
  <2>1. \/ Lost(w) /\ Goto(w, "cancel") /\ UNCHANGED run
        \/ \E pc \in {"research", "conclude", "delta"} : Goto(w, pc)
        \/ \E e : GotoFail(w, e)
        \/ GotoHaving(w, "wrote", "usage")
    BY <1>5 DEF Reserve, WriteAnswer, Wait, Conclude, rows, Lost
  <2>2. ~Final(w) /\ ~Fail(w) /\ ~Cancel(w)
    BY <1>5 DEF Reserve, WriteAnswer, Wait, Conclude, Final, Fail, Cancel
  <2> QED BY <1>1, <2>1, <2>2, GotoPc
<1>6. CASE \/ Start(w) \/ Plan(w) \/ ResearchRead(w) \/ ResearchCommit(w)
           \/ Wrote(w) \/ Leave(w) \/ Delta(w) \/ RecordUsage(w)
           \/ Raise(w) \/ PlanCommit(w) \/ Verify(w) \/ Validate(w)
  <2>1. \/ \E pc \in {"search", "planRead", "verify", "researchCommit",
                      "validate", "wait", "usage", "final", "reserve"} :
             Goto(w, pc)
        \/ \E e : GotoFail(w, e)
        \/ \E pc \in {"write", "leave"},
              u \in {"verification", "usage", "answer"} : GotoHaving(w, pc, u)
    BY <1>6, Zenon DEF Start, Plan, ResearchRead, ResearchCommit, Wrote, Leave,
                       Delta, RecordUsage, Raise, PlanCommit, Verify, Validate
  <2>2. wk'[w].pc # "cancel" /\ wk'[w].pc # "release"
    BY <1>1, <2>1, GotoPc
  <2> QED BY <1>3, <2>2
<1>7. CASE Search(w)
  <2>1. PICK saved \in [stage: 0..5, findings: Finding] :
          saved = ckpt[wk[w].run]
    BY <1>7 DEF Search, TypeOK, RunOfActive, Active
  <2>2. GraphStep[saved.stage + 1] \notin {"cancel", "release"}
    BY <2>1 DEF GraphStep
  <2>3. \A pc, f : [s EXCEPT !.pc = pc, !.findings = f].pc = pc
    BY DEF WorkerState
  <2>4. wk' = [wk EXCEPT ![w] = [s EXCEPT !.pc = GraphStep[saved.stage + 1],
                                          !.findings = saved.findings]]
    BY <1>2, <1>7, <2>1 DEF Search
  <2>5. wk'[w].pc = GraphStep[saved.stage + 1]
    BY <1>1, <2>3, <2>4
  <2> QED
    BY <1>7, <2>2, <2>5 DEF Search, Final, Fail, Cancel
<1>8. CASE PlanRead(w)
  <2>1. \A pc, n : [s EXCEPT !.pc = pc, !.seen = n].pc = pc
    BY DEF WorkerState
  <2>2. \/ Goto(w, "reserve")
        \/ \E n : wk' = [wk EXCEPT ![w] = [s EXCEPT !.pc = "planCommit",
                                                   !.seen = n]]
    BY <1>2, <1>8 DEF PlanRead
  <2>3. wk'[w].pc \in {"reserve", "planCommit"}
    <3>1. CASE Goto(w, "reserve")
      BY <1>1, <3>1, GotoPc
    <3>2. ASSUME NEW n, wk' = [wk EXCEPT ![w] = [s EXCEPT !.pc = "planCommit",
                                                        !.seen = n]]
          PROVE  wk'[w].pc = "planCommit"
      BY <1>1, <2>1, <3>2
    <3> QED BY <2>2, <3>1, <3>2
  <2> QED
    BY <1>8, <2>3 DEF PlanRead, Final, Fail, Cancel
<1>9. CASE Research(w)
  <2>1. \A pc, f : [s EXCEPT !.findings = f, !.pc = pc].pc = pc
    BY DEF WorkerState
  <2>2. PICK f \in {"ok", "failed"} :
          wk' = [wk EXCEPT ![w] = [s EXCEPT !.findings = f,
                   !.pc = IF f = "failed" THEN "researchRead" ELSE "verify"]]
    BY <1>2, <1>9 DEF Research
  <2>3. wk'[w].pc \in {"researchRead", "verify"}
    BY <1>1, <2>1, <2>2
  <2> QED
    BY <1>9, <2>3 DEF Research, Final, Fail, Cancel
<1>10. CASE Release(w)
  <2>1. wk'[w].pc = "idle"
    BY <1>1, <1>10 DEF Release, IdleWorker
  <2> QED
    BY <1>10, <2>1 DEF Release, Final, Fail, Cancel
<1> QED
  BY <1>3, <1>4, <1>5, <1>6, <1>7, <1>8, <1>9, <1>10 DEF Step
-----------------------------------------------------------------------------
(* The inductive invariant *)

(* FencedOwner, and no execution is ahead of the run's epoch, so that the  *)
(* next claim draws an epoch nobody has.                                   *)
Fenced ==
  \A w \in Worker, r \in Run : Executing(w, r) =>
    /\ wk[w].epoch <= run[r].attempt
    /\ run[r].owner = w => wk[w].epoch = run[r].attempt
    /\ \A v \in Worker \ {w} : Executing(v, r) => wk[v].epoch # wk[w].epoch

(* _cancel runs only for a stopped run or a lost lease. *)
CancelHasCause ==
  \A w \in Worker : wk[w].pc = "cancel" => Lost(w)

(* A worker on its way back to the queue owns no running run. *)
ReleaseIsDone ==
  \A w \in Worker :
    wk[w].pc = "release" /\ run[wk[w].run].owner = w
      => run[wk[w].run].status # "running"

IInv ==
  /\ TypeOK /\ RunOfActive
  /\ Fenced /\ NoOrphan
  /\ CancelIsImmediate /\ CancelHasCause /\ ReleaseIsDone

LEMMA FencingInit == Init => IInv
<1> SUFFICES ASSUME Init PROVE IInv
  OBVIOUS
<1>1. TypeOK /\ RunOfActive
  BY TypeInit
<1>2. \A w \in Worker : wk[w].pc = "idle"
  BY DEF Init, IdleWorker
<1>3. \A r \in Run : run[r].status = "absent" /\ ~run[r].cancelRequested
  BY DEF Init
<1> QED
  BY <1>1, <1>2, <1>3 DEF IInv, Fenced, NoOrphan, CancelIsImmediate,
                          CancelHasCause, ReleaseIsDone, Executing, Active

(* How the lease of a run that a worker executes may change in one step.   *)
LEMMA LeaseStep ==
  ASSUME IInv, Next, NEW r \in Run
  PROVE  \/ SameLease(r)
         \/ RequestCancel(r) /\ run'[r].owner = run[r].owner
              /\ run'[r].attempt = run[r].attempt /\ run'[r].cancelRequested
         \/ \E w \in Worker : Claim(w, r)
         \/ /\ run'[r].owner = Nobody /\ run'[r].attempt = run[r].attempt
            /\ run'[r].cancelRequested = run[r].cancelRequested
<1> USE DEF IInv
<1>1. ASSUME NEW q \in Run,
             Submit(q) \/ RequestCancel(q) \/ ExpireOrphan(q) \/ Stall(q)
      PROVE  \/ SameLease(r)
             \/ RequestCancel(r) /\ run'[r].owner = run[r].owner
                  /\ run'[r].attempt = run[r].attempt /\ run'[r].cancelRequested
  BY <1>1, QueueFrame DEF Same
<1>2. ASSUME NEW w \in Worker, NEW q \in Run, Claim(w, q)
      PROVE  SameLease(r) \/ Claim(w, r)
  BY <1>2, LeaseRows DEF Same
<1>3. ASSUME NEW w \in Worker, HeartbeatRead(w) \/ HeartbeatWrite(w) \/ Crash(w)
      PROVE  SameLease(r)
  BY <1>3, LeaseRows DEF Same
<1>4. ASSUME NEW w \in Worker, Release(w)
      PROVE  \/ SameLease(r)
             \/ /\ run'[r].owner = Nobody /\ run'[r].attempt = run[r].attempt
                /\ run'[r].cancelRequested = run[r].cancelRequested
  BY <1>4, LeaseRows DEF Same
<1>5. ASSUME NEW w \in Worker, Step(w) \/ Raise(w), ~Release(w)
      PROVE  SameLease(r)
  BY <1>5, StepFrame DEF Same, EndsRun
<1> QED
  BY <1>1, <1>2, <1>3, <1>4, <1>5 DEF Next

(* How what a worker executes may change in one step. *)
LEMMA ExecutionStep ==
  ASSUME IInv, Next, NEW w \in Worker, wk'[w].pc \in Active
  PROVE  \/ /\ wk[w].pc \in Active
            /\ wk'[w].run = wk[w].run /\ wk'[w].epoch = wk[w].epoch
         \/ \E r \in Run : Claim(w, r)
<1> USE DEF IInv
<1>1. ASSUME NEW q \in Run,
             Submit(q) \/ RequestCancel(q) \/ ExpireOrphan(q) \/ Stall(q)
      PROVE  wk' = wk
  BY <1>1 DEF Submit, RequestCancel, ExpireOrphan, Stall
<1>2. ASSUME NEW v \in Worker,
             \/ \E q \in Run : Claim(v, q)
             \/ HeartbeatRead(v) \/ HeartbeatWrite(v) \/ Crash(v)
      PROVE  \/ /\ wk[w].pc \in Active
                /\ wk'[w].run = wk[w].run /\ wk'[w].epoch = wk[w].epoch
             \/ \E r \in Run : Claim(w, r)
  BY <1>2, LeaseFrame
<1>3. ASSUME NEW v \in Worker, Step(v) \/ Raise(v)
      PROVE  /\ wk[w].pc \in Active
             /\ wk'[w].run = wk[w].run /\ wk'[w].epoch = wk[w].epoch
  BY <1>3, WorkerFrame
<1> QED
  BY <1>1, <1>2, <1>3 DEF Next

(* A claim's epoch is new: every execution of the run has an older one. *)
LEMMA FencedStep ==
  ASSUME IInv, Next
  PROVE  Fenced'
<1> USE DEF IInv
<1> SUFFICES ASSUME NEW w \in Worker, NEW r \in Run, Executing(w, r)'
             PROVE  /\ wk'[w].epoch <= run'[r].attempt
                    /\ run'[r].owner = w => wk'[w].epoch = run'[r].attempt
                    /\ \A v \in Worker \ {w} :
                         Executing(v, r)' => wk'[v].epoch # wk'[w].epoch
  BY DEF Fenced
<1>1. \A q \in Run : run[q].attempt \in Nat
  BY DEF TypeOK, RunRow
<1>2. \A v \in Worker : wk[v].epoch \in Nat
  BY DEF TypeOK, WorkerState
<1>3. ASSUME NEW v \in Worker, NEW q \in Run, Claim(v, q)
      PROVE  /\ wk'[v].run = q /\ wk'[v].epoch = run[q].attempt + 1
             /\ run'[q].owner = v /\ run'[q].attempt = run[q].attempt + 1
             /\ \A u \in Worker \ {v} : wk'[u] = wk[u]
             /\ \A p \in Run \ {q} : SameLease(p)
  BY <1>3, LeaseRows, LeaseFrame DEF NextAttempt, Same
<1>4. CASE \E v \in Worker : Claim(v, r)
  <2>1. PICK v \in Worker : Claim(v, r)
    BY <1>4
  <2>2. \A u \in Worker \ {v} : Executing(u, r)' =>
          Executing(u, r) /\ wk'[u].epoch = wk[u].epoch
    BY <1>3, <2>1 DEF Executing
  <2>3. \A u \in Worker \ {v} : Executing(u, r)' => wk'[u].epoch <= run[r].attempt
    BY <2>2 DEF Fenced
  <2>4. \A u \in Worker \ {v}, x \in Worker \ {v} :
          u # x /\ Executing(u, r)' /\ Executing(x, r)' => wk'[u].epoch # wk'[x].epoch
    BY <2>2 DEF Fenced
  <2>5. CASE w = v
    BY <1>1, <1>2, <1>3, <2>1, <2>2, <2>3, <2>5
  <2>6. CASE w # v
    BY <1>1, <1>2, <1>3, <2>1, <2>2, <2>3, <2>4, <2>6
  <2> QED
    BY <2>5, <2>6
<1>5. CASE ~\E v \in Worker : Claim(v, r)
  <2>1. \A v \in Worker : Executing(v, r)' =>
          Executing(v, r) /\ wk'[v].epoch = wk[v].epoch
    BY <1>3, <1>5, ExecutionStep DEF Executing
  <2>2. run'[r].attempt = run[r].attempt
    BY <1>5, LeaseStep DEF SameLease
  <2>3. run'[r].owner = run[r].owner \/ run'[r].owner = Nobody
    BY <1>5, LeaseStep DEF SameLease
  <2> QED
    BY <2>1, <2>2, <2>3, NobodyIsNoWorker DEF Fenced
<1> QED
  BY <1>4, <1>5
(* The transactions that may end a run do end it, if they may. *)
LEMMA EndsIfMay ==
  ASSUME TypeOK, NEW w \in Worker, wk[w].run \in Run,
         Final(w) \/ Fail(w) \/ Cancel(w), MayEnd(w)
  PROVE  run'[wk[w].run].status \in TerminalStatus
<1>1. PICK r \in Run : r = wk[w].run
  OBVIOUS
<1>2. CASE Final(w)
  <2>1. StopInFinal(w, r) \/ \E cited \in BOOLEAN : Publish(w, r, cited)
    BY <1>1, <1>2 DEF Final
  <2> QED
    BY <1>1, <2>1, StopInFinalFrame, PublishFrame DEF EndsRun
<1> QED
  BY <1>1, <1>2, FailFrame, CancelFrame DEF EndsRun

(* How the status of a run may change in one step. *)
LEMMA StatusStep ==
  ASSUME IInv, Next, NEW r \in Run
  PROVE  \/ run'[r].status = run[r].status
         \/ Submit(r) /\ run[r].status = "absent" /\ run'[r].status = "queued"
         \/ RequestCancel(r) /\ run'[r].status = "cancelled"
         \/ run'[r].status = "running" /\ \E w \in Worker : Claim(w, r)
         \/ \E w \in Worker :
              /\ Final(w) \/ Fail(w) \/ Cancel(w)
              /\ wk[w].pc \in Active /\ wk[w].run = r /\ MayEnd(w)
              /\ run'[r].status \in TerminalStatus /\ SameLease(r)
              /\ run'[r].status = "cancelled" <=>
                   (Cancel(w) \/ (Final(w) /\ run[r].cancelRequested))
<1> USE DEF IInv
<1>1. ASSUME NEW q \in Run,
             Submit(q) \/ RequestCancel(q) \/ ExpireOrphan(q) \/ Stall(q)
      PROVE  \/ run'[r].status = run[r].status
             \/ Submit(r) /\ run[r].status = "absent" /\ run'[r].status = "queued"
             \/ RequestCancel(r) /\ run'[r].status = "cancelled"
  BY <1>1, QueueFrame DEF Same
<1>2. ASSUME NEW w \in Worker, NEW q \in Run, Claim(w, q)
      PROVE  \/ run'[r].status = run[r].status
             \/ run'[r].status = "running" /\ Claim(w, r)
  BY <1>2, LeaseRows DEF Same
<1>3. ASSUME NEW w \in Worker, HeartbeatRead(w) \/ HeartbeatWrite(w) \/ Crash(w)
      PROVE  run'[r].status = run[r].status
  BY <1>3, LeaseRows DEF Same
<1>4. ASSUME NEW w \in Worker, Release(w)
      PROVE  run'[r].status = run[r].status
  BY <1>4, LeaseRows DEF Same
<1>5. ASSUME NEW w \in Worker, Step(w) \/ Raise(w), ~Release(w)
      PROVE  \/ run'[r].status = run[r].status
             \/ /\ Final(w) \/ Fail(w) \/ Cancel(w)
                /\ wk[w].pc \in Active /\ wk[w].run = r /\ MayEnd(w)
                /\ run'[r].status \in TerminalStatus /\ SameLease(r)
                /\ run'[r].status = "cancelled" <=>
                     (Cancel(w) \/ (Final(w) /\ run[r].cancelRequested))
  BY <1>5, StepFrame, WorkerFrame DEF Same, EndsRun
<1> QED
  BY <1>1, <1>2, <1>3, <1>4, <1>5 DEF Next

(* The executor of a running run does not leave it. *)
LEMMA NoOrphanStep ==
  ASSUME IInv, Next
  PROVE  NoOrphan'
<1> USE DEF IInv
<1> SUFFICES ASSUME NEW r \in Run, NEW w \in Worker, run'[r].status = "running",
                    run'[r].owner = w, wk'[w].pc # "dead"
             PROVE  Executing(w, r)'
  BY DEF NoOrphan
<1>1. ASSUME NEW q \in Run,
             Submit(q) \/ RequestCancel(q) \/ ExpireOrphan(q) \/ Stall(q)
      PROVE  Executing(w, r)'
  <2>1. wk' = wk
    BY <1>1 DEF Submit, RequestCancel, ExpireOrphan, Stall
  <2>2. Same(r)
    BY <1>1, QueueFrame
  <2> QED
    BY <2>1, <2>2 DEF Same, SameLease, NoOrphan, Executing
<1>2. ASSUME NEW v \in Worker, NEW q \in Run, Claim(v, q)
      PROVE  Executing(w, r)'
  BY <1>2, LeaseRows, LeaseFrame DEF Same, SameLease, NoOrphan, Executing
<1>3. ASSUME NEW v \in Worker, HeartbeatRead(v) \/ HeartbeatWrite(v) \/ Crash(v)
      PROVE  Executing(w, r)'
  <2>1. Same(r) /\ (wk'[w] # wk[w] => w = v)
    BY <1>3, LeaseRows, LeaseFrame
  <2>2. wk'[w].pc = wk[w].pc /\ wk'[w].run = wk[w].run
    BY <1>3, <2>1, LeaseFrame
  <2> QED
    BY <2>1, <2>2 DEF Same, SameLease, NoOrphan, Executing
<1>4. ASSUME NEW v \in Worker, Release(v)
      PROVE  Executing(w, r)'
  <2>1. run[r].owner = w /\ run[r].status = "running"
    BY <1>4, LeaseRows, NobodyIsNoWorker DEF Same, SameLease, TerminalStatus
  <2>2. wk[v].pc = "release" /\ \A u \in Worker \ {v} : wk'[u] = wk[u]
    BY <1>4, WorkerFrame DEF Release, Step
  <2>3. w # v
    BY <2>1, <2>2 DEF NoOrphan, ReleaseIsDone, Executing
  <2> QED
    BY <2>1, <2>2, <2>3 DEF NoOrphan, Executing
<1>5. ASSUME NEW v \in Worker, Step(v) \/ Raise(v), ~Release(v)
      PROVE  Executing(w, r)'
  <2>1. Same(r)
    BY <1>5, StepFrame DEF EndsRun, TerminalStatus
  <2>2. /\ wk[v].pc \in Active /\ wk'[v].pc \in Active
        /\ wk'[v].run = wk[v].run
        /\ \A u \in Worker \ {v} : wk'[u] = wk[u]
    BY <1>5, WorkerFrame
  <2>3. Executing(w, r)
    BY <2>1, <2>2 DEF Same, SameLease, NoOrphan, Active
  <2> QED
    BY <2>2, <2>3 DEF Executing
<1> QED
  BY <1>1, <1>2, <1>3, <1>4, <1>5 DEF Next

(* Nothing but a stop request cancels a run. *)
LEMMA CancelIsImmediateStep ==
  ASSUME IInv, Next
  PROVE  CancelIsImmediate'
<1> USE DEF IInv
<1> SUFFICES ASSUME NEW r \in Run
             PROVE  run'[r].cancelRequested <=> run'[r].status = "cancelled"
  BY DEF CancelIsImmediate
<1>1. run[r].cancelRequested <=> run[r].status = "cancelled"
  BY DEF CancelIsImmediate
<1>2. CASE Submit(r) \/ RequestCancel(r)
  BY <1>1, <1>2, QueueFrame DEF SameLease
<1>3. CASE \E w \in Worker : Claim(w, r)
  BY <1>3, LeaseRows
<1>4. ASSUME NEW w \in Worker, Final(w) \/ Fail(w) \/ Cancel(w),
             wk[w].run = r, MayEnd(w), SameLease(r),
             run'[r].status = "cancelled" <=>
               (Cancel(w) \/ (Final(w) /\ run[r].cancelRequested))
      PROVE  ~run'[r].cancelRequested /\ run'[r].status # "cancelled"
  <2>1. ~run[r].cancelRequested
    BY <1>1, <1>4 DEF MayEnd, TerminalStatus
  <2>2. ~Cancel(w)
    BY <1>4, <2>1 DEF Cancel, CancelHasCause, Lost, MayEnd
  <2> QED
    BY <1>4, <2>1, <2>2 DEF SameLease
<1>5. CASE /\ run'[r].status = run[r].status
           /\ ~RequestCancel(r) /\ ~\E w \in Worker : Claim(w, r)
  BY <1>1, <1>5, LeaseStep DEF SameLease
<1> QED
  BY <1>2, <1>3, <1>4, <1>5, StatusStep

(* The cause of a cancellation does not go away before _cancel runs. *)
LEMMA CancelHasCauseStep ==
  ASSUME IInv, Next
  PROVE  CancelHasCause'
<1> USE DEF IInv
<1> SUFFICES ASSUME NEW w \in Worker, wk'[w].pc = "cancel"
             PROVE  Lost(w)'
  BY DEF CancelHasCause
<1>1. /\ wk[w].pc \in Active
      /\ wk'[w].run = wk[w].run /\ wk'[w].epoch = wk[w].epoch
  BY ExecutionStep, LeaseFrame DEF Active
<1>2. CASE Step(w) \/ Raise(w)
  BY <1>1, <1>2, PcFrame DEF Lost
<1>3. CASE wk[w].pc = "cancel"
  <2>1. PICK r \in Run : r = wk[w].run
    BY <1>1 DEF RunOfActive
  <2>2. run[r].cancelRequested \/ run[r].owner # w
    BY <1>3, <2>1 DEF CancelHasCause, Lost
  <2>3. ASSUME NEW v \in Worker, Claim(v, r)
        PROVE  run'[r].owner # w
    BY <1>1, <2>3, LeaseRows, LeaseFrame
  <2>4. run'[r].cancelRequested \/ run'[r].owner # w
    BY <2>2, <2>3, LeaseStep, NobodyIsNoWorker DEF SameLease
  <2> QED
    BY <1>1, <2>1, <2>4 DEF Lost
<1>4. CASE wk'[w].pc # wk[w].pc /\ ~(Step(w) \/ Raise(w))
  <2>1. ASSUME NEW q \in Run,
               Submit(q) \/ RequestCancel(q) \/ ExpireOrphan(q) \/ Stall(q)
        PROVE  FALSE
    BY <1>4, <2>1 DEF Submit, RequestCancel, ExpireOrphan, Stall
  <2>2. ASSUME NEW v \in Worker,
               \/ \E q \in Run : Claim(v, q)
               \/ HeartbeatRead(v) \/ HeartbeatWrite(v) \/ Crash(v)
        PROVE  FALSE
    BY <1>4, <2>2, LeaseFrame
  <2>3. ASSUME NEW v \in Worker, Step(v) \/ Raise(v)
        PROVE  FALSE
    BY <1>4, <2>3, WorkerFrame
  <2> QED
    BY <2>1, <2>2, <2>3 DEF Next
<1> QED
  BY <1>2, <1>3, <1>4

(* An executor leaves its run ended, or to somebody else. *)
LEMMA ReleaseIsDoneStep ==
  ASSUME IInv, Next
  PROVE  ReleaseIsDone'
<1> USE DEF IInv
<1> SUFFICES ASSUME NEW w \in Worker, wk'[w].pc = "release",
                    run'[wk'[w].run].owner = w
             PROVE  run'[wk'[w].run].status # "running"
  BY DEF ReleaseIsDone
<1>1. /\ wk[w].pc \in Active
      /\ wk'[w].run = wk[w].run /\ wk'[w].epoch = wk[w].epoch
  BY ExecutionStep, LeaseFrame DEF Active
<1>2. PICK r \in Run : r = wk[w].run
  BY <1>1 DEF RunOfActive
<1>3. CASE Final(w) \/ Fail(w) \/ Cancel(w)
  <2>1. CASE MayEnd(w)
    BY <1>1, <1>2, <1>3, <2>1, EndsIfMay DEF TerminalStatus
  <2>2. CASE ~MayEnd(w)
    <3>1. UNCHANGED run
      BY <1>3, <2>2 DEF Final, Fail, Cancel, rows
    <3> QED
      BY <1>1, <2>2, <3>1 DEF MayEnd, TerminalStatus
  <2> QED
    BY <2>1, <2>2
<1>4. CASE (Step(w) \/ Raise(w)) /\ ~(Final(w) \/ Fail(w) \/ Cancel(w))
  <2>1. /\ UNCHANGED run
        /\ ~(/\ Open(r) /\ run[r].owner = w /\ run[r].attempt = wk[w].epoch)
    BY <1>2, <1>4, PcFrame
  <2>2. run[r].owner = w
    BY <1>1, <1>2, <2>1
  <2>3. run[r].attempt = wk[w].epoch
    BY <1>1, <1>2, <2>2 DEF Fenced, Executing
  <2> QED
    BY <1>1, <1>2, <2>1, <2>2, <2>3 DEF Open
<1>5. CASE ~(Step(w) \/ Raise(w))
  <2>1. wk[w].pc = "release"
    <3>1. ASSUME NEW q \in Run,
                 Submit(q) \/ RequestCancel(q) \/ ExpireOrphan(q) \/ Stall(q)
          PROVE  wk' = wk
      BY <3>1 DEF Submit, RequestCancel, ExpireOrphan, Stall
    <3>2. ASSUME NEW v \in Worker,
                 \/ \E q \in Run : Claim(v, q)
                 \/ HeartbeatRead(v) \/ HeartbeatWrite(v) \/ Crash(v)
          PROVE  wk'[w].pc = wk[w].pc
      BY <1>1, <3>2, LeaseFrame
    <3>3. ASSUME NEW v \in Worker, Step(v) \/ Raise(v)
          PROVE  wk'[w].pc = wk[w].pc
      BY <1>5, <3>3, WorkerFrame
    <3> QED
      BY <3>1, <3>2, <3>3 DEF Next
  <2>2. ASSUME NEW v \in Worker, Claim(v, r)
        PROVE  run'[r].owner # w
    BY <1>1, <2>2, LeaseRows, LeaseFrame
  <2>3. ~\E v \in Worker : Claim(v, r)
    BY <1>1, <1>2, <2>2
  <2>4. run[r].owner = w
    BY <1>1, <1>2, <2>3, LeaseStep, NobodyIsNoWorker DEF SameLease
  <2>5. run[r].status # "running"
    BY <1>2, <2>1, <2>4 DEF ReleaseIsDone
  <2> QED
    BY <1>1, <1>2, <2>3, <2>5, StatusStep DEF TerminalStatus
<1> QED
  BY <1>3, <1>4, <1>5

LEMMA FencingStep == IInv /\ [Next]_vars => IInv'
<1> SUFFICES ASSUME IInv, [Next]_vars PROVE IInv'
  OBVIOUS
<1>1. CASE Next
  BY <1>1, TypeStep, FencedStep, NoOrphanStep, CancelIsImmediateStep,
     CancelHasCauseStep, ReleaseIsDoneStep DEF IInv
<1>2. CASE UNCHANGED vars
  <2>1. run' = run /\ wk' = wk
    BY <1>2 DEF vars
  <2>2. TypeOK' /\ RunOfActive'
    BY TypeStep DEF IInv
  <2>3. Fenced' /\ NoOrphan'
    BY <2>1 DEF IInv, Fenced, NoOrphan, Executing
  <2>4. CancelIsImmediate' /\ CancelHasCause' /\ ReleaseIsDone'
    BY <2>1 DEF IInv, CancelIsImmediate, CancelHasCause, ReleaseIsDone, Lost
  <2> QED
    BY <2>2, <2>3, <2>4 DEF IInv
<1> QED
  BY <1>1, <1>2

LEMMA AlwaysIInv == Spec => []IInv
BY FencingInit, FencingStep, PTL DEF Spec

-----------------------------------------------------------------------------
(* Theorems *)

(* A worker that executes a run it owns holds the run's current epoch, so  *)
(* the owner tests of _finish_runtime_v2, _fail and _cancel suffice        *)
(* (coordinator.py), whatever workers crash, stall and take over.          *)
THEOREM OwnerIsFenced == Spec => []FencedOwner
<1>1. IInv => FencedOwner
  BY DEF IInv, Fenced, FencedOwner
<1> QED
  BY <1>1, AlwaysIInv, PTL

(* No live worker goes back to the queue (worker.py) and leaves a running  *)
(* run of its own behind, which nobody would then renew or finish.         *)
THEOREM NoRunIsOrphaned == Spec => []NoOrphan
<1>1. IInv => NoOrphan
  BY DEF IInv
<1> QED
  BY <1>1, AlwaysIInv, PTL

(* A stop request cancels its run in the very transaction that records it, *)
(* and an executor that lost its lease cancels nothing (request_cancel and *)
(* _cancel of coordinator.py).                                             *)
THEOREM CancellationIsImmediate == Spec => []CancelIsImmediate
<1>1. IInv => CancelIsImmediate
  BY DEF IInv
<1> QED
  BY <1>1, AlwaysIInv, PTL

(* Only a stop request, or the worker that holds the lease at the current  *)
(* epoch, ends a run.                                                      *)
THEOREM HolderEnds == Spec => OnlyHolderEnds
<1> DEFINE A == \A r \in Run :
       /\ run[r].status \notin TerminalStatus
       /\ run'[r].status \in TerminalStatus
       => \/ run'[r].cancelRequested
          \/ \E w \in Worker :
               /\ Executing(w, r) /\ run[r].owner = w
               /\ wk[w].epoch = run[r].attempt
               /\ wk'[w].pc = "release"
<1>1. ASSUME IInv, Next PROVE A
  <2> SUFFICES ASSUME NEW r \in Run, run[r].status \notin TerminalStatus,
                      run'[r].status \in TerminalStatus,
                      ~run'[r].cancelRequested
               PROVE  \E w \in Worker :
                        /\ Executing(w, r) /\ run[r].owner = w
                        /\ wk[w].epoch = run[r].attempt
                        /\ wk'[w].pc = "release"
    OBVIOUS
  <2>1. ~RequestCancel(r)
    BY <1>1, QueueFrame DEF IInv
  <2>2. PICK w \in Worker : /\ Final(w) \/ Fail(w) \/ Cancel(w)
                            /\ wk[w].pc \in Active /\ wk[w].run = r /\ MayEnd(w)
    BY <1>1, <2>1, StatusStep DEF TerminalStatus
  <2>3. wk'[w].pc = "release"
    BY <1>1, <2>2, PcFrame DEF IInv, Step
  <2>4. run[r].owner = w /\ wk[w].epoch = run[r].attempt
    BY <1>1, <2>2 DEF IInv, Fenced, Executing, MayEnd
  <2> QED
    BY <2>2, <2>3, <2>4 DEF Executing
<1>2. IInv /\ [Next]_vars => [A]_vars
  BY <1>1
<1>3. OnlyHolderEnds <=> [][A]_vars
  BY DEF OnlyHolderEnds
<1> QED
  BY <1>2, <1>3, AlwaysIInv, PTL DEF Spec

(* A run that ended stays as it ended, whatever late executors, second     *)
(* stop requests and takeovers do.                                         *)
THEOREM EndsOnce == Spec => EndedStaysEnded
<1> DEFINE A == \A r \in Run : run[r].status \in TerminalStatus =>
       /\ run'[r].status = run[r].status
       /\ result'[r] = result[r] /\ stop'[r] = stop[r]
       /\ outcome'[r] = outcome[r] /\ log'[r] = log[r]
<1>1. ASSUME IInv, Next PROVE A
  <2> SUFFICES ASSUME NEW r \in Run, run[r].status \in TerminalStatus
               PROVE  run'[r].status = run[r].status /\ SameRecord(r)
    BY DEF SameRecord
  <2> USE <1>1 DEF IInv
  <2>1. ASSUME NEW q \in Run,
               Submit(q) \/ RequestCancel(q) \/ ExpireOrphan(q) \/ Stall(q)
        PROVE  run'[r].status = run[r].status /\ SameRecord(r)
    BY <2>1, QueueFrame DEF Same, TerminalStatus
  <2>2. ASSUME NEW w \in Worker,
               \/ \E q \in Run : Claim(w, q)
               \/ HeartbeatRead(w) \/ HeartbeatWrite(w) \/ Crash(w)
               \/ Release(w)
        PROVE  run'[r].status = run[r].status /\ SameRecord(r)
    BY <2>2, LeaseRows DEF Same
  <2>3. ASSUME NEW w \in Worker, Step(w) \/ Raise(w), ~Release(w)
        PROVE  run'[r].status = run[r].status /\ SameRecord(r)
    BY <2>3, StepFrame DEF Same, EndsRun, MayEnd
  <2> QED
    BY <1>1, <2>1, <2>2, <2>3 DEF Next
<1>2. IInv /\ [Next]_vars => [A]_vars
  BY <1>1 DEF vars
<1>3. EndedStaysEnded <=> [][A]_vars
  BY DEF EndedStaysEnded
<1> QED
  BY <1>2, <1>3, AlwaysIInv, PTL DEF Spec

(* Leases and epochs keep the executions of a run apart (run_queue.py).    *)
THEOREM LeasesFence == Spec => []Fencing
<1>1. FencedOwner /\ NoOrphan /\ CancelIsImmediate => Fencing
  BY DEF Fencing
<1> QED
  BY <1>1, OwnerIsFenced, NoRunIsOrphaned, CancellationIsImmediate, PTL

(* Of all that race for the ending of a run (request_cancel, _fail,        *)
(* _cancel and _finish_runtime_v2 of coordinator.py) one wins, for good.   *)
THEOREM HolderEndsOnce == Spec => EndsOnceByHolder
BY EndsOnce, HolderEnds DEF EndsOnceByHolder

-----------------------------------------------------------------------------
(* Numbering a batch of events *)

Rank(S, t) == Cardinality({u \in S : u < t})

(* Numbering tasks by how many come before them uses every number once.    *)
LEMMA RanksFill ==
  ASSUME NEW S \in SUBSET Task
  PROVE  /\ \A t \in S : Rank(S, t) \in 0..(Cardinality(S) - 1)
         /\ \A n \in 0..(Cardinality(S) - 1) : \E t \in S : Rank(S, t) = n
         /\ \A t, v \in S : Rank(S, t) = Rank(S, v) => t = v
<1> DEFINE Before(t) == {u \in S : u < t}
<1>1. IsFiniteSet(S) /\ Cardinality(S) \in Nat
  BY TasksAreFinite
<1>2. \A t \in S : t \in Int
  BY CountsAreNatural DEF Task
<1>3. \A t \in S : /\ Before(t) \in SUBSET Task /\ t \notin Before(t)
                  /\ Before(t) \union {t} \in SUBSET S
                  /\ Rank(S, t) = Cardinality(Before(t))
  BY <1>2 DEF Rank
<1>4. ASSUME NEW t \in S, NEW v \in S, t < v
      PROVE  Before(t) \union {t} \in SUBSET Before(v)
  <2>1. \A u \in S : u < t => u < v
    BY <1>2, <1>4
  <2> QED
    BY <1>4, <2>1
<1> HIDE DEF Before
<1>5. ASSUME NEW t \in S
      PROVE  /\ Rank(S, t) \in Nat
             /\ Cardinality(Before(t) \union {t}) = Rank(S, t) + 1
  <2>1. IsFiniteSet(Before(t)) /\ Cardinality(Before(t)) \in Nat
    BY <1>3, TasksAreFinite
  <2> QED
    BY <1>3, <2>1, FS_AddElement
<1>6. ASSUME NEW t \in S PROVE Rank(S, t) + 1 <= Cardinality(S)
  <2>1. Cardinality(Before(t) \union {t}) <= Cardinality(S)
    BY <1>1, <1>3, FS_Subset
  <2> QED
    BY <1>5, <2>1
<1>7. ASSUME NEW t \in S, NEW v \in S, t < v
      PROVE  Rank(S, t) + 1 <= Rank(S, v)
  <2>1. Before(t) \union {t} \in SUBSET Before(v)
    BY <1>4, <1>7
  <2>2. IsFiniteSet(Before(v))
    BY <1>3, TasksAreFinite
  <2>3. Cardinality(Before(t) \union {t}) <= Cardinality(Before(v))
    BY <2>1, <2>2, FS_Subset
  <2> QED
    BY <1>3, <1>5, <2>3
<1>8. \A t, v \in S : Rank(S, t) = Rank(S, v) => t = v
  <2> SUFFICES ASSUME NEW t \in S, NEW v \in S, Rank(S, t) = Rank(S, v), t # v
               PROVE  FALSE
    OBVIOUS
  <2>1. t < v \/ v < t
    BY <1>2
  <2>2. Rank(S, t) + 1 <= Rank(S, v) \/ Rank(S, v) + 1 <= Rank(S, t)
    BY <1>7, <2>1
  <2>3. PICK k \in Nat : k = Rank(S, t)
    BY <1>5
  <2>4. k + 1 <= k
    BY <2>2, <2>3
  <2> QED
    BY <2>3, <2>4
<1> DEFINE T == 0..(Cardinality(S) - 1)
           f == [t \in S |-> Rank(S, t)]
<1>9. IsFiniteSet(T) /\ Cardinality(T) = Cardinality(S)
  BY <1>1, FS_Interval
<1>10. \A t \in S : Rank(S, t) \in T
  <2> SUFFICES ASSUME NEW t \in S PROVE Rank(S, t) \in T
    OBVIOUS
  <2>1. Rank(S, t) \in Nat /\ Rank(S, t) + 1 <= Cardinality(S)
    BY <1>5, <1>6
  <2> QED
    BY <1>1, <2>1
<1>11. f \in Injection(S, T)
  BY <1>8, <1>10 DEF Injection, IsInjective
<1>12. f \in Surjection(S, T)
  BY <1>1, <1>9, <1>11, FS_Injection
<1>13. \A n \in T : \E t \in S : Rank(S, t) = n
  BY <1>12 DEF Surjection
<1> QED
  BY <1>8, <1>10, <1>13

(* The last events of the transactions that end a run. *)
Closings == {<<"run-terminal">>, <<"assistant-failure", "run-terminal">>,
             <<"run-cancelled">>}

Numbers(L) == {e.seq : e \in L}

NoClash(L) ==
  \A e, f \in L : \/ e = f
                  \/ /\ e.seq # f.seq
                     /\ e.name = f.name => e.name \in Unkeyed \/ e.task # f.task

(* What a batch is made of. *)
OfTask(r, tasks, t) == [seq |-> run[r].nextSeq + Rank(tasks, t),
                        name |-> "task-terminal", task |-> t]

OfRun(r, tasks, closing, i) ==
  [seq |-> run[r].nextSeq + Cardinality(tasks) + i - 1,
   name |-> closing[i], task |-> Whole]

LEMMA BatchIs ==
  ASSUME NEW r, NEW tasks, NEW closing \in Closings
  PROVE  /\ Batch(r, tasks, closing) =
              {OfTask(r, tasks, t) : t \in tasks} \union
              {OfRun(r, tasks, closing, i) : i \in 1..Len(closing)}
         /\ Len(closing) \in {1, 2}
         /\ \A i \in 1..Len(closing) :
              /\ closing[i] \in {"run-terminal", "assistant-failure", "run-cancelled"}
              /\ closing[i] \in Ending <=> i = Len(closing)
<1>1. Batch(r, tasks, closing) =
        {OfTask(r, tasks, t) : t \in tasks} \union
        {OfRun(r, tasks, closing, i) : i \in 1..Len(closing)}
  BY DEF Batch, OfTask, OfRun, Rank
<1>2. CASE closing \in {<<"run-terminal">>, <<"run-cancelled">>}
  <2>1. Len(closing) = 1 /\ closing[1] \in {"run-terminal", "run-cancelled"}
    BY <1>2
  <2> QED
    BY <1>1, <2>1 DEF Ending
<1>3. CASE closing = <<"assistant-failure", "run-terminal">>
  <2>1. /\ Len(closing) = 2 /\ closing[1] = "assistant-failure"
        /\ closing[2] = "run-terminal"
    BY <1>3
  <2> QED
    BY <1>1, <2>1 DEF Ending
<1> QED
  BY <1>2, <1>3 DEF Closings

(* A batch continues the log's numbers without a gap, uses no key twice,   *)
(* and its last event, and no other, tells that the run is over.           *)
LEMMA BatchNumbers ==
  ASSUME TypeOK, NEW r \in Run, NEW tasks \in SUBSET Task,
         NEW closing \in Closings,
         NEW B, B = Batch(r, tasks, closing),
         NEW last, last = OfRun(r, tasks, closing, Len(closing))
  PROVE  /\ B \in SUBSET Event
         /\ SeqAfter(r, tasks, closing) \in Nat
         /\ run[r].nextSeq < SeqAfter(r, tasks, closing)
         /\ Numbers(B) = run[r].nextSeq..(SeqAfter(r, tasks, closing) - 1)
         /\ NoClash(B)
         /\ last \in B /\ last.name \in Ending
         /\ \A e \in B : /\ e.name \in Ending => e = last
                        /\ e.seq <= last.seq
<1> DEFINE n == run[r].nextSeq
           c == Cardinality(tasks)
           k == Len(closing)
<1>1. n \in Nat /\ c \in Nat /\ k \in {1, 2}
  BY TasksAreFinite, BatchIs DEF TypeOK, RunRow
<1>2. SeqAfter(r, tasks, closing) = n + c + k
  BY DEF SeqAfter
<1>3. \A t \in tasks : /\ OfTask(r, tasks, t).seq = n + Rank(tasks, t)
                      /\ OfTask(r, tasks, t).name = "task-terminal"
                      /\ OfTask(r, tasks, t).task = t
  BY DEF OfTask
<1>4. \A i \in 1..k : /\ OfRun(r, tasks, closing, i).seq = n + c + i - 1
                     /\ OfRun(r, tasks, closing, i).name = closing[i]
                     /\ OfRun(r, tasks, closing, i).task = Whole
  BY DEF OfRun
<1>5. \A e \in B : \/ \E t \in tasks : e = OfTask(r, tasks, t)
                  \/ \E i \in 1..k : e = OfRun(r, tasks, closing, i)
  BY BatchIs
<1>6. /\ \A t \in tasks : OfTask(r, tasks, t) \in B
      /\ \A i \in 1..k : OfRun(r, tasks, closing, i) \in B
  BY BatchIs
<1>7. \A t \in tasks : Rank(tasks, t) \in 0..(c - 1) /\ t \in Nat /\ t # Whole
  <2>1. \A t \in tasks : Rank(tasks, t) \in 0..(c - 1)
    BY RanksFill
  <2>2. \A t \in tasks : t \in Nat /\ t # 0
    BY CountsAreNatural DEF Task
  <2> QED
    BY <2>1, <2>2 DEF Whole
<1>8. \A i \in 0..(c - 1) : \E t \in tasks : Rank(tasks, t) = i
  BY RanksFill
<1>9. \A t, v \in tasks : Rank(tasks, t) = Rank(tasks, v) => t = v
  BY RanksFill
<1>10. \A i \in 1..k :
         /\ closing[i] \in {"run-terminal", "assistant-failure", "run-cancelled"}
         /\ closing[i] \in Ending <=> i = k
  BY BatchIs
<1>11. B \in SUBSET Event
  <2>1. \A t \in tasks : OfTask(r, tasks, t) \in Event
    BY <1>1, <1>7 DEF OfTask, Event, EventName
  <2>2. \A i \in 1..k : OfRun(r, tasks, closing, i) \in Event
    BY <1>1, <1>10 DEF OfRun, Event, EventName, Whole
  <2> QED
    BY <1>5, <2>1, <2>2
<1> HIDE DEF n, c, k
<1>12. Numbers(B) = n..(n + c + k - 1)
  <2>1. \A e \in B : e.seq \in n..(n + c + k - 1)
    BY <1>1, <1>3, <1>4, <1>5, <1>7
  <2>2. ASSUME NEW j \in n..(n + c + k - 1)
        PROVE  \E e \in B : e.seq = j
    <3>1. CASE j < n + c
      <4>1. PICK t \in tasks : Rank(tasks, t) = j - n
        BY <1>1, <1>8, <3>1
      <4> QED
        BY <1>1, <1>3, <1>6, <4>1
    <3>2. CASE j >= n + c
      <4>1. PICK i \in 1..k : n + c + i - 1 = j
        <5>1. /\ j - n - c + 1 \in 1..k
              /\ n + c + (j - n - c + 1) - 1 = j
          BY <1>1, <3>2
        <5> QED
          BY <5>1
      <4>2. /\ OfRun(r, tasks, closing, i).seq = j
            /\ OfRun(r, tasks, closing, i) \in B
        BY <1>4, <1>6, <4>1
      <4> QED
        BY <4>2
    <3> QED
      BY <1>1, <3>1, <3>2
  <2> QED
    BY <2>1, <2>2 DEF Numbers
<1>13. NoClash(B)
  <2> SUFFICES ASSUME NEW e \in B, NEW f \in B, e # f
               PROVE  /\ e.seq # f.seq
                      /\ e.name = f.name => e.task # f.task
    BY DEF NoClash
  <2>1. CASE \E t, v \in tasks : e = OfTask(r, tasks, t) /\ f = OfTask(r, tasks, v)
    BY <1>1, <1>3, <1>7, <1>9, <2>1
  <2>2. CASE \E i, j \in 1..k : /\ e = OfRun(r, tasks, closing, i)
                               /\ f = OfRun(r, tasks, closing, j)
    <3>1. PICK i \in 1..k, j \in 1..k : /\ e = OfRun(r, tasks, closing, i)
                                       /\ f = OfRun(r, tasks, closing, j)
      BY <2>2
    <3>2. i # j
      BY <3>1
    <3>3. closing[i] # closing[j]
      BY <1>1, <1>10, <3>2
    <3> QED
      BY <1>1, <1>4, <3>1, <3>2, <3>3
  <2>3. CASE \E t \in tasks, i \in 1..k :
               \/ e = OfTask(r, tasks, t) /\ f = OfRun(r, tasks, closing, i)
               \/ f = OfTask(r, tasks, t) /\ e = OfRun(r, tasks, closing, i)
    BY <1>1, <1>3, <1>4, <1>7, <1>10, <2>3
  <2> QED
    BY <1>5, <2>1, <2>2, <2>3
<1>14. k \in 1..k /\ last = OfRun(r, tasks, closing, k)
  BY <1>1 DEF k
<1>15. last \in B /\ last.name \in Ending /\ last.seq = n + c + k - 1
  BY <1>4, <1>6, <1>10, <1>14
<1>16. \A e \in B : e.seq <= last.seq
  BY <1>1, <1>3, <1>4, <1>5, <1>7, <1>15
<1>17. \A e \in B : e.name \in Ending => e = last
  BY <1>3, <1>4, <1>5, <1>10, <1>14 DEF Ending
<1>18. /\ SeqAfter(r, tasks, closing) \in Nat
       /\ n < SeqAfter(r, tasks, closing)
       /\ Numbers(B) = n..(SeqAfter(r, tasks, closing) - 1)
  BY <1>1, <1>2, <1>12
<1>19. n = run[r].nextSeq
  BY DEF n
<1> QED
  BY <1>11, <1>13, <1>15, <1>16, <1>17, <1>18, <1>19

-----------------------------------------------------------------------------
(* The inductive invariant *)

(* A log that is gap-free and uses no key twice. *)
Sound(L, next) == Numbers(L) = 1..(next - 1) /\ NoClash(L)

(* Its one ending event is the last. *)
Over(L) == \E e \in L : /\ e.name \in Ending
                        /\ \A x \in L : x.name \in Ending => x = e
                        /\ \A x \in L : x.seq <= e.seq

NotOver(L) == \A x \in L : x.name \notin Ending \union {"assistant-failure"}

LogsAreSound ==
  \A r \in Run : /\ run[r].nextSeq # 0
                 /\ Sound(log[r], run[r].nextSeq)

EndsAreLogged ==
  \A r \in Run : IF run[r].status \in TerminalStatus
                 THEN Over(log[r]) ELSE NotOver(log[r])

(* Who executes a run executes one that was submitted, and if he still owns *)
(* it, one that has not ended unless it was stopped.                       *)
BusyRunExists ==
  \A w \in Worker : wk[w].pc \in Active => run[wk[w].run].status # "absent"

OwnerIsOpen ==
  \A w \in Worker :
    /\ wk[w].pc \in Active \ {"release"}
    /\ run[wk[w].run].owner = w
    => \/ run[wk[w].run].status \notin TerminalStatus
       \/ run[wk[w].run].cancelRequested

(* Nothing is settled about a run that has not ended. *)
OpenIsUnsettled ==
  \A r \in Run : run[r].status \notin TerminalStatus =>
    /\ stop[r] = "none" /\ ~result[r].answered /\ ~result[r].record
    /\ \A t \in Task : outcome[r][t] = "none" /\ task[r][t] # "cancelled"

SettledAgrees == EndingsAgree /\ OutcomesComplete

EInv ==
  /\ IInv
  /\ LogsAreSound /\ EndsAreLogged
  /\ BusyRunExists /\ OwnerIsOpen
  /\ OpenIsUnsettled /\ SettledAgrees

-----------------------------------------------------------------------------
(* What a step does to the row, the log and the record of a run *)

Appended == EventName \ (Ending \union {"assistant-failure", "task-terminal"})

SamePhase(r) == run'[r].status = run[r].status \/ (Open(r) /\ Open(r)')

Kept(r) ==
  /\ SamePhase(r)
  /\ run'[r].nextSeq = run[r].nextSeq
  /\ run'[r].reservation = run[r].reservation
  /\ SameRecord(r)

Opens(r) ==
  /\ run[r].status = "absent" /\ run'[r].status = "queued"
  /\ run'[r].nextSeq = 3
  /\ run'[r].reservation = run[r].reservation
  /\ log'[r] = {[seq |-> 1, name |-> "run-queued", task |-> Whole],
                [seq |-> 2, name |-> "plan-created", task |-> Whole]}
  /\ result'[r] = result[r] /\ stop'[r] = stop[r] /\ outcome'[r] = outcome[r]

Appends(r) ==
  /\ run[r].status \notin TerminalStatus /\ run'[r].status = run[r].status
  /\ run'[r].nextSeq = run[r].nextSeq + 1
  /\ run'[r].reservation = run[r].reservation
  /\ \E name \in Appended :
       /\ name \in Unkeyed \/ ~Logged(r, name)
       /\ log'[r] = log[r] \union
            {[seq |-> run[r].nextSeq, name |-> name, task |-> Whole]}
  /\ result'[r] = result[r] /\ stop'[r] = stop[r] /\ outcome'[r] = outcome[r]

Holds(r) ==
  /\ Open(r) /\ run'[r].status = run[r].status
  /\ run'[r].nextSeq = run[r].nextSeq
  /\ run[r].reservation # "reserved" /\ run'[r].reservation = "reserved"
  /\ SameRecord(r)

(* The run ends as s: with an ending event behind one event per task that  *)
(* has none, with a decision, and with an outcome for every task unless it *)
(* was stopped.                                                            *)
Closes(r, s) ==
  /\ Open(r) /\ run'[r].status = s
  /\ run'[r].reservation # "reserved"
  /\ stop'[r] = RouteOf(s)
  /\ result'[r].answered <=> s \in {"completed", "partial"}
  /\ s \notin {"completed", "partial"} => result'[r] = result[r]
  /\ s = "completed" => result'[r].record
  /\ \E tasks \in SUBSET Task, closing \in Closings :
       /\ run'[r].nextSeq = SeqAfter(r, tasks, closing)
       /\ log'[r] = log[r] \union Batch(r, tasks, closing)
       /\ \A e \in log[r] : e.name = "task-terminal" => e.task \notin tasks
       /\ s # "cancelled" =>
            \A t \in Task :
              /\ outcome'[r][t] \in FinishedTask
              /\ s = "completed" => outcome'[r][t] = "completed"
              /\ t \in tasks \/ \E e \in log[r] :
                                  e.name = "task-terminal" /\ e.task = t

(* Rows that replace a run's without ending it keep its reservation and    *)
(* its next event number.                                                  *)
LEMMA RowBooks ==
  ASSUME run \in [Run -> RunRow], NEW r \in Run
  PROVE  /\ \A w, n : LET new == [run[r] EXCEPT !.status = "running",
                          !.owner = w, !.lease = "live", !.attempt = n] IN
              /\ new.nextSeq = run[r].nextSeq
              /\ new.reservation = run[r].reservation
         /\ \A o, l : LET new == [run[r] EXCEPT !.owner = o, !.lease = l] IN
              /\ new.nextSeq = run[r].nextSeq
              /\ new.reservation = run[r].reservation
         /\ \A l : LET new == [run[r] EXCEPT !.lease = l] IN
              /\ new.nextSeq = run[r].nextSeq
              /\ new.reservation = run[r].reservation
         /\ \A c : LET new == [run[r] EXCEPT !.reservation = c] IN
              /\ new.nextSeq = run[r].nextSeq /\ new.reservation = c
         /\ \A n, c : LET new == [run[r] EXCEPT !.status = "queued",
                          !.nextSeq = n, !.created = c] IN
              new.nextSeq = n /\ new.reservation = run[r].reservation
         /\ \A n : LET new == [run[r] EXCEPT !.nextSeq = n] IN
              new.nextSeq = n /\ new.reservation = run[r].reservation
<1>1. PICK row \in RunRow : row = run[r]
  OBVIOUS
<1> QED
  BY <1>1 DEF RunRow

(* One appended event. *)
LEMMA AppendEffect ==
  ASSUME TypeOK, NEW w \in Worker, NEW name \in Appended, Append1(w, name),
         wk[w].run \in Run, UNCHANGED <<result, stop, outcome>>
  PROVE  /\ \A q \in Run \ {wk[w].run} : Kept(q)
         /\ Kept(wk[w].run) \/ Appends(wk[w].run)
<1>1. PICK r \in Run : r = wk[w].run
  OBVIOUS
<1>2. CASE UNCHANGED <<run, log>>
  BY <1>1, <1>2 DEF Kept, SamePhase, SameRecord
<1>3. CASE /\ Accepts(w) /\ (name \in Unkeyed \/ ~Logged(r, name))
           /\ run' = [run EXCEPT ![r] =
                        [run[r] EXCEPT !.nextSeq = run[r].nextSeq + 1]]
           /\ log' = [log EXCEPT ![r] = @ \union
                {[seq |-> run[r].nextSeq, name |-> name, task |-> Whole]}]
  <2> DEFINE new == [run[r] EXCEPT !.nextSeq = run[r].nextSeq + 1]
  <2>1. /\ new.nextSeq = run[r].nextSeq + 1
        /\ new.reservation = run[r].reservation
    BY RowBooks DEF TypeOK
  <2>2. run' = [run EXCEPT ![r] = new]
    BY <1>3
  <2> HIDE DEF new
  <2>3. run'[r] = new /\ \A q \in Run \ {r} : run'[q] = run[q]
    BY <2>2 DEF TypeOK
  <2>4. /\ log'[r] = log[r] \union
             {[seq |-> run[r].nextSeq, name |-> name, task |-> Whole]}
        /\ \A q \in Run \ {r} : log'[q] = log[q]
    BY <1>3 DEF TypeOK
  <2>5. run'[r].status = run[r].status
    BY <1>1, AppendFrame DEF Same
  <2>6. run[r].status \notin TerminalStatus
    BY <1>1, <1>3 DEF Accepts
  <2>7. Appends(r)
    BY <1>3, <2>1, <2>3, <2>4, <2>5, <2>6 DEF Appends
  <2>8. \A q \in Run \ {r} : Kept(q)
    BY <2>3, <2>4 DEF Kept, SamePhase, SameRecord
  <2> QED
    BY <1>1, <2>7, <2>8
<1> QED
  BY <1>1, <1>2, <1>3 DEF Append1

LEMMA WriteBooks ==
  ASSUME TypeOK, NEW r \in Run, NEW row \in RunRow, NEW tasks, NEW closing,
         Write(r, row, tasks, closing)
  PROVE  /\ run'[r].nextSeq = SeqAfter(r, tasks, closing)
         /\ log'[r] = log[r] \union Batch(r, tasks, closing)
<1> DEFINE new == [row EXCEPT !.nextSeq = SeqAfter(r, tasks, closing)]
<1>1. new.nextSeq = SeqAfter(r, tasks, closing)
  BY DEF RunRow
<1>2. run' = [run EXCEPT ![r] = new]
  BY DEF Write
<1> HIDE DEF new
<1> QED
  BY <1>1, <1>2 DEF Write, TypeOK

(* A reservation never outlives its run. *)
LEMMA ReservationEnds ==
  ASSUME NEW r, NEW to \in {"settled", "released"}
  PROVE  ReservationAfter(r, to) # "reserved"
BY DEF ReservationAfter

(* When no task of an open run has an outcome, every finished task gets    *)
(* its own.                                                                *)
LEMMA SettleEffect ==
  ASSUME TypeOK, NEW w, NEW r \in Run, NEW ts, SettleTasks(w, r, ts),
         \A t \in Task : outcome[r][t] = "none"
  PROVE  /\ \A q \in Run \ {r} : outcome'[q] = outcome[q]
         /\ \A t \in Task : ts[t] \in FinishedTask => outcome'[r][t] = ts[t]
         /\ task' = [task EXCEPT ![r] = ts]
<1> DEFINE new == [t \in Task |-> IF outcome[r][t] = "none" /\ t \in Finished(ts)
                                  THEN ts[t] ELSE outcome[r][t]]
<1>1. outcome' = [outcome EXCEPT ![r] = new]
  BY DEF SettleTasks
<1>2. \A t \in Task : ts[t] \in FinishedTask => new[t] = ts[t]
  BY DEF Finished
<1> HIDE DEF new
<1> QED
  BY <1>1, <1>2 DEF SettleTasks, TypeOK

(* Every finished task is announced, now or before. *)
LEMMA AllAnnounced ==
  ASSUME NEW r, NEW ts
  PROVE  /\ \A e \in log[r] : e.name = "task-terminal" =>
              e.task \notin Unannounced(r, ts)
         /\ \A t \in Task : ts[t] \in FinishedTask =>
              \/ t \in Unannounced(r, ts)
              \/ \E e \in log[r] : e.name = "task-terminal" /\ e.task = t
BY DEF Unannounced, Finished

(* What one ending does to everything but the run itself. *)
EndsAs(r, s) ==
  /\ Closes(r, s)
  /\ \A q \in Run \ {r} : Kept(q)
  /\ \/ policy' = ReleaseQuota(r)
     \/ \E tokens \in {0, Usage} : policy' = Settle(r, tokens)

(* The transactions of the executor that end a run, in one form.           *)
LEMMA ExecutorEnds ==
  ASSUME EInv, NEW w \in Worker, NEW r \in Run, r = wk[w].run,
         wk[w].pc \in Active, MayEnd(w),
         NEW s \in TerminalStatus, NEW ts \in [Task -> FinishedTask],
         NEW to \in {"settled", "released"}, NEW closing \in Closings,
         SettleTasks(w, r, ts), Decide(r, s),
         Write(r, [run[r] EXCEPT !.status = s,
                     !.reservation = ReservationAfter(r, to)],
               Unannounced(r, ts), closing),
         \A q \in Run \ {r} : result'[q] = result[q],
         result'[r].answered <=> s \in {"completed", "partial"},
         s \notin {"completed", "partial"} => result'[r] = result[r],
         s = "completed" => result'[r].record,
         s = "completed" => \A t \in Task : ts[t] = "completed"
  PROVE  Closes(r, s) /\ \A q \in Run \ {r} : Kept(q)
<1> DEFINE row == [run[r] EXCEPT !.status = s,
                     !.reservation = ReservationAfter(r, to)]
           tasks == Unannounced(r, ts)
<1> USE DEF EInv, IInv
<1>1. row \in RunRow /\ row.status = s /\ row.reservation # "reserved"
  <2>1. s # "cancelled" => s \in {"completed", "partial", "failed"}
    BY DEF TerminalStatus
  <2>2. ReservationAfter(r, to) \in {"none", "reserved", "settled", "released"}
    BY ReservationType DEF TypeOK
  <2>3. row \in RunRow
    BY <2>1, <2>2, RowType DEF TypeOK
  <2>4. row.status = s /\ row.reservation = ReservationAfter(r, to)
    BY RowFrame DEF TypeOK
  <2> QED
    BY <2>3, <2>4, ReservationEnds
<1> HIDE DEF row
<1>2. Write(r, row, tasks, closing)
  BY DEF row
<1>3. tasks \in SUBSET Task
  BY UnannouncedAreTasks
<1>4. /\ run'[r].status = s /\ run'[r].reservation # "reserved"
      /\ \A q \in Run \ {r} : run'[q] = run[q] /\ log'[q] = log[q]
  BY <1>1, <1>2, WriteFrame
<1>5. /\ run'[r].nextSeq = SeqAfter(r, tasks, closing)
      /\ log'[r] = log[r] \union Batch(r, tasks, closing)
  BY <1>1, <1>2, WriteBooks
<1>6. /\ run[r].status \notin TerminalStatus /\ Open(r)
      /\ stop[r] = "none"
      /\ \A t \in Task : outcome[r][t] = "none"
  <2>1. run[r].status \notin TerminalStatus /\ run[r].status # "absent"
    BY DEF MayEnd, BusyRunExists
  <2>2. run[r].status \in RunStatus
    BY DEF TypeOK, RunRow
  <2> QED
    BY <2>1, <2>2 DEF RunStatus, Open, OpenIsUnsettled
<1>7. stop'[r] = RouteOf(s) /\ \A q \in Run \ {r} : stop'[q] = stop[q]
  BY <1>6 DEF Decide, TypeOK
<1>8. /\ \A q \in Run \ {r} : outcome'[q] = outcome[q]
      /\ \A t \in Task : outcome'[r][t] = ts[t] /\ ts[t] \in FinishedTask
  BY <1>6, SettleEffect
<1>9. \A q \in Run \ {r} : Kept(q)
  BY <1>4, <1>7, <1>8 DEF Kept, SamePhase, SameRecord
<1>10. /\ \A e \in log[r] : e.name = "task-terminal" => e.task \notin tasks
       /\ \A t \in Task : \/ t \in tasks
                          \/ \E e \in log[r] : e.name = "task-terminal" /\ e.task = t
  BY <1>8, AllAnnounced
<1> HIDE DEF tasks
<1>11. Closes(r, s)
  BY <1>3, <1>4, <1>5, <1>6, <1>7, <1>8, <1>10 DEF Closes
<1> QED
  BY <1>9, <1>11

(* The last transaction publishes: a run that is completed has a record,   *)
(* and neither a failed task nor a skipped one.                            *)
LEMMA PublishEnds ==
  ASSUME EInv, NEW w \in Worker, NEW r \in Run, r = wk[w].run,
         wk[w].pc \in Active, MayEnd(w),
         NEW cited \in BOOLEAN, Publish(w, r, cited)
  PROVE  \E s \in {"completed", "partial"} : EndsAs(r, s)
<1> DEFINE done == [t \in Task |-> IF task[r][t] \in LiveTask
                                   THEN "completed" ELSE task[r][t]]
<1> USE DEF EInv, IInv
<1>1. PICK s \in {"completed", "partial"}, record \in BOOLEAN :
        /\ result' = [result EXCEPT ![r] = [answered |-> TRUE, record |-> record]]
        /\ Decide(r, s)
        /\ SettleTasks(w, r, done)
        /\ Write(r, [run[r] EXCEPT !.status = s,
                       !.reservation = ReservationAfter(r, "settled")],
                 Unannounced(r, done), <<"run-terminal">>)
        /\ s = "completed" =>
             record /\ ~\E t \in Task : task[r][t] \in {"failed", "skipped"}
  BY DEF Publish, DecideStop
<1>2. run[r].status \notin TerminalStatus
  BY DEF MayEnd
<1>3. \A t \in Task : /\ task[r][t] \in LiveTask \union FinishedTask
                      /\ task[r][t] # "cancelled"
  BY <1>2 DEF TypeOK, OpenIsUnsettled
<1>4. done \in [Task -> FinishedTask]
  BY <1>3 DEF FinishedTask
<1>5. s = "completed" => \A t \in Task : done[t] = "completed"
  BY <1>1, <1>3 DEF FinishedTask
<1>6. /\ \A q \in Run \ {r} : result'[q] = result[q]
      /\ result'[r].answered /\ result'[r].record = record
  BY <1>1 DEF TypeOK
<1>7. s \in TerminalStatus /\ <<"run-terminal">> \in Closings
  BY DEF TerminalStatus, Closings
<1> HIDE DEF done
<1>8. Closes(r, s) /\ \A q \in Run \ {r} : Kept(q)
  BY <1>1, <1>4, <1>5, <1>6, <1>7, ExecutorEnds
<1>9. \E tokens \in {0, Usage} : policy' = Settle(r, tokens)
  BY DEF Publish
<1> QED
  BY <1>8, <1>9 DEF EndsAs

LEMMA FailEnds ==
  ASSUME EInv, NEW w \in Worker, NEW r \in Run, r = wk[w].run,
         Fail(w), MayEnd(w)
  PROVE  EndsAs(r, "failed")
<1> DEFINE done == [t \in Task |->
                 IF task[r][t] \notin LiveTask THEN task[r][t]
                 ELSE IF wk[w].err = "budget" /\ task[r][t] = "pending"
                 THEN "skipped" ELSE "failed"]
<1> USE DEF EInv, IInv
<1>1. PICK closing \in Closings :
        /\ policy' = ReleaseQuota(r) /\ UNCHANGED result
        /\ SettleTasks(w, r, done) /\ Decide(r, "failed")
        /\ Write(r, [run[r] EXCEPT !.status = "failed",
                       !.reservation = ReservationAfter(r, "released")],
                 Unannounced(r, done), closing)
  BY DEF Fail, Closings
<1>2. \A t \in Task : task[r][t] \in LiveTask \union FinishedTask
  BY DEF TypeOK
<1>3. done \in [Task -> FinishedTask]
  BY <1>2 DEF FinishedTask
<1>4. wk[w].pc \in Active /\ "failed" \in TerminalStatus
  BY DEF Fail, Active, TerminalStatus
<1>5. ~result[r].answered
  BY DEF MayEnd, OpenIsUnsettled
<1> HIDE DEF done
<1>6. Closes(r, "failed") /\ \A q \in Run \ {r} : Kept(q)
  BY <1>1, <1>3, <1>4, <1>5, ExecutorEnds
<1> QED
  BY <1>1, <1>6 DEF EndsAs

LEMMA CancelEnds ==
  ASSUME EInv, NEW w \in Worker, NEW r \in Run, r = wk[w].run,
         Cancel(w), MayEnd(w)
  PROVE  EndsAs(r, "cancelled")
<1> DEFINE done == [t \in Task |-> IF task[r][t] \in LiveTask
                                   THEN "cancelled" ELSE task[r][t]]
<1> USE DEF EInv, IInv
<1>1. /\ policy' = ReleaseQuota(r) /\ UNCHANGED result
      /\ SettleTasks(w, r, done) /\ Decide(r, "cancelled")
      /\ Write(r, [run[r] EXCEPT !.status = "cancelled",
                     !.reservation = ReservationAfter(r, "released")],
               Unannounced(r, done), <<"run-cancelled">>)
  BY DEF Cancel
<1>2. \A t \in Task : task[r][t] \in LiveTask \union FinishedTask
  BY DEF TypeOK
<1>3. done \in [Task -> FinishedTask]
  BY <1>2 DEF FinishedTask
<1>4. /\ wk[w].pc \in Active /\ "cancelled" \in TerminalStatus
      /\ <<"run-cancelled">> \in Closings
  BY DEF Cancel, Active, TerminalStatus, Closings
<1>5. ~result[r].answered
  BY DEF MayEnd, OpenIsUnsettled
<1> HIDE DEF done
<1>6. Closes(r, "cancelled") /\ \A q \in Run \ {r} : Kept(q)
  BY <1>1, <1>3, <1>4, <1>5, ExecutorEnds
<1> QED
  BY <1>1, <1>6 DEF EndsAs

(* A stop request ends the run without an outcome.  Its ending event is    *)
(* written because an open run has none.                                   *)
LEMMA RequestCancelEnds ==
  ASSUME EInv, NEW r \in Run, RequestCancel(r)
  PROVE  EndsAs(r, "cancelled")
<1> DEFINE row == [run[r] EXCEPT !.status = "cancelled", !.cancelRequested = TRUE,
                     !.reservation = ReservationAfter(r, "released")]
<1> USE DEF EInv, IInv
<1>1. run[r].status \notin TerminalStatus /\ Open(r)
  BY DEF RequestCancel, Stoppable, TypeOK, RunRow, RunStatus, Open
<1>2. ~Logged(r, "run-terminal")
  BY <1>1 DEF EndsAreLogged, NotOver, Logged, Ending
<1>3. Write(r, row, {}, <<"run-terminal">>)
  BY <1>2 DEF RequestCancel
<1>4. row \in RunRow /\ row.status = "cancelled" /\ row.reservation # "reserved"
  <2>1. ReservationAfter(r, "released") \in {"none", "reserved", "settled", "released"}
    BY ReservationType DEF TypeOK
  <2>2. row \in RunRow
    BY <2>1, RowType DEF TypeOK
  <2>3. row.status = "cancelled" /\ row.reservation = ReservationAfter(r, "released")
    BY RowFrame DEF TypeOK
  <2> QED
    BY <2>2, <2>3, ReservationEnds
<1> HIDE DEF row
<1>5. /\ run'[r].status = "cancelled" /\ run'[r].reservation # "reserved"
      /\ \A q \in Run \ {r} : run'[q] = run[q] /\ log'[q] = log[q]
  BY <1>3, <1>4, WriteFrame
<1>6. /\ run'[r].nextSeq = SeqAfter(r, {}, <<"run-terminal">>)
      /\ log'[r] = log[r] \union Batch(r, {}, <<"run-terminal">>)
  BY <1>3, <1>4, WriteBooks
<1>7. stop[r] = "none" /\ ~result[r].answered
  BY <1>1 DEF OpenIsUnsettled
<1>8. /\ stop'[r] = RouteOf("cancelled")
      /\ \A q \in Run \ {r} : stop'[q] = stop[q]
      /\ UNCHANGED <<result, outcome>> /\ policy' = ReleaseQuota(r)
  BY <1>7 DEF RequestCancel, Decide, TypeOK
<1>9. \A q \in Run \ {r} : Kept(q)
  BY <1>5, <1>8 DEF Kept, SamePhase, SameRecord
<1>10. <<"run-terminal">> \in Closings /\ {} \in SUBSET Task
  BY DEF Closings
<1>11. Closes(r, "cancelled")
  BY <1>1, <1>5, <1>6, <1>7, <1>8, <1>10 DEF Closes
<1> QED
  BY <1>8, <1>9, <1>11 DEF EndsAs

-----------------------------------------------------------------------------
(* What any step does *)

NothingEnds == (\A q \in Run : Kept(q)) /\ policy' = policy

Grows(r) ==
  /\ Opens(r) \/ Appends(r)
  /\ \A q \in Run \ {r} : Kept(q)
  /\ policy' = policy

Takes(r) ==
  /\ Holds(r)
  /\ \A q \in Run \ {r} : Kept(q)
  /\ Fits(policy) /\ policy' = [policy EXCEPT !.reserved = @ + Budget]

(* The API and the queue. *)
LEMMA SubmitEffect ==
  ASSUME TypeOK, NEW r \in Run, Submit(r)
  PROVE  Grows(r)
<1> DEFINE new == [run[r] EXCEPT !.status = "queued", !.nextSeq = 3,
                     !.created = submitted + 1]
<1>1. /\ new.nextSeq = 3 /\ new.reservation = run[r].reservation
      /\ new.status = "queued"
  BY RowBooks, RowFrame DEF TypeOK
<1>2. run' = [run EXCEPT ![r] = new]
  BY DEF Submit
<1> HIDE DEF new
<1>3. run'[r] = new /\ \A q \in Run \ {r} : run'[q] = run[q]
  BY <1>2 DEF TypeOK
<1>4. /\ log'[r] = {[seq |-> 1, name |-> "run-queued", task |-> Whole],
                    [seq |-> 2, name |-> "plan-created", task |-> Whole]}
      /\ \A q \in Run \ {r} : log'[q] = log[q]
  BY DEF Submit, TypeOK
<1>5. run[r].status = "absent" /\ UNCHANGED <<policy, result, stop, outcome>>
  BY DEF Submit
<1> QED
  BY <1>1, <1>3, <1>4, <1>5 DEF Grows, Opens, Kept, SamePhase, SameRecord

LEMMA QueueEffect ==
  ASSUME TypeOK, RunOfActive
  PROVE  /\ \A r \in Run : ExpireOrphan(r) \/ Stall(r) => NothingEnds
         /\ \A w \in Worker :
              /\ \A r \in Run : Claim(w, r) => NothingEnds
              /\ HeartbeatRead(w) \/ HeartbeatWrite(w) \/ Crash(w) => NothingEnds
              /\ Release(w) => NothingEnds
<1> USE DEF TypeOK
<1>1. ASSUME NEW r \in Run, ExpireOrphan(r) \/ Stall(r)
      PROVE  NothingEnds
  <2> DEFINE new == [run[r] EXCEPT !.lease = "expired"]
  <2>1. /\ new.nextSeq = run[r].nextSeq /\ new.reservation = run[r].reservation
        /\ new.status = run[r].status
    BY RowBooks, RowFrame
  <2>2. run' = [run EXCEPT ![r] = new]
    BY <1>1 DEF ExpireOrphan, Stall
  <2> HIDE DEF new
  <2>3. UNCHANGED <<policy, result, stop, outcome, log>>
    BY <1>1 DEF ExpireOrphan, Stall
  <2> QED
    BY <2>1, <2>2, <2>3 DEF NothingEnds, Kept, SamePhase, SameRecord
<1>2. ASSUME NEW w \in Worker, NEW r \in Run, Claim(w, r)
      PROVE  NothingEnds
  <2> DEFINE new == [run[r] EXCEPT !.status = "running", !.owner = w,
                       !.lease = "live", !.attempt = NextAttempt(r)]
  <2>1. /\ new.nextSeq = run[r].nextSeq /\ new.reservation = run[r].reservation
        /\ new.status = "running"
    BY RowBooks, RowFrame
  <2>2. run' = [run EXCEPT ![r] = new]
    BY <1>2 DEF Claim
  <2> HIDE DEF new
  <2>3. Open(r) /\ UNCHANGED <<policy, result, stop, outcome, log>>
    BY <1>2 DEF Claim, Claimable, Open
  <2>4. run'[r] = new /\ \A q \in Run \ {r} : run'[q] = run[q]
    BY <2>2
  <2>5. SamePhase(r) /\ \A q \in Run \ {r} : SamePhase(q)
    BY <2>1, <2>3, <2>4 DEF SamePhase, Open
  <2> QED
    BY <2>1, <2>3, <2>4, <2>5 DEF NothingEnds, Kept, SameRecord
<1>3. ASSUME NEW w \in Worker, HeartbeatRead(w) \/ Crash(w)
      PROVE  NothingEnds
  BY <1>3 DEF HeartbeatRead, Crash, rows, NothingEnds, Kept, SamePhase, SameRecord
<1>4. ASSUME NEW w \in Worker, HeartbeatWrite(w)
      PROVE  NothingEnds
  <2>1. UNCHANGED <<policy, result, stop, outcome, log>>
    BY <1>4 DEF HeartbeatWrite
  <2>2. CASE wk[w].run \notin Run
    <3>1. run' = run
      BY <1>4, <2>2 DEF HeartbeatWrite
    <3> QED
      BY <2>1, <3>1 DEF NothingEnds, Kept, SamePhase, SameRecord
  <2>3. ASSUME NEW r \in Run, r = wk[w].run PROVE NothingEnds
    <3> DEFINE new == [run[r] EXCEPT !.lease = "live"]
    <3>1. /\ new.nextSeq = run[r].nextSeq
          /\ new.reservation = run[r].reservation /\ new.status = run[r].status
      BY RowBooks, RowFrame
    <3>2. run' = [run EXCEPT ![r] = new]
      BY <1>4, <2>3 DEF HeartbeatWrite
    <3> HIDE DEF new
    <3> QED
      BY <2>1, <3>1, <3>2 DEF NothingEnds, Kept, SamePhase, SameRecord
  <2> QED
    BY <2>2, <2>3
<1>5. ASSUME NEW w \in Worker, Release(w)
      PROVE  NothingEnds
  <2>1. PICK r \in Run : r = wk[w].run
    BY <1>5 DEF Release, RunOfActive, Active
  <2> DEFINE new == [run[r] EXCEPT !.owner = Nobody, !.lease = "none"]
  <2>2. /\ new.nextSeq = run[r].nextSeq /\ new.reservation = run[r].reservation
        /\ new.status = run[r].status
    BY RowBooks, RowFrame
  <2>3. run' = run \/ run' = [run EXCEPT ![r] = new]
    BY <1>5, <2>1 DEF Release
  <2> HIDE DEF new
  <2>4. UNCHANGED <<policy, result, stop, outcome, log>>
    BY <1>5 DEF Release
  <2> QED
    BY <2>2, <2>3, <2>4 DEF NothingEnds, Kept, SamePhase, SameRecord
<1> QED
  BY <1>1, <1>2, <1>3, <1>4, <1>5

(* An execution.  What the worker may still end is open, and what it       *)
(* reserves for has not ended, because it owns it.                         *)
LEMMA ExecutionEffect ==
  ASSUME EInv, NEW w \in Worker, Step(w) \/ Raise(w), ~Release(w)
  PROVE  \/ NothingEnds
         \/ \E r \in Run : \/ Grows(r) \/ Takes(r)
                           \/ \E s \in TerminalStatus : EndsAs(r, s)
<1> USE DEF EInv, IInv
<1>1. PICK r \in Run : r = wk[w].run /\ wk[w].pc \in Active
  BY WorkerFrame DEF RunOfActive
<1>2. CASE UNCHANGED rows
  BY <1>2 DEF rows, NothingEnds, Kept, SamePhase, SameRecord
<1>3. CASE /\ \E name \in Appended : Append1(w, name)
           /\ UNCHANGED <<policy, stop, result, outcome>>
  BY <1>1, <1>3, AppendEffect DEF NothingEnds, Grows
<1>4. CASE Reserve(w)
  <2> DEFINE new == [run[r] EXCEPT !.reservation = "reserved"]
  <2>1. /\ new.nextSeq = run[r].nextSeq /\ new.reservation = "reserved"
        /\ new.status = run[r].status
    BY RowBooks, RowFrame DEF TypeOK
  <2>2. \/ UNCHANGED <<run, policy>>
        \/ /\ ~Lost(w) /\ run[r].reservation = "none" /\ Fits(policy)
           /\ policy' = [policy EXCEPT !.reserved = @ + Budget]
           /\ run' = [run EXCEPT ![r] = new]
    BY <1>1, <1>4 DEF Reserve, AlreadyReserved
  <2> HIDE DEF new
  <2>3. UNCHANGED <<stop, result, outcome, log>>
    BY <1>4 DEF Reserve
  <2>4. CASE UNCHANGED <<run, policy>>
    BY <2>3, <2>4 DEF NothingEnds, Kept, SamePhase, SameRecord
  <2>5. CASE /\ ~Lost(w) /\ run[r].reservation = "none" /\ Fits(policy)
             /\ policy' = [policy EXCEPT !.reserved = @ + Budget]
             /\ run' = [run EXCEPT ![r] = new]
    <3>1. run[r].status \notin TerminalStatus /\ run[r].status # "absent"
      BY <1>1, <1>4, <2>5 DEF Lost, OwnerIsOpen, BusyRunExists, Reserve, Active
    <3>2. Open(r)
      BY <3>1 DEF Open, TypeOK, RunRow, RunStatus
    <3>3. run'[r] = new /\ \A q \in Run \ {r} : run'[q] = run[q]
      BY <2>5 DEF TypeOK
    <3>4. Holds(r) /\ \A q \in Run \ {r} : Kept(q)
      BY <2>1, <2>3, <2>5, <3>2, <3>3 DEF Holds, Kept, SamePhase, SameRecord
    <3> QED
      BY <2>5, <3>4 DEF Takes
  <2> QED
    BY <2>2, <2>4, <2>5
<1>5. CASE PlanCommit(w) \/ ResearchCommit(w)
  BY <1>5 DEF PlanCommit, ResearchCommit, NothingEnds, Kept, SamePhase, SameRecord
<1>6. CASE Final(w)
  <2>1. MayEnd(w) => ~run[r].cancelRequested
    BY <1>1 DEF MayEnd, CancelIsImmediate, TerminalStatus
  <2>2. UNCHANGED rows \/ (MayEnd(w) /\ \E cited \in BOOLEAN : Publish(w, r, cited))
    BY <1>1, <1>6, <2>1 DEF Final
  <2> QED
    BY <1>1, <1>2, <2>2, PublishEnds DEF TerminalStatus
<1>7. CASE Fail(w)
  <2>1. UNCHANGED rows \/ MayEnd(w)
    BY <1>7 DEF Fail
  <2> QED
    BY <1>1, <1>2, <1>7, <2>1, FailEnds DEF TerminalStatus
<1>8. CASE Cancel(w)
  <2>1. UNCHANGED rows \/ MayEnd(w)
    BY <1>8 DEF Cancel
  <2> QED
    BY <1>1, <1>2, <1>8, <2>1, CancelEnds DEF TerminalStatus
<1>9. CASE \/ Enter(w) \/ Search(w) \/ PlanRead(w) \/ WriteAnswer(w) \/ Wait(w)
           \/ Conclude(w) \/ Raise(w) \/ ResearchRead(w) \/ Validate(w) \/ Leave(w)
  <2>1. UNCHANGED rows
    BY <1>9 DEF Enter, Search, PlanRead, WriteAnswer, Wait, Conclude, Raise,
                ResearchRead, Validate, Leave
  <2> QED BY <1>2, <2>1
<1>10. CASE \/ Start(w) \/ Plan(w) \/ Research(w) \/ Verify(w) \/ Wrote(w)
            \/ Delta(w) \/ RecordUsage(w)
  <2>1. /\ \/ UNCHANGED <<run, log>>
           \/ \E name \in {"run-started", "stage-planning", "stage-researching",
                "stage-verifying", "stage-writing", "assistant-delta",
                "model-usage"} : Append1(w, name)
        /\ UNCHANGED <<policy, stop, result, outcome>>
    BY <1>10, Zenon DEF Start, Plan, Research, Verify, Wrote, Delta, RecordUsage
  <2>2. {"run-started", "stage-planning", "stage-researching",
         "stage-verifying", "stage-writing", "assistant-delta",
         "model-usage"} \subseteq Appended
    BY DEF Appended, EventName, Ending
  <2>3. CASE UNCHANGED <<run, log>>
    BY <2>1, <2>3 DEF NothingEnds, Kept, SamePhase, SameRecord
  <2> QED
    BY <1>3, <2>1, <2>2, <2>3
<1> QED
  BY <1>4, <1>5, <1>6, <1>7, <1>8, <1>9, <1>10 DEF Step

(* Every step opens a run, lets one grow, reserves for one, ends one, or   *)
(* changes nothing that the books of the runs tell.                        *)
LEMMA EffectOfStep ==
  ASSUME EInv, Next
  PROVE  \/ NothingEnds
         \/ \E r \in Run : \/ Grows(r) \/ Takes(r)
                           \/ \E s \in TerminalStatus : EndsAs(r, s)
<1> USE DEF EInv, IInv
<1>1. ASSUME NEW r \in Run, Submit(r) PROVE Grows(r)
  BY <1>1, SubmitEffect
<1>2. ASSUME NEW r \in Run, RequestCancel(r)
      PROVE  \E s \in TerminalStatus : EndsAs(r, s)
  BY <1>2, RequestCancelEnds DEF TerminalStatus
<1>3. ASSUME NEW r \in Run, ExpireOrphan(r) \/ Stall(r) PROVE NothingEnds
  BY <1>3, QueueEffect
<1>4. ASSUME NEW w \in Worker,
             \/ \E r \in Run : Claim(w, r)
             \/ HeartbeatRead(w) \/ HeartbeatWrite(w) \/ Crash(w) \/ Release(w)
      PROVE  NothingEnds
  BY <1>4, QueueEffect
<1> QED
  BY <1>1, <1>2, <1>3, <1>4, ExecutionEffect DEF Next

-----------------------------------------------------------------------------
(* The log *)

LEMMA Intervals ==
  /\ \A n \in Nat \ {0}, m \in Nat :
       n < m => (1..(n - 1)) \union (n..(m - 1)) = 1..(m - 1)
  /\ \A n \in Nat : {n} = n..(n + 1 - 1)
<1>1. ASSUME NEW n \in Nat \ {0}, NEW m \in Nat, n < m, NEW j
      PROVE  j \in 1..(m - 1) <=> j \in 1..(n - 1) \/ j \in n..(m - 1)
  BY <1>1
<1>2. ASSUME NEW n \in Nat, NEW j
      PROVE  j \in n..(n + 1 - 1) <=> j = n
  BY <1>2
<1> QED
  BY <1>1, <1>2

(* Events that continue the numbers of a log and repeat no key of it.      *)
LEMMA LogGrows ==
  ASSUME NEW L \in SUBSET Event, NEW B \in SUBSET Event,
         NEW n \in Nat, n # 0, NEW m \in Nat, n < m,
         Sound(L, n), Numbers(B) = n..(m - 1), NoClash(B),
         \A e \in L, f \in B :
           e.name = f.name => e.name \in Unkeyed \/ e.task # f.task
  PROVE  Sound(L \union B, m)
<1>1. \A e \in L : e.seq \in 1..(n - 1)
  BY DEF Sound, Numbers
<1>2. \A f \in B : f.seq \in n..(m - 1)
  BY DEF Numbers
<1>3. \A e \in L, f \in B : e.seq # f.seq
  BY <1>1, <1>2
<1>4. Numbers(L \union B) = Numbers(L) \union Numbers(B)
  BY DEF Numbers
<1>5. Numbers(L \union B) = 1..(m - 1)
  BY <1>4, Intervals DEF Sound
<1>6. NoClash(L \union B)
  <2> SUFFICES ASSUME NEW e \in L \union B, NEW f \in L \union B, e # f
               PROVE  /\ e.seq # f.seq
                      /\ e.name = f.name =>
                           e.name \in Unkeyed \/ e.task # f.task
    BY DEF NoClash
  <2>1. CASE e \in L /\ f \in L
    BY <2>1 DEF Sound, NoClash
  <2>2. CASE e \in B /\ f \in B
    BY <2>2 DEF NoClash
  <2>3. CASE (e \in L /\ f \in B) \/ (e \in B /\ f \in L)
    BY <1>3, <2>3
  <2> QED
    BY <2>1, <2>2, <2>3
<1> QED
  BY <1>5, <1>6 DEF Sound

(* The first events, one appended event, and a batch keep a log sound.     *)
LEMMA LogStep ==
  ASSUME EInv, NEW r \in Run,
         \/ Kept(r) \/ Opens(r) \/ Appends(r) \/ Holds(r)
         \/ \E s \in TerminalStatus : Closes(r, s)
  PROVE  run'[r].nextSeq # 0 /\ Sound(log'[r], run'[r].nextSeq)
<1> USE DEF EInv, IInv
<1>1. /\ log[r] \in SUBSET Event /\ run[r].nextSeq \in Nat
      /\ run[r].nextSeq # 0 /\ Sound(log[r], run[r].nextSeq)
  BY DEF TypeOK, RunRow, LogsAreSound
<1>2. CASE Kept(r) \/ Holds(r)
  BY <1>1, <1>2 DEF Kept, Holds, SameRecord
<1>3. CASE Opens(r)
  <2> DEFINE a == [seq |-> 1, name |-> "run-queued", task |-> Whole]
             b == [seq |-> 2, name |-> "plan-created", task |-> Whole]
  <2>1. a.seq = 1 /\ b.seq = 2 /\ a.name # b.name
    OBVIOUS
  <2>2. log'[r] = {a, b} /\ run'[r].nextSeq = 3
    BY <1>3 DEF Opens
  <2> HIDE DEF a, b
  <2>3. Numbers(log'[r]) = {1, 2}
    BY <2>1, <2>2 DEF Numbers
  <2>4. NoClash(log'[r])
    BY <2>1, <2>2 DEF NoClash
  <2>5. {1, 2} = 1..(3 - 1)
    OBVIOUS
  <2> QED
    BY <2>2, <2>3, <2>4, <2>5 DEF Sound
<1>4. CASE Appends(r)
  <2>1. PICK name \in Appended :
          /\ name \in Unkeyed \/ ~Logged(r, name)
          /\ log'[r] = log[r] \union
               {[seq |-> run[r].nextSeq, name |-> name, task |-> Whole]}
    BY <1>4 DEF Appends
  <2> DEFINE e == [seq |-> run[r].nextSeq, name |-> name, task |-> Whole]
  <2>2. e \in Event /\ e.seq = run[r].nextSeq /\ e.name = name
    BY <1>1 DEF Event, Appended, Whole
  <2>3. log'[r] = log[r] \union {e}
    BY <2>1
  <2> HIDE DEF e
  <2>4. Numbers({e}) = {run[r].nextSeq} /\ NoClash({e})
    BY <2>2 DEF Numbers, NoClash
  <2>5. Numbers({e}) = run[r].nextSeq..(run[r].nextSeq + 1 - 1)
    BY <1>1, <2>4, Intervals
  <2>6. \A x \in log[r], f \in {e} : x.name = f.name => x.name \in Unkeyed
    BY <2>1, <2>2 DEF Logged
  <2>7. Sound(log[r] \union {e}, run[r].nextSeq + 1)
    BY <1>1, <2>2, <2>4, <2>5, <2>6, LogGrows
  <2>8. run'[r].nextSeq = run[r].nextSeq + 1 /\ run[r].nextSeq + 1 # 0
    BY <1>1, <1>4 DEF Appends
  <2> QED
    BY <2>3, <2>7, <2>8
<1>5. ASSUME NEW s \in TerminalStatus, Closes(r, s)
      PROVE  run'[r].nextSeq # 0 /\ Sound(log'[r], run'[r].nextSeq)
  <2>1. PICK tasks \in SUBSET Task, closing \in Closings :
          /\ run'[r].nextSeq = SeqAfter(r, tasks, closing)
          /\ log'[r] = log[r] \union Batch(r, tasks, closing)
          /\ \A e \in log[r] : e.name = "task-terminal" => e.task \notin tasks
    BY <1>5 DEF Closes
  <2>2. PICK B : B = Batch(r, tasks, closing)
    OBVIOUS
  <2>3. /\ B \in SUBSET Event /\ SeqAfter(r, tasks, closing) \in Nat
        /\ run[r].nextSeq < SeqAfter(r, tasks, closing)
        /\ Numbers(B) = run[r].nextSeq..(SeqAfter(r, tasks, closing) - 1)
        /\ NoClash(B)
    BY <2>2, BatchNumbers
  <2>4. \A f \in B :
          \/ f.name = "task-terminal" /\ f.task \in tasks
          \/ f.name \in Ending \union {"assistant-failure"}
    BY <2>2, BatchIs DEF OfTask, OfRun, Ending
  <2>5. NotOver(log[r])
    BY <1>5 DEF Closes, Open, EndsAreLogged, TerminalStatus
  <2>6. \A e \in log[r], f \in B : e.name = f.name => e.task # f.task
    BY <2>1, <2>4, <2>5 DEF NotOver
  <2>7. Sound(log[r] \union B, SeqAfter(r, tasks, closing))
    BY <1>1, <2>3, <2>6, LogGrows
  <2> QED
    BY <1>1, <2>1, <2>2, <2>3, <2>7
<1> QED
  BY <1>2, <1>3, <1>4, <1>5

LEMMA EndStep ==
  ASSUME EInv, NEW r \in Run,
         \/ Kept(r) \/ Opens(r) \/ Appends(r) \/ Holds(r)
         \/ \E s \in TerminalStatus : Closes(r, s)
  PROVE  IF run'[r].status \in TerminalStatus
         THEN Over(log'[r]) ELSE NotOver(log'[r])
<1> USE DEF EInv, IInv
<1>1. IF run[r].status \in TerminalStatus
      THEN Over(log[r]) ELSE NotOver(log[r])
  BY DEF EndsAreLogged
<1>2. CASE Kept(r) \/ Holds(r)
  BY <1>1, <1>2 DEF Kept, Holds, SameRecord, SamePhase, Open, TerminalStatus
<1>3. CASE Opens(r)
  BY <1>3 DEF Opens, NotOver, Ending, TerminalStatus
<1>4. CASE Appends(r)
  BY <1>1, <1>4 DEF Appends, NotOver, Appended
<1>5. ASSUME NEW s \in TerminalStatus, Closes(r, s)
      PROVE  Over(log'[r]) /\ run'[r].status \in TerminalStatus
  <2>1. PICK tasks \in SUBSET Task, closing \in Closings :
          log'[r] = log[r] \union Batch(r, tasks, closing)
    BY <1>5 DEF Closes
  <2>2. PICK B, last : /\ B = Batch(r, tasks, closing)
                       /\ last = OfRun(r, tasks, closing, Len(closing))
    OBVIOUS
  <2>3. /\ Numbers(B) = run[r].nextSeq..(SeqAfter(r, tasks, closing) - 1)
        /\ SeqAfter(r, tasks, closing) \in Nat
        /\ last \in B /\ last.name \in Ending
        /\ \A e \in B : (e.name \in Ending => e = last) /\ e.seq <= last.seq
    BY <2>2, BatchNumbers
  <2>4. NotOver(log[r])
    BY <1>1, <1>5 DEF Closes, Open, TerminalStatus
  <2>5. run[r].nextSeq \in Nat /\ \A e \in log[r] : e.seq \in 1..(run[r].nextSeq - 1)
    BY DEF TypeOK, RunRow, LogsAreSound, Sound, Numbers
  <2>6. last.seq \in run[r].nextSeq..(SeqAfter(r, tasks, closing) - 1)
    BY <2>3 DEF Numbers
  <2>7. \A e \in log[r] : e.seq <= last.seq
    BY <2>3, <2>5, <2>6
  <2> QED
    BY <1>5, <2>1, <2>2, <2>3, <2>4, <2>7 DEF Over, NotOver, Closes
<1> QED
  BY <1>2, <1>3, <1>4, <1>5

(* Each run is in one of five cases. *)
LEMMA EachRun ==
  ASSUME EInv, Next, NEW r \in Run
  PROVE  \/ Kept(r) \/ Opens(r) \/ Appends(r) \/ Holds(r)
         \/ \E s \in TerminalStatus : Closes(r, s)
BY EffectOfStep DEF NothingEnds, Grows, Takes, EndsAs

LEMMA LogsStep ==
  ASSUME EInv, Next
  PROVE  LogsAreSound' /\ EndsAreLogged'
BY EachRun, LogStep, EndStep DEF LogsAreSound, EndsAreLogged

-----------------------------------------------------------------------------
(* Who executes, and what is settled *)

LEMMA BusyRunExistsStep ==
  ASSUME EInv, Next
  PROVE  BusyRunExists'
<1> USE DEF EInv, IInv
<1> SUFFICES ASSUME NEW w \in Worker, wk'[w].pc \in Active
             PROVE  run'[wk'[w].run].status # "absent"
  BY DEF BusyRunExists
<1>1. CASE \E r \in Run : Claim(w, r)
  BY <1>1, LeaseRows, LeaseFrame
<1>2. CASE /\ wk[w].pc \in Active
           /\ wk'[w].run = wk[w].run /\ wk'[w].epoch = wk[w].epoch
  <2>1. PICK r \in Run : r = wk[w].run
    BY <1>2 DEF RunOfActive
  <2>2. run[r].status # "absent"
    BY <1>2, <2>1 DEF BusyRunExists
  <2> QED
    BY <1>2, <2>1, <2>2, StatusStep DEF TerminalStatus
<1> QED
  BY <1>1, <1>2, ExecutionStep

LEMMA OwnerIsOpenStep ==
  ASSUME EInv, Next
  PROVE  OwnerIsOpen'
<1> USE DEF EInv, IInv
<1> SUFFICES ASSUME NEW w \in Worker, wk'[w].pc \in Active \ {"release"},
                    run'[wk'[w].run].owner = w
             PROVE  \/ run'[wk'[w].run].status \notin TerminalStatus
                    \/ run'[wk'[w].run].cancelRequested
  BY DEF OwnerIsOpen
<1>1. CASE \E r \in Run : Claim(w, r)
  BY <1>1, LeaseRows, LeaseFrame DEF TerminalStatus
<1>2. CASE /\ wk[w].pc \in Active /\ ~\E r \in Run : Claim(w, r)
           /\ wk'[w].run = wk[w].run /\ wk'[w].epoch = wk[w].epoch
  <2>1. PICK r \in Run : r = wk[w].run
    BY <1>2 DEF RunOfActive
  <2>2. wk[w].pc # "release"
    <3> SUFFICES ASSUME wk[w].pc = "release" PROVE FALSE
      OBVIOUS
    <3>1. ~(Step(w) \/ Raise(w))
      <4>1. Step(w) \/ Raise(w) => Release(w)
        BY DEF Step, Enter, Start, Search, Plan, PlanRead, PlanCommit, Reserve,
               Research, ResearchRead, ResearchCommit, Verify, WriteAnswer,
               Wrote, Validate, Leave, Wait, Conclude, Delta, RecordUsage,
               Final, Fail, Cancel, Raise
      <4> QED
        BY <4>1, WorkerFrame
    <3>2. ASSUME NEW q \in Run,
                 Submit(q) \/ RequestCancel(q) \/ ExpireOrphan(q) \/ Stall(q)
          PROVE  wk' = wk
      BY <3>2 DEF Submit, RequestCancel, ExpireOrphan, Stall
    <3>3. ASSUME NEW v \in Worker,
                 \/ \E q \in Run : Claim(v, q)
                 \/ HeartbeatRead(v) \/ HeartbeatWrite(v) \/ Crash(v)
          PROVE  wk'[w].pc = wk[w].pc
      BY <1>2, <3>3, LeaseFrame
    <3>4. ASSUME NEW v \in Worker, Step(v) \/ Raise(v)
          PROVE  wk'[w].pc = wk[w].pc
      BY <3>1, <3>4, WorkerFrame
    <3> QED
      BY <3>2, <3>3, <3>4 DEF Next
  <2>3. SUFFICES ASSUME ~run'[r].cancelRequested
                 PROVE  run'[r].status \notin TerminalStatus
    BY <1>2, <2>1
  <2>4. ~RequestCancel(r)
    BY <2>3, QueueFrame
  <2>5. ASSUME NEW v \in Worker, Claim(v, r) PROVE FALSE
    <3>1. v # w
      BY <1>2, <2>5
    <3> QED
      BY <1>2, <2>1, <2>5, <3>1, LeaseRows
  <2>6. SameLease(r)
    BY <1>2, <2>1, <2>4, <2>5, LeaseStep, NobodyIsNoWorker
  <2>7. run[r].status \notin TerminalStatus /\ run[r].owner = w
    BY <1>2, <2>1, <2>2, <2>3, <2>6 DEF OwnerIsOpen, SameLease
  <2>8. ASSUME NEW v \in Worker, Final(v) \/ Fail(v) \/ Cancel(v),
               wk[v].run = r, MayEnd(v)
        PROVE  FALSE
    <3>1. v = w
      BY <2>7, <2>8 DEF MayEnd
    <3> QED
      BY <2>8, <3>1, PcFrame DEF Step
  <2> QED
    BY <2>4, <2>5, <2>7, <2>8, StatusStep DEF TerminalStatus
<1> QED
  BY <1>1, <1>2, ExecutionStep

(* Only the steps that end a run cancel one of its tasks. *)
LEMMA TaskStep ==
  ASSUME EInv, Next, NEW r \in Run, NEW t \in Task,
         run[r].status \notin TerminalStatus, run'[r].status \notin TerminalStatus
  PROVE  task'[r][t] # "cancelled"
<1> USE DEF EInv, IInv
<1>1. task[r][t] # "cancelled" /\ task \in [Run -> [Task -> LiveTask \union FinishedTask]]
  BY DEF OpenIsUnsettled, TypeOK
<1>2. CASE UNCHANGED task
  BY <1>1, <1>2
<1>3. ASSUME NEW q \in Run, Submit(q)
      PROVE  task'[r][t] # "cancelled"
  BY <1>1, <1>3 DEF Submit
<1>4. ASSUME NEW q \in Run, RequestCancel(q)
      PROVE  task'[r][t] # "cancelled"
  <2>1. q # r
    BY <1>4, QueueFrame DEF TerminalStatus
  <2> QED
    BY <1>1, <1>4, <2>1 DEF RequestCancel
<1>5. ASSUME NEW w \in Worker, PlanCommit(w) \/ ResearchCommit(w)
      PROVE  task'[r][t] # "cancelled"
  BY <1>1, <1>5 DEF PlanCommit, ResearchCommit
<1>6. ASSUME NEW w \in Worker, Final(w) \/ Fail(w) \/ Cancel(w)
      PROVE  task'[r][t] # "cancelled"
  <2>1. wk[w].run \in Run
    BY <1>6 DEF Final, Fail, Cancel, Active, RunOfActive
  <2>2. CASE MayEnd(w)
    <3>1. wk[w].run # r
      BY <1>6, <2>1, <2>2, EndsIfMay
    <3>2. \E ts : SettleTasks(w, wk[w].run, ts)
      BY <1>6, <2>2 DEF Final, Fail, Cancel, StopInFinal, Publish
    <3> QED
      BY <1>1, <3>1, <3>2 DEF SettleTasks
  <2>3. CASE ~MayEnd(w)
    BY <1>2, <1>6, <2>3 DEF Final, Fail, Cancel, rows
  <2> QED
    BY <2>2, <2>3
<1>7. ASSUME NEW q \in Run, ExpireOrphan(q) \/ Stall(q)
      PROVE  UNCHANGED task
  BY <1>7 DEF ExpireOrphan, Stall
<1>8. ASSUME NEW w \in Worker,
             \/ \E q \in Run : Claim(w, q)
             \/ HeartbeatRead(w) \/ HeartbeatWrite(w) \/ Crash(w) \/ Raise(w)
             \/ Release(w)
      PROVE  UNCHANGED task
  BY <1>8 DEF Claim, HeartbeatRead, HeartbeatWrite, Crash, Raise, Release, rows
<1>9. ASSUME NEW w \in Worker,
             \/ Enter(w) \/ Search(w) \/ PlanRead(w) \/ WriteAnswer(w) \/ Wait(w)
             \/ Conclude(w) \/ ResearchRead(w) \/ Validate(w) \/ Leave(w)
             \/ Start(w) \/ Plan(w) \/ Research(w) \/ Verify(w) \/ Wrote(w)
             \/ Delta(w) \/ RecordUsage(w) \/ Reserve(w)
      PROVE  UNCHANGED task
  BY <1>9, Zenon DEF Enter, Search, PlanRead, WriteAnswer, Wait, Conclude,
     ResearchRead, Validate, Leave, Start, Plan, Research, Verify, Wrote, Delta,
     RecordUsage, Reserve, rows
<1> QED
  BY <1>2, <1>3, <1>4, <1>5, <1>6, <1>7, <1>8, <1>9 DEF Next, Step

LEMMA OpenIsUnsettledStep ==
  ASSUME EInv, Next
  PROVE  OpenIsUnsettled'
<1> USE DEF EInv, IInv
<1> SUFFICES ASSUME NEW r \in Run, run'[r].status \notin TerminalStatus
             PROVE  /\ stop'[r] = "none"
                    /\ ~result'[r].answered /\ ~result'[r].record
                    /\ \A t \in Task :
                         outcome'[r][t] = "none" /\ task'[r][t] # "cancelled"
  BY DEF OpenIsUnsettled
<1>1. /\ run[r].status \notin TerminalStatus
      /\ result'[r] = result[r] /\ stop'[r] = stop[r] /\ outcome'[r] = outcome[r]
  BY EachRun DEF Kept, SamePhase, Opens, Appends, Holds, Closes, Open,
                 TerminalStatus, SameRecord
<1>2. \A t \in Task : task'[r][t] # "cancelled"
  BY <1>1, TaskStep
<1> QED
  BY <1>1, <1>2 DEF OpenIsUnsettled

(* The tables agree about the ending when it is written, and nothing of it *)
(* changes later.                                                          *)
LEMMA SettledAgreesStep ==
  ASSUME EInv, Next
  PROVE  SettledAgrees'
<1> USE DEF EInv, IInv
<1> DEFINE Agrees(r) ==
             /\ stop[r] = IF run[r].status \notin TerminalStatus THEN "none"
                          ELSE RouteOf(run[r].status)
             /\ result[r].answered <=> run[r].status \in {"completed", "partial"}
             /\ run[r].status = "completed" =>
                  /\ result[r].record
                  /\ \A t \in Task : outcome[r][t] = "completed"
             /\ run[r].status \in TerminalStatus => run[r].reservation # "reserved"
             /\ run[r].status \in {"completed", "partial", "failed"} =>
                  \A t \in Task :
                    /\ outcome[r][t] # "none"
                    /\ \E e \in log[r] : e.name = "task-terminal" /\ e.task = t
<1>1. SettledAgrees <=> \A r \in Run : Agrees(r)
  BY DEF SettledAgrees, EndingsAgree, OutcomesComplete, RouteOf
<1>2. SettledAgrees' <=> \A r \in Run : Agrees(r)'
  BY DEF SettledAgrees, EndingsAgree, OutcomesComplete, RouteOf
<1>3. SUFFICES ASSUME NEW r \in Run PROVE Agrees(r)'
  BY <1>2
<1>4. Agrees(r)
  BY <1>1
<1>5. CASE Kept(r)
  BY <1>4, <1>5 DEF Kept, SamePhase, SameRecord, Open, TerminalStatus
<1>6. CASE Opens(r) \/ Appends(r) \/ Holds(r)
  BY <1>4, <1>6 DEF Opens, Appends, Holds, SameRecord, Open, TerminalStatus
<1>7. ASSUME NEW s \in TerminalStatus, Closes(r, s)
      PROVE  Agrees(r)'
  <2>1. /\ run'[r].status = s /\ run'[r].reservation # "reserved"
        /\ stop'[r] = RouteOf(s)
        /\ result'[r].answered <=> s \in {"completed", "partial"}
        /\ s = "completed" => result'[r].record
    BY <1>7 DEF Closes
  <2>2. PICK tasks \in SUBSET Task, closing \in Closings :
          /\ log'[r] = log[r] \union Batch(r, tasks, closing)
          /\ s # "cancelled" =>
               \A t \in Task :
                 /\ outcome'[r][t] \in FinishedTask
                 /\ s = "completed" => outcome'[r][t] = "completed"
                 /\ t \in tasks \/ \E e \in log[r] :
                                     e.name = "task-terminal" /\ e.task = t
    BY <1>7 DEF Closes
  <2>3. \A t \in tasks : \E e \in Batch(r, tasks, closing) :
          e.name = "task-terminal" /\ e.task = t
    <3>1. \A t \in tasks : /\ OfTask(r, tasks, t) \in Batch(r, tasks, closing)
                           /\ OfTask(r, tasks, t).name = "task-terminal"
                           /\ OfTask(r, tasks, t).task = t
      BY BatchIs DEF OfTask
    <3> QED
      BY <3>1
  <2>4. s # "cancelled" =>
          \A t \in Task :
            /\ outcome'[r][t] # "none"
            /\ s = "completed" => outcome'[r][t] = "completed"
            /\ \E e \in log'[r] : e.name = "task-terminal" /\ e.task = t
    BY <2>2, <2>3 DEF FinishedTask
  <2> QED
    BY <2>1, <2>4
<1> QED
  BY <1>5, <1>6, <1>7, EachRun

LEMMA EndingInit == Init => EInv
<1> SUFFICES ASSUME Init PROVE EInv
  OBVIOUS
<1>1. IInv
  BY FencingInit
<1>2. \A r \in Run : /\ run[r].status = "absent" /\ run[r].nextSeq = 1
                     /\ run[r].reservation = "none"
                     /\ log[r] = {} /\ stop[r] = "none"
                     /\ ~result[r].answered /\ ~result[r].record
                     /\ \A t \in Task : outcome[r][t] = "none" /\ task[r][t] = "pending"
  BY DEF Init
<1>3. \A w \in Worker : wk[w].pc = "idle"
  BY DEF Init, IdleWorker
<1>4. Sound({}, 1)
  BY DEF Sound, Numbers, NoClash
<1>5. LogsAreSound
  <2>1. \A r \in Run : log[r] = {} /\ run[r].nextSeq = 1
    BY <1>2
  <2>2. \A r \in Run : Sound(log[r], run[r].nextSeq)
    BY <1>4, <2>1, Zenon
  <2>3. \A r \in Run : run[r].nextSeq # 0
    BY <2>1
  <2> QED
    BY <2>2, <2>3, Zenon DEF LogsAreSound
<1>8. EndsAreLogged
  <2>1. NotOver({})
    BY DEF NotOver
  <2>2. "absent" \notin TerminalStatus
    BY DEF TerminalStatus
  <2>3. \A r \in Run : run[r].status \notin TerminalStatus /\ NotOver(log[r])
    BY <1>2, <2>1, <2>2
  <2> QED
    BY <2>3 DEF EndsAreLogged
<1>6. BusyRunExists /\ OwnerIsOpen
  BY <1>3 DEF BusyRunExists, OwnerIsOpen, Active
<1>7. OpenIsUnsettled /\ SettledAgrees
  BY <1>2 DEF OpenIsUnsettled, SettledAgrees, EndingsAgree, OutcomesComplete,
              TerminalStatus
<1> QED
  BY <1>1, <1>5, <1>6, <1>7, <1>8 DEF EInv

LEMMA EndingStep == EInv /\ [Next]_vars => EInv'
<1> SUFFICES ASSUME EInv, [Next]_vars PROVE EInv'
  OBVIOUS
<1>1. IInv'
  BY FencingStep DEF EInv
<1>2. CASE Next
  BY <1>1, <1>2, LogsStep, BusyRunExistsStep, OwnerIsOpenStep,
     OpenIsUnsettledStep, SettledAgreesStep DEF EInv
<1>3. CASE UNCHANGED vars
  <2>1. UNCHANGED <<run, task, outcome, log, stop, result, wk>>
    BY <1>3 DEF vars
  <2>2. LogsAreSound' /\ EndsAreLogged'
    BY <2>1 DEF EInv, LogsAreSound, EndsAreLogged
  <2>3. BusyRunExists' /\ OwnerIsOpen'
    BY <2>1 DEF EInv, BusyRunExists, OwnerIsOpen
  <2>4. OpenIsUnsettled'
    BY <2>1 DEF EInv, OpenIsUnsettled
  <2>5. SettledAgrees'
    BY <2>1 DEF EInv, SettledAgrees, EndingsAgree, OutcomesComplete
  <2> QED
    BY <1>1, <2>2, <2>3, <2>4, <2>5 DEF EInv
<1> QED
  BY <1>2, <1>3

LEMMA AlwaysEInv == Spec => []EInv
BY EndingInit, EndingStep, PTL DEF Spec

(* A client that follows the log of a run by sequence number reads all of  *)
(* it, each event once, and its ending last: whatever workers append, and  *)
(* however the run ends (event_log.py, coordinator.py, cancel_run).        *)
THEOREM LogIsSound == Spec => []LogSound
<1>1. EInv => LogSound
  <2> SUFFICES ASSUME EInv, NEW r \in Run
               PROVE  /\ LET endings == {e \in log[r] : e.name \in Ending} IN
                         IF run[r].status \in TerminalStatus
                         THEN \E e \in endings : /\ endings = {e}
                                                /\ \A x \in log[r] : x.seq <= e.seq
                         ELSE endings = {}
                      /\ {e.seq : e \in log[r]} = 1..(run[r].nextSeq - 1)
                      /\ NoClash(log[r])
    BY DEF LogSound, TerminalEventLast, LogWellFormed, NoClash
  <2>1. Sound(log[r], run[r].nextSeq)
    BY DEF EInv, LogsAreSound
  <2>2. IF run[r].status \in TerminalStatus THEN Over(log[r]) ELSE NotOver(log[r])
    BY DEF EInv, EndsAreLogged
  <2> DEFINE endings == {e \in log[r] : e.name \in Ending}
  <2>3. ASSUME Over(log[r])
        PROVE  \E e \in endings : /\ endings = {e}
                                  /\ \A x \in log[r] : x.seq <= e.seq
    <3>1. PICK e \in log[r] : /\ e.name \in Ending
                              /\ \A x \in log[r] : x.name \in Ending => x = e
                              /\ \A x \in log[r] : x.seq <= e.seq
      BY <2>3 DEF Over
    <3>2. endings = {e}
      BY <3>1
    <3> QED
      BY <3>1, <3>2
  <2>4. NotOver(log[r]) => endings = {}
    BY DEF NotOver
  <2> QED
    BY <2>1, <2>2, <2>3, <2>4 DEF Sound, Numbers
<1> QED
  BY <1>1, AlwaysEInv, PTL

(* A run that its executor ended has an outcome and an announcement for    *)
(* every task (_finish_runtime_v2 and _fail of coordinator.py).            *)
THEOREM OutcomesAreComplete == Spec => []OutcomesComplete
<1>1. EInv => OutcomesComplete
  BY DEF EInv, SettledAgrees
<1> QED
  BY <1>1, AlwaysEInv, PTL

(* The tables an ended run left its ending in agree.  *)
THEOREM EndingsDoAgree == Spec => []EndingsAgree
<1>1. EInv => EndingsAgree
  BY DEF EInv, SettledAgrees
<1> QED
  BY <1>1, AlwaysEInv, PTL

-----------------------------------------------------------------------------
(* The quota *)

LEMMA Shares ==
  ASSUME NEW b \in Nat, NEW c \in Nat
  PROVE  /\ b * c \in Nat
         /\ b * (c + 1) = b * c + b
         /\ b * 0 = 0
OBVIOUS

(* One more run holds a reservation, or one fewer does.                    *)
LEMMA HoldersChange ==
  /\ IsFiniteSet(Holders) /\ Cardinality(Holders) \in Nat
  /\ \A r \in Run : Holders' = Holders \union {r} /\ r \notin Holders
       => Cardinality(Holders)' = Cardinality(Holders) + 1
  /\ \A r \in Run : Holders' = Holders \ {r} /\ r \in Holders
       => /\ Cardinality(Holders)' \in Nat
          /\ Cardinality(Holders) = Cardinality(Holders)' + 1
<1>1. IsFiniteSet(Holders) /\ Cardinality(Holders) \in Nat
  BY RunIsFinite, FS_Subset, FS_CardinalityType DEF Holders
<1>2. ASSUME NEW r \in Run, Holders' = Holders \union {r}, r \notin Holders
      PROVE  Cardinality(Holders)' = Cardinality(Holders) + 1
  BY <1>1, <1>2, FS_AddElement
<1>3. ASSUME NEW r \in Run, Holders' = Holders \ {r}, r \in Holders
      PROVE  /\ Cardinality(Holders)' \in Nat
             /\ Cardinality(Holders) = Cardinality(Holders)' + 1
  <2>1. /\ IsFiniteSet(Holders \ {r})
        /\ Cardinality(Holders \ {r}) = Cardinality(Holders) - 1
    BY <1>1, <1>3, FS_RemoveElement
  <2>2. Cardinality(Holders \ {r}) \in Nat
    BY <2>1, FS_CardinalityType
  <2> QED
    BY <1>1, <1>3, <2>1, <2>2
<1> QED
  BY <1>1, <1>2, <1>3

(* Giving back what one holder reserved is exact: max(0, _) hides nothing. *)
LEMMA GivingBack ==
  ASSUME policy \in [used: Nat, reserved: Nat], NEW c \in Nat,
         policy.reserved = Budget * (c + 1), NEW tokens \in {0, Usage}
  PROVE  /\ Less(policy).reserved = Budget * c
         /\ Less(policy).used = policy.used
         /\ [Less(policy) EXCEPT !.used = @ + tokens].reserved = Budget * c
         /\ [Less(policy) EXCEPT !.used = @ + tokens].used = policy.used + tokens
<1>1. PICK p \in [used: Nat, reserved: Nat] : p = policy
  OBVIOUS
<1>2. /\ Budget * c \in Nat /\ Budget \in Nat /\ tokens \in Nat
      /\ p.reserved = Budget * c + Budget
  BY <1>1, Shares, CountsAreNatural
<1> DEFINE k == Budget * c
<1> HIDE DEF k
<1>3. k \in Nat /\ p.reserved = k + Budget
  BY <1>2 DEF k
<1>4. PICK q \in [used: Nat, reserved: Nat] :
         /\ q = Less(policy) /\ q.used = p.used /\ q.reserved = k
  <2>1. Less(policy) = [p EXCEPT !.reserved = IF p.reserved > Budget
                                              THEN p.reserved - Budget ELSE 0]
    BY <1>1 DEF Less
  <2>2. k = IF p.reserved > Budget THEN p.reserved - Budget ELSE 0
    BY <1>2, <1>3
  <2> QED
    BY <1>3, <2>1, <2>2
<1>5. /\ [q EXCEPT !.used = @ + tokens].reserved = k
      /\ [q EXCEPT !.used = @ + tokens].used = p.used + tokens
  BY <1>2, <1>4
<1> QED
  BY <1>1, <1>4, <1>5 DEF k

LEMMA QuotaStep ==
  ASSUME EInv, QuotaSound, Next
  PROVE  QuotaSound'
<1> USE DEF EInv, IInv, QuotaSound
<1> DEFINE c == Cardinality(Holders)
<1>1. /\ policy \in [used: Nat, reserved: Nat] /\ c \in Nat
      /\ policy.reserved = Budget * c
      /\ Usage <= Budget => policy.used + policy.reserved <= Limit
  BY HoldersChange DEF TypeOK, QuotaBalanced, QuotaRespected
<1>2. PICK p \in [used: Nat, reserved: Nat] : p = policy
  BY <1>1
<1>3. CASE /\ \A q \in Run : run'[q].reservation = run[q].reservation
           /\ policy' = policy
  <2>1. Holders' = Holders
    BY <1>3 DEF Holders
  <2> QED
    BY <1>1, <1>3, <2>1 DEF QuotaBalanced, QuotaRespected
<1>4. ASSUME NEW r \in Run, Takes(r)
      PROVE  QuotaSound'
  <2>1. Holders' = Holders \union {r} /\ r \notin Holders
    BY <1>4 DEF Takes, Holds, Kept, Holders
  <2>2. Cardinality(Holders)' = c + 1
    BY <2>1, HoldersChange
  <2>3. /\ policy' = [p EXCEPT !.reserved = p.reserved + Budget]
        /\ p.used + p.reserved + Budget <= Limit
    BY <1>2, <1>4 DEF Takes, Fits
  <2>4. policy'.reserved = p.reserved + Budget /\ policy'.used = p.used
    BY <2>3
  <2>5. Budget * (c + 1) = Budget * c + Budget
    BY <1>1, CountsAreNatural, Shares
  <2>6. policy'.used + policy'.reserved <= Limit
    BY <2>3, <2>4, CountsAreNatural
  <2> QED
    BY <1>1, <1>2, <2>2, <2>4, <2>5, <2>6 DEF QuotaBalanced, QuotaRespected
<1>5. ASSUME NEW r \in Run, NEW s \in TerminalStatus, EndsAs(r, s)
      PROVE  QuotaSound'
  <2>1. /\ run'[r].reservation # "reserved"
        /\ \A q \in Run \ {r} : run'[q].reservation = run[q].reservation
    BY <1>5 DEF EndsAs, Closes, Kept
  <2>2. CASE run[r].reservation # "reserved"
    <3>1. policy' = policy /\ Holders' = Holders
      BY <1>5, <2>1, <2>2 DEF EndsAs, ReleaseQuota, Settle, Holders
    <3> QED
      BY <1>1, <3>1 DEF QuotaBalanced, QuotaRespected
  <2>3. CASE run[r].reservation = "reserved"
    <3>1. Holders' = Holders \ {r} /\ r \in Holders
      BY <2>1, <2>3 DEF Holders
    <3> DEFINE d == Cardinality(Holders)'
    <3>2. d \in Nat /\ c = d + 1
      BY <3>1, HoldersChange
    <3> HIDE DEF c, d
    <3>3. PICK tokens \in {0, Usage} :
            \/ policy' = Less(policy)
            \/ policy' = [Less(policy) EXCEPT !.used = @ + tokens]
      BY <1>5, <2>3 DEF EndsAs, ReleaseQuota, Settle
    <3>4. /\ policy'.reserved = Budget * d
          /\ policy'.used \in {p.used, p.used + tokens}
      BY <1>1, <1>2, <3>2, <3>3, GivingBack
    <3>5. Budget * d \in Nat /\ Budget * c = Budget * d + Budget
      BY <3>2, CountsAreNatural, Shares
    <3>6. Usage <= Budget => policy'.used + policy'.reserved <= Limit
      BY <1>1, <1>2, <3>4, <3>5, CountsAreNatural
    <3> QED
      BY <3>4, <3>6 DEF QuotaBalanced, QuotaRespected, d
  <2> QED
    BY <2>2, <2>3
<1> QED
  BY <1>3, <1>4, <1>5, EffectOfStep
     DEF NothingEnds, Grows, Opens, Appends, Kept

(* The books of a workspace are right and inside its limit: its reserved   *)
(* tokens are exactly those of the runs that hold a reservation, however   *)
(* many reserve, end, crash or are stopped (quota.py, coordinator.py).     *)
THEOREM QuotaIsSound == Spec => []QuotaSound
<1>1. Init => QuotaSound
  <2> SUFFICES ASSUME Init PROVE QuotaSound
    OBVIOUS
  <2>1. Holders = {} /\ policy.reserved = 0 /\ policy.used = 0
    BY DEF Init, Holders
  <2>2. Cardinality(Holders) = 0
    BY <2>1, FS_EmptySet
  <2> QED
    BY <2>1, <2>2, Shares, CountsAreNatural
       DEF QuotaSound, QuotaBalanced, QuotaRespected
<1>2. EInv /\ QuotaSound /\ [Next]_vars => QuotaSound'
  <2>1. UNCHANGED vars => UNCHANGED <<run, policy>>
    BY DEF vars
  <2>2. QuotaSound /\ UNCHANGED <<run, policy>> => QuotaSound'
    BY DEF QuotaSound, QuotaBalanced, QuotaRespected, Holders
  <2> QED
    BY <2>1, <2>2, QuotaStep
<1> QED
  BY <1>1, <1>2, AlwaysEInv, PTL DEF Spec

-----------------------------------------------------------------------------
(* The refinement of RunContract *)

Phase == [r \in Run |-> IF Open(r) THEN "open" ELSE run[r].status]
Held == [r \in Run |-> run[r].reservation = "reserved"]
Answered == [r \in Run |-> result[r].answered]

Stays(r) == /\ Phase'[r] = Phase[r] /\ Held'[r] = Held[r]
            /\ Answered'[r] = Answered[r]

(* What a step does to a run is what the contract's actions do to it.      *)
LEMMA PromiseOfRun ==
  ASSUME EInv, TypeOK', NEW r \in Run
  PROVE  /\ Kept(r) \/ Appends(r) => Stays(r)
         /\ Opens(r) => /\ Phase[r] = "absent" /\ Phase'[r] = "open"
                        /\ Held'[r] = Held[r] /\ Answered'[r] = Answered[r]
         /\ Holds(r) => /\ Phase[r] = "open" /\ Phase'[r] = "open"
                        /\ ~Held[r] /\ Held'[r] = TRUE
                        /\ Answered'[r] = Answered[r]
         /\ \A s \in TerminalStatus : Closes(r, s) =>
              /\ Phase[r] = "open" /\ Phase'[r] = s /\ Held'[r] = FALSE
              /\ s \in {"completed", "partial"} => Answered'[r] = TRUE
              /\ s \notin {"completed", "partial"} => Answered'[r] = Answered[r]
<1> USE DEF EInv, IInv
<1>1. /\ Phase[r] = IF Open(r) THEN "open" ELSE run[r].status
      /\ Phase'[r] = IF Open(r)' THEN "open" ELSE run'[r].status
      /\ Held[r] = (run[r].reservation = "reserved")
      /\ Held'[r] = (run'[r].reservation = "reserved")
      /\ Answered[r] = result[r].answered
      /\ Answered'[r] = result'[r].answered
  BY DEF Phase, Held, Answered
<1>2. Kept(r) => Stays(r)
  BY <1>1 DEF Kept, SamePhase, SameRecord, Stays, Open
<1>3. Appends(r) => Stays(r)
  BY <1>1 DEF Appends, Stays, Open
<1>4. Opens(r) => /\ Phase[r] = "absent" /\ Phase'[r] = "open"
                  /\ Held'[r] = Held[r] /\ Answered'[r] = Answered[r]
  BY <1>1 DEF Opens, Open
<1>5. Holds(r) => /\ Phase[r] = "open" /\ Phase'[r] = "open"
                  /\ ~Held[r] /\ Held'[r] = TRUE
                  /\ Answered'[r] = Answered[r]
  BY <1>1 DEF Holds, Open, SameRecord
<1>6. ASSUME NEW s \in TerminalStatus, Closes(r, s)
      PROVE  /\ Phase[r] = "open" /\ Phase'[r] = s /\ Held'[r] = FALSE
             /\ s \in {"completed", "partial"} => Answered'[r] = TRUE
             /\ s \notin {"completed", "partial"} => Answered'[r] = Answered[r]
  <2>1. Phase[r] = "open" /\ Phase'[r] = s
    BY <1>1, <1>6 DEF Closes, Open, TerminalStatus
  <2>2. Held'[r] = FALSE
    BY <1>1, <1>6 DEF Closes
  <2>3. s \in {"completed", "partial"} => result'[r].answered
    BY <1>6 DEF Closes
  <2>4. result'[r].answered \in BOOLEAN
    BY DEF TypeOK
  <2>5. s \notin {"completed", "partial"} => Answered'[r] = Answered[r]
    BY <1>1, <1>6 DEF Closes
  <2> QED
    BY <1>1, <2>1, <2>2, <2>3, <2>4, <2>5
<1> QED
  BY <1>2, <1>3, <1>4, <1>5, <1>6

(* The contract's variables, as its INSTANCE substitutes them.             *)
LEMMA ContractVars ==
  /\ Contract!ContractInit <=> /\ Phase = [r \in Run |-> "absent"]
                               /\ Held = [r \in Run |-> FALSE]
                               /\ Answered = [r \in Run |-> FALSE]
  /\ Contract!contractVars = <<Phase, Held, Answered>>
  /\ Contract!contractVars' = <<Phase, Held, Answered>>'
  /\ \A r \in Run :
       /\ Contract!Open(r) <=>
            /\ Phase[r] = "absent" /\ Phase' = [Phase EXCEPT ![r] = "open"]
            /\ UNCHANGED <<Held, Answered>>
       /\ Contract!Hold(r) <=>
            /\ Phase[r] = "open" /\ ~Held[r]
            /\ Held' = [Held EXCEPT ![r] = TRUE]
            /\ UNCHANGED <<Phase, Answered>>
       /\ Contract!Conclude(r) <=>
            /\ Phase[r] = "open"
            /\ \E s \in {"completed", "partial"} : Phase' = [Phase EXCEPT ![r] = s]
            /\ Answered' = [Answered EXCEPT ![r] = TRUE]
            /\ Held' = [Held EXCEPT ![r] = FALSE]
       /\ Contract!Abort(r) <=>
            /\ Phase[r] = "open"
            /\ \E s \in {"failed", "cancelled"} : Phase' = [Phase EXCEPT ![r] = s]
            /\ Held' = [Held EXCEPT ![r] = FALSE]
            /\ UNCHANGED Answered
BY DEF Contract!ContractInit, Contract!contractVars, Contract!Open,
       Contract!Hold, Contract!Conclude, Contract!Abort,
       Phase, Held, Answered, Open

LEMMA ContractStep ==
  ASSUME EInv, [Next]_vars
  PROVE  [Contract!ContractNext]_(Contract!contractVars)
<1> USE DEF EInv, IInv
<1>1. TypeOK'
  BY EndingStep
<1>2. /\ Phase \in [Run -> {Phase[r] : r \in Run}]
      /\ DOMAIN Phase = Run /\ DOMAIN Phase' = Run
      /\ DOMAIN Held = Run /\ DOMAIN Held' = Run
      /\ DOMAIN Answered = Run /\ DOMAIN Answered' = Run
  BY DEF Phase, Held, Answered
<1>3. CASE \A q \in Run : Stays(q)
  <2>1. Phase' = Phase /\ Held' = Held /\ Answered' = Answered
    BY <1>3 DEF Stays, Phase, Held, Answered
  <2> QED
    BY <2>1, ContractVars
<1>4. ASSUME NEW r \in Run, \A q \in Run \ {r} : Stays(q), NEW s, NEW h, NEW a,
             Phase'[r] = s, Held'[r] = h, Answered'[r] = a
      PROVE  /\ Phase' = [Phase EXCEPT ![r] = s]
             /\ Held' = [Held EXCEPT ![r] = h]
             /\ Answered' = [Answered EXCEPT ![r] = a]
             /\ s = Phase[r] => Phase' = Phase
             /\ h = Held[r] => Held' = Held
             /\ a = Answered[r] => Answered' = Answered
  <2>1. \A q \in Run \ {r} : /\ Phase'[q] = Phase[q] /\ Held'[q] = Held[q]
                             /\ Answered'[q] = Answered[q]
    BY <1>4 DEF Stays, Phase, Held, Answered
  <2>2. Phase' = [Phase EXCEPT ![r] = s]
    BY <1>4, <2>1 DEF Phase
  <2>3. Held' = [Held EXCEPT ![r] = h]
    BY <1>4, <2>1 DEF Held
  <2>4. Answered' = [Answered EXCEPT ![r] = a]
    BY <1>4, <2>1 DEF Answered
  <2>5. s = Phase[r] => Phase' = Phase
    BY <1>4, <2>1 DEF Phase
  <2>6. h = Held[r] => Held' = Held
    BY <1>4, <2>1 DEF Held
  <2>7. a = Answered[r] => Answered' = Answered
    BY <1>4, <2>1 DEF Answered
  <2> QED
    BY <2>2, <2>3, <2>4, <2>5, <2>6, <2>7
<1>5. UNCHANGED vars => \A q \in Run : Stays(q)
  BY DEF vars, Stays, Phase, Held, Answered, Open
<1>6. NothingEnds => \A q \in Run : Stays(q)
  BY <1>1, PromiseOfRun DEF NothingEnds
<1>7. ASSUME NEW r \in Run, \A q \in Run \ {r} : Kept(q)
      PROVE  \A q \in Run \ {r} : Stays(q)
  BY <1>1, <1>7, PromiseOfRun
<1>8. ASSUME NEW r \in Run, Grows(r)
      PROVE  (\A q \in Run : Stays(q)) \/ Contract!Open(r)
  <2>1. \A q \in Run \ {r} : Stays(q)
    BY <1>7, <1>8 DEF Grows
  <2>2. CASE Appends(r)
    BY <1>1, <2>1, <2>2, PromiseOfRun
  <2>3. CASE Opens(r)
    <3>1. /\ Phase[r] = "absent" /\ Phase'[r] = "open"
          /\ Held'[r] = Held[r] /\ Answered'[r] = Answered[r]
      BY <1>1, <2>3, PromiseOfRun
    <3> QED
      BY <1>4, <2>1, <3>1, ContractVars
  <2> QED
    BY <1>8, <2>2, <2>3 DEF Grows
<1>9. ASSUME NEW r \in Run, Takes(r)
      PROVE  Contract!Hold(r)
  <2>1. \A q \in Run \ {r} : Stays(q)
    BY <1>7, <1>9 DEF Takes
  <2>2. /\ Phase[r] = "open" /\ Phase'[r] = "open"
        /\ ~Held[r] /\ Held'[r] = TRUE /\ Answered'[r] = Answered[r]
    BY <1>1, <1>9, PromiseOfRun DEF Takes
  <2> QED
    BY <1>4, <2>1, <2>2, ContractVars
<1>10. ASSUME NEW r \in Run, NEW s \in TerminalStatus, EndsAs(r, s)
       PROVE  Contract!Conclude(r) \/ Contract!Abort(r)
  <2>1. \A q \in Run \ {r} : Stays(q)
    BY <1>7, <1>10 DEF EndsAs
  <2>2. /\ Phase[r] = "open" /\ Phase'[r] = s /\ Held'[r] = FALSE
        /\ s \in {"completed", "partial"} => Answered'[r] = TRUE
        /\ s \notin {"completed", "partial"} => Answered'[r] = Answered[r]
    BY <1>1, <1>10, PromiseOfRun DEF EndsAs
  <2>3. CASE s \in {"completed", "partial"}
    BY <1>4, <2>1, <2>2, <2>3, ContractVars
  <2>4. CASE s \in {"failed", "cancelled"}
    BY <1>4, <2>1, <2>2, <2>4, ContractVars
  <2> QED
    BY <2>3, <2>4 DEF TerminalStatus
<1>11. CASE Next
  <2>1. \/ \A q \in Run : Stays(q)
        \/ \E r \in Run : \/ Contract!Open(r) \/ Contract!Hold(r)
                          \/ Contract!Conclude(r) \/ Contract!Abort(r)
    BY <1>6, <1>8, <1>9, <1>10, <1>11, EffectOfStep
  <2> QED
    BY <1>3, <2>1 DEF Contract!ContractNext
<1> QED
  BY <1>3, <1>5, <1>11

(* Whatever workers, leases and checkpoints do, a run behaves as RunContract *)
(* promises: it opens once, ends once, and gives its reservation back in   *)
(* the very transaction that ends it.                                      *)
THEOREM ContractImplemented == Spec => ImplementsContract
<1>1. Init => Contract!ContractInit
  <2> SUFFICES ASSUME Init PROVE Contract!ContractInit
    OBVIOUS
  <2>1. \A r \in Run : /\ run[r].status = "absent" /\ run[r].reservation = "none"
                       /\ result[r].answered = FALSE
    BY DEF Init
  <2> QED
    BY <2>1, ContractVars DEF Phase, Held, Answered, Open
<1>2. EInv /\ [Next]_vars => [Contract!ContractNext]_(Contract!contractVars)
  BY ContractStep
<1> QED
  BY <1>1, <1>2, AlwaysEInv, PTL DEF Spec, ImplementsContract, Contract!ContractSafety

-----------------------------------------------------------------------------
(* Why a run fails, and on what verification its record is promoted *)

(* Where a first execution may be once it recorded a failed research task. *)
Late == {"verify", "write", "wrote", "validate", "leave", "wait", "conclude",
         "delta", "usage", "final", "cancel", "fail", "release"}

(* Where it has seen the verifier's answer, and where the writer's. *)
Verified == {"write", "wrote", "validate", "leave", "wait", "conclude",
             "delta", "usage", "final"}
Answering == {"leave", "wait", "conclude"}

(* What the first execution of a run sees: the graph from its start, its   *)
(* own claim of the first task, every update, and a failure only with its  *)
(* cause.                                                                  *)
SeesAll(w, r) ==
  /\ wk[w].pc \in {"enter", "start", "search"} => ckpt[r].stage = 0
  /\ wk[w].pc = "planCommit" => wk[w].seen = lead[r].epoch
  /\ wk[w].pc \in {"researchRead", "researchCommit"} => wk[w].findings = "failed"
  /\ wk[w].pc \in Verified => "verification" \in wk[w].got
  /\ wk[w].pc \in Answering => "answer" \in wk[w].got
  /\ wk[w].pc = "fail" => r \in faulted
  /\ run[r].status \notin TerminalStatus /\ task[r][First] = "failed" =>
       wk[w].pc \in Late /\ wk[w].findings = "failed"

FirstTrySeesAll ==
  \A w \in Worker, r \in Run :
    Executing(w, r) /\ run[r].attempt = 1 => SeesAll(w, r)

EpochsStart == \A w \in Worker : wk[w].pc \in Active => wk[w].epoch # 0

(* A run nobody claimed has no checkpoint and no failed task. *)
Untried ==
  \A r \in Run : run[r].attempt = 0 =>
    ckpt[r].stage = 0 /\ task[r][First] # "failed"

Caused == FailureHasCause /\ RecordIsVerified

CInv ==
  /\ EInv
  /\ EpochsStart /\ Untried /\ FirstTrySeesAll
  /\ Caused

(* What a worker's next state keeps of its last one. *)
LEMMA GotoFields ==
  ASSUME wk \in [Worker -> WorkerState], NEW w \in Worker
  PROVE  /\ \A pc : Goto(w, pc) =>
              /\ wk'[w].pc = pc /\ wk'[w].got = wk[w].got
              /\ wk'[w].findings = wk[w].findings
         /\ \A e : GotoFail(w, e) =>
              wk'[w].pc = "fail" /\ wk'[w].findings = wk[w].findings
         /\ \A pc, u : GotoHaving(w, pc, u) =>
              /\ wk'[w].pc = pc /\ wk'[w].got = wk[w].got \union {u}
              /\ wk'[w].findings = wk[w].findings
<1>1. PICK s \in WorkerState : s = wk[w]
  OBVIOUS
<1>2. ASSUME NEW x, wk' = [wk EXCEPT ![w] = x] PROVE wk'[w] = x
  BY <1>2
<1>3. /\ \A pc : LET n == [s EXCEPT !.pc = pc] IN
           n.pc = pc /\ n.got = s.got /\ n.findings = s.findings
      /\ \A e : LET n == [s EXCEPT !.pc = "fail", !.err = e] IN
           n.pc = "fail" /\ n.findings = s.findings
      /\ \A pc, u : LET n == [s EXCEPT !.pc = pc, !.got = u] IN
           n.pc = pc /\ n.got = u /\ n.findings = s.findings
  BY DEF WorkerState
<1>4. ASSUME NEW pc, Goto(w, pc)
      PROVE  /\ wk'[w].pc = pc /\ wk'[w].got = wk[w].got
             /\ wk'[w].findings = wk[w].findings
  <2>1. wk' = [wk EXCEPT ![w] = [s EXCEPT !.pc = pc]]
    BY <1>1, <1>4 DEF Goto
  <2> QED BY <1>1, <1>2, <1>3, <2>1
<1>5. ASSUME NEW e, GotoFail(w, e)
      PROVE  wk'[w].pc = "fail" /\ wk'[w].findings = wk[w].findings
  <2>1. wk' = [wk EXCEPT ![w] = [s EXCEPT !.pc = "fail", !.err = e]]
    BY <1>1, <1>5 DEF GotoFail
  <2> QED BY <1>1, <1>2, <1>3, <2>1
<1>6. ASSUME NEW pc, NEW u, GotoHaving(w, pc, u)
      PROVE  /\ wk'[w].pc = pc /\ wk'[w].got = wk[w].got \union {u}
             /\ wk'[w].findings = wk[w].findings
  <2>1. wk' = [wk EXCEPT ![w] = [s EXCEPT !.pc = pc, !.got = s.got \union {u}]]
    BY <1>1, <1>6 DEF GotoHaving
  <2> QED BY <1>1, <1>2, <1>3, <2>1
<1> QED
  BY <1>4, <1>5, <1>6

(* An execution touches the tasks, the claims and the checkpoint of its    *)
(* own run only, and no step forgets a fault.                              *)
LEMMA OwnTables ==
  ASSUME TypeOK, RunOfActive, NEW w \in Worker, Step(w) \/ Raise(w)
  PROVE  /\ \A q \in Run \ {wk[w].run} :
              /\ task'[q] = task[q] /\ lead'[q] = lead[q] /\ ckpt'[q] = ckpt[q]
         /\ faulted \subseteq faulted'
<1>1. wk[w].run \in Run
  BY WorkerFrame DEF RunOfActive
<1>2. PICK r \in Run : r = wk[w].run
  BY <1>1
<1> DEFINE Own == \A q \in Run \ {r} :
                    /\ task'[q] = task[q] /\ lead'[q] = lead[q]
                    /\ ckpt'[q] = ckpt[q]
<1>3. /\ UNCHANGED task \/ \E x : task' = [task EXCEPT ![r] = x]
      /\ UNCHANGED lead \/ \E x : lead' = [lead EXCEPT ![r] = x]
      /\ UNCHANGED ckpt \/ \E x : ckpt' = [ckpt EXCEPT ![r] = x]
      => Own
  BY DEF TypeOK
<1> HIDE DEF Own
<1>4. CASE \/ Enter(w) \/ Search(w) \/ PlanRead(w) \/ WriteAnswer(w) \/ Wait(w)
           \/ Conclude(w) \/ Raise(w)
  <2>1. UNCHANGED <<task, lead, ckpt>> /\ faulted \subseteq faulted'
    BY <1>4, Zenon DEF Enter, Search, PlanRead, WriteAnswer, Wait, Conclude,
                       Raise, rows, env
  <2> QED BY <1>2, <1>3, <2>1 DEF Own
<1>5. CASE Start(w) \/ Plan(w) \/ Delta(w) \/ RecordUsage(w) \/ Release(w)
  <2>1. UNCHANGED <<task, lead, ckpt>> /\ faulted \subseteq faulted'
    BY <1>5, Zenon DEF Start, Plan, Delta, RecordUsage, Release, env
  <2> QED BY <1>2, <1>3, <2>1 DEF Own
<1>6. CASE Reserve(w)
  <2>1. UNCHANGED <<task, lead>> /\ faulted \subseteq faulted'
    BY <1>6 DEF Reserve
  <2>2. UNCHANGED ckpt \/ \E x : ckpt' = [ckpt EXCEPT ![r] = x]
    BY <1>2, <1>6 DEF Reserve, Put
  <2> QED BY <1>2, <1>3, <2>1, <2>2 DEF Own
<1>7. CASE \/ Research(w) \/ ResearchRead(w) \/ Verify(w) \/ Wrote(w)
           \/ Validate(w) \/ Leave(w)
  <2>1. UNCHANGED <<task, lead>> /\ faulted \subseteq faulted'
    BY <1>7, Zenon DEF Research, ResearchRead, Verify, Wrote, Validate, Leave,
                       rows, env
  <2>2. UNCHANGED ckpt \/ \E x : ckpt' = [ckpt EXCEPT ![r] = x]
    BY <1>2, <1>7 DEF Research, ResearchRead, Verify, Wrote, Validate, Leave, Put
  <2> QED BY <1>2, <1>3, <2>1, <2>2 DEF Own
<1>8. CASE PlanCommit(w)
  <2>1. UNCHANGED ckpt /\ faulted \subseteq faulted'
    BY <1>8 DEF PlanCommit, env
  <2>2. \A q \in Run \ {r} : task'[q] = task[q] /\ lead'[q] = lead[q]
    BY <1>2, <1>8 DEF PlanCommit, TypeOK
  <2> QED BY <1>2, <2>1, <2>2
<1>9. CASE ResearchCommit(w)
  <2>1. UNCHANGED lead /\ faulted \subseteq faulted'
    BY <1>9 DEF ResearchCommit, env
  <2>2. UNCHANGED ckpt \/ \E x : ckpt' = [ckpt EXCEPT ![r] = x]
    BY <1>2, <1>9 DEF ResearchCommit, Put
  <2>3. \A q \in Run \ {r} : task'[q] = task[q] /\ ckpt'[q] = ckpt[q]
    BY <1>2, <1>9, <2>2 DEF ResearchCommit, TypeOK
  <2> QED BY <1>2, <2>1, <2>3
<1>10. CASE Final(w) \/ Fail(w) \/ Cancel(w)
  <2>1. UNCHANGED ckpt /\ faulted \subseteq faulted'
    BY <1>10 DEF Final, Fail, Cancel, env
  <2>2. UNCHANGED <<task, lead>> \/ \E ts : SettleTasks(w, r, ts)
    BY <1>2, <1>10 DEF Final, Fail, Cancel, StopInFinal, Publish, rows
  <2>3. UNCHANGED task \/ \E x : task' = [task EXCEPT ![r] = x]
    BY <2>2 DEF SettleTasks
  <2>4. UNCHANGED lead \/ \E x : lead' = [lead EXCEPT ![r] = x]
    BY <2>2 DEF SettleTasks
  <2> QED BY <1>2, <1>3, <2>1, <2>3, <2>4 DEF Own
<1> QED
  BY <1>4, <1>5, <1>6, <1>7, <1>8, <1>9, <1>10 DEF Step

(* The API and the queue fail no task and touch no claim or checkpoint.    *)
LEMMA QueueTables ==
  ASSUME TypeOK
  PROVE  /\ \A q \in Run : Submit(q) \/ RequestCancel(q) =>
              /\ UNCHANGED <<lead, ckpt, faulted, wk>>
              /\ \A r \in Run : task'[r][First] = "failed" =>
                                  task[r][First] = "failed"
         /\ \A q \in Run : ExpireOrphan(q) \/ Stall(q) =>
              UNCHANGED <<task, lead, ckpt, faulted, wk>>
         /\ \A w \in Worker :
              \/ \E q \in Run : Claim(w, q)
              \/ HeartbeatRead(w) \/ HeartbeatWrite(w) \/ Crash(w)
              => UNCHANGED <<task, lead, ckpt, faulted>>
<1>1. ASSUME NEW q \in Run, Submit(q)
      PROVE  /\ UNCHANGED <<lead, ckpt, faulted, wk>>
             /\ \A r \in Run : task'[r][First] = "failed" => task[r][First] = "failed"
  <2>1. First \in Task
    BY CountsAreNatural DEF First, Task
  <2> QED
    BY <1>1, <2>1 DEF Submit, TypeOK
<1>2. ASSUME NEW q \in Run, RequestCancel(q)
      PROVE  /\ UNCHANGED <<lead, ckpt, faulted, wk>>
             /\ \A r \in Run : task'[r][First] = "failed" => task[r][First] = "failed"
  <2>1. First \in Task
    BY CountsAreNatural DEF First, Task
  <2> QED
    BY <1>2, <2>1 DEF RequestCancel, env, TypeOK
<1>3. ASSUME NEW q \in Run, ExpireOrphan(q) \/ Stall(q)
      PROVE  UNCHANGED <<task, lead, ckpt, faulted, wk>>
  BY <1>3 DEF ExpireOrphan, Stall, env
<1>4. ASSUME NEW w \in Worker,
             \/ \E q \in Run : Claim(w, q)
             \/ HeartbeatRead(w) \/ HeartbeatWrite(w) \/ Crash(w)
      PROVE  UNCHANGED <<task, lead, ckpt, faulted>>
  BY <1>4 DEF Claim, HeartbeatRead, HeartbeatWrite, Crash, rows, env
<1> QED
  BY <1>1, <1>2, <1>3, <1>4

LEMMA BeatFields ==
  ASSUME wk \in [Worker -> WorkerState], NEW w \in Worker,
         HeartbeatRead(w) \/ HeartbeatWrite(w)
  PROVE  \A v \in Worker :
           /\ wk'[v].pc = wk[v].pc /\ wk'[v].run = wk[v].run
           /\ wk'[v].got = wk[v].got /\ wk'[v].findings = wk[v].findings
           /\ wk'[v].seen = wk[v].seen
<1>1. PICK s \in WorkerState : s = wk[w]
  OBVIOUS
<1>2. PICK b \in BOOLEAN : wk' = [wk EXCEPT ![w] = [s EXCEPT !.beat = b]]
  BY <1>1 DEF HeartbeatRead, HeartbeatWrite
<1>3. /\ [s EXCEPT !.beat = b].pc = s.pc /\ [s EXCEPT !.beat = b].run = s.run
      /\ [s EXCEPT !.beat = b].got = s.got
      /\ [s EXCEPT !.beat = b].findings = s.findings
      /\ [s EXCEPT !.beat = b].seen = s.seen
  BY DEF WorkerState
<1>4. wk'[w] = [s EXCEPT !.beat = b] /\ \A v \in Worker \ {w} : wk'[v] = wk[v]
  BY <1>2
<1> QED
  BY <1>1, <1>3, <1>4

(* A first execution that has seen all sees all after its next step. *)
LEMMA SeesAllWork ==
  ASSUME EInv, NEW w \in Worker, NEW r \in Run, r = wk[w].run,
         Step(w) \/ Raise(w), ~Release(w), SeesAll(w, r),
         run'[r].status \notin TerminalStatus =>
           run[r].status \notin TerminalStatus
  PROVE  SeesAll(w, r)'
<1> USE DEF EInv, IInv
<1> DEFINE Bad == run[r].status \notin TerminalStatus /\ task[r][First] = "failed"
<1>1. wk \in [Worker -> WorkerState] /\ First \in Task
  BY CountsAreNatural DEF TypeOK, First, Task
<1>2. Bad' = (run'[r].status \notin TerminalStatus /\ task'[r][First] = "failed")
  OBVIOUS
<1>3. UNCHANGED task => (Bad' => Bad)
  OBVIOUS
<1>4. Bad => wk[w].pc \in Late /\ wk[w].findings = "failed"
  BY DEF SeesAll
<1> HIDE DEF Bad
<1>5. SeesAll(w, r)' <=>
        /\ wk'[w].pc \in {"enter", "start", "search"} => ckpt'[r].stage = 0
        /\ wk'[w].pc = "planCommit" => wk'[w].seen = lead'[r].epoch
        /\ wk'[w].pc \in {"researchRead", "researchCommit"} => wk'[w].findings = "failed"
        /\ wk'[w].pc \in Verified => "verification" \in wk'[w].got
        /\ wk'[w].pc \in Answering => "answer" \in wk'[w].got
        /\ wk'[w].pc = "fail" => r \in faulted'
        /\ Bad' => wk'[w].pc \in Late /\ wk'[w].findings = "failed"
  BY DEF SeesAll, Bad
<1>6. SeesAll(w, r) <=>
        /\ wk[w].pc \in {"enter", "start", "search"} => ckpt[r].stage = 0
        /\ wk[w].pc = "planCommit" => wk[w].seen = lead[r].epoch
        /\ wk[w].pc \in {"researchRead", "researchCommit"} => wk[w].findings = "failed"
        /\ wk[w].pc \in Verified => "verification" \in wk[w].got
        /\ wk[w].pc \in Answering => "answer" \in wk[w].got
        /\ wk[w].pc = "fail" => r \in faulted
        /\ Bad => wk[w].pc \in Late /\ wk[w].findings = "failed"
  BY DEF SeesAll, Bad
(* Before the research task can fail. *)
<1>7. CASE Enter(w)
  <2>1. /\ wk[w].pc = "enter" /\ UNCHANGED <<task, ckpt>>
        /\ Goto(w, "start") \/ Goto(w, "release")
    BY <1>7 DEF Enter, rows
  <2>2. wk'[w].pc \in {"start", "release"} /\ ~Bad'
    BY <1>1, <1>3, <1>4, <2>1, GotoFields DEF Late
  <2> QED
    BY <1>5, <1>6, <2>1, <2>2 DEF Verified, Answering
<1>8. CASE Start(w)
  <2>1. /\ wk[w].pc = "start" /\ UNCHANGED <<task, ckpt>> /\ Goto(w, "search")
    BY <1>8 DEF Start
  <2>2. wk'[w].pc = "search" /\ ~Bad'
    BY <1>1, <1>3, <1>4, <2>1, GotoFields DEF Late
  <2> QED
    BY <1>5, <1>6, <2>1, <2>2 DEF Verified, Answering
<1>9. CASE Search(w)
  <2>1. wk[w].pc = "search" /\ UNCHANGED task /\ ckpt[r].stage = 0
    BY <1>6, <1>9 DEF Search, rows
  <2>2. GraphStep[ckpt[r].stage + 1] = "planner"
    BY <2>1 DEF GraphStep
  <2>3. PICK s \in WorkerState : \E f :
          /\ s = wk[w]
          /\ wk' = [wk EXCEPT ![w] = [s EXCEPT !.pc = "planner", !.findings = f]]
    BY <1>1, <1>9, <2>2 DEF Search
  <2>4. wk'[w].pc = "planner"
    <3>1. \A f : [s EXCEPT !.pc = "planner", !.findings = f].pc = "planner"
      BY DEF WorkerState
    <3> QED BY <1>1, <2>3, <3>1
  <2>5. ~Bad'
    BY <1>3, <1>4, <2>1 DEF Late
  <2> QED
    BY <1>5, <2>4, <2>5 DEF Verified, Answering
<1>10. CASE Plan(w)
  <2>1. wk[w].pc = "planner" /\ UNCHANGED task /\ Goto(w, "planRead")
    BY <1>10 DEF Plan
  <2>2. wk'[w].pc = "planRead" /\ ~Bad'
    BY <1>1, <1>3, <1>4, <2>1, GotoFields DEF Late
  <2> QED
    BY <1>5, <2>2 DEF Verified, Answering
<1>11. CASE PlanRead(w)
  <2>1. PICK s \in WorkerState : s = wk[w]
    BY <1>1
  <2>2. wk[w].pc = "planRead" /\ UNCHANGED <<task, lead>>
    BY <1>11 DEF PlanRead, rows
  <2>3. ~Bad'
    BY <1>3, <1>4, <2>2 DEF Late
  <2>4. CASE Goto(w, "reserve")
    <3>1. wk'[w].pc = "reserve"
      BY <1>1, <2>4, GotoFields
    <3> QED
      BY <1>5, <2>3, <3>1 DEF Verified, Answering
  <2>5. CASE wk' = [wk EXCEPT ![w] = [s EXCEPT !.pc = "planCommit",
                                               !.seen = lead[r].epoch]]
    <3>1. LET n == [s EXCEPT !.pc = "planCommit", !.seen = lead[r].epoch]
          IN  n.pc = "planCommit" /\ n.seen = lead[r].epoch
      BY DEF WorkerState
    <3>2. wk'[w].pc = "planCommit" /\ wk'[w].seen = lead[r].epoch
      BY <1>1, <2>5, <3>1
    <3> QED
      BY <1>5, <2>2, <2>3, <3>2 DEF Verified, Answering
  <2> QED
    BY <1>11, <2>1, <2>4, <2>5 DEF PlanRead
<1>12. CASE PlanCommit(w)
  <2>1. wk[w].pc = "planCommit" /\ lead[r].epoch = wk[w].seen
    BY <1>6, <1>12 DEF PlanCommit
  <2>2. task' = [task EXCEPT ![r][First] = "running"] /\ Goto(w, "reserve")
    BY <1>12, <2>1 DEF PlanCommit
  <2>3. task'[r][First] = "running"
    BY <1>1, <2>2 DEF TypeOK
  <2>4. wk'[w].pc = "reserve" /\ ~Bad'
    BY <1>1, <1>2, <2>2, <2>3, GotoFields
  <2> QED
    BY <1>5, <2>4 DEF Verified, Answering
<1>13. CASE Reserve(w)
  <2>1. /\ wk[w].pc = "reserve" /\ UNCHANGED task
        /\ \/ Goto(w, "cancel") \/ Goto(w, "research")
           \/ GotoFail(w, "budget") /\ r \in faulted'
    BY <1>13 DEF Reserve
  <2>2. /\ wk'[w].pc \in {"cancel", "research", "fail"} /\ ~Bad'
        /\ wk'[w].pc = "fail" => r \in faulted'
    BY <1>1, <1>3, <1>4, <2>1, GotoFields DEF Late
  <2> QED
    BY <1>5, <2>2 DEF Verified, Answering
(* The research, and whether it failed. *)
<1>14. CASE Research(w)
  <2>1. PICK s \in WorkerState, f \in {"ok", "failed"} :
          /\ s = wk[w]
          /\ wk' = [wk EXCEPT ![w] = [s EXCEPT !.findings = f,
                      !.pc = IF f = "failed" THEN "researchRead" ELSE "verify"]]
    BY <1>1, <1>14 DEF Research
  <2>2. LET n == [s EXCEPT !.findings = f,
                    !.pc = IF f = "failed" THEN "researchRead" ELSE "verify"]
        IN  /\ n.findings = f
            /\ n.pc = IF f = "failed" THEN "researchRead" ELSE "verify"
    BY DEF WorkerState
  <2>3. /\ wk'[w].findings = f
        /\ wk'[w].pc = IF f = "failed" THEN "researchRead" ELSE "verify"
    BY <1>1, <2>1, <2>2
  <2>4. wk[w].pc = "research" /\ UNCHANGED task
    BY <1>14 DEF Research
  <2>5. ~Bad'
    BY <1>3, <1>4, <2>4 DEF Late
  <2> QED
    BY <1>5, <2>3, <2>5 DEF Verified, Answering
<1>15. CASE ResearchRead(w)
  <2>1. /\ wk[w].pc = "researchRead" /\ UNCHANGED task
        /\ Goto(w, "verify") \/ Goto(w, "researchCommit")
    BY <1>15 DEF ResearchRead, rows
  <2>2. /\ wk'[w].pc \in {"verify", "researchCommit"}
        /\ wk'[w].findings = "failed" /\ ~Bad'
    BY <1>1, <1>3, <1>4, <1>6, <2>1, GotoFields DEF Late
  <2> QED
    BY <1>5, <2>2 DEF Verified, Answering
<1>16. CASE ResearchCommit(w)
  <2>1. wk[w].pc = "researchCommit" /\ Goto(w, "verify")
    BY <1>16 DEF ResearchCommit
  <2>2. wk'[w].pc = "verify" /\ wk'[w].findings = "failed"
    BY <1>1, <1>6, <2>1, GotoFields
  <2> QED
    BY <1>5, <2>2 DEF Verified, Answering, Late
(* After it. *)
<1>17. CASE Verify(w) \/ Validate(w)
  <2>1. /\ UNCHANGED task
        /\ \/ wk[w].pc = "verify" /\ GotoHaving(w, "write", "verification")
           \/ wk[w].pc = "validate" /\ GotoHaving(w, "leave", "answer")
    BY <1>17 DEF Verify, Validate, rows
  <2>2. /\ wk'[w].findings = wk[w].findings
        /\ \/ wk'[w].pc = "write" /\ "verification" \in wk'[w].got
           \/ /\ wk'[w].pc = "leave" /\ "answer" \in wk'[w].got
              /\ "verification" \in wk'[w].got
    BY <1>1, <1>6, <2>1, GotoFields DEF Verified
  <2> QED
    BY <1>3, <1>4, <1>5, <2>1, <2>2 DEF Verified, Answering, Late
<1>18. CASE WriteAnswer(w)
  <2>1. /\ wk[w].pc = "write" /\ UNCHANGED task
        /\ Goto(w, "cancel") \/ GotoHaving(w, "wrote", "usage")
    BY <1>18 DEF WriteAnswer, rows
  <2>2. /\ wk'[w].findings = wk[w].findings /\ "verification" \in wk'[w].got
        /\ wk'[w].pc \in {"cancel", "wrote"}
    BY <1>1, <1>6, <2>1, GotoFields DEF Verified
  <2> QED
    BY <1>3, <1>4, <1>5, <2>1, <2>2 DEF Verified, Answering, Late
<1>19. CASE Wrote(w) \/ Leave(w) \/ Wait(w) \/ Delta(w) \/ RecordUsage(w)
  <2>1. /\ UNCHANGED task
        /\ \/ wk[w].pc = "wrote" /\ Goto(w, "validate")
           \/ wk[w].pc = "leave" /\ Goto(w, "wait")
           \/ wk[w].pc = "wait" /\ (Goto(w, "cancel") \/ Goto(w, "conclude"))
           \/ wk[w].pc = "delta" /\ Goto(w, "usage")
           \/ wk[w].pc = "usage" /\ Goto(w, "final")
    BY <1>19, Zenon DEF Wrote, Leave, Wait, Delta, RecordUsage, rows
  <2>2. wk'[w].findings = wk[w].findings /\ wk'[w].got = wk[w].got
    BY <1>1, <2>1, GotoFields
  <2>3. \/ wk[w].pc = "wrote" /\ wk'[w].pc = "validate"
        \/ wk[w].pc = "leave" /\ wk'[w].pc = "wait"
        \/ wk[w].pc = "wait" /\ wk'[w].pc \in {"cancel", "conclude"}
        \/ wk[w].pc = "delta" /\ wk'[w].pc = "usage"
        \/ wk[w].pc = "usage" /\ wk'[w].pc = "final"
    BY <1>1, <2>1, GotoFields
  <2> QED
    BY <1>3, <1>4, <1>5, <1>6, <2>1, <2>2, <2>3 DEF Verified, Answering, Late
<1>20. CASE Conclude(w)
  <2>1. /\ wk[w].pc = "conclude" /\ UNCHANGED task /\ "answer" \in wk[w].got
        /\ Goto(w, "cancel") \/ Goto(w, "delta")
    BY <1>6, <1>20 DEF Conclude, rows, Answering
  <2>2. /\ wk'[w].findings = wk[w].findings /\ wk'[w].got = wk[w].got
        /\ wk'[w].pc \in {"cancel", "delta"}
    BY <1>1, <2>1, GotoFields
  <2> QED
    BY <1>3, <1>4, <1>5, <1>6, <2>1, <2>2 DEF Verified, Answering, Late
<1>21. CASE Raise(w)
  <2>1. /\ wk[w].pc \in {"search", "write", "validate", "final"}
        /\ UNCHANGED task /\ r \in faulted' /\ \E e : GotoFail(w, e)
    BY <1>21 DEF Raise, rows
  <2>2. wk'[w].findings = wk[w].findings /\ wk'[w].pc = "fail"
    BY <1>1, <2>1, GotoFields
  <2> QED
    BY <1>3, <1>4, <1>5, <2>1, <2>2 DEF Verified, Answering, Late
<1>22. CASE Final(w) \/ Fail(w) \/ Cancel(w)
  <2>1. wk[w].pc \in {"final", "fail", "cancel"} /\ Goto(w, "release")
    BY <1>22 DEF Final, Fail, Cancel
  <2>2. wk'[w].findings = wk[w].findings /\ wk'[w].pc = "release"
    BY <1>1, <2>1, GotoFields
  <2>3. CASE MayEnd(w)
    <3>1. ~Bad'
      BY <1>2, <1>22, <2>3, EndsIfMay
    <3> QED
      BY <1>5, <2>2, <3>1 DEF Verified, Answering
  <2>4. CASE ~MayEnd(w)
    <3>1. UNCHANGED task
      BY <1>22, <2>4 DEF Final, Fail, Cancel, rows
    <3> QED
      BY <1>3, <1>4, <1>5, <2>2, <3>1 DEF Verified, Answering, Late
  <2> QED
    BY <2>3, <2>4
<1> QED
  BY <1>7, <1>8, <1>9, <1>10, <1>11, <1>12, <1>13, <1>14, <1>15, <1>16, <1>17,
     <1>18, <1>19, <1>20, <1>21, <1>22 DEF Step

(* Nobody executes a run that was not claimed, one worker at most one that *)
(* was claimed once.                                                       *)
LEMMA SoleExecution ==
  ASSUME EInv, EpochsStart, NEW r \in Run, NEW w \in Worker, Executing(w, r)
  PROVE  /\ run[r].attempt \in Nat /\ run[r].attempt # 0
         /\ run[r].attempt = 1 =>
              \A v \in Worker : Executing(v, r) => v = w
<1> USE DEF EInv, IInv
<1>1. run[r].attempt \in Nat /\ \A v \in Worker : wk[v].epoch \in Nat
  BY DEF TypeOK, RunRow, WorkerState
<1>2. \A v \in Worker : Executing(v, r) =>
        wk[v].epoch # 0 /\ wk[v].epoch <= run[r].attempt
  BY DEF EpochsStart, Fenced, Executing
<1>3. ASSUME run[r].attempt = 1, NEW v \in Worker, Executing(v, r), v # w
      PROVE  FALSE
  <2>1. wk[v].epoch = 1 /\ wk[w].epoch = 1
    BY <1>1, <1>2, <1>3
  <2> QED
    BY <1>3, <2>1 DEF Fenced
<1> QED
  BY <1>1, <1>2, <1>3

LEMMA EpochsStartStep ==
  ASSUME EInv, EpochsStart, Next
  PROVE  EpochsStart'
<1> USE DEF EInv, IInv
<1> SUFFICES ASSUME NEW w \in Worker, wk'[w].pc \in Active
             PROVE  wk'[w].epoch # 0
  BY DEF EpochsStart
<1>1. CASE \E r \in Run : Claim(w, r)
  <2>1. PICK r \in Run : Claim(w, r)
    BY <1>1
  <2>2. wk'[w].epoch = run[r].attempt + 1 /\ run[r].attempt \in Nat
    BY <2>1, LeaseFrame DEF NextAttempt, TypeOK, RunRow
  <2> QED
    BY <2>2
<1>2. CASE wk[w].pc \in Active /\ wk'[w].epoch = wk[w].epoch
  BY <1>2 DEF EpochsStart
<1> QED
  BY <1>1, <1>2, ExecutionStep

(* How often a run was claimed never decreases, and grows by a claim only. *)
LEMMA AttemptStep ==
  ASSUME EInv, Next, NEW r \in Run
  PROVE  /\ run[r].attempt \in Nat
         /\ \/ run'[r].attempt = run[r].attempt
            \/ /\ run'[r].attempt = run[r].attempt + 1
               /\ \E w \in Worker : Claim(w, r)
<1> USE DEF EInv, IInv
<1>1. run[r].attempt \in Nat
  BY DEF TypeOK, RunRow
<1>2. \A w \in Worker : Claim(w, r) => run'[r].attempt = run[r].attempt + 1
  BY LeaseRows
<1> QED
  BY <1>1, <1>2, LeaseStep DEF SameLease

LEMMA UntriedStep ==
  ASSUME EInv, EpochsStart, Untried, Next
  PROVE  Untried'
<1> USE DEF EInv, IInv
<1> SUFFICES ASSUME NEW r \in Run, run'[r].attempt = 0
             PROVE  ckpt'[r].stage = 0 /\ task'[r][First] # "failed"
  BY DEF Untried
<1>1. run[r].attempt = 0
  BY AttemptStep
<1>2. /\ ckpt[r].stage = 0 /\ task[r][First] # "failed"
      /\ \A w \in Worker : ~Executing(w, r)
  BY <1>1, SoleExecution DEF Untried
<1>3. ASSUME NEW q \in Run, Submit(q) \/ RequestCancel(q)
      PROVE  ckpt'[r].stage = 0 /\ task'[r][First] # "failed"
  BY <1>2, <1>3, QueueTables
<1>4. ASSUME UNCHANGED <<task, ckpt>>
      PROVE  ckpt'[r].stage = 0 /\ task'[r][First] # "failed"
  BY <1>2, <1>4
<1>5. ASSUME NEW w \in Worker, Step(w) \/ Raise(w)
      PROVE  ckpt'[r].stage = 0 /\ task'[r][First] # "failed"
  <2>1. wk[w].run # r
    BY <1>2, <1>5, WorkerFrame DEF Executing
  <2> QED
    BY <1>2, <1>5, <2>1, OwnTables
<1>6. ASSUME NEW q \in Run, ExpireOrphan(q) \/ Stall(q)
      PROVE  UNCHANGED <<task, ckpt>>
  BY <1>6, QueueTables
<1>7. ASSUME NEW w \in Worker,
             \/ \E q \in Run : Claim(w, q)
             \/ HeartbeatRead(w) \/ HeartbeatWrite(w) \/ Crash(w)
      PROVE  UNCHANGED <<task, ckpt>>
  BY <1>7, QueueTables
<1> QED
  BY <1>3, <1>4, <1>5, <1>6, <1>7 DEF Next

(* What the others do takes nothing from what an execution has seen. *)
LEMMA SeesAllFrame ==
  ASSUME NEW w \in Worker, NEW r \in Run, SeesAll(w, r),
         wk'[w].pc = wk[w].pc, wk'[w].got = wk[w].got,
         wk'[w].findings = wk[w].findings, wk'[w].seen = wk[w].seen,
         lead'[r] = lead[r], ckpt'[r] = ckpt[r], faulted \subseteq faulted',
         task'[r][First] = "failed" => task[r][First] = "failed",
         run'[r].status \notin TerminalStatus =>
           run[r].status \notin TerminalStatus
  PROVE  SeesAll(w, r)'
BY DEF SeesAll

LEMMA FirstTryStep ==
  ASSUME EInv, EpochsStart, Untried, FirstTrySeesAll, Next
  PROVE  FirstTrySeesAll'
<1> USE DEF EInv, IInv
<1> SUFFICES ASSUME NEW w \in Worker, NEW r \in Run, wk'[w].pc \in Active,
                    wk'[w].run = r, run'[r].attempt = 1
             PROVE  SeesAll(w, r)'
  BY DEF FirstTrySeesAll, Executing
<1>1. run'[r].status \notin TerminalStatus => run[r].status \notin TerminalStatus
  BY EachRun DEF Kept, SamePhase, Open, Opens, Appends, Holds, Closes, TerminalStatus
<1>2. CASE \E q \in Run : Claim(w, q)
  <2>1. Claim(w, r)
    BY <1>2, LeaseFrame
  <2>2. run[r].attempt = 0
    <3>1. run'[r].attempt = run[r].attempt + 1
      BY <2>1, LeaseRows
    <3> QED
      BY <3>1, AttemptStep
  <2>3. /\ ckpt[r].stage = 0 /\ task[r][First] # "failed"
        /\ UNCHANGED <<task, ckpt>>
    BY <2>1, <2>2, QueueTables DEF Untried
  <2>4. wk'[w].pc = "enter"
    BY <2>1, LeaseFrame
  <2> QED
    BY <2>3, <2>4 DEF SeesAll, Verified, Answering
<1>3. CASE ~\E q \in Run : Claim(w, q)
  <2>1. wk[w].pc \in Active /\ wk[w].run = r
    BY <1>3, ExecutionStep
  <2>2. Executing(w, r) /\ run[r].attempt # 0
    BY <2>1, SoleExecution DEF Executing
  <2>3. run[r].attempt = 1
    <3>1. ASSUME NEW v \in Worker, Claim(v, r) PROVE run[r].attempt = 0
      <4>1. run'[r].attempt = run[r].attempt + 1
        BY <3>1, LeaseRows
      <4> QED
        BY <4>1, AttemptStep
    <3> QED
      BY <2>2, <3>1, AttemptStep
  <2>4. SeesAll(w, r) /\ \A v \in Worker \ {w} : ~Executing(v, r)
    BY <2>2, <2>3, SoleExecution DEF FirstTrySeesAll
  <2>5. ASSUME NEW q \in Run, Submit(q) \/ RequestCancel(q)
        PROVE  SeesAll(w, r)'
    BY <1>1, <2>4, <2>5, QueueTables, SeesAllFrame
  <2>6. ASSUME NEW q \in Run, ExpireOrphan(q) \/ Stall(q)
        PROVE  SeesAll(w, r)'
    BY <1>1, <2>4, <2>6, QueueTables, SeesAllFrame
  <2>7. ASSUME NEW v \in Worker, HeartbeatRead(v) \/ HeartbeatWrite(v)
        PROVE  SeesAll(w, r)'
    <3>1. wk \in [Worker -> WorkerState]
      BY DEF TypeOK
    <3> QED
      BY <1>1, <2>4, <2>7, <3>1, QueueTables, BeatFields, SeesAllFrame
  <2>8. ASSUME NEW v \in Worker, Crash(v) \/ \E q \in Run : Claim(v, q)
        PROVE  SeesAll(w, r)'
    <3>1. v # w
      BY <1>3, <2>8, LeaseFrame
    <3>2. wk'[w] = wk[w]
      BY <2>8, <3>1, LeaseFrame
    <3> QED
      BY <1>1, <2>4, <2>8, <3>2, QueueTables, SeesAllFrame
  <2>9. ASSUME NEW v \in Worker, Step(v) \/ Raise(v), v # w
        PROVE  SeesAll(w, r)'
    <3>1. wk[v].run # r /\ wk'[w] = wk[w]
      BY <2>4, <2>9, WorkerFrame DEF Executing
    <3> QED
      BY <1>1, <2>4, <2>9, <3>1, OwnTables, SeesAllFrame
  <2>10. ASSUME Step(w) \/ Raise(w)
         PROVE  SeesAll(w, r)'
    <3>1. ~Release(w)
      BY <2>10, WorkerFrame
    <3> QED
      BY <1>1, <2>1, <2>4, <2>10, <3>1, SeesAllWork
  <2> QED
    BY <2>5, <2>6, <2>7, <2>8, <2>9, <2>10 DEF Next
<1> QED
  BY <1>2, <1>3

(* A first execution that publishes a record has no failed task. *)
LEMMA PublishIsVerified ==
  ASSUME EInv, NEW w \in Worker, NEW r \in Run, r = wk[w].run,
         wk[w].pc = "final", MayEnd(w), SeesAll(w, r),
         NEW cited \in BOOLEAN, Publish(w, r, cited), result'[r].record
  PROVE  outcome'[r][First] # "failed"
<1> USE DEF EInv, IInv
<1> DEFINE done == [t \in Task |-> IF task[r][t] \in LiveTask
                                   THEN "completed" ELSE task[r][t]]
<1>1. run[r].status \notin TerminalStatus /\ First \in Task
  BY CountsAreNatural DEF MayEnd, First, Task
<1>2. "verification" \in wk[w].got
  BY DEF SeesAll, Verified
<1>3. wk[w].findings # "failed"
  <2>1. PICK record \in BOOLEAN :
          /\ result' = [result EXCEPT ![r] = [answered |-> TRUE, record |-> record]]
          /\ record => wk[w].findings # "failed"
    BY <1>2 DEF Publish
  <2> QED
    BY <2>1 DEF TypeOK
<1>4. task[r][First] # "failed"
  BY <1>1, <1>3 DEF SeesAll
<1>5. SettleTasks(w, r, done)
  BY DEF Publish
<1>6. done[First] \in FinishedTask /\ done[First] # "failed"
  BY <1>1, <1>4 DEF TypeOK, FinishedTask
<1> HIDE DEF done
<1>7. outcome'[r][First] = done[First]
  <2>1. \A t \in Task : outcome[r][t] = "none"
    BY <1>1 DEF OpenIsUnsettled
  <2>2. \A t \in Task : done[t] \in FinishedTask => outcome'[r][t] = done[t]
    BY <1>5, <2>1, SettleEffect
  <2> QED
    BY <1>1, <1>6, <2>2
<1> QED
  BY <1>6, <1>7

(* Which transaction ends a run as what. *)
LEMMA EnderIs ==
  ASSUME EInv, Next, NEW r \in Run, run[r].status \notin TerminalStatus,
         run'[r].status \in {"completed", "partial", "failed"}
  PROVE  \E w \in Worker :
           /\ Executing(w, r) /\ MayEnd(w) /\ run'[r].attempt = run[r].attempt
           /\ \/ run'[r].status = "failed" /\ wk[w].pc = "fail"
              \/ /\ run'[r].status # "failed" /\ wk[w].pc = "final"
                 /\ \E cited \in BOOLEAN : Publish(w, r, cited)
<1> USE DEF EInv, IInv
<1>1. PICK w \in Worker :
        /\ Final(w) \/ Fail(w) \/ Cancel(w)
        /\ wk[w].pc \in Active /\ wk[w].run = r /\ MayEnd(w) /\ SameLease(r)
        /\ run'[r].status = "cancelled" <=>
             (Cancel(w) \/ (Final(w) /\ run[r].cancelRequested))
  BY StatusStep DEF TerminalStatus
<1>2. ~Cancel(w) /\ (Final(w) => ~run[r].cancelRequested)
  BY <1>1
<1>3. CASE Fail(w)
  <2>1. run'[r].status = "failed" /\ wk[w].pc = "fail"
    BY <1>1, <1>3, FailEnds DEF EndsAs, Closes, Fail
  <2> QED
    BY <1>1, <2>1 DEF Executing, SameLease
<1>4. CASE Final(w)
  <2>1. PICK cited \in BOOLEAN : Publish(w, r, cited)
    BY <1>1, <1>2, <1>4 DEF Final
  <2>2. run'[r].status # "failed"
    BY <1>1, <2>1, PublishEnds DEF EndsAs, Closes
  <2> QED
    BY <1>1, <1>4, <2>1, <2>2 DEF Final, Executing, SameLease
<1> QED
  BY <1>1, <1>2, <1>3, <1>4

LEMMA CausedStep ==
  ASSUME CInv, Next
  PROVE  Caused'
<1> USE DEF CInv, EInv, IInv
<1>1. faulted \subseteq faulted'
  <2>1. ASSUME NEW q \in Run, \/ Submit(q) \/ RequestCancel(q)
                              \/ ExpireOrphan(q) \/ Stall(q)
        PROVE  faulted \subseteq faulted'
    BY <2>1, QueueTables
  <2>2. ASSUME NEW w \in Worker,
               \/ \E q \in Run : Claim(w, q)
               \/ HeartbeatRead(w) \/ HeartbeatWrite(w) \/ Crash(w)
        PROVE  faulted \subseteq faulted'
    BY <2>2, QueueTables
  <2>3. ASSUME NEW w \in Worker, Step(w) \/ Raise(w)
        PROVE  faulted \subseteq faulted'
    BY <2>3, OwnTables
  <2> QED
    BY <2>1, <2>2, <2>3 DEF Next
<1>2. ASSUME NEW r \in Run PROVE run[r].attempt > 1 => run'[r].attempt > 1
  BY AttemptStep
<1>3. ASSUME NEW r \in Run, run[r].status \notin TerminalStatus,
             run'[r].status \in {"completed", "partial", "failed"},
             ~(run'[r].attempt > 1)
      PROVE  /\ run'[r].status = "failed" => r \in faulted
             /\ result'[r].record /\ run'[r].status # "failed" =>
                  outcome'[r][First] # "failed"
  <2>1. PICK w \in Worker :
           /\ Executing(w, r) /\ MayEnd(w) /\ run'[r].attempt = run[r].attempt
           /\ \/ run'[r].status = "failed" /\ wk[w].pc = "fail"
              \/ /\ run'[r].status # "failed" /\ wk[w].pc = "final"
                 /\ \E cited \in BOOLEAN : Publish(w, r, cited)
    BY <1>3, EnderIs
  <2>2. run[r].attempt \in Nat /\ run[r].attempt # 0
    BY <2>1, SoleExecution
  <2>3. run[r].attempt = 1
    BY <1>3, <2>1, <2>2
  <2>4. SeesAll(w, r) /\ r = wk[w].run
    BY <2>1, <2>3 DEF FirstTrySeesAll, Executing
  <2>5. wk[w].pc = "fail" => r \in faulted
    BY <2>4 DEF SeesAll
  <2> QED
    BY <2>1, <2>4, <2>5, PublishIsVerified
<1>4. FailureHasCause'
  <2> SUFFICES ASSUME NEW r \in Run, run'[r].status = "failed",
                      ~(run'[r].attempt > 1)
               PROVE  r \in faulted'
    BY DEF FailureHasCause
  <2>1. CASE run[r].status = "failed"
    BY <1>1, <1>2, <2>1 DEF Caused, FailureHasCause
  <2>2. CASE run[r].status # "failed"
    <3>1. run[r].status \notin TerminalStatus
      BY <2>2, EachRun DEF Kept, SamePhase, Opens, Appends, Holds, Closes, Open,
                           TerminalStatus
    <3> QED
      BY <1>1, <1>3, <3>1
  <2> QED
    BY <2>1, <2>2
<1>5. RecordIsVerified'
  <2> SUFFICES ASSUME NEW r \in Run, result'[r].record,
                      ~(run'[r].attempt > 1)
               PROVE  outcome'[r][First] # "failed"
    BY DEF RecordIsVerified
  <2>1. CASE Kept(r) \/ Opens(r) \/ Appends(r) \/ Holds(r)
    <3>1. result'[r] = result[r] /\ outcome'[r] = outcome[r]
      BY <2>1 DEF Kept, Opens, Appends, Holds, SameRecord
    <3> QED
      BY <1>2, <3>1 DEF Caused, RecordIsVerified
  <2>2. ASSUME NEW s \in TerminalStatus, Closes(r, s)
        PROVE  outcome'[r][First] # "failed"
    <3>1. /\ run[r].status \notin TerminalStatus /\ run'[r].status = s
          /\ s \notin {"completed", "partial"} => result'[r] = result[r]
      BY <2>2 DEF Closes, Open, TerminalStatus
    <3>2. ~result[r].record
      BY <3>1 DEF OpenIsUnsettled
    <3>3. s \in {"completed", "partial"}
      BY <3>1, <3>2
    <3> QED
      BY <1>3, <3>1, <3>3
  <2> QED
    BY <2>1, <2>2, EachRun
<1> QED
  BY <1>4, <1>5 DEF Caused

LEMMA CauseInit == Init => CInv
<1> SUFFICES ASSUME Init PROVE CInv
  OBVIOUS
<1>1. \A w \in Worker : wk[w].pc = "idle"
  BY DEF Init, IdleWorker
<1>2. First \in Task
  BY CountsAreNatural DEF First, Task
<1>3. \A r \in Run : /\ run[r].status = "absent" /\ ckpt[r].stage = 0
                     /\ task[r][First] # "failed" /\ ~result[r].record
  BY <1>2 DEF Init
<1>4. EpochsStart /\ FirstTrySeesAll
  BY <1>1 DEF EpochsStart, FirstTrySeesAll, Executing, Active
<1>5. Untried /\ Caused
  BY <1>3 DEF Untried, Caused, FailureHasCause, RecordIsVerified
<1> QED
  BY <1>4, <1>5, EndingInit DEF CInv

LEMMA CauseStep == CInv /\ [Next]_vars => CInv'
<1> SUFFICES ASSUME CInv, [Next]_vars PROVE CInv'
  OBVIOUS
<1>1. EInv'
  BY EndingStep DEF CInv
<1>2. CASE Next
  BY <1>1, <1>2, EpochsStartStep, UntriedStep, FirstTryStep, CausedStep DEF CInv
<1>3. CASE UNCHANGED vars
  <2>1. UNCHANGED <<run, task, lead, outcome, result, ckpt, wk, faulted>>
    BY <1>3 DEF vars
  <2>2. EpochsStart' /\ Untried'
    BY <2>1 DEF CInv, EpochsStart, Untried
  <2>3. FirstTrySeesAll'
    BY <2>1 DEF CInv, FirstTrySeesAll, SeesAll, Executing
  <2>4. Caused'
    BY <2>1 DEF CInv, Caused, FailureHasCause, RecordIsVerified
  <2> QED
    BY <1>1, <2>2, <2>3, <2>4 DEF CInv
<1> QED
  BY <1>2, <1>3

(* An ended run ended one way in every table, for a reason, and on a       *)
(* verification: a run of one execution fails only because a provider, the *)
(* citation check or the budget did, and promotes a record only beside a   *)
(* research task that did not fail (_finish_runtime_v2, _fail and _cancel  *)
(* of coordinator.py, graph.py).                                           *)
THEOREM EndingsAreSound == Spec => []EndingsSound
<1>1. Spec => []CInv
  BY CauseInit, CauseStep, PTL DEF Spec
<1>2. CInv => EndingsSound
  BY DEF CInv, EInv, SettledAgrees, Caused, EndingsSound
<1> QED
  BY <1>1, <1>2, PTL

=============================================================================
