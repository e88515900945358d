------------------------- MODULE TaskRuntimeProofs -------------------------
(***************************************************************************)
(* Proofs about TaskRuntime: the rows of a task tell one story and its     *)
(* history stands, for any tasks, dependencies, workers and limits, on     *)
(* both databases.                                                         *)
(***************************************************************************)
EXTENDS TaskRuntime, SequenceTheorems, FiniteSetTheorems, TLAPS

-----------------------------------------------------------------------------
(* The inductive invariant *)

(* TypeOK without the bound on turns, which needs more to be kept. *)
Shapes ==
  /\ db \in {"postgresql", "sqlite"}
  /\ run \in RunRow
  /\ doomed \subseteq Task
  /\ task \in [Task -> TaskRow]
  /\ turns \in [Task -> Seq(TurnKind)]
  /\ obs \in [Task -> Seq(Observation)]
  /\ proposal \in [Task -> {"none", "valid", "partial"}]
  /\ outcome \in [Task -> {"none"} \union Terminal]
  /\ overdue \subseteq Task
  /\ holder \in [Task -> Worker \union {Nobody}]
  /\ wk \in [Worker -> WorkerState]
  /\ stalls \in 0..MaxStalls /\ crashes \in 0..MaxCrashes

(* A busy worker has a task whose dependencies are done, and no epoch      *)
(* above the task's; between the halves of a claim it is the next one.     *)
Employed(w) ==
  wk[w].pc \in Busy =>
    /\ wk[w].task \in Task
    /\ DependenciesDone(wk[w].task)
    /\ wk[w].pc # "claim" => wk[w].epoch <= task[wk[w].task].epoch
    /\ wk[w].pc = "claim" =>
         /\ holder[wk[w].task] = w
         /\ wk[w].epoch = task[wk[w].task].epoch + 1
         /\ task[wk[w].task].status \notin Terminal

(* What a worker is about to write is of the kind that is written there.   *)
Carried(w) ==
  /\ wk[w].pc = "note" => wk[w].out \in {"invalid", "budget"}
  /\ wk[w].pc = "propose" => wk[w].out \in {"valid", "partial"}
  /\ wk[w].pc = "settle" => wk[w].out \in Terminal
  /\ wk[w].pc = "observe" => wk[w].out \in ToolResult \union {"stopped"}
  /\ wk[w].pc = "observe" /\ wk[w].out = "stopped" => Stopped

(* An open transaction is one between the halves of a claim, or that of a  *)
(* look that goes on to write in another one (PostgreSQL).                 *)
Locks(t) ==
  holder[t] # Nobody =>
    /\ wk[holder[t]].task = t
    /\ \/ wk[holder[t]].pc = "claim"
       \/ db = "postgresql" /\ wk[holder[t]].pc \in {"settle", "observe"}

LiveRuns(t) == task[t].live => task[t].status = "running" \/ Stopped

Rows == \A t \in Task : Locks(t) /\ LiveRuns(t)
Crew == \A w \in Worker : Employed(w) /\ Carried(w)

(* The observations of a task answer its calls in their order: those of    *)
(* one call are one that waited and one that did not, and only the latest  *)
(* call waits.                                                             *)
Answers(t) ==
  /\ \A i \in DOMAIN obs[t] :
       obs[t][i].turn \in DOMAIN turns[t] /\ turns[t][obs[t][i].turn] = "call"
  /\ \A i, k \in DOMAIN obs[t] : i < k =>
       /\ obs[t][i].turn <= obs[t][k].turn
       /\ obs[t][i].turn = obs[t][k].turn =>
            k = i + 1 /\ obs[t][i].status = "waiting" /\ obs[t][k].status # "waiting"
  /\ Waiting(t) => obs[t][Len(obs[t])].turn = Len(turns[t])

(* The worker whose claim of its task is the current one, live or not. *)
Current(w) ==
  LET t == wk[w].task IN
  wk[w].pc \in Busy /\ task[t].owner = w /\ task[t].epoch = wk[w].epoch

LastCall(w) ==
  LET t == wk[w].task IN
  /\ turns[t] # <<>> /\ wk[w].turn = Len(turns[t])
  /\ turns[t][Len(turns[t])] = "call"

Unanswered(w) ==
  \A i \in DOMAIN obs[wk[w].task] : obs[wk[w].task][i].turn < wk[w].turn

(* What the worker learnt of its task is still so: nobody else writes. *)
Informed(w) ==
  LET t == wk[w].task IN
  Current(w) =>
    /\ wk[w].pc \in {"ask", "note", "propose", "call"} =>
         ~Waiting(t) /\ Len(turns[t]) < MaxTurns
    /\ wk[w].pc \in {"ask", "note", "propose", "call", "execute", "observe"} =>
         proposal[t] = "none"
    /\ wk[w].pc = "execute" => LastCall(w) /\ Unanswered(w)
    /\ wk[w].pc = "observe" =>
         /\ LastCall(w)
         /\ Unanswered(w) \/ (Waiting(t) /\ wk[w].out # "waiting")
    /\ wk[w].pc = "settle" /\ t \notin Adapted /\ ~Stopped =>
         /\ wk[w].out = "completed" <=> proposal[t] = "valid"
         /\ wk[w].out = "partial" <=> proposal[t] = "partial"

History == (\A t \in Task : Answers(t)) /\ \A w \in Worker : Informed(w)

TurnsBounded == \A t \in Task : Len(turns[t]) <= MaxTurns

TInv == Shapes /\ Rows /\ Crew /\ History /\ TurnsBounded
        /\ OutcomeAgrees /\ DependenciesFirst /\ ProposalDecides

-----------------------------------------------------------------------------
(* What a step does to a task *)

Keeps(t) == task'[t] = task[t] /\ outcome'[t] = outcome[t]

Lapses(t) ==
  /\ outcome'[t] = outcome[t] /\ task'[t].status = task[t].status
  /\ task'[t].owner = task[t].owner /\ task'[t].epoch = task[t].epoch
  /\ ~task'[t].live

Cancels(t) ==
  /\ holder[t] = Nobody /\ Stopped' /\ run.status = "stopping"
  /\ outcome'[t] = outcome[t] /\ task'[t].status = "cancelled"
  /\ task'[t].owner = task[t].owner /\ task'[t].epoch = task[t].epoch
  /\ task'[t].live = task[t].live

Readies(t) ==
  /\ holder[t] = Nobody /\ outcome'[t] = outcome[t]
  /\ task'[t].status = "ready"
  /\ task'[t].epoch = task[t].epoch /\ task'[t].live = task[t].live
  /\ \/ task[t].status = "running" /\ ~task[t].live /\ task'[t].owner = Nobody
     \/ /\ task[t].status = "pending" /\ DependenciesDone(t)
        /\ task'[t].owner = task[t].owner

Claims(w, t) ==
  /\ wk[w].pc = "claim" /\ wk[w].task = t /\ wk'[w].pc = "claimed"
  /\ outcome'[t] = outcome[t]
  /\ task'[t].status = "running" /\ task'[t].owner = w /\ task'[t].live
  /\ task'[t].epoch = wk[w].epoch

Concludes(w, t) ==
  /\ wk[w].pc = "settle" /\ wk[w].task = t /\ wk'[w] # wk[w]
  /\ holder[t] = Nobody /\ ~Concluded(t) /\ Claimant(w) /\ ~Stopped
  /\ outcome'[t] = wk[w].out /\ task'[t].status = wk[w].out
  /\ task'[t].owner = Nobody /\ ~task'[t].live
  /\ task'[t].epoch = task[t].epoch

RowEffect(t) ==
  \/ Keeps(t) \/ Lapses(t) \/ Cancels(t) \/ Readies(t)
  \/ \E w \in Worker : Claims(w, t) \/ Concludes(w, t)

Rests(t) == turns'[t] = turns[t] /\ obs'[t] = obs[t] /\ proposal'[t] = proposal[t]

TakesTurn(w, t) ==
  /\ wk[w].pc \in {"note", "propose", "call"} /\ wk[w].task = t /\ wk'[w] # wk[w]
  /\ Entitled(w) /\ wk[w].turn = Len(turns[t]) + 1
  /\ obs'[t] = obs[t]
  /\ \E kind \in TurnKind : turns'[t] = Append(turns[t], kind)

Observes(w, t) ==
  /\ wk[w].pc = "observe" /\ wk[w].task = t /\ wk'[w] # wk[w] /\ Entitled(w)
  /\ turns'[t] = turns[t] /\ proposal'[t] = proposal[t]
  /\ obs'[t] = Append(obs[t], [turn |-> wk[w].turn, status |-> StatusOf(wk[w].out)])

HistoryEffect(t) ==
  Rests(t) \/ \E w \in Worker : TakesTurn(w, t) \/ Observes(w, t)

Effect ==
  /\ Shapes' /\ db' = db /\ (Stopped => Stopped')
  /\ \A t \in Task : RowEffect(t) /\ HistoryEffect(t)

-----------------------------------------------------------------------------
(* What a step does to the workers and their transactions *)

Still == wk' = wk /\ holder' = holder

MovesAlone(w) == \A v \in Worker \ {w} : wk'[v] = wk[v]

(* A worker that moves takes a lock, gives one back, or holds none. *)
LockEffect(w) ==
  \A t \in Task :
    \/ holder'[t] = holder[t] /\ holder[t] # w
    \/ holder[t] = w /\ holder'[t] = Nobody
    \/ /\ holder[t] = Nobody /\ holder'[t] = w /\ wk'[w].task = t
       /\ \/ wk'[w].pc = "claim"
          \/ db = "postgresql" /\ wk'[w].pc \in {"settle", "observe"}

GoodMove(w) ==
  /\ MovesAlone(w) /\ LockEffect(w)
  /\ Employed(w)' /\ Carried(w)' /\ Informed(w)'

Sound == Effect /\ (Still \/ \E w \in Worker : GoodMove(w))

-----------------------------------------------------------------------------
(* Rows and records *)

LEMMA Moved ==
  ASSUME Shapes, NEW w \in Worker, NEW row \in WorkerState,
         wk' = [wk EXCEPT ![w] = row]
  PROVE  wk' \in [Worker -> WorkerState] /\ wk'[w] = row /\ MovesAlone(w)
BY DEF Shapes, MovesAlone

LEMMA IdleRow == IdleWorker \in WorkerState /\ IdleWorker.pc = "idle"
                 /\ IdleWorker.task = Nobody
BY DEF IdleWorker, WorkerState, Out

(* A worker that goes on keeps its claim. *)
SameClaim(w) ==
  /\ wk'[w].task = wk[w].task /\ wk'[w].epoch = wk[w].epoch
  /\ wk'[w].runEpoch = wk[w].runEpoch

LEMMA GotoMoves ==
  ASSUME Shapes, NEW w \in Worker, NEW pc \in Busy, NEW out \in Out, Goto(w, pc, out)
  PROVE  /\ wk' \in [Worker -> WorkerState] /\ MovesAlone(w)
         /\ SameClaim(w) /\ wk'[w].pc = pc /\ wk'[w].out = out
         /\ wk'[w].turn = wk[w].turn
<1>1. PICK old \in WorkerState : old = wk[w]
  BY DEF Shapes
<1> DEFINE row == [wk[w] EXCEPT !.pc = pc, !.out = out]
<1>2. /\ row \in WorkerState /\ row.pc = pc /\ row.out = out /\ row.task = wk[w].task
      /\ row.epoch = wk[w].epoch /\ row.runEpoch = wk[w].runEpoch
      /\ row.turn = wk[w].turn
  BY <1>1 DEF WorkerState
<1>3. wk' = [wk EXCEPT ![w] = row]
  BY DEF Goto
<1> HIDE DEF row
<1> QED
  BY <1>2, <1>3, Moved DEF SameClaim

LEMMA TurnMoves ==
  ASSUME Shapes, NEW w \in Worker, NEW pc \in Busy, NEW out \in Out, NEW n \in Nat,
         wk' = [wk EXCEPT ![w] = [wk[w] EXCEPT !.pc = pc, !.turn = n, !.out = out]]
  PROVE  /\ wk' \in [Worker -> WorkerState] /\ MovesAlone(w)
         /\ SameClaim(w) /\ wk'[w].pc = pc /\ wk'[w].out = out /\ wk'[w].turn = n
<1>1. PICK old \in WorkerState : old = wk[w]
  BY DEF Shapes
<1> DEFINE row == [wk[w] EXCEPT !.pc = pc, !.turn = n, !.out = out]
<1>2. /\ row \in WorkerState /\ row.pc = pc /\ row.out = out /\ row.task = wk[w].task
      /\ row.epoch = wk[w].epoch /\ row.runEpoch = wk[w].runEpoch /\ row.turn = n
  BY <1>1 DEF WorkerState
<1>3. wk' = [wk EXCEPT ![w] = row]
  OBVIOUS
<1> HIDE DEF row
<1> QED
  BY <1>2, <1>3, Moved DEF SameClaim

LEMMA DropMoves ==
  ASSUME Shapes, NEW w \in Worker, Drop(w)
  PROVE  /\ wk' \in [Worker -> WorkerState] /\ MovesAlone(w) /\ wk'[w].pc = "idle"
         /\ Employed(w)' /\ Carried(w)' /\ Informed(w)'
<1>1. wk' \in [Worker -> WorkerState] /\ MovesAlone(w) /\ wk'[w].pc = "idle"
  BY IdleRow, Moved DEF Drop
<1> QED
  BY <1>1 DEF Employed, Carried, Informed, Current, Busy

(* A task that may be locked is locked by nobody. *)
LEMMA FreeIsUnheld ==
  ASSUME NEW t \in Task, Free(t)
  PROVE  holder[t] = Nobody
BY DEF Free

LEMMA HoldsNothing ==
  ASSUME Shapes, Rows, NEW w \in Worker,
         \/ wk[w].pc \notin {"claim", "settle", "observe"}
         \/ wk[w].pc # "claim" /\ wk[w].task \in Task /\ Free(wk[w].task)
  PROVE  \A t \in Task : holder[t] # w
<1> SUFFICES ASSUME NEW t \in Task, holder[t] = w PROVE FALSE
  OBVIOUS
<1>1. wk[w].task = t /\ wk[w].pc \in {"claim", "settle", "observe"}
  BY NobodyIsNoWorker DEF Rows, Locks
<1> QED
  BY <1>1, FreeIsUnheld, NobodyIsNoWorker

(* A step that writes no row. *)
LEMMA QuietEffect ==
  ASSUME Shapes, wk' \in [Worker -> WorkerState],
         holder' \in [Task -> Worker \union {Nobody}],
         UNCHANGED <<db, stop, task, facts, outcome, overdue, stalls>>,
         crashes' \in 0..MaxCrashes
  PROVE  Effect
<1>1. Shapes'
  BY DEF Shapes, stop, facts
<1>2. \A t \in Task : RowEffect(t) /\ HistoryEffect(t)
  BY DEF RowEffect, Keeps, HistoryEffect, Rests, facts
<1> QED
  BY <1>1, <1>2 DEF Effect, Stopped, stop

-----------------------------------------------------------------------------
(* Steps that no worker's memory takes part in *)

LEMMA RowWritten ==
  ASSUME NEW t \in Task, NEW row \in TaskRow, Shapes, task' = [task EXCEPT ![t] = row]
  PROVE  /\ task' \in [Task -> TaskRow] /\ task'[t] = row
         /\ \A u \in Task \ {t} : task'[u] = task[u]
BY DEF Shapes

(* A step that writes task rows alone, or the row of the run. *)
LEMMA RowsEffect ==
  ASSUME Shapes, run' \in RunRow, doomed' \subseteq Task, task' \in [Task -> TaskRow],
         overdue' \subseteq Task, stalls' \in 0..MaxStalls,
         Stopped => Stopped',
         UNCHANGED <<db, facts, outcome, holder, wk, crashes>>,
         \A t \in Task : RowEffect(t)
  PROVE  Sound
<1>1. Shapes'
  BY DEF Shapes, facts
<1>2. \A t \in Task : HistoryEffect(t)
  BY DEF HistoryEffect, Rests, facts
<1> QED
  BY <1>1, <1>2 DEF Sound, Effect, Still

LEMMA TakeRunIsSound ==
  ASSUME TInv, NEW w \in Worker, TakeRun(w)
  PROVE  Sound
<1>1. Shapes
  BY DEF TInv
<1>2. run \in RunRow /\ run.attempt + 1 \in Nat
  BY <1>1 DEF Shapes, RunRow
<1> DEFINE n == run.attempt + 1
           row == [run EXCEPT !.owner = w, !.attempt = n]
<1>3. row \in RunRow /\ row.status = run.status
  <2>1. n \in Nat
    BY <1>2
  <2> HIDE DEF n
  <2> QED
    BY <1>2, <2>1 DEF RunRow
<1>5. run' = row
  BY <1>2 DEF TakeRun, RunRow
<1> HIDE DEF row
<1>4. \A t \in Task : RowEffect(t)
  BY DEF TakeRun, RowEffect, Keeps
<1> QED
  BY <1>1, <1>3, <1>4, <1>5, RowsEffect DEF TakeRun, Shapes, bounds, Stopped

LEMMA StopReadIsSound ==
  ASSUME TInv, StopRead
  PROVE  Sound
<1>1. Shapes
  BY DEF TInv
<1>2. PICK old \in RunRow : old = run
  BY <1>1 DEF Shapes
<1>3. run' \in RunRow
  BY <1>2 DEF StopRead, RunRow
<1>4. \A t \in Task : RowEffect(t)
  BY DEF StopRead, RowEffect, Keeps
<1>5. doomed' \subseteq Task /\ ~Stopped
  BY DEF StopRead, Stopped
<1>6. UNCHANGED <<db, task, facts, outcome, holder, wk, crashes, overdue, stalls>>
  BY DEF StopRead, bounds
<1> QED
  BY <1>1, <1>3, <1>4, <1>5, <1>6, RowsEffect DEF Shapes

LEMMA StopWriteIsSound ==
  ASSUME TInv, StopWrite
  PROVE  Sound
<1>1. Shapes
  BY DEF TInv
<1>2. PICK old \in RunRow : old = run
  BY <1>1 DEF Shapes
<1>3. run' \in RunRow /\ Stopped'
  BY <1>2 DEF StopWrite, RunRow, Stopped
<1>4. ASSUME NEW t \in Task PROVE task'[t] \in TaskRow /\ RowEffect(t)
  <2>1. PICK r \in TaskRow : r = task[t]
    BY <1>1 DEF Shapes
  <2> DEFINE row == [task[t] EXCEPT !.status = "cancelled"]
  <2>2. /\ row \in TaskRow /\ row.status = "cancelled" /\ row.owner = task[t].owner
        /\ row.epoch = task[t].epoch /\ row.live = task[t].live
    BY <2>1 DEF TaskRow, Terminal
  <2>3. task'[t] = IF t \in doomed THEN row ELSE task[t]
    BY DEF StopWrite
  <2> HIDE DEF row
  <2>4. CASE t \in doomed
    <3>1. Cancels(t)
      BY <1>3, <2>2, <2>3, <2>4 DEF Cancels, StopWrite
    <3> QED
      BY <2>2, <2>3, <2>4, <3>1 DEF RowEffect
  <2>5. CASE t \notin doomed
    BY <2>1, <2>3, <2>5 DEF RowEffect, Keeps, StopWrite
  <2> QED
    BY <2>4, <2>5
<1>5. task' \in [Task -> TaskRow]
  BY <1>4 DEF StopWrite
<1>6. doomed' \subseteq Task
  BY DEF StopWrite
<1>7. UNCHANGED <<db, facts, outcome, holder, wk, crashes, overdue, stalls>>
  BY DEF StopWrite, bounds
<1> QED
  BY <1>1, <1>3, <1>4, <1>5, <1>6, <1>7, RowsEffect DEF Shapes

LEMMA OverdueIsSound ==
  ASSUME TInv, NEW t \in Task, Overdue(t)
  PROVE  Sound
<1>1. Shapes
  BY DEF TInv
<1>2. \A u \in Task : RowEffect(u)
  BY DEF Overdue, RowEffect, Keeps
<1>3. overdue' \subseteq Task
  BY <1>1 DEF Overdue, Shapes
<1> QED
  BY <1>1, <1>2, <1>3, RowsEffect DEF Overdue, Shapes, bounds, stop, Stopped

LEMMA LapseIsSound ==
  ASSUME TInv, NEW t \in Task, Lapse(t)
  PROVE  Sound
<1>1. Shapes
  BY DEF TInv
<1>2. PICK r \in TaskRow : r = task[t]
  BY <1>1 DEF Shapes
<1> DEFINE row == [task[t] EXCEPT !.live = FALSE]
<1>3. /\ row \in TaskRow /\ row.status = task[t].status /\ row.owner = task[t].owner
      /\ row.epoch = task[t].epoch /\ ~row.live
  BY <1>2 DEF TaskRow
<1>4. task' = [task EXCEPT ![t] = row]
  BY <1>1 DEF Lapse, Shapes
<1> HIDE DEF row
<1>5. /\ task' \in [Task -> TaskRow] /\ task'[t] = row
      /\ \A u \in Task \ {t} : task'[u] = task[u]
  BY <1>1, <1>3, <1>4, RowWritten
<1>6. outcome' = outcome
  BY DEF Lapse
<1>7. Lapses(t)
  BY <1>3, <1>5, <1>6 DEF Lapses
<1>8. \A u \in Task : RowEffect(u)
  BY <1>5, <1>6, <1>7 DEF RowEffect, Keeps
<1>9. stalls' \in 0..MaxStalls
  BY <1>1, BoundsAreNatural DEF Lapse, Shapes
<1> QED
  BY <1>1, <1>5, <1>8, <1>9, RowsEffect DEF Lapse, Shapes, stop, Stopped

LEMMA RefreshReadyIsSound ==
  ASSUME TInv, RefreshReady
  PROVE  Sound
<1>1. Shapes
  BY DEF TInv
<1>2. ASSUME NEW t \in Task PROVE task'[t] \in TaskRow /\ RowEffect(t)
  <2>1. PICK r \in TaskRow : r = task[t]
    BY <1>1 DEF Shapes
  <2>2. task'[t] = Refreshed(t) /\ outcome' = outcome
    BY DEF RefreshReady
  <2>3. holder[t] = Nobody
    BY FreeIsUnheld DEF RefreshReady
  <2> DEFINE back == [task[t] EXCEPT !.status = "ready", !.owner = Nobody]
             row == [task[t] EXCEPT !.status = "ready"]
  <2>4. /\ back \in TaskRow /\ back.status = "ready" /\ back.owner = Nobody
        /\ back.epoch = task[t].epoch /\ back.live = task[t].live
    BY <2>1 DEF TaskRow
  <2>5. /\ row \in TaskRow /\ row.status = "ready" /\ row.owner = task[t].owner
        /\ row.epoch = task[t].epoch /\ row.live = task[t].live
    BY <2>1 DEF TaskRow
  <2>6. \/ Refreshed(t) = task[t]
        \/ Refreshed(t) = back /\ task[t].status = "running" /\ ~task[t].live
        \/ Refreshed(t) = row /\ task[t].status = "pending" /\ DependenciesDone(t)
    BY DEF Refreshed
  <2> HIDE DEF back, row
  <2>7. CASE Refreshed(t) = task[t]
    BY <2>1, <2>2, <2>7 DEF RowEffect, Keeps
  <2>8. CASE Refreshed(t) = back /\ task[t].status = "running" /\ ~task[t].live
    <3>1. Readies(t)
      BY <2>2, <2>3, <2>4, <2>8 DEF Readies
    <3> QED
      BY <2>2, <2>4, <2>8, <3>1 DEF RowEffect
  <2>9. CASE Refreshed(t) = row /\ task[t].status = "pending" /\ DependenciesDone(t)
    <3>1. Readies(t)
      BY <2>2, <2>3, <2>5, <2>9 DEF Readies
    <3> QED
      BY <2>2, <2>5, <2>9, <3>1 DEF RowEffect
  <2> QED
    BY <2>6, <2>7, <2>8, <2>9
<1>3. task' \in [Task -> TaskRow]
  BY <1>2 DEF RefreshReady
<1>4. UNCHANGED <<db, run, doomed, facts, outcome, holder, wk, crashes, overdue, stalls>>
  BY DEF RefreshReady, bounds, stop
<1> QED
  BY <1>1, <1>2, <1>3, <1>4, RowsEffect DEF Shapes, Stopped

-----------------------------------------------------------------------------
(* Steps of a worker that write no row *)

LEMMA LookIsOfTask ==
  ASSUME TInv, NEW w \in Worker, wk[w].pc \in Busy
  PROVE  /\ Shapes /\ wk[w].task \in Task /\ wk[w] \in WorkerState
         /\ Employed(w) /\ Carried(w) /\ Informed(w) /\ Answers(wk[w].task)
<1>1. Shapes /\ Employed(w) /\ Carried(w) /\ Informed(w)
  BY DEF TInv, Crew, History
<1>2. wk[w].task \in Task
  BY <1>1 DEF Employed
<1> QED
  BY <1>1, <1>2 DEF TInv, History, Shapes

(* It goes on with its claim. *)
GoesOn(w) ==
  /\ wk[w].pc \in Busy \ {"claim"} /\ wk'[w].pc \in Busy \ {"claim"}
  /\ wk' \in [Worker -> WorkerState] /\ MovesAlone(w) /\ SameClaim(w)

QuietMove(w) ==
  /\ GoesOn(w)
  /\ UNCHANGED <<db, stop, task, facts, outcome, overdue, bounds>>

LEMMA QuietMoves ==
  ASSUME TInv, NEW w \in Worker, QuietMove(w), UNCHANGED holder,
         \A t \in Task : holder[t] # w, Carried(w)', Informed(w)'
  PROVE  Sound
<1>1. wk[w].task \in Task /\ Employed(w) /\ Shapes
  BY LookIsOfTask DEF QuietMove, GoesOn
<1>2. Effect
  BY <1>1, QuietEffect DEF QuietMove, GoesOn, Shapes, bounds
<1>3. LockEffect(w)
  BY DEF LockEffect
<1>4. Employed(w)'
  BY <1>1 DEF Employed, QuietMove, GoesOn, SameClaim, DependenciesDone
<1> QED
  BY <1>2, <1>3, <1>4 DEF Sound, GoodMove, QuietMove, GoesOn

(* It keeps the row that its look has locked. *)
LEMMA LookKeepsRow ==
  ASSUME TInv, NEW w \in Worker, QuietMove(w), Free(wk[w].task), InsideLook(w),
         \A t \in Task : holder[t] # w, wk'[w].pc \in {"settle", "observe"},
         Carried(w)', Informed(w)'
  PROVE  Sound
<1>1. wk[w].task \in Task /\ Employed(w) /\ Shapes
  BY LookIsOfTask DEF QuietMove, GoesOn
<1>2. holder' \in [Task -> Worker \union {Nobody}]
  BY <1>1 DEF InsideLook, Shapes
<1>3. Effect
  BY <1>1, <1>2, QuietEffect DEF QuietMove, GoesOn, Shapes, bounds
<1>4. LockEffect(w)
  <2> SUFFICES ASSUME NEW t \in Task
               PROVE \/ holder'[t] = holder[t] /\ holder[t] # w
                     \/ holder[t] = w /\ holder'[t] = Nobody
                     \/ /\ holder[t] = Nobody /\ holder'[t] = w /\ wk'[w].task = t
                        /\ \/ wk'[w].pc = "claim"
                           \/ db = "postgresql" /\ wk'[w].pc \in {"settle", "observe"}
    BY DEF LockEffect
  <2>1. holder[wk[w].task] = Nobody
    BY <1>1, FreeIsUnheld
  <2>2. holder \in [Task -> Worker \union {Nobody}]
    BY <1>1 DEF Shapes
  <2>3. CASE db = "postgresql" /\ t = wk[w].task
    BY <2>1, <2>2, <2>3 DEF InsideLook, QuietMove, GoesOn, SameClaim
  <2>4. CASE ~(db = "postgresql" /\ t = wk[w].task)
    BY <2>2, <2>4 DEF InsideLook
  <2> QED
    BY <2>3, <2>4
<1>5. Employed(w)'
  BY <1>1 DEF Employed, QuietMove, GoesOn, SameClaim, DependenciesDone
<1> QED
  BY <1>3, <1>4, <1>5 DEF Sound, GoodMove, QuietMove, GoesOn

(* A worker that gives its claim up, or has just been given one back. *)
LEMMA QuietLeap ==
  ASSUME TInv, NEW w \in Worker, wk' \in [Worker -> WorkerState], MovesAlone(w),
         UNCHANGED <<db, stop, task, facts, outcome, overdue, holder, bounds>>,
         \A t \in Task : holder[t] # w,
         Employed(w)', Carried(w)', Informed(w)'
  PROVE  Sound
<1>1. Shapes
  BY DEF TInv
<1>2. Effect
  BY <1>1, QuietEffect DEF Shapes, bounds
<1>3. LockEffect(w)
  BY DEF LockEffect
<1> QED
  BY <1>2, <1>3 DEF Sound, GoodMove

LEMMA ClaimRecord ==
  ASSUME Shapes, NEW w \in Worker, NEW t \in Task, NEW n \in Nat
  PROVE  /\ ClaimOf(w, t, n) \in WorkerState /\ ClaimOf(w, t, n).pc = "claimed"
         /\ ClaimOf(w, t, n).task = t /\ ClaimOf(w, t, n).epoch = n
         /\ ClaimOf(w, t, n).out = "none"
<1>1. run \in RunRow
  BY DEF Shapes
<1> DEFINE e == IF run.owner = w THEN run.attempt ELSE 0
<1>2. e \in Nat
  BY <1>1 DEF RunRow
<1>3. ClaimOf(w, t, n) = [IdleWorker EXCEPT !.pc = "claimed", !.task = t, !.epoch = n,
                                            !.runEpoch = e]
  BY DEF ClaimOf
<1> HIDE DEF e
<1>4. ClaimOf(w, t, n) = [pc |-> "claimed", task |-> t, epoch |-> n, runEpoch |-> e,
                          turn |-> 0, out |-> "none"]
  BY <1>3 DEF IdleWorker
<1> QED
  BY <1>2, <1>4 DEF WorkerState, Busy, Out

LEMMA ReclaimIsSound ==
  ASSUME TInv, NEW w \in Worker, NEW t \in Task, Reclaim(w, t)
  PROVE  Sound
<1>1. Shapes /\ Rows
  BY DEF TInv
<1>2. task[t].epoch \in Nat
  BY <1>1 DEF Shapes, TaskRow
<1> DEFINE row == ClaimOf(w, t, task[t].epoch)
<1>3. row \in WorkerState /\ row.pc = "claimed" /\ row.task = t /\ row.epoch = task[t].epoch
  BY <1>1, <1>2, ClaimRecord
<1>4. wk' = [wk EXCEPT ![w] = row]
  BY DEF Reclaim
<1> HIDE DEF row
<1>5. wk' \in [Worker -> WorkerState] /\ MovesAlone(w) /\ wk'[w] = row
  BY <1>1, <1>3, <1>4, Moved
<1>6. \A u \in Task : holder[u] # w
  BY <1>1, HoldsNothing DEF Reclaim
<1>7. Employed(w)'
  BY <1>2, <1>3, <1>5 DEF Employed, Reclaim, Claimable, DependenciesDone
<1>8. Carried(w)' /\ Informed(w)'
  BY <1>3, <1>5 DEF Carried, Informed
<1> QED
  BY <1>5, <1>6, <1>7, <1>8, QuietLeap DEF Reclaim

LEMMA ClaimReadIsSound ==
  ASSUME TInv, NEW w \in Worker, NEW t \in Task, ClaimRead(w, t)
  PROVE  Sound
<1>1. Shapes /\ Rows
  BY DEF TInv
<1>2. task[t].epoch \in Nat /\ task[t].epoch + 1 \in Nat
  BY <1>1 DEF Shapes, TaskRow
<1> DEFINE n == task[t].epoch + 1
           claim == ClaimOf(w, t, n)
           row == [claim EXCEPT !.pc = "claim"]
<1>3. wk' = [wk EXCEPT ![w] = row]
  BY DEF ClaimRead
<1>4. claim \in WorkerState /\ claim.task = t /\ claim.epoch = n /\ claim.out = "none"
  <2>1. n \in Nat
    BY <1>2
  <2> HIDE DEF n
  <2> QED
    BY <1>1, <2>1, ClaimRecord
<1>5. n = task[t].epoch + 1
  OBVIOUS
<1> HIDE DEF n, claim
<1>6. row \in WorkerState /\ row.pc = "claim" /\ row.task = t /\ row.epoch = n
  BY <1>4 DEF WorkerState, Busy
<1> HIDE DEF row
<1>7. wk' \in [Worker -> WorkerState] /\ MovesAlone(w) /\ wk'[w] = row
  BY <1>1, <1>3, <1>6, Moved
<1>8. \A u \in Task : holder[u] # w
  BY <1>1, HoldsNothing DEF ClaimRead
<1>9. holder[t] = Nobody /\ holder' = [holder EXCEPT ![t] = w]
  BY FreeIsUnheld DEF ClaimRead
<1>10. holder' \in [Task -> Worker \union {Nobody}] /\ holder'[t] = w
  BY <1>1, <1>9 DEF Shapes
<1>11. Effect
  BY <1>1, <1>7, <1>10, QuietEffect DEF ClaimRead, Shapes, bounds
<1>12. LockEffect(w)
  <2>1. ASSUME NEW u \in Task, u # t PROVE holder'[u] = holder[u]
    BY <1>1, <1>9, <2>1 DEF Shapes
  <2> QED
    BY <1>6, <1>7, <1>8, <1>9, <1>10, <2>1 DEF LockEffect
<1>13. Employed(w)'
  BY <1>2, <1>5, <1>6, <1>7, <1>10 DEF Employed, ClaimRead, Claimable, DependenciesDone
<1>14. Carried(w)' /\ Informed(w)'
  BY <1>6, <1>7 DEF Carried, Informed
<1> QED
  BY <1>7, <1>11, <1>12, <1>13, <1>14 DEF Sound, GoodMove

LEMMA AdaptIsSound ==
  ASSUME TInv, NEW w \in Worker, Adapt(w)
  PROVE  Sound
<1>1. Shapes /\ Rows /\ wk[w].pc = "claimed"
  BY DEF TInv, Adapt
<1>2. PICK kind \in Terminal : Goto(w, "settle", kind)
  BY DEF Adapt
<1>3. /\ wk' \in [Worker -> WorkerState] /\ MovesAlone(w)
      /\ SameClaim(w) /\ wk'[w].pc = "settle" /\ wk'[w].out = kind
  BY <1>1, <1>2, GotoMoves DEF Out, Busy
<1>4. QuietMove(w)
  BY <1>1, <1>3 DEF QuietMove, GoesOn, Adapt, Busy
<1>5. Carried(w)'
  BY <1>3 DEF Carried
<1>6. Informed(w)'
  BY <1>3 DEF Informed, SameClaim, Adapt
<1> QED
  BY <1>1, <1>4, <1>5, <1>6, HoldsNothing, QuietMoves DEF Adapt

LEMMA TurnedAwayIsSound ==
  ASSUME TInv, NEW w \in Worker, TurnedAway(w)
  PROVE  Sound
<1>1. Shapes /\ Rows /\ wk[w].pc = "claimed" /\ Drop(w)
  BY DEF TInv, TurnedAway, Looks
<1> QED
  BY <1>1, DropMoves, HoldsNothing, QuietLeap DEF TurnedAway

LEMMA CrashIsSound ==
  ASSUME TInv, NEW w \in Worker, Crash(w)
  PROVE  Sound
<1>1. Shapes /\ Drop(w)
  BY DEF TInv, Crash
<1>2. /\ wk' \in [Worker -> WorkerState] /\ MovesAlone(w)
      /\ Employed(w)' /\ Carried(w)' /\ Informed(w)'
  BY <1>1, DropMoves
<1>3. holder' = [t \in Task |-> IF holder[t] = w THEN Nobody ELSE holder[t]]
  BY DEF Crash
<1>4. holder' \in [Task -> Worker \union {Nobody}]
  BY <1>1, <1>3 DEF Shapes
<1>5. crashes' \in 0..MaxCrashes
  BY <1>1, BoundsAreNatural DEF Crash, Shapes
<1>6. Effect
  BY <1>1, <1>2, <1>4, <1>5, QuietEffect DEF Crash
<1>7. LockEffect(w)
  BY <1>3 DEF LockEffect
<1> QED
  BY <1>2, <1>6, <1>7 DEF Sound, GoodMove

LEMMA JudgeIsSound ==
  ASSUME TInv, NEW w \in Worker, Judge(w)
  PROVE  Sound
<1>1. Shapes /\ Rows /\ wk[w].pc = "claimed" /\ Free(wk[w].task)
  BY DEF TInv, Judge, Looks
<1>2. wk[w].task \in Task
  BY <1>1, LookIsOfTask DEF Busy
<1> DEFINE out == Verdict(wk[w].task)
<1>3. out \in Terminal /\ Goto(w, "settle", out)
  BY DEF Judge, Verdict, Terminal
<1>4. ~Stopped => /\ out = "completed" <=> proposal[wk[w].task] = "valid"
                  /\ out = "partial" <=> proposal[wk[w].task] = "partial"
  BY <1>1, <1>2 DEF Judge, Verdict, Shapes
<1> HIDE DEF out
<1>5. /\ wk' \in [Worker -> WorkerState] /\ MovesAlone(w)
      /\ SameClaim(w) /\ wk'[w].pc = "settle" /\ wk'[w].out = out
  BY <1>1, <1>3, GotoMoves DEF Out, Busy
<1>6. QuietMove(w)
  BY <1>1, <1>5 DEF QuietMove, GoesOn, Judge, Busy
<1>7. Carried(w)'
  BY <1>3, <1>5 DEF Carried
<1>8. Informed(w)'
  BY <1>4, <1>5 DEF Informed, SameClaim, Judge, stop, facts, Stopped
<1>9. \A t \in Task : holder[t] # w
  BY <1>1, HoldsNothing
<1>10. InsideLook(w)
  BY DEF Judge
<1> QED
  BY <1>1, <1>5, <1>6, <1>7, <1>8, <1>9, <1>10, LookKeepsRow

LEMMA LookGoesOn ==
  ASSUME TInv, NEW w \in Worker, GoOn(w)
  PROVE  /\ wk[w].pc = "claimed" /\ Free(wk[w].task) /\ wk[w].task \in Task
         /\ \A t \in Task : holder[t] # w
         /\ proposal[wk[w].task] = "none" /\ Len(turns[wk[w].task]) < MaxTurns
         /\ Len(turns[wk[w].task]) \in Nat
<1>1. Shapes /\ Rows /\ wk[w].pc = "claimed" /\ Free(wk[w].task)
  BY DEF TInv, GoOn, Looks
<1>2. wk[w].task \in Task
  BY <1>1, LookIsOfTask DEF Busy
<1>3. Len(turns[wk[w].task]) \in Nat
  BY <1>1, <1>2 DEF Shapes
<1>4. \A t \in Task : holder[t] # w
  BY <1>1, HoldsNothing
<1>5. proposal[wk[w].task] = "none" /\ ~Exhausted(wk[w].task)
  BY DEF GoOn, Verdict
<1> QED
  BY <1>1, <1>2, <1>3, <1>4, <1>5, LimitsArePositive DEF Exhausted

LEMMA ResumeIsSound ==
  ASSUME TInv, NEW w \in Worker, Resume(w)
  PROVE  Sound
<1>1. /\ wk[w].pc = "claimed" /\ Free(wk[w].task) /\ wk[w].task \in Task
      /\ \A t \in Task : holder[t] # w
      /\ proposal[wk[w].task] = "none" /\ Len(turns[wk[w].task]) \in Nat
  BY LookGoesOn DEF Resume
<1>2. Shapes /\ Answers(wk[w].task)
  BY <1>1, LookIsOfTask DEF Busy
<1> DEFINE n == Len(turns[wk[w].task])
<1>3. PICK result \in ToolResult \ {"waiting"} :
         wk' = [wk EXCEPT ![w] = [wk[w] EXCEPT !.pc = "observe", !.turn = n, !.out = result]]
  BY DEF Resume
<1>4. n \in Nat
  BY <1>1
<1>5. n = Len(turns[wk[w].task])
  OBVIOUS
<1> HIDE DEF n
<1>6. /\ wk' \in [Worker -> WorkerState] /\ MovesAlone(w)
      /\ SameClaim(w) /\ wk'[w].pc = "observe" /\ wk'[w].out = result /\ wk'[w].turn = n
  BY <1>2, <1>3, <1>4, TurnMoves DEF Out, Busy, ToolResult
<1>7. QuietMove(w)
  BY <1>1, <1>6 DEF QuietMove, GoesOn, Resume, Busy
<1>8. Carried(w)'
  BY <1>6 DEF Carried, ToolResult
<1>9. Waiting(wk[w].task) /\ turns[wk[w].task] # <<>>
      /\ turns[wk[w].task][n] = "call"
  <2>1. Waiting(wk[w].task)
    BY DEF Resume
  <2>2. /\ obs[wk[w].task] # <<>> /\ obs[wk[w].task] \in Seq(Observation)
        /\ turns[wk[w].task] \in Seq(TurnKind)
    BY <1>1, <1>2, <2>1 DEF Waiting, Shapes
  <2>3. Len(obs[wk[w].task]) \in DOMAIN obs[wk[w].task]
    BY <2>2
  <2>4. n \in DOMAIN turns[wk[w].task] /\ turns[wk[w].task][n] = "call"
    BY <1>2, <1>5, <2>1, <2>3 DEF Answers
  <2> QED
    BY <2>1, <2>2, <2>4
<1>10. Informed(w)'
  BY <1>1, <1>5, <1>6, <1>9 DEF Informed, SameClaim, Resume, facts, LastCall, Waiting
<1>11. InsideLook(w)
  BY DEF Resume
<1> QED
  BY <1>1, <1>6, <1>7, <1>8, <1>10, <1>11, LookKeepsRow

LEMMA RecoverIsSound ==
  ASSUME TInv, NEW w \in Worker, Recover(w)
  PROVE  Sound
<1>1. /\ wk[w].pc = "claimed" /\ wk[w].task \in Task
      /\ \A t \in Task : holder[t] # w
      /\ proposal[wk[w].task] = "none" /\ Len(turns[wk[w].task]) \in Nat
  BY LookGoesOn DEF Recover
<1>2. Shapes
  BY DEF TInv
<1> DEFINE n == Len(turns[wk[w].task])
<1>3. PICK result \in ToolResult :
         wk' = [wk EXCEPT ![w] = [wk[w] EXCEPT !.pc = "observe", !.turn = n, !.out = result]]
  BY DEF Recover
<1>4. n \in Nat
  BY <1>1
<1>5. n = Len(turns[wk[w].task])
  OBVIOUS
<1> HIDE DEF n
<1>6. /\ wk' \in [Worker -> WorkerState] /\ MovesAlone(w)
      /\ SameClaim(w) /\ wk'[w].pc = "observe" /\ wk'[w].out = result /\ wk'[w].turn = n
  BY <1>2, <1>3, <1>4, TurnMoves DEF Out, Busy, ToolResult
<1>7. QuietMove(w) /\ UNCHANGED holder
  BY <1>1, <1>6 DEF QuietMove, GoesOn, Recover, Busy
<1>8. Carried(w)'
  BY <1>6 DEF Carried, ToolResult
<1>9. /\ turns[wk[w].task] # <<>> /\ turns[wk[w].task][n] = "call"
      /\ obs[wk[w].task] = <<>>
  BY <1>5 DEF Recover, InFlight
<1>10. Informed(w)'
  <2>1. LastCall(w)' /\ Unanswered(w)'
    BY <1>5, <1>6, <1>9 DEF SameClaim, Recover, facts, LastCall, Unanswered
  <2> QED
    BY <1>1, <1>6, <2>1 DEF Informed, SameClaim, Recover, facts
<1> QED
  BY <1>1, <1>6, <1>7, <1>8, <1>10, QuietMoves

LEMMA ThinkIsSound ==
  ASSUME TInv, NEW w \in Worker, Think(w)
  PROVE  Sound
<1>1. /\ wk[w].pc = "claimed" /\ wk[w].task \in Task
      /\ \A t \in Task : holder[t] # w
      /\ proposal[wk[w].task] = "none" /\ Len(turns[wk[w].task]) < MaxTurns
      /\ Len(turns[wk[w].task]) + 1 \in Nat
  BY LookGoesOn DEF Think
<1>2. Shapes /\ wk[w] \in WorkerState
  BY <1>1 DEF TInv, Shapes
<1> DEFINE n == Len(turns[wk[w].task]) + 1
           row == [wk[w] EXCEPT !.pc = "ask", !.turn = n]
<1>3. wk' = [wk EXCEPT ![w] = row] /\ n \in Nat
  BY <1>1 DEF Think
<1> HIDE DEF n
<1>4. /\ row \in WorkerState /\ row.pc = "ask" /\ row.task = wk[w].task
      /\ row.epoch = wk[w].epoch /\ row.runEpoch = wk[w].runEpoch
  BY <1>2, <1>3 DEF WorkerState, Busy
<1> HIDE DEF row
<1>5. wk' \in [Worker -> WorkerState] /\ wk'[w] = row /\ MovesAlone(w)
  BY <1>2, <1>3, <1>4, Moved
<1>6. QuietMove(w) /\ UNCHANGED holder
  BY <1>1, <1>4, <1>5 DEF QuietMove, GoesOn, Think, Busy, SameClaim
<1>7. Carried(w)'
  BY <1>4, <1>5 DEF Carried
<1>8. Informed(w)'
  BY <1>1, <1>4, <1>5 DEF Informed, Think, facts, Waiting
<1> QED
  BY <1>1, <1>6, <1>7, <1>8, QuietMoves

-----------------------------------------------------------------------------
(* Steps of a worker that write rows *)

LEMMA ClaimWriteIsSound ==
  ASSUME TInv, NEW w \in Worker, ClaimWrite(w)
  PROVE  Sound
<1>1. /\ wk[w].pc = "claim" /\ wk[w].task \in Task /\ wk[w] \in WorkerState /\ Shapes
      /\ Employed(w) /\ Rows
  BY LookIsOfTask DEF ClaimWrite, Busy, TInv
<1> DEFINE t == wk[w].task
           row == [status |-> "running", owner |-> w, live |-> TRUE, epoch |-> wk[w].epoch]
<1>2. /\ row \in TaskRow /\ row.status = "running" /\ row.owner = w /\ row.live
      /\ row.epoch = wk[w].epoch
  BY <1>1 DEF TaskRow, WorkerState
<1>3. task' = [task EXCEPT ![t] = row] /\ holder' = [holder EXCEPT ![t] = Nobody]
  BY DEF ClaimWrite
<1> HIDE DEF row
<1>4. /\ task' \in [Task -> TaskRow] /\ task'[t] = row
      /\ \A u \in Task \ {t} : task'[u] = task[u]
  BY <1>1, <1>2, <1>3, RowWritten
<1>5. /\ wk' \in [Worker -> WorkerState] /\ MovesAlone(w)
      /\ SameClaim(w) /\ wk'[w].pc = "claimed"
  BY <1>1, GotoMoves DEF ClaimWrite, Yield, Out, Busy
<1>6. holder[t] = w
  BY <1>1 DEF Employed, Busy
<1>7. /\ holder' \in [Task -> Worker \union {Nobody}] /\ holder'[t] = Nobody
      /\ \A u \in Task \ {t} : holder'[u] = holder[u] /\ holder[u] # w
  BY <1>1, <1>3, NobodyIsNoWorker DEF Shapes, Rows, Locks
<1>8. Shapes'
  BY <1>1, <1>4, <1>5, <1>7 DEF Shapes, ClaimWrite, stop, facts, bounds
<1>9. Claims(w, t)
  BY <1>1, <1>2, <1>4, <1>5 DEF Claims, ClaimWrite
<1>10. \A u \in Task : RowEffect(u) /\ HistoryEffect(u)
  BY <1>4, <1>9 DEF RowEffect, Keeps, HistoryEffect, Rests, ClaimWrite, facts
<1>11. Effect
  BY <1>8, <1>10 DEF Effect, ClaimWrite, stop, Stopped
<1>12. LockEffect(w)
  BY <1>6, <1>7 DEF LockEffect
<1>13. Employed(w)'
  BY <1>1, <1>2, <1>4, <1>5 DEF Employed, SameClaim, ClaimWrite, DependenciesDone, WorkerState, Busy
<1>14. Carried(w)' /\ Informed(w)'
  BY <1>5 DEF Carried, Informed
<1> QED
  BY <1>5, <1>11, <1>12, <1>13, <1>14 DEF Sound, GoodMove

LEMMA SettleIsSound ==
  ASSUME TInv, NEW w \in Worker, Settle(w)
  PROVE  Sound
<1>1. /\ wk[w].pc = "settle" /\ wk[w].task \in Task /\ Shapes /\ Carried(w) /\ Rows
      /\ Free(wk[w].task)
  BY LookIsOfTask DEF Settle, Busy, TInv
<1>2. /\ wk' \in [Worker -> WorkerState] /\ MovesAlone(w) /\ wk'[w].pc = "idle"
      /\ Employed(w)' /\ Carried(w)' /\ Informed(w)'
  BY <1>1, DropMoves DEF Settle
<1>3. \A u \in Task : holder[u] # w
  BY <1>1, HoldsNothing
<1> DEFINE t == wk[w].task
<1>4. CASE ~Concluded(t) /\ Claimant(w) /\ RunAccepts(w)
  <2>1. PICK r \in TaskRow : r = task[t]
    BY <1>1 DEF Shapes
  <2>2. wk[w].out \in Terminal
    BY <1>1 DEF Carried
  <2> DEFINE row == [task[t] EXCEPT !.status = wk[w].out, !.owner = Nobody, !.live = FALSE]
  <2>3. /\ row \in TaskRow /\ row.status = wk[w].out /\ row.owner = Nobody
        /\ row.epoch = task[t].epoch /\ ~row.live
    BY <2>1, <2>2 DEF TaskRow
  <2>4. task' = [task EXCEPT ![t] = row] /\ outcome' = [outcome EXCEPT ![t] = wk[w].out]
    BY <1>1, <1>4 DEF Settle, Shapes
  <2> HIDE DEF row
  <2>5. /\ task' \in [Task -> TaskRow] /\ task'[t] = row
        /\ \A u \in Task \ {t} : task'[u] = task[u]
    BY <1>1, <2>3, <2>4, RowWritten
  <2>6. /\ outcome' \in [Task -> {"none"} \union Terminal] /\ outcome'[t] = wk[w].out
        /\ \A u \in Task \ {t} : outcome'[u] = outcome[u]
    BY <1>1, <2>2, <2>4 DEF Shapes
  <2>7. Shapes'
    BY <1>1, <1>2, <2>5, <2>6 DEF Shapes, Settle, stop, facts, bounds
  <2>8. Concludes(w, t)
    <3>1. holder[t] = Nobody
      BY <1>1, FreeIsUnheld
    <3> QED
      BY <1>1, <1>2, <1>4, <2>3, <2>5, <2>6, <3>1 DEF Concludes, RunAccepts
  <2>9. \A u \in Task : RowEffect(u) /\ HistoryEffect(u)
    BY <2>5, <2>6, <2>8 DEF RowEffect, Keeps, HistoryEffect, Rests, Settle, facts
  <2>10. Effect
    BY <2>7, <2>9 DEF Effect, Settle, stop, Stopped
  <2>11. LockEffect(w)
    BY <1>3 DEF LockEffect, Settle
  <2> QED
    BY <1>2, <2>10, <2>11 DEF Sound, GoodMove
<1>5. CASE ~(~Concluded(t) /\ Claimant(w) /\ RunAccepts(w))
  BY <1>2, <1>3, <1>5, QuietLeap DEF Settle
<1> QED
  BY <1>4, <1>5

(* A task with an outcome has no claimant. *)
LEMMA ConcludedHasNoClaimant ==
  ASSUME TInv, NEW w \in Worker, wk[w].task \in Task, Concluded(wk[w].task)
  PROVE  ~Current(w)
BY NobodyIsNoWorker DEF TInv, OutcomeAgrees, Current

LEMMA AskIsSound ==
  ASSUME TInv, NEW w \in Worker, Ask(w)
  PROVE  Sound
<1>1. wk[w].pc = "ask" /\ Shapes /\ Rows /\ Informed(w)
  BY LookIsOfTask DEF Ask, Busy, TInv
<1>2. PICK pc \in {"note", "settle", "call", "propose"}, out \in Out :
        /\ Goto(w, pc, out)
        /\ pc = "note" => out \in {"invalid", "budget"}
        /\ pc = "propose" => out \in {"valid", "partial"}
        /\ pc = "settle" => out = "cancelled" /\ Stopped
  BY DEF Ask, Out, Terminal
<1>3. /\ wk' \in [Worker -> WorkerState] /\ MovesAlone(w)
      /\ SameClaim(w) /\ wk'[w].pc = pc /\ wk'[w].out = out
  BY <1>1, <1>2, GotoMoves DEF Busy
<1>4. QuietMove(w) /\ UNCHANGED holder
  BY <1>1, <1>3 DEF QuietMove, GoesOn, Ask, Busy
<1>5. Carried(w)'
  BY <1>2, <1>3 DEF Carried, Terminal
<1>6. Informed(w)'
  BY <1>1, <1>2, <1>3 DEF Informed, Current, SameClaim, Ask, stop, facts, Stopped, Waiting, Busy
<1> QED
  BY <1>1, <1>4, <1>5, <1>6, HoldsNothing, QuietMoves

LEMMA ExecuteIsSound ==
  ASSUME TInv, NEW w \in Worker, Execute(w)
  PROVE  Sound
<1>1. wk[w].pc = "execute" /\ Shapes /\ Rows /\ Informed(w)
  BY LookIsOfTask DEF Execute, Busy, TInv
<1>2. PICK pc \in {"observe", "settle"}, out \in Out :
        /\ Goto(w, pc, out)
        /\ pc = "observe" => out \in ToolResult \/ (out = "stopped" /\ Stopped)
        /\ pc = "settle" => out = "cancelled" /\ Stopped
  BY DEF Execute, Out, Terminal, ToolResult
<1>3. /\ wk' \in [Worker -> WorkerState] /\ MovesAlone(w)
      /\ SameClaim(w) /\ wk'[w].pc = pc /\ wk'[w].out = out /\ wk'[w].turn = wk[w].turn
  BY <1>1, <1>2, GotoMoves DEF Busy
<1>4. QuietMove(w) /\ UNCHANGED holder
  BY <1>1, <1>3 DEF QuietMove, GoesOn, Execute, Busy
<1>5. Carried(w)'
  <2>1. Stopped' = Stopped
    BY DEF Execute, stop, Stopped
  <2> QED
    BY <1>2, <1>3, <2>1 DEF Carried, Terminal, ToolResult
<1>6. Informed(w)'
  <2>1. Current(w)' => Current(w)
    BY <1>1, <1>3 DEF Current, SameClaim, Execute, Busy
  <2>2. LastCall(w) => LastCall(w)'
    BY <1>3 DEF LastCall, SameClaim, Execute, facts
  <2>3. Unanswered(w) => Unanswered(w)'
    BY <1>3 DEF Unanswered, SameClaim, Execute, facts
  <2> QED
    BY <1>1, <1>2, <1>3, <2>1, <2>2, <2>3
    DEF Informed, SameClaim, Execute, stop, facts, Stopped
<1> QED
  BY <1>1, <1>4, <1>5, <1>6, HoldsNothing, QuietMoves

LEMMA TurnAppended ==
  ASSUME Shapes, NEW w \in Worker, wk[w].task \in Task, NEW kind \in TurnKind,
         Append1(w, kind)
  PROVE  /\ turns' \in [Task -> Seq(TurnKind)]
         /\ turns'[wk[w].task] = Append(turns[wk[w].task], kind)
         /\ turns'[wk[w].task] # <<>>
         /\ Len(turns'[wk[w].task]) = Len(turns[wk[w].task]) + 1
         /\ turns'[wk[w].task][Len(turns[wk[w].task]) + 1] = kind
         /\ \A u \in Task \ {wk[w].task} : turns'[u] = turns[u]
<1>1. turns \in [Task -> Seq(TurnKind)] /\ turns[wk[w].task] \in Seq(TurnKind)
  BY DEF Shapes
<1> DEFINE s == Append(turns[wk[w].task], kind)
<1>2. /\ s \in Seq(TurnKind) /\ s # <<>> /\ Len(s) = Len(turns[wk[w].task]) + 1
      /\ s[Len(turns[wk[w].task]) + 1] = kind
  BY <1>1, AppendProperties
<1>3. turns' = [turns EXCEPT ![wk[w].task] = s]
  BY DEF Append1
<1> QED
  BY <1>1, <1>2, <1>3

(* The claimant adds a turn, and with a proposal writes it. *)
LEMMA TurnIsSound ==
  ASSUME TInv, NEW w \in Worker, wk[w].pc \in {"note", "propose", "call"},
         GoesOn(w), wk'[w].pc # wk[w].pc, MayAppend(w),
         NEW kind \in TurnKind, Append1(w, kind),
         proposal' \in [Task -> {"none", "valid", "partial"}],
         \A u \in Task \ {wk[w].task} : proposal'[u] = proposal[u],
         UNCHANGED <<db, stop, task, obs, outcome, overdue, holder, bounds>>,
         Carried(w)', Informed(w)'
  PROVE  Sound
<1>1. Shapes /\ Rows /\ wk[w].task \in Task /\ Employed(w)
  BY LookIsOfTask DEF TInv, GoesOn
<1>2. /\ turns' \in [Task -> Seq(TurnKind)]
      /\ turns'[wk[w].task] = Append(turns[wk[w].task], kind)
      /\ \A u \in Task \ {wk[w].task} : turns'[u] = turns[u]
  BY <1>1, TurnAppended
<1>3. Shapes'
  BY <1>1, <1>2 DEF Shapes, stop, bounds, GoesOn
<1>4. TakesTurn(w, wk[w].task)
  BY <1>2 DEF TakesTurn, MayAppend
<1>5. \A u \in Task : RowEffect(u) /\ HistoryEffect(u)
  BY <1>2, <1>4 DEF RowEffect, Keeps, HistoryEffect, Rests
<1>6. Effect
  BY <1>3, <1>5 DEF Effect, stop, Stopped
<1>7. LockEffect(w)
  BY <1>1, HoldsNothing DEF LockEffect
<1>8. Employed(w)'
  BY <1>1 DEF Employed, GoesOn, SameClaim, DependenciesDone
<1> QED
  BY <1>6, <1>7, <1>8 DEF Sound, GoodMove, GoesOn

LEMMA EntitledIsCurrent ==
  ASSUME NEW w \in Worker, wk[w].pc \in Busy, Entitled(w)
  PROVE  Current(w)
BY DEF Entitled, Claimant, Current

LEMMA NoteIsSound ==
  ASSUME TInv, NEW w \in Worker, Note(w)
  PROVE  Sound
<1>1. /\ wk[w].pc = "note" /\ wk[w].task \in Task /\ Shapes /\ Rows
      /\ Carried(w) /\ Informed(w)
  BY LookIsOfTask DEF Note, Busy, TInv
<1>2. ASSUME Goto(w, "settle", "failed")
      PROVE  /\ GoesOn(w) /\ wk'[w].pc = "settle" /\ wk'[w].out = "failed" /\ Carried(w)'
  <2>1. /\ wk' \in [Worker -> WorkerState] /\ MovesAlone(w)
        /\ SameClaim(w) /\ wk'[w].pc = "settle" /\ wk'[w].out = "failed"
    BY <1>1, <1>2, GotoMoves DEF Out, Busy, ToolResult
  <2> QED
    BY <1>1, <2>1 DEF GoesOn, Busy, Carried, Terminal
<1>3. \A t \in Task : holder[t] # w
  BY <1>1, HoldsNothing
<1>4. CASE Concluded(wk[w].task)
  <2>1. QuietMove(w) /\ UNCHANGED holder /\ Carried(w)' /\ wk'[w].pc = "settle"
    BY <1>2, <1>4 DEF Note, QuietMove, facts
  <2>2. ~Current(w)'
    <3>1. ~Current(w)
      BY <1>1, <1>4, ConcludedHasNoClaimant
    <3> QED
      BY <1>1, <2>1, <3>1 DEF Current, QuietMove, GoesOn, SameClaim, Busy
  <2>3. Informed(w)'
    BY <2>2 DEF Informed
  <2> QED
    BY <1>3, <2>1, <2>3, QuietMoves
<1>5. CASE ~Concluded(wk[w].task) /\ MayAppend(w)
  <2>1. Goto(w, "settle", "failed") /\ Append1(w, wk[w].out)
    BY <1>5 DEF Note
  <2>2. wk[w].out \in TurnKind
    BY <1>1 DEF Carried, TurnKind
  <2>3. proposal[wk[w].task] = "none" /\ proposal' = proposal
    BY <1>1, <1>5, EntitledIsCurrent DEF Informed, MayAppend, Note, Busy
  <2>4. Informed(w)'
    BY <1>2, <2>1, <2>3 DEF Informed, GoesOn, SameClaim
  <2> QED
    BY <1>1, <1>2, <1>5, <2>1, <2>2, <2>3, <2>4, TurnIsSound DEF Note, Shapes
<1>6. CASE ~Concluded(wk[w].task) /\ ~MayAppend(w)
  <2>1. Drop(w) /\ UNCHANGED <<db, stop, task, facts, outcome, overdue, holder, bounds>>
    BY <1>6 DEF Note, facts
  <2> QED
    BY <1>1, <1>3, <2>1, DropMoves, QuietLeap
<1> QED
  BY <1>4, <1>5, <1>6

LEMMA ProposeIsSound ==
  ASSUME TInv, NEW w \in Worker, Propose(w)
  PROVE  Sound
<1>1. /\ wk[w].pc = "propose" /\ wk[w].task \in Task /\ Shapes /\ Rows
      /\ Carried(w) /\ Informed(w)
  BY LookIsOfTask DEF Propose, Busy, TInv
<1>2. \A t \in Task : holder[t] # w
  BY <1>1, HoldsNothing
<1>3. CASE MayAppend(w)
  <2> DEFINE out == IF wk[w].out = "valid" THEN "completed" ELSE "partial"
  <2>1. Goto(w, "settle", out) /\ Append1(w, "proposal")
        /\ proposal' = [proposal EXCEPT ![wk[w].task] = wk[w].out]
    BY <1>3 DEF Propose
  <2>2. wk[w].out \in {"valid", "partial"} /\ out \in Terminal
    BY <1>1 DEF Carried, Terminal
  <2>3. /\ out = "completed" <=> wk[w].out = "valid"
        /\ out = "partial" <=> wk[w].out = "partial"
    BY <2>2
  <2> HIDE DEF out
  <2>4. /\ wk' \in [Worker -> WorkerState] /\ MovesAlone(w)
        /\ SameClaim(w) /\ wk'[w].pc = "settle" /\ wk'[w].out = out
    BY <1>1, <2>1, <2>2, GotoMoves DEF Out, Busy
  <2>5. GoesOn(w) /\ Carried(w)' /\ wk'[w].pc # wk[w].pc
    BY <1>1, <2>2, <2>4 DEF GoesOn, Busy, Carried
  <2>6. /\ proposal' \in [Task -> {"none", "valid", "partial"}]
        /\ proposal'[wk[w].task] = wk[w].out
        /\ \A u \in Task \ {wk[w].task} : proposal'[u] = proposal[u]
    BY <1>1, <2>1, <2>2 DEF Shapes
  <2>7. Informed(w)'
    BY <2>3, <2>4, <2>6 DEF Informed, SameClaim
  <2>8. "proposal" \in TurnKind
    BY DEF TurnKind
  <2> QED
    BY <1>1, <1>3, <2>1, <2>5, <2>6, <2>7, <2>8, TurnIsSound DEF Propose
<1>4. CASE ~MayAppend(w)
  <2>1. Drop(w) /\ UNCHANGED <<db, stop, task, facts, outcome, overdue, holder, bounds>>
    BY <1>4 DEF Propose, facts
  <2> QED
    BY <1>1, <1>2, <2>1, DropMoves, QuietLeap
<1> QED
  BY <1>3, <1>4

LEMMA CallIsSound ==
  ASSUME TInv, NEW w \in Worker, Call(w)
  PROVE  Sound
<1>1. /\ wk[w].pc = "call" /\ wk[w].task \in Task /\ Shapes /\ Rows
      /\ Carried(w) /\ Informed(w) /\ Answers(wk[w].task)
  BY LookIsOfTask DEF Call, Busy, TInv
<1>2. \A t \in Task : holder[t] # w
  BY <1>1, HoldsNothing
<1>3. CASE MayAppend(w)
  <2>1. Goto(w, "execute", "none") /\ Append1(w, "call")
    BY <1>3 DEF Call
  <2>2. /\ wk' \in [Worker -> WorkerState] /\ MovesAlone(w)
        /\ SameClaim(w) /\ wk'[w].pc = "execute" /\ wk'[w].turn = wk[w].turn
    BY <1>1, <2>1, GotoMoves DEF Out, Busy
  <2>3. GoesOn(w) /\ Carried(w)' /\ wk'[w].pc # wk[w].pc
    BY <1>1, <2>2 DEF GoesOn, Busy, Carried
  <2>4. "call" \in TurnKind
    BY DEF TurnKind
  <2>5. /\ turns'[wk[w].task] # <<>>
        /\ Len(turns'[wk[w].task]) = Len(turns[wk[w].task]) + 1
        /\ turns'[wk[w].task][Len(turns[wk[w].task]) + 1] = "call"
    BY <1>1, <2>1, <2>4, TurnAppended
  <2>6. wk[w].turn = Len(turns[wk[w].task]) + 1
    BY <1>3 DEF MayAppend
  <2>7. LastCall(w)'
    BY <2>2, <2>5, <2>6 DEF LastCall, SameClaim
  <2>8. Unanswered(w)'
    <3>1. ASSUME NEW i \in DOMAIN obs[wk[w].task]
          PROVE  obs[wk[w].task][i].turn < wk[w].turn
      <4>1. turns[wk[w].task] \in Seq(TurnKind)
        BY <1>1 DEF Shapes
      <4>2. obs[wk[w].task][i].turn \in 1..Len(turns[wk[w].task])
        BY <1>1, <4>1 DEF Answers
      <4> QED
        BY <2>6, <4>1, <4>2
    <3> QED
      BY <2>2, <3>1 DEF Unanswered, SameClaim, Call
  <2>9. proposal[wk[w].task] = "none" /\ proposal' = proposal
    BY <1>1, <1>3, EntitledIsCurrent DEF Informed, MayAppend, Call, Busy
  <2>10. Informed(w)'
    BY <2>2, <2>7, <2>8, <2>9 DEF Informed, SameClaim
  <2> QED
    BY <1>1, <1>3, <2>1, <2>3, <2>4, <2>9, <2>10, TurnIsSound DEF Call, Shapes
<1>4. CASE ~MayAppend(w)
  <2>1. Drop(w) /\ UNCHANGED <<db, stop, task, facts, outcome, overdue, holder, bounds>>
    BY <1>4 DEF Call, facts
  <2> QED
    BY <1>1, <1>2, <2>1, DropMoves, QuietLeap
<1> QED
  BY <1>3, <1>4

LEMMA AfterObservationMoves ==
  ASSUME TInv, NEW w \in Worker, wk[w].pc = "observe", NEW os, AfterObservation(w, os)
  PROVE  /\ GoesOn(w) /\ wk'[w].pc \in {"claimed", "settle"}
         /\ wk'[w].pc = "settle" => \/ wk'[w].out = "failed"
                                    \/ wk'[w].out = "cancelled" /\ Stopped
<1>1. Shapes /\ Carried(w)
  BY LookIsOfTask DEF Busy
<1>2. \/ Goto(w, "settle", "failed") \/ Goto(w, "claimed", "none")
      \/ Goto(w, "settle", "cancelled") /\ Stopped
  BY <1>1 DEF AfterObservation, Yield, Carried
<1>3. CASE Goto(w, "settle", "failed")
  <2>1. /\ wk' \in [Worker -> WorkerState] /\ MovesAlone(w)
        /\ SameClaim(w) /\ wk'[w].pc = "settle" /\ wk'[w].out = "failed"
    BY <1>1, <1>3, GotoMoves DEF Out, Busy, ToolResult
  <2> QED
    BY <2>1 DEF GoesOn, Busy
<1>4. CASE Goto(w, "claimed", "none")
  <2>1. /\ wk' \in [Worker -> WorkerState] /\ MovesAlone(w)
        /\ SameClaim(w) /\ wk'[w].pc = "claimed"
    BY <1>1, <1>4, GotoMoves DEF Out, Busy
  <2> QED
    BY <2>1 DEF GoesOn, Busy
<1>5. CASE Goto(w, "settle", "cancelled") /\ Stopped
  <2>1. /\ wk' \in [Worker -> WorkerState] /\ MovesAlone(w)
        /\ SameClaim(w) /\ wk'[w].pc = "settle" /\ wk'[w].out = "cancelled"
    BY <1>1, <1>5, GotoMoves DEF Out, Busy, Terminal
  <2> QED
    BY <1>5, <2>1 DEF GoesOn, Busy
<1> QED
  BY <1>2, <1>3, <1>4, <1>5

LEMMA ObserveIsSound ==
  ASSUME TInv, NEW w \in Worker, Observe(w)
  PROVE  Sound
<1>1. /\ wk[w].pc = "observe" /\ wk[w].task \in Task /\ wk[w] \in WorkerState
      /\ Shapes /\ Rows /\ Carried(w) /\ Informed(w) /\ Employed(w) /\ Free(wk[w].task)
  BY LookIsOfTask DEF Observe, Busy, TInv
<1>2. \A t \in Task : holder[t] # w
  BY <1>1, HoldsNothing
<1> DEFINE t == wk[w].task
<1>3. ASSUME NEW os, AfterObservation(w, os)
      PROVE  GoesOn(w) /\ Carried(w)' /\ wk'[w] # wk[w]
  <2>1. GoesOn(w) /\ wk'[w].pc \in {"claimed", "settle"}
        /\ (wk'[w].pc = "settle" => wk'[w].out \in {"failed", "cancelled"})
    BY <1>1, <1>3, AfterObservationMoves
  <2> QED
    BY <1>1, <2>1 DEF Carried, Terminal
<1>4. CASE Concluded(t)
  <2>1. QuietMove(w) /\ UNCHANGED holder /\ Carried(w)'
    BY <1>3, <1>4 DEF Observe, QuietMove, facts
  <2>2. ~Current(w)'
    <3>1. ~Current(w)
      BY <1>1, <1>4, ConcludedHasNoClaimant
    <3> QED
      BY <1>1, <2>1, <3>1 DEF Current, QuietMove, GoesOn, SameClaim, Busy
  <2>3. Informed(w)'
    BY <2>2 DEF Informed
  <2> QED
    BY <1>2, <2>1, <2>3, QuietMoves
<1>5. CASE ~Concluded(t) /\ Claimant(w)
  <2> DEFINE row == [turn |-> wk[w].turn, status |-> StatusOf(wk[w].out)]
  <2>1. row \in Observation
    BY <1>1 DEF Carried, StatusOf, Observation, ToolResult, WorkerState
  <2>2. obs' = [obs EXCEPT ![t] = Append(obs[t], row)] /\ AfterObservation(w, obs'[t])
    BY <1>1, <1>5 DEF Observe, Shapes
  <2>3. obs'[t] = Append(obs[t], row)
    BY <1>1, <2>2 DEF Shapes
  <2> HIDE DEF row
  <2>4. /\ obs' \in [Task -> Seq(Observation)]
        /\ \A u \in Task \ {t} : obs'[u] = obs[u]
    <3>1. obs[t] \in Seq(Observation) /\ Append(obs[t], row) \in Seq(Observation)
      BY <1>1, <2>1 DEF Shapes
    <3> QED
      BY <1>1, <2>2, <3>1 DEF Shapes
  <2>5. /\ GoesOn(w) /\ Carried(w)' /\ wk'[w] # wk[w]
        /\ wk'[w].pc \in {"claimed", "settle"}
        /\ wk'[w].pc = "settle" => \/ wk'[w].out = "failed"
                                   \/ wk'[w].out = "cancelled" /\ Stopped
    BY <1>1, <1>3, <2>2, AfterObservationMoves
  <2>6. proposal[t] = "none" /\ proposal' = proposal
    BY <1>1, <1>5, EntitledIsCurrent DEF Informed, Entitled, Observe, Busy
  <2>7. Informed(w)'
    BY <2>5, <2>6 DEF Informed, GoesOn, SameClaim, Observe, stop, Stopped
  <2>8. Shapes'
    BY <1>1, <2>4, <2>5 DEF Shapes, stop, bounds, GoesOn, Observe
  <2>9. Observes(w, t)
    BY <1>1, <1>5, <2>3, <2>5 DEF Observes, Entitled, Observe, row
  <2>10. \A u \in Task : RowEffect(u) /\ HistoryEffect(u)
    BY <2>4, <2>9 DEF RowEffect, Keeps, HistoryEffect, Rests, Observe
  <2>11. Effect
    BY <2>8, <2>10 DEF Effect, stop, Stopped, Observe
  <2>12. LockEffect(w)
    BY <1>2 DEF LockEffect, Observe
  <2>13. Employed(w)'
    BY <1>1, <2>5 DEF Employed, GoesOn, SameClaim, DependenciesDone, Observe
  <2> QED
    BY <2>5, <2>7, <2>11, <2>12, <2>13 DEF Sound, GoodMove, GoesOn
<1>6. CASE ~Concluded(t) /\ ~Claimant(w)
  <2>1. Drop(w) /\ UNCHANGED <<db, stop, task, facts, outcome, overdue, holder, bounds>>
    BY <1>6 DEF Observe, facts
  <2> QED
    BY <1>1, <1>2, <2>1, DropMoves, QuietLeap
<1> QED
  BY <1>4, <1>5, <1>6

(* Every step is sound. *)
LEMMA StepIsSound ==
  ASSUME TInv, Next
  PROVE  Sound
<1>1. ASSUME NEW w \in Worker, Step(w) PROVE Sound
  BY <1>1, ClaimWriteIsSound, AdaptIsSound, SettleIsSound, TurnedAwayIsSound,
     JudgeIsSound, ResumeIsSound, RecoverIsSound, ThinkIsSound, AskIsSound,
     NoteIsSound, ProposeIsSound, CallIsSound, ExecuteIsSound, ObserveIsSound, Zenon
  DEF Step
<1> QED
  BY <1>1, StopReadIsSound, StopWriteIsSound, RefreshReadyIsSound, OverdueIsSound,
     LapseIsSound, TakeRunIsSound, CrashIsSound, ReclaimIsSound, ClaimReadIsSound, Zenon
  DEF Next

-----------------------------------------------------------------------------
(* A sound step keeps the invariant *)

(* Outcomes stand. *)
LEMMA OutcomeIsFinal ==
  ASSUME Effect, NEW t \in Task, Concluded(t)
  PROVE  outcome'[t] = outcome[t]
<1>1. RowEffect(t)
  BY DEF Effect
<1> QED
  BY <1>1 DEF RowEffect, Keeps, Lapses, Cancels, Readies, Claims, Concludes

LEMMA DependenciesStayDone ==
  ASSUME Effect, NEW t \in Task, DependenciesDone(t)
  PROVE  DependenciesDone(t)'
<1> SUFFICES ASSUME NEW u \in Needs[t] PROVE outcome'[u] = "completed"
  BY DEF DependenciesDone
<1>1. u \in Task /\ outcome[u] = "completed"
  BY NeedsAreTasks DEF DependenciesDone
<1> QED
  BY <1>1, OutcomeIsFinal DEF Concluded

(* A claim that is written was made between its halves. *)
LEMMA ClaimsAreOpen ==
  ASSUME TInv, NEW w \in Worker, NEW t \in Task, Claims(w, t)
  PROVE  /\ holder[t] = w /\ DependenciesDone(t)
         /\ wk[w].epoch = task[t].epoch + 1 /\ task[t].status \notin Terminal
         /\ task[t].epoch \in Nat
<1>1. Employed(w) /\ Shapes
  BY DEF TInv, Crew
<1>2. task[t].epoch \in Nat
  BY <1>1 DEF Shapes, TaskRow
<1> QED
  BY <1>1, <1>2 DEF Employed, Claims, Busy

LEMMA EpochsGrow ==
  ASSUME TInv, Effect, NEW t \in Task
  PROVE  task'[t].epoch \in Nat /\ task[t].epoch \in Nat /\ task'[t].epoch >= task[t].epoch
<1>1. RowEffect(t) /\ Shapes'
  BY DEF Effect
<1>2. task[t].epoch \in Nat /\ task'[t].epoch \in Nat
  BY <1>1 DEF TInv, Shapes, TaskRow
<1>3. CASE \E w \in Worker : Claims(w, t)
  <2>1. PICK w \in Worker : Claims(w, t)
    BY <1>3
  <2>2. task'[t].epoch = task[t].epoch + 1
    BY <2>1, ClaimsAreOpen DEF Claims
  <2> QED
    BY <1>2, <2>2
<1>4. CASE ~\E w \in Worker : Claims(w, t)
  <2>1. task'[t].epoch = task[t].epoch
    BY <1>1, <1>4 DEF RowEffect, Keeps, Lapses, Cancels, Readies, Concludes
  <2> QED
    BY <1>2, <2>1
<1> QED
  BY <1>3, <1>4

LEMMA LocksStay ==
  ASSUME TInv, Sound, NEW t \in Task
  PROVE  Locks(t)'
<1>1. Shapes /\ Locks(t) /\ db' = db
  BY DEF TInv, Rows, Sound, Effect
<1>2. CASE Still
  BY <1>1, <1>2 DEF Still, Locks
<1>3. ASSUME NEW w \in Worker, GoodMove(w) PROVE Locks(t)'
  <2>1. \/ holder'[t] = holder[t] /\ holder[t] # w
        \/ holder[t] = w /\ holder'[t] = Nobody
        \/ /\ holder[t] = Nobody /\ holder'[t] = w /\ wk'[w].task = t
           /\ \/ wk'[w].pc = "claim"
              \/ db = "postgresql" /\ wk'[w].pc \in {"settle", "observe"}
    BY <1>3 DEF GoodMove, LockEffect
  <2>2. CASE holder'[t] = holder[t] /\ holder[t] # w
    <3>1. holder[t] # Nobody => wk'[holder[t]] = wk[holder[t]]
      BY <1>1, <1>3, <2>2 DEF Shapes, GoodMove, MovesAlone
    <3> QED
      BY <1>1, <2>2, <3>1 DEF Locks
  <2> QED
    BY <1>1, <2>1, <2>2 DEF Locks
<1> QED
  BY <1>2, <1>3 DEF Sound

LEMMA LiveRunsStays ==
  ASSUME TInv, Effect, NEW t \in Task
  PROVE  LiveRuns(t)'
<1>1. RowEffect(t) /\ LiveRuns(t) /\ (Stopped => Stopped')
  BY DEF TInv, Rows, Effect
<1>2. CASE Keeps(t)
  BY <1>1, <1>2 DEF Keeps, LiveRuns
<1>3. CASE Lapses(t)
  BY <1>3 DEF Lapses, LiveRuns
<1>4. CASE Cancels(t)
  BY <1>4 DEF Cancels, LiveRuns
<1>5. CASE Readies(t)
  BY <1>1, <1>5 DEF Readies, LiveRuns
<1>6. CASE \E w \in Worker : Claims(w, t) \/ Concludes(w, t)
  BY <1>6 DEF Claims, Concludes, LiveRuns
<1> QED
  BY <1>1, <1>2, <1>3, <1>4, <1>5, <1>6 DEF RowEffect

(* A worker that does not move stays employed and carries the same. *)
LEMMA OthersStayEmployed ==
  ASSUME TInv, Effect, NEW v \in Worker, wk'[v] = wk[v],
         \A t \in Task : holder[t] = v => holder'[t] = v
  PROVE  Employed(v)' /\ Carried(v)'
<1>1. Employed(v) /\ Carried(v) /\ Shapes /\ Shapes' /\ (Stopped => Stopped')
  BY DEF TInv, Crew, Effect
<1>2. Carried(v)'
  BY <1>1 DEF Carried
<1>3. ASSUME wk[v].pc \in Busy PROVE Employed(v)'
  <2> DEFINE t == wk[v].task
  <2>1. t \in Task /\ DependenciesDone(t) /\ wk[v].epoch \in Nat
    BY <1>1, <1>3 DEF Employed, Shapes, WorkerState
  <2>2. DependenciesDone(t)'
    BY <2>1, DependenciesStayDone
  <2>3. task'[t].epoch \in Nat /\ task[t].epoch \in Nat /\ task'[t].epoch >= task[t].epoch
    BY <2>1, EpochsGrow
  <2>4. CASE wk[v].pc # "claim"
    <3>1. wk[v].epoch <= task[t].epoch
      BY <1>1, <1>3, <2>4 DEF Employed
    <3>2. wk[v].epoch <= task'[t].epoch
      BY <2>1, <2>3, <3>1
    <3> QED
      BY <2>1, <2>2, <2>4, <3>2 DEF Employed, DependenciesDone
  <2>5. CASE wk[v].pc = "claim"
    <3>1. /\ holder[t] = v /\ wk[v].epoch = task[t].epoch + 1
          /\ task[t].status \notin Terminal
      BY <1>1, <1>3, <2>5 DEF Employed
    <3>2. holder[t] # Nobody
      BY <3>1, NobodyIsNoWorker
    <3>3. ~\E w \in Worker : Claims(w, t)
      <4> SUFFICES ASSUME NEW w \in Worker, Claims(w, t) PROVE FALSE
        OBVIOUS
      <4>1. w = v
        BY <2>1, <3>1, ClaimsAreOpen
      <4> QED
        BY <2>5, <4>1 DEF Claims
    <3>4. RowEffect(t)
      BY <2>1 DEF Effect
    <3>5. Keeps(t) \/ Lapses(t)
      BY <3>2, <3>3, <3>4 DEF RowEffect, Cancels, Readies, Concludes
    <3>6. task'[t].status = task[t].status /\ task'[t].epoch = task[t].epoch
      BY <3>5 DEF Keeps, Lapses
    <3>7. holder'[t] = v
      BY <2>1, <3>1
    <3> QED
      BY <2>1, <2>2, <2>5, <3>1, <3>6, <3>7 DEF Employed, DependenciesDone
  <2> QED
    BY <2>4, <2>5
<1>4. ASSUME wk[v].pc \notin Busy PROVE Employed(v)'
  BY <1>4 DEF Employed
<1> QED
  BY <1>2, <1>3, <1>4

LEMMA OthersKeepLocks ==
  ASSUME Sound, NEW v \in Worker, wk'[v] = wk[v],
         NEW w \in Worker, GoodMove(w), v # w
  PROVE  \A t \in Task : holder[t] = v => holder'[t] = v
BY NobodyIsNoWorker DEF GoodMove, LockEffect

(* Only the worker with the current claim writes the history of a task. *)
LEMMA WriterIsCurrent ==
  ASSUME Effect, NEW t \in Task
  PROVE  \/ Rests(t)
         \/ \E w \in Worker : /\ wk[w].task = t /\ wk'[w] # wk[w] /\ task[t].owner = w
                              /\ Entitled(w) /\ Current(w)
                              /\ TakesTurn(w, t) \/ Observes(w, t)
BY DEF Effect, HistoryEffect, TakesTurn, Observes, Entitled, Claimant, Current, Busy

LEMMA OthersStayInformed ==
  ASSUME TInv, Effect, NEW v \in Worker, wk'[v] = wk[v]
  PROVE  Informed(v)'
<1>1. Informed(v) /\ Employed(v) /\ (Stopped => Stopped')
  BY DEF TInv, Crew, History, Effect
<1> SUFFICES ASSUME Current(v)', wk[v].pc # "claim" PROVE Informed(v)'
  BY DEF Informed
<1> DEFINE t == wk[v].task
<1>2. t \in Task /\ wk[v].pc \in Busy /\ task'[t].owner = v /\ task'[t].epoch = wk[v].epoch
  BY <1>1 DEF Current, Employed
<1>3. task[t].owner = v /\ task[t].epoch = wk[v].epoch
  <2>1. RowEffect(t)
    BY <1>2 DEF Effect
  <2> QED
    BY <1>2, <2>1, NobodyIsNoWorker
    DEF RowEffect, Keeps, Lapses, Cancels, Readies, Claims, Concludes
<1>4. Current(v)
  BY <1>2, <1>3 DEF Current
<1>5. Rests(t)
  BY <1>2, <1>3, WriterIsCurrent
<1>6. LastCall(v) => LastCall(v)'
  BY <1>5 DEF LastCall, Rests
<1>7. Unanswered(v) => Unanswered(v)'
  BY <1>5 DEF Unanswered, Rests
<1>8. Waiting(t)' = Waiting(t) /\ turns'[t] = turns[t] /\ proposal'[t] = proposal[t]
  BY <1>5 DEF Waiting, Rests
<1> QED
  BY <1>1, <1>4, <1>6, <1>7, <1>8 DEF Informed

LEMMA WorkersStaySound ==
  ASSUME TInv, Sound, NEW v \in Worker
  PROVE  Employed(v)' /\ Carried(v)' /\ Informed(v)'
<1>1. Effect
  BY DEF Sound
<1>2. CASE Still
  BY <1>1, <1>2, OthersStayEmployed, OthersStayInformed DEF Still
<1>3. ASSUME NEW w \in Worker, GoodMove(w) PROVE Employed(v)' /\ Carried(v)' /\ Informed(v)'
  <2>1. CASE v = w
    BY <1>3, <2>1 DEF GoodMove
  <2>2. CASE v # w
    <3>1. wk'[v] = wk[v]
      BY <1>3, <2>2 DEF GoodMove, MovesAlone
    <3>2. \A t \in Task : holder[t] = v => holder'[t] = v
      BY <1>3, <2>2, <3>1, OthersKeepLocks
    <3> QED
      BY <1>1, <3>1, <3>2, OthersStayEmployed, OthersStayInformed
  <2> QED
    BY <2>1, <2>2
<1> QED
  BY <1>2, <1>3 DEF Sound

LEMMA HistoryShapes ==
  ASSUME Shapes, NEW t \in Task
  PROVE  /\ turns[t] \in Seq(TurnKind) /\ DOMAIN turns[t] = 1..Len(turns[t])
         /\ Len(turns[t]) \in Nat
         /\ obs[t] \in Seq(Observation) /\ DOMAIN obs[t] = 1..Len(obs[t])
         /\ Len(obs[t]) \in Nat
BY DEF Shapes

(* A new turn goes behind the others, and no call waits. *)
LEMMA TurnExtends ==
  ASSUME TInv, NEW w \in Worker, NEW t \in Task, TakesTurn(w, t), Current(w)
  PROVE  /\ Len(turns'[t]) = Len(turns[t]) + 1 /\ Len(turns[t]) < MaxTurns
         /\ DOMAIN turns'[t] = 1..(Len(turns[t]) + 1)
         /\ \A n \in DOMAIN turns[t] : turns'[t][n] = turns[t][n]
         /\ obs'[t] = obs[t] /\ ~Waiting(t)
<1>1. Shapes /\ Informed(w) /\ turns[t] \in Seq(TurnKind) /\ DOMAIN turns[t] = 1..Len(turns[t])
  BY HistoryShapes DEF TInv, History
<1>2. Len(turns[t]) < MaxTurns /\ ~Waiting(t)
  BY <1>1 DEF Informed, TakesTurn
<1>3. PICK kind \in TurnKind : turns'[t] = Append(turns[t], kind)
  BY DEF TakesTurn
<1>4. /\ Len(turns'[t]) = Len(turns[t]) + 1 /\ DOMAIN turns'[t] = 1..(Len(turns[t]) + 1)
      /\ \A n \in 1..Len(turns[t]) : turns'[t][n] = turns[t][n]
  BY <1>1, <1>3, AppendProperties
<1> QED
  BY <1>1, <1>2, <1>4 DEF TakesTurn

(* An observation answers the latest call, which has none or one that      *)
(* waits, and it comes behind the others.                                  *)
LEMMA ObservationExtends ==
  ASSUME TInv, NEW w \in Worker, NEW t \in Task, Observes(w, t), Current(w)
  PROVE  LET n == Len(turns[t])
             m == Len(obs[t])
         IN  /\ turns'[t] = turns[t] /\ n \in DOMAIN turns[t] /\ turns[t][n] = "call"
             /\ Len(obs'[t]) = m + 1 /\ DOMAIN obs'[t] = 1..(m + 1)
             /\ \A i \in DOMAIN obs[t] : obs'[t][i] = obs[t][i]
             /\ obs'[t][m + 1].turn = n
             /\ \/ \A i \in DOMAIN obs[t] : obs[t][i].turn < n
                \/ Waiting(t) /\ obs'[t][m + 1].status # "waiting"
<1>1. Shapes /\ Informed(w) /\ wk[w].pc = "observe" /\ wk[w].task = t
  BY DEF TInv, History, Observes
<1>2. /\ turns[t] \in Seq(TurnKind) /\ DOMAIN turns[t] = 1..Len(turns[t])
      /\ Len(turns[t]) \in Nat /\ obs[t] \in Seq(Observation)
      /\ DOMAIN obs[t] = 1..Len(obs[t]) /\ Len(obs[t]) \in Nat
  BY <1>1, HistoryShapes
<1>3. /\ turns[t] # <<>> /\ wk[w].turn = Len(turns[t])
      /\ turns[t][Len(turns[t])] = "call"
      /\ \/ \A i \in DOMAIN obs[t] : obs[t][i].turn < wk[w].turn
         \/ Waiting(t) /\ wk[w].out # "waiting"
  BY <1>1 DEF Informed, LastCall, Unanswered
<1>4. Len(turns[t]) \in DOMAIN turns[t]
  BY <1>2, <1>3
<1> DEFINE row == [turn |-> wk[w].turn, status |-> StatusOf(wk[w].out)]
<1>5. obs'[t] = Append(obs[t], row) /\ turns'[t] = turns[t]
  BY DEF Observes
<1>6. row.turn = Len(turns[t]) /\ (wk[w].out # "waiting" => row.status # "waiting")
  BY <1>3 DEF StatusOf
<1>7. row \in Observation
  <2>1. wk[w].out \in ToolResult \union {"stopped"} /\ wk[w].turn \in Nat
    BY <1>1, <1>2, <1>3 DEF TInv, Crew, Carried
  <2> QED
    BY <2>1 DEF Observation, StatusOf, ToolResult
<1> HIDE DEF row
<1>8. /\ Len(obs'[t]) = Len(obs[t]) + 1 /\ DOMAIN obs'[t] = 1..(Len(obs[t]) + 1)
      /\ \A i \in 1..Len(obs[t]) : obs'[t][i] = obs[t][i]
      /\ obs'[t][Len(obs[t]) + 1] = row
  BY <1>2, <1>5, <1>7, AppendProperties
<1> QED
  BY <1>2, <1>3, <1>4, <1>5, <1>6, <1>8

LEMMA AnswersStay ==
  ASSUME TInv, Effect, NEW t \in Task
  PROVE  Answers(t)'
<1>1. Shapes /\ Answers(t)
  BY DEF TInv, History
<1>2. /\ turns[t] \in Seq(TurnKind) /\ DOMAIN turns[t] = 1..Len(turns[t])
      /\ Len(turns[t]) \in Nat /\ obs[t] \in Seq(Observation)
      /\ DOMAIN obs[t] = 1..Len(obs[t]) /\ Len(obs[t]) \in Nat
  BY <1>1, HistoryShapes
<1>3. CASE Rests(t)
  BY <1>1, <1>3 DEF Answers, Rests, Waiting
<1>4. ASSUME NEW w \in Worker, TakesTurn(w, t), Current(w) PROVE Answers(t)'
  <2>1. /\ DOMAIN turns'[t] = 1..(Len(turns[t]) + 1)
        /\ \A n \in DOMAIN turns[t] : turns'[t][n] = turns[t][n]
        /\ obs'[t] = obs[t] /\ ~Waiting(t)
    BY <1>4, TurnExtends
  <2>2. ~Waiting(t)'
    BY <2>1 DEF Waiting
  <2>3. ASSUME NEW i \in DOMAIN obs[t]
        PROVE  obs[t][i].turn \in DOMAIN turns'[t] /\ turns'[t][obs[t][i].turn] = "call"
    <3>1. obs[t][i].turn \in 1..Len(turns[t]) /\ turns[t][obs[t][i].turn] = "call"
      BY <1>1, <1>2 DEF Answers
    <3> QED
      BY <1>2, <2>1, <3>1
  <2> QED
    BY <1>1, <2>1, <2>2, <2>3 DEF Answers
<1>5. ASSUME NEW w \in Worker, Observes(w, t), Current(w) PROVE Answers(t)'
  <2> DEFINE n == Len(turns[t])
             m == Len(obs[t])
  <2>1. /\ turns'[t] = turns[t] /\ n \in DOMAIN turns[t] /\ turns[t][n] = "call"
        /\ Len(obs'[t]) = m + 1 /\ DOMAIN obs'[t] = 1..(m + 1)
        /\ \A i \in DOMAIN obs[t] : obs'[t][i] = obs[t][i]
        /\ obs'[t][m + 1].turn = n
        /\ \/ \A i \in DOMAIN obs[t] : obs[t][i].turn < n
           \/ Waiting(t) /\ obs'[t][m + 1].status # "waiting"
    BY <1>5, ObservationExtends
  <2>2. n \in Nat /\ m \in Nat /\ DOMAIN obs[t] = 1..m /\ DOMAIN turns[t] = 1..n
    BY <1>2
  <2>3. \A i \in 1..m : obs[t][i].turn \in 1..n /\ turns[t][obs[t][i].turn] = "call"
    BY <1>1, <2>2 DEF Answers
  <2>4. \A i, k \in 1..m : i < k =>
          /\ obs[t][i].turn <= obs[t][k].turn
          /\ obs[t][i].turn = obs[t][k].turn =>
               k = i + 1 /\ obs[t][i].status = "waiting" /\ obs[t][k].status # "waiting"
    BY <1>1, <2>2 DEF Answers
  <2>5. Waiting(t) => m \in 1..m /\ obs[t][m].turn = n /\ obs[t][m].status = "waiting"
    BY <1>1, <1>2 DEF Answers, Waiting
  <2> HIDE DEF n, m
  <2>6. ASSUME NEW i \in DOMAIN obs'[t]
        PROVE  obs'[t][i].turn \in DOMAIN turns'[t] /\ turns'[t][obs'[t][i].turn] = "call"
    <3>1. CASE i = m + 1
      BY <2>1, <3>1
    <3>2. CASE i # m + 1
      <4>1. i \in 1..m
        BY <2>1, <2>2, <3>2
      <4> QED
        BY <2>1, <2>2, <2>3, <4>1
    <3> QED
      BY <3>1, <3>2
  <2>7. ASSUME NEW i \in DOMAIN obs'[t], NEW k \in DOMAIN obs'[t], i < k
        PROVE  /\ obs'[t][i].turn <= obs'[t][k].turn
               /\ obs'[t][i].turn = obs'[t][k].turn =>
                    k = i + 1 /\ obs'[t][i].status = "waiting" /\ obs'[t][k].status # "waiting"
    <3>1. i \in 1..m /\ obs'[t][i] = obs[t][i]
      BY <2>1, <2>2, <2>7
    <3>2. CASE k # m + 1
      <4>1. k \in 1..m /\ obs'[t][k] = obs[t][k]
        BY <2>1, <2>2, <3>2
      <4> QED
        BY <2>4, <2>7, <3>1, <4>1
    <3>3. CASE k = m + 1
      <4>1. obs'[t][k].turn = n /\ obs[t][i].turn \in 1..n
        BY <2>1, <2>3, <3>1, <3>3
      <4>2. obs'[t][i].turn <= obs'[t][k].turn
        BY <2>2, <3>1, <4>1
      <4>3. ASSUME obs'[t][i].turn = obs'[t][k].turn
            PROVE  k = i + 1 /\ obs'[t][i].status = "waiting" /\ obs'[t][k].status # "waiting"
        <5>1. obs[t][i].turn = n
          BY <3>1, <4>1, <4>3
        <5>2. Waiting(t) /\ obs'[t][m + 1].status # "waiting"
          <6>1. ~(obs[t][i].turn < n)
            BY <2>2, <5>1
          <6> QED
            BY <2>1, <2>2, <3>1, <6>1
        <5>3. i = m
          <6> SUFFICES ASSUME i # m PROVE FALSE
            OBVIOUS
          <6>1. m \in 1..m /\ i < m
            BY <2>2, <2>5, <3>1, <5>2
          <6>2. obs[t][m].status # "waiting"
            BY <2>4, <2>5, <3>1, <5>1, <5>2, <6>1
          <6> QED
            BY <2>5, <5>2, <6>2
        <5> QED
          BY <2>5, <3>1, <3>3, <5>2, <5>3
      <4> QED
        BY <4>2, <4>3
    <3> QED
      BY <3>2, <3>3
  <2>8. obs'[t][Len(obs'[t])].turn = Len(turns'[t])
    BY <2>1 DEF n
  <2> QED
    BY <2>6, <2>7, <2>8 DEF Answers
<1> QED
  BY <1>3, <1>4, <1>5, WriterIsCurrent

LEMMA TurnsStayBounded ==
  ASSUME TInv, Effect, NEW t \in Task
  PROVE  Len(turns'[t]) <= MaxTurns
<1>1. Len(turns[t]) <= MaxTurns /\ Len(turns[t]) \in Nat
  BY HistoryShapes DEF TInv, TurnsBounded
<1>2. CASE turns'[t] = turns[t]
  BY <1>1, <1>2
<1>3. ASSUME NEW w \in Worker, TakesTurn(w, t), Current(w) PROVE Len(turns'[t]) <= MaxTurns
  <2>1. Len(turns'[t]) = Len(turns[t]) + 1 /\ Len(turns[t]) < MaxTurns
    BY <1>3, TurnExtends
  <2> QED
    BY <1>1, <2>1, LimitsArePositive
<1> QED
  BY <1>2, <1>3, WriterIsCurrent DEF Rests, Observes

LEMMA OutcomeStaysAgreed ==
  ASSUME TInv, Effect
  PROVE  OutcomeAgrees'
<1> SUFFICES ASSUME NEW t \in Task
             PROVE /\ Concluded(t)' =>
                        /\ task'[t].owner = Nobody /\ ~task'[t].live
                        /\ task'[t].status \in {outcome'[t], "cancelled"}
                        /\ ~Stopped' => task'[t].status = outcome'[t]
                   /\ task'[t].status \in Terminal => Concluded(t)' \/ Stopped'
  BY DEF OutcomeAgrees
<1>1. /\ RowEffect(t) /\ (Stopped => Stopped')
      /\ Concluded(t) => /\ task[t].owner = Nobody /\ ~task[t].live
                         /\ task[t].status \in {outcome[t], "cancelled"}
                         /\ ~Stopped => task[t].status = outcome[t]
      /\ task[t].status \in Terminal => Concluded(t) \/ Stopped
  BY DEF TInv, OutcomeAgrees, Effect
<1>2. Concluded(t) => task[t].status \in Terminal
  BY <1>1 DEF TInv, Shapes, Concluded, Terminal
<1>3. CASE Keeps(t)
  BY <1>1, <1>3 DEF Keeps, Concluded
<1>4. CASE Lapses(t)
  BY <1>1, <1>4 DEF Lapses, Concluded
<1>5. CASE Cancels(t)
  BY <1>1, <1>5 DEF Cancels, Concluded
<1>6. CASE Readies(t)
  <2>1. ~Concluded(t)
    BY <1>2, <1>6 DEF Readies, Terminal
  <2> QED
    BY <1>6, <2>1 DEF Readies, Concluded, Terminal
<1>7. ASSUME NEW w \in Worker, Claims(w, t)
      PROVE  ~Concluded(t)' /\ task'[t].status \notin Terminal
  <2>1. ~Concluded(t)
    BY <1>2, <1>7, ClaimsAreOpen
  <2> QED
    BY <1>7, <2>1 DEF Claims, Concluded, Terminal
<1>8. ASSUME NEW w \in Worker, Concludes(w, t)
      PROVE  /\ task'[t].owner = Nobody /\ ~task'[t].live
             /\ task'[t].status = outcome'[t] /\ Concluded(t)'
  <2>1. wk[w].out \in Terminal
    BY <1>8 DEF TInv, Crew, Carried, Concludes
  <2> QED
    BY <1>8, <2>1 DEF Concludes, Concluded, Terminal
<1> QED
  BY <1>1, <1>3, <1>4, <1>5, <1>6, <1>7, <1>8 DEF RowEffect

LEMMA DependenciesStayFirst ==
  ASSUME TInv, Effect
  PROVE  DependenciesFirst'
<1> SUFFICES ASSUME NEW t \in Task,
                    task'[t].epoch > 0 \/ turns'[t] # <<>> \/ Concluded(t)'
             PROVE  DependenciesDone(t)'
  BY DEF DependenciesFirst, DependenciesDone
<1> SUFFICES DependenciesDone(t)
  BY DependenciesStayDone
<1>1. task[t].epoch > 0 \/ turns[t] # <<>> \/ Concluded(t) => DependenciesDone(t)
  BY DEF TInv, DependenciesFirst, DependenciesDone
<1>2. ASSUME NEW w \in Worker, wk[w].task = t, wk[w].pc \in Busy PROVE DependenciesDone(t)
  BY <1>2 DEF TInv, Crew, Employed
<1>3. RowEffect(t) /\ HistoryEffect(t)
  BY DEF Effect
<1>4. CASE \E w \in Worker : Claims(w, t) \/ Concludes(w, t)
  BY <1>2, <1>4 DEF Claims, Concludes, Busy
<1>5. CASE \E w \in Worker : TakesTurn(w, t)
  BY <1>2, <1>5 DEF TakesTurn, Busy
<1>6. CASE /\ ~\E w \in Worker : Claims(w, t) \/ Concludes(w, t)
           /\ ~\E w \in Worker : TakesTurn(w, t)
  <2>1. task'[t].epoch = task[t].epoch /\ outcome'[t] = outcome[t]
    BY <1>3, <1>6 DEF RowEffect, Keeps, Lapses, Cancels, Readies
  <2>2. turns'[t] = turns[t]
    BY <1>3, <1>6 DEF HistoryEffect, Rests, Observes
  <2> QED
    BY <1>1, <2>1, <2>2 DEF Concluded
<1> QED
  BY <1>4, <1>5, <1>6

LEMMA ProposalStaysDecisive ==
  ASSUME TInv, Effect
  PROVE  ProposalDecides'
<1> SUFFICES ASSUME NEW t \in Task \ Adapted, Concluded(t)'
             PROVE  /\ outcome'[t] = "completed" <=> proposal'[t] = "valid"
                    /\ outcome'[t] = "partial" <=> proposal'[t] = "partial"
  BY DEF ProposalDecides
<1>1. RowEffect(t)
  BY DEF Effect
<1>2. CASE Concluded(t)
  <2>1. outcome'[t] = outcome[t]
    BY <1>2, OutcomeIsFinal
  <2>2. proposal'[t] = proposal[t]
    BY <1>2, WriterIsCurrent DEF Entitled, Rests, Observes
  <2> QED
    BY <1>2, <2>1, <2>2 DEF TInv, ProposalDecides
<1>3. CASE ~Concluded(t)
  <2>1. PICK w \in Worker : Concludes(w, t)
    BY <1>1, <1>3 DEF RowEffect, Keeps, Lapses, Cancels, Readies, Claims, Concluded
  <2>2. Current(w) /\ task[t].owner = w
    BY <2>1 DEF Concludes, Claimant, Current, Busy
  <2>3. proposal'[t] = proposal[t]
    <3>1. \A v \in Worker : TakesTurn(v, t) => v # w
      BY <2>1 DEF Concludes, TakesTurn
    <3> QED
      BY <2>2, <3>1, WriterIsCurrent DEF Rests, Observes
  <2>4. /\ wk[w].out = "completed" <=> proposal[t] = "valid"
        /\ wk[w].out = "partial" <=> proposal[t] = "partial"
    BY <2>1, <2>2 DEF TInv, History, Informed, Concludes
  <2> QED
    BY <2>1, <2>3, <2>4 DEF Concludes
<1> QED
  BY <1>2, <1>3

LEMMA InvariantStays ==
  ASSUME TInv, Sound
  PROVE  TInv'
<1>1. Effect /\ Shapes'
  BY DEF Sound, Effect
<1>2. Rows'
  BY <1>1, LocksStay, LiveRunsStays DEF Rows
<1>3. Crew' /\ History'
  BY <1>1, WorkersStaySound, AnswersStay DEF Crew, History
<1>4. TurnsBounded'
  BY <1>1, TurnsStayBounded DEF TurnsBounded
<1> QED
  BY <1>1, <1>2, <1>3, <1>4, OutcomeStaysAgreed, DependenciesStayFirst,
     ProposalStaysDecisive DEF TInv

LEMMA InvariantStarts ==
  ASSUME Init
  PROVE  TInv
<1>1. run \in RunRow /\ ~Stopped
  BY DEF Init, RunRow, Stopped
<1>2. task \in [Task -> TaskRow]
  BY DEF Init, TaskRow
<1>3. IdleWorker \in WorkerState
  BY IdleRow
<1>4. Shapes
  BY <1>1, <1>2, <1>3, KnownDatabases, BoundsAreNatural DEF Init, Shapes
<1>5. \A t \in Task : ~Concluded(t) /\ turns[t] = <<>> /\ obs[t] = <<>>
                      /\ holder[t] = Nobody /\ task[t].epoch = 0 /\ ~task[t].live
                      /\ task[t].status \notin Terminal
  BY DEF Init, Concluded, Terminal
<1>6. \A w \in Worker : wk[w].pc = "idle"
  BY DEF Init, IdleWorker
<1>7. Rows /\ OutcomeAgrees /\ DependenciesFirst /\ ProposalDecides
  BY <1>5 DEF Rows, Locks, LiveRuns, OutcomeAgrees, DependenciesFirst, ProposalDecides
<1>8. Crew
  BY <1>6 DEF Crew, Employed, Carried, Busy
<1>9. History
  BY <1>5, <1>6 DEF History, Answers, Waiting, Informed, Current, Busy
<1>10. TurnsBounded
  BY <1>5, LimitsArePositive DEF TurnsBounded
<1> QED
  BY <1>4, <1>7, <1>8, <1>9, <1>10 DEF TInv

-----------------------------------------------------------------------------
(* What the invariant says of the answers to a call *)

LEMMA AtMostOne ==
  ASSUME NEW S, IsFiniteSet(S), \A x, y \in S : x = y
  PROVE  Cardinality(S) <= 1 /\ Cardinality(S) \in Nat
<1>1. CASE S = {}
  BY <1>1, FS_EmptySet
<1>2. CASE S # {}
  <2>1. PICK x \in S : TRUE
    BY <1>2
  <2>2. S = {x}
    BY <2>1
  <2> QED
    BY <2>2, FS_Singleton
<1> QED
  BY <1>1, <1>2

LEMMA CallsAreAnsweredOnce ==
  ASSUME Shapes, \A t \in Task : Answers(t)
  PROVE  OneAnswerPerCall
<1> SUFFICES ASSUME NEW t \in Task, NEW n \in 1..Len(turns[t])
             PROVE  /\ Cardinality({i \in DOMAIN obs[t] :
                          obs[t][i].turn = n /\ obs[t][i].status # "waiting"}) <= 1
                    /\ Cardinality({i \in DOMAIN obs[t] : obs[t][i].turn = n}) <= 2
                    /\ turns[t][n] # "call" => \A i \in DOMAIN obs[t] : obs[t][i].turn # n
  BY DEF OneAnswerPerCall
<1> DEFINE Final == {i \in DOMAIN obs[t] :
                       obs[t][i].turn = n /\ obs[t][i].status # "waiting"}
           Open == {i \in DOMAIN obs[t] :
                      obs[t][i].turn = n /\ obs[t][i].status = "waiting"}
           Both == {i \in DOMAIN obs[t] : obs[t][i].turn = n}
<1>1. DOMAIN obs[t] = 1..Len(obs[t]) /\ Len(obs[t]) \in Nat
  BY HistoryShapes
<1>2. IsFiniteSet(DOMAIN obs[t])
  BY <1>1, FS_Interval
<1>3. IsFiniteSet(Final) /\ IsFiniteSet(Open)
  BY <1>2, FS_Subset
<1>4. \A i, k \in DOMAIN obs[t] :
        i < k /\ obs[t][i].turn = obs[t][k].turn =>
          obs[t][i].status = "waiting" /\ obs[t][k].status # "waiting"
  BY DEF Answers
<1>5. \A i, k \in DOMAIN obs[t] : i = k \/ i < k \/ k < i
  BY <1>1
<1>6. (\A i, k \in Final : i = k) /\ \A i, k \in Open : i = k
  BY <1>4, <1>5
<1>7. Both = Final \union Open
  OBVIOUS
<1>8. turns[t][n] # "call" => \A i \in DOMAIN obs[t] : obs[t][i].turn # n
  BY DEF Answers
<1> HIDE DEF Final, Open, Both
<1>9. /\ Cardinality(Final) <= 1 /\ Cardinality(Final) \in Nat
      /\ Cardinality(Open) <= 1 /\ Cardinality(Open) \in Nat
  BY <1>3, <1>6, AtMostOne
<1>10. Cardinality(Both) <= 2
  <2>1. /\ Cardinality(Both)
             = Cardinality(Final) + Cardinality(Open) - Cardinality(Final \intersect Open)
        /\ IsFiniteSet(Final \intersect Open)
    BY <1>3, <1>7, FS_Union, FS_Intersection
  <2>2. Cardinality(Final \intersect Open) \in Nat
    BY <2>1, FS_CardinalityType
  <2> QED
    BY <1>9, <2>1, <2>2
<1> QED
  BY <1>8, <1>9, <1>10 DEF Final, Both

LEMMA InvariantImpliesAgreement == TInv => TaskAgrees
<1> SUFFICES ASSUME TInv PROVE TaskAgrees
  OBVIOUS
<1>1. TypeOK
  BY DEF TInv, Shapes, TurnsBounded, TypeOK
<1>2. OneAnswerPerCall
  BY CallsAreAnsweredOnce DEF TInv, History
<1> QED
  BY <1>1, <1>2 DEF TInv, TaskAgrees

-----------------------------------------------------------------------------
(* What a step may do to the history *)

(* A step that changes nothing is sound, too. *)
LEMMA EveryStepIsSound ==
  ASSUME TInv, [Next]_vars
  PROVE  Sound
<1>1. CASE UNCHANGED vars
  <2>1. Shapes
    BY DEF TInv
  <2>2. Effect
    BY <1>1, <2>1, QuietEffect DEF vars, stop, facts, bounds, Shapes
  <2> QED
    BY <1>1, <2>2 DEF Sound, Still, vars
<1> QED
  BY <1>1, StepIsSound

ClaimantWrites(t) ==
  \/ turns'[t] # turns[t] \/ obs'[t] # obs[t]
  \/ proposal'[t] # proposal[t] \/ outcome'[t] # outcome[t]
  => \E w \in Worker :
       /\ wk[w].task = t /\ wk'[w] # wk[w]
       /\ task[t].owner = w /\ task[t].epoch = wk[w].epoch
       /\ task[t].live
       /\ wk[w].runEpoch \in {0, run.attempt}

LEMMA ClaimantsWrite ==
  ASSUME Effect, NEW t \in Task
  PROVE  ClaimantWrites(t)
<1>1. RowEffect(t) /\ HistoryEffect(t)
  BY DEF Effect
<1>2. ASSUME NEW w \in Worker, wk[w].task = t, wk'[w] # wk[w], Claimant(w)
      PROVE  ClaimantWrites(t)
  BY <1>2 DEF ClaimantWrites, Claimant
<1>3. CASE outcome'[t] # outcome[t]
  <2>1. PICK w \in Worker : Concludes(w, t)
    BY <1>1, <1>3 DEF RowEffect, Keeps, Lapses, Cancels, Readies, Claims
  <2> QED
    BY <1>2, <2>1 DEF Concludes
<1>4. CASE ~Rests(t)
  <2>1. PICK w \in Worker : wk[w].task = t /\ wk'[w] # wk[w] /\ Entitled(w)
    BY <1>4, WriterIsCurrent
  <2> QED
    BY <1>2, <2>1 DEF Entitled
<1>5. CASE Rests(t) /\ outcome'[t] = outcome[t]
  BY <1>5 DEF Rests, ClaimantWrites
<1> QED
  BY <1>3, <1>4, <1>5

LEMMA StoppedTasksRest ==
  ASSUME TInv, Effect, NEW t \in Task, Stopped, task[t].status \in Terminal
  PROVE  outcome'[t] = outcome[t] /\ task'[t].status = task[t].status
<1>1. RowEffect(t)
  BY DEF Effect
<1>2. ~Cancels(t) /\ ~Readies(t)
  BY DEF Cancels, Readies, Stopped, Terminal
<1>3. ASSUME NEW w \in Worker PROVE ~Claims(w, t) /\ ~Concludes(w, t)
  BY ClaimsAreOpen DEF Concludes
<1> QED
  BY <1>1, <1>2, <1>3 DEF RowEffect, Keeps, Lapses

LEMMA WaitingTasksRest ==
  ASSUME TInv, Effect, NEW t \in Task, Waiting(t)
  PROVE  turns'[t] = turns[t]
<1>1. ASSUME NEW w \in Worker, TakesTurn(w, t), Current(w) PROVE FALSE
  BY <1>1, TurnExtends
<1> QED
  BY <1>1, WriterIsCurrent DEF Rests, Observes

(* Behind the barrier a task is over, or waits for what will never come. *)
LEMMA BarrierStays ==
  ASSUME TInv, Effect, Barrier, ~Stopped'
  PROVE  Barrier'
<1>1. ~Stopped
  BY DEF Effect
<1>2. ASSUME NEW t \in Task
      PROVE  task[t].status \notin Terminal =>
               task[t].status = "pending" /\ ~DependenciesDone(t) /\ ~Concluded(t)
  <2>1. Concluded(t) => task[t].status \in Terminal
    BY <1>1 DEF TInv, Shapes, OutcomeAgrees, Concluded
  <2>2. task[t].status \in {"pending", "ready", "running"} \union Terminal
    BY DEF TInv, Shapes, TaskRow
  <2> QED
    BY <2>1, <2>2 DEF Barrier
<1>3. ASSUME NEW t \in Task
      PROVE  outcome'[t] = outcome[t] /\ task'[t].status = task[t].status
  <2>1. RowEffect(t)
    BY DEF Effect
  <2>2. ~Cancels(t) /\ ~Readies(t)
    BY <1>2 DEF Cancels, Readies, Terminal
  <2>3. ASSUME NEW w \in Worker PROVE ~Claims(w, t)
    BY <1>2, ClaimsAreOpen
  <2>4. ASSUME NEW w \in Worker PROVE ~Concludes(w, t)
    <3> SUFFICES ASSUME Concludes(w, t) PROVE FALSE
      OBVIOUS
    <3>1. ~Concluded(t) /\ task[t].live
      BY DEF Concludes, Claimant
    <3>2. task[t].status = "running"
      BY <1>1, <3>1 DEF TInv, Rows, LiveRuns
    <3> QED
      BY <3>1, <3>2 DEF Barrier
  <2> QED
    BY <2>1, <2>2, <2>3, <2>4 DEF RowEffect, Keeps, Lapses
<1>4. ASSUME NEW t \in Task PROVE DependenciesDone(t)' = DependenciesDone(t)
  BY <1>3, NeedsAreTasks DEF DependenciesDone
<1> QED
  BY <1>3, <1>4 DEF Barrier, Concluded

HistoryStep ==
  /\ \A t \in Task :
       /\ ClaimantWrites(t)
       /\ Concluded(t) => outcome'[t] = outcome[t]
       /\ Stopped /\ task[t].status \in Terminal =>
            outcome'[t] = outcome[t] /\ task'[t].status = task[t].status
       /\ Waiting(t) => turns'[t] = turns[t]
  /\ Barrier /\ ~Stopped' => Barrier'

LEMMA StepsKeepHistory ==
  ASSUME TInv, [Next]_vars
  PROVE  HistoryStep
<1>1. Effect
  BY EveryStepIsSound DEF Sound
<1> QED
  BY <1>1, ClaimantsWrite, OutcomeIsFinal, StoppedTasksRest, WaitingTasksRest,
     BarrierStays DEF HistoryStep

-----------------------------------------------------------------------------
(* The theorems *)

(* What the rows, the workers and the histories of all tasks have in       *)
(* common at every moment, on both databases.                              *)
THEOREM TasksStaySound == Spec => []TInv
<1>1. Init => TInv
  BY InvariantStarts
<1>2. TInv /\ [Next]_vars => TInv'
  BY EveryStepIsSound, InvariantStays
<1> QED
  BY <1>1, <1>2, PTL DEF Spec

(* The row of a task, its turns, observations, proposal and outcome tell   *)
(* one story: at most MaxTurns turns, at most one answer to a call, an     *)
(* outcome that the proposal decides, behind completed dependencies        *)
(* (task_runtime.py).                                                      *)
THEOREM TasksDoAgree == Spec => []TaskAgrees
BY TasksStaySound, InvariantImpliesAgreement, PTL

(* Only the live claimant of a task adds to its history or concludes it,   *)
(* an outcome and a stopped task stay, a waiting call holds the model      *)
(* back, and a stage behind its barrier is over (task_runtime.py).         *)
THEOREM HistoryDoesStand == Spec => HistoryStands
<1>1. TInv /\ [Next]_vars => HistoryStep
  BY StepsKeepHistory
<1>2. HistoryStep =>
        /\ \A t \in Task :
             \/ turns'[t] # turns[t] \/ obs'[t] # obs[t]
             \/ proposal'[t] # proposal[t] \/ outcome'[t] # outcome[t]
             => \E w \in Worker :
                  /\ wk[w].task = t /\ wk'[w] # wk[w]
                  /\ task[t].owner = w /\ task[t].epoch = wk[w].epoch
                  /\ task[t].live
                  /\ wk[w].runEpoch \in {0, run.attempt}
        /\ \A t \in Task :
             /\ Concluded(t) => outcome'[t] = outcome[t]
             /\ Stopped /\ task[t].status \in Terminal =>
                  outcome'[t] = outcome[t] /\ task'[t].status = task[t].status
        /\ \A t \in Task :
             /\ obs[t] # <<>> /\ obs[t][Len(obs[t])].status = "waiting"
             => turns'[t] = turns[t]
        /\ Barrier /\ ~Stopped' => Barrier'
  BY DEF HistoryStep, ClaimantWrites, Waiting
<1> QED
  BY <1>1, <1>2, TasksStaySound, PTL
  DEF Spec, HistoryStands, OnlyClaimantWrites, OutcomeStands, WaitingHolds, BarrierIsStable

=============================================================================
