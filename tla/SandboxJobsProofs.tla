------------------------- MODULE SandboxJobsProofs -------------------------
(***************************************************************************)
(* Proofs about SandboxJobs: the tables of a job agree, it ends once, and  *)
(* a cancelled job keeps no result, for any jobs, threads, names and       *)
(* attempts: threads may share a worker_id or not.                         *)
(***************************************************************************)
EXTENDS SandboxJobs, SequenceTheorems, FiniteSetTheorems, TLAPS

-----------------------------------------------------------------------------
(* The inductive invariant *)

Settled(j) ==
  IF Ended(j)
  THEN /\ obs[j].status = job[j].status
       /\ obs[j].n \in DOMAIN attempt[j]
       /\ attempt[j][obs[j].n].status = job[j].status
       /\ job[j].owner = Nobody
  ELSE obs[j] = NoObservation

(* attempt_count counts the attempts of a job until it ends, perhaps       *)
(* without one, when an attempt that was never executed is written for it. *)
Counted(j) ==
  /\ job[j].attempts <= Len(attempt[j]) /\ Len(attempt[j]) <= MaxAttempts
  /\ ~Ended(j) => Len(attempt[j]) = job[j].attempts

(* Who owns a job leased its last attempt. *)
Held(j) ==
  job[j].owner # Nobody =>
    /\ ~Ended(j) /\ attempt[j] # <<>>
    /\ attempt[j][Len(attempt[j])].owner = job[j].owner

CancelStops(j) == job[j].cancelRequested => obs[j].status # "completed"

JobsAreSound ==
  \A j \in Job : Settled(j) /\ Counted(j) /\ Held(j) /\ CancelStops(j)

(* A thread executes an attempt that was counted, alone, and comes to      *)
(* publish or retry with an outcome.                                       *)
ThreadsAreSound ==
  \A t \in Thread : th[t].pc \in Working =>
    /\ th[t].job \in Job
    /\ th[t].n \in 1..job[th[t].job].attempts
    /\ \A u \in Thread \ {t} : ~Executing(u, th[t].job, th[t].n)
    /\ th[t].pc \in {"decide", "retry", "publish"} => th[t].out \in TerminalStatus

SInv == TypeOK /\ JobsAreSound /\ ThreadsAreSound /\ ResultsRestOnObservation

(* An attempt that overtook the one a thread executes was leased by        *)
(* another thread, perhaps under the same name.                            *)
Overtaken ==
  \A t \in Thread : th[t].pc \in Working =>
    \A m \in DOMAIN attempt[th[t].job] :
      m > th[t].n =>
        \E u \in Thread \ {t} : attempt[th[t].job][m].owner = NameOf[u]

LastObserved == \A j \in Job : Ended(j) => PassesForLast(j, obs[j].n)

NInv == SInv /\ Overtaken /\ LastObserved

-----------------------------------------------------------------------------
(* Rows and attempts *)

(* The rows that replace a job's row, field by field. *)
LEMMA JobRows ==
  ASSUME NEW row \in JobRow
  PROVE  /\ \A s \in JobStatus, o \in Name \union {Nobody} :
              LET new == [row EXCEPT !.status = s, !.owner = o] IN
              /\ new \in JobRow /\ new.status = s /\ new.owner = o
              /\ new.attempts = row.attempts
              /\ new.cancelRequested = row.cancelRequested
         /\ \A c \in Nat :
              LET new == [row EXCEPT !.status = "queued", !.created = c] IN
              /\ new \in JobRow /\ new.status = "queued"
              /\ new.owner = row.owner /\ new.attempts = row.attempts
              /\ new.cancelRequested = row.cancelRequested
         /\ LET new == [row EXCEPT !.status = "cancelled",
                          !.cancelRequested = TRUE, !.owner = Nobody] IN
              /\ new \in JobRow /\ new.status = "cancelled"
              /\ new.owner = Nobody /\ new.attempts = row.attempts
         /\ LET new == [row EXCEPT !.status = "cancel_requested",
                          !.cancelRequested = TRUE] IN
              /\ new \in JobRow /\ new.status = "cancel_requested"
              /\ new.owner = row.owner /\ new.attempts = row.attempts
         /\ LET new == [row EXCEPT !.overdue = TRUE] IN
              /\ new \in JobRow /\ new.status = row.status
              /\ new.owner = row.owner /\ new.attempts = row.attempts
              /\ new.cancelRequested = row.cancelRequested
         /\ \A k \in Nat, o \in Name :
              LET new == [row EXCEPT !.status = "running", !.attempts = k,
                            !.owner = o] IN
              /\ new \in JobRow /\ new.status = "running"
              /\ new.owner = o /\ new.attempts = k
              /\ new.cancelRequested = row.cancelRequested
<1>1. \A s \in JobStatus, o \in Name \union {Nobody} :
        LET new == [row EXCEPT !.status = s, !.owner = o] IN
        /\ new \in JobRow /\ new.status = s /\ new.owner = o
        /\ new.attempts = row.attempts
        /\ new.cancelRequested = row.cancelRequested
  BY DEF JobRow
<1>2. \A c \in Nat :
        LET new == [row EXCEPT !.status = "queued", !.created = c] IN
        /\ new \in JobRow /\ new.status = "queued"
        /\ new.owner = row.owner /\ new.attempts = row.attempts
        /\ new.cancelRequested = row.cancelRequested
  BY DEF JobRow, JobStatus
<1>3. LET new == [row EXCEPT !.status = "cancelled",
                    !.cancelRequested = TRUE, !.owner = Nobody] IN
      /\ new \in JobRow /\ new.status = "cancelled"
      /\ new.owner = Nobody /\ new.attempts = row.attempts
  BY DEF JobRow, JobStatus, TerminalStatus
<1>4. LET new == [row EXCEPT !.status = "cancel_requested",
                    !.cancelRequested = TRUE] IN
      /\ new \in JobRow /\ new.status = "cancel_requested"
      /\ new.owner = row.owner /\ new.attempts = row.attempts
  BY DEF JobRow, JobStatus
<1>5. LET new == [row EXCEPT !.overdue = TRUE] IN
      /\ new \in JobRow /\ new.status = row.status
      /\ new.owner = row.owner /\ new.attempts = row.attempts
      /\ new.cancelRequested = row.cancelRequested
  BY DEF JobRow
<1>6. \A k \in Nat, o \in Name :
        LET new == [row EXCEPT !.status = "running", !.attempts = k,
                      !.owner = o] IN
        /\ new \in JobRow /\ new.status = "running"
        /\ new.owner = o /\ new.attempts = k
        /\ new.cancelRequested = row.cancelRequested
  BY DEF JobRow, JobStatus
<1> QED
  BY <1>1, <1>2, <1>3, <1>4, <1>5, <1>6

(* Replacing one attempt of a job. *)
LEMMA AttemptChange ==
  ASSUME TypeOK, NEW j \in Job, NEW n \in DOMAIN attempt[j], NEW row \in AttemptRow,
         attempt' = [attempt EXCEPT ![j] = [attempt[j] EXCEPT ![n] = row]]
  PROVE  /\ attempt' \in [Job -> Seq(AttemptRow)]
         /\ Len(attempt'[j]) = Len(attempt[j])
         /\ DOMAIN attempt'[j] = DOMAIN attempt[j]
         /\ attempt'[j][n] = row
         /\ \A m \in DOMAIN attempt[j] \ {n} : attempt'[j][m] = attempt[j][m]
         /\ \A k \in Job \ {j} : attempt'[k] = attempt[k]
<1>1. attempt \in [Job -> Seq(AttemptRow)]
  BY DEF TypeOK
<1>2. PICK s \in Seq(AttemptRow) : s = attempt[j]
  BY <1>1
<1>3. n \in 1..Len(s)
  BY <1>2
<1> DEFINE new == [s EXCEPT ![n] = row]
<1>4. /\ new \in Seq(AttemptRow) /\ Len(new) = Len(s)
      /\ \A m \in 1..Len(s) : new[m] = IF m = n THEN row ELSE s[m]
  BY <1>3, ExceptSeq
<1>5. attempt' = [attempt EXCEPT ![j] = new]
  BY <1>2
<1>6. attempt'[j] = new /\ \A k \in Job \ {j} : attempt'[k] = attempt[k]
  BY <1>1, <1>5
<1>7. attempt' \in [Job -> Seq(AttemptRow)]
  BY <1>1, <1>4, <1>5
<1> HIDE DEF new
<1>8. DOMAIN new = 1..Len(new) /\ DOMAIN s = 1..Len(s)
  BY <1>4
<1> QED
  BY <1>2, <1>3, <1>4, <1>6, <1>7, <1>8

(* Appending one. *)
LEMMA AttemptAppend ==
  ASSUME TypeOK, NEW j \in Job, NEW row \in AttemptRow,
         attempt' = [attempt EXCEPT ![j] = Append(attempt[j], row)]
  PROVE  /\ attempt' \in [Job -> Seq(AttemptRow)]
         /\ Len(attempt[j]) \in Nat /\ DOMAIN attempt[j] = 1..Len(attempt[j])
         /\ Len(attempt'[j]) = Len(attempt[j]) + 1
         /\ DOMAIN attempt'[j] = 1..(Len(attempt[j]) + 1)
         /\ attempt'[j] # <<>>
         /\ attempt'[j][Len(attempt[j]) + 1] = row
         /\ \A m \in DOMAIN attempt[j] : attempt'[j][m] = attempt[j][m]
         /\ \A k \in Job \ {j} : attempt'[k] = attempt[k]
<1>1. attempt \in [Job -> Seq(AttemptRow)]
  BY DEF TypeOK
<1>2. PICK s \in Seq(AttemptRow) : s = attempt[j]
  BY <1>1
<1>3. PICK new \in Seq(AttemptRow) :
         /\ new = Append(s, row) /\ Len(new) = Len(s) + 1 /\ new # <<>>
         /\ \A m \in 1..Len(s) : new[m] = s[m]
         /\ new[Len(s) + 1] = row
  BY AppendProperties
<1>4. attempt' = [attempt EXCEPT ![j] = new]
  BY <1>2, <1>3
<1>5. attempt'[j] = new /\ \A k \in Job \ {j} : attempt'[k] = attempt[k]
  BY <1>1, <1>4
<1>6. attempt' \in [Job -> Seq(AttemptRow)]
  BY <1>1, <1>4
<1>7. /\ DOMAIN new = 1..Len(new) /\ DOMAIN s = 1..Len(s)
      /\ Len(s) \in Nat
  OBVIOUS
<1> QED
  BY <1>2, <1>3, <1>5, <1>6, <1>7

(* An attempt that changes its status, its lease or both. *)
LEMMA AttemptRows ==
  ASSUME NEW row \in AttemptRow
  PROVE  /\ \A s \in {"leased", "retry_wait"} \union TerminalStatus :
              LET new == [row EXCEPT !.status = s] IN
              /\ new \in AttemptRow /\ new.status = s
              /\ new.owner = row.owner /\ new.live = row.live
         /\ \A l \in BOOLEAN :
              LET new == [row EXCEPT !.live = l] IN
              /\ new \in AttemptRow /\ new.status = row.status
              /\ new.owner = row.owner /\ new.live = l
         /\ LET new == [row EXCEPT !.status = "retry_wait", !.live = FALSE] IN
            new \in AttemptRow /\ new.owner = row.owner /\ ~new.live
BY DEF AttemptRow

-----------------------------------------------------------------------------
(* What a step does to the rows of a job *)

SameOwners(j) ==
  /\ Len(attempt'[j]) = Len(attempt[j]) /\ DOMAIN attempt'[j] = DOMAIN attempt[j]
  /\ \A m \in DOMAIN attempt[j] : attempt'[j][m].owner = attempt[j][m].owner

Rests(j) == job'[j] = job[j] /\ attempt'[j] = attempt[j] /\ obs'[j] = obs[j]

Renewed(j) ==
  /\ job'[j] = job[j] /\ obs'[j] = obs[j] /\ SameOwners(j)
  /\ \A m \in DOMAIN attempt[j] : attempt'[j][m].status = attempt[j][m].status

SameCount(j) == job'[j].attempts = job[j].attempts

Marked(j) ==
  /\ attempt'[j] = attempt[j] /\ obs'[j] = obs[j]
  /\ SameCount(j) /\ job'[j].owner = job[j].owner
  /\ \/ ~Ended(j) /\ ~Ended(j)'
     \/ /\ job'[j].status = job[j].status
        /\ job'[j].cancelRequested = job[j].cancelRequested

Publishes(t, j) ==
  /\ th[t].pc = "publish" /\ th[t].job = j /\ Leaseholder(t)
  /\ obs'[j].n = th[t].n

Ends(j) ==
  /\ ~Ended(j) /\ Ended(j)' /\ SameCount(j)
  /\ Settled(j)' /\ CancelStops(j)'
  /\ IF attempt[j] = <<>>
     THEN Len(attempt'[j]) = 1 /\ attempt'[j][1].owner = Nobody
     ELSE SameOwners(j)
  /\ obs'[j].n = Len(attempt'[j]) \/ \E t \in Thread : Publishes(t, j)

Leases(t, j) ==
  /\ ~Ended(j) /\ ~Ended(j)' /\ obs'[j] = obs[j]
  /\ job[j].attempts < MaxAttempts
  /\ job'[j].attempts = job[j].attempts + 1 /\ job'[j].owner = NameOf[t]
  /\ job'[j].cancelRequested = job[j].cancelRequested
  /\ Len(attempt'[j]) = Len(attempt[j]) + 1 /\ attempt'[j] # <<>>
  /\ attempt'[j][Len(attempt[j]) + 1].owner = NameOf[t]
  /\ th'[t].pc = "execute" /\ th'[t].job = j /\ th'[t].n = job'[j].attempts
  /\ \A m \in DOMAIN attempt[j] : attempt'[j][m].owner = attempt[j][m].owner

Retries(j) ==
  /\ ~Ended(j) /\ ~Ended(j)' /\ obs'[j] = obs[j]
  /\ SameCount(j) /\ job'[j].owner = Nobody
  /\ job'[j].cancelRequested = job[j].cancelRequested
  /\ SameOwners(j)

(* A lease is only renewed by a thread that executes under it. *)
RenewedByHolder(j) ==
  \A m \in DOMAIN attempt[j] :
    attempt'[j][m].live => \/ attempt[j][m].live
                           \/ \E t \in Thread : Executing(t, j, m) /\ Leaseholder(t)

RowStep(j) ==
  /\ \/ Rests(j) \/ Renewed(j) \/ Marked(j) \/ Ends(j) \/ Retries(j)
     \/ \E t \in Thread : Leases(t, j)
  /\ RenewedByHolder(j)

-----------------------------------------------------------------------------
(* What a step does to a thread *)

Leaves(t) == th'[t].pc \notin Working

Carries(t) ==
  /\ th[t].pc \in Working
  /\ th'[t].job = th[t].job /\ th'[t].n = th[t].n
  /\ th'[t].pc \in {"decide", "retry", "publish"} => th'[t].out \in TerminalStatus
  /\ th'[t].pc = "notify" => Leaseholder(t)

Takes(t) == \E j \in Job : Leases(t, j)

Moves(t) ==
  /\ \A u \in Thread \ {t} : th'[u] = th[u]
  /\ Leaves(t) \/ Carries(t) \/ Takes(t)

ThreadStep == th' = th \/ \E t \in Thread : Moves(t)

(* The effect of a step on rows and threads. *)
Effect == TypeOK' /\ (\A j \in Job : RowStep(j)) /\ ThreadStep

-----------------------------------------------------------------------------
(* The effect of each action *)

LEMMA RowsRest ==
  ASSUME TypeOK, UNCHANGED rows
  PROVE  \A j \in Job : RowStep(j)
<1>1. job' = job /\ attempt' = attempt /\ obs' = obs
  BY DEF rows
<1> QED
  BY <1>1 DEF RowStep, Rests, RenewedByHolder

LEMMA QuietSteps ==
  ASSUME TypeOK, NEW j \in Job,
         \/ StopRead(j) \/ StopRun(j) \/ WaitTimeout(j) \/ GiveUp(j)
         \/ Tell(j) \/ Told(j)
  PROVE  Effect
<1>1. UNCHANGED <<rows, th, bounds, evidence>>
  BY DEF StopRead, StopRun, WaitTimeout, GiveUp, Tell, Told
<1>2. \A k \in Job : RowStep(k)
  BY <1>1, RowsRest
<1>3. saw' \subseteq Job \X {"stop", "wait", "tell"}
  BY DEF StopRead, StopRun, WaitTimeout, GiveUp, Tell, Told, See, Settle, TypeOK
<1>4. todo' \in [Job -> {"pending", "completed", "failed", "cancelled"}]
  <2>1. Projected(j) \in {"completed", "failed"}
    BY DEF Projected
  <2>2. \/ todo' = todo
        \/ \E s \in {"completed", "failed", "cancelled"} :
             todo' = [todo EXCEPT ![j] = s]
    BY <2>1 DEF StopRead, StopRun, WaitTimeout, GiveUp, Tell, Told, Settle
  <2> QED
    BY <2>2 DEF TypeOK
<1>5. stopped' \subseteq Job /\ telling' \subseteq Job
  BY DEF StopRead, StopRun, WaitTimeout, GiveUp, Tell, Told, TypeOK
<1>6. TypeOK'
  BY <1>1, <1>3, <1>4, <1>5 DEF TypeOK, rows, bounds
<1> QED
  BY <1>1, <1>2, <1>6 DEF Effect, ThreadStep

LEMMA SubmitStep ==
  ASSUME TypeOK, NEW j \in Job, Submit(j)
  PROVE  Effect
<1>1. PICK c \in Nat : c = Cardinality({k \in Job : job[k].created > 0}) + 1
  <2>1. IsFiniteSet({k \in Job : job[k].created > 0})
    BY JobsAreFinite, FS_Subset
  <2> DEFINE n == Cardinality({k \in Job : job[k].created > 0})
  <2>2. n \in Nat
    BY <2>1, FS_CardinalityType
  <2> HIDE DEF n
  <2>3. n + 1 \in Nat
    BY <2>2
  <2>4. \E c \in Nat : c = n + 1
    BY <2>3, Zenon
  <2> QED
    BY <2>4 DEF n
<1> DEFINE row == [job[j] EXCEPT !.status = "queued", !.created = c]
<1>2. /\ job' = [job EXCEPT ![j] = row] /\ job[j].status = "absent"
      /\ UNCHANGED <<attempt, obs, todo, evidence, stopped, telling, saw, th, bounds>>
  BY <1>1 DEF Submit
<1>3. /\ row \in JobRow /\ row.status = "queued"
      /\ row.owner = job[j].owner /\ row.attempts = job[j].attempts
      /\ row.cancelRequested = job[j].cancelRequested
  <2>1. PICK old \in JobRow : old = job[j]
    BY DEF TypeOK
  <2> QED
    BY <2>1 DEF JobRow, JobStatus
<1> HIDE DEF row
<1>4. /\ job' \in [Job -> JobRow] /\ job'[j] = row
      /\ \A k \in Job \ {j} : job'[k] = job[k]
  BY <1>2, <1>3 DEF TypeOK
<1>5. TypeOK'
  BY <1>2, <1>4 DEF TypeOK, bounds
<1>6. Marked(j)
  BY <1>2, <1>3, <1>4 DEF Marked, SameCount, Ended, TerminalStatus
<1>7. \A k \in Job \ {j} : Rests(k)
  BY <1>2, <1>4 DEF Rests
<1>8. \A k \in Job : RowStep(k)
  BY <1>2, <1>6, <1>7 DEF RowStep, RenewedByHolder
<1> QED
  BY <1>2, <1>5, <1>8 DEF Effect, ThreadStep

LEMMA OverdueStep ==
  ASSUME TypeOK, NEW j \in Job, Overdue(j)
  PROVE  Effect
<1> DEFINE row == [job[j] EXCEPT !.overdue = TRUE]
<1>2. /\ job' = [job EXCEPT ![j] = row]
      /\ UNCHANGED <<attempt, obs, todo, evidence, stopped, telling, saw, th, bounds>>
  BY DEF Overdue
<1>3. /\ row \in JobRow /\ row.status = job[j].status
      /\ row.owner = job[j].owner /\ row.attempts = job[j].attempts
      /\ row.cancelRequested = job[j].cancelRequested
  <2>1. job[j] \in JobRow
    BY DEF TypeOK
  <2> QED
    BY <2>1, JobRows
<1> HIDE DEF row
<1>4. /\ job' \in [Job -> JobRow] /\ job'[j] = row
      /\ \A k \in Job \ {j} : job'[k] = job[k]
  BY <1>2, <1>3 DEF TypeOK
<1>5. TypeOK'
  BY <1>2, <1>4 DEF TypeOK, bounds
<1>6. Marked(j)
  BY <1>2, <1>3, <1>4 DEF Marked, SameCount
<1>7. \A k \in Job \ {j} : Rests(k)
  BY <1>2, <1>4 DEF Rests
<1>8. \A k \in Job : RowStep(k)
  BY <1>2, <1>6, <1>7 DEF RowStep, RenewedByHolder
<1> QED
  BY <1>2, <1>5, <1>8 DEF Effect, ThreadStep

(* One attempt loses its lease. *)
LEMMA LapseStep ==
  ASSUME TypeOK, NEW j \in Job, NEW n \in DOMAIN attempt[j], Lapse(j, n)
  PROVE  Effect
<1> DEFINE row == [attempt[j][n] EXCEPT !.live = FALSE]
<1>1. attempt[j] \in Seq(AttemptRow)
  BY DEF TypeOK
<1>2. attempt[j][n] \in AttemptRow
  BY <1>1
<1>3. /\ row \in AttemptRow /\ row.status = attempt[j][n].status
      /\ row.owner = attempt[j][n].owner /\ row.live = FALSE
  BY <1>2, AttemptRows
<1>4. /\ attempt' = [attempt EXCEPT ![j] = [attempt[j] EXCEPT ![n] = row]]
      /\ UNCHANGED <<job, obs, todo, evidence, stopped, telling, saw, th, crashes>>
  BY DEF Lapse
<1>5. stalls' \in Nat
  BY DEF Lapse, TypeOK
<1> HIDE DEF row
<1>6. /\ attempt' \in [Job -> Seq(AttemptRow)]
      /\ Len(attempt'[j]) = Len(attempt[j]) /\ DOMAIN attempt'[j] = DOMAIN attempt[j]
      /\ attempt'[j][n] = row
      /\ \A m \in DOMAIN attempt[j] \ {n} : attempt'[j][m] = attempt[j][m]
      /\ \A k \in Job \ {j} : attempt'[k] = attempt[k]
  BY <1>3, <1>4, AttemptChange
<1>7. TypeOK'
  BY <1>4, <1>5, <1>6 DEF TypeOK
<1>8. /\ Renewed(j)
      /\ \A m \in DOMAIN attempt[j] : attempt'[j][m].live => attempt[j][m].live
  <2>1. \A m \in DOMAIN attempt[j] :
          /\ attempt'[j][m].owner = attempt[j][m].owner
          /\ attempt'[j][m].status = attempt[j][m].status
          /\ attempt'[j][m].live => attempt[j][m].live
    <3> SUFFICES ASSUME NEW m \in DOMAIN attempt[j]
                 PROVE  /\ attempt'[j][m].owner = attempt[j][m].owner
                        /\ attempt'[j][m].status = attempt[j][m].status
                        /\ attempt'[j][m].live => attempt[j][m].live
      OBVIOUS
    <3>1. CASE m = n
      BY <3>1, <1>3, <1>6
    <3>2. CASE m # n
      <4>1. attempt'[j][m] = attempt[j][m]
        BY <3>2, <1>6
      <4> QED
        BY <4>1
    <3> QED
      BY <3>1, <3>2
  <2> QED
    BY <2>1, <1>4, <1>6 DEF Renewed, SameOwners
<1>9. \A k \in Job \ {j} : Rests(k)
  BY <1>4, <1>6 DEF Rests
<1>10. \A k \in Job : RowStep(k)
  BY <1>8, <1>9 DEF RowStep, RenewedByHolder, Rests
<1> QED
  BY <1>4, <1>7, <1>10 DEF Effect, ThreadStep

(* An attempt is given a status; its owner stays, and no lease begins. *)
LEMMA StatusChange ==
  ASSUME TypeOK, NEW j \in Job, NEW n \in DOMAIN attempt[j], NEW row \in AttemptRow,
         row.owner = attempt[j][n].owner, row.live => attempt[j][n].live,
         attempt' = [attempt EXCEPT ![j] = [attempt[j] EXCEPT ![n] = row]]
  PROVE  /\ attempt' \in [Job -> Seq(AttemptRow)]
         /\ SameOwners(j) /\ RenewedByHolder(j) /\ attempt'[j][n] = row
         /\ \A k \in Job \ {j} : attempt'[k] = attempt[k]
<1>1. /\ attempt' \in [Job -> Seq(AttemptRow)]
      /\ Len(attempt'[j]) = Len(attempt[j]) /\ DOMAIN attempt'[j] = DOMAIN attempt[j]
      /\ attempt'[j][n] = row
      /\ \A m \in DOMAIN attempt[j] \ {n} : attempt'[j][m] = attempt[j][m]
      /\ \A k \in Job \ {j} : attempt'[k] = attempt[k]
  BY AttemptChange
<1>2. \A m \in DOMAIN attempt[j] :
        /\ attempt'[j][m].owner = attempt[j][m].owner
        /\ attempt'[j][m].live => attempt[j][m].live
  <2> SUFFICES ASSUME NEW m \in DOMAIN attempt[j]
               PROVE  /\ attempt'[j][m].owner = attempt[j][m].owner
                      /\ attempt'[j][m].live => attempt[j][m].live
    OBVIOUS
  <2>1. CASE m = n
    BY <2>1, <1>1
  <2>2. CASE m # n
    <3>1. attempt'[j][m] = attempt[j][m]
      BY <2>2, <1>1
    <3> QED
      BY <3>1
  <2> QED
    BY <2>1, <2>2
<1> QED
  BY <1>1, <1>2 DEF SameOwners, RenewedByHolder

(* A job that ends unclaimed has its last attempt closed, or one written.  *)
LEMMA AfterEnding ==
  ASSUME NEW rows0 \in Seq(AttemptRow), NEW s \in TerminalStatus, NEW new,
         new = IF rows0 = <<>>
               THEN <<[status |-> s, owner |-> Nobody, live |-> FALSE]>>
               ELSE [rows0 EXCEPT ![Len(rows0)].status = s]
  PROVE  /\ new \in Seq(AttemptRow)
         /\ Len(new) \in DOMAIN new /\ Len(new) \in Nat
         /\ new[Len(new)].status = s
         /\ IF rows0 = <<>>
            THEN Len(new) = 1 /\ new[1].owner = Nobody
            ELSE /\ Len(new) = Len(rows0) /\ DOMAIN new = DOMAIN rows0
                 /\ \A m \in DOMAIN rows0 : new[m].owner = rows0[m].owner
         /\ \A m \in DOMAIN rows0 : new[m].live => rows0[m].live
<1>1. CASE rows0 = <<>>
  <2> DEFINE row == [status |-> s, owner |-> Nobody, live |-> FALSE]
  <2>1. row \in AttemptRow /\ row.status = s /\ row.owner = Nobody
    BY DEF AttemptRow
  <2>2. new = <<row>>
    BY <1>1
  <2> HIDE DEF row
  <2>3. /\ <<row>> \in Seq(AttemptRow) /\ Len(<<row>>) = 1 /\ <<row>>[1] = row
        /\ DOMAIN <<row>> = 1..1
    BY <2>1
  <2>4. DOMAIN rows0 = {}
    BY <1>1
  <2>5. /\ new \in Seq(AttemptRow) /\ Len(new) = 1 /\ new[1] = row
        /\ DOMAIN new = 1..1
    BY <2>2, <2>3, Zenon
  <2> QED
    BY <1>1, <2>1, <2>4, <2>5
<1>2. CASE rows0 # <<>>
  <2>1. PICK n \in 1..Len(rows0) : n = Len(rows0) /\ n \in Nat
    BY <1>2
  <2>2. PICK old \in AttemptRow : old = rows0[n]
    BY <2>1
  <2> DEFINE row == [old EXCEPT !.status = s]
  <2>3. /\ row \in AttemptRow
        /\ row.status = s /\ row.owner = old.owner /\ row.live = old.live
    BY DEF AttemptRow
  <2>4. new = [rows0 EXCEPT ![n] = row]
    BY <1>2, <2>1, <2>2
  <2> HIDE DEF row
  <2>5. /\ new \in Seq(AttemptRow) /\ Len(new) = Len(rows0)
        /\ \A m \in 1..Len(rows0) : new[m] = IF m = n THEN row ELSE rows0[m]
    <3>1. rows0 \in Seq(AttemptRow) /\ n \in 1 .. Len(rows0)
      BY <2>1
    <3>2. /\ [rows0 EXCEPT ![n] = row] \in Seq(AttemptRow)
          /\ Len([rows0 EXCEPT ![n] = row]) = Len(rows0)
          /\ \A m \in 1 .. Len(rows0) :
               [rows0 EXCEPT ![n] = row][m] = IF m = n THEN row ELSE rows0[m]
      BY <2>3, <3>1, ExceptSeq
    <3> QED
      BY <2>4, <3>2
  <2>6. DOMAIN new = 1..Len(new) /\ DOMAIN rows0 = 1..Len(rows0)
    BY <2>5
  <2>7. \A m \in 1..Len(rows0) : /\ new[m].owner = rows0[m].owner
                                 /\ new[m].live = rows0[m].live
    BY <2>2, <2>3, <2>5
  <2>8. new[n] = row
    BY <2>1, <2>5
  <2>9. Len(new) \in DOMAIN new /\ Len(new) \in Nat /\ new[Len(new)].status = s
    BY <2>1, <2>3, <2>5, <2>6, <2>8
  <2> QED
    BY <1>2, <2>5, <2>6, <2>7, <2>9
<1> QED
  BY <1>1, <1>2

LEMMA ClosedAttempts ==
  ASSUME TypeOK, NEW j \in Job, NEW s \in TerminalStatus,
         attempt' = [attempt EXCEPT ![j] = AttemptsAfter(j, s)]
  PROVE  /\ attempt' \in [Job -> Seq(AttemptRow)]
         /\ Len(attempt'[j]) \in DOMAIN attempt'[j] /\ Len(attempt'[j]) \in Nat
         /\ attempt'[j][Len(attempt'[j])].status = s
         /\ IF attempt[j] = <<>>
            THEN Len(attempt'[j]) = 1 /\ attempt'[j][1].owner = Nobody
            ELSE SameOwners(j)
         /\ RenewedByHolder(j)
         /\ \A k \in Job \ {j} : attempt'[k] = attempt[k]
<1>1. attempt \in [Job -> Seq(AttemptRow)] /\ attempt[j] \in Seq(AttemptRow)
  BY DEF TypeOK
<1>2. attempt'[j] = AttemptsAfter(j, s) /\ \A k \in Job \ {j} : attempt'[k] = attempt[k]
  BY <1>1
<1>3. /\ attempt'[j] \in Seq(AttemptRow)
      /\ Len(attempt'[j]) \in DOMAIN attempt'[j] /\ Len(attempt'[j]) \in Nat
      /\ attempt'[j][Len(attempt'[j])].status = s
      /\ IF attempt[j] = <<>>
         THEN Len(attempt'[j]) = 1 /\ attempt'[j][1].owner = Nobody
         ELSE /\ Len(attempt'[j]) = Len(attempt[j])
              /\ DOMAIN attempt'[j] = DOMAIN attempt[j]
              /\ \A m \in DOMAIN attempt[j] : attempt'[j][m].owner = attempt[j][m].owner
      /\ \A m \in DOMAIN attempt[j] : attempt'[j][m].live => attempt[j][m].live
  <2>1. attempt'[j] = IF attempt[j] = <<>>
                      THEN <<[status |-> s, owner |-> Nobody, live |-> FALSE]>>
                      ELSE [attempt[j] EXCEPT ![Len(attempt[j])].status = s]
    BY <1>2 DEF AttemptsAfter
  <2> QED
    BY <1>1, <2>1, AfterEnding
<1>4. attempt' \in [Job -> Seq(AttemptRow)]
  <2>1. AttemptsAfter(j, s) \in Seq(AttemptRow)
    BY <1>2, <1>3
  <2> QED
    BY <1>1, <2>1
<1> QED
  BY <1>2, <1>3, <1>4 DEF SameOwners, RenewedByHolder

(* A transaction that ends a job nobody executes: a cancellation, or a     *)
(* claim that found no time or no attempt left.                            *)
LEMMA UnclaimedEnd ==
  ASSUME TypeOK, NEW j \in Job, ~Ended(j), NEW s \in TerminalStatus,
         NEW row \in JobRow, row.status = s, row.owner = Nobody,
         row.attempts = job[j].attempts, s # "completed",
         job' = [job EXCEPT ![j] = row],
         attempt' = [attempt EXCEPT ![j] = AttemptsAfter(j, s)],
         obs' = [obs EXCEPT ![j] = [status |-> s, n |-> Len(attempt'[j])]]
  PROVE  /\ job' \in [Job -> JobRow]
         /\ attempt' \in [Job -> Seq(AttemptRow)]
         /\ obs' \in [Job -> [status: TerminalStatus \union {"none"}, n: Nat]]
         /\ \A k \in Job : RowStep(k)
<1>1. /\ attempt' \in [Job -> Seq(AttemptRow)]
      /\ Len(attempt'[j]) \in DOMAIN attempt'[j] /\ Len(attempt'[j]) \in Nat
      /\ attempt'[j][Len(attempt'[j])].status = s
      /\ IF attempt[j] = <<>>
         THEN Len(attempt'[j]) = 1 /\ attempt'[j][1].owner = Nobody
         ELSE SameOwners(j)
      /\ RenewedByHolder(j)
      /\ \A k \in Job \ {j} : attempt'[k] = attempt[k]
  BY ClosedAttempts
<1>2. /\ job' \in [Job -> JobRow] /\ job'[j] = row
      /\ \A k \in Job \ {j} : job'[k] = job[k]
  BY DEF TypeOK
<1> DEFINE o == [status |-> s, n |-> Len(attempt'[j])]
<1>3. o \in [status: TerminalStatus \union {"none"}, n: Nat]
      /\ o.status = s /\ o.n = Len(attempt'[j])
  BY <1>1
<1>4. obs' = [obs EXCEPT ![j] = o]
  OBVIOUS
<1> HIDE DEF o
<1>5. /\ obs' \in [Job -> [status: TerminalStatus \union {"none"}, n: Nat]]
      /\ obs'[j] = o
      /\ \A k \in Job \ {j} : obs'[k] = obs[k]
  BY <1>3, <1>4 DEF TypeOK
<1>6. Settled(j)' /\ CancelStops(j)' /\ Ended(j)'
  BY <1>1, <1>2, <1>3, <1>5 DEF Settled, CancelStops, Ended
<1>7. Ends(j)
  BY <1>1, <1>2, <1>3, <1>5, <1>6 DEF Ends, SameCount
<1>8. \A k \in Job \ {j} : Rests(k)
  BY <1>1, <1>2, <1>5 DEF Rests
<1>9. \A k \in Job : RowStep(k)
  BY <1>1, <1>7, <1>8 DEF RowStep, Rests, RenewedByHolder
<1> QED
  BY <1>1, <1>2, <1>5, <1>9

LEMMA CancelStep ==
  ASSUME TypeOK, NEW j \in Job, Cancel(j)
  PROVE  Effect
<1>1. UNCHANGED <<todo, evidence, stopped, saw, th, bounds>>
  BY DEF Cancel
<1>2. telling' \subseteq Job
  BY DEF Cancel, TypeOK
<1>3. /\ job' \in [Job -> JobRow]
      /\ attempt' \in [Job -> Seq(AttemptRow)]
      /\ obs' \in [Job -> [status: TerminalStatus \union {"none"}, n: Nat]]
      /\ \A k \in Job : RowStep(k)
  <2>1. CASE Ended(j)
    <3>1. UNCHANGED rows
      BY <2>1 DEF Cancel
    <3> QED
      BY <3>1, RowsRest DEF TypeOK, rows
  <2>2. CASE ~Ended(j) /\ job[j].status \in {"queued", "retry_wait"}
    <3> DEFINE row == [job[j] EXCEPT !.status = "cancelled",
                         !.cancelRequested = TRUE, !.owner = Nobody]
    <3>1. job[j] \in JobRow
      BY DEF TypeOK
    <3>2. /\ row \in JobRow /\ row.status = "cancelled"
          /\ row.owner = Nobody /\ row.attempts = job[j].attempts
      BY <3>1, JobRows
    <3>3. /\ job' = [job EXCEPT ![j] = row]
          /\ attempt' = [attempt EXCEPT ![j] = AttemptsAfter(j, "cancelled")]
          /\ obs' = [obs EXCEPT ![j] = [status |-> "cancelled", n |-> Len(attempt'[j])]]
      BY <2>2 DEF Cancel
    <3> HIDE DEF row
    <3>4. "cancelled" \in TerminalStatus
      BY DEF TerminalStatus
    <3> QED
      BY <2>2, <3>2, <3>3, <3>4, UnclaimedEnd
  <2>3. CASE ~Ended(j) /\ job[j].status \notin {"queued", "retry_wait"}
    <3> DEFINE row == [job[j] EXCEPT !.status = "cancel_requested",
                         !.cancelRequested = TRUE]
    <3>1. job[j] \in JobRow
      BY DEF TypeOK
    <3>2. /\ row \in JobRow /\ row.status = "cancel_requested"
          /\ row.owner = job[j].owner /\ row.attempts = job[j].attempts
      BY <3>1, JobRows
    <3>3. job' = [job EXCEPT ![j] = row] /\ UNCHANGED <<attempt, obs>>
      BY <2>3 DEF Cancel
    <3> HIDE DEF row
    <3>4. /\ job' \in [Job -> JobRow] /\ job'[j] = row
          /\ \A k \in Job \ {j} : job'[k] = job[k]
      BY <3>2, <3>3 DEF TypeOK
    <3>5. ~Ended(j)'
      BY <3>2, <3>4 DEF Ended, TerminalStatus
    <3>6. Marked(j)
      BY <2>3, <3>2, <3>3, <3>4, <3>5 DEF Marked, SameCount
    <3>7. \A k \in Job \ {j} : Rests(k)
      BY <3>3, <3>4 DEF Rests
    <3>8. \A k \in Job : RowStep(k)
      BY <3>3, <3>6, <3>7 DEF RowStep, RenewedByHolder
    <3> QED
      BY <3>3, <3>4, <3>8 DEF TypeOK
  <2> QED
    BY <2>1, <2>2, <2>3
<1>4. TypeOK'
  BY <1>1, <1>2, <1>3 DEF TypeOK, bounds
<1> QED
  BY <1>1, <1>3, <1>4 DEF Effect, ThreadStep

-----------------------------------------------------------------------------
(* The steps of a thread *)

LEMMA FreshThreads ==
  /\ IdleThread \in ThreadState /\ IdleThread.pc = "idle"
  /\ DeadThread \in ThreadState /\ DeadThread.pc = "dead"
BY DEF ThreadState, IdleThread, DeadThread, Working

(* One thread moves: to no attempt, or on with its own. *)
LEMMA ThreadChange ==
  ASSUME TypeOK, NEW t \in Thread, NEW row \in ThreadState,
         th' = [th EXCEPT ![t] = row]
  PROVE  /\ th' \in [Thread -> ThreadState] /\ th'[t] = row
         /\ \A u \in Thread \ {t} : th'[u] = th[u]
         /\ row.pc \notin Working => Moves(t)
         /\ /\ th[t].pc \in Working /\ row.job = th[t].job /\ row.n = th[t].n
            /\ row.pc \in {"decide", "retry", "publish"} => row.out \in TerminalStatus
            /\ row.pc = "notify" => Leaseholder(t)
            => Moves(t)
<1>1. th' \in [Thread -> ThreadState] /\ th'[t] = row
      /\ \A u \in Thread \ {t} : th'[u] = th[u]
  BY DEF TypeOK
<1>2. row.pc \notin Working => Moves(t)
  BY <1>1 DEF Moves, Leaves
<1>3. /\ th[t].pc \in Working /\ row.job = th[t].job /\ row.n = th[t].n
      /\ row.pc \in {"decide", "retry", "publish"} => row.out \in TerminalStatus
      /\ row.pc = "notify" => Leaseholder(t)
      => Moves(t)
  BY <1>1 DEF Moves, Carries
<1> QED
  BY <1>1, <1>2, <1>3

(* A thread ends its container and comes to a decision. *)
LEMMA OutcomeStep ==
  ASSUME TypeOK, NEW t \in Thread, th[t].pc \in Working,
         NEW pc \in Working \ {"notify"}, NEW out \in TerminalStatus, NEW r \in BOOLEAN,
         Outcome(t, pc, out, r)
  PROVE  th' \in [Thread -> ThreadState] /\ Moves(t)
<1> DEFINE row == [th[t] EXCEPT !.pc = pc, !.out = out, !.retryable = r]
<1>1. PICK old \in ThreadState : old = th[t]
  BY DEF TypeOK
<1>2. row \in ThreadState /\ row.pc = pc /\ row.out = out
      /\ row.job = th[t].job /\ row.n = th[t].n
  BY <1>1 DEF ThreadState
<1>3. th' = [th EXCEPT ![t] = row]
  BY DEF Outcome
<1> HIDE DEF row
<1> QED
  BY <1>2, <1>3, ThreadChange

LEMMA GotoStep ==
  ASSUME TypeOK, NEW t \in Thread, th[t].pc \in Working, NEW pc \in Working, Goto(t, pc),
         pc \in {"decide", "retry", "publish"} => th[t].out \in TerminalStatus,
         pc = "notify" => Leaseholder(t)
  PROVE  th' \in [Thread -> ThreadState] /\ Moves(t)
<1> DEFINE row == [th[t] EXCEPT !.pc = pc]
<1>1. PICK old \in ThreadState : old = th[t]
  BY DEF TypeOK
<1>2. row \in ThreadState /\ row.pc = pc /\ row.out = th[t].out
      /\ row.job = th[t].job /\ row.n = th[t].n
  BY <1>1 DEF ThreadState
<1>3. th' = [th EXCEPT ![t] = row]
  BY DEF Goto
<1> HIDE DEF row
<1> QED
  BY <1>2, <1>3, ThreadChange

LEMMA LeavingStep ==
  ASSUME TypeOK, NEW t \in Thread,
         th' = [th EXCEPT ![t] = IdleThread] \/ th' = [th EXCEPT ![t] = DeadThread]
  PROVE  th' \in [Thread -> ThreadState] /\ Moves(t)
<1>1. IdleThread.pc \notin Working /\ DeadThread.pc \notin Working
      /\ IdleThread \in ThreadState /\ DeadThread \in ThreadState
  BY FreshThreads DEF Working
<1>2. CASE th' = [th EXCEPT ![t] = IdleThread]
  BY <1>1, <1>2, ThreadChange
<1>3. CASE th' = [th EXCEPT ![t] = DeadThread]
  BY <1>1, <1>3, ThreadChange
<1> QED
  BY <1>2, <1>3

(* A move that leaves the rows alone. *)
LEMMA RowlessMove ==
  ASSUME TypeOK, NEW t \in Thread, th' \in [Thread -> ThreadState] /\ Moves(t),
         UNCHANGED <<rows, stopped, telling, saw, stalls>>, crashes' \in Nat,
         todo' \in [Job -> {"pending", "completed", "failed", "cancelled"}],
         evidence' \subseteq Job
  PROVE  Effect
<1>1. \A j \in Job : RowStep(j)
  BY RowsRest
<1>2. TypeOK'
  BY DEF TypeOK, rows
<1> QED
  BY <1>1, <1>2 DEF Effect, ThreadStep

LEMMA FinishStep ==
  ASSUME TypeOK, NEW t \in Thread, Finish(t)
  PROVE  Effect
<1>1. th[t].pc \in Working
  BY DEF Finish, Working
<1>2. PICK out \in TerminalStatus, r \in BOOLEAN : Outcome(t, "decide", out, r)
  BY DEF Finish, TerminalStatus
<1>3. th' \in [Thread -> ThreadState] /\ Moves(t)
  BY <1>1, <1>2, OutcomeStep DEF Working
<1> QED
  BY <1>3, RowlessMove DEF Finish, TypeOK, bounds

LEMMA StoppedStep ==
  ASSUME TypeOK, NEW t \in Thread, Stopped(t)
  PROVE  Effect
<1>1. th[t].pc \in Working
  BY DEF Stopped, Working
<1>2. \/ th' = [th EXCEPT ![t] = IdleThread]
      \/ \E out \in TerminalStatus, r \in BOOLEAN : Outcome(t, "decide", out, r)
  BY DEF Stopped, TerminalStatus
<1>3. th' \in [Thread -> ThreadState] /\ Moves(t)
  <2>1. CASE th' = [th EXCEPT ![t] = IdleThread]
    BY <2>1, LeavingStep
  <2>2. CASE \E out \in TerminalStatus, r \in BOOLEAN : Outcome(t, "decide", out, r)
    <3>1. PICK out \in TerminalStatus, r \in BOOLEAN : Outcome(t, "decide", out, r)
      BY <2>2
    <3> QED
      BY <1>1, <3>1, OutcomeStep DEF Working
  <2> QED
    BY <1>2, <2>1, <2>2
<1> QED
  BY <1>3, RowlessMove DEF Stopped, TypeOK, bounds

LEMMA DecideStep ==
  ASSUME TypeOK, ThreadsAreSound, NEW t \in Thread, Decide(t)
  PROVE  Effect
<1>1. th[t].pc \in Working /\ th[t].out \in TerminalStatus
  BY DEF Decide, Working, ThreadsAreSound
<1>2. \/ Outcome(t, "publish", "cancelled", FALSE)
      \/ \E pc \in {"retry", "publish"} : Goto(t, pc)
  BY DEF Decide
<1>3. th' \in [Thread -> ThreadState] /\ Moves(t)
  <2>1. CASE Outcome(t, "publish", "cancelled", FALSE)
    <3>1. "publish" \in Working \ {"notify"} /\ "cancelled" \in TerminalStatus
      BY DEF Working, TerminalStatus
    <3> QED
      BY <1>1, <2>1, <3>1, OutcomeStep
  <2>2. CASE \E pc \in {"retry", "publish"} : Goto(t, pc)
    <3>1. PICK pc \in {"retry", "publish"} : Goto(t, pc)
      BY <2>2
    <3>2. pc \in Working /\ pc # "notify"
      BY <3>1 DEF Working
    <3> QED
      BY <1>1, <3>1, <3>2, GotoStep
  <2> QED
    BY <1>2, <2>1, <2>2
<1> QED
  BY <1>3, RowlessMove DEF Decide, TypeOK, bounds

LEMMA NotifyStep ==
  ASSUME TypeOK, ThreadsAreSound, NEW t \in Thread, Notify(t)
  PROVE  Effect
<1>1. th[t].pc \in Working /\ th[t].job \in Job
  BY DEF Notify, Working, ThreadsAreSound
<1>2. evidence' \subseteq Job
  BY <1>1 DEF Notify, Derive, TypeOK
<1>3. th' \in [Thread -> ThreadState] /\ Moves(t)
  <2>1. CASE Goto(t, "project")
    BY <1>1, <2>1, GotoStep DEF Working
  <2>2. CASE th' = [th EXCEPT ![t] = IdleThread]
    BY <2>2, LeavingStep
  <2> QED
    BY <2>1, <2>2 DEF Notify
<1> QED
  BY <1>2, <1>3, RowlessMove DEF Notify, TypeOK, bounds

LEMMA ProjectStep ==
  ASSUME TypeOK, ThreadsAreSound, NEW t \in Thread, Project(t)
  PROVE  Effect
<1>1. th[t].job \in Job
  BY DEF Project, Working, ThreadsAreSound
<1>2. evidence' \subseteq Job
  BY <1>1 DEF Project, Derive, TypeOK
<1>3. todo' \in [Job -> {"pending", "completed", "failed", "cancelled"}]
  <2>1. Projected(th[t].job) \in {"completed", "failed"}
    BY DEF Projected
  <2> QED
    BY <2>1 DEF Project, TypeOK
<1>4. th' \in [Thread -> ThreadState] /\ Moves(t)
  BY LeavingStep DEF Project
<1> QED
  BY <1>2, <1>3, <1>4, RowlessMove DEF Project, TypeOK, bounds

LEMMA CrashStep ==
  ASSUME TypeOK, NEW t \in Thread, Crash(t)
  PROVE  Effect
<1>1. th' \in [Thread -> ThreadState] /\ Moves(t)
  BY LeavingStep DEF Crash
<1>2. crashes' \in Nat
  BY DEF Crash, TypeOK
<1> QED
  BY <1>1, <1>2, RowlessMove DEF Crash, TypeOK

(* The lease is renewed, or the container killed. *)
LEMMA BeatStep ==
  ASSUME TypeOK, JobsAreSound, ThreadsAreSound, NEW t \in Thread, Beat(t)
  PROVE  Effect
<1> DEFINE j == th[t].job
           n == th[t].n
<1>1. /\ th[t].pc \in Working /\ j \in Job /\ n \in 1..job[j].attempts
      /\ Executing(t, j, n)
  BY DEF Beat, Working, ThreadsAreSound, Executing
<1>2. n \in DOMAIN attempt[j]
  BY <1>1 DEF JobsAreSound, Counted, TypeOK, JobRow
<1>3. CASE UNCHANGED attempt /\ \E c \in {"deadline", "heartbeat"} :
             th' = [th EXCEPT ![t] = [th[t] EXCEPT !.pc = "stop", !.cause = c]]
  <2>1. PICK c \in {"deadline", "heartbeat"} :
          th' = [th EXCEPT ![t] = [th[t] EXCEPT !.pc = "stop", !.cause = c]]
    BY <1>3
  <2> DEFINE row == [th[t] EXCEPT !.pc = "stop", !.cause = c]
  <2>2. PICK old \in ThreadState : old = th[t]
    BY DEF TypeOK
  <2>3. row \in ThreadState /\ row.pc = "stop" /\ row.job = th[t].job /\ row.n = th[t].n
    BY <2>2 DEF ThreadState, Working
  <2>4. th' = [th EXCEPT ![t] = row]
    BY <2>1
  <2> HIDE DEF row
  <2>5. th' \in [Thread -> ThreadState] /\ Moves(t)
    BY <1>1, <2>3, <2>4, ThreadChange
  <2> QED
    BY <1>3, <2>5, RowlessMove DEF Beat, TypeOK, bounds, rows
<1>4. CASE /\ attempt' = [attempt EXCEPT ![j][n].live = TRUE]
           /\ Leaseholder(t) /\ UNCHANGED th
  <2>1. PICK old \in AttemptRow : old = attempt[j][n]
    BY <1>1, <1>2 DEF TypeOK
  <2> DEFINE row == [attempt[j][n] EXCEPT !.live = TRUE]
  <2>2. /\ row \in AttemptRow /\ row.status = attempt[j][n].status
        /\ row.owner = attempt[j][n].owner
    BY <2>1 DEF AttemptRow
  <2>3. attempt' = [attempt EXCEPT ![j] = [attempt[j] EXCEPT ![n] = row]]
    BY <1>4
  <2>4. PICK k \in Job : k = j
    BY <1>1
  <2>4a. PICK m \in DOMAIN attempt[k] : m = n
    BY <1>2, <2>4
  <2> HIDE DEF row, j, n
  <2>5. /\ attempt' \in [Job -> Seq(AttemptRow)]
        /\ Len(attempt'[k]) = Len(attempt[k]) /\ DOMAIN attempt'[k] = DOMAIN attempt[k]
        /\ attempt'[k][m] = row
        /\ \A p \in DOMAIN attempt[k] \ {m} : attempt'[k][p] = attempt[k][p]
        /\ \A p \in Job \ {k} : attempt'[p] = attempt[p]
    BY <2>2, <2>3, <2>4, <2>4a, AttemptChange
  <2>6. \A p \in DOMAIN attempt[k] : /\ attempt'[k][p].owner = attempt[k][p].owner
                                     /\ attempt'[k][p].status = attempt[k][p].status
    <3> SUFFICES ASSUME NEW p \in DOMAIN attempt[k]
                 PROVE  /\ attempt'[k][p].owner = attempt[k][p].owner
                        /\ attempt'[k][p].status = attempt[k][p].status
      OBVIOUS
    <3>1. CASE p = m
      BY <3>1, <2>2, <2>4, <2>4a, <2>5
    <3>2. CASE p # m
      <4>1. attempt'[k][p] = attempt[k][p]
        BY <3>2, <2>5
      <4> QED
        BY <4>1
    <3> QED
      BY <3>1, <3>2
  <2>7. UNCHANGED <<job, obs, todo, evidence, stopped, telling, saw, bounds>>
    BY DEF Beat
  <2>8. Renewed(k)
    BY <2>5, <2>6, <2>7 DEF Renewed, SameOwners
  <2>9. RenewedByHolder(k)
    <3> SUFFICES ASSUME NEW p \in DOMAIN attempt[k], attempt'[k][p].live,
                        ~attempt[k][p].live
                 PROVE  Executing(t, k, p) /\ Leaseholder(t)
      BY DEF RenewedByHolder
    <3>1. p = m
      BY <2>5
    <3> QED
      BY <3>1, <1>1, <1>4, <2>4, <2>4a
  <2>10. \A p \in Job \ {k} : Rests(p)
    BY <2>5, <2>7 DEF Rests
  <2>11. \A p \in Job : RowStep(p)
    BY <2>8, <2>9, <2>10 DEF RowStep, RenewedByHolder, Rests
  <2>12. TypeOK'
    BY <1>4, <2>5, <2>7 DEF TypeOK, bounds
  <2> QED
    BY <1>4, <2>11, <2>12 DEF Effect, ThreadStep
<1> QED
  BY <1>3, <1>4 DEF Beat

LEMMA RetryStep ==
  ASSUME TypeOK, JobsAreSound, ThreadsAreSound, NEW t \in Thread, Retry(t)
  PROVE  Effect
<1>1. PICK j \in Job : j = th[t].job
  BY DEF Retry, Working, ThreadsAreSound
<1>2. PICK n \in DOMAIN attempt[j] : n = th[t].n
  BY <1>1 DEF Retry, Working, ThreadsAreSound, JobsAreSound, Counted, TypeOK, JobRow
<1>3. th' \in [Thread -> ThreadState] /\ Moves(t)
  BY LeavingStep DEF Retry
<1>4. UNCHANGED <<obs, todo, evidence, stopped, telling, saw, bounds>>
  BY DEF Retry
<1>5. CASE ~Leaseholder(t)
  BY <1>3, <1>5, RowlessMove DEF Retry, TypeOK, bounds, rows
<1>6. CASE Leaseholder(t)
  <2>1. ~Ended(j) /\ job[j].owner # Nobody
    BY <1>1, <1>6, NobodyIsNoName DEF Leaseholder, JobsAreSound, Held, Name
  <2>2. PICK old \in JobRow : old = job[j]
    BY DEF TypeOK
  <2> DEFINE row == [job[j] EXCEPT !.status = "retry_wait", !.owner = Nobody]
  <2>3. /\ row \in JobRow /\ row.status = "retry_wait" /\ row.owner = Nobody
        /\ row.attempts = job[j].attempts
        /\ row.cancelRequested = job[j].cancelRequested
    BY <2>2 DEF JobRow, JobStatus
  <2>4. PICK a \in AttemptRow : a = attempt[j][n]
    BY DEF TypeOK
  <2> DEFINE new == [attempt[j][n] EXCEPT !.status = "retry_wait", !.live = FALSE]
  <2>5. new \in AttemptRow /\ new.owner = attempt[j][n].owner /\ new.live = FALSE
    BY <2>4 DEF AttemptRow
  <2>6. /\ job' = [job EXCEPT ![j] = row]
        /\ attempt' = [attempt EXCEPT ![j] = [attempt[j] EXCEPT ![n] = new]]
    BY <1>1, <1>2, <1>6 DEF Retry
  <2> HIDE DEF row, new
  <2>7. /\ job' \in [Job -> JobRow] /\ job'[j] = row
        /\ \A k \in Job \ {j} : job'[k] = job[k]
    BY <2>3, <2>6 DEF TypeOK
  <2>8. /\ attempt' \in [Job -> Seq(AttemptRow)]
        /\ SameOwners(j) /\ RenewedByHolder(j)
        /\ \A k \in Job \ {j} : attempt'[k] = attempt[k]
    BY <2>5, <2>6, StatusChange
  <2>9. Retries(j)
    BY <1>4, <2>1, <2>3, <2>7, <2>8 DEF Retries, Ended, TerminalStatus, SameCount
  <2>10. \A k \in Job \ {j} : Rests(k)
    BY <1>4, <2>7, <2>8 DEF Rests
  <2>11. \A k \in Job : RowStep(k)
    BY <2>8, <2>9, <2>10 DEF RowStep, RenewedByHolder, Rests
  <2>12. TypeOK'
    BY <1>3, <1>4, <2>7, <2>8 DEF TypeOK, bounds
  <2> QED
    BY <1>3, <2>11, <2>12 DEF Effect, ThreadStep
<1> QED
  BY <1>5, <1>6

LEMMA PublishStep ==
  ASSUME TypeOK, JobsAreSound, ThreadsAreSound, NEW t \in Thread, Publish(t)
  PROVE  Effect
<1>1. PICK j \in Job : j = th[t].job
  BY DEF Publish, Working, ThreadsAreSound
<1>2. PICK n \in DOMAIN attempt[j] : n = th[t].n
  BY <1>1 DEF Publish, Working, ThreadsAreSound, JobsAreSound, Counted, TypeOK, JobRow
<1>3. UNCHANGED <<todo, evidence, stopped, telling, saw, bounds>>
  BY DEF Publish
<1>4. CASE obs[j] # NoObservation \/ ~MayPublish(t)
  <2>1. th' \in [Thread -> ThreadState] /\ Moves(t)
    BY <1>1, <1>4, LeavingStep DEF Publish
  <2> QED
    BY <1>1, <1>3, <1>4, <2>1, RowlessMove DEF Publish, TypeOK, bounds, rows
<1>5. CASE obs[j] = NoObservation /\ MayPublish(t)
  <2>1. /\ ~Ended(j) /\ Leaseholder(t) /\ attempt[j] # <<>>
    BY <1>1, <1>5, NobodyIsNoName
       DEF MayPublish, Leaseholder, JobsAreSound, Held, Name
  <2>2. PICK s \in TerminalStatus : s = Verdict(t)
    BY DEF Verdict, Publish, ThreadsAreSound, Working, TerminalStatus
  <2>3. job[j].cancelRequested => s # "completed"
    BY <1>1, <2>2 DEF Verdict
  <2>4. PICK old \in JobRow : old = job[j]
    BY DEF TypeOK
  <2> DEFINE row == [job[j] EXCEPT !.status = s, !.owner = Nobody]
  <2>5. /\ row \in JobRow /\ row.status = s /\ row.owner = Nobody
        /\ row.attempts = job[j].attempts
        /\ row.cancelRequested = job[j].cancelRequested
    BY <2>4 DEF JobRow, JobStatus
  <2>6. PICK a \in AttemptRow : a = attempt[j][n]
    BY DEF TypeOK
  <2> DEFINE new == [attempt[j][n] EXCEPT !.status = s]
  <2>7. /\ new \in AttemptRow /\ new.owner = attempt[j][n].owner
        /\ new.live = attempt[j][n].live /\ new.status = s
    BY <2>6 DEF AttemptRow
  <2> DEFINE o == [status |-> s, n |-> n]
  <2>8. o \in [status: TerminalStatus \union {"none"}, n: Nat] /\ o.status = s /\ o.n = n
    BY DEF TypeOK
  <2>9. /\ job' = [job EXCEPT ![j] = row]
        /\ attempt' = [attempt EXCEPT ![j] = [attempt[j] EXCEPT ![n] = new]]
        /\ obs' = [obs EXCEPT ![j] = o]
        /\ Goto(t, "notify") /\ th[t].pc = "publish"
    BY <1>1, <1>2, <1>5, <2>2 DEF Publish, EndJob
  <2> HIDE DEF row, new, o
  <2>10. /\ job' \in [Job -> JobRow] /\ job'[j] = row
         /\ \A k \in Job \ {j} : job'[k] = job[k]
    BY <2>5, <2>9 DEF TypeOK
  <2>11. /\ attempt' \in [Job -> Seq(AttemptRow)]
         /\ SameOwners(j) /\ RenewedByHolder(j) /\ attempt'[j][n] = new
         /\ \A k \in Job \ {j} : attempt'[k] = attempt[k]
    BY <2>7, <2>9, StatusChange
  <2>12. /\ obs' \in [Job -> [status: TerminalStatus \union {"none"}, n: Nat]]
         /\ obs'[j] = o
         /\ \A k \in Job \ {j} : obs'[k] = obs[k]
    BY <2>8, <2>9 DEF TypeOK
  <2>13. th' \in [Thread -> ThreadState] /\ Moves(t)
    BY <2>1, <2>9, GotoStep DEF Working
  <2>14. Settled(j)' /\ CancelStops(j)' /\ Ended(j)'
    BY <2>3, <2>5, <2>7, <2>8, <2>10, <2>11, <2>12
       DEF Settled, CancelStops, Ended, SameOwners
  <2>15. Publishes(t, j)
    BY <1>1, <1>2, <2>1, <2>8, <2>9, <2>12 DEF Publishes
  <2>16. Ends(j)
    BY <2>1, <2>5, <2>10, <2>11, <2>14, <2>15 DEF Ends, SameCount
  <2>17. \A k \in Job \ {j} : Rests(k)
    BY <2>10, <2>11, <2>12 DEF Rests
  <2>18. \A k \in Job : RowStep(k)
    BY <2>11, <2>16, <2>17 DEF RowStep, RenewedByHolder, Rests
  <2>19. TypeOK'
    BY <1>3, <2>10, <2>11, <2>12, <2>13 DEF TypeOK, bounds
  <2> QED
    BY <2>13, <2>18, <2>19 DEF Effect, ThreadStep
<1> QED
  BY <1>4, <1>5

(* A claim ends a job that has no time or no attempt left, or leases it. *)
LEMMA ClaimStep ==
  ASSUME TypeOK, JobsAreSound, NEW t \in Thread, Claim(t)
  PROVE  Effect
<1>1. PICK j \in Job :
        /\ Claimable(j)
        /\ IF job[j].overdue
           THEN EndUnclaimed(j, "timed_out") /\ UNCHANGED th
           ELSE IF NoAttemptLeft(j)
           THEN EndUnclaimed(j, "failed") /\ UNCHANGED th
           ELSE LET n == job[j].attempts + 1 IN
                /\ job' = [job EXCEPT ![j] = [@ EXCEPT !.status = "running",
                             !.attempts = n, !.owner = NameOf[t]]]
                /\ attempt' = [attempt EXCEPT ![j] = Append(@,
                     [status |-> "leased", owner |-> NameOf[t], live |-> TRUE])]
                /\ th' = [th EXCEPT ![t] = [IdleThread EXCEPT
                            !.pc = "execute", !.job = j, !.n = n]]
                /\ UNCHANGED obs
  BY Zenon DEF Claim
<1>2. UNCHANGED <<todo, evidence, stopped, telling, saw, bounds>>
  BY DEF Claim
<1>3. ~Ended(j)
  BY <1>1 DEF Claimable, Ended, TerminalStatus
<1>4. PICK old \in JobRow : old = job[j]
  BY DEF TypeOK
<1>5. CASE UNCHANGED th /\ \E s \in {"timed_out", "failed"} : EndUnclaimed(j, s)
  <2>1. PICK s \in {"timed_out", "failed"} : EndUnclaimed(j, s)
    BY <1>5
  <2>2. s \in TerminalStatus /\ s # "completed"
    BY <2>1 DEF TerminalStatus
  <2> DEFINE row == [job[j] EXCEPT !.status = s, !.owner = Nobody]
  <2>3. /\ row \in JobRow /\ row.status = s /\ row.owner = Nobody
        /\ row.attempts = job[j].attempts
    BY <1>4, <2>2 DEF JobRow, JobStatus
  <2>4. /\ job' = [job EXCEPT ![j] = row]
        /\ attempt' = [attempt EXCEPT ![j] = AttemptsAfter(j, s)]
        /\ obs' = [obs EXCEPT ![j] = [status |-> s, n |-> Len(attempt'[j])]]
    BY <2>1 DEF EndUnclaimed, EndJob
  <2> HIDE DEF row
  <2>5. /\ job' \in [Job -> JobRow]
        /\ attempt' \in [Job -> Seq(AttemptRow)]
        /\ obs' \in [Job -> [status: TerminalStatus \union {"none"}, n: Nat]]
        /\ \A k \in Job : RowStep(k)
    BY <1>3, <2>2, <2>3, <2>4, UnclaimedEnd
  <2>6. TypeOK'
    BY <1>2, <1>5, <2>5 DEF TypeOK, bounds
  <2> QED
    BY <1>5, <2>5, <2>6 DEF Effect, ThreadStep
<1>6. CASE /\ ~NoAttemptLeft(j)
           /\ job' = [job EXCEPT ![j] = [@ EXCEPT !.status = "running",
                        !.attempts = job[j].attempts + 1, !.owner = NameOf[t]]]
           /\ attempt' = [attempt EXCEPT ![j] = Append(@,
                [status |-> "leased", owner |-> NameOf[t], live |-> TRUE])]
           /\ th' = [th EXCEPT ![t] = [IdleThread EXCEPT
                       !.pc = "execute", !.job = j, !.n = job[j].attempts + 1]]
           /\ UNCHANGED obs
  <2>1. PICK n \in Nat : n = job[j].attempts + 1 /\ job[j].attempts < MaxAttempts
    <3>1. job[j].attempts \in Nat
      BY <1>4 DEF JobRow
    <3>2. ~(job[j].attempts >= MaxAttempts)
      BY <1>6 DEF NoAttemptLeft
    <3>3. MaxAttempts \in Nat
      BY BoundsAreNatural
    <3>4. job[j].attempts < MaxAttempts /\ job[j].attempts + 1 \in Nat
      BY <3>1, <3>2, <3>3
    <3> QED
      BY <3>4
  <2>2. NameOf[t] \in Name
    BY DEF Name
  <2> DEFINE row == [job[j] EXCEPT !.status = "running", !.attempts = n,
                       !.owner = NameOf[t]]
             new == [status |-> "leased", owner |-> NameOf[t], live |-> TRUE]
             thread == [IdleThread EXCEPT !.pc = "execute", !.job = j, !.n = n]
  <2>3. /\ row \in JobRow /\ row.status = "running" /\ row.owner = NameOf[t]
        /\ row.attempts = n /\ row.cancelRequested = job[j].cancelRequested
    BY <1>4, <2>1, <2>2 DEF JobRow, JobStatus
  <2>4. new \in AttemptRow /\ new.owner = NameOf[t]
    BY <2>2 DEF AttemptRow
  <2>5. /\ thread \in ThreadState /\ thread.pc = "execute"
        /\ thread.job = j /\ thread.n = n
    BY <2>1 DEF ThreadState, IdleThread, Working
  <2>6. /\ job' = [job EXCEPT ![j] = row]
        /\ attempt' = [attempt EXCEPT ![j] = Append(attempt[j], new)]
        /\ th' = [th EXCEPT ![t] = thread]
        /\ obs' = obs
    BY <1>6, <2>1
  <2> HIDE DEF row, new, thread
  <2>7. /\ job' \in [Job -> JobRow] /\ job'[j] = row
        /\ \A k \in Job \ {j} : job'[k] = job[k]
    BY <2>3, <2>6 DEF TypeOK
  <2>8. /\ attempt' \in [Job -> Seq(AttemptRow)]
        /\ Len(attempt'[j]) = Len(attempt[j]) + 1 /\ attempt'[j] # <<>>
        /\ attempt'[j][Len(attempt[j]) + 1] = new
        /\ \A m \in DOMAIN attempt[j] : attempt'[j][m] = attempt[j][m]
        /\ \A k \in Job \ {j} : attempt'[k] = attempt[k]
    BY <2>4, <2>6, AttemptAppend
  <2>9. /\ th' \in [Thread -> ThreadState] /\ th'[t] = thread
        /\ \A u \in Thread \ {t} : th'[u] = th[u]
    BY <2>5, <2>6, ThreadChange
  <2>10. Leases(t, j)
    BY <1>3, <2>1, <2>3, <2>4, <2>5, <2>6, <2>7, <2>8, <2>9 DEF Leases, Ended, TerminalStatus
  <2>11. RenewedByHolder(j)
    BY <2>8 DEF RenewedByHolder
  <2>12. \A k \in Job \ {j} : Rests(k)
    BY <2>6, <2>7, <2>8 DEF Rests
  <2>13. \A k \in Job : RowStep(k)
    BY <2>10, <2>11, <2>12 DEF RowStep, RenewedByHolder, Rests
  <2>14. Moves(t)
    BY <2>9, <2>10 DEF Moves, Takes
  <2>15. TypeOK'
    BY <1>2, <2>6, <2>7, <2>8, <2>9 DEF TypeOK, bounds
  <2> QED
    BY <2>13, <2>14, <2>15 DEF Effect, ThreadStep
<1> QED
  BY <1>1, <1>5, <1>6, Zenon

-----------------------------------------------------------------------------
(* SInv is inductive *)

LEMMA EffectOfStep ==
  ASSUME SInv, Next
  PROVE  Effect
<1>1. TypeOK /\ JobsAreSound /\ ThreadsAreSound
  BY DEF SInv
<1>2. CASE \E j \in Job : \/ Submit(j) \/ StopRead(j) \/ StopRun(j) \/ WaitTimeout(j)
                          \/ GiveUp(j) \/ Cancel(j) \/ Tell(j) \/ Told(j) \/ Passes(j)
  <2>1. PICK j \in Job : \/ Submit(j) \/ StopRead(j) \/ StopRun(j) \/ WaitTimeout(j)
                         \/ GiveUp(j) \/ Cancel(j) \/ Tell(j) \/ Told(j) \/ Passes(j)
    BY <1>2
  <2>2. CASE Submit(j)
    BY <1>1, <2>2, SubmitStep
  <2>3. CASE \/ StopRead(j) \/ StopRun(j) \/ WaitTimeout(j) \/ GiveUp(j)
             \/ Tell(j) \/ Told(j)
    BY <1>1, <2>3, QuietSteps
  <2>4. CASE Cancel(j)
    BY <1>1, <2>4, CancelStep
  <2>5. CASE Overdue(j)
    BY <1>1, <2>5, OverdueStep
  <2>6. CASE \E n \in DOMAIN attempt[j] : Lapse(j, n)
    BY <1>1, <2>6, LapseStep
  <2> QED
    BY <2>1, <2>2, <2>3, <2>4, <2>5, <2>6 DEF Passes
<1>3. CASE \E t \in Thread : Step(t) \/ Finish(t) \/ Beat(t) \/ Crash(t)
  <2>1. PICK t \in Thread : Step(t) \/ Finish(t) \/ Beat(t) \/ Crash(t)
    BY <1>3
  <2>2. CASE Claim(t)
    BY <1>1, <2>2, ClaimStep
  <2>3. CASE Stopped(t)
    BY <1>1, <2>3, StoppedStep
  <2>4. CASE Decide(t)
    BY <1>1, <2>4, DecideStep
  <2>5. CASE Retry(t)
    BY <1>1, <2>5, RetryStep
  <2>6. CASE Publish(t)
    BY <1>1, <2>6, PublishStep
  <2>7. CASE Notify(t)
    BY <1>1, <2>7, NotifyStep
  <2>8. CASE Project(t)
    BY <1>1, <2>8, ProjectStep
  <2>9. CASE Finish(t)
    BY <1>1, <2>9, FinishStep
  <2>10. CASE Beat(t)
    BY <1>1, <2>10, BeatStep
  <2>11. CASE Crash(t)
    BY <1>1, <2>11, CrashStep
  <2> QED
    BY <2>1, <2>2, <2>3, <2>4, <2>5, <2>6, <2>7, <2>8, <2>9, <2>10, <2>11 DEF Step
<1> QED
  BY <1>2, <1>3 DEF Next

(* attempt_count never falls. *)
LEMMA CountGrows ==
  ASSUME TypeOK, TypeOK', NEW j \in Job, RowStep(j)
  PROVE  job[j].attempts \in Nat /\ job'[j].attempts \in Nat
         /\ job[j].attempts <= job'[j].attempts
<1>1. job[j].attempts \in Nat /\ job'[j].attempts \in Nat
  BY DEF TypeOK, JobRow
<1>2. job'[j].attempts = job[j].attempts \/ job'[j].attempts = job[j].attempts + 1
  BY DEF RowStep, Rests, Renewed, Marked, Ends, Retries, Leases, SameCount
<1> QED
  BY <1>1, <1>2

LEMMA JobsStep ==
  ASSUME TypeOK, JobsAreSound, Effect
  PROVE  JobsAreSound'
<1> SUFFICES ASSUME NEW j \in Job
             PROVE  (Settled(j) /\ Counted(j) /\ Held(j) /\ CancelStops(j))'
  BY DEF JobsAreSound
<1>1. Settled(j) /\ Counted(j) /\ Held(j) /\ CancelStops(j) /\ RowStep(j)
  BY DEF JobsAreSound, Effect
<1>2. /\ Len(attempt[j]) \in Nat /\ DOMAIN attempt[j] = 1..Len(attempt[j])
      /\ job[j].attempts \in Nat /\ MaxAttempts \in Nat \ {0}
      /\ Len(attempt'[j]) \in Nat /\ DOMAIN attempt'[j] = 1..Len(attempt'[j])
      /\ attempt[j] # <<>> <=> Len(attempt[j]) > 0
      /\ attempt'[j] # <<>> <=> Len(attempt'[j]) > 0
      /\ NoObservation.status # "completed"
  <2>1. attempt[j] \in Seq(AttemptRow) /\ attempt'[j] \in Seq(AttemptRow)
    BY DEF TypeOK, Effect
  <2>2. \A s \in Seq(AttemptRow) : /\ Len(s) \in Nat /\ DOMAIN s = 1..Len(s)
                                   /\ s # <<>> <=> Len(s) > 0
    OBVIOUS
  <2>3. job[j].attempts \in Nat
    BY DEF TypeOK, JobRow
  <2> QED
    BY <2>1, <2>2, <2>3, BoundsAreNatural DEF NoObservation
<1>3. CASE Rests(j)
  BY <1>1, <1>3 DEF Rests, Settled, Counted, Held, CancelStops, Ended
<1>4. CASE Renewed(j)
  <2>1. Settled(j)' /\ CancelStops(j)'
    BY <1>1, <1>4 DEF Renewed, SameOwners, Settled, CancelStops, Ended
  <2>2. Counted(j)'
    BY <1>1, <1>4 DEF Renewed, SameOwners, Counted, Ended
  <2>3. Held(j)'
    BY <1>1, <1>2, <1>4 DEF Renewed, SameOwners, Held, Ended
  <2> QED
    BY <2>1, <2>2, <2>3
<1>5. CASE Marked(j)
  <2>1. Ended(j)' <=> Ended(j)
    BY <1>5 DEF Marked, Ended
  <2>2. Settled(j)'
    BY <1>1, <1>5, <2>1 DEF Marked, Settled, Ended
  <2>3. CancelStops(j)'
    BY <1>1, <1>2, <1>5 DEF Marked, CancelStops, Settled
  <2>4. Counted(j)'
    BY <1>1, <1>5, <2>1 DEF Marked, SameCount, Counted
  <2>5. Held(j)'
    BY <1>1, <1>5, <2>1 DEF Marked, Held
  <2> QED
    BY <2>2, <2>3, <2>4, <2>5
<1>6. CASE Ends(j)
  <2>1. Settled(j)' /\ CancelStops(j)' /\ Ended(j)' /\ SameCount(j)
    BY <1>6 DEF Ends
  <2>2. \/ Len(attempt'[j]) = Len(attempt[j])
        \/ (Len(attempt[j]) = 0 /\ Len(attempt'[j]) = 1)
    BY <1>2, <1>6 DEF Ends, SameOwners
  <2>3. Counted(j)'
    <3>1. job'[j].attempts <= Len(attempt'[j])
      BY <1>1, <1>2, <2>1, <2>2 DEF Counted, SameCount
    <3>2. Len(attempt'[j]) <= MaxAttempts
      <4>1. Len(attempt[j]) <= MaxAttempts
        BY <1>1 DEF Counted
      <4>2. 1 <= MaxAttempts
        BY BoundsAreNatural
      <4>3. CASE Len(attempt'[j]) = Len(attempt[j])
        BY <4>1, <4>3
      <4>4. CASE Len(attempt'[j]) = 1
        BY <4>2, <4>4
      <4> QED
        BY <2>2, <4>3, <4>4
    <3> QED
      BY <2>1, <3>1, <3>2 DEF Counted
  <2>4. Held(j)'
    BY <2>1 DEF Held, Settled
  <2> QED
    BY <2>1, <2>3, <2>4
<1>7. CASE Retries(j)
  <2>1. Settled(j)'
    BY <1>1, <1>7 DEF Retries, Settled
  <2>2. CancelStops(j)'
    BY <1>1, <1>2, <1>7 DEF Retries, Settled, CancelStops
  <2>3. Counted(j)'
    BY <1>1, <1>7 DEF Retries, SameCount, SameOwners, Counted
  <2>4. Held(j)'
    BY <1>7 DEF Retries, Held
  <2> QED
    BY <2>1, <2>2, <2>3, <2>4
<1>8. CASE \E t \in Thread : Leases(t, j)
  <2>1. PICK t \in Thread : Leases(t, j)
    BY <1>8
  <2>2. Settled(j)'
    BY <1>1, <2>1 DEF Leases, Settled
  <2>3. CancelStops(j)'
    BY <1>1, <1>2, <2>1 DEF Leases, Settled, CancelStops
  <2>4. Counted(j)'
    <3>1. /\ job'[j].attempts = Len(attempt'[j])
          /\ Len(attempt'[j]) <= MaxAttempts
      BY <1>1, <1>2, <2>1 DEF Leases, Counted
    <3> QED
      BY <1>2, <3>1 DEF Counted
  <2>5. Held(j)'
    BY <1>1, <1>2, <2>1 DEF Leases, Counted, Held
  <2> QED
    BY <2>2, <2>3, <2>4, <2>5
<1> QED
  BY <1>1, <1>3, <1>4, <1>5, <1>6, <1>7, <1>8 DEF RowStep

LEMMA ThreadsStep ==
  ASSUME TypeOK, ThreadsAreSound, Effect
  PROVE  ThreadsAreSound'
<1> DEFINE Good(t) == /\ th[t].job \in Job
                      /\ th[t].n \in 1..job[th[t].job].attempts
                      /\ \A u \in Thread \ {t} : ~Executing(u, th[t].job, th[t].n)
                      /\ th[t].pc \in {"decide", "retry", "publish"} =>
                           th[t].out \in TerminalStatus
<1>1. \A j \in Job : /\ job[j].attempts \in Nat /\ job'[j].attempts \in Nat
                     /\ job[j].attempts <= job'[j].attempts
  BY CountGrows DEF Effect
<1>2. CASE th' = th
  <2> SUFFICES ASSUME NEW t \in Thread, th[t].pc \in Working
               PROVE  /\ th[t].job \in Job
                      /\ th[t].n \in 1..job'[th[t].job].attempts
                      /\ \A u \in Thread \ {t} : ~Executing(u, th[t].job, th[t].n)
                      /\ th[t].pc \in {"decide", "retry", "publish"} =>
                           th[t].out \in TerminalStatus
    BY <1>2 DEF ThreadsAreSound, Executing
  <2>1. Good(t)
    BY DEF ThreadsAreSound
  <2> QED
    BY <1>1, <2>1
<1>3. CASE \E v \in Thread : Moves(v)
  <2>1. PICK v \in Thread : Moves(v)
    BY <1>3
  <2>2. \A u \in Thread \ {v} : th'[u] = th[u]
    BY <2>1 DEF Moves
  <2> SUFFICES ASSUME NEW t \in Thread, th'[t].pc \in Working
               PROVE  Good(t)'
    BY DEF ThreadsAreSound
  <2>3. CASE Leaves(v)
    <3>1. t # v
      BY <2>3 DEF Leaves
    <3>2. th'[t] = th[t] /\ Good(t)
      BY <2>2, <3>1 DEF ThreadsAreSound
    <3>3. \A u \in Thread \ {t} : ~Executing(u, th[t].job, th[t].n)'
      BY <2>2, <2>3, <3>2 DEF Leaves, Executing
    <3> QED
      BY <1>1, <3>2, <3>3
  <2>4. CASE Carries(v)
    <3>1. /\ th[t].pc \in Working /\ th'[t].job = th[t].job /\ th'[t].n = th[t].n
          /\ Good(t)
      BY <2>2, <2>4 DEF Carries, ThreadsAreSound
    <3>2. th'[t].pc \in {"decide", "retry", "publish"} => th'[t].out \in TerminalStatus
      BY <2>2, <2>4, <3>1 DEF Carries
    <3>3. \A u \in Thread \ {t} : ~Executing(u, th[t].job, th[t].n)'
      <4> SUFFICES ASSUME NEW u \in Thread \ {t}, Executing(u, th[t].job, th[t].n)'
                   PROVE  Executing(u, th[t].job, th[t].n)
        BY <3>1
      <4>1. th[u].pc \in Working /\ th'[u].job = th[u].job /\ th'[u].n = th[u].n
        BY <2>2, <2>4 DEF Carries, Executing
      <4> QED
        BY <3>1, <4>1 DEF Executing
    <3> QED
      BY <1>1, <3>1, <3>2, <3>3
  <2>5. CASE Takes(v)
    <3>1. PICK j \in Job :
            /\ job'[j].attempts = job[j].attempts + 1
            /\ th'[v].pc = "execute" /\ th'[v].job = j /\ th'[v].n = job'[j].attempts
      BY <2>5 DEF Takes, Leases
    <3>2. \A u \in Thread \ {v} : ~Executing(u, j, job'[j].attempts)
      <4> SUFFICES ASSUME NEW u \in Thread, Executing(u, j, job'[j].attempts)
                   PROVE  FALSE
        OBVIOUS
      <4>1. th[u].n \in 1..job[j].attempts /\ th[u].n = job[j].attempts + 1
        BY <3>1 DEF Executing, ThreadsAreSound
      <4> QED
        BY <1>1, <4>1
    <3>3. CASE t = v
      <4>1. \A u \in Thread \ {t} :
              ~(th'[u].pc \in Working /\ th'[u].job = th'[t].job /\ th'[u].n = th'[t].n)
        BY <2>2, <3>1, <3>2, <3>3 DEF Executing
      <4>2. th'[t].n \in 1..job'[th'[t].job].attempts /\ th'[t].job \in Job
        BY <1>1, <3>1, <3>3
      <4>3. th'[t].pc \notin {"decide", "retry", "publish"}
        BY <3>1, <3>3
      <4> QED
        BY <4>1, <4>2, <4>3 DEF Executing
    <3>4. CASE t # v
      <4>1. th'[t] = th[t] /\ Good(t)
        BY <2>2, <3>4 DEF ThreadsAreSound
      <4>2. ~(th'[v].job = th[t].job /\ th'[v].n = th[t].n)
        <5>1. th[t].job = j => th[t].n <= job[j].attempts
          BY <1>1, <4>1
        <5> QED
          BY <1>1, <3>1, <4>1, <5>1
      <4>3. \A u \in Thread \ {t} :
              ~(th'[u].pc \in Working /\ th'[u].job = th[t].job /\ th'[u].n = th[t].n)
        BY <2>2, <4>1, <4>2 DEF Executing
      <4>4. th[t].n \in 1..job'[th[t].job].attempts
        BY <1>1, <4>1
      <4> QED
        BY <4>1, <4>3, <4>4 DEF Executing
    <3> QED
      BY <3>3, <3>4
  <2> QED
    BY <2>1, <2>3, <2>4, <2>5 DEF Moves
<1> QED
  BY <1>2, <1>3 DEF Effect, ThreadStep

(* An ended job and its observation stand. *)
LEMMA EndedStands ==
  ASSUME JobsAreSound, NEW j \in Job, RowStep(j)
  PROVE  /\ Ended(j) => job'[j].status = job[j].status /\ obs'[j] = obs[j]
         /\ obs[j].status = "completed" => obs'[j] = obs[j]
<1>1. Ended(j) => job'[j].status = job[j].status /\ obs'[j] = obs[j]
  BY DEF RowStep, Rests, Renewed, Marked, Ends, Retries, Leases
<1>2. obs[j].status = "completed" => Ended(j)
  BY DEF JobsAreSound, Settled, NoObservation
<1> QED
  BY <1>1, <1>2

(* Evidence is derived and a todo completed only from a completed          *)
(* observation.                                                            *)
LEMMA ResultOfStep ==
  ASSUME TypeOK, Next, NEW j \in Job, j \in evidence' \/ todo'[j] = "completed"
  PROVE  j \in evidence \/ todo[j] = "completed" \/ obs[j].status = "completed"
<1>1. CASE \E k \in Job : \/ Submit(k) \/ StopRead(k) \/ WaitTimeout(k)
                          \/ Cancel(k) \/ Tell(k) \/ Passes(k)
  BY <1>1 DEF Submit, StopRead, WaitTimeout, Cancel, Tell, Passes, Overdue, Lapse
<1>2. CASE \E k \in Job : StopRun(k) \/ GiveUp(k) \/ Told(k)
  <2>1. PICK k \in Job : StopRun(k) \/ GiveUp(k) \/ Told(k)
    BY <1>2
  <2>2. UNCHANGED evidence
    BY <2>1 DEF StopRun, GiveUp, Told
  <2>3. \/ UNCHANGED todo
        \/ \E s \in {"cancelled", "failed", Projected(k)} : todo' = [todo EXCEPT ![k] = s]
    BY <2>1 DEF StopRun, GiveUp, Told, Settle
  <2> QED
    BY <2>2, <2>3 DEF Projected, TypeOK
<1>3. CASE \E t \in Thread :
             \/ Claim(t) \/ Stopped(t) \/ Decide(t) \/ Retry(t) \/ Publish(t)
             \/ Finish(t) \/ Beat(t) \/ Crash(t)
  BY <1>3 DEF Claim, Stopped, Decide, Retry, Publish, Finish, Beat, Crash
<1>4. CASE \E t \in Thread : Notify(t)
  BY <1>4 DEF Notify, Derive
<1>5. CASE \E t \in Thread : Project(t)
  BY <1>5 DEF Project, Derive, Projected, TypeOK
<1> QED
  BY <1>1, <1>2, <1>3, <1>4, <1>5 DEF Next, Step

LEMMA SoundInit == Init => SInv
<1> SUFFICES ASSUME Init PROVE SInv
  OBVIOUS
<1>1. job \in [Job -> JobRow]
  BY DEF Init, JobRow, JobStatus
<1>2. attempt \in [Job -> Seq(AttemptRow)] /\ \A j \in Job : attempt[j] = <<>>
  BY DEF Init
<1>3. obs \in [Job -> [status: TerminalStatus \union {"none"}, n: Nat]]
  BY DEF Init, NoObservation
<1>4. th \in [Thread -> ThreadState]
  BY FreshThreads DEF Init
<1>5. TypeOK
  BY <1>1, <1>2, <1>3, <1>4 DEF Init, TypeOK
<1>6. JobsAreSound
  <2> SUFFICES ASSUME NEW j \in Job
               PROVE  Settled(j) /\ Counted(j) /\ Held(j) /\ CancelStops(j)
    BY DEF JobsAreSound
  <2>1. /\ job[j].status = "absent" /\ job[j].attempts = 0 /\ job[j].owner = Nobody
        /\ job[j].cancelRequested = FALSE /\ obs[j] = NoObservation
        /\ Len(attempt[j]) = 0
    BY <1>2 DEF Init
  <2> QED
    BY <2>1, BoundsAreNatural
       DEF Settled, Counted, Held, CancelStops, Ended, TerminalStatus
<1>7. ThreadsAreSound
  BY FreshThreads DEF Init, ThreadsAreSound, Working
<1>8. ResultsRestOnObservation
  BY DEF Init, ResultsRestOnObservation
<1> QED
  BY <1>5, <1>6, <1>7, <1>8 DEF SInv

LEMMA SoundStep == SInv /\ [Next]_vars => SInv'
<1> SUFFICES ASSUME SInv, [Next]_vars PROVE SInv'
  OBVIOUS
<1>1. CASE UNCHANGED vars
  BY <1>1 DEF SInv, vars, rows, bounds, TypeOK, JobsAreSound, Settled, Counted, Held,
              CancelStops, ThreadsAreSound, ResultsRestOnObservation, Ended, Executing
<1>2. CASE Next
  <2>1. Effect /\ TypeOK /\ JobsAreSound /\ ThreadsAreSound
    BY <1>2, EffectOfStep DEF SInv
  <2>2. TypeOK' /\ \A j \in Job : RowStep(j)
    BY <2>1 DEF Effect
  <2>3. JobsAreSound'
    BY <2>1, JobsStep
  <2>4. ThreadsAreSound'
    BY <2>1, ThreadsStep
  <2>5. ResultsRestOnObservation'
    <3> SUFFICES ASSUME NEW j \in Job, j \in evidence' \/ todo'[j] = "completed"
                 PROVE  obs'[j].status = "completed"
      BY DEF ResultsRestOnObservation
    <3>1. obs[j].status = "completed"
      BY <1>2, <2>1, ResultOfStep DEF SInv, ResultsRestOnObservation
    <3> QED
      BY <2>1, <2>2, <3>1, EndedStands
  <2> QED
    BY <2>2, <2>3, <2>4, <2>5 DEF SInv
<1> QED
  BY <1>1, <1>2

-----------------------------------------------------------------------------
(* What holds whoever shares a worker_id *)

(* The rows, the threads and their attempts are sound in every reachable   *)
(* state: SInv is the inductive invariant.                                 *)
THEOREM JobsStaySound == Spec => []SInv
<1>1. Init => SInv
  BY SoundInit
<1>2. SInv /\ [Next]_vars => SInv'
  BY SoundStep
<1> QED
  BY <1>1, <1>2, PTL DEF Spec

(* Rows and threads keep their shape (_job_from_row and the tables of      *)
(* sandbox_jobs.py).                                                       *)
THEOREM RowsKeepShape == Spec => []TypeOK
<1>1. SInv => TypeOK
  BY DEF SInv
<1> QED
  BY <1>1, JobsStaySound, PTL

(* A cancelled job has no result, in its observation, its todo or its      *)
(* evidence, however late its threads are (publish of sandbox_jobs.py).    *)
THEOREM CancellationWins == Spec => []CancelWins
<1>1. SInv => CancelWins
  BY DEF SInv, JobsAreSound, CancelStops, ResultsRestOnObservation, CancelWins
<1> QED
  BY <1>1, JobsStaySound, PTL

(* Evidence and a completed todo rest on a completed observation           *)
(* (notify_sandbox_observation).                                           *)
THEOREM ResultsAreObserved == Spec => []ResultsRestOnObservation
<1>1. SInv => ResultsRestOnObservation
  BY DEF SInv
<1> QED
  BY <1>1, JobsStaySound, PTL

LEMMA SoleExecutor ==
  ASSUME SInv, NEW j \in Job, NEW n
  PROVE  Cardinality({t \in Thread : Executing(t, j, n)}) <= 1
<1> DEFINE S == {t \in Thread : Executing(t, j, n)}
<1>1. CASE S = {}
  BY <1>1, FS_EmptySet
<1>2. CASE S # {}
  <2>1. PICK t \in Thread : Executing(t, j, n)
    BY <1>2
  <2>2. \A u \in Thread \ {t} : ~Executing(u, j, n)
    BY <2>1 DEF Executing, SInv, ThreadsAreSound
  <2>3. S = {t}
    BY <2>1, <2>2
  <2> QED
    BY <2>3, FS_Singleton
<1> QED
  BY <1>1, <1>2

(* max_attempts bounds the attempts of a job, and no attempt has two       *)
(* executors, however leases run out (run_once, _claim).                   *)
THEOREM AttemptsAreBounded == Spec => []AttemptsBounded
<1>1. SInv => AttemptsBounded
  BY SoleExecutor DEF SInv, JobsAreSound, Counted, AttemptsBounded
<1> QED
  BY <1>1, JobsStaySound, PTL

(* An ended job never comes back, and its observation is never rewritten,  *)
(* by a late publication, a late retry or a second cancellation.           *)
THEOREM JobsEndOnce == Spec => EndsOnce
<1> DEFINE Stands == \A j \in Job : Ended(j) =>
             job'[j].status = job[j].status /\ obs'[j] = obs[j]
<1>1. SInv /\ [Next]_vars => [Stands]_vars
  <2> SUFFICES ASSUME SInv, Next PROVE Stands
    OBVIOUS
  <2>1. JobsAreSound /\ \A j \in Job : RowStep(j)
    BY EffectOfStep DEF Effect, SInv
  <2> QED
    BY <2>1, EndedStands
<1> QED
  BY <1>1, JobsStaySound, PTL DEF Spec, EndsOnce

-----------------------------------------------------------------------------
(* What was concluded of a todo stands *)

(* A thread comes to project only what it found pending. *)
LEMMA ComesToProject ==
  ASSUME TypeOK, Next, NEW u \in Thread, th'[u].pc = "project"
  PROVE  \/ th'[u] = th[u]
         \/ /\ th[u].pc = "notify" /\ Pending(th[u].job)
            /\ th'[u].job = th[u].job
<1>1. CASE th' = th
  BY <1>1
<1>2. CASE \E t \in Thread : \E row \in ThreadState :
             row.pc # "project" /\ th' = [th EXCEPT ![t] = row]
  <2>1. PICK t \in Thread, row \in ThreadState :
          row.pc # "project" /\ th' = [th EXCEPT ![t] = row]
    BY <1>2
  <2>2. u # t
    BY <2>1 DEF TypeOK
  <2> QED
    BY <2>1, <2>2 DEF TypeOK
<1>3. CASE \E t \in Thread : Notify(t)
  <2>1. PICK t \in Thread : Notify(t)
    BY <1>3
  <2>2. CASE Goto(t, "project") /\ Pending(th[t].job) /\ th[t].pc = "notify"
    <3>1. PICK old \in ThreadState : old = th[t]
      BY DEF TypeOK
    <3> DEFINE row == [th[t] EXCEPT !.pc = "project"]
    <3>2. row.job = th[t].job
      BY <3>1 DEF ThreadState
    <3>3. th' = [th EXCEPT ![t] = row]
      BY <2>2 DEF Goto
    <3> HIDE DEF row
    <3>4. CASE u = t
      BY <2>2, <3>2, <3>3, <3>4 DEF TypeOK
    <3>5. CASE u # t
      BY <3>3, <3>5 DEF TypeOK
    <3> QED
      BY <3>4, <3>5
  <2>3. CASE th' = [th EXCEPT ![t] = IdleThread]
    BY <1>2, <2>3, FreshThreads
  <2> QED
    BY <2>1, <2>2, <2>3 DEF Notify
<1>4. CASE \E t \in Thread : Stopped(t) \/ Finish(t) \/ Decide(t)
  <2>1. PICK t \in Thread : Stopped(t) \/ Finish(t) \/ Decide(t)
    BY <1>4
  <2>2. CASE th' = [th EXCEPT ![t] = IdleThread]
    BY <1>2, <2>2, FreshThreads
  <2>3. CASE \E pc \in {"decide", "publish"}, out \in TerminalStatus, r \in BOOLEAN :
               Outcome(t, pc, out, r)
    <3>1. PICK pc \in {"decide", "publish"}, out \in TerminalStatus, r \in BOOLEAN :
            Outcome(t, pc, out, r)
      BY <2>3
    <3>2. PICK old \in ThreadState : old = th[t]
      BY DEF TypeOK
    <3> DEFINE row == [th[t] EXCEPT !.pc = pc, !.out = out, !.retryable = r]
    <3>3. row \in ThreadState /\ row.pc # "project"
      BY <3>1, <3>2 DEF ThreadState, Working
    <3>4. th' = [th EXCEPT ![t] = row]
      BY <3>1 DEF Outcome
    <3> HIDE DEF row
    <3> QED
      BY <1>2, <3>3, <3>4
  <2>4. CASE \E pc \in {"retry", "publish"} : Goto(t, pc)
    <3>1. PICK pc \in {"retry", "publish"} : Goto(t, pc)
      BY <2>4
    <3>2. PICK old \in ThreadState : old = th[t]
      BY DEF TypeOK
    <3> DEFINE row == [th[t] EXCEPT !.pc = pc]
    <3>3. row \in ThreadState /\ row.pc # "project"
      BY <3>1, <3>2 DEF ThreadState, Working
    <3>4. th' = [th EXCEPT ![t] = row]
      BY <3>1 DEF Goto
    <3> HIDE DEF row
    <3> QED
      BY <1>2, <3>3, <3>4
  <2> QED
    BY <2>1, <2>2, <2>3, <2>4 DEF Stopped, Finish, Decide, TerminalStatus
<1>5. CASE \E t \in Thread : Retry(t) \/ Project(t) \/ Crash(t)
  BY <1>1, <1>2, <1>5, FreshThreads DEF Retry, Project, Crash
<1>6. CASE \E t \in Thread : Beat(t)
  <2>1. PICK t \in Thread : Beat(t)
    BY <1>6
  <2>2. CASE \E c \in {"deadline", "heartbeat"} :
               th' = [th EXCEPT ![t] = [th[t] EXCEPT !.pc = "stop", !.cause = c]]
    <3>1. PICK c \in {"deadline", "heartbeat"} :
            th' = [th EXCEPT ![t] = [th[t] EXCEPT !.pc = "stop", !.cause = c]]
      BY <2>2
    <3>2. PICK old \in ThreadState : old = th[t]
      BY DEF TypeOK
    <3> DEFINE row == [th[t] EXCEPT !.pc = "stop", !.cause = c]
    <3>3. row \in ThreadState /\ row.pc # "project"
      BY <3>2 DEF ThreadState, Working
    <3>4. th' = [th EXCEPT ![t] = row]
      BY <3>1
    <3> HIDE DEF row
    <3> QED
      BY <1>2, <3>3, <3>4
  <2> QED
    BY <1>1, <2>1, <2>2 DEF Beat
<1>7. CASE \E t \in Thread : Publish(t)
  <2>1. PICK t \in Thread : Publish(t)
    BY <1>7
  <2>2. CASE Goto(t, "notify")
    <3>2. PICK old \in ThreadState : old = th[t]
      BY DEF TypeOK
    <3> DEFINE row == [th[t] EXCEPT !.pc = "notify"]
    <3>3. row \in ThreadState /\ row.pc # "project"
      BY <3>2 DEF ThreadState, Working
    <3>4. th' = [th EXCEPT ![t] = row]
      BY <2>2 DEF Goto
    <3> HIDE DEF row
    <3> QED
      BY <1>2, <3>3, <3>4
  <2> QED
    BY <1>2, <2>1, <2>2, FreshThreads DEF Publish
<1>8. CASE \E t \in Thread : Claim(t)
  <2>1. PICK t \in Thread : Claim(t)
    BY <1>8
  <2>2. \/ UNCHANGED th
        \/ \E j \in Job : th' = [th EXCEPT ![t] = [IdleThread EXCEPT
              !.pc = "execute", !.job = j, !.n = job[j].attempts + 1]]
    BY <2>1 DEF Claim
  <2>3. ASSUME NEW j \in Job, th' = [th EXCEPT ![t] = [IdleThread EXCEPT
              !.pc = "execute", !.job = j, !.n = job[j].attempts + 1]]
        PROVE  \E row \in ThreadState :
                 row.pc # "project" /\ th' = [th EXCEPT ![t] = row]
    <3>1. PICK n \in Nat : n = job[j].attempts + 1
      <4>1. job[j].attempts \in Nat
        BY DEF TypeOK, JobRow
      <4> QED
        BY <4>1
    <3> DEFINE row == [IdleThread EXCEPT !.pc = "execute", !.job = j, !.n = n]
    <3>2. row \in ThreadState /\ row.pc # "project"
      BY <3>1 DEF ThreadState, Working, IdleThread
    <3>3. th' = [th EXCEPT ![t] = row]
      BY <2>3, <3>1
    <3> HIDE DEF row
    <3> QED
      BY <3>2, <3>3
  <2> QED
    BY <1>1, <1>2, <2>2, <2>3
<1>9. CASE \E k \in Job : \/ Submit(k) \/ StopRead(k) \/ StopRun(k) \/ WaitTimeout(k)
                          \/ GiveUp(k) \/ Cancel(k) \/ Tell(k) \/ Told(k) \/ Passes(k)
  BY <1>1, <1>9 DEF Submit, StopRead, StopRun, WaitTimeout, GiveUp, Cancel, Tell, Told,
                    Passes, Overdue, Lapse
<1> QED
  BY <1>3, <1>4, <1>5, <1>6, <1>7, <1>8, <1>9 DEF Next, Step

(* A transaction sees only a pending todo, and writes only one it saw.     *)
LEMMA TodoOfStep ==
  ASSUME SInv, Next, NEW j \in Job, todo[j] # "pending", ~Settling(j)
  PROVE  todo'[j] = todo[j] /\ ~Settling(j)'
<1>1. TypeOK /\ ThreadsAreSound
  BY DEF SInv
<1>2. /\ \A w \in {"stop", "wait", "tell"} : <<j, w>> \notin saw
      /\ \A t \in Thread : ~(th[t].pc = "project" /\ th[t].job = j)
  BY DEF Settling
<1>3. todo'[j] = todo[j]
  <2>1. \/ UNCHANGED todo
        \/ \E k \in Job, s \in {"cancelled", "failed", "completed"} :
             k # j /\ todo' = [todo EXCEPT ![k] = s]
    <3>1. CASE \E k \in Job : StopRun(k) \/ GiveUp(k) \/ Told(k)
      <4>1. PICK k \in Job : StopRun(k) \/ GiveUp(k) \/ Told(k)
        BY <3>1
      <4>2. \/ UNCHANGED todo
            \/ \E w \in {"stop", "wait", "tell"},
                  s \in {"cancelled", "failed", Projected(k)} :
                 <<k, w>> \in saw /\ todo' = [todo EXCEPT ![k] = s]
        BY <4>1 DEF StopRun, GiveUp, Told, Settle
      <4>3. Projected(k) \in {"completed", "failed"}
        BY DEF Projected
      <4> QED
        BY <1>2, <4>2, <4>3
    <3>2. CASE \E t \in Thread : Project(t)
      <4>1. PICK t \in Thread : Project(t)
        BY <3>2
      <4>2. th[t].job \in Job /\ th[t].job # j
        BY <1>1, <1>2, <4>1 DEF Project, ThreadsAreSound, Working
      <4>3. Projected(th[t].job) \in {"completed", "failed"}
        BY DEF Projected
      <4> QED
        BY <4>1, <4>2, <4>3 DEF Project
    <3>3. CASE \E k \in Job : \/ Submit(k) \/ StopRead(k) \/ WaitTimeout(k)
                              \/ Cancel(k) \/ Tell(k) \/ Passes(k)
      BY <3>3 DEF Submit, StopRead, WaitTimeout, Cancel, Tell, Passes, Overdue, Lapse
    <3>4. CASE \E t \in Thread :
                 \/ Claim(t) \/ Stopped(t) \/ Decide(t) \/ Retry(t) \/ Publish(t)
                 \/ Finish(t) \/ Beat(t) \/ Crash(t) \/ Notify(t)
      BY <3>4 DEF Claim, Stopped, Decide, Retry, Publish, Finish, Beat, Crash, Notify
    <3> QED
      BY <3>1, <3>2, <3>3, <3>4 DEF Next, Step
  <2> QED
    BY <1>1, <2>1 DEF TypeOK
<1>4. ASSUME NEW w \in {"stop", "wait", "tell"}
      PROVE  <<j, w>> \notin saw'
  <2>1. \/ saw' \subseteq saw
        \/ \E k \in Job : \E v \in {"stop", "wait", "tell"} :
             todo[k] = "pending" /\ saw' = saw \union {<<k, v>>}
    <3>1. CASE \E k \in Job : StopRun(k) \/ GiveUp(k) \/ Told(k)
      BY <3>1 DEF StopRun, GiveUp, Told, Settle
    <3>2. CASE \E k \in Job : StopRead(k) \/ WaitTimeout(k) \/ Tell(k)
      BY <3>2 DEF StopRead, WaitTimeout, Tell, See, Pending
    <3>3. CASE \E k \in Job : Submit(k) \/ Cancel(k) \/ Passes(k)
      BY <3>3 DEF Submit, Cancel, Passes, Overdue, Lapse
    <3>4. CASE \E t \in Thread :
                 \/ Claim(t) \/ Stopped(t) \/ Decide(t) \/ Retry(t) \/ Publish(t)
                 \/ Finish(t) \/ Beat(t) \/ Crash(t) \/ Notify(t) \/ Project(t)
      BY <3>4 DEF Claim, Stopped, Decide, Retry, Publish, Finish, Beat, Crash, Notify,
                  Project
    <3> QED
      BY <3>1, <3>2, <3>3, <3>4 DEF Next, Step
  <2> QED
    BY <1>2, <2>1
<1>5. ASSUME NEW t \in Thread, th'[t].pc = "project"
      PROVE  th'[t].job # j
  BY <1>1, <1>2, <1>5, ComesToProject DEF Pending
<1> QED
  BY <1>3, <1>4, <1>5 DEF Settling

(* What was concluded of a todo stands against every transaction that      *)
(* begins after it (finish_todo, notify_sandbox_observation).              *)
THEOREM TodosSettle == Spec => TodoSettles
<1> DEFINE Stands == \A j \in Job :
             todo[j] # "pending" /\ ~Settling(j) =>
               todo'[j] = todo[j] /\ (~Settling(j))'
<1>1. SInv /\ [Next]_vars => [Stands]_vars
  BY TodoOfStep
<1> QED
  BY <1>1, JobsStaySound, PTL DEF Spec, TodoSettles

-----------------------------------------------------------------------------
(* What the fence is worth *)

(* A thread that holds the lease executes the last attempt, or one that    *)
(* passes for it.                                                          *)
LEMMA HolderPasses ==
  ASSUME SInv, Overtaken, NEW t \in Thread, th[t].pc \in Working, Leaseholder(t)
  PROVE  ~Ended(th[t].job) /\ PassesForLast(th[t].job, th[t].n)
<1>1. PICK j \in Job : j = th[t].job
  BY DEF SInv, ThreadsAreSound
<1>2. PICK s \in Seq(AttemptRow) : s = attempt[j]
  BY DEF SInv, TypeOK
<1>3. Counted(j) /\ Held(j) /\ th[t].n \in 1..job[j].attempts
  BY <1>1 DEF SInv, JobsAreSound, ThreadsAreSound
<1>4. /\ job[j].owner = NameOf[t] /\ NameOf[t] # Nobody
      /\ s[th[t].n].owner = NameOf[t]
  BY <1>1, <1>2, NobodyIsNoName DEF Leaseholder, Name
<1>5. ~Ended(j) /\ s # <<>> /\ s[Len(s)].owner = NameOf[t]
  BY <1>2, <1>3, <1>4 DEF Held
<1>6. Len(s) \in DOMAIN s /\ Len(s) \in Nat
  BY <1>5
<1>7. Len(s) = job[j].attempts
  BY <1>2, <1>3, <1>5 DEF Counted
<1>8. th[t].n \in 1..Len(s)
  BY <1>3, <1>7
<1>9. CASE th[t].n = Len(s)
  BY <1>1, <1>2, <1>5, <1>9 DEF PassesForLast
<1>10. CASE th[t].n # Len(s)
  <2>1. Len(s) > th[t].n
    BY <1>6, <1>8, <1>10
  <2>2. PICK u \in Thread \ {t} : s[Len(s)].owner = NameOf[u]
    BY <1>1, <1>2, <1>6, <2>1 DEF Overtaken
  <2>3. Shared(NameOf[t])
    BY <1>5, <2>2 DEF Shared
  <2> QED
    BY <1>1, <1>2, <1>4, <1>5, <1>8, <2>3 DEF PassesForLast
<1> QED
  BY <1>9, <1>10

(* Lengths of the attempts of a job, before and after. *)
LEMMA AttemptCounts ==
  ASSUME TypeOK, Effect, NEW j \in Job
  PROVE  /\ Len(attempt[j]) \in Nat /\ DOMAIN attempt[j] = 1..Len(attempt[j])
         /\ Len(attempt'[j]) \in Nat /\ DOMAIN attempt'[j] = 1..Len(attempt'[j])
         /\ attempt[j] = <<>> <=> Len(attempt[j]) = 0
<1>1. attempt[j] \in Seq(AttemptRow) /\ attempt'[j] \in Seq(AttemptRow)
  BY DEF TypeOK, Effect
<1>2. \A s \in Seq(AttemptRow) : /\ Len(s) \in Nat /\ DOMAIN s = 1..Len(s)
                                 /\ s = <<>> <=> Len(s) = 0
  OBVIOUS
<1> QED
  BY <1>1, <1>2

(* What passes for the last attempt does so while no owner changes.        *)
LEMMA PassesStays ==
  ASSUME TypeOK, Effect, NEW j \in Job, NEW n, SameOwners(j), PassesForLast(j, n)
  PROVE  PassesForLast(j, n)'
<1>1. /\ Len(attempt[j]) \in Nat /\ DOMAIN attempt[j] = 1..Len(attempt[j])
      /\ Len(attempt'[j]) = Len(attempt[j])
  BY AttemptCounts DEF SameOwners
<1>2. CASE n = Len(attempt[j])
  BY <1>1, <1>2 DEF PassesForLast
<1>3. CASE n \in 1..Len(attempt[j]) /\ n # Len(attempt[j])
  <2>1. n \in DOMAIN attempt[j] /\ Len(attempt[j]) \in DOMAIN attempt[j]
    BY <1>1, <1>3
  <2>2. /\ attempt'[j][n].owner = attempt[j][n].owner
        /\ attempt'[j][Len(attempt[j])].owner = attempt[j][Len(attempt[j])].owner
    BY <2>1 DEF SameOwners
  <2> QED
    BY <1>1, <1>3, <2>2 DEF PassesForLast
<1> QED
  BY <1>2, <1>3 DEF PassesForLast

LEMMA OvertakenStep ==
  ASSUME SInv, Overtaken, Effect
  PROVE  Overtaken'
<1>1. TypeOK /\ TypeOK' /\ JobsAreSound /\ JobsAreSound'
  BY JobsStep DEF SInv, Effect
<1> SUFFICES ASSUME NEW t \in Thread, th'[t].pc \in Working,
                    NEW m \in DOMAIN attempt'[th'[t].job], m > th'[t].n
             PROVE  \E u \in Thread \ {t} : attempt'[th'[t].job][m].owner = NameOf[u]
  BY DEF Overtaken
<1>2. \/ \E j \in Job : Leases(t, j)
      \/ /\ th[t].pc \in Working
         /\ th'[t].job = th[t].job /\ th'[t].n = th[t].n
         /\ ~\E j \in Job : Leases(t, j)
  BY DEF Effect, ThreadStep, Moves, Leaves, Carries, Takes
<1>3. CASE \E j \in Job : Leases(t, j)
  <2>1. PICK j \in Job : Leases(t, j)
    BY <1>3
  <2>2. th'[t].job = j /\ th'[t].n = job'[j].attempts
    BY <2>1 DEF Leases
  <2>3. job'[j].attempts = Len(attempt'[j])
    BY <1>1, <2>1 DEF Leases, JobsAreSound, Counted
  <2>4. m \in 1..Len(attempt'[j])
    BY <1>1, <2>2, AttemptCounts
  <2> QED
    BY <1>1, <2>2, <2>3, <2>4, AttemptCounts
<1>4. CASE /\ th[t].pc \in Working
           /\ th'[t].job = th[t].job /\ th'[t].n = th[t].n
           /\ ~\E j \in Job : Leases(t, j)
  <2>1. PICK j \in Job : j = th[t].job
    BY <1>4 DEF SInv, ThreadsAreSound
  <2>2. RowStep(j) /\ Counted(j) /\ th[t].n \in 1..job[j].attempts
    BY <1>1, <1>4, <2>1 DEF Effect, JobsAreSound, SInv, ThreadsAreSound
  <2>3. /\ Len(attempt[j]) \in Nat /\ DOMAIN attempt[j] = 1..Len(attempt[j])
        /\ Len(attempt'[j]) \in Nat /\ DOMAIN attempt'[j] = 1..Len(attempt'[j])
        /\ attempt[j] # <<>>
    <3>1. Len(attempt[j]) \in Nat /\ job[j].attempts \in Nat
      BY <1>1, AttemptCounts DEF TypeOK, JobRow
    <3>2. Len(attempt[j]) # 0
      BY <2>2, <3>1 DEF Counted
    <3> QED
      BY <1>1, <3>2, AttemptCounts
  <2>4. CASE m \in DOMAIN attempt[j]
    <3>1. attempt'[j][m].owner = attempt[j][m].owner
      BY <2>2, <2>3, <2>4
         DEF RowStep, Rests, Renewed, Marked, Ends, Retries, Leases, SameOwners
    <3> QED
      BY <1>4, <2>1, <2>4, <3>1 DEF Overtaken
  <2>5. CASE m \notin DOMAIN attempt[j]
    <3>1. \E v \in Thread : Leases(v, j)
      BY <1>4, <2>1, <2>2, <2>3, <2>5
         DEF RowStep, Rests, Renewed, Marked, Ends, Retries, SameOwners
    <3>2. PICK v \in Thread : Leases(v, j)
      BY <3>1
    <3>3. m = Len(attempt[j]) + 1
      <4>1. m \in DOMAIN attempt'[j]
        BY <1>4, <2>1
      <4>2. Len(attempt'[j]) = Len(attempt[j]) + 1
        BY <3>2 DEF Leases
      <4>3. m \in 1..(Len(attempt[j]) + 1) /\ m \notin 1..Len(attempt[j])
        BY <2>3, <2>5, <4>1, <4>2
      <4> QED
        BY <2>3, <4>3
    <3>4. attempt'[j][m].owner = NameOf[v]
      BY <3>2, <3>3 DEF Leases
    <3>5. v # t
      BY <1>4, <3>2
    <3> QED
      BY <1>4, <2>1, <3>4, <3>5
  <2> QED
    BY <2>4, <2>5
<1> QED
  BY <1>2, <1>3, <1>4

LEMMA LastObservedStep ==
  ASSUME SInv, Overtaken, LastObserved, Effect
  PROVE  LastObserved'
<1> SUFFICES ASSUME NEW j \in Job, Ended(j)'
             PROVE  PassesForLast(j, obs[j].n)'
  BY DEF LastObserved
<1>1. RowStep(j) /\ TypeOK
  BY DEF Effect, SInv
<1>2. CASE Ends(j)
  <2>1. CASE \E t \in Thread : Publishes(t, j)
    <3>1. PICK t \in Thread : Publishes(t, j)
      BY <2>1
    <3>2. th[t].pc \in Working /\ th[t].job = j /\ Leaseholder(t) /\ obs'[j].n = th[t].n
      BY <3>1 DEF Publishes, Working
    <3>3. PassesForLast(j, th[t].n)
      BY <3>2, HolderPasses
    <3>4. attempt[j] # <<>>
      <4>1. th[t].n \in 1..job[j].attempts /\ job[j].attempts \in Nat /\ Counted(j)
        BY <3>2 DEF SInv, ThreadsAreSound, TypeOK, JobRow, JobsAreSound
      <4> QED
        BY <1>1, <4>1, AttemptCounts DEF Counted
    <3>5. SameOwners(j)
      BY <1>2, <3>4 DEF Ends
    <3>6. PICK n : n = th[t].n
      OBVIOUS
    <3>7. PassesForLast(j, n)'
      BY <1>1, <3>3, <3>5, <3>6, PassesStays
    <3>8. n = obs'[j].n
      BY <3>2, <3>6
    <3> QED
      BY <3>7, <3>8
  <2> QED
    BY <1>2, <2>1 DEF Ends, PassesForLast
<1>3. CASE Rests(j) \/ Renewed(j) \/ Marked(j)
  <2>1. SameOwners(j) /\ obs'[j] = obs[j] /\ Ended(j)
    BY <1>3 DEF Rests, Renewed, Marked, SameOwners, Ended
  <2>2. PICK n : n = obs[j].n
    OBVIOUS
  <2>3. PassesForLast(j, n)'
    BY <1>1, <2>1, <2>2, PassesStays DEF LastObserved
  <2>4. n = obs'[j].n
    BY <2>1, <2>2
  <2> QED
    BY <2>3, <2>4
<1>4. CASE Retries(j) \/ \E t \in Thread : Leases(t, j)
  BY <1>4 DEF Retries, Leases
<1> QED
  BY <1>1, <1>2, <1>3, <1>4 DEF RowStep

LEMMA FencedInit == Init => NInv
<1> SUFFICES ASSUME Init PROVE NInv
  OBVIOUS
<1>1. Overtaken
  BY FreshThreads DEF Init, Overtaken, Working
<1>2. LastObserved
  BY DEF Init, LastObserved, Ended, TerminalStatus
<1> QED
  BY <1>1, <1>2, SoundInit DEF NInv

LEMMA FencedStep == NInv /\ [Next]_vars => NInv'
<1> SUFFICES ASSUME NInv, [Next]_vars PROVE NInv'
  OBVIOUS
<1>1. SInv'
  BY SoundStep DEF NInv
<1>2. CASE UNCHANGED vars
  BY <1>1, <1>2 DEF NInv, Overtaken, LastObserved, PassesForLast, vars, rows, Ended
<1>3. CASE Next
  <2>1. Effect
    BY <1>3, EffectOfStep DEF NInv
  <2> QED
    BY <1>1, <2>1, OvertakenStep, LastObservedStep DEF NInv
<1> QED
  BY <1>2, <1>3

(* The tables of a job tell one story in every reachable state, whatever   *)
(* names its threads lease under: row, attempts, observation, todo and     *)
(* evidence agree, and the observation is that of the last attempt or of   *)
(* one that passes for it.                                                 *)
THEOREM JobsDoAgree == Spec => []JobAgrees
<1>1. NInv => JobAgrees
  <2> SUFFICES ASSUME NInv PROVE JobAgrees
    OBVIOUS
  <2>1. TypeOK /\ ResultsRestOnObservation
    BY DEF NInv, SInv
  <2>2. ObservationAgrees
    BY DEF NInv, SInv, JobsAreSound, Settled, LastObserved, ObservationAgrees
  <2>3. AttemptsBounded
    BY SoleExecutor DEF NInv, SInv, JobsAreSound, Counted, AttemptsBounded
  <2>4. CancelWins
    BY DEF NInv, SInv, JobsAreSound, CancelStops, ResultsRestOnObservation, CancelWins
  <2> QED
    BY <2>1, <2>2, <2>3, <2>4 DEF JobAgrees
<1> QED
  BY <1>1, FencedInit, FencedStep, PTL DEF Spec

LEMMA CurrentOfStep ==
  ASSUME NInv, Next, NEW t \in Thread, NEW j \in Job, NEW n \in 1..MaxAttempts,
         RenewsLease(t, j, n) \/ PublishesOutput(t, j, n)
  PROVE  PassesForLast(j, n)
<1>1. SInv /\ Overtaken /\ Effect
  BY EffectOfStep DEF NInv
<1>2. th[t].pc \in Working /\ th[t].job = j /\ th[t].n = n
  BY DEF RenewsLease, PublishesOutput, Executing
<1>3. Leaseholder(t)
  <2>1. CASE PublishesOutput(t, j, n)
    BY <1>1, <2>1 DEF PublishesOutput, Effect, ThreadStep, Moves, Leaves, Carries, Takes,
                      Leases, Working
  <2>2. CASE RenewsLease(t, j, n)
    <3>1. PICK u \in Thread : Executing(u, j, n) /\ Leaseholder(u)
      BY <1>1, <2>2 DEF RenewsLease, Effect, RowStep, RenewedByHolder
    <3>2. u = t
      BY <1>1, <1>2, <3>1 DEF SInv, ThreadsAreSound
    <3> QED
      BY <3>1, <3>2
  <2> QED
    BY <2>1, <2>2
<1> QED
  BY <1>1, <1>2, <1>3, HolderPasses

(* No late step rewrites what a job and its todo came to, and no thread    *)
(* renews or publishes for an attempt that another worker_id overtook      *)
(* (publish, heartbeat and notify of sandbox_jobs.py).                     *)
THEOREM JobsDoStand == Spec => JobStands
<1> DEFINE Current == \A t \in Thread, j \in Job, n \in 1..MaxAttempts :
             RenewsLease(t, j, n) \/ PublishesOutput(t, j, n) => PassesForLast(j, n)
<1>1. NInv /\ [Next]_vars => [Current]_vars
  BY CurrentOfStep
<1>2. Spec => []NInv
  BY FencedInit, FencedStep, PTL DEF Spec
<1>3. Spec => OnlyCurrentAttempt
  BY <1>1, <1>2, PTL DEF Spec, OnlyCurrentAttempt
<1> QED
  BY <1>3, JobsEndOnce, TodosSettle DEF JobStands

=============================================================================
