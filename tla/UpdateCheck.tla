---------------------------- MODULE UpdateCheck ----------------------------
(***************************************************************************)
(* The update notifier of the archify skill (scripts/check-update.mjs).    *)
(* Processes that check for an update, or acknowledge one, share a cache   *)
(* directory and no lock.  An operation is a directory whose name is its   *)
(* kind and generation, and which only mkdir and rename ever change; the   *)
(* highest committed one holds the cache's state.  Who may commit is who   *)
(* has renamed a claim to active-claim.                                    *)
(*                                                                         *)
(* One action is one call of the file system that others can see the       *)
(* effect of, or one look whose parts verify each other.  A process's      *)
(* memory is proc[p].  Listing a directory is taken as atomic.             *)
(***************************************************************************)
EXTENDS Integers, FiniteSets

CONSTANTS
  Process,     \* processes that run the script, one call after another
  Digest,      \* digests of releases, each of one version
  Newer,       \* the digests of versions above the installed one
  None,        \* no digest
  Capacity,    \* how many digests fit into MAX_CACHE_STATE_BYTES
  PowerFailed, \* the cache starts with a claim that a power failure left
  MaxTries,    \* the attempts of promoteOperationClaim
  MaxGen,      \* bound: generations
  MaxClock,    \* bound: times the interval between two checks passes
  MaxAborts    \* bound: processes that die or meet an I/O error

ASSUME NewerAreDigests == Newer \subseteq Digest /\ None \notin Digest
ASSUME BoundsAreNatural ==
  /\ MaxGen \in Nat \ {0} /\ MaxTries \in Nat \ {0}
  /\ PowerFailed \in BOOLEAN
  /\ MaxClock \in Nat /\ MaxAborts \in Nat /\ Capacity \in Nat

VARIABLES
  op,           \* op[g]: the operation directory of generation g
  reserved,     \* generations whose reserved directory exists
  active,       \* active-claim: the generation that owns it, or one of the two
                \* values below
  corruptLive,  \* a claim without a readable owner is within its lease
  retired,      \* claims that lie in their retired-claim directory
  proc,         \* proc[p]: what process p is doing
  clock,        \* intervals between checks that have passed
  notified,     \* history: digests a check has returned as available since
                \* their acknowledgement was last reported
  acknowledged, \* history: digests whose acknowledgement was reported
  aborts        \* what the bound counts

vars == <<op, reserved, active, corruptLive, retired, proc, clock, notified,
          acknowledged, aborts>>
claims == <<active, corruptLive, retired>>
history == <<notified, acknowledged>>

Gen == 1..MaxGen
Absent == -1
Corrupt == 0

-----------------------------------------------------------------------------
(* The state of the cache *)

(* next: the clock at which a check is due again; 0 is null. *)
State == [candidate: Digest \union {None}, offered: SUBSET Digest,
          acked: SUBSET Digest, next: 0..(MaxClock + 1)]

EmptyState == [candidate |-> None, offered |-> {}, acked |-> {}, next |-> 0]

(* A definition named XSlip is a plausible mistake in the code of X; the   *)
(* specification never uses it.                                            *)

Fits(s) ==
  LET ofCandidate == IF s.candidate = None THEN 0 ELSE 1
  IN Cardinality(s.offered) + Cardinality(s.acked) + ofCandidate <= Capacity

(* stateAfterAcknowledgement *)
Acknowledged(s, d) ==
  [s EXCEPT !.offered = @ \ {d}, !.acked = @ \union {d}]

(* encodeRecoverableState: the state fits, and so does what becomes of it  *)
(* when everything it offers is acknowledged.                              *)
Recoverable(s) ==
  /\ Fits(s)
  /\ \A ds \in SUBSET s.offered :
       Fits([s EXCEPT !.offered = @ \ ds, !.acked = @ \union ds])

(* normalizeState *)
Readable(s) ==
  /\ s.candidate \in Newer => s.candidate \in s.offered \union s.acked
  /\ Recoverable(s)

(* stateAfterFailedCheck.  Both delays are shorter than the interval.      *)
AfterFailure(s, now, withdraw) ==
  [s EXCEPT !.next = now + 1, !.candidate = IF withdraw THEN None ELSE @]

ResultSlip(s) == IF s.candidate \in Newer THEN s.candidate ELSE None

(* resultForCandidate: the digest to notify, or none. *)
Result(s) ==
  IF s.candidate \in Newer \ s.acked THEN s.candidate ELSE None

(* A manifest was fetched: its release is the candidate, and is offered if *)
(* it is to be notified.                                                   *)
AfterFetch(s, now, d) ==
  LET fetched == [candidate |-> d, offered |-> s.offered, acked |-> s.acked,
                  next |-> now + 1]
  IN [fetched EXCEPT !.offered = @ \union ({Result(fetched)} \ {None})]

(* freshStateResult: a schedule too far ahead is not believed. *)
Fresh(s, now) == s.next > now /\ s.next <= now + 1

-----------------------------------------------------------------------------
(* Directories *)

Kind == {"none", "pending", "committed", "fenced", "cancelled"}
Operation == [kind: Kind, live: BOOLEAN, state: State]
NoOperation == [kind |-> "none", live |-> FALSE, state |-> EmptyState]

Pending(g) == op[g].kind = "pending"

(* operationIsActive: within the lease of 30 seconds, which nobody renews. *)
Live(g) == Pending(g) /\ op[g].live

Commits == {g \in Gen : op[g].kind = "committed" /\ Readable(op[g].state)}
LatestGen ==
  IF Commits = {} THEN 0 ELSE CHOOSE g \in Commits : \A h \in Commits : h <= g

(* readState *)
Latest == IF Commits = {} THEN EmptyState ELSE op[LatestGen].state

BusySlip == active = Corrupt /\ corruptLive

(* inspectActiveClaim: the claim is busy, or may be retired, or absent. *)
Busy ==
  \/ active = Corrupt /\ corruptLive
  \/ active \in Gen /\ Live(active)

(* The lease matters only while the operation is pending, and its state    *)
(* only if it is committed.                                                *)
Rename(g, kind) ==
  op' = [op EXCEPT ![g] =
           [NoOperation EXCEPT !.kind = kind,
              !.state = IF kind = "committed" THEN op[g].state ELSE @]]

-----------------------------------------------------------------------------
(* Processes *)

Acquiring == {"look", "reserve", "create", "sign", "climb", "inspect",
              "retire", "move", "promote", "confirm"}
Owning == {"reread", "own", "fetch", "claim", "list", "fence", "reclaim",
           "stage", "publish"}

(* job: check or ack; arg: the digest to acknowledge, or what was fetched; *)
(* seen: what had been acknowledged when the call began; key: the claim to *)
(* retire; todo: operations to fence; base: the commit its state rests on; *)
(* reply: what a check will return, "cached" if it is still to be read.    *)
ProcState ==
  [pc: {"idle", "cancel", "denied"} \union Acquiring \union Owning,
   job: {"check", "ack"}, arg: Digest \union {None, "failed"}, now: Nat,
   seen: SUBSET Digest, gen: 0..MaxGen, tries: 0..MaxTries, key: 0..MaxGen,
   todo: SUBSET Gen, base: 0..MaxGen, reply: Digest \union {None, "cached"}]

Idle == [pc |-> "idle", job |-> "check", arg |-> None, now |-> 0,
         seen |-> {}, gen |-> 0, tries |-> 0, key |-> 0, todo |-> {},
         base |-> 0, reply |-> "cached"]

Init ==
  /\ op = [g \in Gen |-> NoOperation]
  /\ reserved = {}
  /\ active = IF PowerFailed THEN Corrupt ELSE Absent
  /\ corruptLive = PowerFailed
  /\ retired = {}
  /\ proc = [p \in Process |-> Idle]
  /\ clock = 0
  /\ notified = {} /\ acknowledged = {}
  /\ aborts = 0

At(p, pc) == proc[p].pc = pc
Goto(p, pc) == proc' = [proc EXCEPT ![p].pc = pc]
Become(p, record) == proc' = [proc EXCEPT ![p] = record]

(* The call returns; a check may return a digest. *)
Return(p, d) ==
  /\ Become(p, Idle)
  /\ notified' = notified \union ({d} \ {None})

(* The operation is given up before anything of it could be committed. *)
Withdraw(p, reply) ==
  Become(p, [Idle EXCEPT !.pc = "cancel", !.reply = reply,
                         !.job = proc[p].job, !.gen = proc[p].gen,
                         !.seen = proc[p].seen,
                         !.arg = IF proc[p].job = "ack" THEN proc[p].arg
                                                        ELSE None])

(* checkForUpdate, as far as a schedule that is not due answers it. *)
Check(p) ==
  /\ At(p, "idle")
  /\ IF Fresh(Latest, clock)
     THEN Return(p, Result(Latest))
     ELSE /\ Become(p, [Idle EXCEPT !.pc = "look", !.now = clock,
                                    !.seen = acknowledged])
          /\ UNCHANGED notified
  /\ UNCHANGED <<op, reserved, claims, clock, acknowledged, aborts>>

(* acknowledgeUpdate *)
Ack(p, d) ==
  /\ At(p, "idle")
  /\ Become(p, [Idle EXCEPT !.pc = "look", !.job = "ack", !.arg = d])
  /\ UNCHANGED <<op, reserved, claims, clock, history, aborts>>

-----------------------------------------------------------------------------
(* acquireOperation *)

(* inspectActiveClaim, then hasActivePendingOperation, which sees a live   *)
(* owner again: the process goes on from the state of the second look.     *)
Look(p) ==
  /\ At(p, "look")
  /\ Goto(p, IF Busy \/ \E g \in Gen : Live(g) THEN "denied" ELSE "reserve")
  /\ UNCHANGED <<op, reserved, claims, clock, history, aborts>>

Free == Gen \ reserved

(* reserveOperation: mkdir finds the lowest generation that is free. *)
Reserve(p) ==
  /\ At(p, "reserve")
  /\ \E g \in Free :
       /\ \A h \in Free : g <= h
       /\ reserved' = reserved \union {g}
       /\ Become(p, [proc[p] EXCEPT !.pc = "create", !.gen = g])
  /\ UNCHANGED <<op, claims, clock, history, aborts>>

Create(p) ==
  /\ At(p, "create")
  /\ op' = [op EXCEPT ![proc[p].gen] =
              [NoOperation EXCEPT !.kind = "pending", !.live = TRUE]]
  /\ Goto(p, "sign")
  /\ UNCHANGED <<reserved, claims, clock, history, aborts>>

(* The owner file starts the lease anew, unless the operation was fenced. *)
Sign(p) ==
  /\ At(p, "sign")
  /\ IF Pending(proc[p].gen)
     THEN op' = [op EXCEPT ![proc[p].gen].live = TRUE] /\ Goto(p, "climb")
     ELSE Goto(p, "denied") /\ UNCHANGED op
  /\ UNCHANGED <<reserved, claims, clock, history, aborts>>

(* operationIsSuperseded *)
Superseded(p) == \E g \in reserved : g > proc[p].gen

(* promoteOperationClaim: the head of its loop, whose look at the higher   *)
(* generations repeats the one before the call.                            *)
Climb(p) ==
  /\ At(p, "climb")
  /\ IF proc[p].tries = MaxTries \/ Superseded(p)
     THEN Withdraw(p, "cached")
     ELSE Become(p, [proc[p] EXCEPT !.pc = "inspect", !.tries = @ + 1,
                                    !.key = 0])
  /\ UNCHANGED <<op, reserved, claims, clock, history, aborts>>

Inspect(p) ==
  /\ At(p, "inspect")
  /\ IF active = Absent THEN Goto(p, "promote")
     ELSE IF ~Busy /\ active <= proc[p].gen
     THEN Become(p, [proc[p] EXCEPT !.pc = "retire", !.key = active])
     ELSE Withdraw(p, "cached")
  /\ UNCHANGED <<op, reserved, claims, clock, history, aborts>>

(* retireActiveClaim: the claim is still the one that was inspected.  One  *)
(* that was replaced is an error (Abort).                                  *)
Retire(p) ==
  /\ At(p, "retire")
  /\ active \in {Absent, proc[p].key}
  /\ Goto(p, IF active = Absent THEN "climb" ELSE "move")
  /\ UNCHANGED <<op, reserved, claims, clock, history, aborts>>

MovesSlip(p) == active # Absent

(* rename fails if the directory it moves to has a claim already.  It      *)
(* moves whatever is there now.                                            *)
Moves(p) == active # Absent /\ proc[p].key \notin retired

Move(p) ==
  /\ At(p, "move")
  /\ IF Moves(p)
     THEN active' = Absent /\ retired' = retired \union {proc[p].key}
     ELSE UNCHANGED <<active, retired>>
  /\ Goto(p, "climb")
  /\ UNCHANGED <<op, reserved, corruptLive, clock, history, aborts>>

(* The claim is renamed to active-claim, which fails if there is one. *)
Promote(p) ==
  /\ At(p, "promote")
  /\ IF active = Absent
     THEN active' = proc[p].gen /\ Goto(p, "confirm")
     ELSE UNCHANGED active /\ Goto(p, "climb")
  /\ UNCHANGED <<op, reserved, corruptLive, retired, clock, history, aborts>>

Confirm(p) ==
  /\ At(p, "confirm")
  /\ IF ~Live(proc[p].gen) THEN Withdraw(p, "cached")
     ELSE Become(p, [proc[p] EXCEPT !.tries = 0,
            !.pc = IF proc[p].job = "check" THEN "reread" ELSE "claim"])
  /\ UNCHANGED <<op, reserved, claims, clock, history, aborts>>

(* cancelOperation: an operation that somebody fenced stays fenced. *)
Cancel(p) ==
  LET g == proc[p].gen IN
  /\ At(p, "cancel")
  /\ IF Pending(g) THEN Rename(g, "cancelled") ELSE UNCHANGED op
  /\ IF proc[p].reply = "cached"
     THEN Become(p, [proc[p] EXCEPT !.pc = "denied", !.gen = 0]) /\ UNCHANGED notified
     ELSE Return(p, proc[p].reply)
  /\ UNCHANGED <<reserved, claims, clock, acknowledged, aborts>>

(* A check that was denied answers from the cache; an acknowledgement      *)
(* tries again until its deadline.                                         *)
Denied(p) ==
  /\ At(p, "denied")
  /\ IF proc[p].job = "check"
     THEN Return(p, IF Latest.candidate \in Latest.offered
                    THEN Result(Latest) ELSE None)
     ELSE /\ \/ Become(p, Idle)
             \/ Become(p, [Idle EXCEPT !.pc = "look", !.job = "ack",
                                       !.arg = proc[p].arg])
          /\ UNCHANGED notified
  /\ UNCHANGED <<op, reserved, claims, clock, acknowledged, aborts>>

-----------------------------------------------------------------------------
(* checkForUpdate with an operation *)

Reread(p) ==
  /\ At(p, "reread")
  /\ IF Fresh(Latest, proc[p].now)
     THEN Withdraw(p, Result(Latest))
     ELSE Goto(p, "own")
  /\ UNCHANGED <<op, reserved, claims, clock, history, aborts>>

(* operationOwnsActiveClaim *)
Owns(p) == active = proc[p].gen /\ Busy

(* The two looks before the request, of which the second decides. *)
Own(p) ==
  /\ At(p, "own")
  /\ IF Owns(p) THEN Goto(p, "fetch") ELSE Withdraw(p, "cached")
  /\ UNCHANGED <<op, reserved, claims, clock, history, aborts>>

(* fetchCandidate: the timeout, any error of the network and any manifest  *)
(* that is not accepted are "failed".                                      *)
Fetched(p) ==
  /\ At(p, "fetch")
  /\ \E answer \in Digest \union {"failed"} :
       Become(p, [proc[p] EXCEPT !.pc = "claim", !.arg = answer])
  /\ UNCHANGED <<op, reserved, claims, clock, history, aborts>>

-----------------------------------------------------------------------------
(* commitOperation *)

(* A check that lost its claim returns nothing, an acknowledgement retries. *)
Lost(p) ==
  Withdraw(p, IF proc[p].job = "check" THEN None ELSE "cached")

(* The looks at the claim before and behind the fencing. *)
Claim(p) ==
  /\ At(p, "claim")
  /\ IF Owns(p) THEN Goto(p, "list") ELSE Lost(p)
  /\ UNCHANGED <<op, reserved, claims, clock, history, aborts>>

LowerSlip(p) == {}

(* fenceLowerOperations *)
Lower(p) == {g \in Gen : Pending(g) /\ g < proc[p].gen}

List(p) ==
  /\ At(p, "list")
  /\ Become(p, [proc[p] EXCEPT !.pc = "fence", !.todo = Lower(p)])
  /\ UNCHANGED <<op, reserved, claims, clock, history, aborts>>

Fence(p) ==
  /\ At(p, "fence")
  /\ \/ /\ proc[p].todo = {}
        /\ Goto(p, "reclaim")
        /\ UNCHANGED op
     \/ \E g \in proc[p].todo :
          /\ \A h \in proc[p].todo : g <= h
          /\ IF Pending(g) THEN Rename(g, "fenced") ELSE UNCHANGED op
          /\ Become(p, [proc[p] EXCEPT !.todo = @ \ {g}])
  /\ UNCHANGED <<reserved, claims, clock, history, aborts>>

Reclaim(p) ==
  /\ At(p, "reclaim")
  /\ IF Owns(p) THEN Goto(p, "stage") ELSE Lost(p)
  /\ UNCHANGED <<op, reserved, claims, clock, history, aborts>>

(* What the call makes of the cache's state, and what it will return.  A   *)
(* candidate that does not fit is withdrawn.                               *)
Decided(p, s) ==
  LET next == AfterFetch(s, proc[p].now, proc[p].arg) IN
  IF proc[p].job = "ack"
  THEN [state |-> Acknowledged(s, proc[p].arg), reply |-> proc[p].arg]
  ELSE IF proc[p].arg = "failed"
  THEN [state |-> AfterFailure(s, proc[p].now, FALSE), reply |-> None]
  ELSE IF Recoverable(next)
  THEN [state |-> next, reply |-> Result(next)]
  ELSE [state |-> AfterFailure(s, proc[p].now, TRUE), reply |-> None]

Refused(p, s) ==
  \/ proc[p].job = "ack" /\ proc[p].arg \notin s.offered \union s.acked
  \/ ~Recoverable(Decided(p, s).state)

(* The state is read and the new one written into the operation's own      *)
(* directory, where nobody reads it yet.                                   *)
Stage(p) ==
  LET g == proc[p].gen
      decision == Decided(p, Latest)
  IN
  /\ At(p, "stage")
  /\ IF Refused(p, Latest)
     THEN Withdraw(p, None) /\ UNCHANGED op
     ELSE IF Pending(g)
     THEN /\ op' = [op EXCEPT ![g].state = decision.state]
          /\ Become(p, [proc[p] EXCEPT !.pc = "publish", !.base = LatestGen,
                                       !.reply = decision.reply])
     ELSE Lost(p) /\ UNCHANGED op
  /\ UNCHANGED <<reserved, claims, clock, history, aborts>>

(* The rename to committed fails if the operation was fenced. *)
Publish(p) ==
  /\ At(p, "publish")
  /\ IF Pending(proc[p].gen)
     THEN /\ Rename(proc[p].gen, "committed")
          /\ IF proc[p].job = "check"
             THEN Return(p, proc[p].reply) /\ UNCHANGED acknowledged
             ELSE /\ Become(p, Idle)
                  /\ acknowledged' = acknowledged \union {proc[p].reply}
                  /\ notified' = notified \ {proc[p].reply}
     ELSE Lost(p) /\ UNCHANGED <<op, history>>
  /\ UNCHANGED <<reserved, claims, clock, aborts>>

-----------------------------------------------------------------------------
(* Failures and time *)

(* A process dies, or a call of the file system fails or finds an object   *)
(* that was replaced, and "cache-unavailable" is returned.  An operation   *)
(* that was acquired is then cancelled, if that is possible.               *)
Abort(p) ==
  LET g == proc[p].gen IN
  /\ ~At(p, "idle")
  /\ aborts < MaxAborts
  /\ aborts' = aborts + 1
  /\ \/ UNCHANGED op
     \/ /\ proc[p].pc \in Owning \union {"sign", "cancel"}
        /\ Pending(g) /\ Rename(g, "cancelled")
  /\ Become(p, Idle)
  /\ UNCHANGED <<reserved, claims, clock, history>>

(* The lease of an operation runs out, its owner being dead or only slow. *)
Age(g) ==
  /\ Live(g)
  /\ op' = [op EXCEPT ![g].live = FALSE]
  /\ UNCHANGED <<reserved, claims, proc, clock, history, aborts>>

AgeCorrupt ==
  /\ corruptLive
  /\ corruptLive' = FALSE
  /\ UNCHANGED <<op, reserved, active, retired, proc, clock, history, aborts>>

Tick ==
  /\ clock < MaxClock
  /\ clock' = clock + 1
  /\ UNCHANGED <<op, reserved, claims, proc, history, aborts>>

Step(p) ==
  \/ Look(p) \/ Reserve(p) \/ Create(p) \/ Sign(p)
  \/ Climb(p) \/ Inspect(p) \/ Retire(p) \/ Move(p)
  \/ Promote(p) \/ Confirm(p) \/ Cancel(p) \/ Denied(p)
  \/ Reread(p) \/ Own(p) \/ Fetched(p)
  \/ Claim(p) \/ List(p) \/ Fence(p) \/ Reclaim(p) \/ Stage(p) \/ Publish(p)

Next ==
  \/ AgeCorrupt \/ Tick \/ \E g \in Gen : Age(g)
  \/ \E p \in Process :
       Check(p) \/ Step(p) \/ Abort(p) \/ \E d \in Digest : Ack(p, d)

Spec == Init /\ [][Next]_vars

-----------------------------------------------------------------------------
(* Properties *)

(* Every variable keeps its shape, and what a process does as owner it     *)
(* does with a generation that it reserved for itself.                     *)
TypeOK ==
  /\ op \in [Gen -> Operation]
  /\ reserved \subseteq Gen
  /\ active \in Absent..MaxGen
  /\ corruptLive \in BOOLEAN
  /\ retired \subseteq 0..MaxGen
  /\ proc \in [Process -> ProcState]
  /\ clock \in 0..MaxClock
  /\ notified \subseteq Digest /\ acknowledged \subseteq Digest
  /\ aborts \in 0..MaxAborts
  /\ \A p, q \in Process : p # q /\ proc[p].gen # 0 => proc[p].gen # proc[q].gen

(* Of the processes that may be talking to the server or preparing a       *)
(* commit, at most one is within its lease: an owner that was only slow    *)
(* is the one exception to a single writer.                                *)
OneLiveOwner ==
  \A p, q \in Process :
    /\ proc[p].pc \in Owning /\ Live(proc[p].gen)
    /\ proc[q].pc \in Owning /\ Live(proc[q].gen)
    => p = q

(* Every committed state can be read again, and what it offers can still   *)
(* be acknowledged when the cache is full.                                 *)
CommitsAreReadable ==
  \A g \in Gen : op[g].kind = "committed" => Readable(op[g].state)

(* What a check has told the user about stays in the cache until it is     *)
(* acknowledged: no later check, failure or full cache makes the           *)
(* acknowledgement invalid.                                                *)
OffersAcknowledgeable ==
  notified \subseteq Latest.offered \union Latest.acked

(* An acknowledgement that was reported is in the cache for good, whoever  *)
(* was refreshing it at the time.                                          *)
AcksAreDurable == acknowledged \subseteq Latest.acked

(* The cache that processes leave to each other is readable and holds what *)
(* was promised to the user, and each owner uses a generation of its own   *)
(* (check-update.mjs).                                                     *)
CacheSound ==
  /\ TypeOK
  /\ CommitsAreReadable
  /\ OffersAcknowledgeable
  /\ AcksAreDurable

(* Commits are serial although nobody waits: each is made from the state   *)
(* of the commit before it, so that no update is lost, and an operation    *)
(* that was fenced, cancelled or overtaken never commits.                  *)
CommitsInOrder ==
  [][\A g \in Gen :
       op[g].kind # "committed" /\ op'[g].kind = "committed"
       => /\ \A h \in Gen : op[h].kind = "committed" => h < g
          /\ \E p \in Process : proc[p].gen = g /\ proc[p].base = LatestGen]_vars

(* Only a check that was under way when a release was acknowledged may     *)
(* notify it once more.                                                    *)
NotNotifiedAgain ==
  [][\A d \in (notified' \ notified) \intersect acknowledged :
       \E p \in Process :
         ~At(p, "idle") /\ proc'[p].pc = "idle" /\ d \notin proc[p].seen]_vars

(* Commits follow each other without a gap in what they know, up to what   *)
(* the user is told (check-update.mjs).                                    *)
CommitsStand ==
  /\ CommitsInOrder
  /\ NotNotifiedAgain

(* Only a claim whose owner has ended or whose lease ran out is taken      *)
(* away, even by a process that was delayed between its look and its       *)
(* rename.                                                                 *)
OnlyDoneClaimsRetire ==
  [][active # Absent /\ active' # active => ~Busy]_vars
=============================================================================
