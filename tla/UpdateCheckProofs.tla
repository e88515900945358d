------------------------- MODULE UpdateCheckProofs -------------------------
(***************************************************************************)
(* Proofs about UpdateCheck: the lock-free cache loses no commit and no    *)
(* acknowledgement and has one live owner, for any processes, releases     *)
(* and limits.                                                             *)
(***************************************************************************)
EXTENDS UpdateCheck, TLAPS

-----------------------------------------------------------------------------
(* The inductive invariant *)

Shapes ==
  /\ op \in [Gen -> Operation]
  /\ reserved \subseteq Gen
  /\ active \in Absent..MaxGen
  /\ corruptLive \in BOOLEAN
  /\ retired \subseteq 0..MaxGen
  /\ proc \in [Process -> ProcState]
  /\ clock \in 0..MaxClock
  /\ notified \subseteq Digest /\ acknowledged \subseteq Digest
  /\ aborts \in 0..MaxAborts

(* The places behind the test that no higher generation is reserved. *)
Climbed == {"inspect", "retire", "move", "promote", "confirm"} \union Owning

(* The generation of a process was reserved, and created behind "create". *)
Numbered(p) ==
  /\ proc[p].gen # 0 => proc[p].gen \in reserved
  /\ proc[p].pc \in {"create", "sign", "climb", "cancel"} \union Climbed =>
       proc[p].gen # 0
  /\ proc[p].pc = "create" => op[proc[p].gen].kind = "none"
  /\ proc[p].pc \in {"sign", "climb"} \union Climbed =>
       op[proc[p].gen].kind # "none"

Remembers(p) == proc[p].now <= MaxClock /\ proc[p].seen \subseteq acknowledged

(* The lease of g will not start anew. *)
Signed(g) ==
  /\ op[g].kind # "none"
  /\ \A p \in Process : proc[p].gen = g => proc[p].pc \notin {"create", "sign"}

(* The claim k is nobody's any more, and will not be again. *)
Over(k) ==
  /\ k = Corrupt => ~corruptLive
  /\ k \in Gen => Signed(k) /\ ~Live(k)

(* A process retires a claim that is over, and unless somebody did so      *)
(* before, the claim it is about to move is that one.                      *)
Retires(p) ==
  /\ proc[p].pc \in {"retire", "move"} => Over(proc[p].key)
  /\ proc[p].pc = "move" /\ proc[p].key \notin retired => active = proc[p].key

HasClaim(p) ==
  proc[p].pc \in {"confirm"} \union Owning /\ Live(proc[p].gen) =>
    active = proc[p].gen

Known == Latest.offered \union Latest.acked

(* What a check that gave its operation up will return. *)
Replies(p) ==
  proc[p].pc = "cancel" /\ proc[p].reply \notin {"cached", None} =>
    proc[p].reply \in Known /\ proc[p].reply \notin proc[p].seen

(* What is about to be published follows from the latest commit. *)
Staged(p) ==
  LET s == op[proc[p].gen].state IN
  proc[p].pc = "publish" /\ Pending(proc[p].gen) =>
    /\ proc[p].base = LatestGen
    /\ Latest.acked \subseteq s.acked
    /\ Known \subseteq s.offered \union s.acked
    /\ Readable(s)
    /\ proc[p].job = "check" /\ proc[p].reply # None =>
         proc[p].reply \in s.offered /\ proc[p].reply \notin s.acked
    /\ proc[p].job = "ack" => proc[p].reply \in s.acked

Sane(p) ==
  /\ Numbered(p) /\ Remembers(p) /\ Retires(p) /\ HasClaim(p) /\ Replies(p)
  /\ Staged(p)

(* A process that has fenced leaves no lower one that could still commit. *)
Fenced(p, q) ==
  /\ proc[q].pc \in Climbed /\ Pending(proc[q].gen)
  /\ proc[q].gen < proc[p].gen
  => /\ proc[p].pc \notin {"reclaim", "stage", "publish"}
     /\ proc[p].pc = "fence" => proc[q].gen \in proc[p].todo

(* Nor has a commit. *)
Overtaken(p) ==
  \A g \in Gen :
    op[g].kind = "committed" /\ proc[p].pc \in Climbed /\ proc[p].gen < g =>
      ~Pending(proc[p].gen)

Distinct ==
  \A p, q \in Process : p # q /\ proc[p].gen # 0 => proc[p].gen # proc[q].gen

Fresher == \A g \in Gen \ reserved : op[g].kind = "none"

ClaimIsSigned == active \in Gen => Signed(active)

HasLatest ==
  Commits # {} => \E g \in Commits : \A h \in Commits : h <= g

UInv ==
  /\ Shapes
  /\ \A p \in Process : Sane(p) /\ Overtaken(p)
  /\ \A p, q \in Process : Fenced(p, q)
  /\ Distinct /\ Fresher /\ ClaimIsSigned /\ HasLatest
  /\ CommitsAreReadable /\ OffersAcknowledgeable /\ AcksAreDurable

-----------------------------------------------------------------------------
(* What a step does to an operation *)

Ages(g) ==
  op'[g].kind = op[g].kind /\ op'[g].state = op[g].state /\ ~op'[g].live

Creates(p, g) ==
  /\ proc[p].pc = "create" /\ proc[p].gen = g
  /\ op'[g].kind = "pending" /\ proc'[p].pc = "sign"

Signs(p, g) ==
  /\ proc[p].pc = "sign" /\ proc[p].gen = g
  /\ Pending(g) /\ op'[g].kind = "pending"

Closes(g) == Pending(g) /\ op'[g].kind \in {"fenced", "cancelled"}

Stages(p, g) ==
  /\ proc[p].pc = "stage" /\ proc[p].gen = g
  /\ Pending(g) /\ op'[g].kind = "pending" /\ op'[g].live = op[g].live

Publishes(p, g) ==
  /\ proc[p].pc = "publish" /\ proc[p].gen = g /\ proc'[p].pc = "idle"
  /\ Pending(g) /\ op'[g].kind = "committed" /\ op'[g].state = op[g].state

OpEffect(g) ==
  \/ op'[g] = op[g] \/ Ages(g) \/ Closes(g)
  \/ \E p \in Process :
       Creates(p, g) \/ Signs(p, g) \/ Stages(p, g) \/ Publishes(p, g)

ClaimEffect ==
  \/ active' = active /\ retired' = retired
  \/ \E p \in Process :
       /\ proc[p].pc = "move" /\ Moves(p)
       /\ active' = Absent /\ retired' = retired \union {proc[p].key}
  \/ \E p \in Process :
       /\ proc[p].pc = "promote" /\ active = Absent
       /\ active' = proc[p].gen /\ retired' = retired

(* What is told is in the cache, or comes into it with the publication. *)
TellEffect ==
  \A d \in notified' \ notified :
    /\ \/ d \in Known
       \/ \E p \in Process : \E g \in Gen :
            Publishes(p, g) /\ d \in op[g].state.offered
    /\ \/ d \notin acknowledged
       \/ \E p \in Process :
            ~At(p, "idle") /\ proc'[p].pc = "idle" /\ d \notin proc[p].seen

AckEffect ==
  \A d \in acknowledged' \ acknowledged :
    \E p \in Process : \E g \in Gen : Publishes(p, g) /\ d \in op[g].state.acked

Effect ==
  /\ Shapes' /\ reserved \subseteq reserved' /\ (corruptLive' => corruptLive)
  /\ acknowledged \subseteq acknowledged'
  /\ \A g \in Gen : OpEffect(g)
  /\ ClaimEffect /\ TellEffect /\ AckEffect

-----------------------------------------------------------------------------
(* What a step does to a process *)

MovesAlone(p) == \A q \in Process \ {p} : proc'[q] = proc[q]

(* It keeps its generation, gives it up, or takes a new one. *)
GenMove(p) ==
  /\ \/ proc'[p].gen = proc[p].gen
     \/ proc'[p].gen = 0
     \/ proc'[p].gen \in Gen \ reserved
  /\ proc'[p].pc \in {"create", "sign"} =>
       \/ proc'[p].gen \in Gen \ reserved
       \/ /\ proc[p].pc = "create" /\ proc'[p].pc = "sign"
          /\ proc'[p].gen = proc[p].gen

(* The way from "climb" to "publish". *)
PathMove(p) ==
  /\ proc'[p].pc \in Climbed =>
       /\ proc'[p].gen = proc[p].gen
       /\ \/ proc[p].pc \in Climbed
          \/ proc[p].pc = "climb" /\ ~Superseded(p)
  /\ proc'[p].pc \in {"fence", "reclaim", "stage", "publish"} =>
       \/ /\ proc[p].pc = "list" /\ proc'[p].pc = "fence"
          /\ proc'[p].todo = Lower(p)
       \/ /\ proc[p].pc = "fence" /\ proc'[p].pc = "fence"
          /\ \E g \in Gen : proc'[p].todo = proc[p].todo \ {g} /\ ~Pending(g)'
       \/ /\ proc[p].pc = "fence" /\ proc[p].todo = {}
          /\ proc'[p].pc = "reclaim"
       \/ /\ proc[p].pc \in {"reclaim", "stage"}
          /\ proc'[p].pc \in {"stage", "publish"}

GoodMove(p) == MovesAlone(p) /\ GenMove(p) /\ PathMove(p) /\ Sane(p)'

Sound == Effect /\ (proc' = proc \/ \E p \in Process : GoodMove(p))

-----------------------------------------------------------------------------
(* What follows for an operation *)

LEMMA OperationShape ==
  ASSUME Shapes, NEW g \in Gen
  PROVE  /\ op[g] \in Operation /\ op[g].kind \in Kind /\ op[g].live \in BOOLEAN
         /\ op[g].state \in State
BY DEF Shapes, Operation

LEMMA StaysCreated ==
  ASSUME Effect, NEW g \in Gen, op[g].kind # "none"
  PROVE  op'[g].kind # "none"
<1>1. OpEffect(g)
  BY DEF Effect
<1> QED
  BY <1>1 DEF OpEffect, Ages, Closes, Creates, Signs, Stages, Publishes

LEMMA PendingBefore ==
  ASSUME Effect, NEW g \in Gen, Pending(g)'
  PROVE  Pending(g) \/ \E p \in Process : Creates(p, g)
<1>1. OpEffect(g)
  BY DEF Effect
<1> QED
  BY <1>1 DEF OpEffect, Ages, Closes, Signs, Stages, Publishes, Pending

LEMMA LiveBefore ==
  ASSUME Effect, NEW g \in Gen, Live(g)'
  PROVE  Live(g) \/ \E p \in Process : Creates(p, g) \/ Signs(p, g)
<1>1. OpEffect(g)
  BY DEF Effect
<1> QED
  BY <1>1 DEF OpEffect, Ages, Closes, Stages, Publishes, Pending, Live

(* A new commit is a publication, and an old one stays. *)
LEMMA CommittedBefore ==
  ASSUME Effect, NEW g \in Gen, op'[g].kind = "committed"
  PROVE  \/ op[g].kind = "committed" /\ op'[g].state = op[g].state
         \/ \E p \in Process : Publishes(p, g)
<1>1. OpEffect(g)
  BY DEF Effect
<1> QED
  BY <1>1 DEF OpEffect, Ages, Closes, Creates, Signs, Stages

LEMMA CommitsStay ==
  ASSUME UInv, Effect, NEW g \in Gen, op[g].kind = "committed"
  PROVE  op'[g].kind = "committed" /\ op'[g].state = op[g].state
<1>1. OpEffect(g)
  BY DEF Effect
<1>2. ~\E p \in Process : Creates(p, g)
  BY DEF UInv, Sane, Numbered, Creates
<1> QED
  BY <1>1, <1>2 DEF OpEffect, Ages, Closes, Signs, Stages, Publishes, Pending

-----------------------------------------------------------------------------
(* The latest commit *)

LEMMA LatestIsMax ==
  ASSUME UInv, Commits # {}
  PROVE  /\ LatestGen \in Commits /\ Latest = op[LatestGen].state
         /\ \A h \in Commits : h <= LatestGen
<1>1. \E g \in Commits : \A h \in Commits : h <= g
  BY DEF UInv, HasLatest
<1> QED
  BY <1>1 DEF LatestGen, Latest

LEMMA CommitsAreAll ==
  ASSUME CommitsAreReadable
  PROVE  Commits = {g \in Gen : op[g].kind = "committed"}
BY DEF CommitsAreReadable, Commits

LEMMA LatestShape ==
  ASSUME UInv
  PROVE  Latest \in State /\ LatestGen \in 0..MaxGen
<1>1. CASE Commits = {}
  BY <1>1, BoundsAreNatural, NewerAreDigests DEF Latest, LatestGen, EmptyState, State
<1>2. CASE Commits # {}
  <2>1. LatestGen \in Gen /\ Latest = op[LatestGen].state
    BY <1>2, LatestIsMax DEF Commits
  <2> QED
    BY <2>1, OperationShape, BoundsAreNatural DEF UInv, Gen
<1> QED
  BY <1>1, <1>2

(* Who has fenced publishes behind all commits, and from the latest. *)
LEMMA PublishedLast ==
  ASSUME UInv, NEW p \in Process, NEW g \in Gen, Publishes(p, g)
  PROVE  /\ \A h \in Gen : op[h].kind = "committed" => h < g
         /\ proc[p].base = LatestGen /\ Latest.acked \subseteq op[g].state.acked
         /\ Known \subseteq op[g].state.offered \union op[g].state.acked
         /\ Readable(op[g].state)
<1>1. proc[p].pc = "publish" /\ proc[p].gen = g /\ Pending(g)
  BY DEF Publishes
<1>2. ASSUME NEW h \in Gen, op[h].kind = "committed" PROVE h < g
  <2>1. Overtaken(p)
    BY DEF UInv
  <2>2. ~(g < h)
    BY <1>1, <1>2, <2>1 DEF Overtaken, Climbed, Owning
  <2>3. h # g
    BY <1>1, <1>2 DEF Pending
  <2> QED
    BY <2>2, <2>3 DEF Gen
<1>3. Staged(p)
  BY DEF UInv, Sane
<1> QED
  BY <1>1, <1>2, <1>3 DEF Staged

(* Nobody publishes, and the latest commit stays; or somebody does, and    *)
(* that is the latest.                                                     *)
LEMMA LatestStays ==
  ASSUME UInv, Effect, ~\E p \in Process : \E g \in Gen : Publishes(p, g)
  PROVE  /\ Commits' = Commits /\ Latest' = Latest /\ LatestGen' = LatestGen
         /\ CommitsAreReadable'
<1>1. ASSUME NEW g \in Gen
      PROVE  (op'[g].kind = "committed") <=> (op[g].kind = "committed")
  BY CommittedBefore, CommitsStay
<1>2. \A g \in Gen : op[g].kind = "committed" => op'[g].state = op[g].state
  BY CommitsStay
<1>3. CommitsAreReadable'
  BY <1>1, <1>2 DEF UInv, CommitsAreReadable
<1>4. Commits' = Commits
  BY <1>1, <1>2 DEF Commits
<1>5. LatestGen' = LatestGen
  BY <1>4 DEF LatestGen
<1>6. Latest' = Latest
  <2>1. CASE Commits = {}
    BY <1>4, <2>1 DEF Latest
  <2>2. CASE Commits # {}
    <3>1. LatestGen \in Commits
      BY <2>2, LatestIsMax
    <3>2. op'[LatestGen].state = op[LatestGen].state
      BY <1>2, <3>1 DEF Commits
    <3> QED
      BY <1>4, <1>5, <2>2, <3>2 DEF Latest
  <2> QED
    BY <2>1, <2>2
<1> QED
  BY <1>3, <1>4, <1>5, <1>6

LEMMA OnePublisher ==
  ASSUME UInv, NEW p \in Process, NEW g \in Gen, Publishes(p, g),
         NEW q \in Process, NEW h \in Gen, Publishes(q, h)
  PROVE  g = h
<1>1. /\ proc[p].pc = "publish" /\ proc[p].gen = g /\ Pending(g)
      /\ proc[q].pc = "publish" /\ proc[q].gen = h /\ Pending(h)
  BY DEF Publishes
<1>2. Fenced(p, q) /\ Fenced(q, p)
  BY DEF UInv
<1>3. ~(g < h) /\ ~(h < g)
  BY <1>1, <1>2 DEF Fenced, Climbed, Owning
<1> QED
  BY <1>3 DEF Gen

LEMMA LatestMovesOn ==
  ASSUME UInv, Effect, NEW p \in Process, NEW g \in Gen, Publishes(p, g)
  PROVE  /\ Commits' = Commits \union {g} /\ g \in Commits'
         /\ \A h \in Commits' : h <= g
         /\ LatestGen' = g /\ Latest' = op[g].state /\ CommitsAreReadable'
<1>1. /\ \A h \in Gen : op[h].kind = "committed" => h < g
      /\ Readable(op[g].state)
  BY PublishedLast
<1>2. op'[g].kind = "committed" /\ op'[g].state = op[g].state
  BY DEF Publishes
<1>3. ASSUME NEW h \in Gen, h # g
      PROVE  /\ (op'[h].kind = "committed") <=> (op[h].kind = "committed")
             /\ op'[h].kind = "committed" => op'[h].state = op[h].state
  <2>1. ~\E q \in Process : Publishes(q, h)
    BY <1>3, OnePublisher
  <2> QED
    BY <2>1, CommittedBefore, CommitsStay
<1>4. ASSUME NEW h \in Gen, op'[h].kind = "committed" PROVE Readable(op'[h].state)
  <2>1. CASE h = g
    BY <1>1, <1>2, <2>1
  <2>2. CASE h # g
    BY <1>3, <1>4, <2>2 DEF UInv, CommitsAreReadable
  <2> QED
    BY <2>1, <2>2
<1>5. CommitsAreReadable'
  BY <1>4 DEF CommitsAreReadable
<1>6. Commits = {h \in Gen : op[h].kind = "committed"}
  BY CommitsAreAll DEF UInv
<1>7. Commits' = {h \in Gen : op'[h].kind = "committed"}
  BY <1>4 DEF Commits
<1>8. Commits' = Commits \union {g} /\ g \in Commits'
  BY <1>2, <1>3, <1>6, <1>7
<1>9. \A h \in Commits' : h <= g
  <2> SUFFICES ASSUME NEW h \in Commits' PROVE h <= g
    OBVIOUS
  <2>1. h \in Gen
    BY <1>7
  <2>2. h = g \/ h < g
    BY <1>1, <1>6, <1>8
  <2> QED
    BY <2>1, <2>2 DEF Gen
<1>10. LatestGen' = g
  <2>1. ASSUME NEW h \in Commits', \A k \in Commits' : k <= h PROVE h = g
    <3>1. h <= g /\ g <= h /\ h \in Gen
      BY <1>7, <1>8, <1>9, <2>1
    <3> QED
      BY <3>1 DEF Gen
  <2>2. Commits' # {}
    BY <1>8
  <2>3. LatestGen' = CHOOSE h \in Commits' : \A k \in Commits' : k <= h
    BY <2>2 DEF LatestGen
  <2> QED
    BY <1>8, <1>9, <2>1, <2>3
<1>11. Latest' = op[g].state
  BY <1>2, <1>8, <1>10 DEF Latest
<1> QED
  BY <1>5, <1>8, <1>9, <1>10, <1>11

-----------------------------------------------------------------------------
(* What stays so *)

LEMMA GenIsPositive == \A g \in Gen : g \in Nat /\ g # 0 /\ g \in 0..MaxGen
BY BoundsAreNatural DEF Gen

LEMMA OneNumber ==
  ASSUME UInv, NEW p \in Process, NEW q \in Process, proc[p].gen \in Gen,
         proc[p].gen = proc[q].gen
  PROVE  p = q
BY GenIsPositive DEF UInv, Distinct

LEMMA ProcShape ==
  ASSUME Shapes, NEW p \in Process
  PROVE  /\ proc[p] \in ProcState /\ proc[p].gen \in 0..MaxGen
         /\ proc[p].gen # 0 => proc[p].gen \in Gen
         /\ proc[p].reply \in Digest \union {None, "cached"}
         /\ proc[p].todo \subseteq Gen /\ proc[p].key \in 0..MaxGen
BY BoundsAreNatural DEF Shapes, ProcState, Gen

(* The processes one by one. *)
LEMMA ByProcess ==
  ASSUME Sound, NEW q \in Process
  PROVE  proc'[q] = proc[q] \/ GoodMove(q)
BY DEF Sound, GoodMove, MovesAlone

LEMMA SignedStays ==
  ASSUME UInv, Sound, NEW g \in Gen, Signed(g)
  PROVE  Signed(g)'
<1>1. Effect
  BY DEF Sound
<1>2. op'[g].kind # "none"
  BY <1>1, StaysCreated DEF Signed
<1>3. ASSUME NEW q \in Process, proc'[q].gen = g PROVE proc'[q].pc \notin {"create", "sign"}
  <2>1. CASE proc'[q] = proc[q]
    BY <1>3, <2>1 DEF Signed
  <2>2. CASE GoodMove(q)
    <3> SUFFICES ASSUME proc'[q].pc \in {"create", "sign"} PROVE FALSE
      OBVIOUS
    <3>1. g \in reserved
      BY DEF UInv, Fresher, Signed
    <3>2. proc[q].pc = "create" /\ proc[q].gen = g
      BY <1>3, <2>2, <3>1 DEF GoodMove, GenMove
    <3> QED
      BY <3>2 DEF Signed
  <2> QED
    BY <2>1, <2>2, ByProcess
<1> QED
  BY <1>2, <1>3 DEF Signed

LEMMA OverStays ==
  ASSUME UInv, Sound, NEW k, Over(k)
  PROVE  Over(k)'
<1>1. Effect
  BY DEF Sound
<1>2. k = Corrupt => ~corruptLive'
  BY <1>1 DEF Over, Effect
<1>3. ASSUME k \in Gen PROVE Signed(k)' /\ ~Live(k)'
  <2>1. Signed(k) /\ ~Live(k)
    BY <1>3 DEF Over
  <2>2. ~\E p \in Process : Creates(p, k) \/ Signs(p, k)
    BY <2>1 DEF Signed, Creates, Signs
  <2> QED
    BY <1>1, <1>3, <2>1, <2>2, SignedStays, LiveBefore
<1> QED
  BY <1>2, <1>3 DEF Over

(* A busy claim is not taken away. *)
LEMMA ClaimMoves ==
  ASSUME UInv, Effect, active # Absent, active' # active
  PROVE  \E p \in Process : /\ proc[p].pc = "move" /\ proc[p].key = active
                            /\ proc[p].key \notin retired /\ Over(active)
                            /\ active' = Absent /\ retired' = retired \union {active}
<1>1. PICK p \in Process : /\ proc[p].pc = "move" /\ Moves(p)
                           /\ active' = Absent /\ retired' = retired \union {proc[p].key}
  BY DEF Effect, ClaimEffect
<1>2. proc[p].key \notin retired /\ Retires(p)
  BY <1>1 DEF Moves, UInv, Sane
<1>3. active = proc[p].key /\ Over(proc[p].key)
  BY <1>1, <1>2 DEF Retires
<1> QED
  BY <1>1, <1>2, <1>3

LEMMA OverIsIdle ==
  ASSUME Over(active)
  PROVE  ~Busy
BY DEF Over, Busy

-----------------------------------------------------------------------------
(* What a process knows stays so while it does not move *)

LEMMA ReservedStay ==
  ASSUME UInv, Sound
  PROVE  Fresher'
<1> SUFFICES ASSUME NEW g \in Gen \ reserved' PROVE op'[g].kind = "none"
  BY DEF Fresher
<1>1. g \notin reserved /\ OpEffect(g)
  BY DEF Sound, Effect
<1>2. op[g].kind = "none"
  BY <1>1 DEF UInv, Fresher
<1>3. ~\E p \in Process : Creates(p, g)
  <2> SUFFICES ASSUME NEW p \in Process, Creates(p, g) PROVE FALSE
    OBVIOUS
  <2>1. g \in reserved
    BY GenIsPositive DEF UInv, Sane, Numbered, Creates
  <2> QED
    BY <1>1, <2>1
<1> QED
  BY <1>1, <1>2, <1>3 DEF OpEffect, Ages, Closes, Signs, Stages, Publishes, Pending

LEMMA OthersStayNumbered ==
  ASSUME UInv, Sound, NEW q \in Process, proc'[q] = proc[q]
  PROVE  Numbered(q)'
<1>1. Numbered(q) /\ Effect /\ Shapes
  BY DEF UInv, Sane, Sound
<1> DEFINE g == proc[q].gen
<1>2. reserved \subseteq reserved'
  BY <1>1 DEF Effect
<1>3. ASSUME proc[q].pc = "create" PROVE op'[g].kind = "none"
  <2>1. g \in Gen /\ op[g].kind = "none"
    BY <1>1, <1>3, ProcShape DEF Numbered
  <2>2. OpEffect(g)
    BY <1>1, <2>1 DEF Effect
  <2>3. ~\E p \in Process : Creates(p, g)
    <3> SUFFICES ASSUME NEW p \in Process, Creates(p, g) PROVE FALSE
      OBVIOUS
    <3>1. p = q
      BY <2>1, OneNumber DEF Creates
    <3> QED
      BY <1>3, <3>1 DEF Creates
  <2> QED
    BY <2>1, <2>2, <2>3
    DEF OpEffect, Ages, Closes, Signs, Stages, Publishes, Pending
<1>4. ASSUME proc[q].pc \in {"sign", "climb"} \union Climbed PROVE op'[g].kind # "none"
  <2>1. g \in Gen /\ op[g].kind # "none"
    BY <1>1, <1>4, ProcShape DEF Numbered
  <2> QED
    BY <1>1, <2>1, StaysCreated
<1> QED
  BY <1>1, <1>2, <1>3, <1>4 DEF Numbered

(* The claim of a process is as fast as its lease. *)
LEMMA HasClaimStays ==
  ASSUME UInv, Effect, NEW q \in Process, proc'[q].gen = proc[q].gen,
         proc'[q].pc \in {"confirm"} \union Owning =>
           \/ proc[q].pc \in {"confirm"} \union Owning
           \/ proc[q].pc \in Climbed /\ active' = proc[q].gen
  PROVE  HasClaim(q)'
<1> SUFFICES ASSUME proc'[q].pc \in {"confirm"} \union Owning, Live(proc[q].gen)',
                    active' # proc[q].gen
             PROVE  FALSE
  BY DEF HasClaim
<1> DEFINE g == proc[q].gen
<1>1. proc[q].pc \in {"confirm"} \union Owning /\ proc[q].pc \in Climbed
      /\ HasClaim(q) /\ Numbered(q) /\ Shapes
  BY DEF UInv, Sane, Climbed
<1>2. g \in Gen
  BY <1>1, ProcShape DEF Numbered
<1>3. ~\E p \in Process : Creates(p, g) \/ Signs(p, g)
  <2> SUFFICES ASSUME NEW p \in Process, Creates(p, g) \/ Signs(p, g) PROVE FALSE
    OBVIOUS
  <2>1. p = q
    BY <1>2, OneNumber DEF Creates, Signs
  <2> QED
    BY <1>1, <2>1 DEF Creates, Signs, Climbed, Owning
<1>4. Live(g)
  BY <1>2, <1>3, LiveBefore
<1>5. active = g /\ active # Absent
  BY <1>1, <1>2, <1>4, GenIsPositive DEF HasClaim, Absent
<1>6. Over(g)
  BY <1>5, ClaimMoves
<1> QED
  BY <1>2, <1>4, <1>6 DEF Over

LEMMA OthersStayRetiring ==
  ASSUME UInv, Sound, NEW q \in Process, proc'[q] = proc[q]
  PROVE  Retires(q)'
<1>1. Retires(q) /\ Effect /\ Shapes
  BY DEF UInv, Sane, Sound
<1> DEFINE k == proc[q].key
<1>2. ASSUME proc[q].pc \in {"retire", "move"} PROVE Over(k)'
  BY <1>1, <1>2, OverStays DEF Retires
<1>3. ASSUME proc[q].pc = "move", k \notin retired' PROVE active' = k
  <2>1. k \notin retired
    BY <1>1, <1>3 DEF Effect, ClaimEffect
  <2>2. active = k /\ k \in 0..MaxGen
    BY <1>1, <1>3, <2>1, ProcShape DEF Retires
  <2>3. active # Absent
    BY <2>2, BoundsAreNatural DEF Absent
  <2>4. active' # active => k \in retired'
    BY <1>1, <2>2, <2>3, ClaimMoves
  <2> QED
    BY <1>3, <2>2, <2>4
<1> QED
  BY <1>2, <1>3 DEF Retires

(* What is known stays known. *)
LEMMA KnownStays ==
  ASSUME UInv, Effect
  PROVE  Known \subseteq Known' /\ Latest.acked \subseteq Latest'.acked
<1>1. CASE ~\E p \in Process : \E g \in Gen : Publishes(p, g)
  BY <1>1, LatestStays DEF Known
<1>2. ASSUME NEW p \in Process, NEW g \in Gen, Publishes(p, g)
      PROVE  Known \subseteq Known' /\ Latest.acked \subseteq Latest'.acked
  <2>1. Latest' = op[g].state
    BY <1>2, LatestMovesOn
  <2>2. Latest.acked \subseteq op[g].state.acked
        /\ Known \subseteq op[g].state.offered \union op[g].state.acked
    BY <1>2, PublishedLast
  <2> QED
    BY <2>1, <2>2 DEF Known
<1> QED
  BY <1>1, <1>2

LEMMA OthersStayStaged ==
  ASSUME UInv, Sound, NEW q \in Process, proc'[q] = proc[q]
  PROVE  Staged(q)'
<1>1. Staged(q) /\ Effect /\ Numbered(q) /\ Shapes
  BY DEF UInv, Sane, Sound
<1> DEFINE g == proc[q].gen
<1> SUFFICES ASSUME proc[q].pc = "publish", Pending(g)' PROVE Staged(q)'
  BY DEF Staged
<1>2. g \in Gen /\ proc[q].pc \in Climbed
  BY <1>1, ProcShape DEF Numbered, Climbed, Owning
<1>3. ASSUME NEW p \in Process, Creates(p, g) \/ Signs(p, g) \/ Stages(p, g)
      PROVE  FALSE
  <2>1. p = q
    BY <1>2, <1>3, OneNumber DEF Creates, Signs, Stages
  <2> QED
    BY <1>3, <2>1 DEF Creates, Signs, Stages
<1>4. Pending(g)
  BY <1>1, <1>2, <1>3, PendingBefore
<1>5. OpEffect(g)
  BY <1>1, <1>2 DEF Effect
<1>6. op'[g].state = op[g].state
  BY <1>3, <1>5 DEF OpEffect, Ages, Closes, Publishes, Pending
<1>7. ASSUME NEW p \in Process, NEW h \in Gen, Publishes(p, h) PROVE FALSE
  <2>1. proc[p].pc = "publish" /\ proc[p].gen = h /\ Pending(h) /\ op'[h].kind = "committed"
    BY <1>7 DEF Publishes
  <2>2. Fenced(p, q) /\ Fenced(q, p)
    BY DEF UInv
  <2>3. ~(g < h) /\ ~(h < g)
    BY <1>2, <1>4, <2>1, <2>2 DEF Fenced, Climbed, Owning
  <2>4. g = h
    BY <1>2, <2>3 DEF Gen
  <2> QED
    BY <2>1, <2>4 DEF Pending
<1>8. LatestGen' = LatestGen /\ Latest' = Latest
  BY <1>1, <1>7, LatestStays
<1>9. Known' = Known
  BY <1>8 DEF Known
<1>10. Readable(op'[g].state) <=> Readable(op[g].state)
  BY <1>6
<1> QED
  BY <1>1, <1>4, <1>6, <1>8, <1>9, <1>10 DEF Staged

LEMMA OthersStaySane ==
  ASSUME UInv, Sound, NEW q \in Process, proc'[q] = proc[q]
  PROVE  Sane(q)'
<1>1. Effect
  BY DEF Sound
<1>2. Remembers(q)'
  BY <1>1 DEF UInv, Sane, Remembers, Effect
<1>3. HasClaim(q)'
  BY <1>1, HasClaimStays
<1>4. Replies(q)'
  BY <1>1, KnownStays DEF UInv, Sane, Replies
<1> QED
  BY <1>2, <1>3, <1>4, OthersStayNumbered, OthersStayRetiring, OthersStayStaged DEF Sane

-----------------------------------------------------------------------------
(* The invariant stays *)

(* Behind "climb" nothing becomes pending again. *)
LEMMA ClimbedBefore ==
  ASSUME UInv, Sound, NEW q \in Process, proc'[q].pc \in Climbed,
         op'[proc'[q].gen].kind = "pending"
  PROVE  /\ proc'[q].gen = proc[q].gen /\ proc[q].gen \in Gen
         /\ Pending(proc[q].gen)
         /\ proc[q].pc \in Climbed \/ (proc[q].pc = "climb" /\ ~Superseded(q))
<1>1. /\ proc'[q].gen = proc[q].gen
      /\ proc[q].pc \in Climbed \/ (proc[q].pc = "climb" /\ ~Superseded(q))
  BY ByProcess DEF GoodMove, PathMove
<1>2. proc[q].gen \in Gen
  BY <1>1, ProcShape DEF UInv, Sane, Numbered
<1>3. ASSUME NEW p \in Process, Creates(p, proc[q].gen) PROVE FALSE
  <2>1. p = q
    BY <1>2, <1>3, OneNumber DEF Creates
  <2> QED
    BY <1>1, <1>3, <2>1 DEF Creates, Climbed, Owning
<1>4. Pending(proc[q].gen)'
  BY <1>1 DEF Pending
<1> QED
  BY <1>1, <1>2, <1>3, <1>4, PendingBefore DEF Sound

LEMMA FencedStays ==
  ASSUME UInv, Sound, NEW p \in Process, NEW q \in Process
  PROVE  Fenced(p, q)'
<1> SUFFICES ASSUME proc'[q].pc \in Climbed, op'[proc'[q].gen].kind = "pending",
                    proc'[q].gen < proc'[p].gen,
                    proc'[p].pc \in {"fence", "reclaim", "stage", "publish"}
             PROVE  proc'[p].pc = "fence" /\ proc'[q].gen \in proc'[p].todo
  BY DEF Fenced, Pending
<1> DEFINE g == proc[q].gen
<1>1. /\ proc'[q].gen = g /\ g \in Gen /\ Pending(g)
      /\ proc[q].pc \in Climbed \/ (proc[q].pc = "climb" /\ ~Superseded(q))
  BY ClimbedBefore
<1>2. /\ proc'[p].gen = proc[p].gen /\ proc[p].pc \in Climbed
      /\ \/ proc'[p] = proc[p]
         \/ /\ proc[p].pc = "list" /\ proc'[p].pc = "fence"
            /\ proc'[p].todo = Lower(p)
         \/ /\ proc[p].pc = "fence" /\ proc'[p].pc = "fence"
            /\ \E h \in Gen : proc'[p].todo = proc[p].todo \ {h} /\ ~Pending(h)'
         \/ /\ proc[p].pc = "fence" /\ proc[p].todo = {}
            /\ proc'[p].pc = "reclaim"
         \/ /\ proc[p].pc \in {"reclaim", "stage"}
            /\ proc'[p].pc \in {"stage", "publish"}
  BY ByProcess DEF GoodMove, PathMove, Climbed, Owning
<1>3. g < proc[p].gen /\ proc[p].gen \in reserved
  BY <1>1, <1>2, ProcShape, GenIsPositive DEF UInv, Sane, Numbered
<1>4. proc[q].pc \in Climbed
  <2>1. Superseded(q)
    BY <1>3 DEF Superseded, UInv, Shapes, Gen
  <2> QED
    BY <1>1, <2>1
<1>5. /\ proc[p].pc \notin {"reclaim", "stage", "publish"}
      /\ proc[p].pc = "fence" => g \in proc[p].todo
  BY <1>1, <1>3, <1>4 DEF UInv, Fenced
<1>6. CASE proc'[p] = proc[p]
  BY <1>1, <1>5, <1>6
<1>7. CASE proc[p].pc = "list" /\ proc'[p].pc = "fence" /\ proc'[p].todo = Lower(p)
  BY <1>1, <1>3, <1>7 DEF Lower
<1>8. CASE /\ proc[p].pc = "fence" /\ proc'[p].pc = "fence"
           /\ \E h \in Gen : proc'[p].todo = proc[p].todo \ {h} /\ ~Pending(h)'
  BY <1>1, <1>5, <1>8 DEF Pending
<1>9. CASE proc[p].pc = "fence" /\ proc[p].todo = {} /\ proc'[p].pc = "reclaim"
  BY <1>5, <1>9
<1> QED
  BY <1>2, <1>5, <1>6, <1>7, <1>8, <1>9

LEMMA OvertakenStays ==
  ASSUME UInv, Sound, NEW q \in Process
  PROVE  Overtaken(q)'
<1> SUFFICES ASSUME NEW h \in Gen, op'[h].kind = "committed", proc'[q].pc \in Climbed,
                    proc'[q].gen < h, op'[proc'[q].gen].kind = "pending"
             PROVE  FALSE
  BY DEF Overtaken, Pending
<1> DEFINE g == proc[q].gen
<1>1. /\ proc'[q].gen = g /\ g \in Gen /\ Pending(g)
      /\ proc[q].pc \in Climbed \/ (proc[q].pc = "climb" /\ ~Superseded(q))
  BY ClimbedBefore
<1>2. h \in reserved
  <2>1. op[h].kind # "none"
    BY CommittedBefore DEF Sound, Publishes, Pending
  <2> QED
    BY <2>1 DEF UInv, Fresher
<1>3. proc[q].pc \in Climbed
  BY <1>1, <1>2 DEF Superseded, Gen
<1>4. CASE op[h].kind = "committed"
  BY <1>1, <1>3, <1>4 DEF UInv, Overtaken
<1>5. ASSUME NEW p \in Process, Publishes(p, h) PROVE FALSE
  <2>1. proc[p].pc = "publish" /\ proc[p].gen = h
    BY <1>5 DEF Publishes
  <2> QED
    BY <1>1, <1>3, <2>1 DEF UInv, Fenced
<1> QED
  BY <1>4, <1>5, CommittedBefore DEF Sound

LEMMA DistinctStays ==
  ASSUME UInv, Sound
  PROVE  Distinct'
<1> SUFFICES ASSUME NEW p \in Process, NEW q \in Process, p # q, proc'[p].gen # 0,
                    proc'[p].gen = proc'[q].gen
             PROVE  FALSE
  BY DEF Distinct
<1>1. \A r \in Process : \/ proc'[r].gen = proc[r].gen
                         \/ proc'[r].gen = 0
                         \/ proc'[r].gen \in Gen \ reserved
  BY ByProcess DEF GoodMove, GenMove
<1>2. proc'[p] = proc[p] \/ proc'[q] = proc[q]
  BY DEF Sound, GoodMove, MovesAlone
<1>3. /\ proc[p].gen # 0 => proc[p].gen # proc[q].gen
      /\ proc[p].gen # 0 => proc[p].gen \in reserved
      /\ proc[q].gen # 0 => proc[q].gen \in reserved
  BY DEF UInv, Distinct, Sane, Numbered
<1> QED
  BY <1>1, <1>2, <1>3

LEMMA ClaimStaysSigned ==
  ASSUME UInv, Sound
  PROVE  ClaimIsSigned'
<1> SUFFICES ASSUME NEW g \in Gen, active' = g PROVE Signed(g)'
  BY DEF ClaimIsSigned, Signed
<1>1. CASE active' = active
  BY <1>1, SignedStays DEF UInv, ClaimIsSigned
<1>2. CASE active' # active
  <2>1. g # Absent
    BY GenIsPositive DEF Absent
  <2>2. PICK p \in Process : proc[p].pc = "promote" /\ active' = proc[p].gen
    BY <1>2, <2>1 DEF Sound, Effect, ClaimEffect
  <2>3. proc[p].pc \in Climbed /\ Numbered(p)
    BY <2>2 DEF UInv, Sane, Climbed
  <2>4. Signed(g)
    <3>1. op[g].kind # "none"
      BY <2>2, <2>3 DEF Numbered
    <3>2. ASSUME NEW r \in Process, proc[r].gen = g
          PROVE  proc[r].pc \notin {"create", "sign"}
      <4>1. r = p
        BY <2>2, <3>2, OneNumber
      <4> QED
        BY <2>2, <4>1
    <3> QED
      BY <3>1, <3>2 DEF Signed
  <2> QED
    BY <2>4, SignedStays
<1> QED
  BY <1>1, <1>2

LEMMA CacheStays ==
  ASSUME UInv, Effect
  PROVE  HasLatest' /\ CommitsAreReadable' /\ OffersAcknowledgeable' /\ AcksAreDurable'
<1>1. Known \subseteq Known' /\ Latest.acked \subseteq Latest'.acked
  BY KnownStays
<1>2. notified \subseteq Known /\ acknowledged \subseteq Latest.acked
  BY DEF UInv, OffersAcknowledgeable, AcksAreDurable, Known
<1>3. CASE ~\E p \in Process : \E g \in Gen : Publishes(p, g)
  <2>1. HasLatest' /\ CommitsAreReadable'
    BY <1>3, LatestStays DEF UInv, HasLatest
  <2>2. notified' \subseteq Known /\ acknowledged' \subseteq acknowledged
    BY <1>2, <1>3 DEF Effect, TellEffect, AckEffect
  <2> QED
    BY <1>1, <1>2, <2>1, <2>2 DEF OffersAcknowledgeable, AcksAreDurable, Known
<1>4. ASSUME NEW p \in Process, NEW g \in Gen, Publishes(p, g)
      PROVE  HasLatest' /\ CommitsAreReadable' /\ OffersAcknowledgeable' /\ AcksAreDurable'
  <2>1. /\ g \in Commits' /\ (\A h \in Commits' : h <= g)
        /\ Latest' = op[g].state /\ CommitsAreReadable'
    BY <1>4, LatestMovesOn
  <2>2. HasLatest'
    BY <2>1 DEF HasLatest
  <2>3. \A r \in Process : \A h \in Gen : Publishes(r, h) => h = g
    BY <1>4, OnePublisher
  <2>4. \A d \in notified' \ notified : d \in Known \/ d \in Latest'.offered
    BY <2>1, <2>3 DEF Effect, TellEffect
  <2>5. \A d \in acknowledged' \ acknowledged : d \in Latest'.acked
    BY <2>1, <2>3 DEF Effect, AckEffect
  <2> QED
    BY <1>1, <1>2, <2>1, <2>2, <2>4, <2>5 DEF OffersAcknowledgeable, AcksAreDurable, Known
<1> QED
  BY <1>3, <1>4

LEMMA InvariantStays ==
  ASSUME UInv, Sound
  PROVE  UInv'
<1>1. Effect /\ Shapes'
  BY DEF Sound, Effect
<1>2. ASSUME NEW q \in Process PROVE Sane(q)'
  BY ByProcess, OthersStaySane DEF GoodMove
<1>3. HasLatest' /\ CommitsAreReadable' /\ OffersAcknowledgeable' /\ AcksAreDurable'
  BY <1>1, CacheStays
<1> QED
  BY <1>1, <1>2, <1>3, OvertakenStays, FencedStays, DistinctStays, ReservedStay,
     ClaimStaysSigned DEF UInv

-----------------------------------------------------------------------------
(* Rows *)

Place == {"idle", "cancel", "denied"} \union Acquiring \union Owning

LEMMA RowMoves ==
  ASSUME Shapes, NEW p \in Process, NEW row \in ProcState, Become(p, row)
  PROVE  proc' \in [Process -> ProcState] /\ proc'[p] = row /\ MovesAlone(p)
BY DEF Shapes, Become, MovesAlone

(* The memory of the call, but for where it is. *)
SameCall(p) ==
  /\ proc'[p].job = proc[p].job /\ proc'[p].arg = proc[p].arg
  /\ proc'[p].now = proc[p].now /\ proc'[p].seen = proc[p].seen
  /\ proc'[p].gen = proc[p].gen /\ proc'[p].key = proc[p].key
  /\ proc'[p].todo = proc[p].todo /\ proc'[p].base = proc[p].base
  /\ proc'[p].reply = proc[p].reply

LEMMA GotoMoves ==
  ASSUME Shapes, NEW p \in Process, NEW pc \in Place, Goto(p, pc)
  PROVE  /\ proc' \in [Process -> ProcState] /\ MovesAlone(p)
         /\ proc'[p].pc = pc /\ SameCall(p)
<1>1. PICK old \in ProcState : old = proc[p]
  BY DEF Shapes
<1> DEFINE row == [proc[p] EXCEPT !.pc = pc]
<1>2. /\ row \in ProcState /\ row.pc = pc
      /\ row.job = proc[p].job /\ row.arg = proc[p].arg
      /\ row.now = proc[p].now /\ row.seen = proc[p].seen
      /\ row.gen = proc[p].gen /\ row.key = proc[p].key
      /\ row.todo = proc[p].todo /\ row.base = proc[p].base
      /\ row.reply = proc[p].reply
  BY <1>1 DEF ProcState, Place
<1>3. Become(p, row)
  BY DEF Goto, Become, Shapes
<1> HIDE DEF row
<1> QED
  BY <1>2, <1>3, RowMoves DEF SameCall

LEMMA IdleRow ==
  /\ Idle \in ProcState /\ Idle.pc = "idle" /\ Idle.gen = 0 /\ Idle.now = 0
  /\ Idle.seen = {}
BY BoundsAreNatural DEF Idle, ProcState

LEMMA RenameMoves ==
  ASSUME Shapes, NEW g \in Gen, NEW kind \in Kind, Rename(g, kind)
  PROVE  /\ op' \in [Gen -> Operation] /\ op'[g].kind = kind
         /\ kind = "committed" => op'[g].state = op[g].state
         /\ \A h \in Gen \ {g} : op'[h] = op[h]
<1> DEFINE s == IF kind = "committed" THEN op[g].state ELSE EmptyState
           row == [NoOperation EXCEPT !.kind = kind, !.state = s]
<1>1. s \in State
  BY OperationShape, BoundsAreNatural DEF EmptyState, State
<1>2. op' = [op EXCEPT ![g] = row]
  BY DEF Rename, NoOperation
<1>3. kind = "committed" => s = op[g].state
  OBVIOUS
<1> HIDE DEF s
<1>4. row \in Operation /\ row.kind = kind /\ row.state = s
  BY <1>1 DEF NoOperation, Operation
<1> HIDE DEF row
<1> QED
  BY <1>2, <1>3, <1>4 DEF Shapes

-----------------------------------------------------------------------------
(* Steps that others do not see *)

Unseen == UNCHANGED <<op, reserved, claims, clock, history, aborts>>

LEMMA UnseenEffect ==
  ASSUME UInv, proc' \in [Process -> ProcState], Unseen
  PROVE  Effect /\ Latest' = Latest /\ Known' = Known /\ LatestGen' = LatestGen
<1>1. Shapes'
  BY DEF UInv, Shapes, Unseen, claims, history
<1>2. Effect
  BY <1>1 DEF Effect, OpEffect, ClaimEffect, TellEffect, AckEffect, Unseen, claims, history
<1>3. Latest' = Latest /\ LatestGen' = LatestGen
  BY DEF Unseen, Latest, LatestGen, Commits
<1> QED
  BY <1>2, <1>3 DEF Known

(* A process at rest or on its way to a generation. *)
LEMMA FreshIsSane ==
  ASSUME NEW p \in Process, proc'[p].pc \in {"idle", "look", "denied", "reserve"},
         proc'[p].gen # 0 => proc'[p].gen \in reserved',
         proc'[p].now <= MaxClock, proc'[p].seen \subseteq acknowledged'
  PROVE  PathMove(p) /\ Sane(p)'
BY DEF Sane, Numbered, Remembers, Retires, HasClaim, Replies, Staged, PathMove,
       Climbed, Owning

(* A process that goes on with its generation. *)
LEMMA OnwardIsSane ==
  ASSUME UInv, NEW p \in Process, Effect,
         proc[p].pc \in {"climb"} \union Climbed,
         proc'[p].pc \in {"climb"} \union Climbed,
         proc'[p].gen = proc[p].gen, proc'[p].now = proc[p].now,
         proc'[p].seen = proc[p].seen,
         proc'[p].pc \in {"confirm"} \union Owning =>
           \/ proc[p].pc \in {"confirm"} \union Owning
           \/ proc[p].pc \in Climbed /\ active' = proc[p].gen,
         Retires(p)', Staged(p)'
  PROVE  GenMove(p) /\ Sane(p)'
<1>1. Numbered(p) /\ Remembers(p) /\ Shapes
  BY DEF UInv, Sane
<1>2. proc[p].gen \in Gen /\ op[proc[p].gen].kind # "none" /\ proc[p].gen \in reserved
  BY <1>1, ProcShape DEF Numbered
<1>3. op'[proc[p].gen].kind # "none"
  BY <1>2, StaysCreated
<1>4. Numbered(p)'
  BY <1>2, <1>3, GenIsPositive DEF Numbered, Effect, Climbed, Owning
<1>5. Remembers(p)'
  BY <1>1 DEF Remembers, Effect
<1>6. HasClaim(p)'
  BY HasClaimStays
<1>7. Replies(p)'
  BY DEF Replies, Climbed, Owning
<1> QED
  BY <1>4, <1>5, <1>6, <1>7 DEF Sane, GenMove, Climbed, Owning

LEMMA UnseenOnward ==
  ASSUME UInv, NEW p \in Process, proc' \in [Process -> ProcState], Unseen,
         MovesAlone(p), PathMove(p),
         proc[p].pc \in {"climb"} \union Climbed,
         proc'[p].pc \in {"climb"} \union (Climbed \ {"publish"}),
         proc'[p].gen = proc[p].gen, proc'[p].now = proc[p].now,
         proc'[p].seen = proc[p].seen,
         proc'[p].pc \in {"confirm"} \union Owning =>
           proc[p].pc \in {"confirm"} \union Owning,
         Retires(p)'
  PROVE  Sound
<1>1. Effect
  BY UnseenEffect
<1>2. Staged(p)'
  BY DEF Staged, Climbed, Owning
<1>3. GenMove(p) /\ Sane(p)'
  BY <1>1, <1>2, OnwardIsSane
<1> QED
  BY <1>1, <1>3 DEF Sound, GoodMove

(* A process that gives its operation up. *)
LEMMA WithdrawIsSound ==
  ASSUME UInv, NEW p \in Process, proc[p].pc \in {"climb"} \union Climbed,
         NEW reply \in Digest \union {None, "cached"}, Withdraw(p, reply), Unseen,
         reply \notin {"cached", None} => reply \in Known /\ reply \notin proc[p].seen
  PROVE  Sound
<1>1. Shapes /\ Numbered(p) /\ Remembers(p) /\ proc[p] \in ProcState
  BY DEF UInv, Sane, Shapes
<1> DEFINE arg == IF proc[p].job = "ack" THEN proc[p].arg ELSE None
           row == [Idle EXCEPT !.pc = "cancel", !.reply = reply, !.job = proc[p].job,
                               !.gen = proc[p].gen, !.seen = proc[p].seen, !.arg = arg]
<1>2. arg \in Digest \union {None, "failed"}
  BY <1>1 DEF ProcState
<1>3. Become(p, row)
  BY DEF Withdraw
<1> HIDE DEF arg
<1>4. /\ row \in ProcState /\ row.pc = "cancel" /\ row.reply = reply
      /\ row.gen = proc[p].gen /\ row.seen = proc[p].seen /\ row.now = 0
  BY <1>1, <1>2, IdleRow, ZenonT(60) DEF Idle, ProcState
<1> HIDE DEF row
<1>5. proc' \in [Process -> ProcState] /\ proc'[p] = row /\ MovesAlone(p)
  BY <1>1, <1>3, <1>4, RowMoves
<1>6. Effect /\ Known' = Known
  BY <1>5, UnseenEffect
<1>7. proc[p].gen # 0 /\ proc[p].gen \in reserved
  BY <1>1 DEF Numbered
<1>8. Numbered(p)'
  BY <1>4, <1>5, <1>6, <1>7 DEF Numbered, Climbed, Owning, Effect
<1>9. Remembers(p)'
  BY <1>1, <1>4, <1>5, <1>6, BoundsAreNatural DEF Remembers, Effect
<1>10. Replies(p)'
  BY <1>4, <1>5, <1>6 DEF Replies
<1>11. Retires(p)' /\ HasClaim(p)' /\ Staged(p)'
  BY <1>4, <1>5 DEF Retires, HasClaim, Staged, Owning
<1>12. GenMove(p) /\ PathMove(p)
  BY <1>4, <1>5 DEF GenMove, PathMove, Climbed, Owning
<1> QED
  BY <1>5, <1>6, <1>8, <1>9, <1>10, <1>11, <1>12 DEF Sound, GoodMove, Sane

LEMMA LostIsSound ==
  ASSUME UInv, NEW p \in Process, proc[p].pc \in Climbed, Lost(p), Unseen
  PROVE  Sound
<1> DEFINE reply == IF proc[p].job = "check" THEN None ELSE "cached"
<1>1. Withdraw(p, reply) /\ reply \in {None, "cached"}
  BY DEF Lost
<1> HIDE DEF reply
<1> QED
  BY <1>1, WithdrawIsSound

-----------------------------------------------------------------------------
(* acquireOperation *)

LEMMA LookIsSound ==
  ASSUME UInv, NEW p \in Process, Look(p)
  PROVE  Sound
<1>1. Shapes /\ Numbered(p) /\ Remembers(p) /\ proc[p].pc = "look"
  BY DEF UInv, Sane, Look, At
<1>2. PICK pc \in {"denied", "reserve"} : Goto(p, pc)
  BY DEF Look
<1>3. /\ proc' \in [Process -> ProcState] /\ MovesAlone(p)
      /\ proc'[p].pc = pc /\ SameCall(p)
  BY <1>1, <1>2, GotoMoves DEF Place, Acquiring
<1>4. Unseen
  BY DEF Look, Unseen
<1>5. Effect
  BY <1>3, <1>4, UnseenEffect
<1>6. PathMove(p) /\ Sane(p)'
  BY <1>1, <1>3, <1>5, FreshIsSane DEF SameCall, Numbered, Remembers, Effect
<1>7. GenMove(p)
  BY <1>3 DEF GenMove, SameCall
<1> QED
  BY <1>3, <1>5, <1>6, <1>7 DEF Sound, GoodMove

LEMMA ReserveIsSound ==
  ASSUME UInv, NEW p \in Process, Reserve(p)
  PROVE  Sound
<1>1. Shapes /\ Remembers(p) /\ proc[p] \in ProcState
  BY DEF UInv, Sane, Shapes
<1>2. PICK g \in Free : /\ reserved' = reserved \union {g}
                        /\ Become(p, [proc[p] EXCEPT !.pc = "create", !.gen = g])
  BY DEF Reserve
<1>3. g \in Gen \ reserved
  BY <1>2 DEF Free
<1> DEFINE row == [proc[p] EXCEPT !.pc = "create", !.gen = g]
<1>4. /\ row \in ProcState /\ row.pc = "create" /\ row.gen = g
      /\ row.now = proc[p].now /\ row.seen = proc[p].seen
  BY <1>1, <1>3, GenIsPositive DEF ProcState, Acquiring
<1>5. Become(p, row)
  BY <1>2
<1> HIDE DEF row
<1>6. proc' \in [Process -> ProcState] /\ proc'[p] = row /\ MovesAlone(p)
  BY <1>1, <1>4, <1>5, RowMoves
<1>7. Shapes'
  BY <1>1, <1>2, <1>3, <1>6 DEF Shapes, Reserve, claims, history
<1>8. Effect
  BY <1>2, <1>7
  DEF Effect, OpEffect, ClaimEffect, TellEffect, AckEffect, Reserve, claims, history
<1>9. op[g].kind = "none" /\ g # 0
  BY <1>3, GenIsPositive DEF UInv, Fresher
<1>10. Numbered(p)'
  BY <1>2, <1>4, <1>6, <1>9 DEF Numbered, Reserve, Climbed, Owning
<1>11. Remembers(p)'
  BY <1>1, <1>4, <1>6, <1>8 DEF Remembers, Effect
<1>12. Retires(p)' /\ HasClaim(p)' /\ Staged(p)' /\ Replies(p)'
  BY <1>4, <1>6 DEF Retires, HasClaim, Staged, Owning, Replies
<1>13. GenMove(p) /\ PathMove(p)
  BY <1>3, <1>4, <1>6 DEF GenMove, PathMove, Climbed, Owning
<1> QED
  BY <1>6, <1>8, <1>10, <1>11, <1>12, <1>13 DEF Sound, GoodMove, Sane

LEMMA CreateIsSound ==
  ASSUME UInv, NEW p \in Process, Create(p)
  PROVE  Sound
<1>1. Shapes /\ Remembers(p) /\ Numbered(p) /\ proc[p].pc = "create"
  BY DEF UInv, Sane, Create, At
<1> DEFINE g == proc[p].gen
           row == [NoOperation EXCEPT !.kind = "pending", !.live = TRUE]
<1>2. g \in Gen /\ g \in reserved
  BY <1>1, ProcShape DEF Numbered
<1>3. row \in Operation /\ row.kind = "pending"
  <2>1. EmptyState \in State
    BY BoundsAreNatural DEF EmptyState, State
  <2>2. PICK old \in Operation : old = NoOperation
    BY <2>1 DEF NoOperation, Operation, Kind
  <2>3. row = [old EXCEPT !.kind = "pending", !.live = TRUE]
    BY <2>2
  <2> HIDE DEF row
  <2> QED
    BY <2>3 DEF Operation, Kind
<1>4. op' = [op EXCEPT ![g] = row]
  BY DEF Create
<1> HIDE DEF row
<1>5. /\ op' \in [Gen -> Operation] /\ op'[g].kind = "pending"
      /\ \A h \in Gen \ {g} : op'[h] = op[h]
  BY <1>1, <1>2, <1>3, <1>4 DEF Shapes
<1>6. /\ proc' \in [Process -> ProcState] /\ MovesAlone(p)
      /\ proc'[p].pc = "sign" /\ SameCall(p)
  BY <1>1, GotoMoves DEF Create, Place, Acquiring
<1>7. Shapes'
  BY <1>1, <1>5, <1>6 DEF Shapes, Create, claims, history
<1>8. Creates(p, g)
  BY <1>1, <1>5, <1>6 DEF Creates
<1>9. Effect
  BY <1>5, <1>7, <1>8
  DEF Effect, OpEffect, ClaimEffect, TellEffect, AckEffect, Create, claims, history
<1>10. Numbered(p)'
  BY <1>1, <1>2, <1>5, <1>6 DEF Numbered, Create, SameCall, Climbed, Owning
<1>11. Remembers(p)'
  BY <1>1, <1>6, <1>9 DEF Remembers, Effect, SameCall
<1>12. Retires(p)' /\ HasClaim(p)' /\ Staged(p)' /\ Replies(p)'
  BY <1>6 DEF Retires, HasClaim, Staged, Owning, Replies
<1>13. GenMove(p) /\ PathMove(p)
  BY <1>1, <1>6 DEF GenMove, PathMove, Climbed, Owning, SameCall
<1> QED
  BY <1>6, <1>9, <1>10, <1>11, <1>12, <1>13 DEF Sound, GoodMove, Sane

LEMMA SignIsSound ==
  ASSUME UInv, NEW p \in Process, Sign(p)
  PROVE  Sound
<1>1. Shapes /\ Remembers(p) /\ Numbered(p) /\ proc[p].pc = "sign"
  BY DEF UInv, Sane, Sign, At
<1> DEFINE g == proc[p].gen
<1>2. g \in Gen /\ g \in reserved
  BY <1>1, ProcShape DEF Numbered
<1>3. CASE Pending(g)
  <2>1. PICK old \in Operation : old = op[g]
    BY <1>1, <1>2 DEF Shapes
  <2> DEFINE row == [op[g] EXCEPT !.live = TRUE]
  <2>2. row \in Operation /\ row.kind = "pending"
    BY <1>3, <2>1 DEF Operation, Pending
  <2>3. op' = [op EXCEPT ![g] = row]
    BY <1>1, <1>2, <1>3 DEF Sign, Shapes
  <2> HIDE DEF row
  <2>4. /\ op' \in [Gen -> Operation] /\ op'[g].kind = "pending"
        /\ \A h \in Gen \ {g} : op'[h] = op[h]
    BY <1>1, <1>2, <2>2, <2>3 DEF Shapes
  <2>5. /\ proc' \in [Process -> ProcState] /\ MovesAlone(p)
        /\ proc'[p].pc = "climb" /\ SameCall(p)
    BY <1>1, <1>3, GotoMoves DEF Sign, Place, Acquiring
  <2>6. Shapes'
    BY <1>1, <2>4, <2>5 DEF Shapes, Sign, claims, history
  <2>7. Signs(p, g)
    BY <1>1, <1>3, <2>4 DEF Signs
  <2>8. Effect
    BY <2>4, <2>6, <2>7
    DEF Effect, OpEffect, ClaimEffect, TellEffect, AckEffect, Sign, claims, history
  <2>9. Numbered(p)'
    BY <1>1, <1>2, <2>4, <2>5 DEF Numbered, Sign, SameCall, Climbed, Owning
  <2>10. Remembers(p)'
    BY <1>1, <2>5, <2>8 DEF Remembers, Effect, SameCall
  <2>11. Retires(p)' /\ HasClaim(p)' /\ Staged(p)' /\ Replies(p)'
    BY <2>5 DEF Retires, HasClaim, Staged, Owning, Replies
  <2>12. GenMove(p) /\ PathMove(p)
    BY <2>5 DEF GenMove, PathMove, Climbed, Owning, SameCall
  <2> QED
    BY <2>5, <2>8, <2>9, <2>10, <2>11, <2>12 DEF Sound, GoodMove, Sane
<1>4. CASE ~Pending(g)
  <2>1. /\ proc' \in [Process -> ProcState] /\ MovesAlone(p)
        /\ proc'[p].pc = "denied" /\ SameCall(p)
    BY <1>1, <1>4, GotoMoves DEF Sign, Place
  <2>2. Unseen
    BY <1>4 DEF Sign, Unseen
  <2>3. Effect
    BY <2>1, <2>2, UnseenEffect
  <2>4. PathMove(p) /\ Sane(p)'
    BY <1>1, <2>1, <2>3, FreshIsSane DEF SameCall, Numbered, Remembers, Effect
  <2>5. GenMove(p)
    BY <2>1 DEF GenMove, SameCall
  <2> QED
    BY <2>1, <2>3, <2>4, <2>5 DEF Sound, GoodMove
<1> QED
  BY <1>3, <1>4

LEMMA ClimbIsSound ==
  ASSUME UInv, NEW p \in Process, Climb(p)
  PROVE  Sound
<1>1. Shapes /\ proc[p].pc = "climb" /\ proc[p] \in ProcState /\ Unseen
  BY DEF UInv, Climb, At, Shapes, Unseen
<1>2. CASE proc[p].tries = MaxTries \/ Superseded(p)
  BY <1>1, <1>2, WithdrawIsSound DEF Climb
<1>3. CASE ~(proc[p].tries = MaxTries \/ Superseded(p))
  <2>1. proc[p].tries \in 0..MaxTries /\ proc[p].tries + 1 \in 0..MaxTries
    BY <1>1, <1>3, BoundsAreNatural DEF ProcState
  <2> DEFINE n == proc[p].tries + 1
             row == [proc[p] EXCEPT !.pc = "inspect", !.tries = n, !.key = 0]
  <2>2. Become(p, row) /\ n \in 0..MaxTries
    BY <1>3, <2>1 DEF Climb
  <2> HIDE DEF n
  <2>3. /\ row \in ProcState /\ row.pc = "inspect" /\ row.gen = proc[p].gen
        /\ row.now = proc[p].now /\ row.seen = proc[p].seen
    <3>1. PICK old \in ProcState : old = proc[p]
      BY <1>1
    <3>2. 0 \in 0..MaxGen
      BY BoundsAreNatural
    <3> QED
      BY <2>2, <3>1, <3>2 DEF ProcState, Acquiring
  <2> HIDE DEF row
  <2>4. proc' \in [Process -> ProcState] /\ proc'[p] = row /\ MovesAlone(p)
    BY <1>1, <2>2, <2>3, RowMoves
  <2>5. PathMove(p) /\ Retires(p)'
    BY <1>1, <1>3, <2>3, <2>4 DEF PathMove, Retires
  <2> QED
    BY <1>1, <2>3, <2>4, <2>5, UnseenOnward DEF Climbed, Owning
<1> QED
  BY <1>2, <1>3

(* What is over stays so whatever the process itself does next. *)
LEMMA OverRemains ==
  ASSUME UInv, NEW p \in Process, MovesAlone(p), NEW k, Over(k),
         op' = op, corruptLive' = corruptLive, active' = active,
         proc'[p].gen = proc[p].gen, proc'[p].pc \notin {"create", "sign"},
         proc'[p].key = k, proc'[p].pc = "move" => active = k
  PROVE  Retires(p)'
<1>1. ASSUME k \in Gen PROVE Signed(k)' /\ ~Live(k)'
  BY <1>1 DEF Over, Signed, Live, Pending, MovesAlone
<1>2. Over(k)'
  BY <1>1 DEF Over
<1>3. \A j : j = k => Over(j)'
  BY <1>2
<1> QED
  BY <1>3 DEF Retires

LEMMA InspectIsSound ==
  ASSUME UInv, NEW p \in Process, Inspect(p)
  PROVE  Sound
<1>1. /\ Shapes /\ proc[p].pc = "inspect" /\ proc[p] \in ProcState /\ Unseen
      /\ proc[p].pc \in Climbed
  BY DEF UInv, Inspect, At, Shapes, Unseen, Climbed
<1>2. CASE active = Absent
  <2>1. /\ proc' \in [Process -> ProcState] /\ MovesAlone(p)
        /\ proc'[p].pc = "promote" /\ SameCall(p)
    BY <1>1, <1>2, GotoMoves DEF Inspect, Place, Acquiring
  <2>2. PathMove(p) /\ Retires(p)'
    BY <1>1, <2>1 DEF PathMove, Retires, SameCall
  <2> QED
    BY <1>1, <2>1, <2>2, UnseenOnward DEF Climbed, Owning, SameCall
<1>3. CASE active # Absent /\ ~Busy /\ active <= proc[p].gen
  <2> DEFINE row == [proc[p] EXCEPT !.pc = "retire", !.key = active]
  <2>1. active \in 0..MaxGen
    BY <1>1, <1>3, BoundsAreNatural DEF Shapes, Absent
  <2>2. Become(p, row)
    BY <1>3 DEF Inspect
  <2>3. /\ row \in ProcState /\ row.pc = "retire" /\ row.gen = proc[p].gen
        /\ row.now = proc[p].now /\ row.seen = proc[p].seen /\ row.key = active
    <3>1. PICK old \in ProcState : old = proc[p]
      BY <1>1
    <3> QED
      BY <2>1, <3>1 DEF ProcState, Acquiring
  <2> HIDE DEF row
  <2>4. proc' \in [Process -> ProcState] /\ proc'[p] = row /\ MovesAlone(p)
    BY <1>1, <2>2, <2>3, RowMoves
  <2>5. Over(active)
    BY <1>3 DEF Over, Busy, Live, UInv, ClaimIsSigned, Corrupt
  <2>6. PICK k : k = active
    OBVIOUS
  <2>7. PathMove(p) /\ Retires(p)'
    BY <1>1, <2>3, <2>4, <2>5, <2>6, OverRemains DEF PathMove, Unseen, claims
  <2> QED
    BY <1>1, <2>3, <2>4, <2>7, UnseenOnward DEF Climbed, Owning
<1>4. CASE active # Absent /\ ~(~Busy /\ active <= proc[p].gen)
  BY <1>1, <1>4, WithdrawIsSound DEF Inspect
<1> QED
  BY <1>2, <1>3, <1>4

LEMMA RetireIsSound ==
  ASSUME UInv, NEW p \in Process, Retire(p)
  PROVE  Sound
<1>1. /\ Shapes /\ proc[p].pc = "retire" /\ Unseen /\ Retires(p)
      /\ active \in {Absent, proc[p].key}
  BY DEF UInv, Retire, At, Unseen, Sane
<1>2. PICK pc \in {"climb", "move"} : Goto(p, pc) /\ (pc = "move" => active # Absent)
  BY DEF Retire
<1>3. /\ proc' \in [Process -> ProcState] /\ MovesAlone(p)
      /\ proc'[p].pc = pc /\ SameCall(p)
  BY <1>1, <1>2, GotoMoves DEF Place, Acquiring
<1>4. PICK k : k = proc[p].key /\ Over(k)
  BY <1>1 DEF Retires
<1>5. Retires(p)'
  BY <1>1, <1>2, <1>3, <1>4, OverRemains DEF Unseen, claims, SameCall
<1>6. PathMove(p) /\ Retires(p)'
  BY <1>1, <1>3, <1>5 DEF PathMove, SameCall, Climbed, Owning
<1> QED
  BY <1>1, <1>3, <1>6, UnseenOnward DEF Climbed, Owning, SameCall

LEMMA MoveIsSound ==
  ASSUME UInv, NEW p \in Process, Move(p)
  PROVE  Sound
<1>1. Shapes /\ proc[p].pc = "move" /\ Retires(p) /\ proc[p].pc \in Climbed
  BY DEF UInv, Move, At, Sane, Climbed
<1>2. /\ proc' \in [Process -> ProcState] /\ MovesAlone(p)
      /\ proc'[p].pc = "climb" /\ SameCall(p)
  BY <1>1, GotoMoves DEF Move, Place, Acquiring
<1>3. PathMove(p) /\ Retires(p)' /\ Staged(p)'
  BY <1>2 DEF PathMove, Retires, Climbed, Owning, Staged
<1>4. CASE Moves(p)
  <2>1. active' = Absent /\ retired' = retired \union {proc[p].key}
    BY <1>4 DEF Move
  <2>2. Absent \in Absent..MaxGen
    BY BoundsAreNatural DEF Absent
  <2>3. Shapes'
    BY <1>1, <1>2, <2>1, <2>2, ProcShape DEF Shapes, Move, history
  <2>4. Effect
    BY <1>1, <1>4, <2>1, <2>3
    DEF Effect, OpEffect, ClaimEffect, TellEffect, AckEffect, Move, history
  <2>5. GenMove(p) /\ Sane(p)'
    BY <1>1, <1>2, <1>3, <2>4, OnwardIsSane DEF SameCall, Climbed, Owning
  <2> QED
    BY <1>2, <1>3, <2>4, <2>5 DEF Sound, GoodMove
<1>5. CASE ~Moves(p)
  <2>1. Unseen
    BY <1>5 DEF Move, Unseen, claims, history
  <2> QED
    BY <1>1, <1>2, <1>3, <2>1, UnseenOnward DEF Climbed, Owning, SameCall
<1> QED
  BY <1>4, <1>5

LEMMA PromoteIsSound ==
  ASSUME UInv, NEW p \in Process, Promote(p)
  PROVE  Sound
<1>1. Shapes /\ proc[p].pc = "promote" /\ proc[p].pc \in Climbed
  BY DEF UInv, Promote, At, Climbed
<1>2. CASE active = Absent
  <2>1. /\ proc' \in [Process -> ProcState] /\ MovesAlone(p)
        /\ proc'[p].pc = "confirm" /\ SameCall(p)
    BY <1>1, <1>2, GotoMoves DEF Promote, Place, Acquiring
  <2>2. active' = proc[p].gen
    BY <1>2 DEF Promote
  <2>3. active' \in Absent..MaxGen
    BY <1>1, <2>2, ProcShape, BoundsAreNatural DEF Absent
  <2>4. Shapes'
    BY <1>1, <2>1, <2>3 DEF Shapes, Promote, history
  <2>5. Effect
    BY <1>1, <1>2, <2>2, <2>4
    DEF Effect, OpEffect, ClaimEffect, TellEffect, AckEffect, Promote, history
  <2>6. PathMove(p) /\ Retires(p)' /\ Staged(p)'
    BY <1>1, <2>1 DEF PathMove, Retires, SameCall, Staged
  <2>7. GenMove(p) /\ Sane(p)'
    BY <1>1, <2>1, <2>2, <2>5, <2>6, OnwardIsSane DEF SameCall, Climbed, Owning
  <2> QED
    BY <2>1, <2>5, <2>6, <2>7 DEF Sound, GoodMove
<1>3. CASE active # Absent
  <2>1. /\ proc' \in [Process -> ProcState] /\ MovesAlone(p)
        /\ proc'[p].pc = "climb" /\ SameCall(p)
    BY <1>1, <1>3, GotoMoves DEF Promote, Place, Acquiring
  <2>2. PathMove(p) /\ Retires(p)'
    BY <2>1 DEF PathMove, Retires, Climbed, Owning
  <2>3. Unseen
    BY <1>3 DEF Promote, Unseen, claims, history
  <2> QED
    BY <1>1, <2>1, <2>2, <2>3, UnseenOnward DEF Climbed, Owning, SameCall
<1> QED
  BY <1>2, <1>3

LEMMA ConfirmIsSound ==
  ASSUME UInv, NEW p \in Process, Confirm(p)
  PROVE  Sound
<1>1. /\ Shapes /\ proc[p].pc = "confirm" /\ proc[p] \in ProcState /\ Unseen
      /\ proc[p].pc \in Climbed
  BY DEF UInv, Confirm, At, Shapes, Unseen, Climbed
<1>2. CASE ~Live(proc[p].gen)
  BY <1>1, <1>2, WithdrawIsSound DEF Confirm
<1>3. CASE Live(proc[p].gen)
  <2> DEFINE pc == IF proc[p].job = "check" THEN "reread" ELSE "claim"
             row == [proc[p] EXCEPT !.tries = 0, !.pc = pc]
  <2>1. Become(p, row) /\ pc \in {"reread", "claim"}
    BY <1>3 DEF Confirm
  <2> HIDE DEF pc
  <2>2. /\ row \in ProcState /\ row.pc = pc /\ row.gen = proc[p].gen
        /\ row.now = proc[p].now /\ row.seen = proc[p].seen
    <3>1. PICK old \in ProcState : old = proc[p]
      BY <1>1
    <3>2. 0 \in 0..MaxTries
      BY BoundsAreNatural
    <3> QED
      BY <2>1, <3>1, <3>2 DEF ProcState, Owning
  <2> HIDE DEF row
  <2>3. proc' \in [Process -> ProcState] /\ proc'[p] = row /\ MovesAlone(p)
    BY <1>1, <2>1, <2>2, RowMoves
  <2>4. PathMove(p) /\ Retires(p)'
    BY <1>1, <2>1, <2>2, <2>3 DEF PathMove, Retires
  <2> QED
    BY <1>1, <2>1, <2>2, <2>3, <2>4, UnseenOnward DEF Climbed, Owning
<1> QED
  BY <1>2, <1>3

-----------------------------------------------------------------------------
(* Steps that close an operation, or tell *)

Closed(g) ==
  /\ Pending(g)
  /\ \E kind \in {"fenced", "cancelled"} : Rename(g, kind)

LEMMA ClosingKeeps ==
  ASSUME Shapes, NEW g \in Gen, Closed(g)
  PROVE  /\ op' \in [Gen -> Operation] /\ ~Pending(g)'
         /\ \A h \in Gen : op'[h] = op[h] \/ Closes(h)
<1>1. PICK kind \in {"fenced", "cancelled"} : Rename(g, kind)
  BY DEF Closed
<1>2. kind \in Kind
  BY DEF Kind
<1> QED
  BY <1>1, <1>2, RenameMoves DEF Closes, Closed, Pending

(* At most closing g, and telling what may be told. *)
LEMMA ClosingEffect ==
  ASSUME UInv, NEW g, op' = op \/ (g \in Gen /\ Closed(g)),
         UNCHANGED <<reserved, claims, clock, acknowledged>>,
         proc' \in [Process -> ProcState], aborts' \in 0..MaxAborts,
         notified' \subseteq Digest, TellEffect
  PROVE  Effect
<1>1. op' \in [Gen -> Operation] /\ \A h \in Gen : op'[h] = op[h] \/ Closes(h)
  BY ClosingKeeps DEF UInv, Shapes
<1>2. Shapes'
  BY <1>1 DEF UInv, Shapes, claims
<1> QED
  BY <1>1, <1>2 DEF Effect, OpEffect, ClaimEffect, AckEffect, claims

LEMMA ResultIsKnown ==
  ASSUME UInv, Result(Latest) # None
  PROVE  /\ Result(Latest) \in Known /\ Result(Latest) \in Digest
         /\ Result(Latest) \notin acknowledged
<1>1. Result(Latest) = Latest.candidate /\ Latest.candidate \in Newer \ Latest.acked
  BY DEF Result
<1>2. CASE Commits = {}
  BY <1>1, <1>2, NewerAreDigests DEF Latest, EmptyState
<1>3. CASE Commits # {}
  <2>1. Readable(Latest)
    BY <1>3, LatestIsMax DEF Commits
  <2>2. Latest.candidate \in Known
    BY <1>1, <2>1 DEF Readable, Known
  <2>3. acknowledged \subseteq Latest.acked
    BY DEF UInv, AcksAreDurable
  <2> QED
    BY <1>1, <2>2, <2>3, NewerAreDigests
<1> QED
  BY <1>2, <1>3

LEMMA ReturnMoves ==
  ASSUME Shapes, NEW p \in Process, NEW d, Return(p, d)
  PROVE  /\ proc' \in [Process -> ProcState] /\ MovesAlone(p) /\ proc'[p] = Idle
         /\ proc'[p].pc = "idle" /\ notified' = notified \union ({d} \ {None})
BY IdleRow, RowMoves DEF Return

(* A process that has returned. *)
LEMMA ReturnedIsGood ==
  ASSUME NEW p \in Process, MovesAlone(p), proc'[p] = Idle
  PROVE  GoodMove(p)
<1>1. PathMove(p) /\ Sane(p)'
  BY IdleRow, FreshIsSane, BoundsAreNatural
<1>2. GenMove(p)
  BY IdleRow DEF GenMove
<1> QED
  BY <1>1, <1>2 DEF GoodMove

(* A call that begins. *)
LEMMA BegunIsGood ==
  ASSUME NEW p \in Process, MovesAlone(p), proc'[p].pc \in {"look", "denied"},
         proc'[p].gen = 0, proc'[p].now <= MaxClock,
         proc'[p].seen \subseteq acknowledged'
  PROVE  GoodMove(p)
<1>1. PathMove(p) /\ Sane(p)'
  BY FreshIsSane
<1>2. GenMove(p)
  BY DEF GenMove
<1> QED
  BY <1>1, <1>2 DEF GoodMove

LEMMA CancelIsSound ==
  ASSUME UInv, NEW p \in Process, Cancel(p)
  PROVE  Sound
<1> DEFINE g == proc[p].gen
<1>1. /\ Shapes /\ Numbered(p) /\ Remembers(p) /\ Replies(p) /\ proc[p].pc = "cancel"
      /\ proc[p] \in ProcState
  BY DEF UInv, Sane, Cancel, At, Shapes
<1>2. g \in Gen
  BY <1>1, ProcShape DEF Numbered
<1>3. op' = op \/ Closed(g)
  BY DEF Cancel, Closed
<1>4. UNCHANGED <<reserved, claims, clock, acknowledged>> /\ aborts' \in 0..MaxAborts
  BY <1>1 DEF Cancel, claims, Shapes
<1>5. CASE proc[p].reply = "cached"
  <2> DEFINE row == [proc[p] EXCEPT !.pc = "denied", !.gen = 0]
  <2>1. Become(p, row) /\ notified' = notified
    BY <1>5 DEF Cancel
  <2>2. /\ row \in ProcState /\ row.pc = "denied" /\ row.gen = 0
        /\ row.now = proc[p].now /\ row.seen = proc[p].seen
    <3>1. PICK old \in ProcState : old = proc[p]
      BY <1>1
    <3>2. 0 \in 0..MaxGen
      BY BoundsAreNatural
    <3> QED
      BY <3>1, <3>2 DEF ProcState
  <2> HIDE DEF row
  <2>3. proc' \in [Process -> ProcState] /\ proc'[p] = row /\ MovesAlone(p)
    BY <1>1, <2>1, <2>2, RowMoves
  <2>4. TellEffect /\ notified' \subseteq Digest
    BY <1>1, <2>1 DEF TellEffect, Shapes
  <2>5. Effect
    BY <1>2, <1>3, <1>4, <2>3, <2>4, ClosingEffect
  <2>6. GoodMove(p)
    BY <1>1, <1>4, <2>2, <2>3, BegunIsGood DEF Remembers
  <2> QED
    BY <2>5, <2>6 DEF Sound
<1>6. CASE proc[p].reply # "cached"
  <2>1. Return(p, proc[p].reply)
    BY <1>6 DEF Cancel
  <2>2. /\ proc' \in [Process -> ProcState] /\ MovesAlone(p) /\ proc'[p] = Idle
        /\ proc'[p].pc = "idle" /\ notified' = notified \union ({proc[p].reply} \ {None})
    BY <1>1, <2>1, ReturnMoves
  <2>3. proc[p].reply # None => proc[p].reply \in Digest
    BY <1>1, <1>6, ProcShape
  <2>4. notified' \subseteq Digest
    BY <1>1, <2>2, <2>3 DEF Shapes
  <2>5. TellEffect
    BY <1>1, <1>6, <2>2 DEF TellEffect, Replies, At
  <2>6. Effect
    BY <1>2, <1>3, <1>4, <2>2, <2>4, <2>5, ClosingEffect
  <2> QED
    BY <2>2, <2>6, ReturnedIsGood DEF Sound
<1> QED
  BY <1>5, <1>6

(* A check that answers with what the cache holds. *)
LEMMA AnswerIsSound ==
  ASSUME UInv, NEW p \in Process, NEW d, d \in {None, Result(Latest)}, Return(p, d),
         UNCHANGED <<op, reserved, claims, clock, acknowledged, aborts>>
  PROVE  Sound
<1>1. Shapes
  BY DEF UInv
<1>2. /\ proc' \in [Process -> ProcState] /\ MovesAlone(p) /\ proc'[p] = Idle
      /\ notified' = notified \union ({d} \ {None})
  BY <1>1, ReturnMoves
<1>3. TellEffect
  BY <1>2, ResultIsKnown DEF TellEffect
<1>4. notified' \subseteq Digest
  BY <1>1, <1>2, ResultIsKnown DEF Shapes
<1>5. Effect
  BY <1>1, <1>2, <1>3, <1>4, ClosingEffect DEF Shapes
<1> QED
  BY <1>2, <1>5, ReturnedIsGood DEF Sound

LEMMA BeginIsSound ==
  ASSUME UInv, NEW p \in Process, NEW row \in ProcState, Become(p, row), Unseen,
         row.pc = "look", row.gen = 0, row.now <= MaxClock,
         row.seen \subseteq acknowledged
  PROVE  Sound
<1>1. proc' \in [Process -> ProcState] /\ proc'[p] = row /\ MovesAlone(p)
  BY RowMoves DEF UInv
<1>2. Effect
  BY <1>1, UnseenEffect
<1>3. GoodMove(p)
  BY <1>1, BegunIsGood DEF Unseen, history
<1> QED
  BY <1>2, <1>3 DEF Sound

LEMMA DeniedIsSound ==
  ASSUME UInv, NEW p \in Process, Denied(p)
  PROVE  Sound
<1>1. Shapes /\ proc[p] \in ProcState
  BY DEF UInv, Shapes
<1>2. CASE proc[p].job = "check"
  <2> DEFINE d == IF Latest.candidate \in Latest.offered THEN Result(Latest) ELSE None
  <2>1. Return(p, d) /\ d \in {None, Result(Latest)}
    BY <1>2 DEF Denied
  <2>2. UNCHANGED <<op, reserved, claims, clock, acknowledged, aborts>>
    BY DEF Denied
  <2> HIDE DEF d
  <2>3. PICK e : e = d
    OBVIOUS
  <2> QED
    BY <2>1, <2>2, <2>3, AnswerIsSound
<1>3. CASE proc[p].job # "check" /\ Become(p, Idle)
  <2>1. Unseen
    BY <1>3 DEF Denied, Unseen, history
  <2>2. proc' \in [Process -> ProcState] /\ proc'[p] = Idle /\ MovesAlone(p)
    BY <1>1, <1>3, IdleRow, RowMoves
  <2> QED
    BY <2>1, <2>2, UnseenEffect, ReturnedIsGood DEF Sound
<1>4. CASE /\ proc[p].job # "check"
           /\ Become(p, [Idle EXCEPT !.pc = "look", !.job = "ack", !.arg = proc[p].arg])
  <2>1. Unseen
    BY <1>4 DEF Denied, Unseen, history
  <2> DEFINE arg == proc[p].arg
             row == [Idle EXCEPT !.pc = "look", !.job = "ack", !.arg = arg]
  <2>2. arg \in Digest \union {None, "failed"}
    BY <1>1 DEF ProcState
  <2>3. Become(p, row)
    BY <1>4
  <2> HIDE DEF arg
  <2>4. row \in ProcState /\ row.pc = "look" /\ row.gen = 0 /\ row.now = 0 /\ row.seen = {}
    BY <2>2, IdleRow DEF Idle, ProcState, Acquiring
  <2> HIDE DEF row
  <2> QED
    BY <2>1, <2>3, <2>4, BeginIsSound, BoundsAreNatural
<1> QED
  BY <1>2, <1>3, <1>4 DEF Denied

LEMMA CheckIsSound ==
  ASSUME UInv, NEW p \in Process, Check(p)
  PROVE  Sound
<1>1. Shapes
  BY DEF UInv
<1>2. CASE Fresh(Latest, clock)
  <2>1. PICK d : d = Result(Latest)
    OBVIOUS
  <2> QED
    BY <1>2, <2>1, AnswerIsSound DEF Check
<1>3. CASE ~Fresh(Latest, clock)
  <2> DEFINE row == [Idle EXCEPT !.pc = "look", !.now = clock, !.seen = acknowledged]
  <2>1. Become(p, row) /\ Unseen
    BY <1>3 DEF Check, Unseen, history
  <2>2. clock \in Nat /\ clock <= MaxClock /\ acknowledged \subseteq Digest
    BY <1>1, BoundsAreNatural DEF Shapes
  <2>3. /\ row \in ProcState /\ row.pc = "look" /\ row.gen = 0 /\ row.now = clock
        /\ row.seen = acknowledged
    BY <2>2, IdleRow DEF Idle, ProcState, Acquiring
  <2> HIDE DEF row
  <2> QED
    BY <2>1, <2>2, <2>3, BeginIsSound
<1> QED
  BY <1>2, <1>3

LEMMA AckIsSound ==
  ASSUME UInv, NEW p \in Process, NEW d \in Digest, Ack(p, d)
  PROVE  Sound
<1> DEFINE row == [Idle EXCEPT !.pc = "look", !.job = "ack", !.arg = d]
<1>1. Become(p, row) /\ Unseen
  BY DEF Ack, Unseen
<1>2. row \in ProcState /\ row.pc = "look" /\ row.gen = 0 /\ row.now = 0 /\ row.seen = {}
  BY IdleRow DEF Idle, ProcState, Acquiring
<1> HIDE DEF row
<1> QED
  BY <1>1, <1>2, BeginIsSound, BoundsAreNatural

LEMMA AbortIsSound ==
  ASSUME UInv, NEW p \in Process, Abort(p)
  PROVE  Sound
<1> DEFINE g == proc[p].gen
<1>1. Shapes /\ Numbered(p)
  BY DEF UInv, Sane
<1>2. op' = op \/ (g \in Gen /\ Closed(g))
  <2>1. CASE op' = op
    BY <2>1
  <2>2. CASE /\ proc[p].pc \in Owning \union {"sign", "cancel"}
             /\ Pending(g) /\ Rename(g, "cancelled")
    <3>1. g # 0
      BY <1>1, <2>2 DEF Numbered, Climbed
    <3> QED
      BY <1>1, <2>2, <3>1, ProcShape DEF Closed
  <2> QED
    BY <2>1, <2>2 DEF Abort
<1>3. proc' \in [Process -> ProcState] /\ proc'[p] = Idle /\ MovesAlone(p)
  BY <1>1, IdleRow, RowMoves DEF Abort
<1>4. aborts' \in 0..MaxAborts
  BY <1>1, BoundsAreNatural DEF Abort, Shapes
<1>5. TellEffect /\ notified' \subseteq Digest
  BY <1>1 DEF Abort, history, TellEffect, Shapes
<1>6. UNCHANGED <<reserved, claims, clock, acknowledged>>
  BY DEF Abort, history
<1>7. PICK h : h = g
  OBVIOUS
<1>8. Effect
  BY <1>2, <1>3, <1>4, <1>5, <1>6, <1>7, ClosingEffect
<1> QED
  BY <1>3, <1>8, ReturnedIsGood DEF Sound

-----------------------------------------------------------------------------
(* checkForUpdate and commitOperation *)

LEMMA RereadIsSound ==
  ASSUME UInv, NEW p \in Process, Reread(p)
  PROVE  Sound
<1>1. /\ Shapes /\ Remembers(p) /\ proc[p].pc = "reread" /\ Unseen
      /\ proc[p].pc \in Climbed
  BY DEF UInv, Sane, Reread, At, Unseen, Climbed, Owning
<1>2. CASE Fresh(Latest, proc[p].now)
  <2>1. PICK d : d = Result(Latest)
    OBVIOUS
  <2>2. Withdraw(p, d)
    BY <1>2, <2>1 DEF Reread
  <2>3. d # None => d \in Known /\ d \in Digest /\ d \notin proc[p].seen
    BY <1>1, <2>1, ResultIsKnown DEF Remembers
  <2> QED
    BY <1>1, <2>2, <2>3, WithdrawIsSound
<1>3. CASE ~Fresh(Latest, proc[p].now)
  <2>1. /\ proc' \in [Process -> ProcState] /\ MovesAlone(p)
        /\ proc'[p].pc = "own" /\ SameCall(p)
    BY <1>1, <1>3, GotoMoves DEF Reread, Place, Owning
  <2>2. PathMove(p) /\ Retires(p)'
    BY <1>1, <2>1 DEF PathMove, Retires, SameCall
  <2> QED
    BY <1>1, <2>1, <2>2, UnseenOnward DEF Climbed, Owning, SameCall
<1> QED
  BY <1>2, <1>3

LEMMA OwnIsSound ==
  ASSUME UInv, NEW p \in Process, Own(p)
  PROVE  Sound
<1>1. Shapes /\ proc[p].pc = "own" /\ Unseen /\ proc[p].pc \in Climbed
  BY DEF UInv, Own, At, Unseen, Climbed, Owning
<1>2. CASE Owns(p)
  <2>1. /\ proc' \in [Process -> ProcState] /\ MovesAlone(p)
        /\ proc'[p].pc = "fetch" /\ SameCall(p)
    BY <1>1, <1>2, GotoMoves DEF Own, Place, Owning
  <2>2. PathMove(p) /\ Retires(p)'
    BY <1>1, <2>1 DEF PathMove, Retires, SameCall
  <2> QED
    BY <1>1, <2>1, <2>2, UnseenOnward DEF Climbed, Owning, SameCall
<1>3. CASE ~Owns(p)
  BY <1>1, <1>3, WithdrawIsSound DEF Own
<1> QED
  BY <1>2, <1>3

LEMMA FetchedIsSound ==
  ASSUME UInv, NEW p \in Process, Fetched(p)
  PROVE  Sound
<1>1. /\ Shapes /\ proc[p].pc = "fetch" /\ Unseen /\ proc[p].pc \in Climbed
      /\ proc[p] \in ProcState
  BY DEF UInv, Shapes, Fetched, At, Unseen, Climbed, Owning
<1>2. PICK answer \in Digest \union {"failed"} :
        Become(p, [proc[p] EXCEPT !.pc = "claim", !.arg = answer])
  BY DEF Fetched
<1> DEFINE row == [proc[p] EXCEPT !.pc = "claim", !.arg = answer]
<1>3. /\ row \in ProcState /\ row.pc = "claim" /\ row.gen = proc[p].gen
      /\ row.now = proc[p].now /\ row.seen = proc[p].seen
  <2>1. PICK old \in ProcState : old = proc[p]
    BY <1>1
  <2> QED
    BY <2>1 DEF ProcState, Owning
<1>4. Become(p, row)
  BY <1>2
<1> HIDE DEF row
<1>5. proc' \in [Process -> ProcState] /\ proc'[p] = row /\ MovesAlone(p)
  BY <1>1, <1>3, <1>4, RowMoves
<1>6. PathMove(p) /\ Retires(p)'
  BY <1>1, <1>3, <1>5 DEF PathMove, Retires
<1> QED
  BY <1>1, <1>3, <1>5, <1>6, UnseenOnward DEF Climbed, Owning

LEMMA ClaimIsSound ==
  ASSUME UInv, NEW p \in Process, Claim(p)
  PROVE  Sound
<1>1. Shapes /\ proc[p].pc = "claim" /\ Unseen /\ proc[p].pc \in Climbed
  BY DEF UInv, Claim, At, Unseen, Climbed, Owning
<1>2. CASE Owns(p)
  <2>1. /\ proc' \in [Process -> ProcState] /\ MovesAlone(p)
        /\ proc'[p].pc = "list" /\ SameCall(p)
    BY <1>1, <1>2, GotoMoves DEF Claim, Place, Owning
  <2>2. PathMove(p) /\ Retires(p)'
    BY <1>1, <2>1 DEF PathMove, Retires, SameCall
  <2> QED
    BY <1>1, <2>1, <2>2, UnseenOnward DEF Climbed, Owning, SameCall
<1>3. CASE ~Owns(p)
  BY <1>1, <1>3, LostIsSound DEF Claim
<1> QED
  BY <1>2, <1>3

LEMMA ListIsSound ==
  ASSUME UInv, NEW p \in Process, List(p)
  PROVE  Sound
<1>1. /\ Shapes /\ proc[p].pc = "list" /\ Unseen /\ proc[p].pc \in Climbed
      /\ proc[p] \in ProcState
  BY DEF UInv, Shapes, List, At, Unseen, Climbed, Owning
<1> DEFINE todo == Lower(p)
           row == [proc[p] EXCEPT !.pc = "fence", !.todo = todo]
<1>2. todo \subseteq Gen
  BY DEF Lower
<1>3. Become(p, row)
  BY DEF List
<1>4. todo = Lower(p)
  OBVIOUS
<1> HIDE DEF todo
<1>5. /\ row \in ProcState /\ row.pc = "fence" /\ row.gen = proc[p].gen
      /\ row.now = proc[p].now /\ row.seen = proc[p].seen /\ row.todo = todo
  <2>1. PICK old \in ProcState : old = proc[p]
    BY <1>1
  <2> QED
    BY <1>2, <2>1 DEF ProcState, Owning
<1> HIDE DEF row
<1>6. proc' \in [Process -> ProcState] /\ proc'[p] = row /\ MovesAlone(p)
  BY <1>1, <1>3, <1>5, RowMoves
<1>7. PathMove(p) /\ Retires(p)'
  BY <1>1, <1>4, <1>5, <1>6 DEF PathMove, Retires
<1> QED
  BY <1>1, <1>5, <1>6, <1>7, UnseenOnward DEF Climbed, Owning

LEMMA FenceIsSound ==
  ASSUME UInv, NEW p \in Process, Fence(p)
  PROVE  Sound
<1>1. /\ Shapes /\ proc[p].pc = "fence" /\ proc[p].pc \in Climbed
      /\ proc[p] \in ProcState
  BY DEF UInv, Shapes, Fence, At, Climbed, Owning
<1>2. CASE proc[p].todo = {} /\ Goto(p, "reclaim") /\ UNCHANGED op
  <2>1. /\ proc' \in [Process -> ProcState] /\ MovesAlone(p)
        /\ proc'[p].pc = "reclaim" /\ SameCall(p)
    BY <1>1, <1>2, GotoMoves DEF Place, Owning
  <2>2. PathMove(p) /\ Retires(p)'
    BY <1>1, <1>2, <2>1 DEF PathMove, Retires, SameCall
  <2>3. Unseen
    BY <1>2 DEF Fence, Unseen
  <2> QED
    BY <1>1, <2>1, <2>2, <2>3, UnseenOnward DEF Climbed, Owning, SameCall
<1>3. ASSUME NEW g \in proc[p].todo,
             IF Pending(g) THEN Rename(g, "fenced") ELSE UNCHANGED op,
             Become(p, [proc[p] EXCEPT !.todo = proc[p].todo \ {g}])
      PROVE  Sound
  <2> DEFINE todo == proc[p].todo \ {g}
             row == [proc[p] EXCEPT !.todo = todo]
  <2>1. g \in Gen /\ todo \subseteq Gen /\ todo = proc[p].todo \ {g}
    BY <1>1, ProcShape
  <2>2. Become(p, row)
    BY <1>3
  <2> HIDE DEF todo
  <2>3. /\ row \in ProcState /\ row.pc = "fence" /\ row.gen = proc[p].gen
        /\ row.now = proc[p].now /\ row.seen = proc[p].seen /\ row.todo = todo
    <3>1. PICK old \in ProcState : old = proc[p]
      BY <1>1
    <3> QED
      BY <1>1, <2>1, <3>1 DEF ProcState
  <2> HIDE DEF row
  <2>4. proc' \in [Process -> ProcState] /\ proc'[p] = row /\ MovesAlone(p)
    BY <1>1, <2>2, <2>3, RowMoves
  <2>5. (op' = op \/ Closed(g)) /\ ~Pending(g)'
    <3>1. CASE Pending(g)
      <4>1. Closed(g)
        BY <1>3, <3>1 DEF Closed
      <4> QED
        BY <1>1, <2>1, <4>1, ClosingKeeps
    <3>2. CASE ~Pending(g)
      BY <1>3, <3>2 DEF Pending
    <3> QED
      BY <3>1, <3>2
  <2>6. UNCHANGED <<reserved, claims, clock, history, aborts>>
    BY DEF Fence
  <2>7. TellEffect /\ notified' \subseteq Digest /\ aborts' \in 0..MaxAborts
    BY <1>1, <2>6 DEF TellEffect, Shapes, history
  <2>8. Effect
    BY <2>1, <2>4, <2>5, <2>6, <2>7, ClosingEffect DEF history
  <2>9. PathMove(p) /\ Retires(p)' /\ Staged(p)'
    BY <1>1, <2>1, <2>3, <2>4, <2>5 DEF PathMove, Retires, Staged
  <2>10. GenMove(p) /\ Sane(p)'
    BY <1>1, <2>3, <2>4, <2>8, <2>9, OnwardIsSane DEF Climbed, Owning
  <2> QED
    BY <2>4, <2>8, <2>9, <2>10 DEF Sound, GoodMove
<1> QED
  BY <1>2, <1>3 DEF Fence

LEMMA ReclaimIsSound ==
  ASSUME UInv, NEW p \in Process, Reclaim(p)
  PROVE  Sound
<1>1. Shapes /\ proc[p].pc = "reclaim" /\ Unseen /\ proc[p].pc \in Climbed
  BY DEF UInv, Reclaim, At, Unseen, Climbed, Owning
<1>2. CASE Owns(p)
  <2>1. /\ proc' \in [Process -> ProcState] /\ MovesAlone(p)
        /\ proc'[p].pc = "stage" /\ SameCall(p)
    BY <1>1, <1>2, GotoMoves DEF Reclaim, Place, Owning
  <2>2. PathMove(p) /\ Retires(p)'
    BY <1>1, <2>1 DEF PathMove, Retires, SameCall
  <2> QED
    BY <1>1, <2>1, <2>2, UnseenOnward DEF Climbed, Owning, SameCall
<1>3. CASE ~Owns(p)
  BY <1>1, <1>3, LostIsSound DEF Reclaim
<1> QED
  BY <1>2, <1>3

-----------------------------------------------------------------------------
(* Time *)

LEMMA AgeIsSound ==
  ASSUME UInv, NEW g \in Gen, Age(g)
  PROVE  Sound
<1>1. Shapes
  BY DEF UInv
<1>2. PICK old \in Operation : old = op[g]
  BY <1>1 DEF Shapes
<1> DEFINE row == [op[g] EXCEPT !.live = FALSE]
<1>3. row \in Operation /\ row.kind = op[g].kind /\ row.state = op[g].state /\ ~row.live
  BY <1>2 DEF Operation
<1>4. op' = [op EXCEPT ![g] = row]
  BY <1>1 DEF Age, Shapes
<1> HIDE DEF row
<1>5. op' \in [Gen -> Operation] /\ Ages(g) /\ \A h \in Gen \ {g} : op'[h] = op[h]
  BY <1>1, <1>3, <1>4 DEF Shapes, Ages
<1>6. Shapes'
  BY <1>1, <1>5 DEF Shapes, Age, claims, history
<1>7. Effect
  BY <1>5, <1>6
  DEF Effect, OpEffect, ClaimEffect, TellEffect, AckEffect, Age, claims, history
<1> QED
  BY <1>7 DEF Sound, Age

LEMMA AgeCorruptIsSound ==
  ASSUME UInv, AgeCorrupt
  PROVE  Sound
<1>1. Shapes'
  BY DEF UInv, Shapes, AgeCorrupt, history
<1>2. Effect
  BY <1>1
  DEF Effect, OpEffect, ClaimEffect, TellEffect, AckEffect, AgeCorrupt, history
<1> QED
  BY <1>2 DEF Sound, AgeCorrupt

LEMMA TickIsSound ==
  ASSUME UInv, Tick
  PROVE  Sound
<1>1. clock' \in 0..MaxClock
  BY BoundsAreNatural DEF UInv, Shapes, Tick
<1>2. Shapes'
  BY <1>1 DEF UInv, Shapes, Tick, claims, history
<1>3. Effect
  BY <1>2
  DEF Effect, OpEffect, ClaimEffect, TellEffect, AckEffect, Tick, claims, history
<1> QED
  BY <1>3 DEF Sound, Tick

-----------------------------------------------------------------------------
(* What is decided follows from the latest commit *)

LEMMA CandidateIsKnown ==
  ASSUME UInv, Latest.candidate \in Newer
  PROVE  Latest.candidate \in Known
<1>1. CASE Commits = {}
  BY <1>1, NewerAreDigests DEF Latest, EmptyState
<1>2. CASE Commits # {}
  <2>1. Readable(Latest)
    BY <1>2, LatestIsMax DEF Commits
  <2> QED
    BY <2>1 DEF Readable, Known
<1> QED
  BY <1>1, <1>2

(* The new state s and the reply. *)
Follows(p, s, reply) ==
  /\ s \in State /\ Latest.acked \subseteq s.acked
  /\ Known \subseteq s.offered \union s.acked
  /\ s.candidate \in Newer => s.candidate \in s.offered \union s.acked
  /\ reply \in Digest \union {None}
  /\ proc[p].job = "check" /\ reply # None => reply \in s.offered /\ reply \notin s.acked
  /\ proc[p].job = "ack" => reply \in s.acked

LEMMA AckFollows ==
  ASSUME UInv, NEW p \in Process, proc[p].job = "ack",
         proc[p].arg \in Latest.offered \union Latest.acked
  PROVE  Follows(p, Acknowledged(Latest, proc[p].arg), proc[p].arg)
<1>1. PICK s \in State : s = Latest
  BY LatestShape
<1> DEFINE d == proc[p].arg
           offered == s.offered \ {d}
           acked == s.acked \union {d}
           next == [s EXCEPT !.offered = offered, !.acked = acked]
<1>2. d \in Digest /\ offered \subseteq Digest /\ acked \subseteq Digest
  BY <1>1 DEF State
<1>3. /\ d \in acked /\ s.acked \subseteq acked
      /\ s.offered \union s.acked \subseteq offered \union acked
  OBVIOUS
<1>4. Acknowledged(Latest, d) = next
  BY <1>1 DEF Acknowledged
<1> HIDE DEF offered, acked
<1>5. /\ next \in State /\ next.offered = offered /\ next.acked = acked
      /\ next.candidate = s.candidate
  BY <1>1, <1>2 DEF State
<1> HIDE DEF next, d
<1>6. s.candidate \in Newer => s.candidate \in s.offered \union s.acked
  BY <1>1, CandidateIsKnown DEF Known
<1>7. Follows(p, next, d)
  BY <1>1, <1>2, <1>3, <1>5, <1>6 DEF Follows, Known
<1> QED
  BY <1>4, <1>7 DEF d

LEMMA FailureFollows ==
  ASSUME UInv, NEW p \in Process, proc[p].job # "ack", NEW withdraw \in BOOLEAN
  PROVE  Follows(p, AfterFailure(Latest, proc[p].now, withdraw), None)
<1>1. PICK s \in State : s = Latest
  BY LatestShape
<1> DEFINE n == proc[p].now + 1
           candidate == IF withdraw THEN None ELSE s.candidate
           next == [s EXCEPT !.next = n, !.candidate = candidate]
<1>2. n \in 0..(MaxClock + 1)
  <2>1. proc[p].now \in Nat /\ proc[p].now <= MaxClock
    BY DEF UInv, Shapes, ProcState, Sane, Remembers
  <2> QED
    BY <2>1, BoundsAreNatural
<1>3. candidate \in Digest \union {None} /\ candidate \in {None, s.candidate}
  BY <1>1 DEF State
<1>4. AfterFailure(Latest, proc[p].now, withdraw) = next
  BY <1>1 DEF AfterFailure
<1> HIDE DEF n, candidate
<1>5. /\ next \in State /\ next.offered = s.offered /\ next.acked = s.acked
      /\ next.candidate = candidate
  BY <1>1, <1>2, <1>3 DEF State
<1> HIDE DEF next
<1>6. s.candidate \in Newer => s.candidate \in s.offered \union s.acked
  BY <1>1, CandidateIsKnown DEF Known
<1>7. candidate \in Newer => candidate \in s.offered \union s.acked
  BY <1>3, <1>6, NewerAreDigests
<1>8. Follows(p, next, None)
  BY <1>1, <1>5, <1>7 DEF Follows, Known
<1> QED
  BY <1>4, <1>8

LEMMA FetchFollows ==
  ASSUME UInv, NEW p \in Process, proc[p].job # "ack", proc[p].arg # "failed"
  PROVE  LET next == AfterFetch(Latest, proc[p].now, proc[p].arg)
         IN  Follows(p, next, Result(next))
<1>1. PICK s \in State : s = Latest
  BY LatestShape
<1> DEFINE n == proc[p].now + 1
           d == proc[p].arg
           reply == IF d \in Newer \ s.acked THEN d ELSE None
           offered == s.offered \union ({reply} \ {None})
           next == [candidate |-> d, offered |-> offered, acked |-> s.acked, next |-> n]
<1>2. n \in 0..(MaxClock + 1)
  <2>1. proc[p].now \in Nat /\ proc[p].now <= MaxClock
    BY DEF UInv, Shapes, ProcState, Sane, Remembers
  <2> QED
    BY <2>1, BoundsAreNatural
<1>3. d \in Digest \union {None}
  BY DEF UInv, Shapes, ProcState
<1>4. /\ offered \subseteq Digest /\ s.offered \subseteq offered
      /\ s.offered \subseteq Digest /\ s.acked \subseteq Digest
  BY <1>1, NewerAreDigests DEF State
<1>5. AfterFetch(Latest, proc[p].now, proc[p].arg) = next
  BY <1>1 DEF AfterFetch, Result
<1>6. Result(next) = reply
  BY DEF Result
<1>7. /\ reply \in Digest \union {None}
      /\ reply # None => reply \in offered /\ reply \notin s.acked
      /\ d \in Newer => d \in offered \union s.acked
  BY NewerAreDigests
<1> HIDE DEF n, d, reply, offered
<1>8. next \in State
  BY <1>2, <1>3, <1>4 DEF State
<1>9. Follows(p, next, reply)
  BY <1>1, <1>4, <1>7, <1>8 DEF Follows, Known
<1> QED
  BY <1>5, <1>6, <1>9

LEMMA DecisionFollows ==
  ASSUME UInv, NEW p \in Process, ~Refused(p, Latest)
  PROVE  /\ Follows(p, Decided(p, Latest).state, Decided(p, Latest).reply)
         /\ Readable(Decided(p, Latest).state)
<1> DEFINE next == AfterFetch(Latest, proc[p].now, proc[p].arg)
<1>1. Follows(p, Decided(p, Latest).state, Decided(p, Latest).reply)
  <2>1. CASE proc[p].job = "ack"
    <3>1. Decided(p, Latest) =
            [state |-> Acknowledged(Latest, proc[p].arg), reply |-> proc[p].arg]
      BY <2>1 DEF Decided
    <3> QED
      BY <2>1, <3>1, AckFollows DEF Refused
  <2>2. CASE proc[p].job # "ack" /\ proc[p].arg = "failed"
    <3> DEFINE failed == AfterFailure(Latest, proc[p].now, FALSE)
    <3>1. Decided(p, Latest) = [state |-> failed, reply |-> None]
      BY <2>2 DEF Decided
    <3>2. Follows(p, failed, None)
      BY <2>2, FailureFollows, Zenon
    <3> HIDE DEF failed
    <3> QED
      BY <3>1, <3>2
  <2>3. CASE proc[p].job # "ack" /\ proc[p].arg # "failed" /\ Recoverable(next)
    <3>1. Decided(p, Latest) = [state |-> next, reply |-> Result(next)]
      BY <2>3 DEF Decided
    <3> QED
      BY <2>3, <3>1, FetchFollows
  <2>4. CASE proc[p].job # "ack" /\ proc[p].arg # "failed" /\ ~Recoverable(next)
    <3> DEFINE failed == AfterFailure(Latest, proc[p].now, TRUE)
    <3>1. Decided(p, Latest) = [state |-> failed, reply |-> None]
      BY <2>4 DEF Decided
    <3>2. Follows(p, failed, None)
      BY <2>4, FailureFollows, Zenon
    <3> HIDE DEF failed
    <3> QED
      BY <3>1, <3>2
  <2> QED
    BY <2>1, <2>2, <2>3, <2>4
<1> QED
  BY <1>1 DEF Readable, Follows, Refused

LEMMA StageIsSound ==
  ASSUME UInv, NEW p \in Process, Stage(p)
  PROVE  Sound
<1>1. /\ Shapes /\ Numbered(p) /\ proc[p].pc = "stage" /\ proc[p].pc \in Climbed
      /\ proc[p] \in ProcState
  BY DEF UInv, Shapes, Sane, Stage, At, Climbed, Owning
<1> DEFINE g == proc[p].gen
           s == Decided(p, Latest).state
           reply == Decided(p, Latest).reply
<1>2. g \in Gen
  BY <1>1, ProcShape DEF Numbered
<1>3. CASE Refused(p, Latest)
  <2>1. Withdraw(p, None) /\ Unseen
    BY <1>3 DEF Stage, Unseen
  <2> QED
    BY <1>1, <2>1, WithdrawIsSound
<1>4. CASE ~Refused(p, Latest) /\ ~Pending(g)
  <2>1. Lost(p) /\ Unseen
    BY <1>4 DEF Stage, Unseen
  <2> QED
    BY <1>1, <2>1, LostIsSound
<1>5. CASE ~Refused(p, Latest) /\ Pending(g)
  <2>1. Follows(p, s, reply) /\ Readable(s)
    BY <1>5, DecisionFollows
  <2> DEFINE base == LatestGen
             row == [proc[p] EXCEPT !.pc = "publish", !.base = base, !.reply = reply]
             dir == [op[g] EXCEPT !.state = s]
  <2>2. Become(p, row)
    BY <1>5 DEF Stage
  <2>3. op' = [op EXCEPT ![g] = dir]
    BY <1>1, <1>2, <1>5 DEF Stage, Shapes
  <2> HIDE DEF s, reply
  <2>4. base = LatestGen /\ base \in 0..MaxGen
    BY LatestShape
  <2> HIDE DEF base
  <2>5. /\ dir \in Operation /\ dir.kind = "pending" /\ dir.live = op[g].live
        /\ dir.state = s
    <3>1. PICK old \in Operation : old = op[g]
      BY <1>1, <1>2 DEF Shapes
    <3> QED
      BY <1>5, <2>1, <3>1 DEF Operation, Follows, Pending
  <2>6. /\ row \in ProcState /\ row.pc = "publish" /\ row.gen = proc[p].gen
        /\ row.now = proc[p].now /\ row.seen = proc[p].seen /\ row.base = base
        /\ row.reply = reply /\ row.job = proc[p].job
    <3>1. PICK old \in ProcState : old = proc[p]
      BY <1>1
    <3> QED
      BY <2>1, <2>4, <3>1 DEF ProcState, Owning, Follows
  <2> HIDE DEF row, dir
  <2>7. proc' \in [Process -> ProcState] /\ proc'[p] = row /\ MovesAlone(p)
    BY <1>1, <2>2, <2>6, RowMoves
  <2>8. /\ op' \in [Gen -> Operation] /\ op'[g] = dir
        /\ \A h \in Gen \ {g} : op'[h] = op[h]
    BY <1>1, <1>2, <2>3, <2>5 DEF Shapes
  <2>9. UNCHANGED <<reserved, claims, clock, history, aborts>>
    BY DEF Stage
  <2>10. Shapes'
    BY <1>1, <2>7, <2>8, <2>9 DEF Shapes, claims, history
  <2>11. Stages(p, g)
    BY <1>1, <1>5, <2>5, <2>8 DEF Stages
  <2>12. Effect
    BY <2>8, <2>9, <2>10, <2>11
    DEF Effect, OpEffect, ClaimEffect, TellEffect, AckEffect, claims, history
  <2>13. ASSUME NEW q \in Process, NEW h \in Gen, Publishes(q, h) PROVE FALSE
    <3>1. Pending(h) /\ op'[h].kind = "committed"
      BY <2>13 DEF Publishes
    <3> QED
      BY <2>5, <2>8, <3>1 DEF Pending
  <2>14. Latest' = Latest /\ LatestGen' = LatestGen
    BY <2>12, <2>13, LatestStays
  <2>15. Known' = Known
    BY <2>14 DEF Known
  <2>16. proc'[p].gen = g /\ op'[proc'[p].gen].state = s
    BY <2>5, <2>6, <2>7, <2>8
  <2>17. Readable(s) => Readable(op'[proc'[p].gen].state)
    BY <2>16
  <2>18. Staged(p)'
    <3>1. proc'[p].base = LatestGen'
      BY <2>4, <2>6, <2>7, <2>14
    <3>2. proc'[p].reply = reply /\ proc'[p].job = proc[p].job
      BY <2>6, <2>7
    <3> QED
      BY <2>1, <2>14, <2>15, <2>16, <2>17, <3>1, <3>2 DEF Staged, Follows
  <2>19. PathMove(p) /\ Retires(p)'
    BY <1>1, <2>6, <2>7 DEF PathMove, Retires
  <2>20. GenMove(p) /\ Sane(p)'
    BY <1>1, <2>6, <2>7, <2>12, <2>18, <2>19, OnwardIsSane DEF Climbed, Owning
  <2> QED
    BY <2>7, <2>12, <2>19, <2>20 DEF Sound, GoodMove
<1> QED
  BY <1>3, <1>4, <1>5

LEMMA PublishIsSound ==
  ASSUME UInv, NEW p \in Process, Publish(p)
  PROVE  Sound
<1>1. /\ Shapes /\ Numbered(p) /\ Staged(p) /\ proc[p].pc = "publish"
      /\ proc[p].pc \in Climbed /\ proc[p] \in ProcState
  BY DEF UInv, Shapes, Sane, Publish, At, Climbed, Owning
<1> DEFINE g == proc[p].gen
           reply == proc[p].reply
<1>2. g \in Gen
  BY <1>1, ProcShape DEF Numbered
<1>3. CASE ~Pending(g)
  <2>1. Lost(p) /\ Unseen
    BY <1>3 DEF Publish, Unseen
  <2> QED
    BY <1>1, <2>1, LostIsSound
<1>4. CASE Pending(g)
  <2>1. Rename(g, "committed")
    BY <1>4 DEF Publish
  <2>2. /\ op' \in [Gen -> Operation] /\ op'[g].kind = "committed"
        /\ op'[g].state = op[g].state
        /\ \A h \in Gen \ {g} : op'[h] = op[h]
    BY <1>1, <1>2, <2>1, RenameMoves DEF Kind
  <2>3. UNCHANGED <<reserved, claims, clock, aborts>>
    BY DEF Publish
  <2>4. proc' \in [Process -> ProcState] /\ MovesAlone(p) /\ proc'[p] = Idle
    <3>1. Become(p, Idle)
      BY <1>4 DEF Publish, Return
    <3> QED
      BY <1>1, <3>1, IdleRow, RowMoves
  <2>5. Publishes(p, g)
    BY <1>1, <1>4, <2>2, <2>4, IdleRow DEF Publishes
  <2>6. op[g].state \in State
    BY <1>1, <1>2, OperationShape
  <2>7. /\ notified' \subseteq Digest /\ acknowledged' \subseteq Digest
        /\ acknowledged \subseteq acknowledged' /\ TellEffect /\ AckEffect
    <3>1. CASE proc[p].job = "check"
      <4>1. notified' = notified \union ({reply} \ {None}) /\ acknowledged' = acknowledged
        BY <1>4, <3>1 DEF Publish, Return
      <4>2. reply # None => reply \in op[g].state.offered /\ reply \notin op[g].state.acked
        BY <1>1, <1>4, <3>1 DEF Staged
      <4>3. acknowledged \subseteq op[g].state.acked
        BY <1>1, <1>4 DEF Staged, UInv, AcksAreDurable
      <4>4. TellEffect
        BY <1>2, <2>5, <4>1, <4>2, <4>3 DEF TellEffect
      <4> QED
        BY <1>1, <2>6, <4>1, <4>2, <4>4 DEF Shapes, State, AckEffect
    <3>2. CASE proc[p].job # "check"
      <4>1. /\ acknowledged' = acknowledged \union {reply}
            /\ notified' = notified \ {reply} /\ proc[p].job = "ack"
        BY <1>1, <1>4, <3>2 DEF Publish, ProcState
      <4>2. reply \in op[g].state.acked
        BY <1>1, <1>4, <4>1 DEF Staged
      <4>3. AckEffect
        BY <1>2, <2>5, <4>1, <4>2 DEF AckEffect
      <4> QED
        BY <1>1, <2>6, <4>1, <4>2, <4>3 DEF Shapes, State, TellEffect
    <3> QED
      BY <3>1, <3>2
  <2>8. Shapes'
    BY <1>1, <2>2, <2>3, <2>4, <2>7 DEF Shapes, claims
  <2>9. Effect
    BY <2>2, <2>3, <2>5, <2>7, <2>8 DEF Effect, OpEffect, ClaimEffect, claims
  <2> QED
    BY <2>4, <2>9, ReturnedIsGood DEF Sound
<1> QED
  BY <1>3, <1>4

-----------------------------------------------------------------------------
(* The invariant *)

LEMMA InvariantStarts ==
  ASSUME Init
  PROVE  UInv
<1>1. EmptyState \in State
  BY BoundsAreNatural DEF EmptyState, State
<1>2. NoOperation \in Operation /\ NoOperation.kind = "none"
  BY <1>1 DEF NoOperation, Operation, Kind
<1>3. \A g \in Gen : op[g].kind = "none"
  BY <1>2 DEF Init
<1>4. active \in Absent..MaxGen
  BY BoundsAreNatural DEF Init, Absent, Corrupt
<1>5. Shapes
  BY <1>2, <1>4, IdleRow, BoundsAreNatural DEF Init, Shapes
<1>6. \A p \in Process : proc[p] = Idle
  BY DEF Init
<1>7. ASSUME NEW p \in Process PROVE Sane(p) /\ Overtaken(p)
  <2>1. proc[p].pc = "idle" /\ proc[p].gen = 0 /\ proc[p].now = 0 /\ proc[p].seen = {}
    BY <1>6, IdleRow
  <2> QED
    BY <1>3, <2>1, BoundsAreNatural
    DEF Sane, Numbered, Remembers, Retires, HasClaim, Replies, Staged, Overtaken,
        Climbed, Owning
<1>8. \A p, q \in Process : Fenced(p, q)
  BY <1>6, IdleRow DEF Fenced, Climbed, Owning
<1>9. Distinct
  BY <1>6, IdleRow DEF Distinct
<1>10. Fresher /\ CommitsAreReadable
  BY <1>3 DEF Fresher, CommitsAreReadable
<1>11. Commits = {}
  BY <1>3 DEF Commits
<1>12. HasLatest
  BY <1>11 DEF HasLatest
<1>13. ClaimIsSigned
  BY GenIsPositive DEF Init, ClaimIsSigned, Absent, Corrupt
<1>14. OffersAcknowledgeable /\ AcksAreDurable
  BY DEF Init, OffersAcknowledgeable, AcksAreDurable
<1> QED
  BY <1>5, <1>7, <1>8, <1>9, <1>10, <1>12, <1>13, <1>14 DEF UInv

LEMMA StepIsSound ==
  ASSUME UInv, [Next]_vars
  PROVE  Sound
<1>1. ASSUME NEW p \in Process, Step(p) PROVE Sound
  <2>1. Look(p) \/ Reserve(p) \/ Create(p) \/ Sign(p) \/ Climb(p) \/ Inspect(p)
        \/ Retire(p) => Sound
    BY LookIsSound, ReserveIsSound, CreateIsSound, SignIsSound, ClimbIsSound,
       InspectIsSound, RetireIsSound, Zenon
  <2>2. Move(p) \/ Promote(p) \/ Confirm(p) \/ Cancel(p) \/ Denied(p) \/ Reread(p)
        \/ Own(p) => Sound
    BY MoveIsSound, PromoteIsSound, ConfirmIsSound, CancelIsSound, DeniedIsSound,
       RereadIsSound, OwnIsSound, Zenon
  <2>3. Fetched(p) \/ Claim(p) \/ List(p) \/ Fence(p) \/ Reclaim(p) \/ Stage(p)
        \/ Publish(p) => Sound
    BY FetchedIsSound, ClaimIsSound, ListIsSound, FenceIsSound, ReclaimIsSound,
       StageIsSound, PublishIsSound, Zenon
  <2> QED
    BY <1>1, <2>1, <2>2, <2>3, Zenon DEF Step
<1>2. CASE UNCHANGED vars
  <2>1. Unseen /\ proc' = proc
    BY <1>2 DEF vars, Unseen, claims, history
  <2>2. Effect
    BY <2>1, UnseenEffect DEF UInv, Shapes
  <2> QED
    BY <2>1, <2>2 DEF Sound
<1> QED
  BY <1>1, <1>2, AgeCorruptIsSound, TickIsSound, AgeIsSound, CheckIsSound,
     AbortIsSound, AckIsSound, Zenon DEF Next

-----------------------------------------------------------------------------
(* Theorems *)

(* The places and memories of all processes, the directories and the       *)
(* claims stay as the protocol needs them (check-update.mjs).              *)
THEOREM CacheStaysSound == Spec => []UInv
<1>1. Init => UInv
  BY InvariantStarts
<1>2. UInv /\ [Next]_vars => UInv'
  BY StepIsSound, InvariantStays
<1> QED
  BY <1>1, <1>2, PTL DEF Spec

(* The cache is always readable, keeps every acknowledgement that was      *)
(* reported, and what was offered to the user can be acknowledged.         *)
THEOREM CacheIsSound == Spec => []CacheSound
<1>1. UInv => CacheSound
  BY DEF UInv, CacheSound, TypeOK, Shapes, Distinct
<1> QED
  BY <1>1, CacheStaysSound, PTL

(* Of the processes that act as owner at most one is within its lease.     *)
THEOREM OwnersAreSingle == Spec => []OneLiveOwner
<1>1. UInv => OneLiveOwner
  <2> SUFFICES ASSUME UInv, NEW p \in Process, NEW q \in Process,
                      proc[p].pc \in Owning /\ Live(proc[p].gen),
                      proc[q].pc \in Owning /\ Live(proc[q].gen)
               PROVE  p = q
    BY DEF OneLiveOwner
  <2>1. HasClaim(p) /\ HasClaim(q) /\ Numbered(p)
    BY DEF UInv, Sane
  <2>2. proc[p].gen = proc[q].gen /\ proc[p].gen # 0
    BY <2>1 DEF HasClaim, Numbered, Climbed
  <2> QED
    BY <2>2 DEF UInv, Distinct
<1> QED
  BY <1>1, CacheStaysSound, PTL

(* Each commit is made from the state of the one before it, and nobody is  *)
(* told of a release again whose acknowledgement he had reported before    *)
(* the check began.                                                        *)
THEOREM CommitsDoStand == Spec => CommitsStand
<1> DEFINE InOrder ==
             \A g \in Gen :
               op[g].kind # "committed" /\ op'[g].kind = "committed"
               => /\ \A h \in Gen : op[h].kind = "committed" => h < g
                  /\ \E p \in Process : proc[p].gen = g /\ proc[p].base = LatestGen
           Once ==
             \A d \in (notified' \ notified) \intersect acknowledged :
               \E p \in Process :
                 ~At(p, "idle") /\ proc'[p].pc = "idle" /\ d \notin proc[p].seen
<1>1. UInv /\ [Next]_vars => InOrder
  <2> SUFFICES ASSUME UInv, [Next]_vars, NEW g \in Gen, op[g].kind # "committed",
                      op'[g].kind = "committed"
               PROVE  /\ \A h \in Gen : op[h].kind = "committed" => h < g
                      /\ \E p \in Process : proc[p].gen = g /\ proc[p].base = LatestGen
    OBVIOUS
  <2>1. PICK p \in Process : Publishes(p, g)
    BY StepIsSound, CommittedBefore DEF Sound
  <2> QED
    BY <2>1, PublishedLast DEF Publishes
<1>2. UInv /\ [Next]_vars => Once
  <2> SUFFICES ASSUME UInv, [Next]_vars PROVE Once
    OBVIOUS
  <2>1. TellEffect
    BY StepIsSound DEF Sound, Effect
  <2> QED
    BY <2>1 DEF TellEffect
<1>3. CommitsStand <=> [][InOrder]_vars /\ [][Once]_vars
  BY DEF CommitsStand, CommitsInOrder, NotNotifiedAgain
<1> HIDE DEF InOrder, Once
<1> QED
  BY <1>1, <1>2, <1>3, CacheStaysSound, PTL DEF Spec

(* Nobody takes away the claim of an owner within its lease, even when he  *)
(* was delayed between looking at it and renaming it.                      *)
THEOREM BusyClaimsStay == Spec => OnlyDoneClaimsRetire
<1>1. UInv /\ [Next]_vars => (active # Absent /\ active' # active => ~Busy)
  <2> SUFFICES ASSUME UInv, [Next]_vars, active # Absent, active' # active
               PROVE  ~Busy
    OBVIOUS
  <2>1. Over(active)
    BY StepIsSound, ClaimMoves DEF Sound
  <2> QED
    BY <2>1, OverIsIdle
<1> QED
  BY <1>1, CacheStaysSound, PTL DEF Spec, OnlyDoneClaimsRetire

=============================================================================
