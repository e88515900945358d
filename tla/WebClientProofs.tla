---------------------------- MODULE WebClientProofs ----------------------------
(***************************************************************************)
(* The conversation view and the lists of the web client, for any number   *)
(* of conversations, runs, functions and items: what is on the screen is   *)
(* of one run (BothInv), it is up to date at rest (RInv), and a cached     *)
(* list shows what the server said last (LInv).                            *)
(***************************************************************************)
EXTENDS RunView, ListViews, FiniteSetTheorems, SequenceTheorems,
        WellFoundedInduction, TLAPS

(***************************************************************************)
(* The conversation view: what its variables are made of.                  *)
(***************************************************************************)
Statuses == {"none", "going", "waiting", "over"}
Approved == {"none", "pending", "decided", "cancelled"}
Kinds    == {None, "load", "send", "decide", "stop"}
Ats      == Requests \cup Streaming \cup {"none", "done"}

Events   == {"started", "requested", "resolved", "ended"}

RunSet  == [conv : Convs \cup {None}, status : Statuses, log : Seq(Events), approval : Approved]
MsgSet  == [of : Convs \cup {None}, known : SUBSET Runs, final : SUBSET Runs]
ShowSet == [run : Runs, status : Approved]
ViewSet == [conv : Convs \cup {None}, messages : MsgSet, latest : Runs \cup {None},
            active : Runs \cup {None}, approvals : {None} \cup ShowSet,
            store : Tasks \cup {None}, stream : Tasks \cup {None}, busy : BOOLEAN]
GotSet  == {None} \cup MsgSet \cup {<<r>> : r \in Runs \cup {None}} \cup {<<"ok">>}
TaskSet == [kind : Kinds, conv : Convs \cup {None}, run : Runs \cup {None}, at : Ats,
            got : GotSet, pending : BOOLEAN, events : Seq(Nat), cursor : Nat, sent : Nat,
            drained : BOOLEAN, waiting : BOOLEAN, terminal : BOOLEAN, aborted : BOOLEAN,
            cut : BOOLEAN]

LEMMA RunsAreNumbers ==
  /\ Runs \in SUBSET Nat /\ IsFiniteSet(Runs) /\ Cardinality(Runs) \in Nat
  /\ Runs = 1 .. Cardinality(Runs)
  /\ None \notin Convs /\ None \notin Runs /\ None \notin Tasks
  /\ None # <<"ok">> /\ \A r \in Runs \cup {None} : None # <<r>>
  /\ Convs # {} /\ Tasks \in SUBSET Nat
<1>1. Cardinality(Runs) \in Nat /\ Runs = 1 .. Cardinality(Runs)
  BY RunViewAssumption, FS_CardinalityType
<1>2. Runs \in SUBSET Nat
  BY <1>1
<1>3. Tasks \in SUBSET Nat
  BY DEF Tasks
<1> QED
  BY <1>1, <1>2, <1>3, RunViewAssumption DEF Tasks

(* Every set of numbers has a least one.                                   *)
LEMMA LeastNat ==
  ASSUME NEW T, T \subseteq Nat, T # {}
  PROVE  \E x \in T : \A y \in T : x <= y
<1>1. \E x \in T : \A y \in T : ~(<<y, x>> \in OpToRel(<, Nat))
  BY WFMin, NatLessThanWellFounded
<1>2. \A x, y \in Nat : ~(<<y, x>> \in OpToRel(<, Nat)) => x <= y
  BY DEF OpToRel
<1> QED
  BY <1>1, <1>2

(* The latest of some runs is one of them, and none is later.              *)
LEMMA LatestIs ==
  ASSUME NEW S \in SUBSET Runs
  PROVE  /\ S = {} => Latest(S) = None
         /\ S # {} => Latest(S) \in S /\ \A q \in S : q <= Latest(S)
<1>1. S = {} => Latest(S) = None
  BY DEF Latest
<1>2. ASSUME S # {} PROVE Latest(S) \in S /\ \A q \in S : q <= Latest(S)
  <2> DEFINE T == {u \in Nat : \A s \in S : s <= u}
             n == Cardinality(Runs)
  <2>1. n \in Nat /\ S \subseteq Nat /\ S \subseteq 1 .. n
    BY RunsAreNumbers
  <2>2. n \in T
    BY <2>1
  <2>3. PICK u \in T : \A v \in T : u <= v
    BY <2>2, LeastNat
  <2>4. u \in S
    <3> SUFFICES ASSUME u \notin S PROVE FALSE
      OBVIOUS
    <3>1. \A s \in S : s <= u - 1
      BY <2>1
    <3>2. PICK s \in S : TRUE
      BY <1>2
    <3>3. u - 1 \in Nat
      BY <3>1, <3>2, <2>1
    <3>4. u - 1 \in T
      BY <3>1, <3>3
    <3> QED
      BY <2>3, <3>4
  <2>5. \E r \in S : \A q \in S : q <= r
    BY <2>4
  <2> QED
    BY <1>2, <2>5 DEF Latest
<1> QED
  BY <1>1, <1>2

(***************************************************************************)
(* What the steps do to a task.                                            *)
(***************************************************************************)
\* (A body that ends may be cut.)
SameBut(w, k) ==
  /\ k.at # "read" => w.cut = k.cut
  /\ w.kind = k.kind /\ w.conv = k.conv /\ w.pending = k.pending /\ w.events = k.events
  /\ w.cursor = k.cursor /\ w.sent = k.sent /\ w.waiting = k.waiting /\ w.terminal = k.terminal

LEMMA NoTaskIs == NoTask \in TaskSet
<1>1. <<>> \in Seq(Nat) /\ None \in GotSet /\ "none" \in Ats /\ None \in Kinds
  BY DEF GotSet, Ats, Kinds
<1> QED
  BY <1>1 DEF NoTask, TaskSet

LEMMA GotoIs ==
  ASSUME NEW t \in Tasks, task \in [Tasks -> TaskSet], NEW at \in Ats, Goto(t, at)
  PROVE  \E w \in TaskSet : /\ task' = [task EXCEPT ![t] = w] /\ task'[t] = w
                            /\ SameBut(w, task[t]) /\ w.run = task[t].run
                            /\ w.aborted = task[t].aborted
                            /\ w.at = at /\ w.got = None
<1> DEFINE w == [task[t] EXCEPT !.at = at, !.got = None]
<1>1. None \in GotSet /\ task[t] \in TaskSet
  BY DEF GotSet
<1>2. /\ w \in TaskSet /\ w.run = task[t].run /\ w.aborted = task[t].aborted
      /\ w.at = at /\ w.got = None /\ SameBut(w, task[t])
  BY <1>1 DEF TaskSet, SameBut
<1>3. task' = [task EXCEPT ![t] = w]
  BY DEF Goto
<1> HIDE DEF w
<1> QED
  BY <1>2, <1>3

Answered(t, value) == task' = [task EXCEPT ![t].got = value]

LEMMA AnsweredIs ==
  ASSUME NEW t \in Tasks, task \in [Tasks -> TaskSet], NEW value \in GotSet, Answered(t, value)
  PROVE  \E w \in TaskSet : /\ task' = [task EXCEPT ![t] = w] /\ task'[t] = w
                            /\ SameBut(w, task[t]) /\ w.run = task[t].run
                            /\ w.aborted = task[t].aborted
                            /\ w.at = task[t].at /\ w.got = value
<1> DEFINE w == [task[t] EXCEPT !.got = value]
<1>1. task[t] \in TaskSet
  OBVIOUS
<1>2. /\ w \in TaskSet /\ w.run = task[t].run /\ w.aborted = task[t].aborted
      /\ w.at = task[t].at /\ w.got = value /\ SameBut(w, task[t])
  BY <1>1 DEF TaskSet, SameBut
<1>3. task' = [task EXCEPT ![t] = w]
  BY DEF Answered
<1> HIDE DEF w
<1> QED
  BY <1>2, <1>3

LEMMA DoneIs ==
  ASSUME NEW t \in Tasks, task \in [Tasks -> TaskSet], Done(t)
  PROVE  \E w \in TaskSet : /\ task' = [task EXCEPT ![t] = w] /\ task'[t] = w
                            /\ w.kind = task[t].kind /\ w.conv = task[t].conv
                            /\ w.run = task[t].run /\ w.terminal = task[t].terminal
                            /\ w.at = "done" /\ w.got = None /\ w.events = <<>>
                            /\ w.cursor = 0 /\ w.sent = 0 /\ w.aborted = FALSE /\ w.cut = task[t].cut
<1> DEFINE w == [NoTask EXCEPT !.kind = task[t].kind, !.conv = task[t].conv,
                               !.run = task[t].run, !.at = "done", !.terminal = task[t].terminal,
                               !.cut = task[t].cut]
<1>1. NoTask \in TaskSet /\ task[t] \in TaskSet /\ "done" \in Ats
  BY NoTaskIs DEF Ats
<1>2. NoTask.got = None /\ NoTask.events = <<>> /\ NoTask.cursor = 0 /\ NoTask.sent = 0
      /\ NoTask.aborted = FALSE
  BY DEF NoTask
<1>3. /\ w \in TaskSet
      /\ w.kind = task[t].kind /\ w.conv = task[t].conv
      /\ w.run = task[t].run /\ w.terminal = task[t].terminal
      /\ w.at = "done" /\ w.got = None /\ w.events = <<>>
      /\ w.cursor = 0 /\ w.sent = 0 /\ w.aborted = FALSE /\ w.cut = task[t].cut
  BY <1>1, <1>2 DEF TaskSet
<1>4. task' = [task EXCEPT ![t] = w]
  BY DEF Done
<1> HIDE DEF w
<1> QED
  BY <1>3, <1>4

\* A task is as it was, but for its signal.
Kept(u, tasks) ==
  /\ SameBut(tasks[u], task[u]) /\ tasks[u].run = task[u].run /\ tasks[u].cut = task[u].cut
  /\ tasks[u].at = task[u].at /\ tasks[u].got = task[u].got
  /\ tasks[u].aborted = (task[u].aborted \/ (u = view.stream /\ InFlight(u)))

LEMMA AbortIs ==
  ASSUME task \in [Tasks -> TaskSet], view \in ViewSet
  PROVE  AbortStream(task) \in [Tasks -> TaskSet] /\ \A u \in Tasks : Kept(u, AbortStream(task))
<1>1. CASE view.stream = None \/ ~InFlight(view.stream)
  <2>1. AbortStream(task) = task
    BY <1>1 DEF AbortStream
  <2>2. \A u \in Tasks : task[u] \in TaskSet /\ ~(u = view.stream /\ InFlight(u))
    BY <1>1, RunsAreNumbers
  <2>3. \A u \in Tasks : task[u].aborted \in BOOLEAN
    BY <2>2 DEF TaskSet
  <2> QED
    BY <2>1, <2>2, <2>3 DEF Kept, SameBut
<1>2. CASE view.stream # None /\ InFlight(view.stream)
  <2>1. view.stream \in Tasks
    BY <1>2 DEF ViewSet
  <2>2. PICK s \in Tasks : s = view.stream
    BY <2>1
  <2> DEFINE w == [task[s] EXCEPT !.aborted = TRUE]
  <2>3. task[s] \in TaskSet
    OBVIOUS
  <2>4. /\ w \in TaskSet /\ SameBut(w, task[s]) /\ w.run = task[s].run /\ w.at = task[s].at
        /\ w.got = task[s].got /\ w.aborted = TRUE /\ w.cut = task[s].cut
    BY <2>3 DEF TaskSet, SameBut
  <2>5. AbortStream(task) = [task EXCEPT ![s] = w]
    BY <1>2, <2>2 DEF AbortStream
  <2> HIDE DEF w
  <2>6. /\ AbortStream(task)[s] = w /\ AbortStream(task) \in [Tasks -> TaskSet]
        /\ \A u \in Tasks : u # s => AbortStream(task)[u] = task[u]
    BY <2>4, <2>5
  <2>7. \A u \in Tasks : task[u].aborted \in BOOLEAN
    BY DEF TaskSet
  <2> QED
    BY <2>2, <2>4, <2>6, <2>7, <1>2 DEF Kept, SameBut
<1> QED
  BY <1>1, <1>2

\* A task that was just started.
Started(w, kind, conv, run, at) ==
  /\ w.kind = kind /\ w.conv = conv /\ w.run = run /\ w.at = at /\ w.got = None
  /\ w.events = <<>> /\ w.cursor = 0 /\ w.sent = 0
  /\ w.waiting = FALSE /\ w.terminal = FALSE /\ w.aborted = FALSE /\ w.cut = FALSE

(* A new task takes the first free place.                                  *)
LEMMA StartIs ==
  ASSUME NEW tasks \in [Tasks -> TaskSet], \E t \in Tasks : tasks[t].at = "none",
         NEW kind \in Kinds, NEW conv \in Convs \cup {None}, NEW run \in Runs \cup {None}, NEW at \in Ats
  PROVE  \E n \in Tasks, w \in TaskSet :
           /\ tasks[n].at = "none" /\ Start(tasks, kind, conv, run, at) = [tasks EXCEPT ![n] = w]
           /\ Started(w, kind, conv, run, at)
<1> DEFINE Free == {t \in Tasks : tasks[t].at = "none"}
           First(t) == tasks[t].at = "none" /\ \A u \in 1 .. t - 1 : tasks[u].at # "none"
           n == CHOOSE t \in Tasks : First(t)
           w == [NoTask EXCEPT !.kind = kind, !.conv = conv, !.run = run, !.at = at]
<1>1. \E t \in Tasks : First(t)
  <2>1. Free \subseteq Nat /\ Free # {}
    BY RunsAreNumbers
  <2>2. PICK x \in Free : \A y \in Free : x <= y
    BY <2>1, LeastNat
  <2>3. \A u \in 1 .. x - 1 : u \in Tasks /\ u < x
    BY <2>1, <2>2, RunViewAssumption DEF Tasks
  <2>4. \A u \in 1 .. x - 1 : u \notin Free
    BY <2>1, <2>2, <2>3, RunsAreNumbers
  <2> QED
    BY <2>2, <2>3, <2>4
<1>2. n \in Tasks /\ First(n)
  BY <1>1
<1>3. NoTask.got = None /\ NoTask.events = <<>> /\ NoTask.cursor = 0 /\ NoTask.sent = 0
      /\ NoTask.aborted = FALSE /\ NoTask.pending = FALSE /\ NoTask.waiting = FALSE
      /\ NoTask.terminal = FALSE /\ NoTask.cut = FALSE
  BY DEF NoTask
<1>4. /\ w \in TaskSet
      /\ w.kind = kind /\ w.conv = conv /\ w.run = run /\ w.at = at /\ w.got = None
      /\ w.pending = FALSE /\ w.events = <<>> /\ w.cursor = 0 /\ w.sent = 0
      /\ w.waiting = FALSE /\ w.terminal = FALSE /\ w.aborted = FALSE /\ w.cut = FALSE
  BY NoTaskIs, <1>3 DEF TaskSet
<1>5. Start(tasks, kind, conv, run, at) = [tasks EXCEPT ![n] = w]
  BY DEF Start
<1>6. tasks[n].at = "none"
  BY <1>2
<1>7. Started(w, kind, conv, run, at)
  BY <1>4 DEF Started
<1> HIDE DEF n, w, First
<1> QED
  BY <1>2, <1>4, <1>5, <1>6, <1>7

LEMMA ConsumeIs ==
  ASSUME NEW t \in Tasks, NEW r \in Runs, NEW v, task \in [Tasks -> TaskSet], view \in ViewSet,
         Consume(t, r, v)
  PROVE  /\ view' = [v EXCEPT !.store = t, !.active = r, !.stream = t]
         /\ task' \in [Tasks -> TaskSet]
         /\ \A u \in Tasks : u # t => Kept(u, task')
         /\ SameBut(task'[t], task[t]) /\ task'[t].run = r /\ task'[t].at = "connect"
         /\ task'[t].got = None /\ task'[t].cut = task[t].cut
         /\ task'[t].aborted = (task[t].aborted \/ (t = view.stream /\ InFlight(t)))
<1> DEFINE a == AbortStream(task)
           w == [a[t] EXCEPT !.run = r, !.at = "connect", !.got = None]
<1>1. a \in [Tasks -> TaskSet] /\ \A u \in Tasks : Kept(u, a)
  BY AbortIs
<1>2. task' = [a EXCEPT ![t].run = r, ![t].at = "connect", ![t].got = None]
  BY DEF Consume
<1> HIDE DEF a
<1>3. task' = [a EXCEPT ![t] = w]
  BY <1>1, <1>2
<1>4. a[t] \in TaskSet /\ "connect" \in Ats /\ None \in GotSet
  BY <1>1 DEF Ats, Streaming, GotSet
<1>5. /\ w \in TaskSet /\ SameBut(w, a[t]) /\ w.run = r /\ w.at = "connect" /\ w.got = None
      /\ w.aborted = a[t].aborted /\ w.cut = a[t].cut
  BY <1>4 DEF TaskSet, SameBut
<1> HIDE DEF w
<1>6. task'[t] = w /\ task' \in [Tasks -> TaskSet] /\ \A u \in Tasks : u # t => task'[u] = a[u]
  BY <1>1, <1>3, <1>5
<1>7. \A u \in Tasks : u # t => Kept(u, task')
  BY <1>1, <1>6 DEF Kept, SameBut
<1>8. /\ SameBut(task'[t], task[t]) /\ task'[t].cut = task[t].cut
      /\ task'[t].aborted = (task[t].aborted \/ (t = view.stream /\ InFlight(t)))
  BY <1>1, <1>5, <1>6 DEF Kept, SameBut
<1>9. view' = [v EXCEPT !.store = t, !.active = r, !.stream = t]
  BY DEF Consume
<1> QED
  BY <1>5, <1>6, <1>7, <1>8, <1>9

(***************************************************************************)
(* The runs at the server.                                                 *)
(***************************************************************************)
\* The logs of a run: its first one, two or three events, and the last.
Began(log, n) ==
  /\ n \in 1 .. 3 /\ log[1] = "started"
  /\ n >= 2 => log[2] = "requested"
  /\ n >= 3 => log[3] = "resolved"
Ended(log) == \E n \in 1 .. 3 : Began(log, n) /\ Len(log) = n + 1 /\ log[n + 1] = "ended"

RunOK(k) ==
  \/ k = NoRun
  \/ /\ k.conv \in Convs /\ k.status = "going" /\ Began(k.log, Len(k.log))
     /\ k.approval = IF Len(k.log) = 1 THEN "none" ELSE "decided"
  \/ /\ k.conv \in Convs /\ k.status = "waiting"
     /\ Began(k.log, 2) /\ Len(k.log) = 2 /\ k.approval = "pending"
  \/ /\ k.conv \in Convs /\ k.status = "over"
     /\ k.approval \in {"none", "decided", "cancelled"} /\ Ended(k.log)

ServerOK == srv \in [Runs -> RunSet] /\ \A r \in Runs : RunOK(srv[r])

Ongoing(r) == srv[r].status \in {"going", "waiting"}

\* What is known of a run stays true of it.
RunGrows(k, l) ==
  /\ k.conv # None => l.conv = k.conv
  /\ k.status = "over" => l.status = "over"
  /\ k.status # "none" => l.status # "none"
  /\ Len(k.log) <= Len(l.log) /\ \A i \in 1 .. Len(k.log) : l.log[i] = k.log[i]

Grows == \A r \in Runs : RunGrows(srv[r], srv'[r])

\* No run is created.
NoneNew == \A r \in Runs : srv'[r].conv = srv[r].conv /\ (Ongoing(r)' => Ongoing(r))

RunWith(k, log, s, a) == [k EXCEPT !.log = log, !.status = s, !.approval = a]

(* A run that changes.                                                     *)
LEMMA RunIs ==
  ASSUME NEW k \in RunSet, NEW log \in Seq(Events), NEW s \in Statuses, NEW a \in Approved
  PROVE  /\ RunWith(k, log, s, a) \in RunSet /\ RunWith(k, log, s, a).conv = k.conv
         /\ RunWith(k, log, s, a).log = log /\ RunWith(k, log, s, a).status = s
         /\ RunWith(k, log, s, a).approval = a
<1> DEFINE logs == Seq(Events)
<1>1. RunSet = [conv : Convs \cup {None}, status : Statuses, log : logs, approval : Approved]
  BY DEF RunSet
<1>2. log \in logs
  OBVIOUS
<1> HIDE DEF logs
<1> QED
  BY <1>1, <1>2 DEF RunWith

(* Appending the ending to a log that began.                               *)
LEMMA LogsAppend ==
  ASSUME NEW log \in Seq(Events), Began(log, Len(log)), NEW e \in Events
  PROVE  /\ Append(log, e) \in Seq(Events) /\ Len(Append(log, e)) = Len(log) + 1
         /\ Began(Append(log, e), Len(log)) /\ Append(log, e)[Len(log) + 1] = e
         /\ e = "ended" => Ended(Append(log, e))
<1>1. /\ Append(log, e) \in Seq(Events) /\ Len(Append(log, e)) = Len(log) + 1 /\ Len(log) \in Nat
      /\ \A i \in 1 .. Len(log) : Append(log, e)[i] = log[i]
      /\ Append(log, e)[Len(log) + 1] = e
  OBVIOUS
<1>2. Began(Append(log, e), Len(log))
  BY <1>1 DEF Began
<1> QED
  BY <1>1, <1>2 DEF Ended, Began

LEMMA AppendGrows ==
  ASSUME NEW k \in RunSet, NEW l \in RunSet,
         NEW e \in Events, l.log = Append(k.log, e),
         l.conv = k.conv, k.status = "over" => l.status = "over", k.status # "none" => l.status # "none"
  PROVE  RunGrows(k, l)
<1>1. k.log \in Seq(Events)
  BY DEF RunSet
<1> QED
  BY <1>1 DEF RunGrows

LEMMA SameGrows == ASSUME NEW k \in RunSet PROVE RunGrows(k, k)
<1>1. Len(k.log) \in Nat
  BY DEF RunSet
<1> QED
  BY <1>1 DEF RunGrows

\* One run changes, and keeps its conversation.
LEMMA OneRun ==
  ASSUME ServerOK, NEW r \in Runs, NEW l \in RunSet, srv' = [srv EXCEPT ![r] = l],
         RunOK(l), RunGrows(srv[r], l), l.conv = srv[r].conv,
         l.status \in {"going", "waiting"} => Ongoing(r)
  PROVE  ServerOK' /\ Grows /\ NoneNew
<1>1. srv \in [Runs -> RunSet] /\ srv'[r] = l /\ \A q \in Runs : q # r => srv'[q] = srv[q]
  BY DEF ServerOK
<1>2. srv' \in [Runs -> RunSet]
  BY <1>1
<1> QED
  BY <1>1, <1>2, SameGrows DEF ServerOK, Grows, NoneNew, Ongoing

LEMMA NoServerStep ==
  ASSUME ServerOK, UNCHANGED srv
  PROVE  ServerOK' /\ Grows /\ NoneNew
BY SameGrows DEF ServerOK, Grows, NoneNew, Ongoing

LEMMA ServerStepIs ==
  ASSUME ServerOK, ServerStep
  PROVE  /\ ServerOK' /\ Grows /\ NoneNew
         /\ \A q \in Runs : srv[q].status # "going" => srv'[q] = srv[q]
<1>1. PICK r \in Runs : /\ srv[r].status = "going"
       /\ \/ /\ srv[r].log = <<"started">>
             /\ srv' = [srv EXCEPT ![r] = [@ EXCEPT !.log = Append(srv[r].log, "requested"),
                                          !.status = "waiting", !.approval = "pending"]]
          \/ /\ srv[r].approval = "decided" /\ ~Happened(r, "resolved")
             /\ Log(r, "resolved", "going")
          \/ Log(r, "ended", "over")
  BY DEF ServerStep
<1>2. PICK k \in RunSet : k = srv[r] /\ RunOK(k) /\ srv \in [Runs -> RunSet]
  BY DEF ServerOK
<1>3. /\ k.conv \in Convs /\ Began(k.log, Len(k.log)) /\ k.log \in Seq(Events)
      /\ k.approval = IF Len(k.log) = 1 THEN "none" ELSE "decided"
  BY <1>1, <1>2 DEF RunOK, NoRun, RunSet
<1>4. ASSUME NEW l \in RunSet, srv' = [srv EXCEPT ![r] = l], l.conv = k.conv,
             NEW e \in Events, l.log = Append(k.log, e), l.status # "none",
             RunOK(l)
      PROVE  /\ ServerOK' /\ Grows /\ NoneNew
             /\ \A q \in Runs : srv[q].status # "going" => srv'[q] = srv[q]
  <2>1. RunGrows(srv[r], l)
    BY <1>1, <1>2, <1>4, AppendGrows
  <2> QED
    BY <1>1, <1>2, <1>4, <2>1, OneRun DEF Ongoing
<1>10. ASSUME NEW e \in Events
       PROVE  \E log \in Seq(Events) :
                /\ log = Append(k.log, e) /\ Len(log) = Len(k.log) + 1
                /\ Began(log, Len(k.log)) /\ log[Len(k.log) + 1] = e
                /\ e = "ended" => Ended(log)
  BY <1>3, LogsAppend
<1>11. /\ Events = {"started", "requested", "resolved", "ended"}
       /\ "waiting" \in Statuses /\ "going" \in Statuses /\ "over" \in Statuses
       /\ "pending" \in Approved /\ k.approval \in Approved /\ k.approval # "pending"
  BY <1>3 DEF Events, Statuses, Approved
<1>12. ASSUME NEW log, NEW s PROVE
         [k EXCEPT !.log = log, !.status = s]
           = [k EXCEPT !.log = log, !.status = s, !.approval = k.approval]
  BY DEF RunSet
<1>5. CASE /\ srv[r].log = <<"started">>
           /\ srv' = [srv EXCEPT ![r] = [@ EXCEPT !.log = Append(srv[r].log, "requested"),
                                          !.status = "waiting", !.approval = "pending"]]
  <2>1. PICK log \in Seq(Events) : /\ log = Append(k.log, "requested") /\ Len(log) = Len(k.log) + 1
                                   /\ Began(log, Len(k.log)) /\ log[Len(k.log) + 1] = "requested"
    BY <1>10, <1>11
  <2> DEFINE l == RunWith(k, log, "waiting", "pending")
  <2>2. /\ l \in RunSet /\ l.conv = k.conv /\ l.log = log
        /\ l.status = "waiting" /\ l.approval = "pending"
    BY <1>11, RunIs
  <2>3. srv' = [srv EXCEPT ![r] = l]
    <3>1. l = [srv[r] EXCEPT !.log = Append(srv[r].log, "requested"),
                             !.status = "waiting", !.approval = "pending"]
      BY <1>2, <2>1 DEF RunWith
    <3> HIDE DEF l
    <3> QED
      BY <1>5, <3>1
  <2> HIDE DEF l
  <2>4. Len(k.log) = 1 /\ Began(log, 2) /\ Len(log) = 2
    BY <1>2, <1>5, <2>1 DEF Began
  <2>5. RunOK(l)
    BY <1>3, <2>2, <2>4 DEF RunOK
  <2> QED
    BY <1>4, <1>11, <2>1, <2>2, <2>3, <2>5
<1>6. CASE /\ srv[r].approval = "decided" /\ ~Happened(r, "resolved")
           /\ Log(r, "resolved", "going")
  <2>1. PICK log \in Seq(Events) : /\ log = Append(k.log, "resolved") /\ Len(log) = Len(k.log) + 1
                                   /\ Began(log, Len(k.log)) /\ log[Len(k.log) + 1] = "resolved"
    BY <1>10, <1>11
  <2> DEFINE l == RunWith(k, log, "going", k.approval)
  <2>2. /\ l \in RunSet /\ l.conv = k.conv /\ l.log = log
        /\ l.status = "going" /\ l.approval = k.approval
    BY <1>11, RunIs
  <2>3. srv' = [srv EXCEPT ![r] = l]
    BY <1>2, <1>6, <1>12, <2>1 DEF Log, RunWith
  <2> HIDE DEF l
  <2>4. Len(k.log) = 2
    <3>1. Len(k.log) \in 1 .. 3 /\ Len(k.log) # 1
      BY <1>2, <1>3, <1>6 DEF Began
    <3>2. ASSUME Len(k.log) = 3 PROVE FALSE
      <4>1. 3 \in DOMAIN k.log /\ k.log[3] = "resolved"
        BY <1>3, <3>2 DEF Began
      <4> QED
        BY <4>1, <1>2, <1>6 DEF Happened
    <3> QED
      BY <3>1, <3>2
  <2>5. Began(log, 3) /\ Len(log) = 3 /\ k.approval = "decided"
    BY <1>2, <1>6, <2>1, <2>4 DEF Began
  <2>6. RunOK(l)
    BY <1>3, <2>2, <2>5 DEF RunOK
  <2> QED
    BY <1>4, <1>11, <2>1, <2>2, <2>3, <2>6
<1>7. CASE Log(r, "ended", "over")
  <2>1. PICK log \in Seq(Events) : log = Append(k.log, "ended") /\ Ended(log)
    BY <1>10, <1>11
  <2> DEFINE l == RunWith(k, log, "over", k.approval)
  <2>2. /\ l \in RunSet /\ l.conv = k.conv /\ l.log = log
        /\ l.status = "over" /\ l.approval = k.approval
    BY <1>11, RunIs
  <2>3. srv' = [srv EXCEPT ![r] = l]
    BY <1>2, <1>7, <1>12, <2>1 DEF Log, RunWith
  <2> HIDE DEF l
  <2>6. RunOK(l)
    BY <1>3, <2>1, <2>2 DEF RunOK
  <2> QED
    BY <1>4, <1>11, <2>1, <2>2, <2>3, <2>6
<1> QED
  BY <1>1, <1>5, <1>6, <1>7

LEMMA CancelledIs ==
  ASSUME ServerOK, NEW r \in Runs, srv[r].status # "none", srv' = Cancelled(r)
  PROVE  ServerOK' /\ Grows /\ NoneNew /\ srv'[r].status = "over"
<1>1. CASE srv[r].status = "over"
  BY <1>1, NoServerStep DEF Cancelled
<1>2. CASE srv[r].status # "over"
  <2>1. PICK k \in RunSet : k = srv[r] /\ RunOK(k) /\ srv \in [Runs -> RunSet]
    BY DEF ServerOK
  <2> DEFINE a == IF k.approval = "pending" THEN "cancelled" ELSE k.approval
  <2>2. /\ k.conv \in Convs /\ Began(k.log, Len(k.log)) /\ k.log \in Seq(Events)
        /\ a \in {"none", "decided", "cancelled"} /\ k.status # "none"
    <3>1. k # NoRun
      BY <2>1 DEF NoRun
    <3>2. k.conv \in Convs /\ Began(k.log, Len(k.log)) /\ k.approval \in {"none", "decided", "pending"}
      BY <1>2, <2>1, <3>1 DEF RunOK
    <3> QED
      BY <2>1, <3>2 DEF RunSet
  <2>3. "ended" \in Events /\ "over" \in Statuses /\ a \in Approved
    BY <2>2 DEF Events, Statuses, Approved
  <2>4. PICK log \in Seq(Events) : log = Append(k.log, "ended") /\ Ended(log)
    BY <2>2, <2>3, LogsAppend
  <2> DEFINE l == RunWith(k, log, "over", a)
  <2>5. srv' = [srv EXCEPT ![r] = l]
    <3>1. l = [srv[r] EXCEPT !.log = Append(srv[r].log, "ended"), !.status = "over",
                             !.approval = IF srv[r].approval = "pending" THEN "cancelled" ELSE srv[r].approval]
      BY <2>1, <2>4 DEF RunWith
    <3> HIDE DEF l
    <3> QED
      BY <1>2, <3>1 DEF Cancelled
  <2> HIDE DEF a
  <2>6. /\ l \in RunSet /\ l.conv = k.conv /\ l.log = log
        /\ l.status = "over" /\ l.approval = a
    BY <2>3, RunIs
  <2> HIDE DEF l
  <2>7. RunOK(l)
    BY <2>2, <2>4, <2>6 DEF RunOK
  <2>8. RunGrows(srv[r], l)
    BY <1>2, <2>1, <2>3, <2>4, <2>6, AppendGrows
  <2>9. ServerOK' /\ Grows /\ NoneNew
    BY <2>1, <2>5, <2>6, <2>7, <2>8, OneRun
  <2>10. srv'[r] = l
    BY <2>1, <2>5
  <2> QED
    BY <2>6, <2>9, <2>10
<1> QED
  BY <1>1, <1>2

LEMMA DecidedIs ==
  ASSUME ServerOK, NEW r \in Runs, srv[r].approval = "pending", srv' = Decided(r)
  PROVE  ServerOK' /\ Grows /\ NoneNew
<1>1. PICK k \in RunSet : k = srv[r] /\ RunOK(k) /\ srv \in [Runs -> RunSet]
  BY DEF ServerOK
<1> DEFINE l == RunWith(k, k.log, "going", "decided")
<1>2. /\ l \in RunSet /\ l.conv = k.conv /\ l.log = k.log
      /\ l.status = "going" /\ l.approval = "decided"
  <2>1. k.log \in Seq(Events) /\ "going" \in Statuses /\ "decided" \in Approved
    BY DEF RunSet, Statuses, Approved
  <2> QED
    BY <2>1, RunIs
<1>5. srv' = [srv EXCEPT ![r] = l]
  <2>1. l = [k EXCEPT !.approval = "decided", !.status = "going"]
    BY DEF RunWith, RunSet
  <2> HIDE DEF l
  <2> QED
    BY <1>1, <2>1 DEF Decided
<1> HIDE DEF l
<1>3. k.status = "waiting" /\ k.conv \in Convs /\ Began(k.log, 2) /\ Len(k.log) = 2
  BY <1>1 DEF RunOK, NoRun
<1>4. RunOK(l)
  <2>1. Began(k.log, Len(k.log))
    BY <1>3
  <2> QED
    BY <1>2, <1>3, <2>1 DEF RunOK
<1>6. RunGrows(k, l)
  <2>1. Len(k.log) <= Len(k.log)
    BY <1>3
  <2> QED
    BY <1>2, <1>3, <2>1 DEF RunGrows
<1> QED
  BY <1>1, <1>2, <1>3, <1>4, <1>5, <1>6, OneRun DEF Ongoing

LEMMA NewRunIs ==
  ASSUME NEW c \in Convs
  PROVE  NewRun(c) \in RunSet /\ RunOK(NewRun(c)) /\ NewRun(c).conv = c /\ NewRun(c).status = "going"
<1>1. "started" \in Events /\ "going" \in Statuses /\ "none" \in Approved
  BY DEF Events, Statuses, Approved
<1>2. PICK log \in Seq(Events) : log = <<"started">> /\ Len(log) = 1 /\ log[1] = "started"
  <2>1. <<"started">> \in Seq(Events) /\ Len(<<"started">>) = 1 /\ <<"started">>[1] = "started"
    BY <1>1
  <2> QED
    BY <2>1
<1>3. NewRun(c) = [conv |-> c, status |-> "going", log |-> log, approval |-> "none"]
  BY <1>2 DEF NewRun
<1>4. Began(log, Len(log))
  BY <1>2 DEF Began
<1> QED
  BY <1>1, <1>2, <1>3, <1>4 DEF RunSet, RunOK

LEMMA PostedIs ==
  ASSUME ServerOK, NEW q \in Unused, NEW c \in Convs, srv' = [srv EXCEPT ![q] = NewRun(c)]
  PROVE  /\ ServerOK' /\ Grows /\ q \in Runs /\ srv[q].conv = None
         /\ srv'[q].conv = c /\ srv'[q].status = "going"
         /\ \A r \in Runs : r # q => srv'[r] = srv[r]
<1>1. q \in Runs /\ srv[q].status = "none" /\ srv[q] \in RunSet /\ RunOK(srv[q]) /\ srv \in [Runs -> RunSet]
  BY DEF Unused, ServerOK
<1>2. srv[q] = NoRun
  BY <1>1 DEF RunOK
<1>3. /\ NewRun(c) \in RunSet /\ RunOK(NewRun(c)) /\ NewRun(c).conv = c /\ NewRun(c).status = "going"
  BY NewRunIs
<1>4. RunGrows(srv[q], NewRun(c))
  BY <1>2 DEF NoRun, NewRun, RunGrows
<1>5. srv[q].conv = None
  BY <1>2 DEF NoRun
<1>6. srv'[q] = NewRun(c) /\ srv' \in [Runs -> RunSet] /\ \A r \in Runs : r # q => srv'[r] = srv[r]
  BY <1>1, <1>3
<1>7. Grows
  BY <1>4, <1>6, SameGrows DEF Grows, ServerOK
<1> QED
  BY <1>1, <1>3, <1>5, <1>6, <1>7 DEF ServerOK

(***************************************************************************)
(* What holds of each task and of the view in every state.                 *)
(***************************************************************************)
LoadAts  == {"messages", "latest", "details", "active"}
FinalAts == {"fmessages", "flatest", "fdetails"}
StopAts  == {"cancel", "smessages", "sapprovals"}
EarlyAts == LoadAts \cup StopAts \cup {"post", "decide", "none"}

\* Where the functions of each kind wait.
KindOK(k) ==
  /\ k.at \in LoadAts => k.kind = "load"
  /\ k.at = "post" => k.kind = "send"
  /\ k.at \in {"decide", "fallback"} => k.kind = "decide"
  /\ k.at \in StopAts => k.kind = "stop"
  /\ k.at \in Streaming \cup FinalAts \cup {"approvals"} => k.kind \in {"load", "send", "decide"}

\* A function that needs a run has one, of its conversation.
RunKnown(k, s) ==
  /\ k.at \in Streaming \cup FinalAts \cup StopAts \cup {"approvals", "fallback", "decide"}
       => k.run \in Runs
  /\ k.at \notin {"none", "done"} => k.conv \in Convs
  /\ k.run # None => k.conv \in Convs /\ k.run \in Runs /\ s[k.run].conv = k.conv

\* An answer under way is of the conversation that was asked for.
AnswerKnown(k, s) ==
  /\ (k.at = "active" /\ k.got # None) =>
        \E r \in Runs \cup {None} : k.got = <<r>> /\ (r # None => s[r].conv = k.conv)
  /\ (k.at = "post" /\ k.got # None) => \E r \in Runs : k.got = <<r>> /\ s[r].conv = k.conv
  /\ (k.at \in {"messages", "fmessages", "smessages"} /\ k.got # None) =>
        k.got \in MsgSet /\ k.got.of = k.conv /\ k.got.final \subseteq k.got.known

StoreOK(k) == k.events = [i \in 1 .. k.cursor |-> i] /\ k.sent <= k.cursor

\* Only the ending of its run makes a function terminal.
EndKnown(k, s) == k.terminal => k.run \in Runs /\ s[k.run].status = "over"

\* A function that opened no stream yet.
Unopened(k) ==
  k.at \in EarlyAts => k.cursor = 0 /\ k.sent = 0 /\ ~k.waiting /\ ~k.terminal /\ ~k.aborted /\ ~k.cut

Fits(k, s) ==
  KindOK(k) /\ RunKnown(k, s) /\ AnswerKnown(k, s) /\ StoreOK(k) /\ EndKnown(k, s) /\ Unopened(k)

\* The stream that feeds the view, and the question that keeps it busy.
Feeds(v, tasks) ==
  /\ \A t \in Tasks : (tasks[t].at \in Streaming /\ ~tasks[t].aborted) => v.stream = t
  /\ v.store # None => tasks[v.store].at # "none"
  /\ v.stream # None => tasks[v.stream].at \notin EarlyAts
  /\ v.busy => \E t \in Tasks : tasks[t].at \notin {"none", "done"} /\ tasks[t].kind \in {"send", "decide"}
  /\ v.messages.final \subseteq v.messages.known

Typed ==
  /\ view \in ViewSet /\ task \in [Tasks -> TaskSet] /\ crossed \in BOOLEAN /\ faults \in Nat
  /\ ServerOK

\* A function that will do more than end.
LiveTask(k) ==
  /\ k.at \notin {"none", "done"}
  /\ ~(k.aborted /\ k.at \in {"connect", "read"} /\ k.kind # "decide")

\* Where a function waits that goes on when its conversation was closed.
Following == {"connect", "read", "sleep", "approvals"} \cup FinalAts

\* While nothing crossed, the functions that go on are those of the selected
\* conversation, and what they filled in is of that conversation.
OfView(v, tasks) ==
  \A t \in Tasks : LiveTask(tasks[t]) =>
    IF v.conv # None THEN tasks[t].conv = v.conv
    ELSE tasks[t].at \in Following /\ tasks[t].kind # "decide"
Filled(v, tasks, s) ==
  v.conv # None =>
    /\ v.store # None => tasks[v.store].conv = v.conv
    /\ v.active # None => s[v.active].conv = v.conv
    /\ v.approvals # None => s[v.approvals.run].conv = v.conv
Brought(v, tasks, s) ==
  v.conv # None =>
    /\ v.messages.of = v.conv \/ \E t \in Tasks : LiveTask(tasks[t]) /\ tasks[t].at = "messages"
    /\ \/ v.latest # None => s[v.latest].conv = v.conv
       \/ \E t \in Tasks : LiveTask(tasks[t]) /\ tasks[t].at \in {"messages", "latest"}

UInv == Typed /\ (\A t \in Tasks : Fits(task[t], srv)) /\ Feeds(view, task)
VInv ==
  ~crossed => /\ OfView(view, task) /\ Filled(view, task, srv)
              /\ faults = 0 => Brought(view, task, srv)

(* What the server learns of its runs changes nothing for a task.          *)
LEMMA FitsGrows ==
  ASSUME NEW k \in TaskSet, NEW s \in [Runs -> RunSet], NEW s2 \in [Runs -> RunSet],
         \A r \in Runs : RunGrows(s[r], s2[r]), Fits(k, s)
  PROVE  Fits(k, s2)
<1>1. \A r \in Runs : (s[r].conv # None => s2[r].conv = s[r].conv)
                      /\ (s[r].status = "over" => s2[r].status = "over")
  BY DEF RunGrows
<1>2. k.conv \in Convs => k.conv # None
  BY RunsAreNumbers
<1>3. RunKnown(k, s2)
  BY <1>1, <1>2 DEF Fits, RunKnown
<1>4. k.at \notin {"none", "done"} => k.conv \in Convs
  BY DEF Fits, RunKnown
<1>5. AnswerKnown(k, s2)
  <2>1. "active" \notin {"none", "done"} /\ "post" \notin {"none", "done"}
    OBVIOUS
  <2>2. (k.at = "active" /\ k.got # None) =>
          \E r \in Runs \cup {None} : k.got = <<r>> /\ (r # None => s2[r].conv = k.conv)
    BY <1>1, <1>2, <1>4, <2>1 DEF Fits, AnswerKnown
  <2>3. (k.at = "post" /\ k.got # None) => \E r \in Runs : k.got = <<r>> /\ s2[r].conv = k.conv
    BY <1>1, <1>2, <1>4, <2>1 DEF Fits, AnswerKnown
  <2> QED
    BY <2>2, <2>3 DEF Fits, AnswerKnown
<1>6. EndKnown(k, s2)
  BY <1>1 DEF Fits, EndKnown
<1> QED
  BY <1>3, <1>5, <1>6 DEF Fits

(* A task that goes on from one request to another.                        *)
LEMMA FitsMoves ==
  ASSUME NEW k \in TaskSet, NEW w \in TaskSet, NEW s, Fits(k, s), SameBut(w, k), w.run = k.run,
         w.got = None \/ (w.at = k.at /\ w.got = k.got),
         KindOK(w),
         w.at \in Streaming \cup FinalAts \cup StopAts \cup {"approvals", "fallback", "decide"}
           => k.run \in Runs,
         w.at \notin {"none", "done"} => k.conv \in Convs,
         w.at \in EarlyAts => k.at \in EarlyAts /\ w.aborted = k.aborted
  PROVE  Fits(w, s)
<1>1. RunKnown(w, s)
  BY DEF Fits, RunKnown, SameBut
<1>2. AnswerKnown(w, s)
  BY DEF Fits, AnswerKnown, SameBut
<1>3. StoreOK(w) /\ EndKnown(w, s) /\ Unopened(w)
  <2>1. k.at \in EarlyAts => k.at # "read"
    BY DEF EarlyAts, LoadAts, StopAts
  <2> QED
    BY <2>1 DEF Fits, StoreOK, EndKnown, SameBut, Unopened
<1> QED
  BY <1>1, <1>2, <1>3 DEF Fits

LEMMA FitsDone ==
  ASSUME NEW k \in TaskSet, NEW w \in TaskSet, NEW s, Fits(k, s),
         w.kind = k.kind, w.conv = k.conv, w.run = k.run, w.terminal = k.terminal,
         w.at = "done", w.got = None, w.events = <<>>, w.cursor = 0, w.sent = 0
  PROVE  Fits(w, s) /\ ~LiveTask(w)
<1>1. StoreOK(w)
  <2>1. <<>> = [i \in 1 .. 0 |-> i]
    OBVIOUS
  <2> QED
    BY <2>1 DEF StoreOK
<1>2. KindOK(w) /\ Unopened(w)
  BY DEF KindOK, LoadAts, FinalAts, StopAts, Streaming, Unopened, EarlyAts
<1>3. RunKnown(w, s) /\ AnswerKnown(w, s) /\ EndKnown(w, s)
  BY DEF Fits, RunKnown, AnswerKnown, EndKnown, FinalAts, StopAts, Streaming
<1> QED
  BY <1>1, <1>2, <1>3 DEF Fits, LiveTask

(***************************************************************************)
(* The three shapes of a step: a task goes on, a task takes the stream, a  *)
(* task is started.                                                        *)
(***************************************************************************)
BothInv == UInv /\ VInv

\* The rest of the state after a step of the client.
SrvGrows ==
  /\ ServerOK' /\ Grows /\ view' \in ViewSet /\ crossed' \in BOOLEAN /\ faults' \in Nat
  /\ crossed => crossed'
  /\ faults' = 0 => faults = 0

\* Task t goes on as w, and writes to the view what its conversation holds.
Writes(v, w) ==
  view.conv # None =>
    /\ view'.active # None => view'.active = view.active \/ srv'[view'.active].conv = w.conv
    /\ view'.approvals # None =>
         \/ view.approvals # None /\ view'.approvals.run = view.approvals.run
         \/ srv'[view'.approvals.run].conv = w.conv
    /\ faults' = 0 =>
         /\ view'.messages.of = w.conv \/ view'.messages.of = view.messages.of
         /\ view'.latest = view.latest \/ (view'.latest # None => srv'[view'.latest].conv = w.conv)

LEMMA GoesOn ==
  ASSUME BothInv, SrvGrows, NEW t \in Tasks, NEW w \in TaskSet,
         task' = [task EXCEPT ![t] = w], InFlight(t),
         w.conv = task[t].conv, w.kind = task[t].kind, w.at # "none", Fits(w, srv'),
         view'.conv = view.conv, view'.store = view.store, view'.stream = view.stream,
         view'.messages.final \subseteq view'.messages.known,
         (w.at \in Streaming /\ ~w.aborted) => task[t].at \in Streaming /\ ~task[t].aborted,
         w.at \in EarlyAts => task[t].at \in EarlyAts,
         view'.busy => view.busy /\ (w.at # "done" \/ task[t].kind \notin {"send", "decide"}),
         LiveTask(w) => LiveTask(task[t]),
         (task[t].at \in Following /\ task[t].kind # "decide" /\ LiveTask(w)) => w.at \in Following,
         \/ LiveTask(task[t]) /\ Writes(view, w)
         \/ /\ view'.active = view.active /\ view'.approvals = view.approvals
            /\ view'.messages = view.messages /\ view'.latest = view.latest,
         (faults' = 0 /\ LiveTask(task[t]) /\ task[t].at = "messages") =>
           w.at = "messages" \/ view'.messages.of = w.conv,
         (faults' = 0 /\ LiveTask(task[t]) /\ task[t].at \in {"messages", "latest"}) =>
           \/ LiveTask(w) /\ w.at \in {"messages", "latest"}
           \/ view'.latest # None => srv'[view'.latest].conv = w.conv,
         (w.at = "messages" /\ task[t].at = "messages") => LiveTask(w)
  PROVE  BothInv'
<1>1. /\ view \in ViewSet /\ task \in [Tasks -> TaskSet] /\ ServerOK
      /\ \A u \in Tasks : Fits(task[u], srv)
  BY DEF BothInv, UInv, Typed
<1>2. /\ task' \in [Tasks -> TaskSet] /\ task'[t] = w
      /\ \A u \in Tasks : u # t => task'[u] = task[u]
  BY <1>1
<1>3. /\ srv \in [Runs -> RunSet] /\ srv' \in [Runs -> RunSet]
      /\ \A r \in Runs : RunGrows(srv[r], srv'[r])
  BY <1>1 DEF SrvGrows, ServerOK, Grows
<1>4. \A u \in Tasks : Fits(task'[u], srv')
  BY <1>1, <1>2, <1>3, FitsGrows
<1>5. Feeds(view', task')
  <2>1. Feeds(view, task)
    BY DEF BothInv, UInv
  <2>2. \A u \in Tasks : (task'[u].at \in Streaming /\ ~task'[u].aborted) => view'.stream = u
    BY <1>2, <2>1 DEF Feeds
  <2>3. /\ view'.store # None => task'[view'.store].at # "none"
        /\ view'.stream # None => task'[view'.stream].at \notin EarlyAts
    BY <1>1, <1>2, <2>1 DEF Feeds, ViewSet
  <2>4. view'.busy => \E u \in Tasks : /\ task'[u].at \notin {"none", "done"}
                                       /\ task'[u].kind \in {"send", "decide"}
    <3> SUFFICES ASSUME view'.busy PROVE \E u \in Tasks : /\ task'[u].at \notin {"none", "done"}
                                                         /\ task'[u].kind \in {"send", "decide"}
      OBVIOUS
    <3>1. PICK u \in Tasks : task[u].at \notin {"none", "done"} /\ task[u].kind \in {"send", "decide"}
      BY <2>1 DEF Feeds
    <3> QED
      BY <1>2, <3>1
  <2> QED
    BY <2>2, <2>3, <2>4 DEF Feeds
<1>6. UInv'
  BY <1>2, <1>4, <1>5 DEF UInv, Typed, SrvGrows
<1>7. ASSUME ~crossed' PROVE /\ OfView(view', task') /\ Filled(view', task', srv')
                             /\ faults' = 0 => Brought(view', task', srv')
  <2>1. /\ OfView(view, task) /\ Filled(view, task, srv)
        /\ faults = 0 => Brought(view, task, srv)
    BY <1>7 DEF SrvGrows, BothInv, VInv
  <2>2. OfView(view', task')
    BY <1>2, <2>1 DEF OfView
  <2>3. view.conv # None => (LiveTask(task[t]) => w.conv = view.conv) /\ view.conv \in Convs
    BY <1>1, <2>1 DEF OfView, ViewSet
  <2>4. ASSUME NEW r \in Runs, view.conv # None, srv[r].conv = view.conv PROVE srv'[r].conv = view.conv
    BY <1>3, <2>4 DEF RunGrows
  <2>5. Filled(view', task', srv')
    <3> SUFFICES ASSUME view.conv # None
                 PROVE  /\ view'.store # None => task'[view'.store].conv = view.conv
                        /\ view'.active # None => srv'[view'.active].conv = view.conv
                        /\ view'.approvals # None => srv'[view'.approvals.run].conv = view.conv
      BY DEF Filled
    <3>1. view'.store # None => task'[view'.store].conv = view.conv
      BY <1>1, <1>2, <2>1 DEF Filled, ViewSet
    <3>2. /\ view.active # None => view.active \in Runs /\ srv[view.active].conv = view.conv
          /\ view.approvals # None => view.approvals.run \in Runs /\ srv[view.approvals.run].conv = view.conv
      BY <1>1, <2>1 DEF Filled, ViewSet, ShowSet
    <3>3. view'.active # None => srv'[view'.active].conv = view.conv
      BY <2>3, <2>4, <3>2 DEF Writes
    <3>4. view'.approvals # None => srv'[view'.approvals.run].conv = view.conv
      BY <2>3, <2>4, <3>2 DEF Writes
    <3> QED
      BY <3>1, <3>3, <3>4
  <2>6. ASSUME faults' = 0 PROVE Brought(view', task', srv')
    <3> SUFFICES ASSUME view.conv # None
                 PROVE  /\ \/ view'.messages.of = view.conv
                           \/ \E u \in Tasks : LiveTask(task'[u]) /\ task'[u].at = "messages"
                        /\ \/ view'.latest # None => srv'[view'.latest].conv = view.conv
                           \/ \E u \in Tasks : LiveTask(task'[u]) /\ task'[u].at \in {"messages", "latest"}
      BY DEF Brought
    <3>1. /\ view.messages.of = view.conv \/ \E u \in Tasks : LiveTask(task[u]) /\ task[u].at = "messages"
          /\ \/ view.latest # None => srv[view.latest].conv = view.conv
             \/ \E u \in Tasks : LiveTask(task[u]) /\ task[u].at \in {"messages", "latest"}
      BY <2>1, <2>6 DEF Brought, SrvGrows
    <3>2. \/ view'.messages.of = view.conv
          \/ \E u \in Tasks : LiveTask(task'[u]) /\ task'[u].at = "messages"
      <4>1. CASE view.messages.of = view.conv
        BY <4>1, <2>3, <2>6 DEF Writes
      <4>2. ASSUME NEW u \in Tasks, LiveTask(task[u]), task[u].at = "messages"
            PROVE  \/ view'.messages.of = view.conv
                   \/ LiveTask(task'[u]) /\ task'[u].at = "messages"
        BY <4>2, <1>2, <2>3, <2>6
      <4> QED
        BY <3>1, <4>1, <4>2
    <3>3. \/ view'.latest # None => srv'[view'.latest].conv = view.conv
          \/ \E u \in Tasks : LiveTask(task'[u]) /\ task'[u].at \in {"messages", "latest"}
      <4>1. CASE view.latest # None => srv[view.latest].conv = view.conv
        <5>1. view.latest # None => view.latest \in Runs
          BY <1>1 DEF ViewSet
        <5> QED
          BY <4>1, <5>1, <2>3, <2>4, <2>6 DEF Writes
      <4>2. ASSUME NEW u \in Tasks, LiveTask(task[u]), task[u].at \in {"messages", "latest"}
            PROVE  \/ view'.latest # None => srv'[view'.latest].conv = view.conv
                   \/ LiveTask(task'[u]) /\ task'[u].at \in {"messages", "latest"}
        BY <4>2, <1>2, <2>3, <2>6
      <4> QED
        BY <3>1, <4>1, <4>2
    <3> QED
      BY <3>2, <3>3
  <2> QED
    BY <2>2, <2>5, <2>6
<1>8. VInv'
  BY <1>7 DEF VInv
<1> QED
  BY <1>6, <1>8 DEF BothInv

(* What aborting does to the other tasks.                                  *)
LEMMA FitsKept ==
  ASSUME BothInv, NEW u \in Tasks, NEW w \in TaskSet, SameBut(w, task[u]), w.run = task[u].run,
         w.at = task[u].at, w.got = task[u].got,
         w.aborted = (task[u].aborted \/ (u = view.stream /\ InFlight(u)))
  PROVE  Fits(w, srv) /\ (LiveTask(w) => LiveTask(task[u]))
<1>1. /\ task[u] \in TaskSet /\ Fits(task[u], srv) /\ Feeds(view, task)
  BY DEF BothInv, UInv, Typed
<1>2. w.at \in EarlyAts => w.aborted = task[u].aborted
  <2>1. task[u].aborted \in BOOLEAN /\ w.aborted \in BOOLEAN
    BY <1>1 DEF TaskSet
  <2>2. (u = view.stream /\ InFlight(u)) => w.at \notin EarlyAts
    BY <1>1, RunsAreNumbers DEF Feeds
  <2> QED
    BY <2>1, <2>2
<1>3. KindOK(w)
  BY <1>1 DEF Fits, KindOK, SameBut
<1>4. Fits(w, srv)
  BY <1>1, <1>2, <1>3, FitsMoves DEF Fits, RunKnown
<1> QED
  BY <1>4 DEF LiveTask, SameBut

LEMMA TakesStream ==
  ASSUME BothInv, UNCHANGED <<srv, crossed, faults>>, NEW t \in Tasks, NEW r \in Runs,
         NEW v \in ViewSet, Consume(t, r, v), task[t].at \in {"active", "post", "decide"},
         srv[r].conv = task[t].conv, v.conv = view.conv, v.stream = view.stream,
         v.busy = view.busy, v.messages.of = view.messages.of, v.latest = view.latest,
         v.messages.final \subseteq v.messages.known,
         v.approvals # None => view.approvals # None /\ v.approvals.run = view.approvals.run
  PROVE  BothInv'
<1>1. /\ view \in ViewSet /\ task \in [Tasks -> TaskSet] /\ ServerOK
      /\ \A u \in Tasks : Fits(task[u], srv)
      /\ crossed \in BOOLEAN /\ faults \in Nat /\ Feeds(view, task)
  BY DEF BothInv, UInv, Typed
<1>2. /\ view' = [v EXCEPT !.store = t, !.active = r, !.stream = t]
      /\ task' \in [Tasks -> TaskSet]
      /\ \A u \in Tasks : u # t => Kept(u, task')
      /\ SameBut(task'[t], task[t]) /\ task'[t].run = r /\ task'[t].at = "connect"
      /\ task'[t].got = None /\ task'[t].cut = task[t].cut
      /\ task'[t].aborted = (task[t].aborted \/ (t = view.stream /\ InFlight(t)))
  BY <1>1, ConsumeIs
<1>3. /\ view' \in ViewSet /\ view'.store = t /\ view'.active = r /\ view'.stream = t
      /\ view'.conv = view.conv /\ view'.busy = view.busy /\ view'.messages = v.messages
      /\ view'.latest = view.latest /\ view'.approvals = v.approvals
  BY <1>2 DEF ViewSet
<1>4. task[t].conv \in Convs /\ Fits(task[t], srv)
  BY <1>1 DEF Fits, RunKnown
<1>5. PICK k \in TaskSet : k = task'[t]
  BY <1>2
<1>6. Fits(k, srv)
  <2>1. KindOK(k)
    BY <1>2, <1>4, <1>5 DEF KindOK, Fits, LoadAts, StopAts, FinalAts, Streaming, SameBut
  <2>2. RunKnown(k, srv)
    BY <1>2, <1>4, <1>5 DEF RunKnown, SameBut
  <2>3. AnswerKnown(k, srv)
    BY <1>2, <1>5 DEF AnswerKnown
  <2>4. StoreOK(k)
    BY <1>2, <1>4, <1>5 DEF Fits, StoreOK, SameBut
  <2>5. EndKnown(k, srv) /\ Unopened(k)
    BY <1>2, <1>4, <1>5 DEF Fits, EndKnown, SameBut, Unopened, EarlyAts, LoadAts, StopAts
  <2> QED
    BY <2>1, <2>2, <2>3, <2>4, <2>5 DEF Fits
<1>7. ASSUME NEW u \in Tasks, u # t
      PROVE  Fits(task'[u], srv) /\ (LiveTask(task'[u]) => LiveTask(task[u]))
  <2>1. Kept(u, task') /\ task'[u] \in TaskSet
    BY <1>2, <1>7
  <2>2. PICK w \in TaskSet : w = task'[u]
    BY <2>1
  <2>3. Fits(w, srv) /\ (LiveTask(w) => LiveTask(task[u]))
    BY <2>1, <2>2, FitsKept DEF Kept
  <2> QED
    BY <2>2, <2>3
<1>8. Feeds(view', task')
  <2>1. ASSUME NEW u \in Tasks, u # t, task'[u].at \in Streaming, ~task'[u].aborted PROVE FALSE
    <3>1. task[u].at \in Streaming /\ ~task[u].aborted /\ ~(u = view.stream /\ InFlight(u))
      BY <1>2, <2>1 DEF Kept
    <3>2. InFlight(u)
      BY <3>1 DEF InFlight, Streaming
    <3> QED
      BY <1>1, <3>1, <3>2 DEF Feeds
  <2>2. "connect" \notin EarlyAts
    BY DEF EarlyAts, LoadAts, StopAts
  <2>3. view'.busy => \E u \in Tasks : /\ task'[u].at \notin {"none", "done"}
                                       /\ task'[u].kind \in {"send", "decide"}
    <3> SUFFICES ASSUME view'.busy PROVE \E u \in Tasks : /\ task'[u].at \notin {"none", "done"}
                                                         /\ task'[u].kind \in {"send", "decide"}
      OBVIOUS
    <3>1. PICK u \in Tasks : task[u].at \notin {"none", "done"} /\ task[u].kind \in {"send", "decide"}
      BY <1>1, <1>3 DEF Feeds
    <3> QED
      BY <1>2, <3>1 DEF Kept, SameBut
  <2> QED
    BY <1>2, <1>3, <2>1, <2>2, <2>3 DEF Feeds
<1>9. UInv'
  <2>1. ServerOK'
    BY <1>1, NoServerStep
  <2>2. \A u \in Tasks : Fits(task'[u], srv')
    BY <1>5, <1>6, <1>7
  <2> QED
    BY <1>1, <1>2, <1>3, <1>8, <2>1, <2>2 DEF UInv, Typed
<1>10. ASSUME ~crossed' PROVE /\ OfView(view', task') /\ Filled(view', task', srv')
                              /\ faults' = 0 => Brought(view', task', srv')
  <2>1. /\ OfView(view, task) /\ Filled(view, task, srv)
        /\ faults = 0 => Brought(view, task, srv)
    BY <1>10 DEF BothInv, VInv
  <2>2. LiveTask(task[t]) /\ task[t].at \notin Following
    BY DEF LiveTask, Following, FinalAts
  <2>3. view.conv # None /\ task[t].conv = view.conv
    BY <2>1, <2>2 DEF OfView
  <2>4. \A u \in Tasks : task'[u].conv = task[u].conv
    BY <1>2 DEF Kept, SameBut
  <2>5. OfView(view', task')
    BY <1>3, <1>7, <2>1, <2>3, <2>4 DEF OfView
  <2>6. Filled(view', task', srv')
    <3>1. view'.approvals # None => srv[view'.approvals.run].conv = view.conv
      BY <1>3, <2>1, <2>3 DEF Filled
    <3> QED
      BY <1>3, <2>3, <2>4, <3>1 DEF Filled
  <2>7. ASSUME faults' = 0 PROVE Brought(view', task', srv')
    <3>1. \A u \in Tasks : (LiveTask(task[u]) /\ task[u].at \in {"messages", "latest"})
                            => LiveTask(task'[u]) /\ task'[u].at = task[u].at
      <4>1. ASSUME NEW u \in Tasks, LiveTask(task[u]), task[u].at \in {"messages", "latest"}
            PROVE  LiveTask(task'[u]) /\ task'[u].at = task[u].at
        <5>1. u # t /\ Kept(u, task')
          BY <1>2, <4>1
        <5> QED
          BY <4>1, <5>1 DEF Kept, LiveTask
      <4> QED
        BY <4>1
    <3>2. Brought(view, task, srv)
      BY <2>1, <2>7
    <3> QED
      BY <1>3, <2>3, <3>1, <3>2 DEF Brought
  <2> QED
    BY <2>5, <2>6, <2>7
<1>11. VInv'
  BY <1>10 DEF VInv
<1> QED
  BY <1>9, <1>11 DEF BothInv

(* A switch that crosses nothing leaves no function that goes on.          *)
LEMMA AllAborted ==
  ASSUME BothInv, \A t \in Tasks : ~Lingers(t)
  PROVE  \A u \in Tasks : ~LiveTask(AbortStream(task)[u])
<1>1. /\ view \in ViewSet /\ task \in [Tasks -> TaskSet] /\ Feeds(view, task)
  BY DEF BothInv, UInv, Typed
<1>2. \A u \in Tasks : Kept(u, AbortStream(task))
  BY <1>1, AbortIs
<1> SUFFICES ASSUME NEW u \in Tasks, LiveTask(AbortStream(task)[u]) PROVE FALSE
  OBVIOUS
<1>3. /\ InFlight(u) /\ Kept(u, AbortStream(task))
  BY <1>2 DEF LiveTask, Kept, InFlight
<1>4. task[u].at \in {"connect", "read"} /\ task[u].kind # "decide"
  BY <1>3 DEF Lingers
<1>5. ~task[u].aborted /\ u # view.stream
  BY <1>3, <1>4 DEF Kept, LiveTask, SameBut
<1> QED
  BY <1>1, <1>4, <1>5 DEF Feeds, Streaming

LEMMA FitsStarted ==
  ASSUME NEW s, NEW kind, NEW conv \in Convs, NEW run \in Runs \cup {None}, NEW at,
         NEW w \in TaskSet, Started(w, kind, conv, run, at),
         \/ kind = "load" /\ at = "messages"
         \/ kind = "send" /\ at = "post"
         \/ kind = "decide" /\ at = "decide" /\ run \in Runs
         \/ kind = "stop" /\ at = "cancel" /\ run \in Runs,
         run # None => s[run].conv = conv
  PROVE  Fits(w, s) /\ LiveTask(w)
<1>1. KindOK(w)
  BY DEF KindOK, Started, LoadAts, StopAts, FinalAts, Streaming
<1>2. RunKnown(w, s)
  BY DEF RunKnown, Started, StopAts, FinalAts, Streaming
<1>3. AnswerKnown(w, s) /\ EndKnown(w, s) /\ Unopened(w)
  BY DEF AnswerKnown, Started, EndKnown, Unopened
<1>4. StoreOK(w)
  <2>1. <<>> = [i \in 1 .. 0 |-> i]
    OBVIOUS
  <2> QED
    BY <2>1 DEF StoreOK, Started
<1> QED
  BY <1>1, <1>2, <1>3, <1>4 DEF Fits, LiveTask, Started

\* A task is as it was, or its stream is aborted.
Aside(u, tasks) == tasks[u] = task[u] \/ Kept(u, tasks)

LEMMA Begins ==
  ASSUME BothInv, UNCHANGED <<srv, faults>>, crossed' \in BOOLEAN, crossed => crossed',
         NEW a \in [Tasks -> TaskSet], \A u \in Tasks : Aside(u, a),
         NEW n \in Tasks, NEW w \in TaskSet, a[n].at = "none", task' = [a EXCEPT ![n] = w],
         Fits(w, srv), LiveTask(w), w.at \in EarlyAts, w.conv = view'.conv, view'.conv \in Convs,
         view' \in ViewSet, view'.stream = view.stream, view'.store \in {view.store, None},
         view'.messages = view.messages, view'.latest = view.latest,
         view'.busy => view.busy \/ w.kind \in {"send", "decide"},
         ~crossed' => \/ /\ view'.conv = view.conv /\ a = task
                         /\ view'.active = view.active /\ view'.approvals = view.approvals
                      \/ /\ w.at = "messages" /\ \A u \in Tasks : ~LiveTask(a[u])
                         /\ view'.active = None /\ view'.approvals = None /\ view'.store = None
  PROVE  BothInv'
<1>1. /\ view \in ViewSet /\ task \in [Tasks -> TaskSet] /\ ServerOK
      /\ \A u \in Tasks : Fits(task[u], srv)
      /\ crossed \in BOOLEAN /\ faults \in Nat /\ Feeds(view, task)
  BY DEF BothInv, UInv, Typed
<1>2. task' \in [Tasks -> TaskSet] /\ task'[n] = w /\ \A u \in Tasks : u # n => task'[u] = a[u]
  OBVIOUS
<1>3. \A u \in Tasks : /\ a[u].at = task[u].at /\ a[u].kind = task[u].kind /\ a[u].conv = task[u].conv
                       /\ task[u].aborted => a[u].aborted
  BY DEF Aside, Kept, SameBut
<1>4. ASSUME NEW u \in Tasks PROVE Fits(a[u], srv)
  <2>1. CASE a[u] = task[u]
    BY <1>1, <2>1
  <2>2. CASE Kept(u, a)
    <3>1. PICK k \in TaskSet : k = a[u]
      OBVIOUS
    <3> QED
      BY <2>2, <3>1, FitsKept DEF Kept
  <2> QED
    BY <2>1, <2>2 DEF Aside
<1>5. \A u \in Tasks : Fits(task'[u], srv')
  BY <1>2, <1>4
<1>6. view.store # None => view.store \in Tasks /\ view.store # n
  BY <1>1, <1>3 DEF Feeds, ViewSet
<1>7. view.stream # None => view.stream \in Tasks /\ view.stream # n
  BY <1>1, <1>3 DEF Feeds, ViewSet, EarlyAts
<1>8. Feeds(view', task')
  <2>1. \A u \in Tasks : (task'[u].at \in Streaming /\ ~task'[u].aborted) => view'.stream = u
    <3>1. w.at \notin Streaming
      BY DEF EarlyAts, LoadAts, StopAts, Streaming
    <3> QED
      BY <1>1, <1>2, <1>3, <3>1 DEF Feeds
  <2>2. view'.store # None => task'[view'.store].at # "none"
    BY <1>1, <1>2, <1>3, <1>6 DEF Feeds
  <2>3. view'.stream # None => task'[view'.stream].at \notin EarlyAts
    BY <1>1, <1>2, <1>3, <1>7 DEF Feeds
  <2>4. view'.busy => \E u \in Tasks : /\ task'[u].at \notin {"none", "done"}
                                       /\ task'[u].kind \in {"send", "decide"}
    <3>1. CASE w.kind \in {"send", "decide"}
      BY <1>2, <3>1 DEF LiveTask
    <3>2. CASE view.busy
      <4>1. PICK u \in Tasks : task[u].at \notin {"none", "done"} /\ task[u].kind \in {"send", "decide"}
        BY <1>1, <3>2 DEF Feeds
      <4> QED
        BY <1>2, <1>3, <4>1
    <3> QED
      BY <3>1, <3>2
  <2> QED
    BY <1>1, <2>1, <2>2, <2>3, <2>4 DEF Feeds
<1>9. UInv'
  <2>1. ServerOK'
    BY <1>1, NoServerStep
  <2> QED
    BY <1>1, <1>2, <1>5, <1>8, <2>1 DEF UInv, Typed
<1>10. ASSUME ~crossed' PROVE /\ OfView(view', task') /\ Filled(view', task', srv')
                              /\ faults' = 0 => Brought(view', task', srv')
  <2>1. /\ OfView(view, task) /\ Filled(view, task, srv)
        /\ faults = 0 => Brought(view, task, srv)
    BY <1>10 DEF BothInv, VInv
  <2>2. view'.conv # None
    BY RunsAreNumbers
  <2>3. CASE /\ view'.conv = view.conv /\ a = task
             /\ view'.active = view.active /\ view'.approvals = view.approvals
    <3>1. OfView(view', task')
      BY <1>2, <2>1, <2>2, <2>3 DEF OfView
    <3>2. Filled(view', task', srv')
      BY <1>2, <1>6, <2>1, <2>3 DEF Filled
    <3>3. ~LiveTask(a[n])
      BY DEF LiveTask
    <3>4. faults' = 0 => Brought(view', task', srv')
      BY <1>2, <2>1, <2>3, <3>3 DEF Brought
    <3> QED
      BY <3>1, <3>2, <3>4
  <2>4. CASE /\ w.at = "messages" /\ \A u \in Tasks : ~LiveTask(a[u])
             /\ view'.active = None /\ view'.approvals = None /\ view'.store = None
    <3>1. OfView(view', task')
      BY <1>2, <2>2, <2>4 DEF OfView
    <3>2. Filled(view', task', srv')
      BY <2>4 DEF Filled
    <3>3. Brought(view', task', srv')
      BY <1>2, <2>4 DEF Brought
    <3> QED
      BY <3>1, <3>2, <3>3
  <2> QED
    BY <1>10, <2>3, <2>4
<1>11. VInv'
  BY <1>10 DEF VInv
<1> QED
  BY <1>9, <1>11 DEF BothInv

(***************************************************************************)
(* The actions of the user.                                                *)
(***************************************************************************)
LEMMA ResetIs ==
  ASSUME NEW v \in ViewSet, NEW c \in Convs \cup {None}
  PROVE  \E x \in ViewSet :
         /\ x = [ResetView(v) EXCEPT !.conv = c]
         /\ x.conv = c /\ x.messages = v.messages /\ x.latest = v.latest
         /\ x.stream = v.stream /\ x.busy = v.busy
         /\ x.active = None /\ x.approvals = None /\ x.store = None
<1> DEFINE x == [ResetView(v) EXCEPT !.conv = c]
<1>1. /\ x \in ViewSet /\ x.conv = c /\ x.messages = v.messages /\ x.latest = v.latest
      /\ x.stream = v.stream /\ x.busy = v.busy
      /\ x.active = None /\ x.approvals = None /\ x.store = None
  BY DEF ResetView, ViewSet
<1> HIDE DEF x
<1>2. \E y \in ViewSet : y = x
  BY <1>1
<1>3. x = [ResetView(v) EXCEPT !.conv = c]
  BY DEF x
<1> QED
  BY <1>1, <1>3

LEMMA SelectIs ==
  ASSUME BothInv, NEW c \in Convs, Select(c)
  PROVE  \E n \in Tasks, w \in TaskSet :
           /\ AbortStream(task)[n].at = "none" /\ task' = [AbortStream(task) EXCEPT ![n] = w]
           /\ Started(w, "load", c, None, "messages")
<1>1. AbortStream(task) \in [Tasks -> TaskSet] /\ \A u \in Tasks : Kept(u, AbortStream(task))
  BY AbortIs DEF BothInv, UInv, Typed
<1>2. \E t \in Tasks : AbortStream(task)[t].at = "none"
  BY <1>1 DEF Select, CanStart, Kept
<1>3. PICK a \in [Tasks -> TaskSet] : a = AbortStream(task)
  BY <1>1
<1>4. "load" \in Kinds /\ "messages" \in Ats
  BY DEF Kinds, Ats, Requests
<1>5. \E n \in Tasks, w \in TaskSet :
           /\ a[n].at = "none" /\ Start(a, "load", c, None, "messages") = [a EXCEPT ![n] = w]
           /\ Started(w, "load", c, None, "messages")
  BY <1>2, <1>3, <1>4, StartIs
<1>6. task' = Start(a, "load", c, None, "messages")
  BY <1>3 DEF Select
<1> QED
  BY <1>3, <1>5, <1>6

LEMMA SelectKeeps ==
  ASSUME BothInv, NEW c \in Convs, Select(c)
  PROVE  BothInv'
<1>1. AbortStream(task) \in [Tasks -> TaskSet] /\ \A u \in Tasks : Kept(u, AbortStream(task))
  BY AbortIs DEF BothInv, UInv, Typed
<1>2. PICK n \in Tasks, w \in TaskSet :
           /\ AbortStream(task)[n].at = "none" /\ task' = [AbortStream(task) EXCEPT ![n] = w]
           /\ Started(w, "load", c, None, "messages")
  BY SelectIs
<1>3. Fits(w, srv) /\ LiveTask(w)
  BY <1>2, FitsStarted
<1>4. PICK a \in [Tasks -> TaskSet] : a = AbortStream(task)
  BY <1>1
<1>5. \A u \in Tasks : Aside(u, a)
  BY <1>1, <1>4 DEF Aside
<1>6. w.at = "messages" /\ w.at \in EarlyAts /\ w.conv = c
  BY <1>2 DEF Started, EarlyAts, LoadAts
<1>7. /\ view' \in ViewSet /\ view'.conv = c /\ view'.messages = view.messages /\ view'.latest = view.latest
      /\ view'.stream = view.stream /\ view'.busy = view.busy
      /\ view'.active = None /\ view'.approvals = None /\ view'.store = None
  <2>1. PICK v \in ViewSet : v = view
    BY DEF BothInv, UInv, Typed
  <2>2. c \in Convs \cup {None}
    OBVIOUS
  <2>3. view' = [ResetView(v) EXCEPT !.conv = c]
    BY <2>1 DEF Select
  <2>4. PICK x \in ViewSet :
         /\ x = [ResetView(v) EXCEPT !.conv = c]
         /\ x.conv = c /\ x.messages = v.messages /\ x.latest = v.latest
         /\ x.stream = v.stream /\ x.busy = v.busy
         /\ x.active = None /\ x.approvals = None /\ x.store = None
    BY <2>2, ResetIs
  <2> QED
    BY <2>1, <2>3, <2>4
<1>8. crossed' \in BOOLEAN /\ (crossed => crossed') /\ UNCHANGED <<srv, faults>>
  BY DEF Select, BothInv, UInv, Typed
<1>9. ~crossed' => \A u \in Tasks : ~LiveTask(a[u])
  BY <1>4, AllAborted DEF Select
<1>10. a[n].at = "none" /\ task' = [a EXCEPT ![n] = w]
  BY <1>2, <1>4
<1> QED
  BY <1>3, <1>5, <1>6, <1>7, <1>8, <1>9, <1>10, Begins

LEMMA LeaveKeeps ==
  ASSUME BothInv, LeaveWorkspace
  PROVE  BothInv'
<1>1. /\ view \in ViewSet /\ task \in [Tasks -> TaskSet] /\ ServerOK
      /\ \A u \in Tasks : Fits(task[u], srv)
      /\ crossed \in BOOLEAN /\ faults \in Nat /\ Feeds(view, task)
  BY DEF BothInv, UInv, Typed
<1>2. task' \in [Tasks -> TaskSet] /\ \A u \in Tasks : Kept(u, task')
  BY <1>1, AbortIs DEF LeaveWorkspace
<1>3. PICK x \in ViewSet : /\ x = [ResetView(view) EXCEPT !.conv = None]
                           /\ x.conv = None /\ x.messages = view.messages /\ x.latest = view.latest
                           /\ x.stream = view.stream /\ x.busy = view.busy
                           /\ x.active = None /\ x.approvals = None /\ x.store = None
  BY <1>1, ResetIs
<1>4. Empty \in MsgSet /\ Empty.final \subseteq Empty.known
  BY DEF Empty, MsgSet
<1>5. view' = [x EXCEPT !.messages = Empty, !.latest = None]
  BY <1>3 DEF LeaveWorkspace, ResetView, ViewSet
<1>6. /\ view' \in ViewSet /\ view'.conv = None /\ view'.messages = Empty
      /\ view'.stream = view.stream /\ view'.busy = view.busy /\ view'.store = None
  BY <1>3, <1>4, <1>5 DEF ViewSet
<1>7. ASSUME NEW u \in Tasks PROVE Fits(task'[u], srv)
  <2>1. PICK w \in TaskSet : w = task'[u]
    BY <1>2
  <2>2. Fits(w, srv)
    BY <1>2, <2>1, FitsKept DEF Kept
  <2> QED
    BY <2>1, <2>2
<1>8. Feeds(view', task')
  <2>1. \A u \in Tasks : /\ task'[u].at = task[u].at /\ task'[u].kind = task[u].kind
                         /\ task[u].aborted => task'[u].aborted
    BY <1>2 DEF Kept, SameBut
  <2>2. view'.stream # None => task'[view'.stream].at \notin EarlyAts
    BY <1>1, <1>6, <2>1 DEF Feeds, ViewSet
  <2> QED
    BY <1>1, <1>4, <1>6, <2>1, <2>2 DEF Feeds
<1>9. ServerOK' /\ UNCHANGED <<srv, faults>> /\ crossed' \in BOOLEAN
  BY <1>1, NoServerStep DEF LeaveWorkspace
<1>10. UInv'
  BY <1>1, <1>2, <1>6, <1>7, <1>8, <1>9 DEF UInv, Typed
<1>11. ~crossed' => \A u \in Tasks : ~LiveTask(task'[u])
  BY AllAborted DEF LeaveWorkspace
<1>12. VInv'
  BY <1>6, <1>11 DEF VInv, OfView, Filled, Brought
<1> QED
  BY <1>10, <1>12 DEF BothInv

LEMMA CloseKeeps ==
  ASSUME BothInv, CloseConversation
  PROVE  BothInv'
<1>1. /\ view \in ViewSet /\ task \in [Tasks -> TaskSet] /\ ServerOK
      /\ \A u \in Tasks : Fits(task[u], srv)
      /\ crossed \in BOOLEAN /\ faults \in Nat /\ Feeds(view, task)
  BY DEF BothInv, UInv, Typed
<1>2. /\ view' \in ViewSet /\ view'.conv = None /\ view'.messages = view.messages
      /\ view'.stream = view.stream /\ view'.busy = view.busy /\ view'.store = view.store
  BY <1>1 DEF CloseConversation, ViewSet
<1>3. UNCHANGED <<srv, task, faults>> /\ ServerOK' /\ crossed' \in BOOLEAN
  BY <1>1, NoServerStep DEF CloseConversation
<1>4. UInv'
  BY <1>1, <1>2, <1>3 DEF UInv, Typed, Feeds
<1>5. ~crossed' => OfView(view', task')
  <2> SUFFICES ASSUME ~crossed', NEW u \in Tasks, LiveTask(task[u])
               PROVE  task[u].at \in Following /\ task[u].kind # "decide"
    BY <1>2, <1>3 DEF OfView
  <2> QED
    BY DEF CloseConversation, Lingers, LiveTask, InFlight, Following
<1>6. VInv'
  BY <1>2, <1>5 DEF VInv, Filled, Brought
<1> QED
  BY <1>4, <1>6 DEF BothInv

LEMMA SendIs ==
  ASSUME BothInv, SendMessage
  PROVE  \E n \in Tasks, w \in TaskSet :
           /\ task[n].at = "none" /\ task' = [task EXCEPT ![n] = w]
           /\ Started(w, "send", view.conv, None, "post")
<1>1. PICK a \in [Tasks -> TaskSet] : a = task
  BY DEF BothInv, UInv, Typed
<1>2. "send" \in Kinds /\ "post" \in Ats /\ view.conv \in Convs \cup {None}
  BY DEF Kinds, Ats, Requests, BothInv, UInv, Typed, ViewSet
<1>3. PICK c \in Convs \cup {None} : c = view.conv
  BY <1>2
<1>4. \E t \in Tasks : a[t].at = "none"
  BY <1>1 DEF SendMessage, CanStart
<1>5. \E n \in Tasks, w \in TaskSet :
           /\ a[n].at = "none" /\ Start(a, "send", c, None, "post") = [a EXCEPT ![n] = w]
           /\ Started(w, "send", c, None, "post")
  BY <1>2, <1>4, StartIs
<1> QED
  BY <1>1, <1>3, <1>5 DEF SendMessage

LEMMA DecideIs ==
  ASSUME BothInv, DecideToolApproval
  PROVE  \E n \in Tasks, w \in TaskSet :
           /\ task[n].at = "none" /\ task' = [task EXCEPT ![n] = w]
           /\ Started(w, "decide", view.conv, view.approvals.run, "decide")
<1>1. PICK a \in [Tasks -> TaskSet] : a = task
  BY DEF BothInv, UInv, Typed
<1>2. /\ "decide" \in Kinds /\ "decide" \in Ats /\ view.conv \in Convs \cup {None}
      /\ view.approvals.run \in Runs
  BY DEF Kinds, Ats, Requests, BothInv, UInv, Typed, ViewSet, ShowSet, DecideToolApproval, Pending
<1>3. PICK c \in Convs \cup {None} : c = view.conv
  BY <1>2
<1>4. \E t \in Tasks : a[t].at = "none"
  BY <1>1 DEF DecideToolApproval, CanStart
<1>5. PICK r \in Runs : r = view.approvals.run
  BY <1>2
<1>6. \E n \in Tasks, w \in TaskSet :
           /\ a[n].at = "none" /\ Start(a, "decide", c, r, "decide") = [a EXCEPT ![n] = w]
           /\ Started(w, "decide", c, r, "decide")
  BY <1>2, <1>4, StartIs
<1> QED
  BY <1>1, <1>3, <1>5, <1>6 DEF DecideToolApproval

LEMMA StopIs ==
  ASSUME BothInv, StopRun
  PROVE  \E n \in Tasks, w \in TaskSet :
           /\ task[n].at = "none" /\ task' = [task EXCEPT ![n] = w]
           /\ Started(w, "stop", view.conv, view.active, "cancel") /\ w.pending = Pending
<1>1. PICK a \in [Tasks -> TaskSet] : a = task
  BY DEF BothInv, UInv, Typed
<1>2. /\ "stop" \in Kinds /\ "cancel" \in Ats /\ view.conv \in Convs \cup {None}
      /\ view.active \in Runs
  BY DEF Kinds, Ats, Requests, BothInv, UInv, Typed, ViewSet, StopRun
<1>3. PICK c \in Convs \cup {None}, r \in Runs, p \in BOOLEAN :
        c = view.conv /\ r = view.active /\ p = Pending
  BY <1>2 DEF Pending
<1>4. \E t \in Tasks : a[t].at = "none"
  BY <1>1 DEF StopRun, CanStart
<1>6. PICK n \in Tasks, w \in TaskSet :
           /\ a[n].at = "none" /\ Start(a, "stop", c, r, "cancel") = [a EXCEPT ![n] = w]
           /\ Started(w, "stop", c, r, "cancel")
  BY <1>2, <1>4, StartIs
<1> DEFINE tasks == [a EXCEPT ![n] = w]
           m == CHOOSE t \in Tasks : tasks[t] # a[t]
           x == [w EXCEPT !.pending = p]
<1>7. tasks[n] # a[n] /\ \A u \in Tasks : u # n => tasks[u] = a[u]
  BY <1>6 DEF Started
<1>8. m = n
  BY <1>7
<1>9. task' = [tasks EXCEPT ![m].pending = p]
  BY <1>1, <1>3, <1>6 DEF StopRun
<1>10. task' = [a EXCEPT ![n] = x]
  BY <1>8, <1>9
<1>11. x \in TaskSet /\ Started(x, "stop", c, r, "cancel") /\ x.pending = p
  BY <1>6 DEF TaskSet, Started
<1> HIDE DEF x, m, tasks
<1> QED
  BY <1>1, <1>3, <1>6, <1>10, <1>11

LEMMA UserKeeps ==
  ASSUME BothInv, User
  PROVE  BothInv'
<1>1. /\ view \in ViewSet /\ task \in [Tasks -> TaskSet] /\ ServerOK
      /\ crossed \in BOOLEAN /\ faults \in Nat /\ Feeds(view, task) /\ ~crossed
  BY DEF BothInv, UInv, Typed, User
<1>2. Filled(view, task, srv)
  BY <1>1 DEF BothInv, VInv
<1>3. PICK a \in [Tasks -> TaskSet] : a = task
  BY <1>1
<1>4. \A u \in Tasks : Aside(u, a)
  BY <1>3 DEF Aside
<1>5. ASSUME SendMessage PROVE BothInv'
  <2>1. PICK n \in Tasks, w \in TaskSet :
           /\ task[n].at = "none" /\ task' = [task EXCEPT ![n] = w]
           /\ Started(w, "send", view.conv, None, "post")
    BY <1>5, SendIs
  <2>2. PICK c \in Convs : c = view.conv
    BY <1>1, <1>5 DEF SendMessage, ViewSet
  <2>3. Fits(w, srv) /\ LiveTask(w)
    BY <2>1, <2>2, FitsStarted
  <2>4. /\ view' \in ViewSet /\ view'.conv = c /\ view'.messages = view.messages /\ view'.latest = view.latest
        /\ view'.stream = view.stream /\ view'.store = view.store
        /\ view'.active = view.active /\ view'.approvals = view.approvals
    BY <1>1, <1>5, <2>2 DEF SendMessage, ViewSet
  <2>5. /\ w.at \in EarlyAts /\ w.conv = c /\ w.kind = "send" /\ a[n].at = "none"
        /\ task' = [a EXCEPT ![n] = w]
    BY <1>3, <2>1, <2>2 DEF Started, EarlyAts
  <2>6. crossed' \in BOOLEAN /\ (crossed => crossed') /\ UNCHANGED <<srv, faults>>
    BY <1>1, <1>5 DEF SendMessage
  <2> QED
    BY <1>3, <1>4, <2>2, <2>3, <2>4, <2>5, <2>6, Begins
<1>6. ASSUME DecideToolApproval PROVE BothInv'
  <2>1. PICK n \in Tasks, w \in TaskSet :
           /\ task[n].at = "none" /\ task' = [task EXCEPT ![n] = w]
           /\ Started(w, "decide", view.conv, view.approvals.run, "decide")
    BY <1>6, DecideIs
  <2>2. PICK c \in Convs : c = view.conv
    BY <1>1, <1>6 DEF DecideToolApproval, ViewSet
  <2>7. PICK r \in Runs : r = view.approvals.run /\ srv[r].conv = c
    BY <1>1, <1>2, <1>6, <2>2, RunsAreNumbers DEF DecideToolApproval, Pending, ViewSet, ShowSet, Filled
  <2>3. Fits(w, srv) /\ LiveTask(w)
    BY <2>1, <2>2, <2>7, FitsStarted
  <2>4. /\ view' \in ViewSet /\ view'.conv = c /\ view'.messages = view.messages /\ view'.latest = view.latest
        /\ view'.stream = view.stream /\ view'.store = view.store
        /\ view'.active = view.active /\ view'.approvals = view.approvals
    BY <1>1, <1>6, <2>2 DEF DecideToolApproval, ViewSet
  <2>5. /\ w.at \in EarlyAts /\ w.conv = c /\ w.kind = "decide" /\ a[n].at = "none"
        /\ task' = [a EXCEPT ![n] = w]
    BY <1>3, <2>1, <2>2 DEF Started, EarlyAts
  <2>6. crossed' \in BOOLEAN /\ (crossed => crossed') /\ UNCHANGED <<srv, faults>>
    BY <1>1, <1>6 DEF DecideToolApproval
  <2> QED
    BY <1>3, <1>4, <2>2, <2>3, <2>4, <2>5, <2>6, Begins
<1>7. ASSUME StopRun PROVE BothInv'
  <2>1. PICK n \in Tasks, w \in TaskSet :
           /\ task[n].at = "none" /\ task' = [task EXCEPT ![n] = w]
           /\ Started(w, "stop", view.conv, view.active, "cancel")
    BY <1>7, StopIs
  <2>2. PICK c \in Convs : c = view.conv
    BY <1>1, <1>7 DEF StopRun, ViewSet
  <2>7. PICK r \in Runs : r = view.active /\ srv[r].conv = c
    BY <1>1, <1>2, <1>7, <2>2, RunsAreNumbers DEF StopRun, ViewSet, Filled
  <2>3. Fits(w, srv) /\ LiveTask(w)
    BY <2>1, <2>2, <2>7, FitsStarted
  <2>5. /\ w.at \in EarlyAts /\ w.conv = c /\ a[n].at = "none" /\ task' = [a EXCEPT ![n] = w]
    BY <1>3, <2>1, <2>2 DEF Started, EarlyAts, StopAts
  <2>6. crossed' \in BOOLEAN /\ (crossed => crossed') /\ UNCHANGED <<srv, view, faults>>
    BY <1>1, <1>7 DEF StopRun
  <2> QED
    BY <1>1, <1>3, <1>4, <2>2, <2>3, <2>5, <2>6, Begins
<1> QED
  BY <1>5, <1>6, <1>7, SelectKeeps, LeaveKeeps, CloseKeeps DEF User

(***************************************************************************)
(* The actions of the server and of the functions.                         *)
(***************************************************************************)
LEMMA ServerKeeps ==
  ASSUME BothInv, SrvGrows, UNCHANGED <<view, task, crossed, faults>>
  PROVE  BothInv'
<1>1. /\ view \in ViewSet /\ task \in [Tasks -> TaskSet] /\ ServerOK
      /\ \A u \in Tasks : Fits(task[u], srv)
      /\ crossed \in BOOLEAN /\ faults \in Nat /\ Feeds(view, task)
  BY DEF BothInv, UInv, Typed
<1>2. /\ srv \in [Runs -> RunSet] /\ srv' \in [Runs -> RunSet]
      /\ \A r \in Runs : RunGrows(srv[r], srv'[r])
  BY <1>1 DEF SrvGrows, ServerOK, Grows
<1>3. \A u \in Tasks : Fits(task[u], srv')
  BY <1>1, <1>2, FitsGrows
<1>4. UInv'
  BY <1>1, <1>3 DEF UInv, Typed, SrvGrows
<1>5. ASSUME NEW r \in Runs, view.conv # None, srv[r].conv = view.conv PROVE srv'[r].conv = view.conv
  BY <1>2, <1>5 DEF RunGrows
<1>6. /\ view.active # None => view.active \in Runs
      /\ view.latest # None => view.latest \in Runs
      /\ view.approvals # None => view.approvals.run \in Runs
  BY <1>1 DEF ViewSet, ShowSet
<1>7. Filled(view, task, srv) => Filled(view, task, srv')
  BY <1>5, <1>6 DEF Filled
<1>8. Brought(view, task, srv) => Brought(view, task, srv')
  BY <1>5, <1>6 DEF Brought
<1>9. VInv'
  BY <1>7, <1>8 DEF BothInv, VInv
<1> QED
  BY <1>4, <1>9 DEF BothInv

LEMMA FinishIs ==
  ASSUME NEW t \in Tasks, NEW v \in ViewSet, Finish(t, v)
  PROVE  /\ Done(t) /\ view' \in ViewSet /\ view'.conv = v.conv /\ view'.messages = v.messages
         /\ view'.latest = v.latest /\ view'.active = v.active /\ view'.approvals = v.approvals
         /\ view'.store = v.store /\ view'.stream = v.stream
         /\ view'.busy => v.busy /\ task[t].kind \notin {"send", "decide"}
<1>1. Done(t) /\ view' = IF task[t].kind \in {"send", "decide"} THEN [v EXCEPT !.busy = FALSE] ELSE v
  BY DEF Finish
<1>2. CASE task[t].kind \in {"send", "decide"}
  <2>1. view' = [v EXCEPT !.busy = FALSE]
    BY <1>1, <1>2
  <2> QED
    BY <1>1, <2>1 DEF ViewSet
<1>3. CASE task[t].kind \notin {"send", "decide"}
  <2>1. view' = v
    BY <1>1, <1>3
  <2> QED
    BY <1>1, <1>3, <2>1
<1> QED
  BY <1>2, <1>3

\* The ways from one await to the next.
CanGo(k, at) ==
  \/ k.at = "messages" /\ at = "latest"
  \/ k.at = "latest" /\ at \in {"details", "active"}
  \/ k.at = "details" /\ at = "active"
  \/ k.at = "fmessages" /\ at = "flatest"
  \/ k.at = "flatest" /\ at = "fdetails"
  \/ k.at = "cancel" /\ at = "smessages"
  \/ k.at = "smessages" /\ at = "sapprovals"
  \/ k.at = "read" /\ at \in {"fmessages", "approvals", "sleep"}
  \/ k.at = "sleep" /\ at = "fmessages"
  \/ k.at = "sleep" /\ at = "connect" /\ ~k.aborted
  \/ k.kind = "decide" /\ at = "fallback"

LEMMA FitsGone ==
  ASSUME NEW k \in TaskSet, NEW w \in TaskSet, NEW s, Fits(k, s), SameBut(w, k), w.run = k.run,
         w.got = None, w.aborted = k.aborted, CanGo(k, w.at), LiveTask(k)
  PROVE  /\ Fits(w, s)
         /\ (w.at \in Streaming /\ ~w.aborted) => k.at \in Streaming /\ ~k.aborted
         /\ w.at \in EarlyAts => k.at \in EarlyAts
         /\ (k.at \in Following /\ k.kind # "decide") => w.at \in Following
         /\ w.at \notin {"none", "done"}
         /\ k.at = "messages" => w.at = "latest" /\ LiveTask(w)
         /\ w.at = "messages" => FALSE
<1>1. KindOK(k) /\ k.at \in Ats /\ k.at \notin {"none", "done"}
  BY DEF Fits, TaskSet, LiveTask
<1>2. KindOK(w)
  BY <1>1 DEF KindOK, CanGo, SameBut, LoadAts, StopAts, FinalAts, Streaming
<1>3. w.at \in Streaming \cup FinalAts \cup StopAts \cup {"approvals", "fallback", "decide"}
           => k.at \in Streaming \cup FinalAts \cup StopAts \cup {"approvals", "fallback", "decide"}
  BY <1>1 DEF KindOK, CanGo, LoadAts, StopAts, FinalAts, Streaming, Ats, Requests
<1>4. w.at \in EarlyAts => k.at \in EarlyAts
  BY <1>1 DEF CanGo, EarlyAts, LoadAts, StopAts
<1>5. Fits(w, s)
  BY <1>1, <1>2, <1>3, <1>4, FitsMoves DEF Fits, RunKnown
<1>6. (w.at \in Streaming /\ ~w.aborted) => k.at \in Streaming /\ ~k.aborted
  BY DEF CanGo, Streaming
<1>7. (k.at \in Following /\ k.kind # "decide") => w.at \in Following
  BY DEF CanGo, Following, FinalAts
<1>8. w.at \notin {"none", "done"} /\ w.at # "messages"
  BY DEF CanGo
<1>9. k.at = "messages" => w.at = "latest" /\ LiveTask(w)
  BY <1>1 DEF CanGo, KindOK, LiveTask, SameBut, LoadAts
<1> QED
  BY <1>4, <1>5, <1>6, <1>7, <1>8, <1>9

\* The conversation, the stream and the flag of the view.
SameFrame(v) ==
  /\ v.conv = view.conv /\ v.store = view.store /\ v.stream = view.stream

\* Task t goes from one await to the next.
Goes(t, at) ==
  \E w \in TaskSet : /\ task' = [task EXCEPT ![t] = w] /\ task'[t] = w
                     /\ SameBut(w, task[t]) /\ w.run = task[t].run
                     /\ w.aborted = task[t].aborted
                     /\ w.at = at /\ w.got = None

LEMMA GoesKeeps ==
  ASSUME BothInv, SrvGrows, NEW t \in Tasks, NEW at \in Ats, Goes(t, at),
         UNCHANGED srv, LiveTask(task[t]), CanGo(task[t], at),
         SameFrame(view'), view'.busy = view.busy, view'.active = view.active,
         view'.approvals = view.approvals,
         view'.messages.final \subseteq view'.messages.known,
         view'.messages.of = view.messages.of \/ view'.messages.of = task[t].conv,
         view'.latest = view.latest \/ (view'.latest # None => srv[view'.latest].conv = task[t].conv),
         (faults' = 0 /\ task[t].at = "messages") => view'.messages.of = task[t].conv,
         (faults' = 0 /\ task[t].at = "latest") =>
           (view'.latest # None => srv[view'.latest].conv = task[t].conv)
  PROVE  BothInv'
<1>1. task \in [Tasks -> TaskSet] /\ Fits(task[t], srv) /\ task[t] \in TaskSet
  BY DEF BothInv, UInv, Typed
<1>2. PICK w \in TaskSet : /\ task' = [task EXCEPT ![t] = w] /\ task'[t] = w
                            /\ SameBut(w, task[t]) /\ w.run = task[t].run
                            /\ w.aborted = task[t].aborted
                            /\ w.at = at /\ w.got = None
  BY DEF Goes
<1>3. /\ Fits(w, srv)
      /\ (w.at \in Streaming /\ ~w.aborted) => task[t].at \in Streaming /\ ~task[t].aborted
      /\ w.at \in EarlyAts => task[t].at \in EarlyAts
      /\ (task[t].at \in Following /\ task[t].kind # "decide") => w.at \in Following
      /\ w.at \notin {"none", "done"}
      /\ task[t].at = "messages" => w.at = "latest" /\ LiveTask(w)
      /\ w.at = "messages" => FALSE
  <2>1. PICK k \in TaskSet : k = task[t]
    BY <1>1
  <2>2. CanGo(k, w.at) /\ LiveTask(k) /\ Fits(k, srv) /\ SameBut(w, k) /\ w.run = k.run /\ w.aborted = k.aborted
    BY <1>1, <1>2, <2>1
  <2> QED
    BY <1>2, <2>1, <2>2, FitsGone
<1>4. /\ w.conv = task[t].conv /\ w.kind = task[t].kind /\ InFlight(t) /\ srv' = srv /\ Fits(w, srv')
  BY <1>2, <1>3 DEF SameBut, LiveTask, InFlight
<1>5. Writes(view, w)
  BY <1>4 DEF Writes
<1>6. (faults' = 0 /\ LiveTask(task[t]) /\ task[t].at = "messages") =>
           w.at = "messages" \/ view'.messages.of = w.conv
  BY <1>4
<1>7. (faults' = 0 /\ LiveTask(task[t]) /\ task[t].at \in {"messages", "latest"}) =>
           \/ LiveTask(w) /\ w.at \in {"messages", "latest"}
           \/ view'.latest # None => srv'[view'.latest].conv = w.conv
  BY <1>3, <1>4
<1> QED
  BY <1>2, <1>3, <1>4, <1>5, <1>6, <1>7, GoesOn DEF SameFrame

LEMMA GotoKeeps ==
  ASSUME BothInv, SrvGrows, NEW t \in Tasks, NEW at \in Ats, Goto(t, at),
         UNCHANGED srv, LiveTask(task[t]), CanGo(task[t], at),
         SameFrame(view'), view'.busy = view.busy, view'.active = view.active,
         view'.approvals = view.approvals,
         view'.messages.final \subseteq view'.messages.known,
         view'.messages.of = view.messages.of \/ view'.messages.of = task[t].conv,
         view'.latest = view.latest \/ (view'.latest # None => srv[view'.latest].conv = task[t].conv),
         (faults' = 0 /\ task[t].at = "messages") => view'.messages.of = task[t].conv,
         (faults' = 0 /\ task[t].at = "latest") =>
           (view'.latest # None => srv[view'.latest].conv = task[t].conv)
  PROVE  BothInv'
<1>1. task \in [Tasks -> TaskSet]
  BY DEF BothInv, UInv, Typed
<1>2. Goes(t, at)
  BY <1>1, GotoIs DEF Goes
<1> QED
  BY <1>2, GoesKeeps

LEMMA FinishKeeps ==
  ASSUME BothInv, ServerOK', Grows, UNCHANGED srv, crossed' \in BOOLEAN, faults' \in Nat,
         crossed => crossed', faults' = 0 => faults = 0,
         NEW t \in Tasks, NEW v \in ViewSet, Finish(t, v), InFlight(t),
         SameFrame(v), v.busy = view.busy, v.messages = view.messages, v.latest = view.latest,
         \/ v.active = view.active /\ v.approvals = view.approvals
         \/ /\ LiveTask(task[t]) /\ v.active \in {view.active, None}
            /\ v.approvals # None => v.approvals.run = task[t].run /\ task[t].run \in Runs,
         faults' = 0 => task[t].at \notin {"messages", "latest"}
  PROVE  BothInv'
<1>1. /\ task \in [Tasks -> TaskSet] /\ Fits(task[t], srv) /\ task[t] \in TaskSet
      /\ Feeds(view, task)
  BY DEF BothInv, UInv, Typed
<1>2. /\ Done(t) /\ view' \in ViewSet /\ view'.conv = v.conv /\ view'.messages = v.messages
      /\ view'.latest = v.latest /\ view'.active = v.active /\ view'.approvals = v.approvals
      /\ view'.store = v.store /\ view'.stream = v.stream
      /\ view'.busy => v.busy /\ task[t].kind \notin {"send", "decide"}
  BY FinishIs
<1>3. PICK w \in TaskSet : /\ task' = [task EXCEPT ![t] = w] /\ task'[t] = w
                            /\ w.kind = task[t].kind /\ w.conv = task[t].conv
                            /\ w.run = task[t].run /\ w.terminal = task[t].terminal
                            /\ w.at = "done" /\ w.got = None /\ w.events = <<>>
                            /\ w.cursor = 0 /\ w.sent = 0 /\ w.aborted = FALSE /\ w.cut = task[t].cut
  BY <1>1, <1>2, DoneIs
<1>4. Fits(w, srv) /\ ~LiveTask(w)
  <2>1. PICK k \in TaskSet : k = task[t]
    BY <1>1
  <2> QED
    BY <1>1, <1>3, <2>1, FitsDone
<1>5. SrvGrows
  BY <1>2 DEF SrvGrows
<1>6. /\ w.at \notin Streaming /\ w.at \notin EarlyAts /\ w.at # "messages" /\ srv' = srv
  BY <1>3 DEF Streaming, EarlyAts, LoadAts, StopAts
<1>7. \/ LiveTask(task[t]) /\ Writes(view, w)
      \/ /\ view'.active = view.active /\ view'.approvals = view.approvals
         /\ view'.messages = view.messages /\ view'.latest = view.latest
  <2>1. CASE v.active = view.active /\ v.approvals = view.approvals
    BY <1>2, <2>1
  <2>2. CASE /\ LiveTask(task[t]) /\ v.active \in {view.active, None}
             /\ v.approvals # None => v.approvals.run = task[t].run /\ task[t].run \in Runs
    <3>1. task[t].run \in Runs => srv[task[t].run].conv = task[t].conv
      BY <1>1, RunsAreNumbers DEF Fits, RunKnown
    <3>2. Writes(view, w)
      BY <1>2, <1>3, <1>6, <2>2, <3>1 DEF Writes
    <3> QED
      BY <2>2, <3>2
  <2> QED
    BY <2>1, <2>2
<1>8. view'.messages.final \subseteq view'.messages.known
  BY <1>1, <1>2 DEF Feeds
<1>9. /\ view'.conv = view.conv /\ view'.store = view.store /\ view'.stream = view.stream
      /\ view'.busy => view.busy /\ (w.at # "done" \/ task[t].kind \notin {"send", "decide"})
  BY <1>2 DEF SameFrame
<1>10. w.at # "none" /\ Fits(w, srv')
  BY <1>3, <1>4, <1>6
<1> QED
  BY <1>3, <1>4, <1>5, <1>6, <1>7, <1>8, <1>9, <1>10, GoesOn

(* The last event of a log tells that the run has ended.                   *)
LEMMA EndedIsOver ==
  ASSUME NEW k \in RunSet, RunOK(k), NEW n \in Nat, 1 <= n, n <= Len(k.log), k.log[n] = "ended"
  PROVE  k.status = "over" /\ n = Len(k.log)
<1>1. k.log \in Seq(Events)
  BY DEF RunSet
<1>2. k # NoRun
  <2>1. NoRun.log = <<>> /\ Len(<<>>) = 0
    BY DEF NoRun
  <2> QED
    BY <2>1
<1>3. ASSUME NEW m \in 1 .. 3, Began(k.log, m), n <= m PROVE FALSE
  BY <1>3 DEF Began
<1>4. CASE k.status = "over" /\ Ended(k.log)
  <2>1. PICK m \in 1 .. 3 : Began(k.log, m) /\ Len(k.log) = m + 1
    BY <1>4 DEF Ended
  <2>2. ~(n <= m)
    BY <1>3, <2>1
  <2> QED
    BY <1>4, <2>1, <2>2
<1>5. CASE Began(k.log, Len(k.log))
  <2>1. Len(k.log) \in 1 .. 3
    BY <1>5 DEF Began
  <2> QED
    BY <1>3, <1>5, <2>1
<1> QED
  BY <1>2, <1>4, <1>5 DEF RunOK

LEMMA StoreGrows ==
  ASSUME NEW c \in Nat, NEW events, events = [i \in 1 .. c |-> i]
  PROVE  Append(events, c + 1) = [i \in 1 .. c + 1 |-> i]
<1> DEFINE longer == [i \in 1 .. c + 1 |-> i]
<1>1. events \in Seq(Nat) /\ Len(events) = c
  <2>1. \A i \in 1 .. c : i \in Nat
    OBVIOUS
  <2>2. events \in Seq(Nat)
    BY <2>1, IsASeq
  <2>3. DOMAIN events = 1 .. c /\ Len(events) \in Nat /\ DOMAIN events = 1 .. Len(events)
    BY <2>2, LenProperties
  <2> QED
    BY <2>2, <2>3
<1>2. longer \in Seq(Nat) /\ Len(longer) = c + 1
  <2>1. \A i \in 1 .. c + 1 : i \in Nat
    OBVIOUS
  <2>2. longer \in Seq(Nat)
    BY <2>1, IsASeq
  <2>3. DOMAIN longer = 1 .. c + 1 /\ Len(longer) \in Nat /\ DOMAIN longer = 1 .. Len(longer)
    BY <2>2, LenProperties
  <2> QED
    BY <2>2, <2>3
<1>3. /\ Append(events, c + 1) \in Seq(Nat) /\ Len(Append(events, c + 1)) = c + 1
      /\ \A i \in 1 .. c : Append(events, c + 1)[i] = events[i]
      /\ Append(events, c + 1)[c + 1] = c + 1
  BY <1>1
<1>4. \A i \in 1 .. c + 1 : Append(events, c + 1)[i] = longer[i]
  <2> SUFFICES ASSUME NEW i \in 1 .. c + 1 PROVE Append(events, c + 1)[i] = longer[i]
    OBVIOUS
  <2>1. longer[i] = i /\ (i \in 1 .. c => events[i] = i)
    OBVIOUS
  <2>2. i \in 1 .. c \/ i = c + 1
    OBVIOUS
  <2> QED
    BY <1>3, <2>1, <2>2
<1> HIDE DEF longer
<1>5. Append(events, c + 1) = longer
  BY <1>2, <1>3, <1>4, SeqEqual
<1> QED
  BY <1>5 DEF longer

\* The task k after the n-th event of its run, of type e.
ReadAs(k, w, n, e) ==
  /\ w.kind = k.kind /\ w.conv = k.conv /\ w.run = k.run /\ w.at = "read"
  /\ w.got = k.got /\ w.pending = k.pending /\ w.aborted = k.aborted /\ w.sent = n
  /\ w.cut = k.cut
  /\ IF n <= k.cursor THEN w.events = k.events /\ w.cursor = k.cursor
     ELSE w.events = Append(k.events, n) /\ w.cursor = n
  /\ w.waiting = (CASE e = "requested" -> TRUE [] e = "resolved" -> FALSE [] OTHER -> k.waiting)
  /\ w.terminal = (e = "ended")

LEMMA ReadEventIs ==
  ASSUME BothInv, NEW t \in Tasks, ReadEvent(t)
  PROVE  \E w \in TaskSet, n \in Nat, r \in Runs :
           /\ task' = [task EXCEPT ![t] = w] /\ task'[t] = w
           /\ n = task[t].sent + 1 /\ r = task[t].run /\ n <= Len(srv[r].log)
           /\ ReadAs(task[t], w, n, srv[r].log[n])
<1>1. task \in [Tasks -> TaskSet] /\ Fits(task[t], srv)
  BY DEF BothInv, UInv, Typed
<1>2. PICK k \in TaskSet : k = task[t]
  BY <1>1
<1>3. k.run \in Runs /\ k.at = "read"
  BY <1>1, <1>2 DEF ReadEvent, At, Fits, RunKnown, Streaming
<1>4. PICK n \in Nat, r \in Runs : n = k.sent + 1 /\ r = k.run
  BY <1>3 DEF TaskSet
<1>5. n <= Len(srv[r].log) /\ task' = [task EXCEPT ![t] = [Flags(Ingest(k, n), srv[r].log[n]) EXCEPT
                                                          !.sent = n, !.drained = FALSE]]
  <2>1. task' = [task EXCEPT ![t] = [Flags(Ingest(task[t], n), srv[r].log[n]) EXCEPT
                                     !.sent = n, !.drained = FALSE]]
    BY <1>2, <1>4 DEF ReadEvent
  <2>2. n <= Len(srv[r].log)
    BY <1>2, <1>4 DEF ReadEvent
  <2> QED
    BY <1>2, <2>1, <2>2
<1>6. PICK x \in TaskSet : /\ x = Ingest(k, n)
        /\ x.kind = k.kind /\ x.conv = k.conv /\ x.run = k.run /\ x.at = k.at /\ x.got = k.got
        /\ x.pending = k.pending /\ x.aborted = k.aborted /\ x.waiting = k.waiting
        /\ x.cut = k.cut
        /\ IF n <= k.cursor THEN x.events = k.events /\ x.cursor = k.cursor
           ELSE x.events = Append(k.events, n) /\ x.cursor = n
  <2>1. CASE n <= k.cursor
    BY <2>1 DEF Ingest
  <2>2. CASE ~(n <= k.cursor)
    <3> DEFINE seqs == Seq(Nat)
               gots == GotSet
               e == Append(k.events, n)
               x == [k EXCEPT !.events = e, !.cursor = n]
    <3>1. e \in seqs
      BY DEF TaskSet
    <3>2. TaskSet = [kind : Kinds, conv : Convs \cup {None}, run : Runs \cup {None}, at : Ats,
            got : gots, pending : BOOLEAN, events : seqs, cursor : Nat, sent : Nat,
            drained : BOOLEAN, waiting : BOOLEAN, terminal : BOOLEAN, aborted : BOOLEAN,
            cut : BOOLEAN]
      BY DEF TaskSet
    <3>3. x = Ingest(k, n)
      BY <2>2 DEF Ingest
    <3>4. k.cursor \in Nat
      BY DEF TaskSet
    <3> HIDE DEF seqs, gots, e
    <3>5. /\ x \in TaskSet /\ x.kind = k.kind /\ x.conv = k.conv /\ x.run = k.run /\ x.at = k.at
          /\ x.got = k.got /\ x.pending = k.pending /\ x.aborted = k.aborted
          /\ x.waiting = k.waiting /\ x.events = e /\ x.cursor = n /\ x.cut = k.cut
      BY <3>1, <3>2
    <3> HIDE DEF x
    <3> QED
      BY <2>2, <3>3, <3>5 DEF e
  <2> QED
    BY <2>1, <2>2
<1> DEFINE e == srv[r].log[n]
           wait == CASE e = "requested" -> TRUE [] e = "resolved" -> FALSE [] OTHER -> x.waiting
           term == (e = "ended")
           w == [x EXCEPT !.waiting = wait, !.terminal = term, !.sent = n, !.drained = FALSE]
<1>7. wait \in BOOLEAN /\ term \in BOOLEAN
  BY DEF TaskSet
<1>8. [Flags(x, e) EXCEPT !.sent = n, !.drained = FALSE] = w
  <2> HIDE DEF e
  <2>1. Flags(x, e) = [x EXCEPT !.waiting = wait, !.terminal = term]
    BY DEF Flags
  <2> HIDE DEF wait, term
  <2> QED
    BY <2>1 DEF TaskSet
<1>9. task' = [task EXCEPT ![t] = w]
  BY <1>5, <1>6, <1>8
<1>10. wait = (CASE srv[r].log[n] = "requested" -> TRUE
                 [] srv[r].log[n] = "resolved"  -> FALSE
                 [] OTHER                       -> k.waiting)
  BY <1>6
<1>11. term = (srv[r].log[n] = "ended")
  OBVIOUS
<1> HIDE DEF e, wait, term
<1>12. /\ w \in TaskSet /\ w.kind = x.kind /\ w.conv = x.conv /\ w.run = x.run /\ w.at = x.at
       /\ w.got = x.got /\ w.pending = x.pending /\ w.aborted = x.aborted
       /\ w.events = x.events /\ w.cursor = x.cursor
       /\ w.waiting = wait /\ w.terminal = term /\ w.sent = n /\ w.cut = x.cut
  BY <1>7 DEF TaskSet
<1> HIDE DEF w
<1>13. task'[t] = w
  BY <1>1, <1>9
<1>14. IF n <= k.cursor THEN w.events = k.events /\ w.cursor = k.cursor
       ELSE w.events = Append(k.events, n) /\ w.cursor = n
  BY <1>6, <1>12
<1>15. /\ w.kind = k.kind /\ w.conv = k.conv /\ w.run = k.run /\ w.at = "read"
       /\ w.got = k.got /\ w.pending = k.pending /\ w.aborted = k.aborted /\ w.cut = k.cut
  BY <1>3, <1>6, <1>12
<1>16. ReadAs(k, w, n, srv[r].log[n])
  BY <1>10, <1>11, <1>12, <1>14, <1>15 DEF ReadAs
<1> QED
  BY <1>2, <1>4, <1>5, <1>9, <1>12, <1>13, <1>16

LEMMA ReadEventKeeps ==
  ASSUME BothInv, NEW t \in Tasks, ReadEvent(t)
  PROVE  BothInv'
<1>1. /\ view \in ViewSet /\ task \in [Tasks -> TaskSet] /\ ServerOK /\ Fits(task[t], srv)
      /\ crossed \in BOOLEAN /\ faults \in Nat /\ Feeds(view, task)
  BY DEF BothInv, UInv, Typed
<1>2. PICK w \in TaskSet, n \in Nat, r \in Runs :
           /\ task' = [task EXCEPT ![t] = w] /\ task'[t] = w
           /\ n = task[t].sent + 1 /\ r = task[t].run /\ n <= Len(srv[r].log)
           /\ ReadAs(task[t], w, n, srv[r].log[n])
  BY ReadEventIs
<1>3. UNCHANGED <<srv, view, crossed, faults>> /\ task[t].at = "read" /\ ~task[t].aborted
  BY DEF ReadEvent, At
<1>4. PICK k \in TaskSet : k = task[t]
  BY <1>1
<1>5. Fits(w, srv)
  <2>1. KindOK(w)
    BY <1>1, <1>2, <1>3 DEF Fits, KindOK, ReadAs, LoadAts, StopAts, FinalAts, Streaming
  <2>2. RunKnown(w, srv)
    BY <1>1, <1>2, <1>3 DEF Fits, RunKnown, ReadAs
  <2>3. AnswerKnown(w, srv) /\ Unopened(w)
    BY <1>2 DEF AnswerKnown, Unopened, ReadAs, EarlyAts, LoadAts, StopAts
  <2>4. StoreOK(w)
    <3>1. k.events = [i \in 1 .. k.cursor |-> i] /\ k.sent <= k.cursor /\ k.cursor \in Nat /\ k.sent \in Nat
      BY <1>1, <1>4 DEF Fits, StoreOK, TaskSet
    <3>2. CASE n <= k.cursor
      BY <1>2, <1>4, <3>1, <3>2 DEF StoreOK, ReadAs
    <3>3. CASE ~(n <= k.cursor)
      <4>1. n = k.cursor + 1
        BY <1>2, <1>4, <3>1, <3>3
      <4>2. Append(k.events, k.cursor + 1) = [i \in 1 .. k.cursor + 1 |-> i]
        BY <3>1, StoreGrows
      <4>3. w.events = Append(k.events, n) /\ w.cursor = n /\ w.sent = n
        BY <1>2, <1>4, <3>3 DEF ReadAs
      <4>4. n <= n
        OBVIOUS
      <4> QED
        BY <4>1, <4>2, <4>3, <4>4 DEF StoreOK
    <3> QED
      BY <3>2, <3>3
  <2>5. EndKnown(w, srv)
    <3>1. PICK q \in RunSet : q = srv[r] /\ RunOK(q)
      BY <1>1 DEF ServerOK
    <3>2. 1 <= n
      BY <1>2, <1>4 DEF TaskSet
    <3>3. q.log[n] = "ended" => q.status = "over"
      BY <1>2, <3>1, <3>2, EndedIsOver
    <3> QED
      BY <1>2, <3>1, <3>3 DEF EndKnown, ReadAs
  <2> QED
    BY <2>1, <2>2, <2>3, <2>4, <2>5 DEF Fits
<1>6. SrvGrows
  BY <1>1, <1>3, NoServerStep DEF SrvGrows
<1>7. /\ w.conv = task[t].conv /\ w.kind = task[t].kind /\ w.at = "read" /\ ~w.aborted
  BY <1>2, <1>3 DEF ReadAs
<1>8. /\ InFlight(t) /\ (LiveTask(w) => LiveTask(task[t])) /\ w.at \notin EarlyAts
      /\ w.at \in Following /\ w.at # "none" /\ w.at # "done" /\ Fits(w, srv')
      /\ task[t].at \notin {"messages", "latest"} /\ task[t].at \in Streaming
  BY <1>3, <1>5, <1>7 DEF InFlight, LiveTask, EarlyAts, LoadAts, StopAts, Following, Streaming
<1>9. view'.messages.final \subseteq view'.messages.known /\ view' \in ViewSet
  BY <1>1, <1>3 DEF Feeds
<1> QED
  BY <1>2, <1>3, <1>6, <1>7, <1>8, <1>9, GoesOn

LEMMA ConnectIs ==
  ASSUME BothInv, NEW t \in Tasks, Connect(t)
  PROVE  \E w \in TaskSet :
           /\ task' = [task EXCEPT ![t] = w] /\ task'[t] = w
           /\ w.kind = task[t].kind /\ w.conv = task[t].conv /\ w.run = task[t].run /\ w.at = "read"
           /\ w.got = task[t].got /\ w.pending = task[t].pending /\ w.aborted = task[t].aborted
           /\ w.sent = task[t].cursor /\ w.cursor = task[t].cursor /\ w.events = task[t].events
           /\ w.waiting = task[t].waiting /\ w.terminal = task[t].terminal /\ w.cut = task[t].cut
<1>1. task \in [Tasks -> TaskSet]
  BY DEF BothInv, UInv, Typed
<1>2. PICK k \in TaskSet : k = task[t]
  BY <1>1
<1> DEFINE w == [k EXCEPT !.at = "read", !.sent = k.cursor, !.drained = FALSE]
<1>3. task' = [task EXCEPT ![t] = w]
  BY <1>1, <1>2 DEF Connect
<1>4. "read" \in Ats
  BY DEF Ats, Streaming
<1>5. /\ w \in TaskSet
      /\ w.kind = k.kind /\ w.conv = k.conv /\ w.run = k.run /\ w.at = "read"
      /\ w.got = k.got /\ w.pending = k.pending /\ w.aborted = k.aborted
      /\ w.sent = k.cursor /\ w.cursor = k.cursor /\ w.events = k.events
      /\ w.waiting = k.waiting /\ w.terminal = k.terminal /\ w.cut = k.cut
  BY <1>4 DEF TaskSet
<1> HIDE DEF w
<1> QED
  BY <1>1, <1>2, <1>3, <1>5

LEMMA ConnectKeeps ==
  ASSUME BothInv, NEW t \in Tasks, Connect(t)
  PROVE  BothInv'
<1>1. /\ view \in ViewSet /\ task \in [Tasks -> TaskSet] /\ ServerOK /\ Fits(task[t], srv)
      /\ crossed \in BOOLEAN /\ faults \in Nat /\ Feeds(view, task)
  BY DEF BothInv, UInv, Typed
<1>2. PICK w \in TaskSet :
           /\ task' = [task EXCEPT ![t] = w] /\ task'[t] = w
           /\ w.kind = task[t].kind /\ w.conv = task[t].conv /\ w.run = task[t].run /\ w.at = "read"
           /\ w.got = task[t].got /\ w.pending = task[t].pending /\ w.aborted = task[t].aborted
           /\ w.sent = task[t].cursor /\ w.cursor = task[t].cursor /\ w.events = task[t].events
           /\ w.waiting = task[t].waiting /\ w.terminal = task[t].terminal /\ w.cut = task[t].cut
  BY ConnectIs
<1>3. UNCHANGED <<srv, view, crossed, faults>> /\ task[t].at = "connect" /\ ~task[t].aborted
  BY DEF Connect, At
<1>5. Fits(w, srv)
  <2>1. KindOK(w)
    BY <1>1, <1>2, <1>3 DEF Fits, KindOK, LoadAts, StopAts, FinalAts, Streaming
  <2>2. RunKnown(w, srv)
    BY <1>1, <1>2, <1>3 DEF Fits, RunKnown, Streaming
  <2>3. AnswerKnown(w, srv) /\ Unopened(w)
    BY <1>2 DEF AnswerKnown, Unopened, EarlyAts, LoadAts, StopAts
  <2>4. StoreOK(w)
    <3>1. task[t].cursor \in Nat
      BY <1>1 DEF TaskSet
    <3> QED
      BY <1>1, <1>2, <3>1 DEF Fits, StoreOK
  <2>5. EndKnown(w, srv)
    BY <1>1, <1>2 DEF Fits, EndKnown
  <2> QED
    BY <2>1, <2>2, <2>3, <2>4, <2>5 DEF Fits
<1>6. SrvGrows
  BY <1>1, <1>3, NoServerStep DEF SrvGrows
<1>8. /\ InFlight(t) /\ (LiveTask(w) => LiveTask(task[t])) /\ w.at \notin EarlyAts
      /\ w.at \in Following /\ w.at # "none" /\ w.at # "done" /\ Fits(w, srv')
      /\ task[t].at \notin {"messages", "latest"} /\ task[t].at \in Streaming
  BY <1>2, <1>3, <1>5 DEF InFlight, LiveTask, EarlyAts, LoadAts, StopAts, Following, Streaming
<1>9. view'.messages.final \subseteq view'.messages.known /\ view' \in ViewSet
  BY <1>1, <1>3 DEF Feeds
<1> QED
  BY <1>2, <1>3, <1>6, <1>8, <1>9, GoesOn

LEMMA LookIs ==
  ASSUME NEW t \in Tasks, task \in [Tasks -> TaskSet], Look(t)
  PROVE  \E w \in TaskSet :
           /\ task' = [task EXCEPT ![t] = w] /\ task'[t] = w
           /\ w.kind = task[t].kind /\ w.conv = task[t].conv /\ w.run = task[t].run /\ w.at = "read"
           /\ w.got = task[t].got /\ w.pending = task[t].pending /\ w.aborted = task[t].aborted
           /\ w.sent = task[t].sent /\ w.cursor = task[t].cursor /\ w.events = task[t].events
           /\ w.waiting = task[t].waiting /\ w.terminal = task[t].terminal /\ w.cut = task[t].cut
<1>1. PICK k \in TaskSet : k = task[t]
  OBVIOUS
<1> DEFINE w == [k EXCEPT !.drained = TRUE]
<1>2. task' = [task EXCEPT ![t] = w]
  BY <1>1 DEF Look
<1>3. /\ w \in TaskSet
      /\ w.kind = k.kind /\ w.conv = k.conv /\ w.run = k.run /\ w.at = k.at
      /\ w.got = k.got /\ w.pending = k.pending /\ w.aborted = k.aborted
      /\ w.sent = k.sent /\ w.cursor = k.cursor /\ w.events = k.events
      /\ w.waiting = k.waiting /\ w.terminal = k.terminal /\ w.cut = k.cut
  BY DEF TaskSet
<1>4. k.at = "read"
  BY <1>1 DEF Look, At
<1> HIDE DEF w
<1> QED
  BY <1>1, <1>2, <1>3, <1>4

LEMMA LookKeeps ==
  ASSUME BothInv, NEW t \in Tasks, Look(t)
  PROVE  BothInv'
<1>1. /\ view \in ViewSet /\ task \in [Tasks -> TaskSet] /\ ServerOK /\ Fits(task[t], srv)
      /\ crossed \in BOOLEAN /\ faults \in Nat /\ Feeds(view, task)
  BY DEF BothInv, UInv, Typed
<1>2. PICK w \in TaskSet :
           /\ task' = [task EXCEPT ![t] = w] /\ task'[t] = w
           /\ w.kind = task[t].kind /\ w.conv = task[t].conv /\ w.run = task[t].run /\ w.at = "read"
           /\ w.got = task[t].got /\ w.pending = task[t].pending /\ w.aborted = task[t].aborted
           /\ w.sent = task[t].sent /\ w.cursor = task[t].cursor /\ w.events = task[t].events
           /\ w.waiting = task[t].waiting /\ w.terminal = task[t].terminal /\ w.cut = task[t].cut
  BY <1>1, LookIs
<1>3. UNCHANGED <<srv, view, crossed, faults>> /\ task[t].at = "read" /\ ~task[t].aborted
  BY DEF Look, At
<1>5. Fits(w, srv)
  BY <1>1, <1>2, <1>3 DEF Fits, KindOK, RunKnown, AnswerKnown, StoreOK, EndKnown, Unopened
<1>6. SrvGrows
  BY <1>1, <1>3, NoServerStep DEF SrvGrows
<1>8. /\ InFlight(t) /\ (LiveTask(w) => LiveTask(task[t])) /\ w.at \notin EarlyAts
      /\ w.at \in Following /\ w.at # "none" /\ w.at # "done" /\ Fits(w, srv')
      /\ task[t].at \notin {"messages", "latest"} /\ task[t].at \in Streaming
  BY <1>2, <1>3, <1>5 DEF InFlight, LiveTask, EarlyAts, LoadAts, StopAts, Following, Streaming
<1>9. view'.messages.final \subseteq view'.messages.known /\ view' \in ViewSet
  BY <1>1, <1>3 DEF Feeds
<1> QED
  BY <1>2, <1>3, <1>6, <1>8, <1>9, GoesOn

LEMMA SameServer ==
  ASSUME BothInv, UNCHANGED srv, view' \in ViewSet,
         crossed' \in BOOLEAN, crossed => crossed', faults' \in {faults, faults + 1}
  PROVE  SrvGrows
BY NoServerStep DEF SrvGrows, BothInv, UInv, Typed

\* An answer to what a task waits for.
Answers(k, value, s) ==
  \/ k.at \in {"decide", "cancel"}
  \/ k.at \in {"messages", "fmessages", "smessages"} /\ value \in MsgSet
     /\ value.of = k.conv /\ value.final \subseteq value.known
  \/ k.at = "active" /\ \E r \in Runs \cup {None} : value = <<r>> /\ (r # None => s[r].conv = k.conv)
  \/ k.at = "post" /\ \E r \in Runs : value = <<r>> /\ s[r].conv = k.conv

(* A task that is served goes on waiting, with an answer.                  *)
LEMMA AnswerKeeps ==
  ASSUME BothInv, SrvGrows, NEW t \in Tasks, NEW value \in GotSet,
         Answered(t, value), UNCHANGED <<view, crossed, faults>>,
         Answers(task[t], value, srv')
  PROVE  BothInv'
<1>1. /\ view \in ViewSet /\ task \in [Tasks -> TaskSet] /\ ServerOK /\ Fits(task[t], srv)
      /\ crossed \in BOOLEAN /\ faults \in Nat /\ Feeds(view, task)
  BY DEF BothInv, UInv, Typed
<1>2. PICK w \in TaskSet : /\ task' = [task EXCEPT ![t] = w] /\ task'[t] = w
                            /\ SameBut(w, task[t]) /\ w.run = task[t].run
                            /\ w.aborted = task[t].aborted
                            /\ w.at = task[t].at /\ w.got = value
  BY <1>1, AnsweredIs
<1>3. PICK k \in TaskSet : k = task[t]
  BY <1>1
<1>4. Fits(k, srv')
  <2>1. /\ srv \in [Runs -> RunSet] /\ srv' \in [Runs -> RunSet]
        /\ \A r \in Runs : RunGrows(srv[r], srv'[r])
    BY <1>1 DEF SrvGrows, ServerOK, Grows
  <2> QED
    BY <1>1, <1>3, <2>1, FitsGrows
<1>5. Fits(w, srv')
  <2>1. KindOK(w) /\ RunKnown(w, srv') /\ StoreOK(w) /\ EndKnown(w, srv') /\ Unopened(w)
    <3>1. KindOK(w) /\ RunKnown(w, srv') /\ StoreOK(w) /\ EndKnown(w, srv')
      BY <1>2, <1>3, <1>4 DEF Fits, KindOK, RunKnown, StoreOK, EndKnown, SameBut
    <3>2. w.at \in EarlyAts => k.at # "read"
      BY <1>2, <1>3 DEF EarlyAts, LoadAts, StopAts
    <3>3. Unopened(w)
      BY <1>2, <1>3, <1>4, <3>2 DEF Fits, Unopened, SameBut
    <3> QED
      BY <3>1, <3>3
  <2>2. AnswerKnown(w, srv')
    BY <1>2 DEF AnswerKnown, SameBut, Answers
  <2> QED
    BY <2>1, <2>2 DEF Fits
<1>6. /\ w.conv = task[t].conv /\ w.kind = task[t].kind /\ (LiveTask(w) <=> LiveTask(task[t]))
  BY <1>2 DEF SameBut, LiveTask
<1>7. /\ w.at \notin Streaming /\ w.at # "none" /\ w.at # "done" /\ InFlight(t) /\ LiveTask(w)
  BY <1>2 DEF Answers, Streaming, InFlight, LiveTask
<1>9. view'.messages.final \subseteq view'.messages.known /\ view' \in ViewSet
  BY <1>1 DEF Feeds
<1> QED
  BY <1>2, <1>5, <1>6, <1>7, <1>9, GoesOn

\* A request, and what the server does for it.
ServesMessages(t) ==
  /\ task[t].at \in {"messages", "fmessages", "smessages"}
  /\ Answered(t, Messages(task[t].conv)) /\ UNCHANGED srv
ServesActive(t) ==
  task[t].at = "active" /\ Answered(t, <<ActiveOf(task[t].conv)>>) /\ UNCHANGED srv
ServesPost(t) ==
  /\ task[t].at = "post"
  /\ \E q \in Unused : srv' = [srv EXCEPT ![q] = NewRun(task[t].conv)] /\ Answered(t, <<q>>)
ServesDecide(t) ==
  /\ task[t].at = "decide" /\ srv[task[t].run].approval = "pending"
  /\ srv' = Decided(task[t].run) /\ Answered(t, <<"ok">>)
ServesCancel(t) ==
  task[t].at = "cancel" /\ srv' = Cancelled(task[t].run) /\ Answered(t, <<"ok">>)

LEMMA ServeIs ==
  ASSUME NEW t \in Tasks, Serve(t)
  PROVE  /\ UNCHANGED <<view, crossed, faults>> /\ task[t].got = None
         /\ \/ ServesMessages(t) \/ ServesActive(t) \/ ServesPost(t) \/ ServesDecide(t)
            \/ ServesCancel(t)
<1>1. ASSUME task[t].at = "post", Unused # {} PROVE \E q \in Unused : \A p \in Unused : q <= p
  <2>1. Unused \subseteq Nat
    BY RunsAreNumbers DEF Unused
  <2> QED
    BY <1>1, <2>1, LeastNat
<1>2. UNCHANGED <<view, crossed, faults>> /\ task[t].got = None
  BY DEF Serve
<1>3. \/ ServesMessages(t) \/ ServesActive(t) \/ ServesPost(t) \/ ServesDecide(t)
      \/ ServesCancel(t)
  BY <1>1 DEF Serve, ServesMessages, ServesActive, ServesPost, ServesDecide, ServesCancel, Answered
<1> QED
  BY <1>2, <1>3

LEMMA ServeKeeps ==
  ASSUME BothInv, NEW t \in Tasks, Serve(t)
  PROVE  BothInv'
<1>1. /\ view \in ViewSet /\ task \in [Tasks -> TaskSet] /\ ServerOK /\ Fits(task[t], srv)
      /\ crossed \in BOOLEAN /\ faults \in Nat /\ UNCHANGED <<view, crossed, faults>>
  BY DEF BothInv, UInv, Typed, Serve
<1>2. PICK c, r : c = task[t].conv /\ r = task[t].run
  OBVIOUS
<1>3. \/ /\ task[t].at \in {"messages", "fmessages", "smessages"}
         /\ task' = [task EXCEPT ![t].got = Messages(c)] /\ UNCHANGED srv
      \/ /\ task[t].at = "active"
         /\ task' = [task EXCEPT ![t].got = <<ActiveOf(c)>>] /\ UNCHANGED srv
      \/ /\ task[t].at = "post"
         /\ \E q \in Unused : /\ srv' = [srv EXCEPT ![q] = NewRun(c)]
                               /\ task' = [task EXCEPT ![t].got = <<q>>]
      \/ /\ task[t].at = "decide" /\ srv[r].approval = "pending"
         /\ srv' = Decided(r)
         /\ task' = [task EXCEPT ![t].got = <<"ok">>]
      \/ /\ task[t].at = "cancel"
         /\ srv' = Cancelled(r)
         /\ task' = [task EXCEPT ![t].got = <<"ok">>]
  BY <1>2, ServeIs
     DEF ServesMessages, ServesActive, ServesPost, ServesDecide, ServesCancel, Answered
<1>4. task[t].at \in Requests => c \in Convs
  BY <1>1, <1>2 DEF Fits, RunKnown, Requests
<1>5. CASE /\ task[t].at \in {"messages", "fmessages", "smessages"}
           /\ task' = [task EXCEPT ![t].got = Messages(c)] /\ UNCHANGED srv
  <2>1. task[t].at \in Requests
    BY <1>5 DEF Requests
  <2>2. PICK m \in MsgSet : m = Messages(c) /\ m.of = c /\ m.final \subseteq m.known
    <3> DEFINE known == RunsOf(c)
               final == {q \in known : srv[q].status = "over"}
    <3>1. known \in SUBSET Runs /\ final \in SUBSET Runs /\ final \subseteq known
      BY DEF RunsOf
    <3>2. Messages(c) = [of |-> c, known |-> known, final |-> final]
      BY DEF Messages
    <3> HIDE DEF known, final
    <3> QED
      BY <1>4, <2>1, <3>1, <3>2 DEF MsgSet
  <2>3. m \in GotSet
    BY DEF GotSet
  <2>4. Answers(task[t], m, srv') /\ task' = [task EXCEPT ![t].got = m]
    BY <1>2, <1>5, <2>2 DEF Answers
  <2> QED
    BY <1>1, <1>5, <2>3, <2>4, SameServer, AnswerKeeps DEF Answered
<1>6. CASE /\ task[t].at = "active"
           /\ task' = [task EXCEPT ![t].got = <<ActiveOf(c)>>] /\ UNCHANGED srv
  <2>1. task[t].at \in Requests
    BY <1>6 DEF Requests
  <2>2. ActiveOf(c) \in Runs \cup {None} /\ (ActiveOf(c) # None => srv[ActiveOf(c)].conv = c)
    <3> DEFINE S == {q \in RunsOf(c) : srv[q].status \in {"going", "waiting"}}
    <3>1. S \in SUBSET Runs /\ \A q \in S : srv[q].conv = c
      BY DEF RunsOf
    <3>2. ActiveOf(c) = Latest(S)
      BY DEF ActiveOf
    <3> HIDE DEF S
    <3> QED
      BY <3>1, <3>2, LatestIs
  <2>3. PICK q \in Runs \cup {None} : q = ActiveOf(c)
    BY <2>2
  <2>4. <<q>> \in GotSet
    BY DEF GotSet
  <2>5. Answers(task[t], <<q>>, srv') /\ task' = [task EXCEPT ![t].got = <<q>>]
    BY <1>2, <1>6, <2>2, <2>3 DEF Answers
  <2> QED
    BY <1>1, <1>6, <2>4, <2>5, SameServer, AnswerKeeps DEF Answered
<1>7. CASE /\ task[t].at = "post"
           /\ \E q \in Unused : /\ srv' = [srv EXCEPT ![q] = NewRun(c)]
                                 /\ task' = [task EXCEPT ![t].got = <<q>>]
  <2>1. task[t].at \in Requests /\ c \in Convs
    BY <1>4, <1>7 DEF Requests
  <2>2. PICK q \in Unused : /\ srv' = [srv EXCEPT ![q] = NewRun(c)]
                            /\ task' = [task EXCEPT ![t].got = <<q>>]
    BY <1>7
  <2>3. ServerOK' /\ Grows /\ q \in Runs /\ srv'[q].conv = c
    BY <1>1, <2>1, <2>2, PostedIs
  <2>4. <<q>> \in GotSet
    BY <2>3 DEF GotSet
  <2>5. SrvGrows
    BY <1>1, <2>3 DEF SrvGrows
  <2>6. Answers(task[t], <<q>>, srv')
    BY <1>2, <1>7, <2>3 DEF Answers
  <2> QED
    BY <1>1, <2>2, <2>4, <2>5, <2>6, AnswerKeeps DEF Answered
<1>8. <<"ok">> \in GotSet
  BY DEF GotSet
<1>9. CASE /\ task[t].at = "decide" /\ srv[r].approval = "pending"
           /\ srv' = Decided(r)
           /\ task' = [task EXCEPT ![t].got = <<"ok">>]
  <2>1. task[t].at \in Requests /\ r \in Runs
    BY <1>1, <1>2, <1>9 DEF Requests, Fits, RunKnown
  <2>2. SrvGrows
    BY <1>1, <1>9, <2>1, DecidedIs DEF SrvGrows
  <2>3. Answers(task[t], <<"ok">>, srv')
    BY <1>9 DEF Answers
  <2> QED
    BY <1>1, <1>8, <1>9, <2>2, <2>3, AnswerKeeps DEF Answered
<1>10. CASE /\ task[t].at = "cancel"
            /\ srv' = Cancelled(r)
            /\ task' = [task EXCEPT ![t].got = <<"ok">>]
  <2>1. task[t].at \in Requests /\ r \in Runs /\ srv[r].conv \in Convs
    BY <1>1, <1>2, <1>10, RunsAreNumbers DEF Requests, Fits, RunKnown, StopAts
  <2>2. srv[r].status # "none"
    <3>1. RunOK(srv[r])
      BY <1>1, <2>1 DEF ServerOK
    <3> QED
      BY <2>1, <3>1, RunsAreNumbers DEF RunOK, NoRun
  <2>3. SrvGrows
    BY <1>1, <1>10, <2>1, <2>2, CancelledIs DEF SrvGrows
  <2>4. Answers(task[t], <<"ok">>, srv')
    BY <1>10 DEF Answers
  <2> QED
    BY <1>1, <1>8, <1>10, <2>3, <2>4, AnswerKeeps DEF Answered
<1> QED
  BY <1>3, <1>5, <1>6, <1>7, <1>9, <1>10

LEMMA LoadMessagesKeeps ==
  ASSUME BothInv, NEW t \in Tasks, LoadMessages(t)
  PROVE  BothInv'
<1>1. /\ view \in ViewSet /\ task \in [Tasks -> TaskSet] /\ Fits(task[t], srv)
      /\ crossed \in BOOLEAN /\ faults \in Nat /\ UNCHANGED <<srv, crossed, faults>>
  BY DEF BothInv, UInv, Typed, LoadMessages
<1>2. PICK m \in MsgSet : m = task[t].got /\ m.of = task[t].conv /\ m.final \subseteq m.known
  BY <1>1 DEF Fits, AnswerKnown, LoadMessages
<1>3. /\ view' \in ViewSet /\ SameFrame(view') /\ view'.busy = view.busy /\ view'.active = view.active
      /\ view'.approvals = view.approvals /\ view'.messages = m /\ view'.latest = view.latest
  BY <1>1, <1>2 DEF LoadMessages, ViewSet, SameFrame
<1>4. PICK at \in Ats : Goto(t, at) /\ CanGo(task[t], at)
  <2>1. "latest" \in Ats /\ "flatest" \in Ats /\ "sapprovals" \in Ats
    BY DEF Ats, Requests
  <2> QED
    BY <2>1 DEF LoadMessages, CanGo, At
<1>5. LiveTask(task[t])
  BY DEF LoadMessages, LiveTask
<1>6. SrvGrows
  BY <1>1, <1>3, SameServer
<1>7. task[t].at # "latest"
  BY DEF LoadMessages
<1>8. view'.messages.final \subseteq view'.messages.known /\ view'.messages.of = task[t].conv
  BY <1>2, <1>3
<1> QED
  BY <1>1, <1>3, <1>4, <1>5, <1>6, <1>7, <1>8, GotoKeeps

LEMMA LoadLatestKeeps ==
  ASSUME BothInv, NEW t \in Tasks, LoadLatest(t)
  PROVE  BothInv'
<1>1. /\ view \in ViewSet /\ task \in [Tasks -> TaskSet] /\ Fits(task[t], srv)
      /\ crossed \in BOOLEAN /\ faults \in Nat /\ UNCHANGED <<srv, crossed, faults>>
      /\ task[t].at \in {"latest", "flatest"} /\ Feeds(view, task)
  BY DEF BothInv, UInv, Typed, LoadLatest
<1>2. PICK l \in Runs \cup {None} :
        /\ view' = [view EXCEPT !.latest = l] /\ (l # None => srv[l].conv = task[t].conv)
  <2>1. PICK x : x = Latest(RunsOf(task[t].conv))
    OBVIOUS
  <2>2. x \in Runs \cup {None} /\ (x # None => srv[x].conv = task[t].conv)
    <3>1. RunsOf(task[t].conv) \in SUBSET Runs /\ \A q \in RunsOf(task[t].conv) : srv[q].conv = task[t].conv
      BY DEF RunsOf
    <3> QED
      BY <2>1, <3>1, LatestIs
  <2>3. task[t].run \in Runs \cup {None} /\ (task[t].run # None => srv[task[t].run].conv = task[t].conv)
    BY <1>1 DEF TaskSet, Fits, RunKnown
  <2>4. view' = [view EXCEPT !.latest = IF x = None /\ At(t, "flatest") THEN task[t].run ELSE x]
    BY <2>1 DEF LoadLatest
  <2>5. CASE x = None /\ At(t, "flatest")
    <3>1. view' = [view EXCEPT !.latest = task[t].run]
      BY <2>4, <2>5
    <3> QED
      BY <2>3, <3>1
  <2>6. CASE ~(x = None /\ At(t, "flatest"))
    <3>1. view' = [view EXCEPT !.latest = x]
      BY <2>4, <2>6
    <3> QED
      BY <2>2, <3>1
  <2> QED
    BY <2>5, <2>6
<1>3. /\ view' \in ViewSet /\ SameFrame(view') /\ view'.busy = view.busy /\ view'.active = view.active
      /\ view'.approvals = view.approvals /\ view'.messages = view.messages /\ view'.latest = l
  BY <1>1, <1>2 DEF ViewSet, SameFrame
<1>4. PICK at \in Ats : Goto(t, at) /\ CanGo(task[t], at)
  <2>1. "fdetails" \in Ats /\ "details" \in Ats /\ "active" \in Ats
    BY DEF Ats, Requests
  <2>2. \E at \in {"fdetails", "details", "active"} : Goto(t, at) /\ (at = "fdetails" <=> task[t].at = "flatest")
    BY DEF LoadLatest, At
  <2> QED
    BY <1>1, <2>1, <2>2 DEF CanGo
<1>5. LiveTask(task[t]) /\ task[t].at # "messages"
  BY <1>1 DEF LiveTask
<1>6. view'.messages.final \subseteq view'.messages.known
  BY <1>1, <1>3 DEF Feeds
<1> QED
  BY <1>1, <1>2, <1>3, <1>4, <1>5, <1>6, SameServer, GotoKeeps

(* A task that goes on and leaves the view as it is.                       *)
LEMMA WaitKeeps ==
  ASSUME BothInv, UNCHANGED <<srv, view>>, NEW t \in Tasks, NEW at \in Ats, Goto(t, at),
         crossed' \in BOOLEAN, crossed => crossed', faults' \in {faults, faults + 1},
         LiveTask(task[t]), CanGo(task[t], at),
         task[t].at \in {"messages", "latest"} => faults' # 0
  PROVE  BothInv'
<1>1. view \in ViewSet /\ Feeds(view, task)
  BY DEF BothInv, UInv, Typed
<1>2. view'.messages.final \subseteq view'.messages.known /\ SameFrame(view')
  BY <1>1 DEF Feeds, SameFrame
<1>3. SrvGrows
  BY <1>1, SameServer
<1> QED
  BY <1>2, <1>3, GotoKeeps

LEMMA LoadDetailsKeeps ==
  ASSUME BothInv, NEW t \in Tasks, LoadDetails(t)
  PROVE  BothInv'
<1>1. /\ view \in ViewSet /\ task \in [Tasks -> TaskSet] /\ Fits(task[t], srv) /\ ServerOK
      /\ crossed \in BOOLEAN /\ faults \in Nat /\ UNCHANGED <<srv, crossed, faults>>
      /\ task[t].at \in {"details", "fdetails"}
  BY DEF BothInv, UInv, Typed, LoadDetails
<1>2. LiveTask(task[t]) /\ InFlight(t)
  BY <1>1 DEF LiveTask, InFlight
<1>3. CASE task[t].at = "details"
  <2>1. Goto(t, "active") /\ UNCHANGED view /\ CanGo(task[t], "active") /\ "active" \in Ats
    BY <1>3 DEF LoadDetails, At, CanGo, Ats, Requests
  <2> QED
    BY <1>1, <1>2, <1>3, <2>1, WaitKeeps
<1>4. CASE task[t].at = "fdetails"
  <2>1. PICK v \in ViewSet : /\ v = Followed(view) /\ SameFrame(v) /\ v.busy = view.busy
          /\ v.messages = view.messages /\ v.latest = view.latest /\ v.active = None /\ v.approvals = None
    <3> DEFINE v == Followed(view)
    <3>1. /\ v \in ViewSet /\ SameFrame(v) /\ v.busy = view.busy
          /\ v.messages = view.messages /\ v.latest = view.latest /\ v.active = None /\ v.approvals = None
      BY <1>1 DEF Followed, ViewSet, SameFrame
    <3> QED
      BY <3>1
  <2>2. Finish(t, v)
    BY <1>4, <2>1 DEF LoadDetails, At
  <2>3. ServerOK' /\ Grows
    BY <1>1, NoServerStep
  <2> QED
    BY <1>1, <1>2, <1>4, <2>1, <2>2, <2>3, FinishKeeps
<1> QED
  BY <1>1, <1>3, <1>4

(* A task that ends and leaves the view as it is.                          *)
LEMMA EndKeeps ==
  ASSUME BothInv, UNCHANGED srv, NEW t \in Tasks, Finish(t, view), InFlight(t),
         crossed' \in BOOLEAN, crossed => crossed', faults' \in {faults, faults + 1},
         task[t].at \in {"messages", "latest"} => faults' # 0
  PROVE  BothInv'
<1>1. PICK v \in ViewSet : v = view
  BY DEF BothInv, UInv, Typed
<1>2. ServerOK' /\ Grows /\ faults \in Nat
  BY NoServerStep DEF BothInv, UInv, Typed
<1>3. SameFrame(v)
  BY <1>1 DEF SameFrame
<1> QED
  BY <1>1, <1>2, <1>3, FinishKeeps

LEMMA LoadActiveKeeps ==
  ASSUME BothInv, NEW t \in Tasks, LoadActive(t)
  PROVE  BothInv'
<1>1. /\ view \in ViewSet /\ task \in [Tasks -> TaskSet] /\ Fits(task[t], srv) /\ Feeds(view, task)
      /\ crossed \in BOOLEAN /\ faults \in Nat /\ UNCHANGED <<srv, crossed, faults>>
      /\ task[t].at = "active" /\ task[t].got # None
  BY DEF BothInv, UInv, Typed, LoadActive, At
<1>2. PICK r \in Runs \cup {None} : task[t].got = <<r>> /\ (r # None => srv[r].conv = task[t].conv)
  BY <1>1 DEF Fits, AnswerKnown
<1>3. IF r = None THEN Finish(t, view) ELSE Consume(t, r, view)
  BY <1>2 DEF LoadActive
<1>4. InFlight(t)
  BY <1>1 DEF InFlight
<1>5. CASE r = None
  BY <1>1, <1>3, <1>4, <1>5, EndKeeps
<1>6. CASE r # None
  <2>1. PICK v \in ViewSet : v = view
    BY <1>1
  <2>2. v.messages.final \subseteq v.messages.known
    BY <1>1, <2>1 DEF Feeds
  <2> QED
    BY <1>1, <1>2, <1>3, <1>6, <2>1, <2>2, TakesStream
<1> QED
  BY <1>5, <1>6

LEMMA PostedKeeps ==
  ASSUME BothInv, NEW t \in Tasks, Posted(t)
  PROVE  BothInv'
<1>1. /\ view \in ViewSet /\ task \in [Tasks -> TaskSet] /\ Fits(task[t], srv) /\ Feeds(view, task)
      /\ crossed \in BOOLEAN /\ faults \in Nat /\ UNCHANGED <<srv, crossed, faults>>
      /\ task[t].at = "post" /\ task[t].got # None
  BY DEF BothInv, UInv, Typed, Posted, At
<1>2. PICK r \in Runs : task[t].got = <<r>> /\ srv[r].conv = task[t].conv
  BY <1>1 DEF Fits, AnswerKnown
<1>3. PICK m \in MsgSet : /\ m = [view.messages EXCEPT !.known = view.messages.known \cup {r}]
                          /\ m.of = view.messages.of /\ m.final \subseteq m.known
  <2>1. PICK k \in MsgSet : k = view.messages /\ k.final \subseteq k.known
    BY <1>1 DEF ViewSet, Feeds
  <2> DEFINE m == [k EXCEPT !.known = k.known \cup {r}]
  <2>2. k.known \cup {r} \in SUBSET Runs
    BY DEF MsgSet
  <2>3. m \in MsgSet /\ m.of = k.of /\ m.final = k.final /\ m.known = k.known \cup {r}
    BY <2>2 DEF MsgSet
  <2> QED
    BY <2>1, <2>3
<1>4. PICK v \in ViewSet : /\ v = [view EXCEPT !.messages = m] /\ v.conv = view.conv /\ v.stream = view.stream
         /\ v.busy = view.busy /\ v.messages = m /\ v.latest = view.latest /\ v.approvals = view.approvals
  <2> DEFINE v == [view EXCEPT !.messages = m]
  <2>1. /\ v \in ViewSet /\ v.conv = view.conv /\ v.stream = view.stream
        /\ v.busy = view.busy /\ v.messages = m /\ v.latest = view.latest /\ v.approvals = view.approvals
    BY <1>1 DEF ViewSet
  <2> QED
    BY <2>1
<1>5. Consume(t, r, v)
  <2>1. [view EXCEPT !.messages.known = view.messages.known \cup {r}] = v
    BY <1>3, <1>4
  <2>2. Consume(t, task[t].got[1], [view EXCEPT !.messages.known = view.messages.known \cup {task[t].got[1]}])
    BY DEF Posted
  <2> QED
    BY <1>2, <2>1, <2>2
<1> QED
  BY <1>1, <1>2, <1>3, <1>4, <1>5, TakesStream

LEMMA DecisionTakenKeeps ==
  ASSUME BothInv, NEW t \in Tasks, DecisionTaken(t)
  PROVE  BothInv'
<1>1. /\ view \in ViewSet /\ task \in [Tasks -> TaskSet] /\ Fits(task[t], srv) /\ Feeds(view, task)
      /\ crossed \in BOOLEAN /\ faults \in Nat /\ UNCHANGED <<srv, crossed, faults>>
      /\ task[t].at = "decide"
  BY DEF BothInv, UInv, Typed, DecisionTaken, At
<1>2. PICK r \in Runs : r = task[t].run /\ srv[r].conv = task[t].conv
  BY <1>1, RunsAreNumbers DEF Fits, RunKnown
<1>3. PICK v \in ViewSet :
         /\ v = (IF view.approvals # None /\ view.approvals.run = task[t].run
                 THEN [view EXCEPT !.approvals.status = "decided"] ELSE view)
         /\ v.conv = view.conv /\ v.stream = view.stream
         /\ v.busy = view.busy /\ v.messages = view.messages /\ v.latest = view.latest
         /\ v.approvals # None => view.approvals # None /\ v.approvals.run = view.approvals.run
  <2>1. CASE view.approvals # None /\ view.approvals.run = task[t].run
    <3>1. PICK x \in ShowSet : x = view.approvals
      BY <1>1, <2>1 DEF ViewSet
    <3> DEFINE y == [x EXCEPT !.status = "decided"]
               v == [view EXCEPT !.approvals = y]
    <3>2. y \in ShowSet /\ y.run = x.run
      BY DEF ShowSet, Approved
    <3>3. [view EXCEPT !.approvals.status = "decided"] = v
      BY <1>1, <3>1
    <3> HIDE DEF y
    <3>4. /\ v \in ViewSet /\ v.conv = view.conv /\ v.stream = view.stream
          /\ v.busy = view.busy /\ v.messages = view.messages /\ v.latest = view.latest /\ v.approvals = y
      BY <1>1, <3>2 DEF ViewSet
    <3> QED
      BY <2>1, <3>1, <3>2, <3>3, <3>4
  <2>2. CASE ~(view.approvals # None /\ view.approvals.run = task[t].run)
    BY <1>1, <2>2
  <2> QED
    BY <2>1, <2>2
<1>4. Consume(t, r, v)
  BY <1>2, <1>3 DEF DecisionTaken
<1>5. v.messages.final \subseteq v.messages.known
  BY <1>1, <1>3 DEF Feeds
<1> QED
  BY <1>1, <1>2, <1>3, <1>4, <1>5, TakesStream

LEMMA LoadToolApprovalsKeeps ==
  ASSUME BothInv, NEW t \in Tasks, LoadToolApprovals(t)
  PROVE  BothInv'
<1>1. /\ view \in ViewSet /\ task \in [Tasks -> TaskSet] /\ Fits(task[t], srv) /\ Feeds(view, task)
      /\ crossed \in BOOLEAN /\ faults \in Nat /\ UNCHANGED <<srv, crossed, faults>> /\ ServerOK
      /\ task[t].at \in {"approvals", "fallback", "sapprovals"}
  BY DEF BothInv, UInv, Typed, LoadToolApprovals
<1>2. PICK r \in Runs : r = task[t].run
  BY <1>1 DEF Fits, RunKnown, StopAts
<1>3. PICK x \in ShowSet : x = [run |-> r, status |-> srv[r].approval] /\ x.run = r
  <2>1. PICK s \in Approved : s = srv[r].approval
    BY <1>1 DEF ServerOK, RunSet
  <2>2. [run |-> r, status |-> s] \in ShowSet /\ [run |-> r, status |-> s].run = r
    BY DEF ShowSet
  <2> QED
    BY <2>1, <2>2
<1>4. PICK a \in Runs \cup {None} :
        a = (IF At(t, "sapprovals") THEN None ELSE view.active)
  BY <1>1 DEF ViewSet
<1>5. PICK v \in ViewSet :
         /\ v = [view EXCEPT !.approvals = x, !.active = a]
         /\ SameFrame(v) /\ v.busy = view.busy /\ v.messages = view.messages /\ v.latest = view.latest
         /\ v.approvals = x /\ v.active = a
  <2> DEFINE v == [view EXCEPT !.approvals = x, !.active = a]
  <2>1. /\ v \in ViewSet /\ SameFrame(v) /\ v.busy = view.busy /\ v.messages = view.messages
        /\ v.latest = view.latest /\ v.approvals = x /\ v.active = a
    BY <1>1 DEF ViewSet, SameFrame
  <2> QED
    BY <2>1
<1>6. Finish(t, v)
  BY <1>2, <1>3, <1>4, <1>5 DEF LoadToolApprovals
<1>7. LiveTask(task[t]) /\ InFlight(t) /\ a \in {view.active, None}
  BY <1>1, <1>4 DEF LiveTask, InFlight
<1>8. ServerOK' /\ Grows
  BY <1>1, NoServerStep
<1> QED
  BY <1>1, <1>2, <1>3, <1>5, <1>6, <1>7, <1>8, FinishKeeps

LEMMA RunStoppedKeeps ==
  ASSUME BothInv, NEW t \in Tasks, RunStopped(t)
  PROVE  BothInv'
<1>1. /\ view \in ViewSet /\ task \in [Tasks -> TaskSet] /\ Fits(task[t], srv) /\ task[t] \in TaskSet
      /\ crossed \in BOOLEAN /\ faults \in Nat /\ UNCHANGED <<srv, view, faults>>
      /\ task[t].at = "cancel" /\ crossed' \in BOOLEAN /\ (crossed => crossed')
  <2>1. task[t].pending \in BOOLEAN
    BY DEF BothInv, UInv, Typed, TaskSet
  <2> QED
    BY <2>1 DEF BothInv, UInv, Typed, RunStopped, At
<1>2. LiveTask(task[t]) /\ InFlight(t) /\ task[t].kind = "stop"
  BY <1>1 DEF LiveTask, InFlight, Fits, KindOK, StopAts
<1>3. CASE task[t].pending
  <2>1. Goto(t, "smessages") /\ CanGo(task[t], "smessages") /\ "smessages" \in Ats
    BY <1>1, <1>3 DEF RunStopped, CanGo, Ats, Requests
  <2> QED
    BY <1>1, <1>2, <2>1, WaitKeeps
<1>4. CASE ~task[t].pending
  <2>1. Finish(t, view)
    BY <1>1, <1>2, <1>4 DEF RunStopped, Finish
  <2> QED
    BY <1>1, <1>2, <2>1, EndKeeps
<1> QED
  BY <1>3, <1>4

(* The end of a body, found by the server or made by a proxy.              *)
LEMMA BodyEndsIs ==
  ASSUME NEW t \in Tasks, task \in [Tasks -> TaskSet], BodyEnds(t)
  PROVE  /\ AfterStream(task[t]) \in {"fmessages", "approvals", "sleep"}
         /\ Goes(t, AfterStream(task[t]))
<1>1. PICK k \in TaskSet : k = task[t]
  OBVIOUS
<1>2. PICK at \in Ats : at = AfterStream(k) /\ at \in {"fmessages", "approvals", "sleep"}
  <2>1. "fmessages" \in Ats /\ "approvals" \in Ats /\ "sleep" \in Ats
    BY DEF Ats, Requests, Streaming
  <2> QED
    BY <2>1 DEF AfterStream
<1>3. CASE Goto(t, at)
  BY <1>1, <1>2, <1>3, GotoIs DEF Goes
<1>4. ASSUME NEW b \in BOOLEAN, task' = [task EXCEPT ![t].at = at, ![t].got = None, ![t].cut = b]
      PROVE  Goes(t, at)
  <2> DEFINE w == [k EXCEPT !.at = at, !.got = None, !.cut = b]
  <2>1. None \in GotSet /\ k.at = "read"
    BY <1>1 DEF GotSet, BodyEnds, At
  <2>2. /\ w \in TaskSet /\ w.run = k.run /\ w.aborted = k.aborted
        /\ w.at = at /\ w.got = None /\ SameBut(w, k)
    BY <2>1 DEF TaskSet, SameBut
  <2>3. task' = [task EXCEPT ![t] = w]
    BY <1>1, <1>4
  <2> HIDE DEF w
  <2> QED
    BY <1>1, <2>2, <2>3 DEF Goes
<1>5. Goto(t, at) \/ \E b \in BOOLEAN : task' = [task EXCEPT ![t].at = at, ![t].got = None, ![t].cut = b]
  BY <1>1, <1>2 DEF BodyEnds
<1> QED
  BY <1>1, <1>2, <1>3, <1>4, <1>5

LEMMA BodyEndsKeeps ==
  ASSUME BothInv, NEW t \in Tasks, BodyEnds(t)
  PROVE  BothInv'
<1>1. /\ crossed \in BOOLEAN /\ faults \in Nat /\ UNCHANGED <<srv, view, crossed>>
      /\ task[t].at = "read" /\ ~task[t].aborted /\ faults' \in {faults, faults + 1}
      /\ view \in ViewSet /\ Feeds(view, task) /\ task \in [Tasks -> TaskSet]
  BY DEF BothInv, UInv, Typed, BodyEnds, At
<1>2. PICK at \in Ats : Goes(t, at) /\ CanGo(task[t], at)
  <2>1. "fmessages" \in Ats /\ "approvals" \in Ats /\ "sleep" \in Ats
    BY DEF Ats, Requests, Streaming
  <2> QED
    BY <1>1, <2>1, BodyEndsIs DEF CanGo
<1>3. LiveTask(task[t])
  BY <1>1 DEF LiveTask
<1>4. view'.messages.final \subseteq view'.messages.known /\ SameFrame(view')
  BY <1>1 DEF Feeds, SameFrame
<1>5. SrvGrows
  BY <1>1, SameServer
<1> QED
  BY <1>1, <1>2, <1>3, <1>4, <1>5, GoesKeeps

LEMMA AwakeKeeps ==
  ASSUME BothInv, NEW t \in Tasks, Awake(t)
  PROVE  BothInv'
<1>1. /\ crossed \in BOOLEAN /\ faults \in Nat /\ UNCHANGED <<srv, view, crossed, faults>>
      /\ task[t].at = "sleep"
  BY DEF BothInv, UInv, Typed, Awake, At
<1>2. PICK at \in Ats : Goto(t, at) /\ CanGo(task[t], at)
  <2>1. "fmessages" \in Ats /\ "connect" \in Ats
    BY DEF Ats, Requests, Streaming
  <2>2. CASE task[t].aborted
    <3>1. Goto(t, "fmessages")
      BY <2>2 DEF Awake
    <3>2. CanGo(task[t], "fmessages")
      BY <1>1 DEF CanGo
    <3> QED
      BY <2>1, <3>1, <3>2
  <2>3. CASE ~task[t].aborted
    <3>1. Goto(t, "connect") /\ CanGo(task[t], "connect")
      BY <1>1, <2>3 DEF Awake, CanGo
    <3> QED
      BY <2>1, <3>1
  <2> QED
    BY <2>2, <2>3
<1>3. LiveTask(task[t])
  BY <1>1 DEF LiveTask
<1> QED
  BY <1>1, <1>2, <1>3, WaitKeeps

(* A function in whose catch block an await ends goes on or ends.          *)
LEMMA CaughtKeeps ==
  ASSUME BothInv, NEW t \in Tasks, Caught(t), UNCHANGED <<srv, crossed>>, InFlight(t),
         faults' \in {faults, faults + 1},
         (task[t].at \in {"connect", "read"} /\ task[t].aborted) \/ LiveTask(task[t]),
         faults' # 0 \/ task[t].at \notin {"messages", "latest"}
  PROVE  BothInv'
<1>1. /\ crossed \in BOOLEAN /\ faults \in Nat
  BY DEF BothInv, UInv, Typed
<1>2. "latest" \in Ats /\ "flatest" \in Ats /\ "sapprovals" \in Ats /\ "fallback" \in Ats
  BY DEF Ats, Requests
<1>3. ASSUME task[t].at = "messages", Goto(t, "latest"), UNCHANGED view PROVE BothInv'
  <2>1. CanGo(task[t], "latest") /\ LiveTask(task[t])
    BY <1>3 DEF CanGo, LiveTask
  <2> QED
    BY <1>1, <1>2, <1>3, <2>1, WaitKeeps
<1>4. ASSUME task[t].at = "fmessages", Goto(t, "flatest"), UNCHANGED view PROVE BothInv'
  <2>1. CanGo(task[t], "flatest") /\ LiveTask(task[t])
    BY <1>4 DEF CanGo, LiveTask
  <2> QED
    BY <1>1, <1>2, <1>4, <2>1, WaitKeeps
<1>5. ASSUME task[t].at = "smessages", Goto(t, "sapprovals"), UNCHANGED view PROVE BothInv'
  <2>1. CanGo(task[t], "sapprovals") /\ LiveTask(task[t])
    BY <1>5 DEF CanGo, LiveTask
  <2> QED
    BY <1>1, <1>2, <1>5, <2>1, WaitKeeps
<1>6. ASSUME task[t].kind = "decide", Goto(t, "fallback"), UNCHANGED view PROVE BothInv'
  <2>1. CanGo(task[t], "fallback") /\ LiveTask(task[t])
    BY <1>6 DEF CanGo, LiveTask, InFlight
  <2> QED
    BY <1>1, <1>2, <1>6, <2>1, WaitKeeps
<1>7. ASSUME Finish(t, view) PROVE BothInv'
  BY <1>1, <1>7, EndKeeps
<1> QED
  BY <1>3, <1>4, <1>5, <1>6, <1>7 DEF Caught

LEMMA AbortErrorKeeps ==
  ASSUME BothInv, NEW t \in Tasks, AbortError(t)
  PROVE  BothInv'
<1>1. /\ Caught(t) /\ UNCHANGED <<srv, crossed, faults>> /\ InFlight(t)
      /\ task[t].at \in {"connect", "read"} /\ task[t].aborted
  BY DEF AbortError, InFlight
<1> QED
  BY <1>1, CaughtKeeps

LEMMA RefusedKeeps2 ==
  ASSUME BothInv, NEW t \in Tasks, Refused(t)
  PROVE  BothInv'
<1>1. /\ Caught(t) /\ UNCHANGED <<srv, crossed, faults>> /\ InFlight(t)
      /\ task[t].at = "decide" /\ LiveTask(task[t])
  BY DEF Refused, At, InFlight, LiveTask
<1> QED
  BY <1>1, CaughtKeeps

LEMMA RequestFailsKeeps ==
  ASSUME BothInv, NEW t \in Tasks, RequestFails(t)
  PROVE  BothInv'
<1>1. /\ Caught(t) /\ UNCHANGED <<srv, crossed>> /\ InFlight(t) /\ faults' = faults + 1
      /\ (task[t].at \in {"connect", "read"} /\ task[t].aborted) \/ LiveTask(task[t])
  BY DEF RequestFails, InFlight, Requests, LiveTask
<1>2. faults' # 0
  BY <1>1 DEF BothInv, UInv, Typed
<1> QED
  BY <1>1, <1>2, CaughtKeeps

LEMMA ViewStep ==
  ASSUME BothInv, [Next]_vars
  PROVE  BothInv'
<1>1. ASSUME ServerStep PROVE BothInv'
  <2>1. ServerOK /\ view \in ViewSet /\ crossed \in BOOLEAN /\ faults \in Nat
    BY DEF BothInv, UInv, Typed
  <2>2. UNCHANGED <<view, task, crossed, faults>>
    BY <1>1 DEF ServerStep
  <2>3. SrvGrows
    BY <1>1, <2>1, <2>2, ServerStepIs DEF SrvGrows
  <2> QED
    BY <2>2, <2>3, ServerKeeps
<1>2. ASSUME UNCHANGED vars PROVE BothInv'
  <2>1. UNCHANGED <<srv, view, task, crossed, faults>> /\ view \in ViewSet /\ crossed \in BOOLEAN
    BY <1>2 DEF vars, BothInv, UInv, Typed
  <2>2. SrvGrows
    BY <2>1, SameServer
  <2> QED
    BY <2>1, <2>2, ServerKeeps
<1>3. ASSUME NEW t \in Tasks, Client(t) PROVE BothInv'
  BY <1>3, ServeKeeps, LoadMessagesKeeps, LoadLatestKeeps, LoadDetailsKeeps, LoadActiveKeeps,
     PostedKeeps, DecisionTakenKeeps, LoadToolApprovalsKeeps, RunStoppedKeeps, ConnectKeeps,
     ReadEventKeeps, LookKeeps, BodyEndsKeeps, AwakeKeeps, AbortErrorKeeps, RefusedKeeps2 DEF Client
<1> QED
  BY <1>1, <1>2, <1>3, UserKeeps, RequestFailsKeeps DEF Next, Rest

LEMMA ViewInitially == Init => BothInv
<1> SUFFICES ASSUME Init PROVE BothInv
  OBVIOUS
<1>1. PICK c \in Convs : c = CHOOSE x \in Convs : TRUE
  BY RunsAreNumbers
<1>2. NewRun(c) \in RunSet /\ RunOK(NewRun(c))
  BY NewRunIs
<1>3. NoRun \in RunSet /\ RunOK(NoRun)
  <2>1. <<>> \in Seq(Events) /\ "none" \in Statuses /\ "none" \in Approved
    BY DEF Statuses, Approved
  <2> QED
    BY <2>1 DEF NoRun, RunSet, RunOK
<1>4. ServerOK
  <2>1. srv = [r \in Runs |-> IF r = 1 THEN NewRun(c) ELSE NoRun]
    BY <1>1 DEF Init
  <2> QED
    BY <1>2, <1>3, <2>1 DEF ServerOK
<1>5. view \in ViewSet /\ view.conv = None /\ view.stream = None /\ view.store = None /\ ~view.busy
      /\ view.messages.final \subseteq view.messages.known
  <2>1. Empty \in MsgSet /\ Empty.final \subseteq Empty.known
    BY DEF Empty, MsgSet
  <2>2. view = [conv |-> None, messages |-> Empty, latest |-> None, active |-> None,
             approvals |-> None, store |-> None, stream |-> None, busy |-> FALSE]
    BY DEF Init
  <2> QED
    BY <2>1, <2>2 DEF ViewSet
<1>6. NoTask \in TaskSet /\ Fits(NoTask, srv) /\ ~LiveTask(NoTask) /\ NoTask.at = "none"
  <2>1. /\ NoTask.at = "none" /\ NoTask.run = None /\ NoTask.got = None /\ NoTask.events = <<>>
        /\ NoTask.cursor = 0 /\ NoTask.sent = 0 /\ NoTask.waiting = FALSE /\ NoTask.terminal = FALSE
        /\ NoTask.aborted = FALSE /\ NoTask.cut = FALSE
    BY DEF NoTask
  <2>2. <<>> = [i \in 1 .. 0 |-> i]
    OBVIOUS
  <2>3. KindOK(NoTask)
    BY <2>1 DEF KindOK, LoadAts, StopAts, FinalAts, Streaming
  <2>4. RunKnown(NoTask, srv)
    BY <2>1 DEF RunKnown, StopAts, FinalAts, Streaming
  <2>5. AnswerKnown(NoTask, srv) /\ EndKnown(NoTask, srv) /\ Unopened(NoTask)
    BY <2>1 DEF AnswerKnown, EndKnown, Unopened
  <2>6. StoreOK(NoTask)
    BY <2>1, <2>2 DEF StoreOK
  <2> QED
    BY <2>1, <2>3, <2>4, <2>5, <2>6, NoTaskIs DEF Fits, LiveTask
<1>7. task \in [Tasks -> TaskSet] /\ \A t \in Tasks : task[t] = NoTask
  BY <1>6 DEF Init
<1>8. Feeds(view, task)
  BY <1>5, <1>6, <1>7 DEF Feeds, Streaming
<1>9. UInv
  BY <1>4, <1>5, <1>6, <1>7, <1>8 DEF UInv, Typed, Init
<1>10. VInv
  BY <1>5, <1>6, <1>7 DEF VInv, OfView, Filled, Brought
<1> QED
  BY <1>9, <1>10 DEF BothInv

LEMMA ShowsOneRunHolds == BothInv => ShowsOneRun
<1> SUFFICES ASSUME BothInv PROVE ShowsOneRun
  OBVIOUS
<1>1. /\ view \in ViewSet /\ task \in [Tasks -> TaskSet] /\ Feeds(view, task)
      /\ \A t \in Tasks : Fits(task[t], srv)
  BY DEF BothInv, UInv, Typed
<1>2. TypeOK
  <2>1. \A t \in Tasks : task[t].at \in Requests \cup Streaming \cup {"none", "done"}
    BY <1>1 DEF TaskSet, Ats
  <2> QED
    BY <1>1, <2>1 DEF TypeOK, ViewSet, Feeds, InFlight
<1>3. StoreInOrder
  BY <1>1 DEF StoreInOrder, Fits, StoreOK
<1>4. OneStream
  <2>1. \A t \in Tasks : task[t].aborted \in BOOLEAN
    BY <1>1 DEF TaskSet
  <2> QED
    BY <1>1, <2>1 DEF OneStream, Feeds
<1>5. ShownIsSelected
  <2> SUFFICES ASSUME ~crossed, view.conv # None
               PROVE  /\ view.store # None => task[view.store].conv = view.conv
                      /\ view.active # None => view.active \in RunsOf(view.conv)
                      /\ view.approvals # None => view.approvals.run \in RunsOf(view.conv)
                      /\ (Idle /\ faults = 0) =>
                           /\ view.messages.of = view.conv
                           /\ view.latest # None => view.latest \in RunsOf(view.conv)
    BY DEF ShownIsSelected
  <2>1. Filled(view, task, srv) /\ (faults = 0 => Brought(view, task, srv))
    BY DEF BothInv, VInv
  <2>2. /\ view.active # None => view.active \in Runs
        /\ view.latest # None => view.latest \in Runs
        /\ view.approvals # None => view.approvals.run \in Runs
    BY <1>1 DEF ViewSet, ShowSet
  <2>3. Idle => \A t \in Tasks : ~LiveTask(task[t])
    BY DEF Idle, InFlight, LiveTask
  <2> QED
    BY <2>1, <2>2, <2>3 DEF Filled, Brought, RunsOf
<1> QED
  BY <1>2, <1>3, <1>4, <1>5 DEF ShowsOneRun

(* What is on the screen is of one conversation and from one stream, each  *)
(* event once, over any number of switches, stops and dropped streams      *)
(* (WorkspaceView.tsx, runEventStore.ts).                                  *)
THEOREM ScreenShowsOneRun == Spec => []ShowsOneRun
<1>1. Init => BothInv
  BY ViewInitially
<1>2. BothInv /\ [Next]_vars => BothInv'
  BY ViewStep
<1>3. BothInv => ShowsOneRun
  BY ShowsOneRunHolds
<1> QED
  BY <1>1, <1>2, <1>3, PTL DEF Spec

(***************************************************************************)
(* The view is up to date at rest.  While nothing failed and nothing       *)
(* crossed, the functions that go on are none, one, or a stream and a      *)
(* stop, and each await has its stage.                                     *)
(***************************************************************************)
RunsIn(s, c) == {r \in Runs : s[r].conv = c}
Unended(s, r) == s[r].status \in {"going", "waiting"}
AllOver(s, c) == \A r \in Runs : s[r].conv = c => ~Unended(s, r)
OthersOver(s, c, q) == \A r \in Runs : (s[r].conv = c /\ r # q) => ~Unended(s, r)

\* A conversation has at most one run that has not ended.
OneUnended(s) ==
  \A r, q \in Runs : (Unended(s, r) /\ Unended(s, q) /\ s[r].conv = s[q].conv) => r = q

\* The answers of the runs followed to their end, but for the tasks in S.
Endings(final, tasks, c, S) ==
  \A u \in Tasks \ S : (tasks[u].terminal /\ tasks[u].conv = c) => tasks[u].run \in final

Shows(v, tasks, s, S) ==
  v.messages.known = RunsIn(s, v.conv) /\ Endings(v.messages.final, tasks, v.conv, S)
Brings(k, v, tasks, s) ==
  k.got # None => k.got.known = RunsIn(s, v.conv) /\ Endings(k.got.final, tasks, v.conv, {})

Prompts(v) == v.approvals # None /\ v.approvals.status = "pending"

\* The stream of the run was cut: its body ended on a run that was over.
CutRun(tasks, r) == \E t \in Tasks : tasks[t].cut /\ tasks[t].run = r

AtMessages(v, tasks, s, t) ==
  /\ tasks[t].at = "messages" /\ v.active = None /\ ~Prompts(v)
  /\ Brings(tasks[t], v, tasks, s)
AtLatest(v, tasks, s, t) ==
  /\ tasks[t].at \in {"latest", "details"} /\ v.active = None /\ ~Prompts(v)
  /\ Shows(v, tasks, s, {})
AtActive(v, tasks, s, t) ==
  /\ tasks[t].at = "active" /\ v.active = None /\ ~Prompts(v)
  /\ Shows(v, tasks, s, {})
  /\ tasks[t].got # None =>
       IF tasks[t].got[1] = None THEN AllOver(s, v.conv) ELSE OthersOver(s, v.conv, tasks[t].got[1])
AtPost(v, tasks, s, t) ==
  /\ tasks[t].at = "post" /\ v.active = None /\ ~Prompts(v)
  /\ Endings(v.messages.final, tasks, v.conv, {})
  /\ IF tasks[t].got = None
     THEN AllOver(s, v.conv) /\ v.messages.known = RunsIn(s, v.conv)
     ELSE /\ OthersOver(s, v.conv, tasks[t].got[1])
          /\ v.messages.known \cup {tasks[t].got[1]} = RunsIn(s, v.conv)
AtDecide(v, tasks, s, t) ==
  /\ tasks[t].at = "decide" /\ v.approvals # None /\ v.approvals.run = tasks[t].run
  /\ OthersOver(s, v.conv, tasks[t].run) /\ Shows(v, tasks, s, {})
  /\ tasks[t].got = None => s[tasks[t].run].status = "waiting"
AtStream(v, tasks, s, t) ==
  /\ tasks[t].at \in Streaming /\ ~tasks[t].aborted /\ ~tasks[t].cut
  /\ v.active = tasks[t].run /\ ~Prompts(v)
  /\ OthersOver(s, v.conv, tasks[t].run) /\ Shows(v, tasks, s, {t})
AtApprovals(v, tasks, s, t) ==
  /\ tasks[t].at = "approvals" /\ v.active = tasks[t].run
  /\ OthersOver(s, v.conv, tasks[t].run) /\ Shows(v, tasks, s, {})
  /\ s[tasks[t].run].status = "waiting" \/ (tasks[t].cut /\ AllOver(s, v.conv))
AtFinal(v, tasks, s, t) ==
  /\ tasks[t].at = "fmessages" /\ AllOver(s, v.conv) /\ Brings(tasks[t], v, tasks, s)
AtClosing(v, tasks, s, t) ==
  /\ tasks[t].at \in {"flatest", "fdetails"} /\ AllOver(s, v.conv) /\ Shows(v, tasks, s, {})
AtCancel(v, tasks, s, t) ==
  /\ tasks[t].at = "cancel" /\ tasks[t].pending /\ Shows(v, tasks, s, {})
  /\ OthersOver(s, v.conv, tasks[t].run)
  /\ tasks[t].got # None => AllOver(s, v.conv)
AtRefresh(v, tasks, s, t) ==
  /\ tasks[t].at = "smessages" /\ AllOver(s, v.conv) /\ Brings(tasks[t], v, tasks, s)
AtSettled(v, tasks, s, t) ==
  /\ tasks[t].at = "sapprovals" /\ AllOver(s, v.conv) /\ Shows(v, tasks, s, {})

Stage(v, tasks, s, t) ==
  \/ AtMessages(v, tasks, s, t) \/ AtLatest(v, tasks, s, t) \/ AtActive(v, tasks, s, t)
  \/ AtPost(v, tasks, s, t) \/ AtDecide(v, tasks, s, t) \/ AtStream(v, tasks, s, t)
  \/ AtApprovals(v, tasks, s, t) \/ AtFinal(v, tasks, s, t) \/ AtClosing(v, tasks, s, t)
  \/ AtCancel(v, tasks, s, t) \/ AtRefresh(v, tasks, s, t) \/ AtSettled(v, tasks, s, t)

AtRest(v, tasks, s) ==
  /\ Shows(v, tasks, s, {})
  /\ \/ /\ v.active = None \/ CutRun(tasks, v.active)
        /\ AllOver(s, v.conv) /\ ~Prompts(v)
     \/ /\ v.active # None
        /\ OthersOver(s, v.conv, v.active) /\ s[v.active].status = "waiting"
        /\ v.approvals = [run |-> v.active, status |-> "pending"]

OnlyLive(tasks, S) == \A t \in Tasks : LiveTask(tasks[t]) <=> t \in S

\* The stream ended before the stop was answered: it will cross.
Doomed(tasks) ==
  \E x \in Tasks :
    /\ tasks[x].at = "cancel" /\ ~tasks[x].pending
    /\ \A t \in Tasks \ {x} : LiveTask(tasks[t]) => tasks[t].at \in FinalAts \cup {"approvals"}

Phase(v, tasks, s) ==
  \/ OnlyLive(tasks, {}) /\ AtRest(v, tasks, s)
  \/ \E t \in Tasks : OnlyLive(tasks, {t}) /\ Stage(v, tasks, s, t)
  \/ \E t, x \in Tasks :
       /\ t # x /\ OnlyLive(tasks, {t, x}) /\ AtStream(v, tasks, s, t) /\ tasks[t].kind # "decide"
       /\ tasks[x].at = "cancel" /\ ~tasks[x].pending
  \/ Doomed(tasks)

RInv ==
  (~crossed /\ faults = 0) =>
    OneUnended(srv) /\ (view.conv # None => Phase(view, task, srv))

\* Nothing failed and nothing crossed.
Calm == BothInv /\ RInv /\ ~crossed /\ faults = 0

Stays == OneUnended(srv') /\ (view'.conv # None => Phase(view', task', srv'))

LEMMA CalmIs ==
  ASSUME Calm
  PROVE  /\ view \in ViewSet /\ task \in [Tasks -> TaskSet] /\ ServerOK /\ Feeds(view, task)
         /\ \A t \in Tasks : Fits(task[t], srv)
         /\ OfView(view, task) /\ Filled(view, task, srv)
         /\ OneUnended(srv) /\ (view.conv # None => Phase(view, task, srv))
BY DEF Calm, BothInv, UInv, VInv, RInv, Typed

SameEnds(tasks, tasks2) ==
  \A u \in Tasks :
    /\ tasks2[u].terminal = tasks[u].terminal /\ tasks2[u].conv = tasks[u].conv
    /\ tasks[u].terminal => tasks2[u].run = tasks[u].run
    /\ tasks[u].cut => tasks2[u].cut /\ tasks2[u].run = tasks[u].run

LEMMA EndingsStay ==
  ASSUME NEW tasks, NEW tasks2, SameEnds(tasks, tasks2), NEW final, NEW c, NEW S,
         Endings(final, tasks, c, S)
  PROVE  Endings(final, tasks2, c, S)
BY DEF SameEnds, Endings

LEMMA CutStays ==
  ASSUME NEW tasks, NEW tasks2, SameEnds(tasks, tasks2), NEW r, CutRun(tasks, r)
  PROVE  CutRun(tasks2, r)
BY DEF SameEnds, CutRun

LEMMA OneChanges ==
  ASSUME NEW tasks \in [Tasks -> TaskSet], NEW t \in Tasks, NEW w \in TaskSet,
         w.terminal = tasks[t].terminal, w.conv = tasks[t].conv, tasks[t].terminal => w.run = tasks[t].run,
         tasks[t].cut => w.cut /\ w.run = tasks[t].run
  PROVE  SameEnds(tasks, [tasks EXCEPT ![t] = w])
BY DEF SameEnds

(* A function that goes on, and is at no stream and no stop, is alone.     *)
LEMMA AloneIs ==
  ASSUME Calm, view.conv # None, NEW t \in Tasks, LiveTask(task[t]),
         task[t].at \notin Streaming \cup {"cancel"}
  PROVE  \/ OnlyLive(task, {t}) /\ Stage(view, task, srv, t)
         \/ Doomed(task) /\ task[t].at \in FinalAts \cup {"approvals"}
<1>1. Phase(view, task, srv)
  BY CalmIs
<1>2. CASE OnlyLive(task, {}) /\ AtRest(view, task, srv)
  BY <1>2 DEF OnlyLive
<1>3. ASSUME NEW u \in Tasks, OnlyLive(task, {u}) /\ Stage(view, task, srv, u)
      PROVE  OnlyLive(task, {t}) /\ Stage(view, task, srv, t)
  <2>1. t = u
    BY <1>3 DEF OnlyLive
  <2> QED
    BY <1>3, <2>1
<1>4. ASSUME NEW u \in Tasks, NEW x \in Tasks, OnlyLive(task, {u, x}),
             AtStream(view, task, srv, u), task[x].at = "cancel"
      PROVE  FALSE
  <2>1. t = u \/ t = x
    BY <1>4 DEF OnlyLive
  <2> QED
    BY <1>4, <2>1 DEF AtStream, Streaming
<1>5. CASE Doomed(task)
  BY <1>5 DEF Doomed, Streaming
<1> QED
  BY <1>1, <1>2, <1>3, <1>4, <1>5 DEF Phase

LEMMA DoomedStays ==
  ASSUME task \in [Tasks -> TaskSet], Doomed(task), NEW t \in Tasks, NEW w \in TaskSet,
         task' = [task EXCEPT ![t] = w],
         task[t].at = "cancel" => w.at = "cancel" /\ w.pending = task[t].pending,
         (task[t].at # "cancel" /\ LiveTask(w)) =>
           LiveTask(task[t]) /\ w.at \in FinalAts \cup {"approvals"}
  PROVE  Doomed(task')
<1>1. PICK x \in Tasks : /\ task[x].at = "cancel" /\ ~task[x].pending
                         /\ \A u \in Tasks \ {x} : LiveTask(task[u]) => task[u].at \in FinalAts \cup {"approvals"}
  BY DEF Doomed
<1>2. task'[t] = w /\ \A u \in Tasks : u # t => task'[u] = task[u]
  OBVIOUS
<1>3. x # t => task[t].at # "cancel"
  BY <1>1 DEF LiveTask, FinalAts
<1>4. task'[x].at = "cancel" /\ ~task'[x].pending
  BY <1>1, <1>2
<1>5. \A u \in Tasks \ {x} : LiveTask(task'[u]) => task'[u].at \in FinalAts \cup {"approvals"}
  BY <1>1, <1>2, <1>3
<1> QED
  BY <1>4, <1>5 DEF Doomed

(***************************************************************************)
(* The steps of the functions that are alone.                              *)
(***************************************************************************)
(* A task goes on: where it is doomed it stays so, and where it is alone   *)
(* the next stage is left to show.                                         *)
LEMMA GoesToStage ==
  ASSUME Calm, NEW t \in Tasks, NEW at \in Ats, Goto(t, at), UNCHANGED srv,
         view'.conv = view.conv, LiveTask(task[t]), at \notin {"none", "done", "connect", "read"},
         task[t].at \notin Streaming \cup {"cancel"},
         task[t].at \in FinalAts \cup {"approvals"} => at \in FinalAts,
         ASSUME view.conv # None, Stage(view, task, srv, t), task'[t].at = at, task'[t].got = None,
                task'[t].run = task[t].run, SameEnds(task, task')
         PROVE  Stage(view', task', srv', t)
  PROVE  Stays
<1>1. /\ task \in [Tasks -> TaskSet] /\ OneUnended(srv)
  BY CalmIs
<1>2. PICK w \in TaskSet : /\ task' = [task EXCEPT ![t] = w] /\ task'[t] = w
                            /\ SameBut(w, task[t]) /\ w.run = task[t].run
                            /\ w.aborted = task[t].aborted
                            /\ w.at = at /\ w.got = None
  BY <1>1, GotoIs
<1>3. SameEnds(task, task')
  BY <1>1, <1>2, OneChanges DEF SameBut, Streaming
<1>4. LiveTask(w)
  BY <1>2 DEF LiveTask
<1>5. ASSUME view.conv # None PROVE Phase(view', task', srv')
  <2>1. CASE OnlyLive(task, {t}) /\ Stage(view, task, srv, t)
    <3>1. OnlyLive(task', {t})
      BY <1>1, <1>2, <1>4, <2>1 DEF OnlyLive
    <3>2. Stage(view', task', srv', t)
      BY <1>2, <1>3, <1>5, <2>1
    <3> QED
      BY <3>1, <3>2 DEF Phase
  <2>2. CASE Doomed(task) /\ task[t].at \in FinalAts \cup {"approvals"}
    <3>1. Doomed(task')
      BY <1>1, <1>2, <2>2, DoomedStays
    <3> QED
      BY <3>1 DEF Phase
  <2> QED
    BY <1>5, <2>1, <2>2, AloneIs DEF Streaming
<1> QED
  BY <1>1, <1>5 DEF Stays

(* A task ends.                                                            *)
LEMMA EndsAtRest ==
  ASSUME Calm, NEW t \in Tasks, Done(t), UNCHANGED srv,
         view'.conv = view.conv, LiveTask(task[t]),
         task[t].at \notin Streaming \cup {"cancel"},
         ASSUME view.conv # None, Stage(view, task, srv, t), SameEnds(task, task')
         PROVE  AtRest(view', task', srv')
  PROVE  Stays
<1>1. /\ task \in [Tasks -> TaskSet] /\ OneUnended(srv)
  BY CalmIs
<1>2. PICK w \in TaskSet : /\ task' = [task EXCEPT ![t] = w] /\ task'[t] = w
                            /\ w.kind = task[t].kind /\ w.conv = task[t].conv
                            /\ w.run = task[t].run /\ w.terminal = task[t].terminal
                            /\ w.at = "done" /\ w.cut = task[t].cut
  BY <1>1, DoneIs
<1>3. SameEnds(task, task')
  BY <1>1, <1>2, OneChanges
<1>4. ~LiveTask(w)
  BY <1>2 DEF LiveTask
<1>5. ASSUME view.conv # None PROVE Phase(view', task', srv')
  <2>1. CASE OnlyLive(task, {t}) /\ Stage(view, task, srv, t)
    <3>1. OnlyLive(task', {})
      BY <1>1, <1>2, <1>4, <2>1 DEF OnlyLive
    <3>2. AtRest(view', task', srv')
      BY <1>3, <1>5, <2>1
    <3> QED
      BY <3>1, <3>2 DEF Phase
  <2>2. CASE Doomed(task)
    <3>1. Doomed(task')
      BY <1>1, <1>2, <1>4, <2>2, DoomedStays
    <3> QED
      BY <3>1 DEF Phase
  <2> QED
    BY <1>5, <2>1, <2>2, AloneIs DEF Streaming
<1> QED
  BY <1>1, <1>5 DEF Stays

LEMMA StageAt ==
  ASSUME NEW v, NEW tasks, NEW s, NEW t, Stage(v, tasks, s, t)
  PROVE  /\ tasks[t].at = "messages" => AtMessages(v, tasks, s, t)
         /\ tasks[t].at \in {"latest", "details"} => AtLatest(v, tasks, s, t)
         /\ tasks[t].at = "active" => AtActive(v, tasks, s, t)
         /\ tasks[t].at = "post" => AtPost(v, tasks, s, t)
         /\ tasks[t].at = "decide" => AtDecide(v, tasks, s, t)
         /\ tasks[t].at \in Streaming => AtStream(v, tasks, s, t)
         /\ tasks[t].at = "approvals" => AtApprovals(v, tasks, s, t)
         /\ tasks[t].at = "fmessages" => AtFinal(v, tasks, s, t)
         /\ tasks[t].at \in {"flatest", "fdetails"} => AtClosing(v, tasks, s, t)
         /\ tasks[t].at = "cancel" => AtCancel(v, tasks, s, t)
         /\ tasks[t].at = "smessages" => AtRefresh(v, tasks, s, t)
         /\ tasks[t].at = "sapprovals" => AtSettled(v, tasks, s, t)
         /\ tasks[t].at # "fallback"
BY DEF Stage, AtMessages, AtLatest, AtActive, AtPost, AtDecide, AtStream, AtApprovals, AtFinal,
       AtClosing, AtCancel, AtRefresh, AtSettled, Streaming

LEMMA LoadMessagesStays ==
  ASSUME Calm, NEW t \in Tasks, LoadMessages(t)
  PROVE  Stays
<1>1. /\ view \in ViewSet /\ task \in [Tasks -> TaskSet] /\ Fits(task[t], srv)
      /\ UNCHANGED <<srv, crossed, faults>> /\ task[t].got # None
  BY CalmIs DEF LoadMessages
<1>2. PICK m \in MsgSet : m = task[t].got /\ m.of = task[t].conv /\ m.final \subseteq m.known
  BY <1>1 DEF Fits, AnswerKnown, LoadMessages
<1>3. /\ view'.conv = view.conv /\ view'.active = view.active
      /\ view'.approvals = view.approvals /\ view'.messages = m
  BY <1>1, <1>2 DEF LoadMessages, ViewSet
<1>4. ASSUME Brings(task[t], view, task, srv), SameEnds(task, task') PROVE Shows(view', task', srv', {})
  <2>1. m.known = RunsIn(srv, view.conv) /\ Endings(m.final, task, view.conv, {})
    BY <1>1, <1>2, <1>4 DEF Brings
  <2>2. Endings(m.final, task', view.conv, {})
    BY <1>4, <2>1, EndingsStay
  <2> QED
    BY <1>1, <1>3, <2>1, <2>2 DEF Shows
<1>5. CASE task[t].at = "messages"
  <2>1. Goto(t, "latest") /\ "latest" \in Ats /\ LiveTask(task[t])
    BY <1>5 DEF LoadMessages, At, Ats, Requests, LiveTask
  <2>2. ASSUME view.conv # None, Stage(view, task, srv, t), task'[t].at = "latest", task'[t].got = None,
               task'[t].run = task[t].run, SameEnds(task, task')
        PROVE  Stage(view', task', srv', t)
    <3>1. AtMessages(view, task, srv, t)
      BY <1>5, <2>2, StageAt
    <3>2. Shows(view', task', srv', {})
      BY <1>4, <2>2, <3>1 DEF AtMessages
    <3>3. AtLatest(view', task', srv', t)
      BY <1>3, <2>2, <3>1, <3>2 DEF AtMessages, AtLatest, Prompts
    <3> QED
      BY <3>3 DEF Stage
  <2> QED
    BY <1>1, <1>3, <1>5, <2>1, <2>2, GoesToStage DEF FinalAts, Streaming
<1>6. CASE task[t].at = "fmessages"
  <2>1. Goto(t, "flatest") /\ "flatest" \in Ats /\ LiveTask(task[t]) /\ "flatest" \in FinalAts
    BY <1>6 DEF LoadMessages, At, Ats, Requests, LiveTask, FinalAts
  <2>2. ASSUME view.conv # None, Stage(view, task, srv, t), task'[t].at = "flatest", task'[t].got = None,
               task'[t].run = task[t].run, SameEnds(task, task')
        PROVE  Stage(view', task', srv', t)
    <3>1. AtFinal(view, task, srv, t)
      BY <1>6, <2>2, StageAt
    <3>2. Shows(view', task', srv', {})
      BY <1>4, <2>2, <3>1 DEF AtFinal
    <3>3. AtClosing(view', task', srv', t)
      BY <1>1, <1>3, <2>2, <3>1, <3>2 DEF AtFinal, AtClosing
    <3> QED
      BY <3>3 DEF Stage
  <2> QED
    BY <1>1, <1>3, <1>6, <2>1, <2>2, GoesToStage DEF Streaming
<1>7. CASE task[t].at = "smessages"
  <2>1. Goto(t, "sapprovals") /\ "sapprovals" \in Ats /\ LiveTask(task[t])
    BY <1>7 DEF LoadMessages, At, Ats, Requests, LiveTask
  <2>2. ASSUME view.conv # None, Stage(view, task, srv, t), task'[t].at = "sapprovals", task'[t].got = None,
               task'[t].run = task[t].run, SameEnds(task, task')
        PROVE  Stage(view', task', srv', t)
    <3>1. AtRefresh(view, task, srv, t)
      BY <1>7, <2>2, StageAt
    <3>2. Shows(view', task', srv', {})
      BY <1>4, <2>2, <3>1 DEF AtRefresh
    <3>3. AtSettled(view', task', srv', t)
      BY <1>1, <1>3, <2>2, <3>1, <3>2 DEF AtRefresh, AtSettled
    <3> QED
      BY <3>3 DEF Stage
  <2> QED
    BY <1>1, <1>3, <1>7, <2>1, <2>2, GoesToStage DEF FinalAts, Streaming
<1> QED
  BY <1>5, <1>6, <1>7 DEF LoadMessages

\* The messages, the active run and the approvals of the view.
SameShown == view'.conv = view.conv /\ view'.messages = view.messages /\ view'.active = view.active
             /\ view'.approvals = view.approvals

LEMMA ShowsStay ==
  ASSUME NEW S, UNCHANGED srv, view'.conv = view.conv, view'.messages = view.messages,
         SameEnds(task, task'), Shows(view, task, srv, S)
  PROVE  Shows(view', task', srv', S)
BY EndingsStay DEF Shows

LEMMA LoadLatestStays ==
  ASSUME Calm, NEW t \in Tasks, LoadLatest(t)
  PROVE  Stays
<1>1. view \in ViewSet /\ UNCHANGED <<srv, crossed, faults>> /\ task[t].at \in {"latest", "flatest"}
  BY CalmIs DEF LoadLatest
<1>2. SameShown
  BY <1>1 DEF LoadLatest, ViewSet, SameShown
<1>3. CASE task[t].at = "latest"
  <2>1. PICK at \in {"details", "active"} : Goto(t, at)
    BY <1>3 DEF LoadLatest, At
  <2>2. at \in Ats /\ LiveTask(task[t])
    BY <1>3 DEF Ats, Requests, LiveTask
  <2>3. ASSUME view.conv # None, Stage(view, task, srv, t), task'[t].at = at, task'[t].got = None,
               task'[t].run = task[t].run, SameEnds(task, task')
        PROVE  Stage(view', task', srv', t)
    <3>1. AtLatest(view, task, srv, t)
      BY <1>3, <2>3, StageAt
    <3>2. Shows(view', task', srv', {})
      BY <1>1, <1>2, <2>3, <3>1, ShowsStay DEF AtLatest, SameShown
    <3>3. AtLatest(view', task', srv', t) \/ AtActive(view', task', srv', t)
      BY <1>2, <2>3, <3>1, <3>2 DEF AtLatest, AtActive, Prompts, SameShown
    <3> QED
      BY <3>3 DEF Stage
  <2> QED
    BY <1>1, <1>2, <1>3, <2>1, <2>2, <2>3, GoesToStage DEF SameShown, FinalAts, Streaming
<1>4. CASE task[t].at = "flatest"
  <2>1. Goto(t, "fdetails") /\ "fdetails" \in Ats /\ LiveTask(task[t]) /\ "fdetails" \in FinalAts
    BY <1>4 DEF LoadLatest, At, Ats, Requests, LiveTask, FinalAts
  <2>3. ASSUME view.conv # None, Stage(view, task, srv, t), task'[t].at = "fdetails", task'[t].got = None,
               task'[t].run = task[t].run, SameEnds(task, task')
        PROVE  Stage(view', task', srv', t)
    <3>1. AtClosing(view, task, srv, t)
      BY <1>4, <2>3, StageAt
    <3>2. Shows(view', task', srv', {})
      BY <1>1, <1>2, <2>3, <3>1, ShowsStay DEF AtClosing, SameShown
    <3>3. AtClosing(view', task', srv', t)
      BY <1>1, <1>2, <2>3, <3>1, <3>2 DEF AtClosing, SameShown
    <3> QED
      BY <3>3 DEF Stage
  <2> QED
    BY <1>1, <1>2, <1>4, <2>1, <2>3, GoesToStage DEF SameShown, Streaming
<1> QED
  BY <1>1, <1>3, <1>4

LEMMA LoadDetailsStays ==
  ASSUME Calm, NEW t \in Tasks, LoadDetails(t)
  PROVE  Stays
<1>1. view \in ViewSet /\ UNCHANGED <<srv, crossed, faults>> /\ task[t].at \in {"details", "fdetails"}
  BY CalmIs DEF LoadDetails
<1>2. LiveTask(task[t])
  BY <1>1 DEF LiveTask
<1>3. CASE task[t].at = "details"
  <2>1. Goto(t, "active") /\ UNCHANGED view /\ "active" \in Ats /\ SameShown
    BY <1>3 DEF LoadDetails, At, Ats, Requests, SameShown
  <2>3. ASSUME view.conv # None, Stage(view, task, srv, t), task'[t].at = "active", task'[t].got = None,
               task'[t].run = task[t].run, SameEnds(task, task')
        PROVE  Stage(view', task', srv', t)
    <3>1. AtLatest(view, task, srv, t)
      BY <1>3, <2>3, StageAt
    <3>2. Shows(view', task', srv', {})
      BY <1>1, <2>1, <2>3, <3>1, ShowsStay DEF AtLatest
    <3>3. AtActive(view', task', srv', t)
      BY <2>1, <2>3, <3>1, <3>2 DEF AtLatest, AtActive
    <3> QED
      BY <3>3 DEF Stage
  <2> QED
    BY <1>1, <1>2, <1>3, <2>1, <2>3, GoesToStage DEF SameShown, FinalAts, Streaming
<1>4. CASE task[t].at = "fdetails"
  <2>1. PICK v \in ViewSet : /\ v = Followed(view) /\ v.conv = view.conv
          /\ v.messages = view.messages /\ v.active = None /\ v.approvals = None
    <3> DEFINE v == Followed(view)
    <3>1. /\ v \in ViewSet /\ v.conv = view.conv
          /\ v.messages = view.messages /\ v.active = None /\ v.approvals = None
      BY <1>1 DEF Followed, ViewSet
    <3> QED
      BY <3>1
  <2>2. Finish(t, v)
    BY <1>4, <2>1 DEF LoadDetails, At
  <2>3. /\ Done(t) /\ view'.conv = view.conv /\ view'.messages = view.messages
        /\ view'.active = None /\ view'.approvals = None
    BY <2>1, <2>2, FinishIs
  <2>4. ASSUME view.conv # None, Stage(view, task, srv, t), SameEnds(task, task')
        PROVE  AtRest(view', task', srv')
    <3>1. AtClosing(view, task, srv, t)
      BY <1>4, <2>4, StageAt
    <3>2. Shows(view', task', srv', {})
      BY <1>1, <2>3, <2>4, <3>1, ShowsStay DEF AtClosing
    <3> QED
      BY <1>1, <2>3, <3>1, <3>2 DEF AtClosing, AtRest, Prompts
  <2> QED
    BY <1>1, <1>2, <1>4, <2>3, <2>4, EndsAtRest DEF Streaming
<1> QED
  BY <1>1, <1>3, <1>4

LEMMA LoadToolApprovalsStays ==
  ASSUME Calm, NEW t \in Tasks, LoadToolApprovals(t)
  PROVE  Stays
<1>1. /\ view \in ViewSet /\ task \in [Tasks -> TaskSet] /\ Fits(task[t], srv)
      /\ UNCHANGED <<srv, crossed, faults>> /\ ServerOK
      /\ task[t].at \in {"approvals", "fallback", "sapprovals"}
  BY CalmIs DEF LoadToolApprovals
<1>2. PICK r \in Runs : r = task[t].run /\ r # None /\ srv[r].conv = task[t].conv
  BY <1>1, RunsAreNumbers DEF Fits, RunKnown, StopAts
<1>3. PICK x \in ShowSet : x = [run |-> r, status |-> srv[r].approval]
                           /\ x.run = r /\ x.status = srv[r].approval
  <2>1. PICK s \in Approved : s = srv[r].approval
    BY <1>1 DEF ServerOK, RunSet
  <2>2. [run |-> r, status |-> s] \in ShowSet /\ [run |-> r, status |-> s].run = r
        /\ [run |-> r, status |-> s].status = s
    BY DEF ShowSet
  <2> QED
    BY <2>1, <2>2
<1>4. PICK a \in Runs \cup {None} :
        a = (IF At(t, "sapprovals") THEN None ELSE view.active)
  BY <1>1 DEF ViewSet
<1>5. PICK v \in ViewSet :
         /\ v = [view EXCEPT !.approvals = x, !.active = a]
         /\ v.conv = view.conv /\ v.messages = view.messages
         /\ v.approvals = x /\ v.active = a
  <2> DEFINE v == [view EXCEPT !.approvals = x, !.active = a]
  <2>1. /\ v \in ViewSet /\ v.conv = view.conv /\ v.messages = view.messages
        /\ v.approvals = x /\ v.active = a
    BY <1>1 DEF ViewSet
  <2> QED
    BY <2>1
<1>6. Finish(t, v)
  BY <1>2, <1>3, <1>4, <1>5 DEF LoadToolApprovals
<1>7. /\ Done(t) /\ view'.conv = view.conv /\ view'.messages = view.messages
      /\ view'.active = a /\ view'.approvals = x
  BY <1>5, <1>6, FinishIs
<1>8. LiveTask(task[t])
  BY <1>1 DEF LiveTask
<1>9. ASSUME view.conv # None, Stage(view, task, srv, t), SameEnds(task, task')
      PROVE  AtRest(view', task', srv')
  <2>1. RunOK(srv[r])
    BY <1>1 DEF ServerOK
  <2>2. CASE task[t].at = "approvals"
    <3>1. AtApprovals(view, task, srv, t)
      BY <1>9, <2>2, StageAt
    <3>2. Shows(view', task', srv', {})
      BY <1>1, <1>7, <1>9, <3>1, ShowsStay DEF AtApprovals
    <3>3. a = r
      BY <1>2, <1>4, <2>2, <3>1 DEF AtApprovals, At
    <3>4. CASE srv[r].status = "waiting"
      <4>1. srv[r].approval = "pending"
        BY <2>1, <3>4 DEF RunOK, NoRun
      <4>2. view'.approvals = [run |-> r, status |-> "pending"] /\ view'.active = r
        BY <1>3, <1>7, <3>3, <4>1
      <4> QED
        BY <1>1, <1>2, <1>7, <3>1, <3>2, <3>4, <4>2 DEF AtRest, AtApprovals
    <3>5. CASE task[t].cut /\ AllOver(srv, view.conv) /\ srv[r].status # "waiting"
      <4>1. srv[r].approval # "pending"
        BY <2>1, <3>5 DEF RunOK, NoRun
      <4>2. ~Prompts(view')
        BY <1>3, <1>7, <4>1 DEF Prompts
      <4>3. CutRun(task, r)
        BY <1>2, <3>5 DEF CutRun
      <4>4. CutRun(task', view'.active)
        BY <1>7, <1>9, <3>3, <4>3, CutStays
      <4> QED
        BY <1>1, <1>7, <3>2, <3>5, <4>2, <4>4 DEF AtRest
    <3> QED
      BY <1>2, <3>1, <3>4, <3>5 DEF AtApprovals
  <2>3. CASE task[t].at = "sapprovals"
    <3>1. AtSettled(view, task, srv, t)
      BY <1>9, <2>3, StageAt
    <3>2. Shows(view', task', srv', {})
      BY <1>1, <1>7, <1>9, <3>1, ShowsStay DEF AtSettled
    <3>3. srv[r].approval # "pending"
      <4>1. task[t].conv = view.conv
        BY <1>8, <1>9, CalmIs DEF OfView
      <4>2. srv[r].status # "waiting"
        BY <1>2, <3>1, <4>1 DEF AtSettled, AllOver, Unended
      <4> QED
        BY <2>1, <4>2 DEF RunOK, NoRun
    <3>4. view'.active = None /\ ~Prompts(view')
      BY <1>3, <1>4, <1>7, <2>3, <3>3 DEF Prompts, At
    <3> QED
      BY <1>1, <1>7, <3>1, <3>2, <3>4 DEF AtRest, AtSettled
  <2>4. task[t].at # "fallback"
    BY <1>9, StageAt
  <2> QED
    BY <1>1, <2>2, <2>3, <2>4
<1> QED
  BY <1>1, <1>7, <1>8, <1>9, EndsAtRest DEF Streaming

(* A function opens a stream: it is alone, and its stream is the stage.    *)
LEMMA OpensStream ==
  ASSUME Calm, NEW t \in Tasks, NEW r \in Runs, NEW v \in ViewSet, Consume(t, r, v), UNCHANGED srv,
         task[t].at \in {"active", "post", "decide"}, v.conv = view.conv,
         ASSUME view.conv # None, Stage(view, task, srv, t)
         PROVE  /\ ~Prompts(v) /\ OthersOver(srv, view.conv, r)
                /\ v.messages.known = RunsIn(srv, view.conv)
                /\ Endings(v.messages.final, task, view.conv, {})
  PROVE  Stays
<1>1. /\ view \in ViewSet /\ task \in [Tasks -> TaskSet] /\ ServerOK /\ Fits(task[t], srv)
      /\ Feeds(view, task) /\ OneUnended(srv)
  BY CalmIs
<1>2. /\ view' = [v EXCEPT !.store = t, !.active = r, !.stream = t]
      /\ task' \in [Tasks -> TaskSet]
      /\ \A u \in Tasks : u # t => Kept(u, task')
      /\ SameBut(task'[t], task[t]) /\ task'[t].run = r /\ task'[t].at = "connect"
      /\ task'[t].got = None /\ task'[t].cut = task[t].cut
      /\ task'[t].aborted = (task[t].aborted \/ (t = view.stream /\ InFlight(t)))
  BY <1>1, ConsumeIs
<1>3. /\ view'.conv = view.conv /\ view'.active = r /\ view'.messages = v.messages
      /\ view'.approvals = v.approvals
  BY <1>2 DEF ViewSet
<1>4. task[t].at \in EarlyAts /\ LiveTask(task[t]) /\ task[t].at \notin FinalAts \cup {"approvals"}
  BY DEF EarlyAts, LoadAts, LiveTask, FinalAts
<1>5. /\ task[t].cursor = 0 /\ task[t].sent = 0 /\ ~task[t].waiting /\ ~task[t].terminal
      /\ ~task[t].aborted /\ t # view.stream
  BY <1>1, <1>4, RunsAreNumbers DEF Fits, Unopened, Feeds
<1>51. ~task[t].cut /\ ~task'[t].cut
  BY <1>1, <1>2, <1>4 DEF Fits, Unopened
<1>6. SameEnds(task, task')
  BY <1>2, <1>5, <1>51 DEF SameEnds, Kept, SameBut
<1>7. ~task'[t].aborted /\ LiveTask(task'[t])
  BY <1>2, <1>5 DEF LiveTask
<1>8. ASSUME view.conv # None PROVE Phase(view', task', srv')
  <2>1. OnlyLive(task, {t}) /\ Stage(view, task, srv, t)
    BY <1>4, <1>8, AloneIs DEF Streaming
  <2>2. /\ ~Prompts(v) /\ OthersOver(srv, view.conv, r)
        /\ v.messages.known = RunsIn(srv, view.conv)
        /\ Endings(v.messages.final, task, view.conv, {})
    BY <1>8, <2>1
  <2>3. OnlyLive(task', {t})
    <3>1. ASSUME NEW u \in Tasks, u # t, LiveTask(task'[u]) PROVE FALSE
      <4>1. LiveTask(task[u])
        BY <1>2, <3>1 DEF Kept, LiveTask, SameBut
      <4> QED
        BY <2>1, <3>1, <4>1 DEF OnlyLive
    <3> QED
      BY <1>7, <3>1 DEF OnlyLive
  <2>4. Shows(view', task', srv', {t})
    <3>1. Endings(v.messages.final, task', view.conv, {})
      BY <1>6, <2>2, EndingsStay
    <3>2. Endings(v.messages.final, task', view.conv, {t})
      BY <3>1 DEF Endings
    <3> QED
      BY <1>3, <2>2, <3>2 DEF Shows
  <2>6. AtStream(view', task', srv', t)
    BY <1>2, <1>3, <1>51, <1>7, <2>2, <2>4 DEF AtStream, Prompts, Streaming
  <2> QED
    BY <2>3, <2>6 DEF Phase, Stage
<1> QED
  BY <1>1, <1>3, <1>8 DEF Stays

LEMMA LoadActiveStays ==
  ASSUME Calm, NEW t \in Tasks, LoadActive(t)
  PROVE  Stays
<1>1. /\ view \in ViewSet /\ task \in [Tasks -> TaskSet] /\ Fits(task[t], srv) /\ Feeds(view, task)
      /\ UNCHANGED <<srv, crossed, faults>>
      /\ task[t].at = "active" /\ task[t].got # None
  BY CalmIs DEF LoadActive, At
<1>2. PICK r \in Runs \cup {None} : task[t].got = <<r>> /\ (r # None => srv[r].conv = task[t].conv)
  BY <1>1 DEF Fits, AnswerKnown
<1>3. IF r = None THEN Finish(t, view) ELSE Consume(t, r, view)
  BY <1>2 DEF LoadActive
<1>4. LiveTask(task[t]) /\ task[t].got[1] = r
  BY <1>1, <1>2 DEF LiveTask
<1>5. CASE r = None
  <2>1. PICK v \in ViewSet : v = view
    BY <1>1
  <2>2. /\ Done(t) /\ SameShown
    BY <1>3, <1>5, <2>1, FinishIs DEF SameShown
  <2>3. ASSUME view.conv # None, Stage(view, task, srv, t), SameEnds(task, task')
        PROVE  AtRest(view', task', srv')
    <3>1. AtActive(view, task, srv, t)
      BY <1>1, <2>3, StageAt
    <3>2. Shows(view', task', srv', {})
      BY <1>1, <2>2, <2>3, <3>1, ShowsStay DEF AtActive, SameShown
    <3> QED
      BY <1>1, <1>4, <1>5, <2>2, <3>1, <3>2 DEF AtActive, AtRest, Prompts, SameShown
  <2> QED
    BY <1>1, <1>4, <2>2, <2>3, EndsAtRest DEF SameShown, Streaming
<1>6. CASE r # None
  <2>1. PICK v \in ViewSet : v = view
    BY <1>1
  <2>2. ASSUME view.conv # None, Stage(view, task, srv, t)
        PROVE  /\ ~Prompts(v) /\ OthersOver(srv, view.conv, r)
               /\ v.messages.known = RunsIn(srv, view.conv)
               /\ Endings(v.messages.final, task, view.conv, {})
    <3>1. AtActive(view, task, srv, t)
      BY <1>1, <2>2, StageAt
    <3> QED
      BY <1>1, <1>4, <1>6, <2>1, <3>1 DEF AtActive, Shows
  <2> QED
    BY <1>1, <1>3, <1>6, <2>1, <2>2, OpensStream
<1> QED
  BY <1>5, <1>6

LEMMA PostedStays ==
  ASSUME Calm, NEW t \in Tasks, Posted(t)
  PROVE  Stays
<1>1. /\ view \in ViewSet /\ task \in [Tasks -> TaskSet] /\ Fits(task[t], srv) /\ Feeds(view, task)
      /\ UNCHANGED <<srv, crossed, faults>>
      /\ task[t].at = "post" /\ task[t].got # None
  BY CalmIs DEF Posted, At
<1>2. PICK r \in Runs : task[t].got = <<r>> /\ srv[r].conv = task[t].conv
  BY <1>1 DEF Fits, AnswerKnown
<1>3. PICK m \in MsgSet : /\ m = [view.messages EXCEPT !.known = view.messages.known \cup {r}]
                          /\ m.final = view.messages.final /\ m.known = view.messages.known \cup {r}
  <2>1. PICK k \in MsgSet : k = view.messages /\ k.final \subseteq k.known
    BY <1>1 DEF ViewSet, Feeds
  <2> DEFINE m == [k EXCEPT !.known = k.known \cup {r}]
  <2>2. k.known \cup {r} \in SUBSET Runs
    BY DEF MsgSet
  <2>3. m \in MsgSet /\ m.of = k.of /\ m.final = k.final /\ m.known = k.known \cup {r}
    BY <2>2 DEF MsgSet
  <2> QED
    BY <2>1, <2>3
<1>4. PICK v \in ViewSet : /\ v = [view EXCEPT !.messages = m] /\ v.conv = view.conv
                           /\ v.messages = m /\ v.approvals = view.approvals
  <2> DEFINE v == [view EXCEPT !.messages = m]
  <2>1. v \in ViewSet /\ v.conv = view.conv /\ v.messages = m /\ v.approvals = view.approvals
    BY <1>1 DEF ViewSet
  <2> QED
    BY <2>1
<1>5. Consume(t, r, v)
  <2>1. [view EXCEPT !.messages.known = view.messages.known \cup {r}] = v
    BY <1>3, <1>4
  <2>2. Consume(t, task[t].got[1], [view EXCEPT !.messages.known = view.messages.known \cup {task[t].got[1]}])
    BY DEF Posted
  <2> QED
    BY <1>2, <2>1, <2>2
<1>6. ASSUME view.conv # None, Stage(view, task, srv, t)
      PROVE  /\ ~Prompts(v) /\ OthersOver(srv, view.conv, r)
             /\ v.messages.known = RunsIn(srv, view.conv)
             /\ Endings(v.messages.final, task, view.conv, {})
  <2>1. AtPost(view, task, srv, t)
    BY <1>1, <1>6, StageAt
  <2>2. task[t].got[1] = r
    BY <1>2
  <2> QED
    BY <1>1, <1>3, <1>4, <2>1, <2>2 DEF AtPost, Prompts
<1> QED
  BY <1>1, <1>4, <1>5, <1>6, OpensStream

LEMMA DecisionTakenStays ==
  ASSUME Calm, NEW t \in Tasks, DecisionTaken(t)
  PROVE  Stays
<1>1. /\ view \in ViewSet /\ task \in [Tasks -> TaskSet] /\ Fits(task[t], srv) /\ Feeds(view, task)
      /\ UNCHANGED <<srv, crossed, faults>> /\ task[t].at = "decide"
  BY CalmIs DEF DecisionTaken, At
<1>2. PICK r \in Runs : r = task[t].run /\ srv[r].conv = task[t].conv
  BY <1>1, RunsAreNumbers DEF Fits, RunKnown
<1>3. PICK v \in ViewSet :
         /\ v = (IF view.approvals # None /\ view.approvals.run = task[t].run
                 THEN [view EXCEPT !.approvals.status = "decided"] ELSE view)
         /\ v.conv = view.conv /\ v.messages = view.messages
         /\ (view.approvals # None /\ view.approvals.run = task[t].run) => ~Prompts(v)
  <2>1. CASE view.approvals # None /\ view.approvals.run = task[t].run
    <3>1. PICK x \in ShowSet : x = view.approvals
      BY <1>1, <2>1 DEF ViewSet
    <3> DEFINE y == [x EXCEPT !.status = "decided"]
               v == [view EXCEPT !.approvals = y]
    <3>2. y \in ShowSet /\ y.status = "decided"
      BY DEF ShowSet, Approved
    <3>3. [view EXCEPT !.approvals.status = "decided"] = v
      BY <1>1, <3>1
    <3> HIDE DEF y
    <3>4. v \in ViewSet /\ v.conv = view.conv /\ v.messages = view.messages /\ v.approvals = y
      BY <1>1, <3>2 DEF ViewSet
    <3>5. ~Prompts(v)
      BY <3>2, <3>4 DEF Prompts
    <3> QED
      BY <2>1, <3>3, <3>4, <3>5
  <2>2. CASE ~(view.approvals # None /\ view.approvals.run = task[t].run)
    BY <1>1, <2>2
  <2> QED
    BY <2>1, <2>2
<1>4. Consume(t, r, v)
  BY <1>2, <1>3 DEF DecisionTaken
<1>6. ASSUME view.conv # None, Stage(view, task, srv, t)
      PROVE  /\ ~Prompts(v) /\ OthersOver(srv, view.conv, r)
             /\ v.messages.known = RunsIn(srv, view.conv)
             /\ Endings(v.messages.final, task, view.conv, {})
  <2>1. AtDecide(view, task, srv, t)
    BY <1>1, <1>6, StageAt
  <2> QED
    BY <1>1, <1>2, <1>3, <2>1 DEF AtDecide, Shows
<1> QED
  BY <1>1, <1>3, <1>4, <1>6, OpensStream

(***************************************************************************)
(* The steps of the server, and what they leave true.                      *)
(***************************************************************************)
LEMMA ServerMoves ==
  ASSUME ServerOK, Grows, NoneNew
  PROVE  /\ \A c : RunsIn(srv', c) = RunsIn(srv, c)
         /\ \A c : AllOver(srv, c) => AllOver(srv', c)
         /\ \A c, q : OthersOver(srv, c, q) => OthersOver(srv', c, q)
         /\ OneUnended(srv) => OneUnended(srv')
<1>1. \A r \in Runs : srv'[r].conv = srv[r].conv /\ (Unended(srv', r) => Unended(srv, r))
  BY DEF NoneNew, Ongoing, Unended
<1>2. \A c : RunsIn(srv', c) = RunsIn(srv, c)
  BY <1>1 DEF RunsIn
<1>3. \A c : AllOver(srv, c) => AllOver(srv', c)
  BY <1>1 DEF AllOver
<1>4. \A c, q : OthersOver(srv, c, q) => OthersOver(srv', c, q)
  BY <1>1 DEF OthersOver
<1>5. OneUnended(srv) => OneUnended(srv')
  BY <1>1 DEF OneUnended
<1> QED
  BY <1>2, <1>3, <1>4, <1>5

(* A stage outlives a step of the server that leaves its waiting run.      *)
LEMMA StageStays ==
  ASSUME Calm, ServerOK', Grows, NoneNew, NEW t \in Tasks, view.conv # None,
         NEW tasks, tasks[t] = task[t], SameEnds(task, tasks), LiveTask(task[t]),
         Stage(view, task, srv, t),
         (task[t].run \in Runs /\ srv[task[t].run].status = "waiting" /\ task[t].at \in {"decide", "approvals"})
           => srv'[task[t].run].status = "waiting"
  PROVE  Stage(view, tasks, srv', t)
<1>1. /\ view \in ViewSet /\ task \in [Tasks -> TaskSet] /\ ServerOK /\ Fits(task[t], srv)
  BY CalmIs
<1>2. PICK k \in TaskSet : k = task[t] /\ k = tasks[t]
  BY <1>1
<1>3. PICK c \in Convs : c = view.conv
  BY <1>1 DEF ViewSet
<1>4. /\ RunsIn(srv', c) = RunsIn(srv, c)
      /\ AllOver(srv, c) => AllOver(srv', c)
      /\ \A q : OthersOver(srv, c, q) => OthersOver(srv', c, q)
  BY <1>1, ServerMoves
<1>5. \A S : Shows(view, task, srv, S) => Shows(view, tasks, srv', S)
  BY <1>3, <1>4, EndingsStay DEF Shows
<1>6. Brings(k, view, task, srv) => Brings(k, view, tasks, srv')
  BY <1>3, <1>4, EndingsStay DEF Brings
<1>7. k.at \in Streaming \cup {"decide", "approvals"} => k.run \in Runs
  BY <1>1, <1>2 DEF Fits, RunKnown
<1>8. CASE k.at = "messages"
  <2>1. AtMessages(view, task, srv, t)
    BY <1>2, <1>8, StageAt
  <2>2. AtMessages(view, tasks, srv', t)
    BY <1>2, <1>6, <2>1 DEF AtMessages
  <2> QED
    BY <2>2 DEF Stage
<1>9. CASE k.at \in {"latest", "details"}
  <2>1. AtLatest(view, task, srv, t)
    BY <1>2, <1>9, StageAt
  <2>2. AtLatest(view, tasks, srv', t)
    BY <1>2, <1>5, <2>1 DEF AtLatest
  <2> QED
    BY <2>2 DEF Stage
<1>10. CASE k.at = "active"
  <2>1. AtActive(view, task, srv, t)
    BY <1>2, <1>10, StageAt
  <2>2. AtActive(view, tasks, srv', t)
    BY <1>2, <1>3, <1>4, <1>5, <2>1 DEF AtActive
  <2> QED
    BY <2>2 DEF Stage
<1>11. CASE k.at = "post"
  <2>1. AtPost(view, task, srv, t)
    BY <1>2, <1>11, StageAt
  <2>2. Endings(view.messages.final, tasks, view.conv, {})
    BY <2>1, EndingsStay DEF AtPost
  <2>3. AtPost(view, tasks, srv', t)
    BY <1>2, <1>3, <1>4, <2>1, <2>2 DEF AtPost
  <2> QED
    BY <2>3 DEF Stage
<1>12. CASE k.at = "decide"
  <2>1. AtDecide(view, task, srv, t)
    BY <1>2, <1>12, StageAt
  <2>2. AtDecide(view, tasks, srv', t)
    BY <1>2, <1>3, <1>4, <1>5, <1>7, <1>12, <2>1 DEF AtDecide
  <2> QED
    BY <2>2 DEF Stage
<1>13. CASE k.at \in Streaming
  <2>1. AtStream(view, task, srv, t)
    BY <1>2, <1>13, StageAt
  <2>3. AtStream(view, tasks, srv', t)
    BY <1>2, <1>3, <1>4, <1>5, <2>1 DEF AtStream
  <2> QED
    BY <2>3 DEF Stage
<1>14. CASE k.at = "approvals"
  <2>1. AtApprovals(view, task, srv, t)
    BY <1>2, <1>14, StageAt
  <2>2. AtApprovals(view, tasks, srv', t)
    BY <1>2, <1>3, <1>4, <1>5, <1>7, <1>14, <2>1 DEF AtApprovals
  <2> QED
    BY <2>2 DEF Stage
<1>15. CASE k.at = "fmessages"
  <2>1. AtFinal(view, task, srv, t)
    BY <1>2, <1>15, StageAt
  <2>2. AtFinal(view, tasks, srv', t)
    BY <1>2, <1>3, <1>4, <1>6, <2>1 DEF AtFinal
  <2> QED
    BY <2>2 DEF Stage
<1>16. CASE k.at \in {"flatest", "fdetails"}
  <2>1. AtClosing(view, task, srv, t)
    BY <1>2, <1>16, StageAt
  <2>2. AtClosing(view, tasks, srv', t)
    BY <1>2, <1>3, <1>4, <1>5, <2>1 DEF AtClosing
  <2> QED
    BY <2>2 DEF Stage
<1>17. CASE k.at = "cancel"
  <2>1. AtCancel(view, task, srv, t)
    BY <1>2, <1>17, StageAt
  <2>2. AtCancel(view, tasks, srv', t)
    BY <1>2, <1>3, <1>4, <1>5, <2>1 DEF AtCancel
  <2> QED
    BY <2>2 DEF Stage
<1>18. CASE k.at = "smessages"
  <2>1. AtRefresh(view, task, srv, t)
    BY <1>2, <1>18, StageAt
  <2>2. AtRefresh(view, tasks, srv', t)
    BY <1>2, <1>3, <1>4, <1>6, <2>1 DEF AtRefresh
  <2> QED
    BY <2>2 DEF Stage
<1>19. CASE k.at = "sapprovals"
  <2>1. AtSettled(view, task, srv, t)
    BY <1>2, <1>19, StageAt
  <2>2. AtSettled(view, tasks, srv', t)
    BY <1>2, <1>3, <1>4, <1>5, <2>1 DEF AtSettled
  <2> QED
    BY <2>2 DEF Stage
<1>20. k.at \in Ats /\ k.at \notin {"none", "done", "fallback"}
  <2>1. k.at \in Ats
    BY DEF TaskSet
  <2>2. k.at \notin {"none", "done"}
    BY <1>2 DEF LiveTask
  <2>3. k.at # "fallback"
    BY <1>2, StageAt
  <2> QED
    BY <2>1, <2>2, <2>3
<1>21. k.at \in {"messages", "latest", "details", "active", "post", "decide", "connect", "read", "sleep",
                 "approvals", "fmessages", "flatest", "fdetails", "cancel", "smessages", "sapprovals"}
  BY <1>20 DEF Ats, Requests, Streaming
<1> QED
  BY <1>8, <1>9, <1>10, <1>11, <1>12, <1>13, <1>14, <1>15, <1>16, <1>17, <1>18, <1>19, <1>21
     DEF Streaming

LEMMA ServerStepStays ==
  ASSUME Calm, ServerStep
  PROVE  Stays
<1>1. /\ view \in ViewSet /\ task \in [Tasks -> TaskSet] /\ ServerOK /\ OneUnended(srv)
      /\ UNCHANGED <<view, task, crossed, faults>>
  BY CalmIs DEF ServerStep
<1>2. /\ ServerOK' /\ Grows /\ NoneNew
      /\ \A q \in Runs : srv[q].status # "going" => srv'[q] = srv[q]
  BY <1>1, ServerStepIs
<1>3. OneUnended(srv')
  BY <1>1, <1>2, ServerMoves
<1>4. SameEnds(task, task)
  BY DEF SameEnds
<1>5. ASSUME NEW t \in Tasks, LiveTask(task[t]), view.conv # None, Stage(view, task, srv, t)
      PROVE  Stage(view, task, srv', t)
  <2>1. (task[t].run \in Runs /\ srv[task[t].run].status = "waiting")
          => srv'[task[t].run].status = "waiting"
    BY <1>2
  <2> QED
    BY <1>2, <1>4, <1>5, <2>1, StageStays
<1>6. ASSUME view.conv # None PROVE Phase(view, task, srv')
  <2>1. Phase(view, task, srv)
    BY <1>6, CalmIs
  <2>2. CASE OnlyLive(task, {}) /\ AtRest(view, task, srv)
    <3>1. PICK c \in Convs : c = view.conv
      BY <1>1, <1>6 DEF ViewSet
    <3>2. /\ RunsIn(srv', c) = RunsIn(srv, c)
          /\ AllOver(srv, c) => AllOver(srv', c)
          /\ \A q : OthersOver(srv, c, q) => OthersOver(srv', c, q)
      BY <1>1, <1>2, ServerMoves
    <3>3. (view.active # None /\ srv[view.active].status = "waiting") => srv'[view.active].status = "waiting"
      BY <1>1, <1>2 DEF ViewSet
    <3>4. Shows(view, task, srv', {})
      BY <2>2, <3>1, <3>2 DEF AtRest, Shows
    <3>5. AtRest(view, task, srv')
      BY <2>2, <3>1, <3>2, <3>3, <3>4 DEF AtRest
    <3> QED
      BY <2>2, <3>5 DEF Phase
  <2>3. ASSUME NEW t \in Tasks, OnlyLive(task, {t}), Stage(view, task, srv, t)
        PROVE  Phase(view, task, srv')
    <3>1. LiveTask(task[t])
      BY <2>3 DEF OnlyLive
    <3>2. Stage(view, task, srv', t)
      BY <1>5, <1>6, <2>3, <3>1
    <3> QED
      BY <2>3, <3>2 DEF Phase
  <2>4. ASSUME NEW t \in Tasks, NEW x \in Tasks, t # x, OnlyLive(task, {t, x}),
               AtStream(view, task, srv, t), task[t].kind # "decide",
               task[x].at = "cancel", ~task[x].pending
        PROVE  Phase(view, task, srv')
    <3>1. LiveTask(task[t]) /\ Stage(view, task, srv, t)
      BY <2>4 DEF OnlyLive, Stage
    <3>2. Stage(view, task, srv', t) /\ task[t].at \in Streaming
      BY <1>5, <1>6, <2>4, <3>1 DEF AtStream
    <3>3. AtStream(view, task, srv', t)
      BY <3>2, StageAt
    <3> QED
      BY <2>4, <3>3 DEF Phase
  <2>5. CASE Doomed(task)
    BY <2>5 DEF Phase
  <2> QED
    BY <2>1, <2>2, <2>3, <2>4, <2>5 DEF Phase
<1> QED
  BY <1>1, <1>3, <1>6 DEF Stays

(***************************************************************************)
(* The stream, and the stop that may wait beside it.                       *)
(***************************************************************************)
LEMMA StreamIs ==
  ASSUME Calm, view.conv # None, NEW t \in Tasks, LiveTask(task[t]), task[t].at \in Streaming
  PROVE  /\ AtStream(view, task, srv, t)
         /\ \/ OnlyLive(task, {t})
            \/ \E x \in Tasks : /\ t # x /\ OnlyLive(task, {t, x}) /\ task[t].kind # "decide"
                                /\ task[x].at = "cancel" /\ ~task[x].pending
<1>1. Phase(view, task, srv)
  BY CalmIs
<1>2. CASE OnlyLive(task, {}) /\ AtRest(view, task, srv)
  BY <1>2 DEF OnlyLive
<1>3. ASSUME NEW u \in Tasks, OnlyLive(task, {u}), Stage(view, task, srv, u)
      PROVE  OnlyLive(task, {t}) /\ AtStream(view, task, srv, t)
  <2>1. t = u
    BY <1>3 DEF OnlyLive
  <2> QED
    BY <1>3, <2>1, StageAt
<1>4. ASSUME NEW u \in Tasks, NEW x \in Tasks, u # x, OnlyLive(task, {u, x}),
             AtStream(view, task, srv, u), task[u].kind # "decide",
             task[x].at = "cancel", ~task[x].pending
      PROVE  /\ AtStream(view, task, srv, t) /\ t # x /\ OnlyLive(task, {t, x})
             /\ task[t].kind # "decide"
  <2>1. t = u
    BY <1>4 DEF OnlyLive, Streaming
  <2> QED
    BY <1>4, <2>1
<1>5. ~Doomed(task)
  <2>1. ASSUME NEW x \in Tasks, task[x].at = "cancel",
               \A u \in Tasks \ {x} : LiveTask(task[u]) => task[u].at \in FinalAts \cup {"approvals"}
        PROVE  FALSE
    BY <2>1 DEF FinalAts, Streaming
  <2> QED
    BY <2>1 DEF Doomed
<1> QED
  BY <1>1, <1>2, <1>3, <1>4, <1>5 DEF Phase

LEMMA CancelAt ==
  ASSUME Calm, view.conv # None, NEW t \in Tasks, task[t].at = "cancel"
  PROVE  \/ OnlyLive(task, {t}) /\ AtCancel(view, task, srv, t)
         \/ \E u \in Tasks : /\ u # t /\ OnlyLive(task, {u, t}) /\ AtStream(view, task, srv, u)
                             /\ task[u].kind # "decide" /\ ~task[t].pending
         \/ Doomed(task) /\ ~task[t].pending
<1>1. Phase(view, task, srv) /\ LiveTask(task[t])
  BY CalmIs DEF LiveTask
<1>2. CASE OnlyLive(task, {}) /\ AtRest(view, task, srv)
  BY <1>1, <1>2 DEF OnlyLive
<1>3. ASSUME NEW u \in Tasks, OnlyLive(task, {u}), Stage(view, task, srv, u)
      PROVE  OnlyLive(task, {t}) /\ AtCancel(view, task, srv, t)
  <2>1. t = u
    BY <1>1, <1>3 DEF OnlyLive
  <2> QED
    BY <1>3, <2>1, StageAt
<1>4. ASSUME NEW u \in Tasks, NEW x \in Tasks, u # x, OnlyLive(task, {u, x}),
             AtStream(view, task, srv, u), task[u].kind # "decide",
             task[x].at = "cancel", ~task[x].pending
      PROVE  u # t /\ OnlyLive(task, {u, t}) /\ ~task[t].pending
  <2>1. task[u].at # "cancel"
    BY <1>4 DEF AtStream, Streaming
  <2>2. t = x
    BY <1>1, <1>4, <2>1 DEF OnlyLive
  <2> QED
    BY <1>4, <2>2
<1>5. ASSUME NEW x \in Tasks, task[x].at = "cancel", ~task[x].pending,
             \A u \in Tasks \ {x} : LiveTask(task[u]) => task[u].at \in FinalAts \cup {"approvals"}
      PROVE  ~task[t].pending
  <2>1. t = x
    BY <1>1, <1>5 DEF FinalAts
  <2> QED
    BY <1>5, <2>1
<1>6. Doomed(task) => ~task[t].pending
  BY <1>5 DEF Doomed
<1> QED
  BY <1>1, <1>2, <1>3, <1>4, <1>6 DEF Phase

(* The stream goes on.                                                     *)
LEMMA StreamGoesOn ==
  ASSUME Calm, NEW t \in Tasks, NEW w \in TaskSet, task' = [task EXCEPT ![t] = w],
         task[t].at \in Streaming, LiveTask(task[t]), UNCHANGED <<srv, view>>,
         w.at \in Streaming, w.kind = task[t].kind, w.conv = task[t].conv, w.run = task[t].run,
         w.aborted = task[t].aborted, ~task[t].cut => ~w.cut
  PROVE  Stays
<1>1. view \in ViewSet /\ task \in [Tasks -> TaskSet] /\ OneUnended(srv)
  BY CalmIs
<1>2. task'[t] = w /\ \A u \in Tasks : u # t => task'[u] = task[u]
  BY <1>1
<1>3. LiveTask(task[t])
  OBVIOUS
<1>4. ASSUME view.conv # None PROVE Phase(view, task', srv)
  <2>1. AtStream(view, task, srv, t)
    BY <1>3, <1>4, StreamIs
  <2>0. LiveTask(task'[t])
    BY <1>2, <2>1 DEF LiveTask, AtStream, Streaming
  <2>2. Endings(view.messages.final, task', view.conv, {t})
    BY <1>2, <2>1 DEF AtStream, Shows, Endings
  <2>3. AtStream(view, task', srv, t)
    BY <1>2, <2>1, <2>2 DEF AtStream, Shows
  <2>4. CASE OnlyLive(task, {t})
    <3>1. OnlyLive(task', {t})
      BY <1>2, <1>3, <2>0, <2>4 DEF OnlyLive
    <3> QED
      BY <2>3, <3>1 DEF Phase, Stage
  <2>5. ASSUME NEW x \in Tasks, t # x, OnlyLive(task, {t, x}), task[t].kind # "decide",
               task[x].at = "cancel", ~task[x].pending
        PROVE  Phase(view, task', srv)
    <3>1. OnlyLive(task', {t, x})
      BY <1>2, <1>3, <2>0, <2>5 DEF OnlyLive
    <3>2. /\ task'[t].kind # "decide" /\ task'[x].at = "cancel" /\ ~task'[x].pending
      BY <1>2, <2>5
    <3> QED
      BY <2>3, <2>5, <3>1, <3>2 DEF Phase
  <2> QED
    BY <1>3, <1>4, <2>4, <2>5, StreamIs
<1> QED
  BY <1>1, <1>4 DEF Stays

LEMMA ConnectStays ==
  ASSUME Calm, NEW t \in Tasks, Connect(t)
  PROVE  Stays
<1>1. task \in [Tasks -> TaskSet] /\ BothInv /\ UNCHANGED <<srv, view>>
      /\ task[t].at = "connect" /\ ~task[t].aborted
  BY CalmIs DEF Connect, Calm, At
<1>2. PICK w \in TaskSet :
           /\ task' = [task EXCEPT ![t] = w] /\ task'[t] = w
           /\ w.kind = task[t].kind /\ w.conv = task[t].conv /\ w.run = task[t].run /\ w.at = "read"
           /\ w.aborted = task[t].aborted
           /\ w.sent = task[t].cursor /\ w.cursor = task[t].cursor
           /\ w.waiting = task[t].waiting /\ w.terminal = task[t].terminal /\ w.cut = task[t].cut
  BY <1>1, ConnectIs
<1>3. LiveTask(task[t]) /\ task[t].at \in Streaming /\ w.at \in Streaming
  BY <1>1, <1>2 DEF LiveTask, Streaming
<1> QED
  BY <1>1, <1>2, <1>3, StreamGoesOn

LEMMA ReadEventStays ==
  ASSUME Calm, NEW t \in Tasks, ReadEvent(t)
  PROVE  Stays
<1>1. task \in [Tasks -> TaskSet] /\ BothInv /\ UNCHANGED <<srv, view>> /\ ServerOK
      /\ task[t].at = "read" /\ ~task[t].aborted
  BY CalmIs DEF ReadEvent, Calm, At
<1>2. PICK w \in TaskSet, n \in Nat, r \in Runs :
           /\ task' = [task EXCEPT ![t] = w] /\ task'[t] = w
           /\ n = task[t].sent + 1 /\ r = task[t].run /\ n <= Len(srv[r].log)
           /\ ReadAs(task[t], w, n, srv[r].log[n])
  BY <1>1, ReadEventIs
<1>3. LiveTask(task[t]) /\ task[t].at \in Streaming /\ w.at \in Streaming
  BY <1>1, <1>2 DEF LiveTask, Streaming, ReadAs
<1> QED
  BY <1>1, <1>2, <1>3, StreamGoesOn DEF ReadAs

LEMMA LookStays ==
  ASSUME Calm, NEW t \in Tasks, Look(t)
  PROVE  Stays
<1>1. task \in [Tasks -> TaskSet] /\ UNCHANGED <<srv, view>> /\ task[t].at = "read" /\ ~task[t].aborted
  BY CalmIs DEF Look, At
<1>2. PICK w \in TaskSet :
           /\ task' = [task EXCEPT ![t] = w] /\ task'[t] = w
           /\ w.kind = task[t].kind /\ w.conv = task[t].conv /\ w.run = task[t].run /\ w.at = "read"
           /\ w.got = task[t].got /\ w.pending = task[t].pending /\ w.aborted = task[t].aborted
           /\ w.sent = task[t].sent /\ w.cursor = task[t].cursor /\ w.events = task[t].events
           /\ w.waiting = task[t].waiting /\ w.terminal = task[t].terminal /\ w.cut = task[t].cut
  BY <1>1, LookIs
<1>3. LiveTask(task[t]) /\ task[t].at \in Streaming /\ w.at \in Streaming
  BY <1>1, <1>2 DEF LiveTask, Streaming
<1> QED
  BY <1>1, <1>2, <1>3, StreamGoesOn

(* The body ends.  A stream that a stop waits beside dooms it, unless it   *)
(* connects again.                                                         *)
LEMMA BodyEndsStays ==
  ASSUME Calm, NEW t \in Tasks, BodyEnds(t), faults' = 0
  PROVE  Stays
<1>1. /\ view \in ViewSet /\ task \in [Tasks -> TaskSet] /\ ServerOK /\ Fits(task[t], srv)
      /\ OneUnended(srv) /\ UNCHANGED <<srv, view>> /\ faults = 0
      /\ task[t].at = "read" /\ ~task[t].aborted /\ OfView(view, task)
  BY CalmIs DEF BodyEnds, Calm, At
<1>2. PICK k \in TaskSet : k = task[t]
  BY <1>1
<1>3. PICK r \in Runs : r = k.run /\ srv[r].conv = k.conv
  BY <1>1, <1>2, RunsAreNumbers DEF Fits, RunKnown, Streaming
<1>4. AfterStream(k) \in Ats
  BY DEF AfterStream, Ats, Requests, Streaming
<1>5. /\ srv[r].status \in {"waiting", "over"}
      /\ task' = [task EXCEPT ![t].at = AfterStream(k), ![t].got = None,
                    ![t].cut = (AfterStream(k) = "approvals" /\ srv[r].status = "over")]
  BY <1>1, <1>2, <1>3 DEF BodyEnds
<1>6. PICK w \in TaskSet :
         /\ task' = [task EXCEPT ![t] = w] /\ task'[t] = w
         /\ w.kind = k.kind /\ w.conv = k.conv /\ w.run = k.run /\ w.aborted = k.aborted
         /\ w.terminal = k.terminal /\ w.at = AfterStream(k) /\ w.got = None
         /\ w.cut = (AfterStream(k) = "approvals" /\ srv[r].status = "over")
  <2> DEFINE at == AfterStream(k)
             cut == (AfterStream(k) = "approvals" /\ srv[r].status = "over")
  <2>1. at \in Ats /\ cut \in BOOLEAN /\ None \in GotSet /\ at = AfterStream(k)
        /\ cut = (AfterStream(k) = "approvals" /\ srv[r].status = "over")
    BY <1>4 DEF GotSet
  <2>2. task' = [task EXCEPT ![t].at = at, ![t].got = None, ![t].cut = cut]
    BY <1>5
  <2> HIDE DEF at, cut
  <2> DEFINE w == [k EXCEPT !.at = at, !.got = None, !.cut = cut]
  <2>3. task' = [task EXCEPT ![t] = w]
    BY <1>1, <1>2, <2>2
  <2>4. /\ w \in TaskSet /\ w.kind = k.kind /\ w.conv = k.conv /\ w.run = k.run
        /\ w.aborted = k.aborted /\ w.terminal = k.terminal /\ w.at = at /\ w.got = None
        /\ w.cut = cut
    BY <2>1 DEF TaskSet
  <2> HIDE DEF w
  <2> QED
    BY <1>1, <2>1, <2>3, <2>4
<1>7. /\ \A u \in Tasks : u # t => task'[u] = task[u]
      /\ LiveTask(task[t]) /\ task[t].at \in Streaming
  BY <1>1, <1>6 DEF LiveTask, Streaming
<1>8. CASE AfterStream(k) = "sleep"
  <2>1. w.at \in Streaming /\ ~w.cut
    BY <1>6, <1>8 DEF Streaming
  <2> QED
    BY <1>1, <1>2, <1>6, <1>7, <2>1, StreamGoesOn
<1>9. CASE AfterStream(k) # "sleep"
  <2>1. /\ w.at = IF k.terminal THEN "fmessages" ELSE "approvals"
        /\ w.at \in FinalAts \cup {"approvals"} /\ LiveTask(task'[t])
    BY <1>6, <1>9 DEF AfterStream, FinalAts, LiveTask
  <2>2. ASSUME view.conv # None PROVE Phase(view, task', srv)
    <3>1. AtStream(view, task, srv, t)
      BY <1>7, <2>2, StreamIs
    <3>2. SameEnds(task, task')
      BY <1>1, <1>2, <1>6, <3>1, OneChanges DEF AtStream
    <3>3. OthersOver(srv, view.conv, r)
      BY <1>2, <1>3, <3>1 DEF AtStream
    <3>4. srv[r].status = "over" => AllOver(srv, view.conv)
      BY <3>3 DEF AllOver, OthersOver, Unended
    <3>5. CASE OnlyLive(task, {t})
      <4>1. OnlyLive(task', {t})
        BY <1>7, <2>1, <3>5 DEF OnlyLive
      <4>2. CASE k.terminal
        <5>1. AllOver(srv, view.conv)
          BY <1>1, <1>2, <1>3, <3>4, <4>2 DEF Fits, EndKnown
        <5>2. AtFinal(view, task', srv, t)
          BY <1>6, <2>1, <4>2, <5>1 DEF AtFinal, Brings
        <5> QED
          BY <4>1, <5>2 DEF Phase, Stage
      <4>3. CASE ~k.terminal
        <5>1. Endings(view.messages.final, task, view.conv, {})
          BY <1>2, <3>1, <4>3 DEF AtStream, Shows, Endings
        <5>2. Shows(view, task', srv, {})
          BY <3>1, <3>2, <5>1, EndingsStay DEF AtStream, Shows
        <5>3. srv[r].status = "waiting" \/ (w.cut /\ AllOver(srv, view.conv))
          BY <1>5, <1>6, <2>1, <3>4, <4>3
        <5>4. AtApprovals(view, task', srv, t)
          BY <1>2, <1>3, <1>6, <2>1, <3>1, <3>3, <4>3, <5>2, <5>3 DEF AtApprovals, AtStream
        <5> QED
          BY <4>1, <5>4 DEF Phase, Stage
      <4> QED
        BY <4>2, <4>3
    <3>6. ASSUME NEW x \in Tasks, t # x, OnlyLive(task, {t, x}),
                 task[x].at = "cancel", ~task[x].pending
          PROVE  Phase(view, task', srv)
      <4>1. task'[x].at = "cancel" /\ ~task'[x].pending
        BY <1>7, <3>6
      <4>2. \A u \in Tasks \ {x} : LiveTask(task'[u]) => task'[u].at \in FinalAts \cup {"approvals"}
        BY <1>6, <1>7, <2>1, <3>6 DEF OnlyLive
      <4>3. Doomed(task')
        BY <4>1, <4>2 DEF Doomed
      <4> QED
        BY <4>3 DEF Phase
    <3> QED
      BY <1>7, <2>2, <3>5, <3>6, StreamIs
  <2> QED
    BY <1>1, <2>2 DEF Stays
<1> QED
  BY <1>8, <1>9

LEMMA AwakeStays ==
  ASSUME Calm, NEW t \in Tasks, Awake(t)
  PROVE  Stays
<1>1. /\ UNCHANGED <<srv, view>> /\ task[t].at = "sleep" /\ OneUnended(srv) /\ LiveTask(task[t])
      /\ task \in [Tasks -> TaskSet] /\ task[t].at \in Streaming
  BY CalmIs DEF Awake, At, LiveTask, Streaming
<1>2. CASE view.conv = None
  BY <1>1, <1>2 DEF Stays
<1>3. CASE view.conv # None
  <2>1. ~task[t].aborted
    BY <1>1, <1>3, StreamIs DEF AtStream
  <2>2. Goto(t, "connect") /\ "connect" \in Ats /\ "connect" \in Streaming
    BY <2>1 DEF Awake, Ats, Streaming
  <2>3. PICK w \in TaskSet : /\ task' = [task EXCEPT ![t] = w] /\ task'[t] = w
                             /\ SameBut(w, task[t]) /\ w.run = task[t].run
                             /\ w.aborted = task[t].aborted
                             /\ w.at = "connect" /\ w.got = None
    BY <1>1, <2>2, GotoIs
  <2>4. w.kind = task[t].kind /\ w.conv = task[t].conv /\ w.cut = task[t].cut
    BY <1>1, <2>3 DEF SameBut
  <2> QED
    BY <1>1, <2>2, <2>3, <2>4, StreamGoesOn
<1> QED
  BY <1>2, <1>3

(* The stream that was aborted belongs to no one any more.                 *)
LEMMA AbortErrorStays ==
  ASSUME Calm, NEW t \in Tasks, AbortError(t)
  PROVE  Stays
<1>1. /\ view \in ViewSet /\ task \in [Tasks -> TaskSet] /\ UNCHANGED srv /\ OneUnended(srv)
      /\ task[t].at \in {"connect", "read"} /\ task[t].aborted /\ Caught(t)
  BY CalmIs DEF AbortError
<1>2. CASE task[t].kind = "decide"
  <2>1. LiveTask(task[t])
    BY <1>1, <1>2 DEF LiveTask
  <2>2. view.conv = None
    BY <1>1, <2>1, StreamIs DEF AtStream, Streaming
  <2>3. view'.conv = view.conv
    BY <1>1, <1>2 DEF Caught
  <2> QED
    BY <1>1, <2>2, <2>3 DEF Stays
<1>3. CASE task[t].kind # "decide"
  <2>1. Finish(t, view)
    BY <1>1, <1>3 DEF Caught
  <2>2. PICK v \in ViewSet : v = view
    BY <1>1
  <2>3. Done(t) /\ SameShown /\ view'.approvals = view.approvals
    BY <2>1, <2>2, FinishIs DEF SameShown
  <2>4. PICK w \in TaskSet : /\ task' = [task EXCEPT ![t] = w] /\ task'[t] = w
                            /\ w.kind = task[t].kind /\ w.conv = task[t].conv
                            /\ w.run = task[t].run /\ w.terminal = task[t].terminal
                            /\ w.at = "done" /\ w.got = None /\ w.events = <<>>
                            /\ w.cursor = 0 /\ w.sent = 0 /\ w.aborted = FALSE /\ w.cut = task[t].cut
    <3>1. task \in [Tasks -> TaskSet] /\ Done(t)
      BY <1>1, <2>3
    <3> QED
      BY <3>1, DoneIs
  <2>5. SameEnds(task, task') /\ \A u \in Tasks : u # t => task'[u] = task[u]
    BY <1>1, <2>4, OneChanges
  <2>6. \A u \in Tasks : LiveTask(task'[u]) <=> LiveTask(task[u])
    BY <1>1, <1>3, <2>4, <2>5 DEF LiveTask
  <2>7. \A S : Shows(view, task, srv, S) => Shows(view', task', srv', S)
    BY <1>1, <2>3, <2>5, EndingsStay DEF Shows, SameShown
  <2>8. \A S : OnlyLive(task, S) => OnlyLive(task', S)
    BY <2>6 DEF OnlyLive
  <2>9. ASSUME view.conv # None PROVE Phase(view', task', srv')
    <3>1. CASE OnlyLive(task, {}) /\ AtRest(view, task, srv)
      <4>1. AtRest(view', task', srv')
        BY <1>1, <2>3, <2>5, <2>7, <3>1, CutStays DEF AtRest, SameShown, Prompts
      <4> QED
        BY <2>8, <3>1, <4>1 DEF Phase
    <3>2. ASSUME NEW u \in Tasks, LiveTask(task[u]), Stage(view, task, srv, u)
          PROVE  Stage(view', task', srv', u)
      <4>1. u # t
        BY <1>1, <1>3, <3>2 DEF LiveTask
      <4>2. task'[u] = task[u]
        BY <2>5, <4>1
      <4>3. ServerOK' /\ Grows /\ NoneNew
        BY <1>1, CalmIs, NoServerStep
      <4>4. Stage(view, task', srv', u)
        BY <1>1, <2>5, <2>9, <3>2, <4>2, <4>3, StageStays
      <4> HIDE DEF Stage
      <4>5. ASSUME NEW a, NEW s, Stage(view, a, s, u) PROVE Stage(view', a, s, u)
        BY <2>3, <4>5 DEF Stage, SameShown, AtMessages, AtLatest, AtActive, AtPost, AtDecide, AtStream,
             AtApprovals, AtFinal, AtClosing, AtCancel, AtRefresh, AtSettled, Shows, Brings, Prompts
      <4> QED
        BY <4>4, <4>5
    <3>3. ASSUME NEW u \in Tasks, OnlyLive(task, {u}), Stage(view, task, srv, u)
          PROVE  Phase(view', task', srv')
      <4>1. LiveTask(task[u])
        BY <3>3 DEF OnlyLive
      <4> QED
        BY <2>8, <3>2, <3>3, <4>1 DEF Phase
    <3>4. ASSUME NEW u \in Tasks, NEW x \in Tasks, u # x, OnlyLive(task, {u, x}),
                 AtStream(view, task, srv, u), task[u].kind # "decide",
                 task[x].at = "cancel", ~task[x].pending
          PROVE  Phase(view', task', srv')
      <4>1. u # t /\ x # t /\ LiveTask(task[u])
        BY <1>1, <3>4 DEF AtStream, OnlyLive
      <4>2. /\ task'[x].at = "cancel" /\ ~task'[x].pending /\ task'[u].kind # "decide"
            /\ task'[u].at \in Streaming
        BY <2>5, <3>4, <4>1 DEF AtStream
      <4>3. Stage(view', task', srv', u)
        BY <3>2, <3>4, <4>1 DEF Stage
      <4>4. AtStream(view', task', srv', u)
        BY <4>2, <4>3, StageAt
      <4> QED
        BY <2>8, <3>4, <4>2, <4>4 DEF Phase
    <3>5. CASE Doomed(task)
      <4>1. Doomed(task')
        BY <1>1, <2>4, <3>5, DoomedStays DEF LiveTask
      <4> QED
        BY <4>1 DEF Phase
    <3> QED
      BY <2>9, <3>1, <3>3, <3>4, <3>5, CalmIs DEF Phase
  <2> QED
    BY <1>1, <2>3, <2>9 DEF Stays, SameShown
<1> QED
  BY <1>2, <1>3

(* A decision is never refused: the approval that is shown is pending.     *)
LEMMA RefusedStays ==
  ASSUME Calm, NEW t \in Tasks, Refused(t)
  PROVE  Stays
<1>1. /\ view \in ViewSet /\ ServerOK /\ Fits(task[t], srv) /\ UNCHANGED srv /\ OneUnended(srv)
      /\ task[t].at = "decide" /\ task[t].got = None /\ srv[task[t].run].approval # "pending"
      /\ LiveTask(task[t]) /\ task[t].kind = "decide" /\ OfView(view, task)
  BY CalmIs DEF Refused, At, LiveTask, Fits, KindOK
<1>2. view.conv # None
  BY <1>1 DEF OfView
<1>3. AtDecide(view, task, srv, t)
  BY <1>1, <1>2, AloneIs, StageAt DEF FinalAts, Streaming
<1>4. PICK r \in Runs : r = task[t].run /\ RunOK(srv[r])
  BY <1>1 DEF Fits, RunKnown, ServerOK
<1>5. srv[r].status = "waiting"
  BY <1>1, <1>3, <1>4 DEF AtDecide
<1>6. FALSE
  BY <1>1, <1>4, <1>5 DEF RunOK, NoRun
<1> QED
  BY <1>6

(* A stop is answered.  Where no stream is left it crosses.                *)
LEMMA RunStoppedStays ==
  ASSUME Calm, NEW t \in Tasks, RunStopped(t), ~crossed'
  PROVE  Stays
<1>1. /\ view \in ViewSet /\ task \in [Tasks -> TaskSet] /\ ServerOK /\ UNCHANGED <<srv, view>>
      /\ OneUnended(srv) /\ task[t].at = "cancel" /\ task[t].got # None /\ LiveTask(task[t])
  BY CalmIs DEF RunStopped, At, LiveTask
<1>2. CASE task[t].pending
  <2>1. Goto(t, "smessages") /\ "smessages" \in Ats
    BY <1>2 DEF RunStopped, Ats, Requests
  <2>2. PICK w \in TaskSet : /\ task' = [task EXCEPT ![t] = w] /\ task'[t] = w
                             /\ w.at = "smessages" /\ w.got = None
    BY <1>1, <2>1, GotoIs
  <2>3. ASSUME view.conv # None PROVE Phase(view, task', srv)
    <3>1. OnlyLive(task, {t}) /\ AtCancel(view, task, srv, t)
      BY <1>1, <1>2, <2>3, CancelAt
    <3>2. OnlyLive(task', {t})
      BY <1>1, <2>2, <3>1 DEF OnlyLive, LiveTask
    <3>3. AtRefresh(view, task', srv, t)
      BY <1>1, <2>2, <3>1 DEF AtRefresh, AtCancel, Brings
    <3> QED
      BY <3>2, <3>3 DEF Phase, Stage
  <2> QED
    BY <1>1, <2>3 DEF Stays
<1>3. CASE ~task[t].pending
  <2>1. Done(t)
    BY <1>3 DEF RunStopped
  <2>2. PICK w \in TaskSet : /\ task' = [task EXCEPT ![t] = w] /\ task'[t] = w
                            /\ w.kind = task[t].kind /\ w.conv = task[t].conv
                            /\ w.run = task[t].run /\ w.terminal = task[t].terminal
                            /\ w.at = "done" /\ w.cut = task[t].cut
    BY <1>1, <2>1, DoneIs
  <2>3. SameEnds(task, task') /\ ~LiveTask(task'[t]) /\ \A u \in Tasks : u # t => task'[u] = task[u]
    BY <1>1, <2>2, OneChanges DEF LiveTask
  <2>4. PICK s \in Tasks : task[s].at \in Streaming /\ ~task[s].aborted
    BY <1>3 DEF RunStopped
  <2>5. LiveTask(task[s]) /\ s # t
    BY <1>1, <2>4 DEF LiveTask, Streaming
  <2>6. ASSUME view.conv # None PROVE Phase(view, task', srv)
    <3>1. ~Doomed(task)
      <4>1. ASSUME NEW x \in Tasks, task[x].at = "cancel",
                   \A u \in Tasks \ {x} : LiveTask(task[u]) => task[u].at \in FinalAts \cup {"approvals"}
            PROVE  FALSE
        BY <2>4, <2>5, <4>1 DEF FinalAts, Streaming
      <4> QED
        BY <4>1 DEF Doomed
    <3>2. PICK u \in Tasks : u # t /\ OnlyLive(task, {u, t}) /\ AtStream(view, task, srv, u)
      BY <1>1, <1>3, <2>6, <3>1, CancelAt DEF AtCancel
    <3>3. OnlyLive(task', {u})
      BY <2>3, <3>2 DEF OnlyLive
    <3>4. LiveTask(task[u]) /\ task'[u] = task[u] /\ task[u].at \in Streaming
      BY <2>3, <3>2 DEF OnlyLive, AtStream
    <3>5. ServerOK' /\ Grows /\ NoneNew
      BY <1>1, NoServerStep
    <3>6. Stage(view, task', srv', u)
      BY <1>1, <2>3, <2>6, <3>2, <3>4, <3>5, StageStays DEF Stage
    <3> QED
      BY <1>1, <3>3, <3>6 DEF Phase
  <2> QED
    BY <1>1, <2>6 DEF Stays
<1> QED
  BY <1>2, <1>3

(***************************************************************************)
(* The answers of the server.                                              *)
(***************************************************************************)
(* The answer to a request that is no stop is the next state of its stage. *)
LEMMA AnswersStage ==
  ASSUME Calm, NEW t \in Tasks, NEW value \in GotSet, Answered(t, value), UNCHANGED view,
         LiveTask(task[t]), task[t].at \notin Streaming \cup {"cancel"}, OneUnended(srv'),
         ASSUME view.conv # None, Stage(view, task, srv, t), SameEnds(task, task'),
                task'[t].at = task[t].at, task'[t].run = task[t].run, task'[t].got = value
         PROVE  Stage(view, task', srv', t)
  PROVE  Stays
<1>1. task \in [Tasks -> TaskSet]
  BY CalmIs
<1>2. PICK w \in TaskSet : /\ task' = [task EXCEPT ![t] = w] /\ task'[t] = w
                           /\ SameBut(w, task[t]) /\ w.run = task[t].run
                           /\ w.aborted = task[t].aborted
                           /\ w.at = task[t].at /\ w.got = value
  BY <1>1, AnsweredIs
<1>3. SameEnds(task, task') /\ (LiveTask(w) <=> LiveTask(task[t]))
  BY <1>1, <1>2, OneChanges DEF SameBut, LiveTask, Streaming
<1>4. ASSUME view.conv # None PROVE Phase(view, task', srv')
  <2>1. CASE OnlyLive(task, {t}) /\ Stage(view, task, srv, t)
    <3>1. OnlyLive(task', {t})
      BY <1>1, <1>2, <1>3, <2>1 DEF OnlyLive
    <3>2. Stage(view, task', srv', t)
      BY <1>2, <1>3, <1>4, <2>1
    <3> QED
      BY <3>1, <3>2 DEF Phase
  <2>2. CASE Doomed(task) /\ task[t].at \in FinalAts \cup {"approvals"}
    <3>1. Doomed(task')
      BY <1>1, <1>2, <1>3, <2>2, DoomedStays
    <3> QED
      BY <3>1 DEF Phase
  <2> QED
    BY <1>4, <2>1, <2>2, AloneIs DEF Streaming
<1> QED
  BY <1>4 DEF Stays

LEMMA ServesMessagesStays ==
  ASSUME Calm, NEW t \in Tasks, ServesMessages(t), UNCHANGED view
  PROVE  Stays
<1>1. /\ task \in [Tasks -> TaskSet] /\ ServerOK /\ OneUnended(srv) /\ OfView(view, task)
      /\ \A u \in Tasks : Fits(task[u], srv)
      /\ task[t].at \in {"messages", "fmessages", "smessages"} /\ UNCHANGED srv
      /\ LiveTask(task[t]) /\ task[t].conv \in Convs
  BY CalmIs DEF ServesMessages, LiveTask, Fits, RunKnown
<1>2. PICK c \in Convs : c = task[t].conv
  BY <1>1
<1>3. PICK m \in MsgSet : /\ m = Messages(c) /\ m.known = RunsIn(srv, c)
                          /\ m.final = {q \in m.known : srv[q].status = "over"}
  <2> DEFINE known == RunsOf(c)
             final == {q \in known : srv[q].status = "over"}
  <2>1. known \in SUBSET Runs /\ final \in SUBSET Runs
    BY DEF RunsOf
  <2>2. Messages(c) = [of |-> c, known |-> known, final |-> final]
    BY DEF Messages
  <2>3. known = RunsIn(srv, c) /\ final = {q \in known : srv[q].status = "over"}
    BY DEF RunsOf, RunsIn
  <2> HIDE DEF known, final
  <2>4. [of |-> c, known |-> known, final |-> final] \in MsgSet
    BY <2>1 DEF MsgSet
  <2> QED
    BY <2>2, <2>3, <2>4
<1>4. m \in GotSet /\ Answered(t, m)
  BY <1>2, <1>3 DEF GotSet, ServesMessages
<1>5. ASSUME NEW u \in Tasks, task[u].terminal, task[u].conv = c PROVE task[u].run \in m.final
  <2>1. task[u].run \in Runs /\ srv[task[u].run].status = "over" /\ srv[task[u].run].conv = c
    BY <1>1, <1>5, RunsAreNumbers DEF Fits, EndKnown, RunKnown
  <2> QED
    BY <1>3, <2>1 DEF RunsIn
<1>6. ASSUME view.conv # None, SameEnds(task, task'), task'[t].got = m
      PROVE  Brings(task'[t], view, task', srv')
  <2>1. c = view.conv
    BY <1>1, <1>2, <1>6 DEF OfView
  <2>2. Endings(m.final, task, c, {})
    BY <1>5 DEF Endings
  <2>3. Endings(m.final, task', c, {})
    BY <1>6, <2>2, EndingsStay
  <2> QED
    BY <1>1, <1>3, <1>6, <2>1, <2>3 DEF Brings
<1>7. ASSUME view.conv # None, Stage(view, task, srv, t), SameEnds(task, task'),
             task'[t].at = task[t].at, task'[t].run = task[t].run, task'[t].got = m
      PROVE  Stage(view, task', srv', t)
  <2>1. Brings(task'[t], view, task', srv')
    BY <1>6, <1>7
  <2>2. CASE task[t].at = "messages"
    <3>1. AtMessages(view, task, srv, t)
      BY <1>7, <2>2, StageAt
    <3>2. AtMessages(view, task', srv', t)
      BY <1>7, <2>1, <3>1 DEF AtMessages
    <3> QED
      BY <3>2 DEF Stage
  <2>3. CASE task[t].at = "fmessages"
    <3>1. AtFinal(view, task, srv, t)
      BY <1>7, <2>3, StageAt
    <3>2. AtFinal(view, task', srv', t)
      BY <1>1, <1>7, <2>1, <3>1 DEF AtFinal
    <3> QED
      BY <3>2 DEF Stage
  <2>4. CASE task[t].at = "smessages"
    <3>1. AtRefresh(view, task, srv, t)
      BY <1>7, <2>4, StageAt
    <3>2. AtRefresh(view, task', srv', t)
      BY <1>1, <1>7, <2>1, <3>1 DEF AtRefresh
    <3> QED
      BY <3>2 DEF Stage
  <2> QED
    BY <1>1, <2>2, <2>3, <2>4
<1> QED
  BY <1>1, <1>4, <1>7, AnswersStage DEF Streaming

LEMMA ServesActiveStays ==
  ASSUME Calm, NEW t \in Tasks, ServesActive(t), UNCHANGED view
  PROVE  Stays
<1>1. /\ task \in [Tasks -> TaskSet] /\ ServerOK /\ OneUnended(srv) /\ OfView(view, task)
      /\ task[t].at = "active" /\ UNCHANGED srv /\ LiveTask(task[t])
  BY CalmIs DEF ServesActive, LiveTask
<1>2. PICK c : c = task[t].conv
  OBVIOUS
<1>3. PICK r \in Runs \cup {None} :
        /\ r = ActiveOf(c)
        /\ IF r = None THEN AllOver(srv, c) ELSE OthersOver(srv, c, r)
  <2> DEFINE S == {q \in RunsOf(c) : srv[q].status \in {"going", "waiting"}}
  <2>1. S \in SUBSET Runs /\ \A q \in Runs : q \in S <=> srv[q].conv = c /\ Unended(srv, q)
    BY DEF RunsOf, Unended
  <2>2. ActiveOf(c) = Latest(S)
    BY DEF ActiveOf
  <2> HIDE DEF S
  <2>3. CASE S = {}
    BY <2>1, <2>2, <2>3, LatestIs DEF AllOver
  <2>4. CASE S # {}
    <3>1. PICK q \in Runs : q = ActiveOf(c) /\ q \in S
      BY <2>1, <2>2, <2>4, LatestIs
    <3>2. OthersOver(srv, c, q)
      BY <1>1, <2>1, <3>1 DEF OneUnended, OthersOver
    <3> QED
      BY <3>1, <3>2, RunsAreNumbers
  <2> QED
    BY <2>3, <2>4
<1>4. <<r>> \in GotSet /\ Answered(t, <<r>>) /\ <<r>>[1] = r
  BY <1>2, <1>3 DEF GotSet, ServesActive
<1>5. ASSUME view.conv # None, Stage(view, task, srv, t), SameEnds(task, task'),
             task'[t].at = task[t].at, task'[t].run = task[t].run, task'[t].got = <<r>>
      PROVE  Stage(view, task', srv', t)
  <2>1. c = view.conv
    BY <1>1, <1>2, <1>5 DEF OfView
  <2>2. AtActive(view, task, srv, t)
    BY <1>1, <1>5, StageAt
  <2>3. Shows(view, task', srv', {})
    BY <1>1, <1>5, <2>2, EndingsStay DEF AtActive, Shows
  <2>4. IF r = None THEN AllOver(srv', view.conv) ELSE OthersOver(srv', view.conv, r)
    BY <1>1, <1>3, <2>1
  <2>5. AtActive(view, task', srv', t)
    BY <1>4, <1>5, <2>2, <2>3, <2>4 DEF AtActive
  <2> QED
    BY <2>5 DEF Stage
<1> QED
  BY <1>1, <1>4, <1>5, AnswersStage DEF Streaming

LEMMA ServesPostStays ==
  ASSUME Calm, NEW t \in Tasks, ServesPost(t), UNCHANGED view, task[t].got = None
  PROVE  Stays
<1>1. /\ task \in [Tasks -> TaskSet] /\ ServerOK /\ OneUnended(srv) /\ OfView(view, task)
      /\ task[t].at = "post" /\ LiveTask(task[t]) /\ task[t].conv \in Convs
  BY CalmIs DEF ServesPost, LiveTask, Fits, RunKnown
<1>2. PICK c \in Convs : c = task[t].conv
  BY <1>1
<1>3. PICK q \in Unused : srv' = [srv EXCEPT ![q] = NewRun(c)] /\ Answered(t, <<q>>)
  BY <1>2 DEF ServesPost
<1>4. /\ q \in Runs /\ srv[q].conv = None /\ srv'[q].conv = c
      /\ \A r \in Runs : r # q => srv'[r] = srv[r]
  BY <1>1, <1>3, PostedIs
<1>5. c = view.conv /\ view.conv # None
  BY <1>1, <1>2 DEF OfView, Following, FinalAts
<1>6. AtPost(view, task, srv, t)
  BY <1>1, <1>5, AloneIs, StageAt DEF FinalAts, Streaming
<1>7. AllOver(srv, c) /\ view.messages.known = RunsIn(srv, c)
  BY <1>5, <1>6 DEF AtPost
<1>8. OthersOver(srv', c, q)
  BY <1>4, <1>7 DEF AllOver, OthersOver, Unended
<1>9. OneUnended(srv')
  <2>1. ASSUME NEW r \in Runs, NEW p \in Runs, Unended(srv', r), Unended(srv', p),
               srv'[r].conv = srv'[p].conv, r # p
        PROVE  FALSE
    <3>1. CASE srv'[r].conv = c
      BY <1>8, <2>1, <3>1 DEF OthersOver
    <3>2. CASE srv'[r].conv # c
      <4>1. r # q /\ p # q /\ srv'[r] = srv[r] /\ srv'[p] = srv[p]
        BY <1>4, <2>1, <3>2
      <4> QED
        BY <1>1, <2>1, <4>1 DEF OneUnended, Unended
    <3> QED
      BY <3>1, <3>2
  <2> QED
    BY <2>1 DEF OneUnended
<1>10. view.messages.known \cup {q} = RunsIn(srv', c)
  BY <1>4, <1>7 DEF RunsIn
<1>11. <<q>> \in GotSet /\ <<q>>[1] = q /\ <<q>> # None
  BY <1>4, RunsAreNumbers DEF GotSet
<1>12. ASSUME Stage(view, task, srv, t), SameEnds(task, task'),
              task'[t].at = task[t].at, task'[t].got = <<q>>
       PROVE  Stage(view, task', srv', t)
  <2>1. Endings(view.messages.final, task', view.conv, {})
    BY <1>6, <1>12, EndingsStay DEF AtPost
  <2>2. AtPost(view, task', srv', t)
    BY <1>5, <1>6, <1>8, <1>10, <1>11, <1>12, <2>1 DEF AtPost
  <2> QED
    BY <2>2 DEF Stage
<1> QED
  BY <1>1, <1>3, <1>9, <1>11, <1>12, AnswersStage DEF Streaming

LEMMA ServesDecideStays ==
  ASSUME Calm, NEW t \in Tasks, ServesDecide(t), UNCHANGED view
  PROVE  Stays
<1>1. /\ task \in [Tasks -> TaskSet] /\ ServerOK /\ OneUnended(srv) /\ view \in ViewSet
      /\ task[t].at = "decide" /\ LiveTask(task[t]) /\ task[t].run \in Runs
  BY CalmIs DEF ServesDecide, LiveTask, Fits, RunKnown
<1>2. ServerOK' /\ Grows /\ NoneNew
  BY <1>1, DecidedIs DEF ServesDecide
<1>3. OneUnended(srv')
  BY <1>1, <1>2, ServerMoves
<1>4. <<"ok">> \in GotSet /\ <<"ok">> # None /\ Answered(t, <<"ok">>)
  BY RunsAreNumbers DEF GotSet, ServesDecide
<1>5. ASSUME view.conv # None, Stage(view, task, srv, t), SameEnds(task, task'),
             task'[t].at = task[t].at, task'[t].run = task[t].run, task'[t].got = <<"ok">>
      PROVE  Stage(view, task', srv', t)
  <2>1. AtDecide(view, task, srv, t)
    BY <1>1, <1>5, StageAt
  <2>2. PICK c \in Convs, r \in Runs : c = view.conv /\ r = task[t].run
    BY <1>1, <1>5 DEF ViewSet
  <2>3. RunsIn(srv', c) = RunsIn(srv, c) /\ OthersOver(srv', c, r)
    BY <1>1, <1>2, <2>1, <2>2, ServerMoves DEF AtDecide
  <2>4. Shows(view, task', srv', {})
    BY <1>5, <2>1, <2>2, <2>3, EndingsStay DEF AtDecide, Shows
  <2>5. AtDecide(view, task', srv', t)
    BY <1>4, <1>5, <2>1, <2>2, <2>3, <2>4 DEF AtDecide
  <2> QED
    BY <2>5 DEF Stage
<1> QED
  BY <1>1, <1>3, <1>4, <1>5, AnswersStage DEF Streaming

LEMMA ServesCancelStays ==
  ASSUME Calm, NEW t \in Tasks, ServesCancel(t), UNCHANGED view
  PROVE  Stays
<1>1. /\ task \in [Tasks -> TaskSet] /\ ServerOK /\ OneUnended(srv) /\ view \in ViewSet
      /\ task[t].at = "cancel" /\ LiveTask(task[t]) /\ task[t].run \in Runs
      /\ srv[task[t].run].conv \in Convs
  BY CalmIs, RunsAreNumbers DEF ServesCancel, LiveTask, Fits, RunKnown, StopAts
<1>2. PICK r \in Runs : r = task[t].run
  BY <1>1
<1>3. srv[r].status # "none"
  <2>1. RunOK(srv[r])
    BY <1>1 DEF ServerOK
  <2> QED
    BY <1>1, <1>2, <2>1, RunsAreNumbers DEF RunOK, NoRun
<1>4. ServerOK' /\ Grows /\ NoneNew /\ srv'[r].status = "over"
  BY <1>1, <1>2, <1>3, CancelledIs DEF ServesCancel
<1>5. OneUnended(srv')
  BY <1>1, <1>4, ServerMoves
<1>6. PICK w \in TaskSet : /\ task' = [task EXCEPT ![t] = w] /\ task'[t] = w
                           /\ SameBut(w, task[t]) /\ w.run = task[t].run /\ w.at = task[t].at
  <2>1. <<"ok">> \in GotSet
    BY DEF GotSet
  <2> QED
    BY <1>1, <2>1, AnsweredIs DEF ServesCancel
<1>7. /\ SameEnds(task, task') /\ LiveTask(w) /\ w.at = "cancel" /\ w.pending = task[t].pending
      /\ \A u \in Tasks : u # t => task'[u] = task[u]
  BY <1>1, <1>6, OneChanges DEF SameBut, LiveTask
<1>8. \A S : OnlyLive(task, S) => OnlyLive(task', S)
  BY <1>1, <1>6, <1>7 DEF OnlyLive
<1>9. ASSUME view.conv # None PROVE Phase(view, task', srv')
  <2>1. CASE OnlyLive(task, {t}) /\ AtCancel(view, task, srv, t)
    <3>1. PICK c \in Convs : c = view.conv
      BY <1>1, <1>9 DEF ViewSet
    <3>2. RunsIn(srv', c) = RunsIn(srv, c) /\ OthersOver(srv', c, r)
      BY <1>1, <1>2, <1>4, <2>1, <3>1, ServerMoves DEF AtCancel
    <3>3. AllOver(srv', c)
      BY <1>4, <3>2 DEF AllOver, OthersOver, Unended
    <3>4. Shows(view, task', srv', {})
      BY <1>7, <2>1, <3>1, <3>2, EndingsStay DEF AtCancel, Shows
    <3>5. AtCancel(view, task', srv', t)
      BY <1>2, <1>6, <1>7, <2>1, <3>1, <3>2, <3>3, <3>4 DEF AtCancel
    <3> QED
      BY <1>8, <2>1, <3>5 DEF Phase, Stage
  <2>2. ASSUME NEW u \in Tasks, u # t, OnlyLive(task, {u, t}), AtStream(view, task, srv, u),
               task[u].kind # "decide", ~task[t].pending
        PROVE  Phase(view, task', srv')
    <3>1. /\ task'[u] = task[u] /\ LiveTask(task[u]) /\ task[u].at \in Streaming
          /\ Stage(view, task, srv, u)
      BY <1>7, <2>2 DEF OnlyLive, AtStream, Stage
    <3>2. Stage(view, task', srv', u)
      BY <1>4, <1>7, <1>9, <3>1, StageStays DEF Streaming
    <3>3. AtStream(view, task', srv', u)
      BY <3>1, <3>2, StageAt
    <3>4. task'[t].at = "cancel" /\ ~task'[t].pending
      BY <1>6, <1>7, <2>2
    <3> QED
      BY <1>8, <2>2, <3>1, <3>3, <3>4 DEF Phase
  <2>3. CASE Doomed(task)
    <3>1. Doomed(task')
      BY <1>1, <1>6, <1>7, <2>3, DoomedStays
    <3> QED
      BY <3>1 DEF Phase
  <2> QED
    BY <1>1, <1>9, <2>1, <2>2, <2>3, CancelAt
<1> QED
  BY <1>5, <1>9 DEF Stays

LEMMA ServeStays ==
  ASSUME Calm, NEW t \in Tasks, Serve(t)
  PROVE  Stays
BY ServeIs, ServesMessagesStays, ServesActiveStays, ServesPostStays, ServesDecideStays,
   ServesCancelStays

(***************************************************************************)
(* What the user does.                                                     *)
(***************************************************************************)
(* At rest nothing goes on.                                                *)
LEMMA IdleIsRest ==
  ASSUME Calm, Idle, view.conv # None
  PROVE  OnlyLive(task, {}) /\ AtRest(view, task, srv)
<1>1. \A t \in Tasks : ~LiveTask(task[t]) /\ task[t].at # "cancel"
  BY DEF Idle, InFlight, LiveTask
<1> QED
  BY <1>1, CalmIs DEF Phase, OnlyLive, Doomed

(* A new function.                                                         *)
LEMMA BeginsAt ==
  ASSUME task \in [Tasks -> TaskSet], NEW n \in Tasks, NEW w \in TaskSet, task' = [task EXCEPT ![n] = w],
         task[n].at = "none", ~w.terminal, LiveTask(w)
  PROVE  /\ task'[n] = w /\ \A u \in Tasks : u # n => task'[u] = task[u]
         /\ \A S : OnlyLive(task, S) => OnlyLive(task', S \cup {n})
         /\ \A final, c, S : Endings(final, task, c, S) => Endings(final, task', c, S)
<1>1. task'[n] = w /\ \A u \in Tasks : u # n => task'[u] = task[u]
  OBVIOUS
<1>2. ~LiveTask(task[n])
  BY DEF LiveTask
<1>3. \A S : OnlyLive(task, S) => OnlyLive(task', S \cup {n})
  BY <1>1, <1>2 DEF OnlyLive
<1>4. \A final, c, S : Endings(final, task, c, S) => Endings(final, task', c, S)
  BY <1>1 DEF Endings
<1> QED
  BY <1>1, <1>3, <1>4

LEMMA SelectStays ==
  ASSUME Calm, NEW c \in Convs, Select(c), ~crossed'
  PROVE  Stays
<1>1. /\ view \in ViewSet /\ task \in [Tasks -> TaskSet] /\ BothInv /\ UNCHANGED srv
      /\ OneUnended(srv) /\ \A t \in Tasks : ~Lingers(t)
  BY CalmIs DEF Select, Calm
<1>2. PICK n \in Tasks, w \in TaskSet :
           /\ task' = [AbortStream(task) EXCEPT ![n] = w]
           /\ Started(w, "load", c, None, "messages")
  BY <1>1, SelectIs
<1>3. /\ AbortStream(task) \in [Tasks -> TaskSet]
      /\ \A u \in Tasks : ~LiveTask(AbortStream(task)[u])
  BY <1>1, AllAborted, AbortIs
<1>4. /\ task'[n] = w /\ \A u \in Tasks : u # n => ~LiveTask(task'[u])
  BY <1>2, <1>3
<1>5. w.at = "messages" /\ w.got = None /\ LiveTask(w)
  BY <1>2 DEF Started, LiveTask
<1>6. view'.active = None /\ view'.approvals = None
  <2>1. PICK x \in ViewSet : /\ x = [ResetView(view) EXCEPT !.conv = c]
                             /\ x.active = None /\ x.approvals = None
    BY <1>1, ResetIs
  <2> QED
    BY <2>1 DEF Select
<1>7. OnlyLive(task', {n})
  BY <1>4, <1>5 DEF OnlyLive
<1>8. AtMessages(view', task', srv', n)
  BY <1>4, <1>5, <1>6 DEF AtMessages, Brings, Prompts
<1> QED
  BY <1>1, <1>7, <1>8 DEF Stays, Phase, Stage

LEMMA SendStays ==
  ASSUME Calm, SendMessage, ~crossed'
  PROVE  Stays
<1>1. /\ view \in ViewSet /\ task \in [Tasks -> TaskSet] /\ BothInv /\ UNCHANGED srv
      /\ OneUnended(srv) /\ Idle /\ view.active = None /\ view.conv # None
      /\ view' = [view EXCEPT !.busy = TRUE]
  BY CalmIs DEF SendMessage, Calm
<1>2. PICK n \in Tasks, w \in TaskSet :
           /\ task[n].at = "none" /\ task' = [task EXCEPT ![n] = w]
           /\ Started(w, "send", view.conv, None, "post")
  BY <1>1, SendIs DEF SendMessage
<1>3. w.at = "post" /\ w.got = None /\ ~w.terminal /\ LiveTask(w)
  BY <1>2 DEF Started, LiveTask
<1>4. SameShown /\ view'.approvals = view.approvals
  BY <1>1 DEF ViewSet, SameShown
<1>5. OnlyLive(task, {}) /\ AtRest(view, task, srv)
  BY <1>1, IdleIsRest
<1>6. /\ task'[n] = w
      /\ \A S : OnlyLive(task, S) => OnlyLive(task', S \cup {n})
      /\ \A final, c, S : Endings(final, task, c, S) => Endings(final, task', c, S)
  BY <1>1, <1>2, <1>3, BeginsAt
<1>7. OnlyLive(task', {n})
  <2>1. {} \cup {n} = {n}
    OBVIOUS
  <2> QED
    BY <1>5, <1>6, <2>1
<1>8. AtPost(view', task', srv', n)
  BY <1>1, <1>3, <1>4, <1>5, <1>6 DEF AtPost, AtRest, Shows, SameShown, Prompts
<1> QED
  BY <1>1, <1>7, <1>8 DEF Stays, Phase, Stage

LEMMA DecideStays ==
  ASSUME Calm, DecideToolApproval, ~crossed'
  PROVE  Stays
<1>1. /\ view \in ViewSet /\ task \in [Tasks -> TaskSet] /\ BothInv /\ UNCHANGED srv
      /\ OneUnended(srv) /\ Idle /\ Pending /\ view.conv # None
      /\ view' = [view EXCEPT !.busy = TRUE]
  BY CalmIs DEF DecideToolApproval, Calm
<1>2. PICK n \in Tasks, w \in TaskSet :
           /\ task[n].at = "none" /\ task' = [task EXCEPT ![n] = w]
           /\ Started(w, "decide", view.conv, view.approvals.run, "decide")
  BY <1>1, DecideIs DEF DecideToolApproval
<1>3. w.at = "decide" /\ w.got = None /\ ~w.terminal /\ LiveTask(w) /\ w.run = view.approvals.run
  BY <1>2 DEF Started, LiveTask
<1>4. SameShown /\ view'.approvals = view.approvals
  BY <1>1 DEF ViewSet, SameShown
<1>5. OnlyLive(task, {}) /\ AtRest(view, task, srv)
  BY <1>1, IdleIsRest
<1>6. /\ task'[n] = w
      /\ \A S : OnlyLive(task, S) => OnlyLive(task', S \cup {n})
      /\ \A final, c, S : Endings(final, task, c, S) => Endings(final, task', c, S)
  BY <1>1, <1>2, <1>3, BeginsAt
<1>7. OnlyLive(task', {n})
  <2>1. {} \cup {n} = {n}
    OBVIOUS
  <2> QED
    BY <1>5, <1>6, <2>1
<1>8. /\ view.active # None /\ OthersOver(srv, view.conv, view.active)
      /\ srv[view.active].status = "waiting" /\ view.approvals.run = view.active
  BY <1>1, <1>5 DEF AtRest, Pending, Prompts
<1>9. Shows(view', task', srv', {})
  BY <1>1, <1>4, <1>5, <1>6 DEF AtRest, Shows, SameShown
<1>10. AtDecide(view', task', srv', n)
  BY <1>1, <1>3, <1>4, <1>6, <1>8, <1>9 DEF AtDecide, SameShown, Pending
<1> QED
  BY <1>1, <1>7, <1>10 DEF Stays, Phase, Stage

LEMMA StopStays ==
  ASSUME Calm, StopRun, ~crossed'
  PROVE  Stays
<1>1. /\ view \in ViewSet /\ task \in [Tasks -> TaskSet] /\ BothInv /\ UNCHANGED <<srv, view>>
      /\ OneUnended(srv) /\ view.active # None /\ view.conv # None
      /\ \A t \in Tasks : ~Lingers(t)
  BY CalmIs DEF StopRun, Calm
<1>2. PICK n \in Tasks, w \in TaskSet :
           /\ task[n].at = "none" /\ task' = [task EXCEPT ![n] = w]
           /\ Started(w, "stop", view.conv, view.active, "cancel") /\ w.pending = Pending
  BY <1>1, StopIs DEF StopRun
<1>3. w.at = "cancel" /\ w.got = None /\ ~w.terminal /\ LiveTask(w) /\ w.run = view.active
  BY <1>2 DEF Started, LiveTask
<1>6. /\ task'[n] = w /\ \A u \in Tasks : u # n => task'[u] = task[u]
      /\ \A S : OnlyLive(task, S) => OnlyLive(task', S \cup {n})
      /\ \A final, c, S : Endings(final, task, c, S) => Endings(final, task', c, S)
  BY <1>1, <1>2, <1>3, BeginsAt
<1>7. \A x \in Tasks : task[x].at # "cancel"
  BY <1>1 DEF Lingers, InFlight
<1>8. \A S : Shows(view, task, srv, S) => Shows(view, task', srv, S)
  BY <1>6 DEF Shows
<1>81. CASE OnlyLive(task, {}) /\ ~Pending
  <2>1. \A u \in Tasks \ {n} : ~LiveTask(task'[u])
    BY <1>6, <1>81 DEF OnlyLive
  <2>2. Doomed(task')
    BY <1>2, <1>3, <1>6, <1>81, <2>1 DEF Doomed
  <2> QED
    BY <1>1, <2>2 DEF Stays, Phase
<1>9. CASE OnlyLive(task, {}) /\ AtRest(view, task, srv) /\ Pending
  <2>1. OnlyLive(task', {n})
    <3>1. {} \cup {n} = {n}
      OBVIOUS
    <3> QED
      BY <1>6, <1>9, <3>1
  <2>2. /\ view.active \in Runs /\ view.approvals = [run |-> view.active, status |-> "pending"]
        /\ OthersOver(srv, view.conv, view.active) /\ Shows(view, task, srv, {})
    BY <1>1, <1>9 DEF AtRest, ViewSet, Prompts, Pending
  <2>3. AtCancel(view, task', srv, n)
    BY <1>2, <1>3, <1>6, <1>8, <1>9, <2>2 DEF AtCancel
  <2> QED
    BY <1>1, <2>1, <2>3 DEF Stays, Phase, Stage
<1>10. ASSUME NEW t \in Tasks, OnlyLive(task, {t}), Stage(view, task, srv, t)
       PROVE  Stays
  <2>1. LiveTask(task[t])
    BY <1>10 DEF OnlyLive
  <2>2. task[t].at \in {"connect", "read"} /\ task[t].kind # "decide"
    BY <1>1, <2>1 DEF Lingers, LiveTask, InFlight
  <2>3. AtStream(view, task, srv, t) /\ t # n
    BY <1>2, <1>10, <2>2, StageAt DEF Streaming
  <2>4. ~w.pending
    BY <1>2, <2>3 DEF AtStream, Prompts, Pending
  <2>5. OnlyLive(task', {t, n})
    <3>1. {t} \cup {n} = {t, n}
      OBVIOUS
    <3> QED
      BY <1>6, <1>10, <3>1
  <2>6. AtStream(view, task', srv, t)
    BY <1>6, <1>8, <2>3 DEF AtStream
  <2>7. task'[t].kind # "decide" /\ task'[n].at = "cancel" /\ ~task'[n].pending
    BY <1>3, <1>6, <2>2, <2>3, <2>4
  <2> QED
    BY <1>1, <2>3, <2>5, <2>6, <2>7 DEF Stays, Phase
<1> QED
  BY <1>1, <1>7, <1>81, <1>9, <1>10, CalmIs DEF Phase, Doomed

LEMMA UserStays ==
  ASSUME Calm, User, ~crossed'
  PROVE  Stays
<1>1. CASE LeaveWorkspace
  <2>1. view'.conv = None
    BY <1>1, CalmIs, ResetIs DEF LeaveWorkspace, ResetView, ViewSet
  <2> QED
    BY <1>1, <2>1, CalmIs DEF LeaveWorkspace, Stays
<1>2. CASE CloseConversation
  <2>1. view'.conv = None
    BY <1>2, CalmIs DEF CloseConversation, ViewSet
  <2> QED
    BY <1>2, <2>1, CalmIs DEF CloseConversation, Stays
<1> QED
  BY <1>1, <1>2, SelectStays, SendStays, DecideStays, StopStays DEF User

(***************************************************************************)
(* Every step, and the theorem.                                            *)
(***************************************************************************)
LEMMA ClientStays ==
  ASSUME Calm, NEW t \in Tasks, Client(t), ~crossed', faults' = 0
  PROVE  Stays
<1>1. CASE Serve(t) \/ LoadMessages(t) \/ LoadLatest(t) \/ LoadDetails(t) \/ LoadActive(t)
  BY <1>1, ServeStays, LoadMessagesStays, LoadLatestStays, LoadDetailsStays, LoadActiveStays
<1>2. CASE Posted(t) \/ DecisionTaken(t) \/ LoadToolApprovals(t) \/ RunStopped(t)
  BY <1>2, PostedStays, DecisionTakenStays, LoadToolApprovalsStays, RunStoppedStays
<1>3. CASE Connect(t) \/ ReadEvent(t) \/ Look(t) \/ BodyEnds(t)
  BY <1>3, ConnectStays, ReadEventStays, LookStays, BodyEndsStays
<1>4. CASE Awake(t) \/ AbortError(t) \/ Refused(t)
  BY <1>4, AwakeStays, AbortErrorStays, RefusedStays
<1> QED
  BY <1>1, <1>2, <1>3, <1>4 DEF Client

(* What crossed stays so, and no failure is taken back.                    *)
LEMMA NothingIsUndone ==
  ASSUME BothInv, [Next]_vars
  PROVE  (crossed => crossed') /\ (faults' = 0 => faults = 0)
<1>1. crossed \in BOOLEAN /\ faults \in Nat
  BY DEF BothInv, UInv, Typed
<1>2. CASE User
  BY <1>1, <1>2 DEF User, Select, LeaveWorkspace, CloseConversation, SendMessage,
                    DecideToolApproval, StopRun
<1>3. CASE ServerStep \/ Rest \/ UNCHANGED vars
  BY <1>1, <1>3 DEF ServerStep, Rest, vars
<1>4. ASSUME NEW t \in Tasks, Client(t) PROVE (crossed => crossed') /\ (faults' = 0 => faults = 0)
  <2>1. CASE Serve(t) \/ LoadMessages(t) \/ LoadLatest(t) \/ LoadDetails(t) \/ LoadActive(t)
             \/ Posted(t) \/ DecisionTaken(t) \/ LoadToolApprovals(t)
    BY <2>1 DEF Serve, LoadMessages, LoadLatest, LoadDetails, LoadActive, Posted, DecisionTaken,
                LoadToolApprovals
  <2>2. CASE RunStopped(t)
    BY <2>2 DEF RunStopped
  <2>3. CASE BodyEnds(t)
    BY <1>1, <2>3 DEF BodyEnds
  <2>4. CASE Connect(t) \/ ReadEvent(t) \/ Look(t) \/ Awake(t) \/ AbortError(t) \/ Refused(t)
    BY <2>4 DEF Connect, ReadEvent, Look, Awake, AbortError, Refused
  <2> QED
    BY <1>4, <2>1, <2>2, <2>3, <2>4 DEF Client
<1>5. ASSUME NEW t \in Tasks, RequestFails(t) PROVE (crossed => crossed') /\ (faults' = 0 => faults = 0)
  BY <1>1, <1>5 DEF RequestFails
<1> QED
  BY <1>2, <1>3, <1>4, <1>5 DEF Next

LEMMA RestStep ==
  ASSUME BothInv, RInv, [Next]_vars
  PROVE  RInv'
<1> SUFFICES ASSUME ~crossed', faults' = 0
             PROVE  OneUnended(srv') /\ (view'.conv # None => Phase(view', task', srv'))
  BY DEF RInv
<1>1. Calm
  BY NothingIsUndone DEF Calm
<1>2. ASSUME NEW t \in Tasks, RequestFails(t) PROVE FALSE
  BY <1>1, <1>2 DEF RequestFails, Calm
<1>3. CASE Rest \/ UNCHANGED vars
  <2>1. UNCHANGED <<srv, view, task>>
    BY <1>3 DEF Rest, vars
  <2> QED
    BY <1>1, <2>1, CalmIs
<1>4. CASE User \/ ServerStep \/ \E t \in Tasks : Client(t)
  BY <1>1, <1>4, UserStays, ServerStepStays, ClientStays DEF Stays
<1> QED
  BY <1>2, <1>3, <1>4 DEF Next

LEMMA RestInitially == Init => RInv
<1> SUFFICES ASSUME Init PROVE OneUnended(srv) /\ view.conv = None
  BY DEF RInv
<1>1. view.conv = None
  BY DEF Init
<1>2. \A r \in Runs : r # 1 => srv[r].status = "none"
  BY DEF Init, NoRun
<1> QED
  BY <1>1, <1>2 DEF OneUnended, Unended

LEMMA RestIsCurrentHolds ==
  ASSUME BothInv, RInv
  PROVE  RestIsCurrent
<1> SUFFICES ASSUME Idle, ~crossed, faults = 0, view.conv # None
    PROVE  /\ view.messages.known = RunsOf(view.conv)
           /\ \A t \in Tasks : (task[t].terminal /\ task[t].conv = view.conv)
                               => task[t].run \in view.messages.final
           /\ \/ \E t \in Tasks : task[t].cut /\ task[t].run = view.active
              \/ /\ view.active = ActiveOf(view.conv)
                 /\ view.active # None => view.approvals = [run |-> view.active, status |-> "pending"]
  BY DEF RestIsCurrent
<1>1. /\ view \in ViewSet /\ Filled(view, task, srv) /\ AtRest(view, task, srv)
  BY CalmIs, IdleIsRest DEF Calm
<1>2. view.messages.known = RunsOf(view.conv)
  BY <1>1 DEF AtRest, Shows, RunsIn, RunsOf
<1>3. \A t \in Tasks : (task[t].terminal /\ task[t].conv = view.conv)
                       => task[t].run \in view.messages.final
  BY <1>1 DEF AtRest, Shows, Endings
<1>4. ASSUME ~CutRun(task, view.active) PROVE view.active = ActiveOf(view.conv)
  <2> DEFINE S == {q \in RunsOf(view.conv) : srv[q].status \in {"going", "waiting"}}
  <2>1. S \in SUBSET Runs /\ \A q \in Runs : q \in S <=> srv[q].conv = view.conv /\ Unended(srv, q)
    BY DEF RunsOf, Unended
  <2>2. ActiveOf(view.conv) = Latest(S)
    BY DEF ActiveOf
  <2> HIDE DEF S
  <2>3. CASE view.active = None
    <3>1. S = {}
      BY <1>1, <2>1, <2>3 DEF AtRest, AllOver
    <3> QED
      BY <2>1, <2>2, <2>3, <3>1, LatestIs
  <2>4. CASE view.active # None
    <3>1. PICK r \in Runs : r = view.active
      BY <1>1, <2>4 DEF ViewSet
    <3>2. r \in S /\ \A q \in S : q = r
      BY <1>1, <1>4, <2>1, <2>4, <3>1 DEF AtRest, OthersOver, Unended, Filled
    <3> QED
      BY <2>1, <2>2, <3>1, <3>2, LatestIs
  <2> QED
    BY <2>3, <2>4
<1>5. (~CutRun(task, view.active) /\ view.active # None)
        => view.approvals = [run |-> view.active, status |-> "pending"]
  BY <1>1 DEF AtRest
<1> QED
  BY <1>2, <1>3, <1>4, <1>5 DEF CutRun

(* At rest, when nothing failed and nothing crossed, the view is up to     *)
(* date: it knows every run of its conversation, has the final answer of   *)
(* each run it followed to the end, and has an active run exactly when one *)
(* waits for the approval that is shown, unless the body of that run's     *)
(* stream was cut, that is, ended between the server's two reads           *)
(* (loadConversationState, consumeRun, cancelRun, event_body).             *)
THEOREM ViewIsCurrentAtRest == Spec => []RestIsCurrent
<1>1. Init => BothInv /\ RInv
  BY ViewInitially, RestInitially
<1>2. BothInv /\ RInv /\ [Next]_vars => BothInv' /\ RInv'
  BY ViewStep, RestStep
<1>3. BothInv /\ RInv => RestIsCurrent
  BY RestIsCurrentHolds
<1> QED
  BY <1>1, <1>2, <1>3, PTL DEF Spec

(***************************************************************************)
(* The lists.                                                              *)
(***************************************************************************)
EntrySet == [id : Items, ver : Nat]
Clean == ~overlap /\ lost = 0

\* What the server said last about an item.
Said(i) == [id |-> i, ver |-> told[i]]

\* The versions a list shows of an item, and the one it should.
Vers(list, i) == {list[k].ver : k \in {l \in DOMAIN list : list[l].id = i}}
Right(i)      == IF told[i] > 0 THEN {told[i]} ELSE {}
Agrees(i)     == Vers(cache, i) = Right(i)
OnScreen(i)   == Vers(cache, i) # {}

Distinct(list) == \A k, l \in DOMAIN list : list[k].id = list[l].id => k = l

Lists(list) ==
  /\ list \in Seq(EntrySet)
  /\ Distinct(list)
  /\ \A i \in Items : Vers(list, i) = Right(i)

\* A list that may show something else of the items in kept.
ListsBut(list, kept) ==
  /\ list \in Seq(EntrySet)
  /\ Distinct(list)
  /\ \A i \in Items : IF i \in kept THEN Vers(list, i) # {} ELSE Vers(list, i) = Right(i)

\* What the answer of a request says of its item is kept over the list.
KeptOf(k) == IF k.kind = "resolve" THEN {k.id} ELSE {}

LEMMA ItemsAreNumbers ==
  /\ Items \in SUBSET Nat /\ IsFiniteSet(Items) /\ Nothing \notin Items
  /\ Nothing \notin EntrySet /\ Nothing # "gone"
<1>1. Cardinality(Items) \in Nat /\ Items = 1 .. Cardinality(Items)
  BY ListViewsAssumption, FS_CardinalityType
<1>2. Items \in SUBSET Nat
  BY <1>1
<1> QED
  BY <1>2, ListViewsAssumption DEF EntrySet

Rank(S, t) == Cardinality({u \in S : u < t})

(* Numbering numbers by how many come before them uses every number once.  *)
LEMMA RanksFill ==
  ASSUME NEW S \in SUBSET Nat, IsFiniteSet(S)
  PROVE  /\ Cardinality(S) \in Nat
         /\ \A n \in 0..(Cardinality(S) - 1) : \E t \in S : Rank(S, t) = n
         /\ \A t \in S : Rank(S, t) \in 0..(Cardinality(S) - 1)
         /\ \A t, v \in S : Rank(S, t) = Rank(S, v) => t = v
<1> DEFINE Before(t) == {u \in S : u < t}
<1>1. Cardinality(S) \in Nat
  BY FS_CardinalityType
<1>3. \A t \in S : /\ Before(t) \in SUBSET S /\ t \notin Before(t)
                  /\ Before(t) \union {t} \in SUBSET S
                  /\ Rank(S, t) = Cardinality(Before(t))
  BY DEF Rank
<1>4. ASSUME NEW t \in S, NEW v \in S, t < v
      PROVE  Before(t) \union {t} \in SUBSET Before(v)
  <2>1. \A u \in S : u < t => u < v
    BY <1>4
  <2> QED
    BY <1>4, <2>1
<1> HIDE DEF Before
<1>5. ASSUME NEW t \in S
      PROVE  /\ Rank(S, t) \in Nat
             /\ Cardinality(Before(t) \union {t}) = Rank(S, t) + 1
             /\ IsFiniteSet(Before(t))
  <2>1. IsFiniteSet(Before(t)) /\ Cardinality(Before(t)) \in Nat
    BY <1>3, FS_Subset, FS_CardinalityType
  <2> QED
    BY <1>3, <2>1, FS_AddElement
<1>6. ASSUME NEW t \in S PROVE Rank(S, t) + 1 <= Cardinality(S)
  <2>1. Cardinality(Before(t) \union {t}) <= Cardinality(S)
    BY <1>1, <1>3, FS_Subset
  <2> QED
    BY <1>5, <2>1
<1>7. ASSUME NEW t \in S, NEW v \in S, t < v
      PROVE  Rank(S, t) + 1 <= Rank(S, v)
  <2>1. Before(t) \union {t} \in SUBSET Before(v)
    BY <1>4, <1>7
  <2>3. Cardinality(Before(t) \union {t}) <= Cardinality(Before(v))
    BY <2>1, <1>5, FS_Subset
  <2> QED
    BY <1>3, <1>5, <2>3
<1>8. \A t, v \in S : Rank(S, t) = Rank(S, v) => t = v
  <2> SUFFICES ASSUME NEW t \in S, NEW v \in S, Rank(S, t) = Rank(S, v), t # v
               PROVE  FALSE
    OBVIOUS
  <2>1. t < v \/ v < t
    OBVIOUS
  <2>2. Rank(S, t) + 1 <= Rank(S, v) \/ Rank(S, v) + 1 <= Rank(S, t)
    BY <1>7, <2>1
  <2>3. PICK k \in Nat : k = Rank(S, t)
    BY <1>5
  <2>4. k + 1 <= k
    BY <2>2, <2>3
  <2> QED
    BY <2>3, <2>4
<1> DEFINE T == 0..(Cardinality(S) - 1)
           f == [t \in S |-> Rank(S, t)]
<1>9. IsFiniteSet(T) /\ Cardinality(T) = Cardinality(S)
  <2>1. PICK n \in Nat : n = Cardinality(S)
    BY <1>1
  <2>2. PICK m \in Int : m = n - 1
    OBVIOUS
  <2>3. IsFiniteSet(0 .. m) /\ Cardinality(0 .. m) = IF 0 > m THEN 0 ELSE m - 0 + 1
    BY FS_Interval
  <2>4. Cardinality(0 .. m) = n
    BY <2>2, <2>3
  <2> QED
    BY <2>1, <2>2, <2>3, <2>4
<1>10. \A t \in S : Rank(S, t) \in T
  <2> SUFFICES ASSUME NEW t \in S PROVE Rank(S, t) \in T
    OBVIOUS
  <2>1. Rank(S, t) \in Nat /\ Rank(S, t) + 1 <= Cardinality(S)
    BY <1>5, <1>6
  <2> QED
    BY <1>1, <2>1
<1>11. f \in Injection(S, T)
  BY <1>8, <1>10 DEF Injection, IsInjective
<1>12. f \in Surjection(S, T)
  BY <1>1, <1>9, <1>11, FS_Injection
<1>13. \A n \in T : \E t \in S : Rank(S, t) = n
  BY <1>12 DEF Surjection
<1> QED
  BY <1>1, <1>8, <1>10, <1>13

(* Ordered enumerates a set, without repetition.                           *)
LEMMA OrderedEnumerates ==
  ASSUME NEW S \in SUBSET Nat, IsFiniteSet(S)
  PROVE  /\ Cardinality(S) \in Nat
         /\ DOMAIN Ordered(S) = 1 .. Cardinality(S)
         /\ \A n \in 1 .. Cardinality(S) : Ordered(S)[n] \in S
         /\ \A m, n \in 1 .. Cardinality(S) : Ordered(S)[m] = Ordered(S)[n] => m = n
         /\ \A s \in S : \E n \in 1 .. Cardinality(S) : Ordered(S)[n] = s
<1> DEFINE size == Cardinality(S)
<1>1. size \in Nat
  BY RanksFill
<1>2. ASSUME NEW n \in 1 .. size
      PROVE  Ordered(S)[n] \in S /\ Rank(S, Ordered(S)[n]) = n - 1
  <2>1. n - 1 \in 0 .. (size - 1)
    BY <1>1
  <2>2. \E s \in S : Rank(S, s) = n - 1
    BY <2>1, RanksFill
  <2>3. Ordered(S)[n] = CHOOSE s \in S : Rank(S, s) = n - 1
    BY DEF Ordered, Rank
  <2> QED
    BY <2>2, <2>3
<1>3. \A m, n \in 1 .. size : Ordered(S)[m] = Ordered(S)[n] => m = n
  BY <1>1, <1>2
<1>4. ASSUME NEW s \in S
      PROVE  \E n \in 1 .. size : Ordered(S)[n] = s
  <2>1. Rank(S, s) \in 0 .. (size - 1)
    BY RanksFill
  <2>2. PICK n \in 1 .. size : n - 1 = Rank(S, s)
    <3>1. Rank(S, s) + 1 \in 1 .. size /\ (Rank(S, s) + 1) - 1 = Rank(S, s)
      BY <1>1, <2>1
    <3> QED
      BY <3>1
  <2>3. Ordered(S)[n] \in S /\ Rank(S, Ordered(S)[n]) = Rank(S, s)
    BY <1>2, <2>2
  <2>4. \A u, v \in S : Rank(S, u) = Rank(S, v) => u = v
    BY RanksFill
  <2> QED
    BY <2>3, <2>4
<1>5. DOMAIN Ordered(S) = 1 .. size
  BY DEF Ordered
<1> QED
  BY <1>1, <1>2, <1>3, <1>4, <1>5

(* What GET returns shows what is stored.                                  *)
LEMMA AnswerLists ==
  ASSUME stored \in [Items -> Int]
  PROVE  /\ Answer \in Seq(EntrySet) /\ Distinct(Answer)
         /\ \A i \in Items : Vers(Answer, i) = IF stored[i] > 0 THEN {stored[i]} ELSE {}
<1> DEFINE size == Cardinality(Present)
           at(n) == Ordered(Present)[n]
<1>1. Present \in SUBSET Nat /\ IsFiniteSet(Present) /\ Present \subseteq Items
  BY ItemsAreNumbers, FS_Subset DEF Present
<1>2. /\ size \in Nat
      /\ \A n \in 1 .. size : at(n) \in Present
      /\ \A m, n \in 1 .. size : at(m) = at(n) => m = n
      /\ \A s \in Present : \E n \in 1 .. size : at(n) = s
  BY <1>1, OrderedEnumerates
<1>3. Answer = [n \in 1 .. size |-> Entry(at(n))]
  BY DEF Answer
<1> HIDE DEF size, at
<1>4. \A i \in Present : i \in Items /\ stored[i] \in Nat /\ stored[i] > 0 /\ Entry(i) \in EntrySet
  BY DEF Present, Entry, EntrySet
<1>5. Answer \in Seq(EntrySet) /\ DOMAIN Answer = 1 .. size
  BY <1>2, <1>3, <1>4
<1>6. \A n \in 1 .. size : Answer[n].id = at(n) /\ Answer[n].ver = stored[at(n)]
  BY <1>3 DEF Entry
<1>7. Distinct(Answer)
  BY <1>2, <1>5, <1>6 DEF Distinct
<1>8. ASSUME NEW i \in Items PROVE Vers(Answer, i) = IF stored[i] > 0 THEN {stored[i]} ELSE {}
  <2>1. CASE i \in Present
    <3>1. PICK n \in 1 .. size : at(n) = i
      BY <1>2, <2>1
    <3>2. \A l \in DOMAIN Answer : Answer[l].id = i <=> l = n
      BY <1>2, <1>5, <1>6, <3>1
    <3>3. Vers(Answer, i) = {Answer[n].ver}
      BY <3>2, <1>5 DEF Vers
    <3> QED
      BY <3>1, <3>3, <1>6, <1>4, <2>1
  <2>2. CASE i \notin Present
    <3>1. \A l \in DOMAIN Answer : Answer[l].id # i
      BY <1>2, <1>5, <1>6, <2>2
    <3> QED
      BY <3>1, <2>2 DEF Vers, Present
  <2> QED
    BY <2>1, <2>2
<1> QED
  BY <1>5, <1>7, <1>8

(* What the patches do to a list.                                          *)
LEMMA AppendAdds ==
  ASSUME NEW list \in Seq(EntrySet), Distinct(list), NEW e \in EntrySet, Vers(list, e.id) = {}
  PROVE  /\ Append(list, e) \in Seq(EntrySet)
         /\ Distinct(Append(list, e))
         /\ Vers(Append(list, e), e.id) = {e.ver}
         /\ \A i \in Items : i # e.id => Vers(Append(list, e), i) = Vers(list, i)
<1> DEFINE long == Append(list, e)
           n == Len(list) + 1
<1>1. /\ Len(list) \in Nat /\ DOMAIN list = 1 .. Len(list) /\ DOMAIN long = 1 .. n
      /\ long \in Seq(EntrySet) /\ long[n] = e
      /\ \A k \in DOMAIN list : long[k] = list[k] /\ k \in DOMAIN long /\ k # n
      /\ \A k \in DOMAIN long : k \in DOMAIN list \/ k = n
      /\ n \in DOMAIN long
  OBVIOUS
<1> HIDE DEF long, n
<1>2. \A k \in DOMAIN list : list[k].id # e.id
  BY DEF Vers
<1>3. Distinct(long)
  BY <1>1, <1>2 DEF Distinct
<1>4. Vers(long, e.id) = {e.ver}
  BY <1>1, <1>2 DEF Vers
<1>5. ASSUME NEW i \in Items, i # e.id
      PROVE  Vers(long, i) = Vers(list, i)
  <2>1. {l \in DOMAIN long : long[l].id = i} = {l \in DOMAIN list : list[l].id = i}
    BY <1>1, <1>5
  <2> QED
    BY <1>1, <2>1 DEF Vers
<1> QED
  BY <1>1, <1>3, <1>4, <1>5 DEF long

LEMMA ReplacedPatches ==
  ASSUME NEW list \in Seq(EntrySet), Distinct(list), NEW e \in EntrySet
  PROVE  /\ Replaced(list, e) \in Seq(EntrySet)
         /\ Distinct(Replaced(list, e))
         /\ Vers(list, e.id) # {} => Vers(Replaced(list, e), e.id) = {e.ver}
         /\ Vers(list, e.id) = {} => Vers(Replaced(list, e), e.id) = {}
         /\ \A i \in Items : i # e.id => Vers(Replaced(list, e), i) = Vers(list, i)
<1> DEFINE new == Replaced(list, e)
<1>1. /\ DOMAIN new = DOMAIN list
      /\ \A k \in DOMAIN list : new[k] = IF list[k].id = e.id THEN e ELSE list[k]
      /\ new \in Seq(EntrySet)
  BY DEF Replaced
<1>2. \A k \in DOMAIN list : new[k].id = list[k].id
  BY <1>1
<1> HIDE DEF new
<1>3. Distinct(new)
  BY <1>1, <1>2 DEF Distinct
<1>4. \A i : {l \in DOMAIN new : new[l].id = i} = {l \in DOMAIN list : list[l].id = i}
  BY <1>1, <1>2
<1>5. ASSUME NEW i \in Items, i # e.id PROVE Vers(new, i) = Vers(list, i)
  BY <1>1, <1>4, <1>5 DEF Vers
<1>6. ASSUME Vers(list, e.id) # {} PROVE Vers(new, e.id) = {e.ver}
  <2>1. PICK k \in DOMAIN list : list[k].id = e.id
    BY <1>6 DEF Vers
  <2> QED
    BY <2>1, <1>1, <1>2 DEF Vers
<1>7. ASSUME Vers(list, e.id) = {} PROVE Vers(new, e.id) = {}
  BY <1>7, <1>1, <1>2 DEF Vers
<1> QED
  BY <1>1, <1>3, <1>5, <1>6, <1>7 DEF new

LEMMA WithoutDrops ==
  ASSUME NEW list \in Seq(EntrySet), Distinct(list), NEW j
  PROVE  /\ Without(list, j) \in Seq(EntrySet)
         /\ Distinct(Without(list, j))
         /\ Vers(Without(list, j), j) = {}
         /\ \A i \in Items : i # j => Vers(Without(list, j), i) = Vers(list, i)
<1> DEFINE kept == {k \in DOMAIN list : list[k].id # j}
           size == Cardinality(kept)
           at(n) == Ordered(kept)[n]
           new == Without(list, j)
<1>1. kept \in SUBSET Nat /\ IsFiniteSet(kept)
  <2>1. DOMAIN list = 1 .. Len(list) /\ Len(list) \in Nat
    OBVIOUS
  <2>2. IsFiniteSet(1 .. Len(list))
    BY <2>1, FS_Interval
  <2> QED
    BY <2>1, <2>2, FS_Subset
<1>2. /\ size \in Nat
      /\ \A n \in 1 .. size : at(n) \in kept
      /\ \A m, n \in 1 .. size : at(m) = at(n) => m = n
      /\ \A s \in kept : \E n \in 1 .. size : at(n) = s
  BY <1>1, OrderedEnumerates
<1>3. new = [n \in 1 .. size |-> list[at(n)]]
  BY DEF Without
<1> HIDE DEF size, at, new
<1>4. new \in Seq(EntrySet) /\ DOMAIN new = 1 .. size
  BY <1>2, <1>3
<1>5. \A n \in 1 .. size : new[n] = list[at(n)] /\ at(n) \in DOMAIN list /\ new[n].id # j
  BY <1>2, <1>3
<1>6. Distinct(new)
  BY <1>2, <1>4, <1>5 DEF Distinct
<1>7. Vers(new, j) = {}
  BY <1>4, <1>5 DEF Vers
<1>8. ASSUME NEW i \in Items, i # j PROVE Vers(new, i) = Vers(list, i)
  <2>1. ASSUME NEW v \in Vers(new, i) PROVE v \in Vers(list, i)
    <3>1. PICK n \in DOMAIN new : new[n].id = i /\ v = new[n].ver
      BY <2>1 DEF Vers
    <3> QED
      BY <3>1, <1>4, <1>5 DEF Vers
  <2>2. ASSUME NEW v \in Vers(list, i) PROVE v \in Vers(new, i)
    <3>1. PICK k \in DOMAIN list : list[k].id = i /\ v = list[k].ver
      BY <2>2 DEF Vers
    <3>2. PICK n \in 1 .. size : at(n) = k
      BY <3>1, <1>2, <1>8
    <3>3. n \in DOMAIN new /\ new[n] = list[k]
      BY <3>2, <1>4, <1>5
    <3> QED
      BY <3>1, <3>3 DEF Vers
  <2> QED
    BY <2>1, <2>2
<1> QED
  BY <1>4, <1>6, <1>7, <1>8 DEF new

(***************************************************************************)
(* The invariant of a list whose handlers did not meet.                    *)
(***************************************************************************)
\* What a handler under way holds: the answer it was given is still what the
\* server said last about its item when it is used.
HeldLoad(t) ==
  /\ op[t].kind = "load" /\ op[t].at = "reload" /\ op[t].id = Nothing
  /\ op[t].got # Nothing => ListsBut(op[t].got, {})
  /\ \A i \in Items : OnScreen(i) => i \in Known

HeldNew(t) ==
  /\ op[t].kind \in {"create", "upload"} /\ op[t].at = "request"
  /\ \/ op[t].id = Nothing /\ op[t].got = Nothing
     \/ /\ op[t].id \in Items /\ op[t].got = Said(op[t].id)
        /\ told[op[t].id] = 1 /\ ~OnScreen(op[t].id)

HeldUpload(t) ==
  /\ op[t].kind = "upload" /\ op[t].at = "poll"
  /\ op[t].id \in Known /\ OnScreen(op[t].id)
  /\ op[t].got # Nothing => op[t].got = Said(op[t].id)

HeldChange(t) ==
  /\ op[t].kind \in {"update", "resolve", "toggle"} /\ op[t].at = "request"
  /\ op[t].id \in Known /\ OnScreen(op[t].id)
  /\ \/ op[t].got = Nothing /\ Agrees(op[t].id)
     \/ op[t].got = Said(op[t].id)

HeldReload(t) ==
  /\ op[t].kind \in {"resolve", "toggle"} /\ op[t].at = "reload"
  /\ op[t].id \in Known
  /\ op[t].kind = "resolve" => op[t].polls = told[op[t].id]
  /\ op[t].got # Nothing => ListsBut(op[t].got, KeptOf(op[t]))
  /\ \A i \in Items : OnScreen(i) => i \in Known

HeldRemove(t) ==
  /\ op[t].kind = "remove" /\ op[t].at = "request"
  /\ op[t].id \in Items /\ OnScreen(op[t].id)
  /\ \/ op[t].got = Nothing /\ op[t].id \in Known /\ Agrees(op[t].id)
     \/ op[t].got = "gone" /\ told[op[t].id] = -1

Held(t) ==
  \/ HeldLoad(t) \/ HeldNew(t) \/ HeldUpload(t) \/ HeldChange(t) \/ HeldReload(t)
  \/ HeldRemove(t)

\* A handler that loads the list is alone; the others are about items of their own.
Alone(t) == op[t].kind \in {"load", "resolve", "toggle"}
Apart ==
  \A t, u \in Ops :
    (t # u /\ Active(t) /\ Active(u)) =>
       ~Alone(t) /\ (op[t].id = Nothing \/ op[t].id # op[u].id)

Settled(i) == \A t \in Ops : Active(t) => op[t].id # i
Loading    == \E t \in Ops : op[t].at = "reload"
Removing(t, i) ==
  Active(t) /\ op[t].kind = "remove" /\ op[t].got = "gone" /\ op[t].id = i

Chosen ==
  selected # Nothing =>
    \/ selected.id \in Known
    \/ \E t \in Ops : Removing(t, selected.id)

OpSet ==
  [kind : {Nothing, "load", "create", "update", "remove", "resolve", "toggle", "upload"},
   id : Items \cup {Nothing}, at : {"none", "request", "reload", "poll", "done"},
   got : {Nothing, "gone"} \cup EntrySet \cup Seq(EntrySet), polls : Nat]

ToldOK == told \in [Items -> Int]

Orderly ==
  /\ ToldOK
  /\ cache \in Seq(EntrySet) /\ Distinct(cache)
  /\ op \in [Ops -> OpSet]
  /\ \A t \in Ops : Active(t) => Held(t)
  /\ Apart
  /\ ~Loading => \A i \in Items : Settled(i) => Agrees(i)
  /\ Chosen

\* What the server said is what it holds, unless the item changed elsewhere or
\* its parser was done since.
Linked(i) == (told[i] > 0 => stored[i] > 0) /\ (told[i] # 0 => stored[i] # 0)
Synced(i) ==
  \/ told[i] = stored[i] \/ i \in unseen
  \/ told[i] = 1 /\ \E t \in Ops : op[t].at = "poll" /\ op[t].id = i

InStep == stored \in [Items -> Int] /\ \A i \in Items : Linked(i) /\ Synced(i)

LInv == overlap \in BOOLEAN /\ lost \in Nat /\ (Clean => Orderly /\ InStep)

(* A handler under way stays as it is when the step of another is about    *)
(* another item.                                                           *)
LEMMA HeldStays ==
  ASSUME NEW t \in Ops, op'[t] = op[t], Held(t), ~Alone(t),
         \A i \in Items : op[t].id = i =>
            told'[i] = told[i] /\ Vers(cache, i)' = Vers(cache, i)
  PROVE  Held(t)'
<1>1. CASE HeldNew(t)
  BY <1>1 DEF HeldNew, Held, Said, OnScreen
<1>2. CASE HeldUpload(t)
  BY <1>2 DEF HeldUpload, Held, OnScreen, Known, Said
<1>3. CASE HeldChange(t)
  BY <1>3 DEF HeldChange, Held, OnScreen, Known, Agrees, Right, Said, Alone
<1>4. CASE HeldRemove(t)
  BY <1>4 DEF HeldRemove, Held, OnScreen, Known, Agrees, Right
<1> QED
  BY <1>1, <1>2, <1>3, <1>4 DEF Held, HeldLoad, HeldReload, Alone

(* An item that is being handled was created.                              *)
LEMMA HeldExists ==
  ASSUME NEW t \in Ops, Held(t), op[t].id \in Items
  PROVE  told[op[t].id] # 0
BY ItemsAreNumbers DEF Held, HeldLoad, HeldNew, HeldUpload, HeldChange, HeldReload, HeldRemove, Known

(* A step of handler t, which is about item j (or none): the others are    *)
(* not touched, and when the handler ends the copy agrees about its item.  *)
LEMMA StepOf ==
  ASSUME Orderly, NEW t \in Ops, Active(t), NEW j \in Items \cup {Nothing},
         NEW w \in OpSet, op' = [op EXCEPT ![t] = w],
         ToldOK', cache' \in Seq(EntrySet), Distinct(cache)',
         op[t].id \in {j, Nothing},
         \A u \in Ops : (u # t /\ Active(u)) => op[u].id # j \/ j = Nothing,
         \A i \in Items : i # j => told'[i] = told[i] /\ Vers(cache, i)' = Vers(cache, i),
         Active(t)' => Held(t)' /\ w.kind = op[t].kind /\ w.id = j,
         op[t].at # "reload",
         ~Active(t)' => (j \in Items => Agrees(j)'),
         Chosen'
  PROVE  Orderly'
<1>0. /\ \A u \in Ops : u # t => op'[u] = op[u]
      /\ op'[t] = w /\ op' \in [Ops -> OpSet]
  BY DEF Orderly
<1>1. \A u \in Ops : u # t => (Active(u)' <=> Active(u))
  BY <1>0 DEF Active
<1>2. ASSUME NEW u \in Ops, Active(u)' PROVE Held(u)'
  <2>1. CASE u = t
    BY <2>1, <1>2
  <2>2. CASE u # t
    <3>1. Active(u) /\ op'[u] = op[u]
      BY <1>0, <1>1, <1>2, <2>2
    <3>2. Held(u) /\ ~Alone(u)
      BY <3>1, <2>2 DEF Orderly, Apart
    <3>3. \A i \in Items : op[u].id = i =>
            told'[i] = told[i] /\ Vers(cache, i)' = Vers(cache, i)
      BY <3>1, <2>2, ItemsAreNumbers
    <3> QED
      BY <3>1, <3>2, <3>3, HeldStays
  <2> QED
    BY <2>1, <2>2
<1>3. Apart'
  <2> SUFFICES ASSUME NEW u \in Ops, NEW v \in Ops, u # v, Active(u)', Active(v)'
               PROVE  ~Alone(u)' /\ (op'[u].id = Nothing \/ op'[u].id # op'[v].id)
    BY DEF Apart
  <2>1. Active(u) /\ Active(v)
    BY <1>1
  <2>2. ~Alone(u) /\ (op[u].id = Nothing \/ op[u].id # op[v].id)
    BY <2>1 DEF Orderly, Apart
  <2>3. CASE u # t /\ v # t
    BY <2>3, <2>2, <1>0 DEF Alone
  <2>4. CASE u = t
    BY <2>4, <2>2, <2>1, <1>0 DEF Alone
  <2>5. CASE v = t
    BY <2>5, <2>2, <2>1, <1>0 DEF Alone
  <2> QED
    BY <2>3, <2>4, <2>5
<1>4. ASSUME ~Loading', NEW i \in Items, Settled(i)' PROVE Agrees(i)'
  <2>1. ~Loading
    BY <1>0, <1>4 DEF Loading
  <2>2. CASE i = j
    <3>1. ~Active(t)'
      BY <2>2, <1>4, <1>0 DEF Settled
    <3> QED
      BY <3>1, <2>2
  <2>3. CASE i # j
    <3>1. Settled(i)
      BY <2>3, <1>4, <1>0, <1>1, ItemsAreNumbers DEF Settled
    <3>2. Agrees(i)
      BY <3>1, <2>1 DEF Orderly
    <3> QED
      BY <3>2, <2>3 DEF Agrees, Right
  <2> QED
    BY <2>2, <2>3
<1> QED
  BY <1>0, <1>2, <1>3, <1>4 DEF Orderly

(* When a list that was loaded replaces the copy nothing else is under way. *)
LEMMA LastStep ==
  ASSUME Orderly, NEW t \in Ops, Active(t), Alone(t), op'[t] \in OpSet, op'[t].at = "done",
         op' = [op EXCEPT ![t] = op'[t]],
         told' = told, selected' = selected, Lists(cache)',
         selected # Nothing => selected.id \in Known
  PROVE  Orderly'
<1>1. \A u \in Ops : ~Active(u)'
  BY DEF Orderly, Apart, Active
<1>2. Apart' /\ ~Loading' /\ \A u \in Ops : Active(u)' => Held(u)'
  BY <1>1 DEF Apart, Loading, Active
<1>3. \A i \in Items : Agrees(i)'
  BY DEF Lists, Agrees
<1>4. Chosen'
  BY DEF Chosen, Known
<1>5. op' \in [Ops -> OpSet]
  BY DEF Orderly
<1>6. ToldOK' /\ cache' \in Seq(EntrySet) /\ Distinct(cache)'
  BY DEF Orderly, Lists, ToldOK
<1> QED
  BY <1>2, <1>3, <1>4, <1>5, <1>6 DEF Orderly

(* The selected item is in the list, unless the handler that removes it is *)
(* still to be told.                                                       *)
LEMMA ChosenStays ==
  ASSUME Orderly, NEW t \in Ops, NEW w \in OpSet, op' = [op EXCEPT ![t] = w],
         op[t].kind # "remove" \/ op[t].got # "gone", selected' = selected,
         \A i \in Known : i \in Known' \/ Removing(t, i)'
  PROVE  Chosen'
<1> SUFFICES ASSUME selected # Nothing
             PROVE  selected.id \in Known' \/ \E u \in Ops : Removing(u, selected.id)'
  BY DEF Chosen
<1>1. CASE selected.id \in Known
  BY <1>1
<1>2. CASE \E u \in Ops : Removing(u, selected.id)
  <2>1. PICK u \in Ops : Removing(u, selected.id)
    BY <1>2
  <2>2. u # t /\ op'[u] = op[u]
    BY <2>1 DEF Removing, Orderly
  <2> QED
    BY <2>1, <2>2 DEF Removing, Active
<1> QED
  BY <1>1, <1>2 DEF Orderly, Chosen

LEMMA ListInitially == ListInit => LInv
<1> SUFFICES ASSUME ListInit PROVE LInv
  OBVIOUS
<1>1. 1 \in Ops /\ MaxOps \in Nat
  BY ListViewsAssumption DEF Ops
<1> DEFINE load == [NoOp EXCEPT !.kind = "load", !.at = "reload"]
<1>2. /\ NoOp \in OpSet /\ load \in OpSet /\ NoOp.at = "none"
      /\ load.at = "reload" /\ load.kind = "load" /\ load.id = Nothing /\ load.got = Nothing
  BY DEF NoOp, OpSet
<1>3. PICK first \in {NoOp, load} : op = [[t \in Ops |-> NoOp] EXCEPT ![1] = first]
  BY DEF ListInit
<1> HIDE DEF load
<1>4. op \in [Ops -> OpSet] /\ op[1] = first /\ \A t \in Ops : t # 1 => op[t] = NoOp
  BY <1>1, <1>2, <1>3
<1>5. \A t \in Ops : Active(t) => t = 1 /\ op[t] = load
  BY <1>2, <1>3, <1>4 DEF Active
<1>6. /\ cache = <<>> /\ selected = Nothing /\ told = [i \in Items |-> 0]
      /\ stored = [i \in Items |-> IF i \in Listed THEN 1 ELSE 0] /\ unseen = Listed
  BY DEF ListInit
<1>7. cache \in Seq(EntrySet) /\ Distinct(cache) /\ \A i \in Items : ~OnScreen(i)
  BY <1>6 DEF Distinct, OnScreen, Vers
<1>8. \A t \in Ops : Active(t) => HeldLoad(t)
  BY <1>2, <1>5, <1>7 DEF HeldLoad
<1>9. Apart /\ Chosen /\ \A t \in Ops : Active(t) => Held(t)
  BY <1>5, <1>6, <1>8 DEF Apart, Chosen, Held
<1>10. ToldOK /\ \A i \in Items : Agrees(i)
  BY <1>6, <1>7 DEF ToldOK, Agrees, Right, OnScreen
<1>11. InStep
  <2>1. stored \in [Items -> Int]
    BY <1>6
  <2>2. \A i \in Items : told[i] = 0 /\ (i \notin Listed => stored[i] = 0)
    BY <1>6
  <2> QED
    BY <1>6, <2>1, <2>2 DEF InStep, Linked, Synced
<1> QED
  BY <1>4, <1>7, <1>9, <1>10, <1>11 DEF LInv, Orderly, ListInit

(* What is on the screen is known, or being removed.                       *)
LEMMA OnScreenIsKnown ==
  ASSUME Orderly, NEW i \in Items, OnScreen(i)
  PROVE  i \in Known \/ \E t \in Ops : Removing(t, i)
<1>1. CASE Loading
  <2>1. PICK t \in Ops : Active(t) /\ op[t].at = "reload"
    BY <1>1 DEF Loading, Active
  <2>2. HeldLoad(t) \/ HeldReload(t)
    BY <2>1 DEF Orderly, Held, HeldNew, HeldUpload, HeldChange, HeldRemove
  <2> QED
    BY <2>2 DEF HeldLoad, HeldReload
<1>2. CASE ~Loading /\ Settled(i)
  BY <1>2 DEF Orderly, Agrees, OnScreen, Right, Known
<1>3. CASE ~Settled(i)
  <2>1. PICK t \in Ops : Active(t) /\ op[t].id = i
    BY <1>3 DEF Settled
  <2>2. Held(t)
    BY <2>1 DEF Orderly
  <2>3. ~HeldNew(t) /\ ~HeldLoad(t)
    BY <2>1, ItemsAreNumbers DEF HeldNew, HeldLoad
  <2>4. HeldUpload(t) => i \in Known
    BY <2>1 DEF HeldUpload, Known
  <2> QED
    BY <2>1, <2>2, <2>3, <2>4 DEF Held, HeldChange, HeldReload, HeldRemove, Removing
<1> QED
  BY <1>1, <1>2, <1>3

(* When nothing changes in the lists what is held is the same.             *)
LEMMA SameHeld ==
  ASSUME NEW t \in Ops, Held(t), UNCHANGED <<told, cache, op>>
  PROVE  Held(t)'
<1>1. Known' = Known
  BY DEF Known
<1>2. \A i : Vers(cache, i)' = Vers(cache, i) /\ Right(i)' = Right(i) /\ Said(i)' = Said(i)
  BY DEF Right, Said
<1>3. \A kept : ListsBut(op[t].got, kept) => ListsBut(op[t].got, kept)'
  BY <1>2 DEF ListsBut
<1> QED
  BY <1>1, <1>2, <1>3
     DEF Held, HeldLoad, HeldNew, HeldUpload, HeldChange, HeldReload, HeldRemove, Agrees, OnScreen

LEMMA PickKeeps == ASSUME Orderly, Pick PROVE Orderly'
<1>1. PICK k \in DOMAIN cache : selected' = cache[k]
  BY DEF Pick
<1>2. cache[k] \in EntrySet
  BY DEF Orderly
<1>3. cache[k].id \in Items /\ OnScreen(cache[k].id)
  BY <1>2 DEF EntrySet, OnScreen, Vers
<1>4. UNCHANGED <<told, cache, op>>
  BY DEF Pick
<1>5. Chosen'
  BY <1>1, <1>3, <1>4, OnScreenIsKnown DEF Chosen, Known, Removing, Active
<1>6. \A t \in Ops : Active(t)' => Held(t)'
  BY <1>4, SameHeld DEF Orderly, Active
<1> QED
  BY <1>4, <1>5, <1>6 DEF Orderly, Apart, Alone, Active, Loading, Settled, Agrees, Right, ToldOK

(* A new handler that meets none.                                          *)
LEMMA BeginKeeps ==
  ASSUME Orderly, NEW kind \in {"load", "create", "update", "remove", "resolve", "toggle", "upload"},
         NEW i \in Items \cup {Nothing}, Begin(kind, i), ~Meets(kind, i),
         IF kind \in {"load", "create", "upload"} THEN i = Nothing ELSE i \in Shown
  PROVE  Orderly'
<1> DEFINE w == [NoOp EXCEPT !.kind = kind, !.id = i,
                             !.at = IF kind = "load" THEN "reload" ELSE "request"]
<1>1. PICK t \in Ops : op[t].at = "none" /\ op' = [op EXCEPT ![t] = w]
  BY DEF Begin
<1>2. /\ w \in OpSet /\ w.kind = kind /\ w.id = i /\ w.got = Nothing
      /\ w.at = IF kind = "load" THEN "reload" ELSE "request"
  BY DEF NoOp, OpSet
<1> HIDE DEF w
<1>3. /\ op' \in [Ops -> OpSet] /\ op'[t] = w /\ \A u \in Ops : u # t => op'[u] = op[u]
      /\ UNCHANGED <<told, cache, selected>>
  BY <1>1, <1>2 DEF Orderly, Begin
<1>4. ~Active(t) /\ Active(t)' /\ \A u \in Ops : u # t => (Active(u)' <=> Active(u))
  BY <1>1, <1>2, <1>3 DEF Active
<1>5. \A u \in Ops : Active(u) => /\ ~Alone(u) /\ op[u].kind # "load"
                                  /\ kind \notin {"load", "resolve", "toggle"}
                                  /\ i = Nothing \/ op[u].id # i
  BY DEF Meets, Alone
<1>6. ~Loading
  <2>1. \A u \in Ops : op[u].at = "reload" => Active(u) /\ Alone(u)
    BY DEF Orderly, Held, HeldLoad, HeldNew, HeldUpload, HeldChange, HeldReload, HeldRemove, Active, Alone
  <2> QED
    BY <1>5, <2>1 DEF Loading
<1>7. \A l \in Items : Settled(l) => Agrees(l)
  BY <1>6 DEF Orderly
<1>8. i \in Items => Settled(i) /\ Agrees(i)
  BY <1>5, <1>7, ItemsAreNumbers DEF Settled
<1>9. Held(t)'
  <2>1. CASE kind = "load"
    <3>1. \A l \in Items : Settled(l)
      BY <2>1, <1>5 DEF Settled
    <3>2. \A l \in Items : OnScreen(l) => l \in Known
      BY <3>1, <1>7 DEF Agrees, OnScreen, Right, Known
    <3>3. (\A l \in Items : OnScreen(l) => l \in Known)'
      BY <3>2, <1>3 DEF OnScreen, Known
    <3> QED
      BY <3>3, <2>1, <1>2, <1>3 DEF Held, HeldLoad
  <2>2. CASE kind \in {"create", "upload"}
    BY <2>2, <1>2, <1>3 DEF Held, HeldNew
  <2>3. CASE kind \in {"update", "remove", "resolve", "toggle"}
    <3>1. PICK k \in DOMAIN cache : cache[k].id = i
      BY <2>3 DEF Shown
    <3>2. i \in Items /\ OnScreen(i)
      <4>1. cache[k] \in EntrySet
        BY <3>1 DEF Orderly
      <4> QED
        BY <3>1, <4>1 DEF OnScreen, Vers, EntrySet
    <3>3. Agrees(i) /\ i \in Known
      BY <3>2, <1>8 DEF Agrees, OnScreen, Right, Known
    <3>4. Agrees(i)' /\ i \in Known' /\ OnScreen(i)'
      BY <3>2, <3>3, <1>3 DEF Agrees, OnScreen, Right, Known
    <3>5. op'[t].kind = kind /\ op'[t].id = i /\ op'[t].got = Nothing /\ op'[t].at = "request"
      BY <1>2, <1>3, <2>3
    <3> QED
      BY <3>2, <3>4, <3>5, <2>3 DEF Held, HeldChange, HeldRemove
  <2> QED
    BY <2>1, <2>2, <2>3
<1>10. ASSUME NEW u \in Ops, Active(u)' PROVE Held(u)'
  <2>1. CASE u = t
    BY <2>1, <1>9
  <2>2. CASE u # t
    <3>1. Active(u) /\ Held(u) /\ ~Alone(u) /\ op'[u] = op[u]
      BY <2>2, <1>3, <1>4, <1>5, <1>10 DEF Orderly
    <3>2. \A l \in Items : told'[l] = told[l] /\ Vers(cache, l)' = Vers(cache, l)
      BY <1>3
    <3> QED
      BY <3>1, <3>2, HeldStays
  <2> QED
    BY <2>1, <2>2
<1>11. Apart'
  <2> SUFFICES ASSUME NEW u \in Ops, NEW v \in Ops, u # v, Active(u)', Active(v)'
               PROVE  ~Alone(u)' /\ (op'[u].id = Nothing \/ op'[u].id # op'[v].id)
    BY DEF Apart
  <2>1. CASE u # t /\ v # t
    BY <2>1, <1>3, <1>4 DEF Orderly, Apart, Alone
  <2>2. CASE u = t
    BY <2>2, <1>2, <1>3, <1>4, <1>5 DEF Alone
  <2>3. CASE v = t
    BY <2>3, <1>2, <1>3, <1>4, <1>5 DEF Alone
  <2> QED
    BY <2>1, <2>2, <2>3
<1>12. ASSUME NEW l \in Items, Settled(l)' PROVE Agrees(l)'
  <2>1. Settled(l)
    BY <1>3, <1>4, <1>12 DEF Settled
  <2> QED
    BY <2>1, <1>7, <1>3 DEF Agrees, Right
<1>13. Chosen'
  <2>1. ASSUME NEW u \in Ops, NEW l, Removing(u, l) PROVE Removing(u, l)'
    BY <2>1, <1>3, <1>4 DEF Removing
  <2> QED
    BY <2>1, <1>3 DEF Chosen, Orderly, Known
<1> QED
  BY <1>3, <1>10, <1>11, <1>12, <1>13 DEF Orderly, ToldOK

(* What is known of a handler from where it waits.                         *)
LEMMA WhatIsHeld ==
  ASSUME Orderly, NEW t \in Ops, Active(t)
  PROVE  /\ op[t] \in OpSet /\ Held(t)
         /\ op[t].at = "poll" => HeldUpload(t)
         /\ op[t].at = "request" /\ op[t].kind \in {"create", "upload"} => HeldNew(t)
         /\ op[t].at = "request" /\ op[t].kind \in {"update", "resolve", "toggle"} => HeldChange(t)
         /\ op[t].at = "request" /\ op[t].kind = "remove" => HeldRemove(t)
         /\ op[t].at = "reload" => HeldLoad(t) \/ HeldReload(t)
         /\ HeldLoad(t) \/ HeldReload(t) => Alone(t)
         /\ op[t].id \in Items => \A u \in Ops : (u # t /\ Active(u)) => op[u].id # op[t].id
         /\ op[t].id \in Items \cup {Nothing}
         /\ op[t].kind = "load" => HeldLoad(t)
<1>1. Held(t) /\ op[t] \in OpSet
  BY DEF Orderly
<1>2. op[t].id \in Items => \A u \in Ops : (u # t /\ Active(u)) => op[u].id # op[t].id
  BY ItemsAreNumbers DEF Orderly, Apart
<1>3. op[t].id \in Items \cup {Nothing}
  BY <1>1 DEF OpSet
<1> QED
  BY <1>1, <1>2, <1>3
     DEF Held, HeldLoad, HeldNew, HeldUpload, HeldChange, HeldReload, HeldRemove, Alone

(* A handler that ends holds nothing.                                      *)
LEMMA EndIs ==
  ASSUME NEW t \in Ops, op \in [Ops -> OpSet], End(t)
  PROVE  \E w \in OpSet : /\ op' = [op EXCEPT ![t] = w] /\ op'[t] = w /\ w.at = "done"
                          /\ ~Active(t)'
<1> DEFINE w == [NoOp EXCEPT !.kind = op[t].kind, !.at = "done"]
<1>1. w \in OpSet /\ w.at = "done"
  BY DEF NoOp, OpSet
<1>2. op' = [op EXCEPT ![t] = w]
  BY DEF End
<1> HIDE DEF w
<1>3. op'[t] = w
  BY <1>2
<1> QED
  BY <1>1, <1>2, <1>3 DEF Active

LEMMA GotIs ==
  ASSUME NEW t \in Ops, op \in [Ops -> OpSet], NEW value, Got(t, value),
         value \in {Nothing, "gone"} \cup EntrySet \cup Seq(EntrySet)
  PROVE  \E w \in OpSet : /\ op' = [op EXCEPT ![t] = w] /\ op'[t] = w
                          /\ w.kind = op[t].kind /\ w.id = op[t].id /\ w.at = op[t].at
                          /\ w.got = value /\ w.polls = op[t].polls
<1> DEFINE gots == {Nothing, "gone"} \cup EntrySet \cup Seq(EntrySet)
           w == [op[t] EXCEPT !.got = value]
<1>0. value \in gots /\ op[t] \in OpSet
  OBVIOUS
<1>00. OpSet = [kind : {Nothing, "load", "create", "update", "remove", "resolve", "toggle", "upload"},
   id : Items \cup {Nothing}, at : {"none", "request", "reload", "poll", "done"},
   got : gots, polls : Nat]
  BY DEF OpSet
<1> HIDE DEF gots
<1>1. w \in OpSet /\ w.got = value /\ w.kind = op[t].kind /\ w.id = op[t].id
      /\ w.at = op[t].at /\ w.polls = op[t].polls
  BY <1>0, <1>00
<1>2. op' = [op EXCEPT ![t] = w]
  BY DEF Got
<1> HIDE DEF w
<1> QED
  BY <1>1, <1>2

(* Steps of the handlers that leave the copy alone.                        *)
LEMMA ServeListKeeps == ASSUME Orderly, InStep, NEW t \in Ops, ServeList(t) PROVE Orderly'
<1>0. Active(t) /\ op[t].got = Nothing /\ UNCHANGED <<cache, selected>>
  BY DEF ServeList, Active
<1>00. /\ told \in [Items -> Int] /\ cache \in Seq(EntrySet) /\ Distinct(cache)
       /\ op \in [Ops -> OpSet] /\ op[t].got # "gone"
       /\ cache' \in Seq(EntrySet) /\ Distinct(cache)'
       /\ \A i : Vers(cache, i)' = Vers(cache, i)
       /\ stored \in [Items -> Int] /\ \A i \in Items : Linked(i)
       /\ Present = {i \in Items : stored[i] > 0}
  BY <1>0, ItemsAreNumbers DEF Orderly, ToldOK, InStep, Present
<1>1. CASE op[t].at = "reload" /\ Got(t, Answer) /\ TellAll(t) /\ UNCHANGED stored
  <2> DEFINE kept == KeptOf(op[t])
  <2>1. /\ Answer \in Seq(EntrySet) /\ Distinct(Answer)
        /\ \A i \in Items : Vers(Answer, i) = IF stored[i] > 0 THEN {stored[i]} ELSE {}
    BY <1>00, AnswerLists
  <2>2. PICK w \in OpSet : /\ op' = [op EXCEPT ![t] = w] /\ op'[t] = w
                           /\ w.kind = op[t].kind /\ w.id = op[t].id /\ w.at = op[t].at
                           /\ w.got = Answer /\ w.polls = op[t].polls
    BY <1>1, <1>00, <2>1, GotIs
  <2>3. told' = [i \in Items |-> IF i \in kept THEN told[i] ELSE stored[i]]
    BY <1>1 DEF TellAll, KeptOf
  <2>4. HeldLoad(t) \/ HeldReload(t)
    BY <1>0, <1>1, WhatIsHeld
  <2>5. kept \subseteq Known
    BY <2>4 DEF HeldLoad, HeldReload, KeptOf
  <2> HIDE DEF kept
  <2>6. /\ \A i \in Known : stored[i] > 0
        /\ \A i \in Known : i \in Known'
        /\ told' \in [Items -> Int]
    BY <1>00, <2>3 DEF Known, Linked
  <2>7. ListsBut(w.got, kept)'
    <3>1. \A i \in Items : IF i \in kept THEN Vers(Answer, i) # {} ELSE Vers(Answer, i) = Right(i)'
      BY <2>1, <2>3, <2>5, <2>6 DEF Right
    <3>2. kept' = kept
      BY <2>2 DEF kept, KeptOf
    <3> QED
      BY <2>1, <2>2, <3>1, <3>2 DEF ListsBut
  <2>8. HeldLoad(t) => HeldLoad(t)'
    <3> SUFFICES ASSUME HeldLoad(t) PROVE HeldLoad(t)'
      OBVIOUS
    <3>1. kept' = {}
      BY <2>2 DEF kept, KeptOf, HeldLoad
    <3>2. ListsBut(op[t].got, {})'
      BY <2>2, <2>7, <3>1 DEF ListsBut
    <3> QED
      BY <2>2, <2>6, <3>2, <1>00 DEF HeldLoad, OnScreen
  <2>9. HeldReload(t) => HeldReload(t)'
    <3> SUFFICES ASSUME HeldReload(t) PROVE HeldReload(t)'
      OBVIOUS
    <3>1. op[t].id \in Known /\ op[t].id \in Items
      BY DEF HeldReload, Known
    <3>2. op[t].kind = "resolve" => told'[op[t].id] = told[op[t].id]
      BY <2>3, <3>1 DEF kept, KeptOf
    <3>4. KeptOf(op'[t]) = kept
      BY <2>2 DEF KeptOf, kept
    <3>5. ListsBut(op[t].got, KeptOf(op[t]))'
      <4>1. kept' = kept
        BY <3>4 DEF kept
      <4> QED
        BY <2>2, <2>7, <3>4, <4>1 DEF ListsBut
    <3> QED
      BY <2>2, <2>6, <3>1, <3>2, <3>5, <1>00 DEF HeldReload, OnScreen
  <2>10. Held(t)' /\ Active(t)'
    BY <2>2, <2>4, <2>8, <2>9, <1>0, <1>1 DEF Held, Active
  <2>11. \A u \in Ops : u # t => ~Active(u) /\ op'[u] = op[u]
    BY <1>0, <2>2, <2>4, WhatIsHeld DEF Orderly, Apart
  <2>12. Apart' /\ Loading' /\ \A u \in Ops : Active(u)' => Held(u)'
    BY <2>2, <2>10, <2>11, <1>1 DEF Apart, Loading, Active
  <2>13. Chosen'
    BY <2>2, <2>6, <1>0, <1>00, ChosenStays
  <2>14. op' \in [Ops -> OpSet]
    BY <2>2, <1>00
  <2> QED
    BY <2>6, <2>12, <2>13, <2>14, <1>00 DEF Orderly, ToldOK
<1>2. ASSUME op[t].at = "request", op[t].kind \in {"create", "upload"}, NEW i \in Items,
             stored[i] = 0, stored' = [stored EXCEPT ![i] = 1], Tell(i),
             op' = [op EXCEPT ![t].got = [id |-> i, ver |-> 1], ![t].id = i]
      PROVE  Orderly'
  <2> DEFINE e == [id |-> i, ver |-> 1]
             w == [op[t] EXCEPT !.got = e, !.id = i]
  <2>0. told[i] = 0 /\ told' = [told EXCEPT ![i] = 1]
    BY <1>2, <1>00 DEF Tell, Linked
  <2>1. e \in EntrySet /\ e.id = i /\ e.ver = 1
    BY <1>2 DEF EntrySet
  <2>2. op[t] \in OpSet
    BY <1>00
  <2> HIDE DEF e
  <2>3. /\ w \in OpSet /\ w.kind = op[t].kind /\ w.id = i /\ w.at = op[t].at /\ w.got = e
    BY <2>1, <2>2 DEF OpSet
  <2>4. op' = [op EXCEPT ![t] = w]
    BY <1>2 DEF e
  <2> HIDE DEF w
  <2>5. op'[t] = w /\ Active(t)'
    BY <2>3, <2>4, <1>00, <1>0 DEF Active
  <2>6. /\ told' \in [Items -> Int] /\ told'[i] = 1
        /\ \A j \in Items : j # i => told'[j] = told[j]
    BY <2>0, <1>00
  <2>7. op[t].id = Nothing
    <3>1. HeldNew(t)
      BY <1>0, <1>2, WhatIsHeld
    <3>2. ASSUME op[t].id \in Items, op[t].got = Said(op[t].id), told[op[t].id] = 1 PROVE FALSE
      <4>1. Said(op[t].id) \in EntrySet
        BY <3>2 DEF Said, EntrySet
      <4> QED
        BY <4>1, <3>2, <1>0, ItemsAreNumbers
    <3> QED
      BY <3>1, <3>2 DEF HeldNew
  <2>8. \A u \in Ops : Active(u) => op[u].id # i
    BY <2>0, WhatIsHeld, HeldExists
  <2>9. ~OnScreen(i)
    <3>1. ~Loading
      <4> SUFFICES ASSUME NEW u \in Ops, op[u].at = "reload" PROVE FALSE
        BY DEF Loading
      <4>1. u # t /\ Active(u) /\ Alone(u)
        BY <1>2, WhatIsHeld DEF Active
      <4> QED
        BY <4>1, <1>0 DEF Orderly, Apart
    <3>2. Settled(i)
      BY <2>8 DEF Settled
    <3> QED
      BY <3>1, <3>2, <2>0 DEF Orderly, Agrees, OnScreen, Right
  <2>10. Held(t)'
    <3>1. Said(i)' = e
      BY <2>6 DEF Said, e
    <3> QED
      BY <3>1, <2>3, <2>5, <2>6, <2>9, <1>00, <1>2 DEF Held, HeldNew, OnScreen
  <2>11. Chosen'
    <3>1. \A j \in Known : j \in Known'
      BY <2>0, <2>6 DEF Known
    <3> QED
      BY <3>1, <2>3, <2>4, <1>0, <1>00, ChosenStays
  <2>12. \A j \in Items : j # i => told'[j] = told[j] /\ Vers(cache, j)' = Vers(cache, j)
    BY <2>6, <1>00
  <2>13. \A u \in Ops : (u # t /\ Active(u)) => op[u].id # i \/ i = Nothing
    BY <2>8
  <2>14. ToldOK'
    BY <2>6 DEF ToldOK
  <2>19. op[t].at # "reload"
    BY <1>2
  <2>20. i \in Items \cup {Nothing} /\ op[t].id \in {i, Nothing}
    BY <2>7
  <2>21. Active(t)' => Held(t)' /\ w.kind = op[t].kind /\ w.id = i
    BY <2>3, <2>5, <2>10
  <2>22. ~Active(t)' => (i \in Items => Agrees(i)')
    BY <2>5
  <2>23. cache' \in Seq(EntrySet) /\ Distinct(cache)' /\ Active(t) /\ op' = [op EXCEPT ![t] = w]
    BY <2>3, <2>4, <1>0, <1>00
  <2> QED
    BY <2>3, <2>11, <2>12, <2>13, <2>14, <2>19, <2>20, <2>21, <2>22, <2>23, StepOf
<1>3. CASE /\ op[t].at = "request" /\ op[t].kind \in {"update", "resolve", "toggle"}
           /\ op[t].id \in Present
           /\ stored' = [stored EXCEPT ![op[t].id] = @ + 1]
           /\ Tell(op[t].id)
           /\ Got(t, [id |-> op[t].id, ver |-> stored[op[t].id] + 1])
  <2>1. PICK i \in Items : op[t].id = i /\ stored[i] > 0 /\ stored[i] \in Nat
    BY <1>3, <1>00
  <2>00. stored'[i] = stored[i] + 1 /\ told' = [told EXCEPT ![i] = stored'[i]]
    BY <1>3, <1>00, <2>1 DEF Tell
  <2> DEFINE e == [id |-> i, ver |-> stored[i] + 1]
  <2>2. e \in EntrySet
    BY <2>1 DEF EntrySet
  <2> HIDE DEF e
  <2>3. PICK w \in OpSet : /\ op' = [op EXCEPT ![t] = w] /\ op'[t] = w
                           /\ w.kind = op[t].kind /\ w.id = op[t].id /\ w.at = op[t].at
                           /\ w.got = e /\ w.polls = op[t].polls
    BY <1>3, <1>00, <2>1, <2>2, GotIs DEF e
  <2>4. /\ told' \in [Items -> Int] /\ told'[i] = stored[i] + 1 /\ i \in Known'
        /\ \A j \in Items : j # i => told'[j] = told[j]
    BY <1>00, <2>00, <2>1 DEF Known
  <2>5. OnScreen(i)
    BY <2>1, <1>0, <1>3, WhatIsHeld DEF HeldChange
  <2>6. Held(t)' /\ Active(t)'
    <3>1. Said(i)' = e
      BY <2>4, <2>1 DEF Said, e
    <3> QED
      BY <3>1, <2>1, <2>3, <2>4, <2>5, <1>00, <1>3 DEF Held, HeldChange, OnScreen, Active
  <2>7. Chosen'
    BY <2>3, <2>4, <1>0, <1>00, ChosenStays DEF Known
  <2>8. \A u \in Ops : (u # t /\ Active(u)) => op[u].id # i \/ i = Nothing
    BY <1>0, <2>1, WhatIsHeld
  <2>9. \A j \in Items : j # i => told'[j] = told[j] /\ Vers(cache, j)' = Vers(cache, j)
    BY <2>4, <1>00
  <2>10. ToldOK'
    BY <2>4 DEF ToldOK
  <2>19. op[t].at # "reload"
    BY <1>3
  <2>20. i \in Items \cup {Nothing} /\ op[t].id \in {i, Nothing}
    BY <2>1
  <2>21. Active(t)' => Held(t)' /\ w.kind = op[t].kind /\ w.id = i
    BY <2>1, <2>3, <2>6
  <2>22. ~Active(t)' => (i \in Items => Agrees(i)')
    BY <2>6
  <2>23. cache' \in Seq(EntrySet) /\ Distinct(cache)' /\ Active(t) /\ op' = [op EXCEPT ![t] = w]
    BY <2>3, <1>0, <1>00
  <2> QED
    BY <2>7, <2>8, <2>9, <2>10, <2>19, <2>20, <2>21, <2>22, <2>23, StepOf
<1>4. CASE /\ op[t].at = "request" /\ op[t].kind = "remove" /\ op[t].id \in Present
           /\ stored' = [stored EXCEPT ![op[t].id] = -1]
           /\ Tell(op[t].id)
           /\ Got(t, "gone")
  <2>1. PICK i \in Items : op[t].id = i
    BY <1>4, <1>00
  <2>3. PICK w \in OpSet : /\ op' = [op EXCEPT ![t] = w] /\ op'[t] = w
                           /\ w.kind = op[t].kind /\ w.id = op[t].id /\ w.at = op[t].at
                           /\ w.got = "gone" /\ w.polls = op[t].polls
    BY <1>4, <1>00, GotIs
  <2>4. /\ told' \in [Items -> Int] /\ told'[i] = -1
        /\ \A j \in Items : j # i => told'[j] = told[j]
    BY <1>4, <1>00, <2>1 DEF Tell
  <2>5. OnScreen(i)
    BY <2>1, <1>0, <1>4, WhatIsHeld DEF HeldRemove
  <2>6. Held(t)' /\ Active(t)'
    BY <2>1, <2>3, <2>4, <2>5, <1>00, <1>4 DEF Held, HeldRemove, OnScreen, Active
  <2>7. Removing(t, i)'
    BY <2>1, <2>3, <2>6, <1>4 DEF Removing
  <2>8. Chosen'
    BY <2>3, <2>4, <2>7, <1>0, <1>00, ChosenStays DEF Known
  <2>9. \A u \in Ops : (u # t /\ Active(u)) => op[u].id # i \/ i = Nothing
    BY <1>0, <2>1, WhatIsHeld
  <2>10. \A j \in Items : j # i => told'[j] = told[j] /\ Vers(cache, j)' = Vers(cache, j)
    BY <2>4, <1>00
  <2>11. ToldOK'
    BY <2>4 DEF ToldOK
  <2>19. op[t].at # "reload"
    BY <1>4
  <2>20. i \in Items \cup {Nothing} /\ op[t].id \in {i, Nothing}
    BY <2>1
  <2>21. Active(t)' => Held(t)' /\ w.kind = op[t].kind /\ w.id = i
    BY <2>1, <2>3, <2>6
  <2>22. ~Active(t)' => (i \in Items => Agrees(i)')
    BY <2>6
  <2>23. cache' \in Seq(EntrySet) /\ Distinct(cache)' /\ Active(t) /\ op' = [op EXCEPT ![t] = w]
    BY <2>3, <1>0, <1>00
  <2> QED
    BY <2>8, <2>9, <2>10, <2>11, <2>19, <2>20, <2>21, <2>22, <2>23, StepOf
<1>5. CASE op[t].at = "poll" /\ Got(t, Entry(op[t].id)) /\ UNCHANGED stored
           /\ Tell(op[t].id)
  <2>1. PICK i \in Items : op[t].id = i /\ i \in Known /\ OnScreen(i) /\ op[t].kind = "upload"
    BY <1>0, <1>5, WhatIsHeld DEF HeldUpload, Known
  <2>00. stored[i] > 0 /\ told' = [told EXCEPT ![i] = stored[i]]
    BY <2>1, <1>5, <1>00 DEF Tell, Linked, Known
  <2> DEFINE e == Entry(i)
  <2>2. e \in EntrySet /\ e.id = i /\ e.ver = stored[i]
    BY <2>1, <2>00, <1>00 DEF Entry, EntrySet
  <2>5. Got(t, e)
    BY <1>5, <2>1
  <2> HIDE DEF e
  <2>3. PICK w \in OpSet : /\ op' = [op EXCEPT ![t] = w] /\ op'[t] = w
                           /\ w.kind = op[t].kind /\ w.id = op[t].id /\ w.at = op[t].at
                           /\ w.got = e /\ w.polls = op[t].polls
    BY <2>2, <2>5, <1>00, GotIs
  <2>4. /\ told' \in [Items -> Int] /\ told'[i] = stored[i] /\ i \in Known'
        /\ \A j \in Items : j # i => told'[j] = told[j]
    BY <1>00, <2>00, <2>1 DEF Known
  <2>6. Held(t)' /\ Active(t)'
    <3>1. Said(i)' = e
      BY <2>2, <2>4 DEF Said, e, Entry
    <3>2. HeldUpload(t)'
      BY <2>1, <2>2, <2>3, <2>4, <3>1, <1>00, <1>5 DEF HeldUpload, OnScreen
    <3> QED
      BY <3>2 DEF Held, HeldUpload, Active
  <2>8. Chosen'
    BY <2>3, <2>4, <1>0, <1>00, ChosenStays DEF Known
  <2>9. \A u \in Ops : (u # t /\ Active(u)) => op[u].id # i \/ i = Nothing
    BY <1>0, <2>1, WhatIsHeld
  <2>10. \A j \in Items : j # i => told'[j] = told[j] /\ Vers(cache, j)' = Vers(cache, j)
    BY <2>4, <1>00
  <2>11. ToldOK'
    BY <2>4 DEF ToldOK
  <2>19. op[t].at # "reload"
    BY <1>5
  <2>20. i \in Items \cup {Nothing} /\ op[t].id \in {i, Nothing}
    BY <2>1
  <2>21. Active(t)' => Held(t)' /\ w.kind = op[t].kind /\ w.id = i
    BY <2>1, <2>3, <2>6
  <2>22. ~Active(t)' => (i \in Items => Agrees(i)')
    BY <2>6
  <2>23. cache' \in Seq(EntrySet) /\ Distinct(cache)' /\ Active(t) /\ op' = [op EXCEPT ![t] = w]
    BY <2>3, <1>0, <1>00
  <2> QED
    BY <2>8, <2>9, <2>10, <2>11, <2>19, <2>20, <2>21, <2>22, <2>23, StepOf
<1> QED
  BY <1>1, <1>2, <1>3, <1>4, <1>5 DEF ServeList

(* A step the client does not hear of.                                     *)
LEMMA UnheardKeeps ==
  ASSUME Orderly, UNCHANGED <<told, cache, selected, op>>
  PROVE  Orderly'
<1>1. \A t \in Ops : Active(t)' => Held(t)'
  BY SameHeld DEF Orderly, Active
<1>2. Chosen'
  BY DEF Orderly, Chosen, Removing, Active, Known
<1> QED
  BY <1>1, <1>2 DEF Orderly, Apart, Alone, Active, Loading, Settled, Agrees, Right, ToldOK

(* The list arrives.                                                       *)
LEMMA LoadedKeeps == ASSUME Orderly, NEW t \in Ops, Loaded(t) PROVE Orderly'
<1>1. /\ Active(t) /\ op[t].at = "reload" /\ op[t].got # Nothing /\ End(t)
      /\ op \in [Ops -> OpSet] /\ UNCHANGED <<told, selected>>
  BY DEF Loaded, Active, Orderly
<1>2. HeldLoad(t) \/ HeldReload(t)
  BY <1>1, WhatIsHeld
<1>3. Alone(t) /\ ListsBut(op[t].got, KeptOf(op[t]))
  BY <1>1, <1>2 DEF HeldLoad, HeldReload, Alone, KeptOf
<1>4. PICK w \in OpSet : /\ op' = [op EXCEPT ![t] = w] /\ op'[t] = w /\ w.at = "done"
                         /\ ~Active(t)'
  BY <1>1, EndIs
<1>5. Lists(cache')
  <2>1. CASE op[t].kind # "resolve"
    BY <2>1, <1>3 DEF Loaded, Lists, ListsBut, KeptOf
  <2>2. CASE op[t].kind = "resolve"
    <3> DEFINE list == op[t].got
    <3>1. PICK i \in Items : /\ i = op[t].id /\ i \in Known /\ told[i] \in Nat /\ told[i] > 0
                             /\ op[t].polls = told[i]
      BY <1>2, <2>2 DEF HeldLoad, HeldReload, Known, Orderly, ToldOK
    <3>2. PICK e \in EntrySet : e = [id |-> i, ver |-> told[i]]
      BY <3>1 DEF EntrySet
    <3>3. cache' = Replaced(list, e)
      BY <2>2, <3>1, <3>2 DEF Loaded
    <3>4. /\ list \in Seq(EntrySet) /\ Distinct(list) /\ Vers(list, i) # {}
          /\ \A j \in Items : j # i => Vers(list, j) = Right(j)
      BY <1>3, <2>2, <3>1 DEF ListsBut, KeptOf
    <3>5. e.id = i /\ e.ver = told[i] /\ Right(i) = {e.ver}
      BY <3>1, <3>2 DEF Right
    <3> HIDE DEF list
    <3>6. /\ Replaced(list, e) \in Seq(EntrySet) /\ Distinct(Replaced(list, e))
          /\ Vers(Replaced(list, e), i) = {e.ver}
          /\ \A j \in Items : j # i => Vers(Replaced(list, e), j) = Vers(list, j)
      BY <3>4, <3>5, ReplacedPatches
    <3> QED
      BY <3>3, <3>4, <3>5, <3>6 DEF Lists
  <2> QED
    BY <2>1, <2>2
<1>6. Lists(cache)'
  BY <1>1, <1>5 DEF Lists, Right
<1>7. selected # Nothing => selected.id \in Known
  <2>1. \A u \in Ops : ~Removing(u, selected.id)
    <3>1. \A u \in Ops : u # t => ~Active(u)
      BY <1>1, <1>3 DEF Orderly, Apart
    <3> QED
      BY <3>1, <1>3 DEF Removing, Alone
  <2> QED
    BY <2>1 DEF Orderly, Chosen
<1> QED
  BY <1>1, <1>3, <1>4, <1>6, <1>7, LastStep

(* A patch: the copy is changed at the item of the handler, which ends or  *)
(* goes on.                                                                *)
LEMMA PatchKeeps ==
  ASSUME Orderly, NEW t \in Ops, Active(t), ~Alone(t), NEW i \in Items, op[t].id = i,
         NEW w \in OpSet, op' = [op EXCEPT ![t] = w],
         told' = told, cache' \in Seq(EntrySet), Distinct(cache'),
         \A j \in Items : j # i => Vers(cache', j) = Vers(cache, j),
         \/ w.at \in {"none", "done"} /\ Vers(cache', i) = Right(i)
         \/ Held(t)' /\ w.kind = op[t].kind /\ w.id = i,
         Chosen'
  PROVE  Orderly'
<1>1. op'[t] = w /\ ToldOK' /\ Right(i)' = Right(i)
  BY DEF Orderly, ToldOK, Right
<1>2. \A j \in Items : j # i => told'[j] = told[j] /\ Vers(cache, j)' = Vers(cache, j)
  OBVIOUS
<1>3. \A u \in Ops : (u # t /\ Active(u)) => op[u].id # i \/ i = Nothing
  BY WhatIsHeld
<1>4. w.at \in {"none", "done"} => ~Active(t)'
  BY <1>1 DEF Active
<1>5. Active(t)' => Held(t)' /\ w.kind = op[t].kind /\ w.id = i
  BY <1>4
<1>6. ~Active(t)' => (i \in Items => Agrees(i)')
  <2>1. Held(t)' /\ w.kind = op[t].kind /\ w.id = i => Active(t)'
    BY DEF Held, HeldLoad, HeldNew, HeldUpload, HeldChange, HeldReload, HeldRemove, Active
  <2> QED
    BY <2>1, <1>1 DEF Agrees, Alone
<1>7. i \in Items \cup {Nothing} /\ op[t].id \in {i, Nothing} /\ Distinct(cache)'
  OBVIOUS
<1>8. op[t].at # "reload"
  BY WhatIsHeld
<1> QED
  BY <1>1, <1>2, <1>3, <1>5, <1>6, <1>7, <1>8, StepOf

(* An item that is created is put at the end.                              *)
LEMMA AddKeeps ==
  ASSUME Orderly, NEW t \in Ops, Active(t), HeldNew(t), op[t].got # Nothing
  PROVE  \E i \in Items :
           /\ op[t].id = i /\ told[i] = 1 /\ i \in Known
           /\ op[t].got.id = i /\ op[t].got.ver = told[i]
           /\ op[t].got \in EntrySet
           /\ Append(cache, op[t].got) \in Seq(EntrySet) /\ Distinct(Append(cache, op[t].got))
           /\ \A j \in Items : j # i => Vers(Append(cache, op[t].got), j) = Vers(cache, j)
           /\ Vers(Append(cache, op[t].got), i) = Right(i)
<1>1. PICK i \in Items : /\ op[t].id = i /\ op[t].got = Said(i) /\ told[i] = 1
                         /\ Vers(cache, i) = {}
  BY DEF HeldNew, OnScreen
<1>2. PICK e \in EntrySet : e = op[t].got /\ e.id = i /\ e.ver = told[i]
  BY <1>1 DEF Said, EntrySet
<1>3. cache \in Seq(EntrySet) /\ Distinct(cache)
  BY DEF Orderly
<1>4. /\ Append(cache, e) \in Seq(EntrySet) /\ Distinct(Append(cache, e))
      /\ Vers(Append(cache, e), i) = {e.ver}
      /\ \A j \in Items : j # i => Vers(Append(cache, e), j) = Vers(cache, j)
  BY <1>1, <1>2, <1>3, AppendAdds
<1>5. Right(i) = {e.ver} /\ i \in Known
  BY <1>1, <1>2 DEF Right, Known
<1> QED
  BY <1>1, <1>2, <1>4, <1>5

LEMMA CreatedKeeps == ASSUME Orderly, NEW t \in Ops, Created(t) PROVE Orderly'
<1>1. /\ Active(t) /\ ~Alone(t) /\ HeldNew(t) /\ op[t].got # Nothing /\ End(t)
      /\ op \in [Ops -> OpSet] /\ UNCHANGED told
  BY WhatIsHeld DEF Created, Active, Orderly, Alone
<1>2. PICK i \in Items :
        /\ op[t].id = i /\ i \in Known /\ op[t].got.id = i /\ op[t].got \in EntrySet
        /\ cache' \in Seq(EntrySet) /\ Distinct(cache')
        /\ \A j \in Items : j # i => Vers(cache', j) = Vers(cache, j)
        /\ Vers(cache', i) = Right(i)
  BY <1>1, AddKeeps DEF Created
<1>3. PICK w \in OpSet : op' = [op EXCEPT ![t] = w] /\ w.at = "done"
  BY <1>1, EndIs
<1>4. Chosen'
  BY <1>1, <1>2 DEF Created, Chosen, Known
<1> QED
  BY <1>1, <1>2, <1>3, <1>4, PatchKeeps

LEMMA AcceptedKeeps == ASSUME Orderly, NEW t \in Ops, Accepted(t) PROVE Orderly'
<1>1. /\ Active(t) /\ ~Alone(t) /\ HeldNew(t) /\ op[t].got # Nothing
      /\ op \in [Ops -> OpSet] /\ UNCHANGED <<told, selected>>
  BY WhatIsHeld DEF Accepted, Active, Orderly, Alone
<1>2. PICK i \in Items :
        /\ op[t].id = i /\ told[i] = 1 /\ op[t].kind # "remove"
        /\ cache' \in Seq(EntrySet) /\ Distinct(cache')
        /\ \A j \in Items : j # i => Vers(cache', j) = Vers(cache, j)
        /\ Vers(cache', i) = Right(i)
  BY <1>1, AddKeeps DEF Accepted, HeldNew
<1> DEFINE w == [op[t] EXCEPT !.at = "poll", !.got = Nothing]
<1>3. w \in OpSet /\ w.at = "poll" /\ w.got = Nothing /\ w.kind = op[t].kind /\ w.id = op[t].id
  BY <1>1 DEF OpSet
<1>4. op' = [op EXCEPT ![t] = w]
  BY DEF Accepted
<1> HIDE DEF w
<1>5. op'[t] = w
  BY <1>1, <1>4
<1>6. Held(t)'
  <2>1. Vers(cache', i) # {}
    BY <1>2 DEF Right
  <2>2. HeldUpload(t)'
    BY <1>1, <1>2, <1>3, <1>5, <2>1 DEF HeldUpload, OnScreen, Accepted, HeldNew, Known
  <2> QED
    BY <2>2 DEF Held
<1>7. Chosen'
  BY <1>1, <1>2, <1>3, <1>4, ChosenStays DEF Known
<1> QED
  BY <1>1, <1>2, <1>3, <1>4, <1>6, <1>7, PatchKeeps

(* A changed item takes the place of the old one.                          *)
LEMMA ChangeKeeps ==
  ASSUME Orderly, NEW i \in Items, NEW e \in EntrySet, e.id = i, e.ver = told[i],
         OnScreen(i), told[i] > 0
  PROVE  /\ Replaced(cache, e) \in Seq(EntrySet) /\ Distinct(Replaced(cache, e))
         /\ \A j \in Items : j # i => Vers(Replaced(cache, e), j) = Vers(cache, j)
         /\ Vers(Replaced(cache, e), i) = Right(i)
<1>1. cache \in Seq(EntrySet) /\ Distinct(cache) /\ Right(i) = {e.ver}
  BY DEF Orderly, Right
<1> QED
  BY <1>1, ReplacedPatches DEF OnScreen

LEMMA UpdatedKeeps == ASSUME Orderly, NEW t \in Ops, Updated(t) PROVE Orderly'
<1>1. /\ Active(t) /\ ~Alone(t) /\ HeldChange(t) /\ op[t].got # Nothing /\ End(t)
      /\ op \in [Ops -> OpSet] /\ UNCHANGED told
  BY WhatIsHeld DEF Updated, Active, Orderly, Alone
<1>2. PICK i \in Items : /\ op[t].id = i /\ i \in Known /\ told[i] > 0 /\ told[i] \in Nat
                         /\ OnScreen(i) /\ op[t].got = Said(i)
  BY <1>1 DEF HeldChange, Known, Orderly, ToldOK
<1>3. PICK e \in EntrySet : e = op[t].got /\ e.id = i /\ e.ver = told[i]
  BY <1>2 DEF Said, EntrySet
<1>4. cache' = Replaced(cache, e)
  BY <1>3 DEF Updated
<1>5. /\ cache' \in Seq(EntrySet) /\ Distinct(cache')
      /\ \A j \in Items : j # i => Vers(cache', j) = Vers(cache, j)
      /\ Vers(cache', i) = Right(i)
  BY <1>2, <1>3, <1>4, ChangeKeeps
<1>6. PICK w \in OpSet : op' = [op EXCEPT ![t] = w] /\ w.at = "done"
  BY <1>1, EndIs
<1>7. Chosen'
  BY <1>1, <1>2, <1>3 DEF Updated, Chosen, Known
<1> QED
  BY <1>1, <1>2, <1>5, <1>6, <1>7, PatchKeeps

LEMMA RemovedKeeps == ASSUME Orderly, NEW t \in Ops, Removed(t) PROVE Orderly'
<1>1. /\ Active(t) /\ ~Alone(t) /\ HeldRemove(t) /\ op[t].got # Nothing /\ End(t)
      /\ op \in [Ops -> OpSet] /\ UNCHANGED told
  BY WhatIsHeld DEF Removed, Active, Orderly, Alone
<1>2. PICK i \in Items : op[t].id = i /\ told[i] = -1
  BY <1>1 DEF HeldRemove
<1>3. cache \in Seq(EntrySet) /\ Distinct(cache) /\ cache' = Without(cache, i) /\ Right(i) = {}
  BY <1>2 DEF Removed, Orderly, Right
<1>4. /\ cache' \in Seq(EntrySet) /\ Distinct(cache')
      /\ \A j \in Items : j # i => Vers(cache', j) = Vers(cache, j)
      /\ Vers(cache', i) = Right(i)
  BY <1>3, WithoutDrops
<1>5. PICK w \in OpSet : op' = [op EXCEPT ![t] = w] /\ w.at = "done"
  BY <1>1, EndIs
<1>6. Chosen'
  BY DEF Removed, Chosen
<1> QED
  BY <1>1, <1>2, <1>4, <1>5, <1>6, PatchKeeps

LEMMA ReloadKeeps == ASSUME Orderly, NEW t \in Ops, Reload(t) PROVE Orderly'
<1>1. /\ Active(t) /\ HeldChange(t) /\ op[t].got # Nothing
      /\ op \in [Ops -> OpSet] /\ UNCHANGED <<told, cache, selected>>
  BY WhatIsHeld DEF Reload, Active, Orderly
<1>2. PICK i \in Items : /\ op[t].id = i /\ i \in Known /\ told[i] > 0 /\ told[i] \in Nat
                         /\ OnScreen(i) /\ op[t].got = Said(i) /\ op[t].got.ver = told[i]
  BY <1>1 DEF HeldChange, Known, Orderly, ToldOK, Said
<1> DEFINE w == [op[t] EXCEPT !.at = "reload", !.got = Nothing, !.polls = op[t].got.ver]
<1>3. /\ w \in OpSet /\ w.at = "reload" /\ w.got = Nothing /\ w.kind = op[t].kind
      /\ w.id = op[t].id /\ w.polls = told[i]
  BY <1>1, <1>2 DEF OpSet
<1>4. op' = [op EXCEPT ![t] = w]
  BY DEF Reload
<1> HIDE DEF w
<1>5. op'[t] = w
  BY <1>1, <1>4
<1>6. HeldReload(t)'
  <2>1. Alone(t) /\ op[t].at # "reload" /\ ~Removing(t, i)
    BY <1>1 DEF Reload, Alone, HeldChange, Removing
  <2>2. \A u \in Ops : u # t => ~Active(u)
    BY <1>1, <2>1 DEF Orderly, Apart
  <2>3. \A j : \A u \in Ops : ~Removing(u, j)
    BY <2>1, <2>2 DEF Removing, Alone
  <2>4. \A j \in Items : OnScreen(j) => j \in Known
    BY <2>3, OnScreenIsKnown
  <2>5. \A j \in Items : (OnScreen(j) => j \in Known)'
    BY <1>1, <2>4 DEF OnScreen, Known
  <2> QED
    BY <1>1, <1>2, <1>3, <1>5, <2>5 DEF HeldReload, Reload, Known
<1>7. Held(t)' /\ Active(t)'
  BY <1>6 DEF Held, HeldReload, Active
<1>8. op[t].kind # "remove"
  BY <1>1 DEF HeldChange
<1>9. Chosen'
  BY <1>1, <1>3, <1>4, <1>8, ChosenStays DEF Known
<1>10. \A u \in Ops : (u # t /\ Active(u)) => op[u].id # i \/ i = Nothing
  BY <1>1, <1>2, WhatIsHeld
<1>11. \A j \in Items : j # i => told'[j] = told[j] /\ Vers(cache, j)' = Vers(cache, j)
  BY <1>1
<1>12. ToldOK' /\ cache' \in Seq(EntrySet) /\ Distinct(cache)'
  BY <1>1 DEF Orderly, ToldOK
<1>13. Active(t)' => Held(t)' /\ w.kind = op[t].kind /\ w.id = i
  BY <1>2, <1>3, <1>7
<1>14. ~Active(t)' => (i \in Items => Agrees(i)')
  BY <1>7
<1>15. i \in Items \cup {Nothing} /\ op[t].id \in {i, Nothing} /\ op[t].at # "reload"
  BY <1>1, <1>2 DEF HeldChange
<1> QED
  BY <1>1, <1>3, <1>4, <1>9, <1>10, <1>11, <1>12, <1>13, <1>14, <1>15, StepOf

LEMMA PolledKeeps == ASSUME Orderly, lost' = lost, lost \in Nat, NEW t \in Ops, Polled(t) PROVE Orderly'
<1>1. /\ Active(t) /\ ~Alone(t) /\ HeldUpload(t) /\ op[t].got # Nothing
      /\ op \in [Ops -> OpSet] /\ UNCHANGED <<told, selected>>
  BY WhatIsHeld DEF Polled, Active, Orderly, Alone, HeldUpload
<1>2. PICK i \in Items : /\ op[t].id = i /\ OnScreen(i) /\ told[i] > 0 /\ i \in Known
                         /\ op[t].got \in EntrySet /\ op[t].got.id = i
                         /\ op[t].got.ver = told[i]
  BY <1>1 DEF HeldUpload, Known, Said, EntrySet, Orderly, ToldOK
<1>3. op[t].kind # "remove"
  BY <1>1 DEF HeldUpload
<1>4. CASE Ready(op[t].got)
  <2>1. PICK e \in EntrySet : e = op[t].got /\ e.id = i /\ e.ver = told[i]
    BY <1>2, <1>4
  <2>2. cache' = Replaced(cache, e) /\ End(t)
    BY <2>1, <1>4 DEF Polled
  <2>3. /\ cache' \in Seq(EntrySet) /\ Distinct(cache')
        /\ \A j \in Items : j # i => Vers(cache', j) = Vers(cache, j)
        /\ Vers(cache', i) = Right(i)
    BY <1>2, <2>1, <2>2, ChangeKeeps
  <2>4. PICK w \in OpSet : op' = [op EXCEPT ![t] = w] /\ w.at = "done"
    BY <1>1, <2>2, EndIs
  <2>5. Chosen'
    BY <1>1, <1>3, <2>4, ChosenStays DEF Known
  <2> QED
    BY <1>1, <1>2, <2>3, <2>4, <2>5, PatchKeeps
<1>5. CASE ~Ready(op[t].got)
  <2> DEFINE w == [op[t] EXCEPT !.got = Nothing, !.polls = @ + 1]
  <2>1. op[t].polls \in Nat /\ MaxPolls \in Nat
    BY <1>1, ListViewsAssumption DEF OpSet
  <2>0. op[t].polls + 1 < MaxPolls
    <3>1. ~(op[t].polls + 1 >= MaxPolls)
      BY <1>5 DEF Polled
    <3> QED
      BY <3>1, <2>1
  <2>2. UNCHANGED cache /\ op' = [op EXCEPT ![t] = w]
    BY <2>0, <1>5 DEF Polled
  <2>3. w \in OpSet /\ w.at = op[t].at /\ w.got = Nothing /\ w.kind = op[t].kind /\ w.id = op[t].id
    <3> DEFINE v == [op[t] EXCEPT !.got = Nothing]
    <3>1. v \in OpSet /\ v.at = op[t].at /\ v.got = Nothing /\ v.kind = op[t].kind
          /\ v.id = op[t].id /\ v.polls = op[t].polls
      BY <1>1 DEF OpSet
    <3>2. w = [v EXCEPT !.polls = op[t].polls + 1]
      BY <1>1 DEF OpSet
    <3> DEFINE gots == {Nothing, "gone"} \cup EntrySet \cup Seq(EntrySet)
    <3>3. OpSet = [kind : {Nothing, "load", "create", "update", "remove", "resolve", "toggle", "upload"},
                   id : Items \cup {Nothing}, at : {"none", "request", "reload", "poll", "done"},
                   got : gots, polls : Nat]
      BY DEF OpSet
    <3> HIDE DEF v, gots
    <3>4. op[t].polls + 1 \in Nat
      BY <2>1
    <3> HIDE DEF w
    <3> QED
      BY <3>1, <3>2, <3>3, <3>4
  <2> HIDE DEF w
  <2>4. op'[t] = w
    BY <1>1, <2>2
  <2>5. Held(t)'
    <3>1. HeldUpload(t)'
      BY <1>1, <1>2, <2>2, <2>3, <2>4 DEF HeldUpload, OnScreen, Known
    <3> QED
      BY <3>1 DEF Held
  <2>6. Chosen'
    BY <1>1, <1>3, <2>2, <2>3, ChosenStays DEF Known
  <2>7. /\ cache' \in Seq(EntrySet) /\ Distinct(cache')
        /\ \A j \in Items : j # i => Vers(cache', j) = Vers(cache, j)
    BY <2>2 DEF Orderly
  <2> QED
    BY <1>1, <1>2, <2>2, <2>3, <2>5, <2>6, <2>7, PatchKeeps
<1> QED
  BY <1>4, <1>5

(* Refused, a handler leaves the copy as it was.                           *)
LEMMA RefusedKeeps == ASSUME Orderly, NEW t \in Ops, RefusedOp(t) PROVE Orderly'
<1>1. /\ Active(t) /\ op[t].at = "request" /\ op[t].got = Nothing /\ End(t)
      /\ op \in [Ops -> OpSet] /\ UNCHANGED <<told, cache, selected>>
  BY DEF RefusedOp, Active, Orderly
<1>2. /\ Held(t) /\ ~HeldLoad(t) /\ ~HeldUpload(t) /\ ~HeldReload(t)
      /\ op[t].id \in Items \cup {Nothing}
  BY <1>1, WhatIsHeld DEF HeldLoad, HeldUpload, HeldReload
<1>3. op[t].id \in Items => Agrees(op[t].id)
  <2>1. ASSUME op[t].id \in Items, op[t].got = Said(op[t].id), told[op[t].id] \in Nat PROVE FALSE
    <3>1. Said(op[t].id) \in EntrySet
      BY <2>1 DEF Said, EntrySet
    <3> QED
      BY <3>1, <2>1, <1>1, ItemsAreNumbers
  <2>2. HeldNew(t) => op[t].id = Nothing
    BY <2>1 DEF HeldNew
  <2>3. HeldChange(t) => Agrees(op[t].id)
    <3>1. op[t].id \in Known => op[t].id \in Items /\ told[op[t].id] \in Nat
      BY DEF Known, Orderly, ToldOK
    <3> QED
      BY <2>1, <3>1 DEF HeldChange
  <2>4. HeldRemove(t) => Agrees(op[t].id)
    BY <1>1, ItemsAreNumbers DEF HeldRemove
  <2> QED
    BY <1>2, <2>2, <2>3, <2>4, ItemsAreNumbers DEF Held
<1>4. PICK w \in OpSet : op' = [op EXCEPT ![t] = w] /\ w.at = "done" /\ ~Active(t)'
  BY <1>1, EndIs
<1>5. PICK i \in Items \cup {Nothing} : i = op[t].id
  BY <1>2
<1>6. Chosen'
  BY <1>1, <1>4, ItemsAreNumbers, ChosenStays DEF Known
<1>7. \A u \in Ops : (u # t /\ Active(u)) => op[u].id # i \/ i = Nothing
  BY <1>1, <1>5, WhatIsHeld
<1>8. \A j \in Items : j # i => told'[j] = told[j] /\ Vers(cache, j)' = Vers(cache, j)
  BY <1>1
<1>9. ToldOK' /\ cache' \in Seq(EntrySet) /\ Distinct(cache)' /\ op[t].id \in {i, Nothing}
  BY <1>1, <1>5 DEF Orderly, ToldOK
<1>10. (~Active(t)' => (i \in Items => Agrees(i)')) /\ op[t].at # "reload"
  BY <1>1, <1>3, <1>5 DEF Agrees, Right
<1> QED
  BY <1>1, <1>4, <1>6, <1>7, <1>8, <1>9, <1>10, StepOf

(***************************************************************************)
(* What the client was told against what the server holds.                 *)
(***************************************************************************)
LEMMA SameStays ==
  ASSUME InStep, UNCHANGED <<stored, told, unseen>>,
         \A t \in Ops : op[t].at = "poll" => op'[t].at = "poll" /\ op'[t].id = op[t].id
  PROVE  InStep'
BY DEF InStep, Linked, Synced

LEMMA BeginStays ==
  ASSUME InStep, Orderly, NEW kind, NEW i, Begin(kind, i)
  PROVE  InStep'
<1>1. PICK t \in Ops : op[t].at = "none" /\ \E w : op' = [op EXCEPT ![t] = w]
  BY DEF Begin
<1>2. \A u \in Ops : u # t => op'[u] = op[u]
  BY <1>1 DEF Orderly
<1> QED
  BY <1>1, <1>2, SameStays DEF Begin

LEMMA ParsedStays == ASSUME InStep, Orderly, Parsed PROVE InStep'
<1>1. PICK t \in Ops : /\ op[t].at = "poll" /\ stored[op[t].id] = 1
                       /\ stored' = [stored EXCEPT ![op[t].id] = 2]
  BY DEF Parsed
<1>2. PICK i \in Items : op[t].id = i
  BY <1>1, WhatIsHeld DEF HeldUpload, Known, Active
<1>3. /\ stored' \in [Items -> Int] /\ stored'[i] = 2 /\ stored[i] = 1
      /\ \A j \in Items : j # i => stored'[j] = stored[j]
      /\ UNCHANGED <<told, unseen, op>>
  BY <1>1, <1>2 DEF InStep, Parsed
<1>4. \A j \in Items : Linked(j)'
  BY <1>3 DEF InStep, Linked
<1>5. \A j \in Items : j # i => Synced(j)'
  BY <1>3 DEF InStep, Synced
<1>6. Synced(i)'
  BY <1>1, <1>2, <1>3 DEF InStep, Synced
<1> QED
  BY <1>3, <1>4, <1>5, <1>6 DEF InStep

LEMMA ElsewhereStays == ASSUME InStep, Elsewhere PROVE InStep'
<1>1. PICK i \in Items : /\ i \in Present \/ stored[i] = 0
                         /\ stored' = [stored EXCEPT ![i] = @ + 1]
                         /\ unseen' = unseen \cup {i}
  BY DEF Elsewhere
<1>2. /\ stored' \in [Items -> Int] /\ stored'[i] > 0
      /\ \A j \in Items : j # i => stored'[j] = stored[j]
      /\ UNCHANGED <<told, op>>
  BY <1>1 DEF InStep, Elsewhere, Present
<1>3. \A j \in Items : Linked(j)'
  BY <1>2 DEF InStep, Linked
<1>4. \A j \in Items : j # i => Synced(j)'
  BY <1>1, <1>2 DEF InStep, Synced
<1>5. Synced(i)'
  BY <1>1 DEF Synced
<1> QED
  BY <1>2, <1>3, <1>4, <1>5 DEF InStep

(* What the server says of one item is what it holds then.                 *)
LEMMA TellStays ==
  ASSUME InStep, ToldOK, NEW i \in Items, stored' \in [Items -> Int], Tell(i),
         \A j \in Items : j # i => stored'[j] = stored[j],
         \A t \in Ops : op[t].at = "poll" => op'[t].at = "poll" /\ op'[t].id = op[t].id
  PROVE  InStep'
<1>1. told'[i] = stored'[i] /\ \A j \in Items : j # i => told'[j] = told[j]
  BY DEF Tell, ToldOK
<1>2. \A j \in Items : Linked(j)'
  BY <1>1 DEF InStep, Linked
<1>3. Synced(i)'
  BY <1>1 DEF Synced
<1>4. ASSUME NEW j \in Items, j # i PROVE Synced(j)'
  <2>1. told'[j] = told[j] /\ stored'[j] = stored[j] /\ (j \in unseen => j \in unseen')
    BY <1>1, <1>4 DEF Tell
  <2> QED
    BY <2>1 DEF InStep, Synced
<1> QED
  BY <1>2, <1>3, <1>4 DEF InStep

LEMMA ServeListStays == ASSUME InStep, Orderly, NEW t \in Ops, ServeList(t) PROVE InStep'
<1>0. /\ Active(t) /\ ToldOK /\ stored \in [Items -> Int] /\ op \in [Ops -> OpSet]
      /\ Present \subseteq Items
  BY DEF ServeList, Active, Orderly, InStep, Present
<1>1. CASE op[t].at = "reload" /\ Got(t, Answer) /\ TellAll(t) /\ UNCHANGED stored
  <2> DEFINE kept == KeptOf(op[t])
  <2>1. /\ told' = [i \in Items |-> IF i \in kept THEN told[i] ELSE stored[i]]
        /\ unseen' = unseen \cap kept
    BY <1>1 DEF TellAll, KeptOf
  <2> HIDE DEF kept
  <2>2. \A u \in Ops : op[u].at = "poll" => op'[u].at = "poll" /\ op'[u].id = op[u].id
    BY <1>0, <1>1 DEF Got
  <2>3. ASSUME NEW j \in Items PROVE Linked(j)' /\ Synced(j)'
    <3>1. CASE j \in kept
      <4>1. told'[j] = told[j] /\ stored'[j] = stored[j] /\ (j \in unseen => j \in unseen')
        BY <1>1, <2>1, <3>1
      <4> QED
        BY <4>1, <2>2 DEF InStep, Linked, Synced
    <3>2. CASE j \notin kept
      BY <1>1, <2>1, <3>2 DEF Linked, Synced
    <3> QED
      BY <3>1, <3>2
  <2> QED
    BY <2>3, <1>0, <1>1 DEF InStep
<1>2. ASSUME op[t].at = "request", NEW i \in Items, stored' = [stored EXCEPT ![i] = 1], Tell(i),
             op' = [op EXCEPT ![t].got = [id |-> i, ver |-> 1], ![t].id = i]
      PROVE  InStep'
  <2>1. \A u \in Ops : op[u].at = "poll" => op'[u].at = "poll" /\ op'[u].id = op[u].id
    BY <1>0, <1>2
  <2>2. stored' \in [Items -> Int] /\ \A j \in Items : j # i => stored'[j] = stored[j]
    BY <1>0, <1>2
  <2> QED
    BY <2>1, <2>2, <1>0, <1>2, TellStays
<1>3. ASSUME NEW i \in Items, i = op[t].id, Tell(i), NEW value, Got(t, value),
             NEW n \in Int, stored' = [stored EXCEPT ![i] = n] \/ UNCHANGED stored
      PROVE  InStep'
  <2>1. \A u \in Ops : op[u].at = "poll" => op'[u].at = "poll" /\ op'[u].id = op[u].id
    BY <1>0, <1>3 DEF Got
  <2>2. stored' \in [Items -> Int] /\ \A j \in Items : j # i => stored'[j] = stored[j]
    BY <1>0, <1>3
  <2> QED
    BY <2>1, <2>2, <1>0, <1>3, TellStays
<1>4. CASE /\ op[t].at = "request" /\ op[t].kind \in {"update", "resolve", "toggle"}
           /\ op[t].id \in Present
           /\ stored' = [stored EXCEPT ![op[t].id] = @ + 1]
           /\ Tell(op[t].id)
           /\ Got(t, [id |-> op[t].id, ver |-> stored[op[t].id] + 1])
  <2>1. PICK i \in Items : i = op[t].id
    BY <1>0, <1>4
  <2>2. stored' = [stored EXCEPT ![i] = stored[i] + 1] /\ stored[i] + 1 \in Int
    BY <1>0, <1>4, <2>1
  <2> QED
    BY <2>1, <2>2, <1>3, <1>4
<1>5. CASE /\ op[t].at = "request" /\ op[t].kind = "remove" /\ op[t].id \in Present
           /\ stored' = [stored EXCEPT ![op[t].id] = -1]
           /\ Tell(op[t].id)
           /\ Got(t, "gone")
  <2>1. PICK i \in Items : i = op[t].id
    BY <1>0, <1>5
  <2>2. stored' = [stored EXCEPT ![i] = -1] /\ -1 \in Int
    BY <1>5, <2>1
  <2> QED
    BY <2>1, <2>2, <1>3, <1>5
<1>6. CASE op[t].at = "poll" /\ Got(t, Entry(op[t].id)) /\ UNCHANGED stored /\ Tell(op[t].id)
  <2>1. op[t].id \in Items
    BY <1>0, <1>6, WhatIsHeld DEF HeldUpload, Known
  <2> QED
    BY <2>1, <1>3, <1>6
<1> QED
  BY <1>1, <1>2, <1>4, <1>5, <1>6 DEF ServeList

(* An answer that is taken changes neither; the parser's last word is taken *)
(* before its handler ends.                                                *)
LEMMA AnswerStays ==
  ASSUME InStep, Orderly, lost' = lost, lost \in Nat, NEW t \in Ops,
         Loaded(t) \/ Created(t) \/ Updated(t) \/ Removed(t) \/ Reload(t) \/ Accepted(t)
           \/ Polled(t) \/ RefusedOp(t)
  PROVE  InStep'
<1>1. UNCHANGED <<stored, told, unseen>>
  BY DEF Loaded, Created, Updated, Removed, Reload, Accepted, Polled, RefusedOp
<1>2. \A u \in Ops : u # t => op'[u] = op[u]
  BY DEF Loaded, Created, Updated, Removed, Reload, Accepted, Polled, RefusedOp, End, Orderly
<1>3. CASE op[t].at # "poll"
  BY <1>1, <1>2, <1>3, SameStays
<1>4. CASE op[t].at = "poll"
  <2>1. /\ Polled(t) /\ Active(t) /\ HeldUpload(t) /\ op[t] \in OpSet /\ op \in [Ops -> OpSet]
    BY <1>4, WhatIsHeld
       DEF Loaded, Created, Updated, Removed, Reload, Accepted, RefusedOp, Active, Orderly
  <2>2. CASE Ready(op[t].got)
    <3>1. op[t].got = Said(op[t].id) /\ told[op[t].id] # 1
      BY <2>1, <2>2 DEF HeldUpload, Polled, Ready, Said
    <3>2. ASSUME NEW i \in Items PROVE Synced(i)'
      <4>1. CASE told[i] = stored[i] \/ i \in unseen
        BY <4>1, <1>1 DEF Synced
      <4>2. CASE told[i] = 1 /\ \E u \in Ops : op[u].at = "poll" /\ op[u].id = i
        <5>1. PICK u \in Ops : op[u].at = "poll" /\ op[u].id = i
          BY <4>2
        <5>2. u # t
          BY <3>1, <4>2, <5>1
        <5> QED
          BY <5>1, <5>2, <4>2, <1>1, <1>2 DEF Synced
      <4> QED
        BY <4>1, <4>2 DEF InStep, Synced
    <3> QED
      BY <3>2, <1>1 DEF InStep, Linked
  <2>3. CASE ~Ready(op[t].got)
    <3>1. op[t].polls \in Nat /\ MaxPolls \in Nat
      BY <2>1, ListViewsAssumption DEF OpSet
    <3>2. op[t].polls + 1 < MaxPolls
      <4>1. ~(op[t].polls + 1 >= MaxPolls)
        BY <2>1, <2>3 DEF Polled
      <4> QED
        BY <4>1, <3>1
    <3>3. op' = [op EXCEPT ![t] = [op[t] EXCEPT !.got = Nothing, !.polls = @ + 1]]
      BY <2>1, <2>3, <3>2 DEF Polled
    <3>4. op'[t] = [op[t] EXCEPT !.got = Nothing, !.polls = @ + 1]
      BY <2>1, <3>3
    <3>5. op'[t].at = "poll" /\ op'[t].id = op[t].id
      BY <1>4, <2>1, <3>4 DEF OpSet
    <3> QED
      BY <1>1, <1>2, <3>5, SameStays
  <2> QED
    BY <2>2, <2>3
<1> QED
  BY <1>3, <1>4

LEMMA ListStep == ASSUME LInv, [ListNext]_lvars PROVE LInv'
<1>0. overlap \in BOOLEAN /\ lost \in Nat
  BY DEF LInv
<1>1. /\ overlap' \in BOOLEAN /\ lost' \in Nat
      /\ Clean' => Clean /\ lost' = lost
  <2>1. ASSUME NEW kind, NEW i, Begin(kind, i)
        PROVE  overlap' \in BOOLEAN /\ lost' = lost /\ (overlap => overlap')
    <3>1. overlap' = (overlap \/ Meets(kind, i)) /\ lost' = lost
      BY <2>1 DEF Begin
    <3>2. (overlap \/ Meets(kind, i)) \in BOOLEAN
      OBVIOUS
    <3> QED
      BY <3>1, <3>2
  <2>2. Load \/ Create \/ Change => overlap' \in BOOLEAN /\ lost' = lost /\ (overlap => overlap')
    BY <2>1 DEF Load, Create, Change
  <2>3. Pick \/ Parsed \/ Elsewhere => UNCHANGED <<overlap, lost>>
    BY DEF Pick, Parsed, Elsewhere
  <2>4. ASSUME NEW t \in Ops, ServeList(t) \/ Loaded(t) \/ Created(t) \/ Updated(t) \/ Removed(t)
                                \/ Reload(t) \/ Accepted(t) \/ Polled(t) \/ RefusedOp(t) \/ Lost(t)
        PROVE  overlap' = overlap /\ lost' \in {lost, lost + 1}
    BY <2>4 DEF ServeList, Loaded, Created, Updated, Removed, Reload, Accepted, Polled, RefusedOp, Lost
  <2>5. \/ Load \/ Create \/ Change \/ Pick \/ Parsed \/ Elsewhere
        \/ UNCHANGED <<overlap, lost>>
        \/ \E t \in Ops : ServeList(t) \/ Loaded(t) \/ Created(t) \/ Updated(t) \/ Removed(t)
                         \/ Reload(t) \/ Accepted(t) \/ Polled(t) \/ RefusedOp(t) \/ Lost(t)
    BY DEF ListNext, lvars
  <2>6. overlap' \in BOOLEAN /\ lost' \in {lost, lost + 1} /\ (overlap => overlap')
    BY <2>2, <2>3, <2>4, <2>5, <1>0
  <2> QED
    BY <2>6, <1>0 DEF Clean
<1>2. ASSUME Clean' PROVE Orderly' /\ InStep'
  <2>1. Clean /\ lost' = lost /\ lost \in Nat
    BY <1>0, <1>1, <1>2
  <2>2. Orderly /\ InStep
    BY <2>1 DEF LInv
  <2>3. ASSUME NEW kind \in {"load", "create", "update", "remove", "resolve", "toggle", "upload"},
               NEW i, Begin(kind, i)
        PROVE  ~Meets(kind, i)
    BY <1>2, <2>3 DEF Begin, Clean
  <2>4. ASSUME NEW kind \in {"load", "create", "update", "remove", "resolve", "toggle", "upload"},
               NEW i \in Items \cup {Nothing}, Begin(kind, i),
               IF kind \in {"load", "create", "upload"} THEN i = Nothing ELSE i \in Shown
        PROVE  Orderly' /\ InStep'
    BY <2>2, <2>3, <2>4, BeginKeeps, BeginStays
  <2>5. CASE Load \/ Create
    BY <2>4, <2>5 DEF Load, Create
  <2>6. CASE Change
    <3>1. PICK kind \in {"update", "remove", "resolve", "toggle"}, i \in Shown : Begin(kind, i)
      BY <2>6 DEF Change
    <3>2. i \in Items
      <4>1. PICK k \in DOMAIN cache : i = cache[k].id
        BY <3>1 DEF Shown
      <4>2. cache[k] \in EntrySet
        BY <2>2 DEF Orderly
      <4> QED
        BY <4>1, <4>2 DEF EntrySet
    <3> QED
      BY <3>1, <3>2, <2>4
  <2>7. CASE Pick
    <3>1. UNCHANGED <<stored, told, unseen, op>>
      BY <2>7 DEF Pick
    <3> QED
      BY <3>1, <2>2, <2>7, PickKeeps, SameStays
  <2>8. CASE Parsed
    <3>1. UNCHANGED <<told, cache, selected, op>>
      BY <2>8 DEF Parsed
    <3> QED
      BY <3>1, <2>2, <2>8, UnheardKeeps, ParsedStays
  <2>9. CASE Elsewhere
    <3>1. UNCHANGED <<told, cache, selected, op>>
      BY <2>9 DEF Elsewhere
    <3> QED
      BY <3>1, <2>2, <2>9, UnheardKeeps, ElsewhereStays
  <2>10. ASSUME NEW t \in Ops, ServeList(t) \/ Loaded(t) \/ Created(t) \/ Updated(t) \/ Removed(t)
                                 \/ Reload(t) \/ Accepted(t) \/ Polled(t) \/ RefusedOp(t) \/ Lost(t)
         PROVE  Orderly' /\ InStep'
    <3>1. ~Lost(t)
      BY <2>1 DEF Lost
    <3>2. Orderly'
      BY <2>1, <2>2, <2>10, <3>1, ServeListKeeps, LoadedKeeps, CreatedKeeps, UpdatedKeeps, RemovedKeeps,
         ReloadKeeps, AcceptedKeeps, PolledKeeps, RefusedKeeps
    <3>3. InStep'
      BY <2>1, <2>2, <2>10, <3>1, ServeListStays, AnswerStays
    <3> QED
      BY <3>2, <3>3
  <2>11. CASE UNCHANGED lvars
    <3>1. UNCHANGED <<stored, told, unseen, cache, selected, op>>
      BY <2>11 DEF lvars
    <3> QED
      BY <2>2, <3>1, UnheardKeeps, SameStays
  <2> QED
    BY <2>5, <2>6, <2>7, <2>8, <2>9, <2>10, <2>11 DEF ListNext
<1> QED
  BY <1>1, <1>2 DEF LInv

(* At rest every item agrees, and then so do the lengths.                  *)
LEMMA QuietAgrees == LInv => CacheAgrees
<1> SUFFICES ASSUME LInv, Quiet, ~overlap, lost = 0
             PROVE  /\ \A i \in Known : \E k \in DOMAIN cache : cache[k] = Said(i)
                    /\ Len(cache) = Cardinality(Known)
                    /\ selected # Nothing => selected.id \in Known
                    /\ \A i \in Items \ unseen : told[i] = stored[i]
  BY DEF CacheAgrees, Said
<1>1. Orderly /\ InStep
  BY DEF LInv, Clean
<1>2. \A t \in Ops : ~Active(t) /\ op[t].at # "poll" /\ op[t].at # "reload"
  BY DEF Quiet, Active
<1>13. \A i \in Items \ unseen : told[i] = stored[i]
  BY <1>1, <1>2 DEF InStep, Synced
<1>3. \A i \in Items : Vers(cache, i) = Right(i)
  BY <1>1, <1>2 DEF Orderly, Loading, Settled, Agrees
<1>4. /\ cache \in Seq(EntrySet) /\ Distinct(cache)
      /\ selected # Nothing => selected.id \in Known
  BY <1>1, <1>2 DEF Orderly, Chosen, Removing
<1>5. ASSUME NEW i \in Known PROVE \E k \in DOMAIN cache : cache[k] = Said(i)
  <2>1. i \in Items /\ Right(i) = {told[i]}
    BY DEF Known, Right
  <2>2. PICK k \in DOMAIN cache : cache[k].id = i /\ cache[k].ver = told[i]
    BY <2>1, <1>3 DEF Vers
  <2>3. cache[k] \in EntrySet
    BY <1>4
  <2>4. cache[k] = Said(i)
    BY <2>2, <2>3 DEF EntrySet, Said
  <2> QED
    BY <2>4
<1> DEFINE idOf == [k \in 1 .. Len(cache) |-> cache[k].id]
<1>6. DOMAIN cache = 1 .. Len(cache) /\ Len(cache) \in Nat
  BY <1>4
<1>7. \A k \in 1 .. Len(cache) : cache[k].id \in Known
  <2> SUFFICES ASSUME NEW k \in 1 .. Len(cache) PROVE cache[k].id \in Known
    OBVIOUS
  <2>1. cache[k] \in EntrySet
    BY <1>4
  <2>2. cache[k].id \in Items /\ Vers(cache, cache[k].id) # {}
    BY <2>1, <1>6 DEF EntrySet, Vers
  <2> QED
    BY <2>2, <1>3 DEF Right, Known
<1>8. idOf \in Injection(1 .. Len(cache), Known)
  BY <1>4, <1>6, <1>7 DEF Injection, IsInjective, Distinct
<1>9. idOf \in Surjection(1 .. Len(cache), Known)
  <2>1. \A i \in Known : \E k \in 1 .. Len(cache) : idOf[k] = i
    <3> SUFFICES ASSUME NEW i \in Known PROVE \E k \in 1 .. Len(cache) : idOf[k] = i
      OBVIOUS
    <3>1. PICK k \in 1 .. Len(cache) : cache[k] = Said(i)
      BY <1>5, <1>6
    <3>2. idOf[k] = i
      BY <3>1 DEF Said
    <3> QED
      BY <3>2
  <2>2. idOf \in [1 .. Len(cache) -> Known]
    BY <1>7
  <2> HIDE DEF idOf
  <2> QED
    BY <2>1, <2>2 DEF Surjection
<1>10. IsFiniteSet(Known) /\ IsFiniteSet(1 .. Len(cache))
  BY <1>6, ItemsAreNumbers, FS_Subset, FS_Interval DEF Known
<1>11. Cardinality(1 .. Len(cache)) = Cardinality(Known)
  BY <1>8, <1>9, <1>10, FS_Injection
<1>12. Cardinality(1 .. Len(cache)) = Len(cache)
  <2>1. PICK n \in Nat : n = Len(cache)
    BY <1>6
  <2>2. Cardinality(1 .. n) = IF 1 > n THEN 0 ELSE n - 1 + 1
    BY FS_Interval
  <2>3. Cardinality(1 .. n) = n
    BY <2>2
  <2> QED
    BY <2>1, <2>3
<1> QED
  BY <1>4, <1>5, <1>11, <1>12, <1>13

(* When all answers have come, none was lost, and no load met another      *)
(* handler nor two handlers one item, the copy of a list shows what the    *)
(* server said last, each item once; what is selected is in it, and only   *)
(* items that changed elsewhere may differ from those of the server (the   *)
(* handlers of App.tsx and WorkspaceView.tsx).                             *)
THEOREM CacheIsTheList == ListSpec => []CacheAgrees
<1>1. ListInit => LInv
  BY ListInitially
<1>2. LInv /\ [ListNext]_lvars => LInv'
  BY ListStep
<1>3. LInv => CacheAgrees
  BY QuietAgrees
<1> QED
  BY <1>1, <1>2, <1>3, PTL DEF ListSpec
================================================================================
