------------------------------- MODULE RunView -------------------------------
(***************************************************************************)
(* The conversation view of the web client (apps/web/src/WorkspaceView.tsx *)
(* and runEventStore.ts): what it shows of the selected conversation, and  *)
(* the asynchronous functions that fill it.  A function runs from await to *)
(* await; while it waits the user may select another conversation, send a  *)
(* question, decide an approval, or stop the run.                          *)
(*                                                                         *)
(* Messages and the active run are what the server held at one moment      *)
(* (Serve) and reach the view at a later one, as do the answers to POSTs;  *)
(* the other answers are what it holds when they arrive.  React is taken   *)
(* to run the effect of a selection with the click.  The runs belong to    *)
(* this client only; their text, plan and files are left out.  Nothing     *)
(* more is done by the user once two functions have crossed (crossed).     *)
(***************************************************************************)
EXTENDS Integers, Sequences, FiniteSets

CONSTANTS Convs, Runs, None, MaxTasks, MaxFaults

ASSUME RunViewAssumption ==
  /\ Convs # {} /\ IsFiniteSet(Runs) /\ Runs = 1 .. Cardinality(Runs)
  /\ None \notin Convs /\ None \notin Runs /\ None \notin 1 .. MaxTasks
  /\ None # <<"ok">> /\ None \notin {<<r>> : r \in Runs \cup {None}}
  /\ None \notin {[run |-> r, status |-> "pending"] : r \in Runs}
  /\ MaxTasks \in Nat \ {0} /\ MaxFaults \in Nat

VARIABLES
  srv,     \* the runs: conversation, status, event log, approval
  view,    \* the state of the component
  task,    \* the asynchronous functions started so far
  crossed, \* a function was started while another was at a request
  faults   \* requests and streams that failed

vars == <<srv, view, task, crossed, faults>>

Tasks == 1 .. MaxTasks

(***************************************************************************)
(* The server, as the client sees it.                                      *)
(***************************************************************************)
RunsOf(c) == {r \in Runs : srv[r].conv = c}
NewRun(c) ==
  [conv |-> c, status |-> "going", log |-> <<"started">>, approval |-> "none"]
NoRun == [conv |-> None, status |-> "none", log |-> <<>>, approval |-> "none"]

\* What GET .../messages returns: the answer of a run is final when it ended.
Messages(c) ==
  [of |-> c, known |-> RunsOf(c),
   final |-> {r \in RunsOf(c) : srv[r].status = "over"}]

\* Runs are numbered as they are created.
Latest(S) == IF S = {} THEN None ELSE CHOOSE r \in S : \A q \in S : q <= r

\* Runs that are queued, running or waiting: the newest is the active run.
ActiveOf(c) == Latest({r \in RunsOf(c) : srv[r].status \in {"going", "waiting"}})

(***************************************************************************)
(* A task: its kind, the conversation and the run it captured, where it    *)
(* waits, the answer that is under way, and, for a stream, its event store,*)
(* the locals of streamRunEvents, and what the server has sent and found.  *)
(* cut is kept for the properties.                                         *)
(***************************************************************************)
NoTask ==
  [kind |-> None, conv |-> None, run |-> None, at |-> "none", got |-> None,
   pending |-> FALSE, events |-> <<>>, cursor |-> 0, sent |-> 0, drained |-> FALSE,
   waiting |-> FALSE, terminal |-> FALSE, aborted |-> FALSE, cut |-> FALSE]

Streaming == {"connect", "read", "sleep"}
Requests  == {"messages", "latest", "details", "active", "post", "decide",
              "approvals", "fmessages", "flatest", "fdetails", "fallback",
              "cancel", "smessages", "sapprovals"}

InFlight(t) == task[t].at \notin {"none", "done"}
Idle        == \A t \in Tasks : ~InFlight(t)

Empty == [of |-> None, known |-> {}, final |-> {}]

Init ==
  /\ srv = [r \in Runs |->  \* one conversation has a run when the view is opened
              IF r = 1 THEN NewRun(CHOOSE c \in Convs : TRUE) ELSE NoRun]
  /\ view = [conv |-> None, messages |-> Empty, latest |-> None, active |-> None,
             approvals |-> None, store |-> None, stream |-> None, busy |-> FALSE]
  /\ task = [t \in Tasks |-> NoTask]
  /\ crossed = FALSE
  /\ faults = 0

\* streamAbort.current?.abort()
AbortStream(tasks) ==
  IF view.stream = None \/ ~InFlight(view.stream) THEN tasks
  ELSE [tasks EXCEPT ![view.stream].aborted = TRUE]

(***************************************************************************)
(* What the user does.                                                     *)
(***************************************************************************)
\* A new task that starts waiting at a request.
Start(tasks, kind, conv, run, at) ==
  LET t == CHOOSE t \in Tasks : tasks[t].at = "none" /\ \A u \in 1 .. t - 1 : tasks[u].at # "none"
  IN [tasks EXCEPT ![t] = [NoTask EXCEPT !.kind = kind, !.conv = conv, !.run = run, !.at = at]]

CanStart == \E t \in Tasks : task[t].at = "none"

\* Plausible mistake (used by no action): the approvals are kept.
ResetViewSlip(v) == [v EXCEPT !.store = None, !.active = None]

\* What both effects clear of the earlier conversation.
ResetView(v) == [v EXCEPT !.approvals = None, !.store = None, !.active = None]

\* A task that would go on after it is aborted: one at a request or asleep, and
\* one of a decision, whose catch block loads approvals.
Lingers(t) ==
  InFlight(t) /\ (task[t].at \notin {"connect", "read"} \/ task[t].kind = "decide")

\* Another conversation is selected; the effect loads it.
Select(c) ==
  /\ CanStart /\ view.conv # c
  /\ view' = [ResetView(view) EXCEPT !.conv = c]
  /\ task' = Start(AbortStream(task), "load", c, None, "messages")
  /\ crossed' = (crossed \/ \E t \in Tasks : Lingers(t))
  /\ UNCHANGED <<srv, faults>>

\* Another workspace: everything is cleared.
LeaveWorkspace ==
  /\ view.conv # None
  /\ view' = [ResetView(view) EXCEPT !.conv = None, !.messages = Empty, !.latest = None]
  /\ task' = AbortStream(task)
  /\ crossed' = (crossed \/ \E t \in Tasks : Lingers(t))
  /\ UNCHANGED <<srv, faults>>

\* The conversation was archived or deleted: the effect returns at once, and
\* what is under way goes on.
CloseConversation ==
  /\ view.conv # None
  /\ view' = [view EXCEPT !.conv = None]
  /\ crossed' = (crossed \/ \E t \in Tasks : Lingers(t))
  /\ UNCHANGED <<srv, task, faults>>

Unused == {r \in Runs : srv[r].status = "none"}
At(t, at) == task[t].at = at

\* The button is disabled while something is busy or a run is active.
SendMessage ==
  /\ CanStart /\ view.conv # None /\ ~view.busy /\ view.active = None
  /\ Cardinality({t \in Tasks : At(t, "post") /\ task[t].got = None}) < Cardinality(Unused)
  /\ view' = [view EXCEPT !.busy = TRUE]
  /\ task' = Start(task, "send", view.conv, None, "post")
  /\ crossed' = (crossed \/ ~Idle)
  /\ UNCHANGED <<srv, faults>>

Pending == view.approvals # None /\ view.approvals.status = "pending"

DecideToolApproval ==
  /\ CanStart /\ view.conv # None /\ Pending /\ ~view.busy
  /\ view' = [view EXCEPT !.busy = TRUE]
  /\ task' = Start(task, "decide", view.conv, view.approvals.run, "decide")
  /\ crossed' = (crossed \/ ~Idle)
  /\ UNCHANGED <<srv, faults>>

\* Whether an approval is pending is what the view showed at the click.
StopRun ==
  /\ CanStart /\ view.conv # None /\ view.active # None
  /\ LET tasks == Start(task, "stop", view.conv, view.active, "cancel")
         t == CHOOSE t \in Tasks : tasks[t] # task[t]
     IN task' = [tasks EXCEPT ![t].pending = Pending]
  /\ crossed' = (crossed \/ \E t \in Tasks : Lingers(t))
  /\ UNCHANGED <<srv, view, faults>>

User ==
  /\ ~crossed
  /\ \/ \E c \in Convs : Select(c)
     \/ LeaveWorkspace \/ CloseConversation
     \/ SendMessage \/ DecideToolApproval \/ StopRun

(***************************************************************************)
(* The server: the steps of a run, and the answers to requests.            *)
(***************************************************************************)
Log(r, e, status) ==
  srv' = [srv EXCEPT ![r].log = Append(@, e), ![r].status = status]

Happened(r, e) == \E i \in DOMAIN srv[r].log : srv[r].log[i] = e

ServerStep ==
  /\ \E r \in {q \in Runs : srv[q].status = "going"} :
       \/ /\ srv[r].log = <<"started">>
          /\ srv' = [srv EXCEPT ![r] = [@ EXCEPT !.log = Append(srv[r].log, "requested"),
                                          !.status = "waiting", !.approval = "pending"]]
       \/ /\ srv[r].approval = "decided" /\ ~Happened(r, "resolved")
          /\ Log(r, "resolved", "going")
       \/ Log(r, "ended", "over")
  /\ UNCHANGED <<view, task, crossed, faults>>

\* request_cancel: a run that has not ended ends at once.
Cancelled(r) ==
  IF srv[r].status = "over" THEN srv
  ELSE [srv EXCEPT ![r] = [@ EXCEPT
          !.log = Append(srv[r].log, "ended"), !.status = "over",
          !.approval = IF srv[r].approval = "pending" THEN "cancelled" ELSE srv[r].approval]]

\* decide: the run is queued again; a decided approval stays as it is.
Decided(r) ==
  IF srv[r].approval # "pending" THEN srv
  ELSE [srv EXCEPT ![r] = [@ EXCEPT !.approval = "decided", !.status = "going"]]

\* The server handles the request task t waits for.
Serve(t) ==
  /\ task[t].got = None
  /\ LET at == task[t].at
         c  == task[t].conv
         r  == task[t].run
     IN \/ /\ at \in {"messages", "fmessages", "smessages"}
           /\ task' = [task EXCEPT ![t].got = Messages(c)] /\ UNCHANGED srv
        \/ /\ at = "active"
           /\ task' = [task EXCEPT ![t].got = <<ActiveOf(c)>>] /\ UNCHANGED srv
        \/ /\ at = "post" /\ Unused # {}
           /\ LET q == CHOOSE q \in Unused : \A p \in Unused : q <= p
              IN /\ srv' = [srv EXCEPT ![q] = NewRun(c)]
                 /\ task' = [task EXCEPT ![t].got = <<q>>]
        \/ /\ at = "decide" /\ srv[r].approval = "pending"
           /\ srv' = Decided(r)
           /\ task' = [task EXCEPT ![t].got = <<"ok">>]
        \/ /\ at = "cancel"
           /\ srv' = Cancelled(r)
           /\ task' = [task EXCEPT ![t].got = <<"ok">>]
  /\ UNCHANGED <<view, crossed, faults>>

(***************************************************************************)
(* The functions, one action for what is done between two awaits.          *)
(***************************************************************************)
Goto(t, at) == task' = [task EXCEPT ![t].at = at, ![t].got = None]
\* Its locals are gone, and nothing is added to its store any more.
Done(t) ==
  task' = [task EXCEPT ![t] = [NoTask EXCEPT !.kind = task[t].kind,
                !.conv = task[t].conv, !.run = task[t].run, !.at = "done",
                !.terminal = task[t].terminal, !.cut = task[t].cut]]

\* The end of a task: the finally blocks reset busy.
Finish(t, v) ==
  /\ Done(t)
  /\ view' = IF task[t].kind \in {"send", "decide"} THEN [v EXCEPT !.busy = FALSE] ELSE v

\* loadMessages, in each of its three callers.
LoadMessages(t) ==
  /\ task[t].at \in {"messages", "fmessages", "smessages"} /\ task[t].got # None
  /\ view' = [view EXCEPT !.messages = task[t].got]
  /\ Goto(t, CASE At(t, "messages")  -> "latest"
               [] At(t, "fmessages") -> "flatest"
               [] At(t, "smessages") -> "sapprovals")
  /\ UNCHANGED <<srv, crossed, faults>>

LoadLatest(t) ==
  /\ task[t].at \in {"latest", "flatest"}
  /\ LET latest == Latest(RunsOf(task[t].conv))
         final  == At(t, "flatest")
     IN /\ view' = [view EXCEPT !.latest = IF latest = None /\ final
                                           THEN task[t].run ELSE latest]
        /\ Goto(t, IF final THEN "fdetails" ELSE IF latest = None THEN "active" ELSE "details")
  /\ UNCHANGED <<srv, crossed, faults>>

\* Plausible mistake (used by no action): the run stays active.
FollowedSlip(v) == [v EXCEPT !.approvals = None]

\* The last statements of consumeRun.
Followed(v) == [v EXCEPT !.approvals = None, !.active = None]

\* Todos and sources of the latest run.
LoadDetails(t) ==
  /\ task[t].at \in {"details", "fdetails"}
  /\ IF At(t, "details")
     THEN Goto(t, "active") /\ UNCHANGED view
     ELSE Finish(t, Followed(view))
  /\ UNCHANGED <<srv, crossed, faults>>

\* The opening statements of consumeRun: a store and a controller of its own.
Consume(t, r, v) ==
  /\ view' = [v EXCEPT !.store = t, !.active = r, !.stream = t]
  /\ task' = [AbortStream(task) EXCEPT ![t].run = r, ![t].at = "connect", ![t].got = None]

LoadActive(t) ==
  /\ At(t, "active") /\ task[t].got # None
  /\ IF task[t].got[1] = None
     THEN Finish(t, view)
     ELSE Consume(t, task[t].got[1], view)
  /\ UNCHANGED <<srv, crossed, faults>>

\* The question and an empty answer are appended to what is shown.
Posted(t) ==
  /\ At(t, "post") /\ task[t].got # None
  /\ Consume(t, task[t].got[1], [view EXCEPT !.messages.known = @ \cup {task[t].got[1]}])
  /\ UNCHANGED <<srv, crossed, faults>>

DecisionTaken(t) ==
  /\ At(t, "decide") /\ task[t].got # None
  /\ Consume(t, task[t].run,
             IF view.approvals # None /\ view.approvals.run = task[t].run
             THEN [view EXCEPT !.approvals.status = "decided"] ELSE view)
  /\ UNCHANGED <<srv, crossed, faults>>

\* loadToolApprovals, in each of its three callers.
LoadToolApprovals(t) ==
  /\ task[t].at \in {"approvals", "fallback", "sapprovals"}
  /\ Finish(t, [view EXCEPT !.approvals = [run |-> task[t].run,
                                            status |-> srv[task[t].run].approval],
                            !.active = IF At(t, "sapprovals") THEN None ELSE @])
  /\ UNCHANGED <<srv, crossed, faults>>

\* The rest is left to the stream, if there still is one: a run that asked for
\* its approval meanwhile has none, and the view keeps its approval.
RunStopped(t) ==
  /\ At(t, "cancel") /\ task[t].got # None
  /\ IF task[t].pending THEN Goto(t, "smessages") ELSE Done(t)
  /\ crossed' = (crossed \/ (~task[t].pending /\ \A u \in Tasks :
                                task[u].at \notin Streaming \/ task[u].aborted))
  /\ UNCHANGED <<srv, view, faults>>

(***************************************************************************)
(* streamRunEvents.                                                        *)
(***************************************************************************)
\* The request is answered: the server sends what follows the cursor.
Connect(t) ==
  /\ At(t, "connect") /\ ~task[t].aborted
  /\ task' = [task EXCEPT ![t].at = "read", ![t].sent = task[t].cursor,
                           ![t].drained = FALSE]
  /\ UNCHANGED <<srv, view, crossed, faults>>

\* RunEventStore.ingest
Ingest(k, id) ==
  IF id <= k.cursor THEN k
  ELSE [k EXCEPT !.events = Append(@, id), !.cursor = id]

\* The flags after an event of type e.
Flags(k, e) ==
  [k EXCEPT !.waiting = CASE e = "requested" -> TRUE
                          [] e = "resolved"  -> FALSE
                          [] OTHER           -> @,
            !.terminal = (e = "ended")]

\* One event of the response body.
ReadEvent(t) ==
  LET r == task[t].run
      k == task[t].sent + 1
  IN /\ At(t, "read") /\ ~task[t].aborted
     /\ k <= Len(srv[r].log)
     /\ task' = [task EXCEPT ![t] = [Flags(Ingest(@, k), srv[r].log[k]) EXCEPT
                                    !.sent = k, !.drained = FALSE]]
     /\ UNCHANGED <<srv, view, crossed, faults>>

\* Plausible mistake (used by no action): the end of the run is not noticed.
AfterStreamSlip(k) == IF k.waiting THEN "approvals" ELSE "sleep"

\* Where the function stands when the body has ended.
AfterStream(k) ==
  IF k.terminal THEN "fmessages" ELSE IF k.waiting THEN "approvals" ELSE "sleep"

\* The first read of the server's loop finds no event after the last one sent.
Look(t) ==
  /\ At(t, "read") /\ ~task[t].aborted /\ ~task[t].drained
  /\ task[t].sent = Len(srv[task[t].run].log)
  /\ task' = [task EXCEPT ![t].drained = TRUE]
  /\ UNCHANGED <<srv, view, crossed, faults>>

\* The server ends the body when a read found no event and the status, read in a
\* statement of its own, is a settled one: what was logged between the two is not
\* sent.  A body that shows a run waiting may so end on one that is over (cut).
\* A proxy may end the body at any time.
BodyEnds(t) ==
  /\ At(t, "read") /\ ~task[t].aborted
  /\ LET status == srv[task[t].run].status
         at     == AfterStream(task[t])
     IN \/ /\ task[t].drained /\ status \in {"waiting", "over"}
           /\ task' = [task EXCEPT ![t].at = at, ![t].got = None,
                                   ![t].cut = (at = "approvals" /\ status = "over")]
           /\ UNCHANGED faults
        \/ /\ faults < MaxFaults /\ faults' = faults + 1
           /\ Goto(t, at)
  /\ UNCHANGED <<srv, view, crossed>>

\* 500 ms later: connect again, or, aborted meanwhile, return "terminal".
Awake(t) ==
  /\ At(t, "sleep")
  /\ Goto(t, IF task[t].aborted THEN "fmessages" ELSE "connect")
  /\ UNCHANGED <<srv, view, crossed, faults>>

(***************************************************************************)
(* Failures.                                                               *)
(***************************************************************************)
\* What the catch blocks do when the await of task t throws.
Caught(t) ==
  \/ task[t].at = "messages"  /\ Goto(t, "latest") /\ UNCHANGED view
  \/ task[t].at = "fmessages" /\ Goto(t, "flatest") /\ UNCHANGED view
  \/ task[t].at = "smessages" /\ Goto(t, "sapprovals") /\ UNCHANGED view
  \/ /\ task[t].kind = "decide" /\ task[t].at \notin {"fmessages", "fallback"}
     /\ Goto(t, "fallback") /\ UNCHANGED view
  \/ /\ task[t].at \notin {"messages", "fmessages", "smessages"}
     /\ task[t].kind = "decide" => task[t].at = "fallback"
     /\ Finish(t, view)

\* fetch and read reject with AbortError.
AbortError(t) ==
  /\ task[t].at \in {"connect", "read"} /\ task[t].aborted
  /\ Caught(t)
  /\ UNCHANGED <<srv, crossed, faults>>

\* apiRequest or fetch throws: no connection, or an error status.  Details are
\* cleared instead (LoadDetails goes on).  The server may have done its part.
RequestFails(t) ==
  /\ task[t].at \in (Requests \cup {"connect", "read"}) \ {"details", "fdetails"}
  /\ faults < MaxFaults
  /\ faults' = faults + 1
  /\ Caught(t)
  /\ UNCHANGED <<srv, crossed>>

\* 409: the approval is no longer pending.
Refused(t) ==
  /\ At(t, "decide") /\ task[t].got = None /\ srv[task[t].run].approval # "pending"
  /\ Caught(t)
  /\ UNCHANGED <<srv, crossed, faults>>

Client(t) ==
  Serve(t) \/ LoadMessages(t) \/ LoadLatest(t) \/ LoadDetails(t) \/ LoadActive(t)
    \/ Posted(t) \/ DecisionTaken(t) \/ LoadToolApprovals(t) \/ RunStopped(t)
    \/ Connect(t) \/ ReadEvent(t) \/ Look(t) \/ BodyEnds(t) \/ Awake(t) \/ AbortError(t)
    \/ Refused(t)

Rest == Idle /\ UNCHANGED vars

Next == User \/ ServerStep \/ Rest \/ \E t \in Tasks : Client(t) \/ RequestFails(t)

\* Requests are answered, timers fire, and the workers go on with the runs.
Fairness == WF_vars(ServerStep) /\ WF_vars(\E t \in Tasks : Client(t))

Spec == Init /\ [][Next]_vars /\ Fairness

(***************************************************************************)
(* Properties.                                                             *)
(***************************************************************************)
\* The state of the view has its type, and what it marks busy is a question or
\* a decision that will reset it.
TypeOK ==
  /\ view.conv \in Convs \cup {None}
  /\ {view.latest, view.active} \subseteq Runs \cup {None}
  /\ {view.store, view.stream} \subseteq Tasks \cup {None}
  /\ view.messages.final \subseteq view.messages.known
  /\ \A t \in Tasks : task[t].at \in Requests \cup Streaming \cup {"none", "done"}
  /\ view.busy => \E t \in Tasks : InFlight(t) /\ task[t].kind \in {"send", "decide"}

\* A store holds the first events of its run's log, each once and in order, over
\* any number of dropped and resumed streams (RunEventStore, "after=").
StoreInOrder ==
  \A t \in Tasks : task[t].events = [i \in 1 .. task[t].cursor |-> i]

\* At most one stream feeds the view: whoever opens one aborts the one before,
\* also when two functions consume the same run.
OneStream ==
  \A t, u \in Tasks :
    (t # u /\ task[t].at \in Streaming /\ task[u].at \in Streaming)
      => task[t].aborted \/ task[u].aborted

\* After a switch nothing of the earlier conversation is shown, even when it is
\* made under a running stream: the store, the active run and the approvals at
\* once, messages and latest run when the view is at rest.  A switch during a
\* request, a pause of the stream or a decision is excepted: the continuation of
\* the old function does not ask whose view it writes to.
ShownIsSelected ==
  (~crossed /\ view.conv # None) =>
    /\ view.store # None => task[view.store].conv = view.conv
    /\ view.active # None => view.active \in RunsOf(view.conv)
    /\ view.approvals # None => view.approvals.run \in RunsOf(view.conv)
    /\ (Idle /\ faults = 0) =>
         /\ view.messages.of = view.conv
         /\ view.latest # None => view.latest \in RunsOf(view.conv)

\* What is on the screen is of one conversation, from one stream, each event
\* once (WorkspaceView.tsx, runEventStore.ts).
ShowsOneRun ==
  /\ TypeOK
  /\ StoreInOrder
  /\ OneStream
  /\ ShownIsSelected

\* At rest, when nothing failed and nothing crossed, the view is up to date: it
\* has an active run exactly when a run of the conversation waits for an
\* approval, which is then on the screen, and it shows the final answer of every
\* run whose stream it followed to the end.  A run that ends between the first
\* and the last request of loadConversationState keeps its empty answer: no
\* stream is opened for it, and the messages are not loaded again.  A run whose
\* body was cut is excepted too: the view goes on showing it as active.
RestIsCurrent ==
  (Idle /\ ~crossed /\ faults = 0 /\ view.conv # None) =>
    /\ view.messages.known = RunsOf(view.conv)
    /\ \A t \in Tasks : (task[t].terminal /\ task[t].conv = view.conv)
                        => task[t].run \in view.messages.final
    /\ \/ \E t \in Tasks : task[t].cut /\ task[t].run = view.active
       \/ /\ view.active = ActiveOf(view.conv)
          /\ view.active # None =>
               view.approvals = [run |-> view.active, status |-> "pending"]

\* Every function ends: no stream hangs on a run that has ended or waits, and
\* the view is not busy for ever.
ViewSettles == ~Idle ~> (Idle /\ ~view.busy)
==============================================================================
