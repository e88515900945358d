------------------------------ MODULE Preview ------------------------------
(***************************************************************************)
(* The live preview of the archify skill (bin/preview.mjs): a server that  *)
(* watches one source, builds each stable content of it in a child         *)
(* process, and publishes what that child verified to a file and to pages. *)
(*                                                                         *)
(* The server is one thread; an action is one of its callbacks, or a step  *)
(* of the editor, of a page or of the operating system.  A content and its *)
(* digest are one value.  artifactBuffer, lastVerified and the output file *)
(* are written by one callback and are all state.last.                     *)
(***************************************************************************)
EXTENDS Naturals, Sequences

(* A definition named XSlip is a plausible mistake in the code of X; the   *)
(* specification never uses it.                                            *)

CONSTANTS
  Content,    \* contents of the source; a missing file is one of them
  Artifact,   \* what verified contents are rendered to
  ArtifactOf, \* ArtifactOf[c]: the artifact of c, or Nil if c is rejected
  Page,       \* browser pages
  Nil,
  MaxSaves,   \* bound: saves of the source
  MaxFailures,  \* bound: children that crash or hang, files that cannot be written
  MaxOpens,   \* bound: times a page is loaded
  MaxStops    \* bound: calls of stop

ASSUME ArtifactsAreGiven == ArtifactOf \in [Content -> Artifact \union {Nil}]

VARIABLES
  source,   \* what the input file holds
  queued,   \* queuedHash
  armed,    \* the debounce timer runs
  child,    \* the delivery that runs, or Nil
  pending,  \* pendingBuild
  good,     \* lastGoodSourceHash
  state,    \* the public state
  pages,     \* pages[p]
  stopping, \* stop was called
  drain,    \* which timer of the bounded drain runs
  closed,   \* serverClosed
  stopped,  \* the staging directory is gone and closed is resolved
  used      \* what the bounds count

server == <<queued, armed, child, pending, good, state>>
ending == <<stopping, drain, closed, stopped>>
previewVars == <<source, server, pages, ending, used>>

Valid(c) == ArtifactOf[c] # Nil

(* activeEpoch # sourceEpoch is kept as child.stale: sourceEpoch only      *)
(* grows, and a build starts with the two equal.  signal is the strongest  *)
(* one the child got, hung says that it will not end by itself.            *)
Child == [hash: Content, stale: BOOLEAN, hung: BOOLEAN,
          signal: {"none", "term", "kill"}]

ASSUME NilIsNothing == Nil \notin Content \union Artifact \union Child

State == [status: {"checking", "verified", "needs-fix"},
          revision: Nat, last: Artifact \union {Nil}]

(* inbox: events on their way; seen: lastRevision; told: the status shown; *)
(* loading: the frame requests the artifact; shown: what the frame shows.  *)
PageState == [open: BOOLEAN, inbox: Seq(State), seen: Nat,
              told: {"checking", "verified", "needs-fix"},
              loading: BOOLEAN, shown: Artifact \union {Nil}]
ClosedPage == [open |-> FALSE, inbox |-> <<>>, seen |-> 0,
               told |-> "checking", loading |-> FALSE, shown |-> Nil]

(* observeSource({ immediate: true }) at the start *)
PreviewInit ==
  /\ source \in Content
  /\ queued = source /\ armed = TRUE
  /\ child = Nil /\ pending = FALSE
  /\ good = Nil
  /\ state = [status |-> "checking", revision |-> 0, last |-> Nil]
  /\ pages = [p \in Page |-> ClosedPage]
  /\ stopping = FALSE /\ drain = "none" /\ closed = FALSE /\ stopped = FALSE
  /\ used = [edits |-> 0, faults |-> 0, opens |-> 0, stops |-> 0]

Count(what, bound) ==
  used[what] < bound /\ used' = [used EXCEPT ![what] = @ + 1]

(* broadcast: the state goes to every page that listens. *)
Publish(next) ==
  /\ state' = next
  /\ pages' = [p \in Page |->
       IF pages[p].open THEN [pages[p] EXCEPT !.inbox = Append(@, next)]
                       ELSE pages[p]]

Unpublished == UNCHANGED <<state, pages>>

Failed == [state EXCEPT !.status = "needs-fix"]

-----------------------------------------------------------------------------
(* The source *)

(* The editor saves, deletes or restores the file. *)
Edit ==
  /\ Count("edits", MaxSaves)
  /\ \E c \in Content \ {source} : source' = c
  /\ UNCHANGED <<server, pages, ending>>

(* observeSource, called by the watcher and by the poll timer *)
Observe ==
  /\ ~stopping
  /\ source # queued
  /\ queued' = source /\ armed' = TRUE
  /\ child' = IF child = Nil THEN Nil ELSE [child EXCEPT !.stale = TRUE]
  /\ UNCHANGED <<source, pending, good, state, pages, ending, used>>

-----------------------------------------------------------------------------
(* launch, which the debounce timer calls *)

(* The content has changed since it was queued. *)
Requeue ==
  /\ armed /\ source # queued
  /\ queued' = source
  /\ UNCHANGED <<source, armed, child, pending, good, state, pages, ending, used>>

Stable == armed /\ source = queued

(* The content is the one that was verified last. *)
Restore ==
  /\ Stable /\ source = good
  /\ armed' = FALSE
  /\ IF state.status # "verified"
     THEN Publish([state EXCEPT !.status = "verified"])
     ELSE UNCHANGED <<state, pages>>
  /\ UNCHANGED <<source, queued, child, pending, good, ending, used>>

Defer ==
  /\ Stable /\ source # good /\ child # Nil
  /\ armed' = FALSE /\ pending' = TRUE
  /\ UNCHANGED <<source, queued, child, good, state, pages, ending, used>>

(* beginBuild: the child gets a snapshot of the content. *)
BeginBuild ==
  /\ Stable /\ source # good /\ child = Nil
  /\ armed' = FALSE
  /\ \E hung \in BOOLEAN :
       /\ IF hung THEN Count("faults", MaxFailures) ELSE UNCHANGED used
       /\ child' = [hash |-> source, stale |-> FALSE, hung |-> hung,
                    signal |-> "none"]
  /\ Publish([state EXCEPT !.status = "checking"])
  /\ UNCHANGED <<source, queued, pending, good, ending>>

(* The snapshot cannot be written.  The event "checking" before the        *)
(* failure is left out.                                                    *)
PrepareFails ==
  /\ Stable /\ source # good /\ child = Nil
  /\ Count("faults", MaxFailures)
  /\ armed' = FALSE
  /\ Publish(Failed)
  /\ UNCHANGED <<source, queued, child, pending, good, ending>>

-----------------------------------------------------------------------------
(* child.on('close') *)

(* A hung child ends only by a signal, and may ignore SIGTERM. *)
Ends ==
  /\ child # Nil
  /\ child.hung => child.signal # "none"
  /\ child' = Nil /\ drain' = "none"

(* Whether the source is queued again behind a build. *)
AfterBuild(superseded) ==
  IF pending \/ child.stale \/ superseded
  THEN queued' = source /\ armed' = TRUE /\ pending' = FALSE
  ELSE UNCHANGED <<queued, armed, pending>>

(* finishStop *)
MayFinish(noChild, isClosed) == noChild /\ isClosed

EndsInStop ==
  /\ Ends /\ stopping
  /\ stopped' = MayFinish(TRUE, closed)
  /\ UNCHANGED <<source, queued, armed, pending, good, state, pages, stopping,
                 closed, used>>

EndsStale ==
  /\ Ends /\ ~stopping /\ child.stale
  /\ AfterBuild(FALSE)
  /\ UNCHANGED <<source, good, state, pages, stopping, closed, stopped, used>>

SupersededSlip == FALSE

(* commitCandidate looks at the source once more, which may have changed   *)
(* although nobody has observed it yet.                                    *)
Superseded == source # child.hash

Supersede ==
  /\ Ends /\ ~stopping /\ ~child.stale /\ Valid(child.hash)
  /\ Superseded
  /\ AfterBuild(TRUE)
  /\ UNCHANGED <<source, good, state, pages, stopping, closed, stopped, used>>

(* A build with the artifact of the one before it is no new revision. *)
Verified(artifact) ==
  [status |-> "verified", last |-> artifact,
   revision |-> state.revision + IF artifact = state.last THEN 0 ELSE 1]

CommitCandidate ==
  /\ Ends /\ ~stopping /\ ~child.stale /\ Valid(child.hash)
  /\ ~Superseded
  /\ good' = child.hash
  /\ Publish(Verified(ArtifactOf[child.hash]))
  /\ AfterBuild(FALSE)
  /\ UNCHANGED <<source, stopping, closed, stopped, used>>

(* publishFailure: the content is rejected, or the child crashed, or the   *)
(* output file cannot be written. *)
Fail ==
  /\ Ends /\ ~stopping /\ ~child.stale
  /\ IF Valid(child.hash) THEN Count("faults", MaxFailures) ELSE UNCHANGED used
  /\ Publish(Failed)
  /\ AfterBuild(FALSE)
  /\ UNCHANGED <<source, good, stopping, closed, stopped>>

-----------------------------------------------------------------------------
(* stop *)

SignalSlip(s) ==
  child' = [child EXCEPT !.signal = IF @ = "none" THEN s ELSE @]

Signal(s) ==
  child' = [child EXCEPT !.signal = IF @ = "kill" THEN @ ELSE s]

(* stop({ force }): timers and streams end with the first call; a child is *)
(* drained, or killed at once.                                             *)
Stop(force) ==
  /\ ~stopped
  /\ Count("stops", MaxStops)
  /\ stopping' = TRUE
  /\ armed' = FALSE
  /\ pages' = [p \in Page |-> [pages[p] EXCEPT !.open = FALSE]]
  /\ IF child = Nil
     THEN UNCHANGED <<child, drain>>
     ELSE IF force
     THEN Signal("kill") /\ drain' = "none"
     ELSE drain' = (IF drain = "none" THEN "grace" ELSE drain) /\ UNCHANGED child
  /\ stopped' = MayFinish(child = Nil, closed)
  /\ UNCHANGED <<source, queued, pending, good, state, closed>>

GraceEnds ==
  /\ drain = "grace"
  /\ drain' = "kill"
  /\ Signal("term")
  /\ UNCHANGED <<source, queued, armed, pending, good, state, pages, stopping,
                 closed, stopped, used>>

KillEnds ==
  /\ drain = "kill"
  /\ drain' = "none"
  /\ Signal("kill")
  /\ UNCHANGED <<source, queued, armed, pending, good, state, pages, stopping,
                 closed, stopped, used>>

ServerCloses ==
  /\ stopping /\ ~closed
  /\ closed' = TRUE
  /\ stopped' = MayFinish(child = Nil, TRUE)
  /\ UNCHANGED <<source, server, pages, stopping, drain, used>>

-----------------------------------------------------------------------------
(* Pages *)

(* The page is loaded, or loaded again, and listens to /events. *)
Open(p) ==
  /\ ~stopping
  /\ Count("opens", MaxOpens)
  /\ pages' = [pages EXCEPT ![p] =
       [ClosedPage EXCEPT !.open = TRUE, !.inbox = <<state>>]]
  /\ UNCHANGED <<source, server, ending>>

(* The EventSource reconnects: what was on its way is lost. *)
Reconnect(p) ==
  /\ ~stopping /\ pages[p].open
  /\ Count("opens", MaxOpens)
  /\ pages' = [pages EXCEPT ![p].inbox = <<state>>]
  /\ UNCHANGED <<source, server, ending>>

NewsSlip(p, event) == event.status = "verified" /\ pages[p].seen = 0

(* render requests the artifact. *)
News(p, event) ==
  event.status = "verified" /\ event.revision # pages[p].seen

Render(p) ==
  LET event == Head(pages[p].inbox)
  IN
  /\ pages[p].inbox # <<>>
  /\ pages' = [pages EXCEPT ![p] =
       [pages[p] EXCEPT !.inbox = Tail(@), !.told = event.status,
                       !.seen = IF News(p, event) THEN event.revision ELSE @,
                       !.loading = @ \/ News(p, event)]]
  /\ UNCHANGED <<source, server, ending, used>>

(* GET /artifact.html: what the server has now. *)
Load(p) ==
  /\ ~stopping /\ pages[p].loading
  /\ pages' = [pages EXCEPT ![p].loading = FALSE, ![p].shown = state.last]
  /\ UNCHANGED <<source, server, ending, used>>

-----------------------------------------------------------------------------
Launch == Requeue \/ Restore \/ Defer \/ BeginBuild \/ PrepareFails
ChildEnds == EndsInStop \/ EndsStale \/ Supersede \/ CommitCandidate \/ Fail

PreviewNext ==
  \/ Edit \/ Observe \/ Launch \/ ChildEnds
  \/ GraceEnds \/ KillEnds \/ ServerCloses
  \/ \E force \in BOOLEAN : Stop(force)
  \/ \E p \in Page : Open(p) \/ Reconnect(p) \/ Render(p) \/ Load(p)

(* Timers fire, the poll timer sees what the watcher missed, a delivery    *)
(* that does not hang ends, and SIGKILL ends one that does.                *)
PreviewFairness ==
  /\ WF_previewVars(Observe) /\ WF_previewVars(Launch)
  /\ WF_previewVars((child # Nil => ~child.hung \/ child.signal = "kill") /\ ChildEnds)
  /\ WF_previewVars(GraceEnds) /\ WF_previewVars(KillEnds) /\ WF_previewVars(ServerCloses)
  /\ \A p \in Page : WF_previewVars(Render(p)) /\ WF_previewVars(Load(p))

PreviewSpec == PreviewInit /\ [][PreviewNext]_previewVars /\ PreviewFairness

-----------------------------------------------------------------------------
(* Properties *)

(* The variables keep their shape; a build is deferred only behind one     *)
(* that is stale, a drain has a child, and only a stop without a child is  *)
(* complete.                                                               *)
PreviewTypeOK ==
  /\ source \in Content /\ queued \in Content
  /\ armed \in BOOLEAN /\ pending \in BOOLEAN
  /\ child \in Child \union {Nil}
  /\ good \in Content \union {Nil}
  /\ state \in State
  /\ pages \in [Page -> PageState]
  /\ stopping \in BOOLEAN /\ closed \in BOOLEAN /\ stopped \in BOOLEAN
  /\ drain \in {"none", "grace", "kill"}
  /\ pending /\ ~stopping => child # Nil /\ child.stale
  /\ drain # "none" => child # Nil /\ stopping
  /\ stopped => child = Nil /\ stopping /\ closed

(* When nothing is under way, "verified" is said of the content that was   *)
(* queued last, and no other.                                              *)
VerifiedIsQueued ==
  state.status = "verified" /\ ~armed /\ child = Nil /\ ~stopping
  => queued = good /\ state.last = ArtifactOf[good]

(* A superseded or drained build publishes nothing: the file and the       *)
(* pages only ever get the artifact of what the source holds at that time. *)
PublishesSource ==
  [][state'.last # state.last
     => /\ Valid(source) /\ state'.last = ArtifactOf[source]
        /\ ~stopping]_previewVars

(* What the server shows and says is about the source it was given         *)
(* (preview.mjs).                                                          *)
PublishedIsSound ==
  /\ [](PreviewTypeOK /\ VerifiedIsQueued)
  /\ PublishesSource

(* Once the source rests, and no delivery hangs, the server ends with the  *)
(* verdict on what the source holds, whatever it missed in between.        *)
Settled ==
  /\ ~armed /\ child = Nil /\ queued = source
  /\ state.status = "verified" => good = source
  /\ state.status # "checking"
  /\ state.status = "needs-fix" => ~Valid(source) \/ used.faults > 0
Converges ==
  <>[](stopping \/ Settled \/ (child # Nil /\ child.hung))

(* A page that says "verified" ends with the artifact verified last.       *)
PageCatchesUp ==
  \A p \in Page :
    <>[](stopping \/ (pages[p].open /\ pages[p].told = "verified"
                      => pages[p].shown = state.last))

(* The server follows the file, and pages follow the server, to the end    *)
(* (preview.mjs).                                                          *)
PagesFollow ==
  /\ Converges
  /\ PageCatchesUp

(* stop ends, with a delivery that hangs and ignores SIGTERM, and in any   *)
(* order of its timers, signals and calls.                                 *)
StopEnds == stopping ~> stopped
=============================================================================
