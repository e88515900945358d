----------------------------- MODULE VisualCheck -----------------------------
(***************************************************************************)
(* archify's visual-check: a command that opens a delivered HTML artifact  *)
(* in Chrome over the DevTools pipe, measures it at several viewports in   *)
(* the light theme and at two in the dark one, takes screenshots at those  *)
(* two, and leaves a receipt beside the artifact                           *)
(* (bin/visual-check.mjs; commandVisualCheck of bin/archify.mjs).          *)
(*                                                                         *)
(* One check of the artifact runs at a time, MaxRuns of them one after     *)
(* the other; a delivery may replace the artifact at any moment, Chrome    *)
(* may answer with an error, answer late, fall silent or exit, a file may  *)
(* not be writable and the command may be killed.  What Chrome measures is *)
(* a function of the content it loaded (Finds).  The calls of attach()    *)
(* are one call here.  The load event of the blank page Chrome starts with *)
(* is taken to be over when Page.enable is answered.                       *)
(***************************************************************************)
EXTENDS Integers, Sequences, FiniteSets

CONSTANTS
  Contents,     \* what the artifact file can hold
  Viewports,    \* VISUAL_CHECK_VIEWPORTS, smallest first
  Finds(_, _),  \* what Chrome measures of a content at an inspection
  None,
  MaxRuns, MaxEdits, MaxFaults, MaxCrashes

ASSUME VisualCheckAssumption ==
  /\ Viewports \in Seq({Viewports[i] : i \in DOMAIN Viewports})
  /\ Len(Viewports) > 0
  /\ \A n \in {MaxRuns, MaxEdits, MaxFaults, MaxCrashes} : n \in Nat

(***************************************************************************)
(* What is inspected.                                                      *)
(***************************************************************************)
Captured == {Viewports[1], Viewports[Len(Viewports)]}

\* Every viewport in the light theme, then the captured ones in the dark.
Plan ==
  [i \in 1 .. Len(Viewports) |-> <<Viewports[i], "light">>]
    \o <<<<Viewports[1], "dark">>, <<Viewports[Len(Viewports)], "dark">>>>

Shots == {Plan[i] : i \in {k \in DOMAIN Plan : Plan[k][1] \in Captured}}

Metrics ==
  [overflow: BOOLEAN,        \* the document is larger than the viewport
   text:     {None} \cup Nat, \* smallest projected node text, in pixels
   legend:   BOOLEAN,        \* the dock covers the legend
   dock:     BOOLEAN,        \* there is a navigation dock
   overlap:  BOOLEAN,        \* the dock enters the stage
   gap:      Int, need: {None} \cup Nat]

MinText == 6

(***************************************************************************)
(* What an observation says of its metrics (observation).                  *)
(***************************************************************************)
Contained(m) == ~m.overflow

Readable(m) == m.text = None \/ m.text >= MinText

StageOk(m) ==
  m.dock => ~m.overlap /\ m.gap >= (IF m.need = None THEN 0 ELSE m.need) - 1

ChromeOk(m) == ~m.legend /\ StageOk(m)

\* The diagnostics of the observations obs, a function from inspections to
\* metrics.  Text is judged in the light theme only.
Diagnostics(obs) ==
  {<<"viewport-overflow", e>> : e \in {x \in DOMAIN obs : ~Contained(obs[x])}}
  \cup {<<"legend-clearance", e>> : e \in {x \in DOMAIN obs : obs[x].legend}}
  \cup {<<"stage-clearance", e>> : e \in {x \in DOMAIN obs : ~StageOk(obs[x])}}
  \cup {<<"text-readability", e>> :
          e \in {x \in DOMAIN obs : x[2] = "light" /\ ~Readable(obs[x])}}

\* The status of a finished inspection.
Verdict(obs) ==
  IF /\ \A x \in DOMAIN obs : Contained(obs[x]) /\ ChromeOk(obs[x])
     /\ \A x \in DOMAIN obs : x[2] = "light" => Readable(obs[x])
  THEN "pass" ELSE "fail"

(***************************************************************************)
(* State.                                                                  *)
(***************************************************************************)
VARIABLES
  artifact,  \* content of the delivered file
  shots,     \* the screenshots on disk: None or [run, of]
  sheet,     \* the run whose contact sheet is on disk, or None
  receipt,   \* the receipt on disk, or None
  run,       \* number of the latest check
  at,        \* where it stands
  sha,       \* the content it read first
  nth,       \* the inspection it is at
  obs,       \* the observations it has
  page,      \* the content in Chrome's page, or None before the commit
  loaded,    \* the promise of the load event: "none", "armed" or "fired"
  stray,     \* a pending promise of the load event that nobody awaits
  chrome,    \* "none", "up", "broken" (its pipe failed) or "dead"
  out,       \* how the latest check ended
  returned,  \* the artifact changed under this check and changed back
  edits, faults, crashes

vars == <<artifact, shots, sheet, receipt, run, at, sha, nth, obs, page, loaded,
          stray, chrome, out, returned, edits, faults, crashes>>
files == <<shots, sheet, receipt>>
cdp   == <<page, loaded, stray, chrome>>
env   == <<artifact, returned, edits, faults, crashes>>

Calls == {"attach", "override", "navigate", "load", "settle", "measure", "shot"}
Idle  == at \in {"idle", "ended"}

Receipt ==
  [run: 1 .. MaxRuns, of: Contents, status: {"pass", "fail", "skipped"},
   complete: BOOLEAN, diagnostics: SUBSET ({"viewport-overflow",
     "legend-clearance", "stage-clearance", "text-readability", "runtime",
     "unavailable"} \X ({None} \cup {Plan[i] : i \in DOMAIN Plan}))]

ASSUME NoneIsNothing ==
  None \notin Contents \cup Receipt \cup [run: 1 .. MaxRuns, of: Contents]

Init ==
  /\ artifact \in Contents
  /\ shots = [s \in Shots |-> None]
  /\ sheet = None
  /\ receipt = None
  /\ run = 0
  /\ at = "idle"
  /\ sha = None
  /\ nth = 1
  /\ obs = <<>>
  /\ page = None
  /\ loaded = "none"
  /\ stray = FALSE
  /\ chrome = "none"
  /\ out = None
  /\ returned = FALSE
  /\ edits = 0 /\ faults = 0 /\ crashes = 0

(***************************************************************************)
(* runVisualCheck.                                                         *)
(***************************************************************************)
\* Read the artifact and remove the captures of an earlier check.
Begin ==
  /\ Idle /\ run < MaxRuns
  /\ run' = run + 1
  /\ sha' = artifact
  /\ shots' = [s \in Shots |-> None]
  /\ sheet' = None
  /\ at' = "stale"
  /\ nth' = 1 /\ obs' = <<>> /\ out' = None /\ returned' = FALSE
  /\ page' = None /\ loaded' = "none" /\ stray' = FALSE /\ chrome' = "none"
  /\ UNCHANGED <<artifact, receipt, edits, faults, crashes>>

\* Plausible mistake (used by no action): only the captures are removed.
UnlinkReceiptSlip == receipt' = receipt

UnlinkReceipt == receipt' = None

\* ... and its receipt; then find Chrome and launch it.
RemoveReceipt ==
  /\ at = "stale"
  /\ UnlinkReceipt
  /\ \/ at' = "skip" /\ UNCHANGED chrome
     \/ at' = "attach" /\ chrome' = "up"
  /\ UNCHANGED <<shots, sheet, run, sha, nth, obs, page, loaded, stray, out, env>>

\* The receipt names the content that was read first.
Written(status, complete, diagnostics) ==
  [run |-> run, of |-> sha, status |-> status, complete |-> complete,
   diagnostics |-> diagnostics]

\* No Chrome: the check is skipped and says so.
Skip ==
  /\ at = "skip"
  /\ receipt' = Written("skipped", FALSE, {<<"unavailable", None>>})
  /\ at' = "ended" /\ out' = "skipped"
  /\ UNCHANGED <<shots, sheet, run, sha, nth, obs, cdp, env>>

(***************************************************************************)
(* Chrome and the pipe: a call is answered, refused, or runs into its      *)
(* timeout; an answer that comes later finds no pending call and is        *)
(* dropped.                                                                *)
(***************************************************************************)
\* The next inspection, or the end of them.
Advance ==
  /\ nth' = nth + 1
  /\ page' = None /\ loaded' = "none"
  /\ at' = IF nth = Len(Plan) THEN "recheck" ELSE "override"

\* Chrome navigates: it reads the artifact as it is now.
Commit ==
  /\ at = "navigate" /\ chrome = "up" /\ page = None
  /\ page' = artifact
  /\ UNCHANGED <<files, run, at, sha, nth, obs, loaded, stray, chrome, out, env>>

\* The load event of the committed page.
LoadFires ==
  /\ loaded = "armed" /\ chrome = "up" /\ page # None /\ ~stray
  /\ at \in {"navigate", "load"}
  /\ loaded' = "fired"
  /\ UNCHANGED <<files, run, at, sha, nth, obs, page, stray, chrome, out, env>>

\* The answer to a call, and what inspect does with it.
Answer ==
  /\ chrome = "up"
  /\ \/ at = "attach" /\ at' = "override" /\ UNCHANGED <<nth, page, loaded, obs>>
     \/ \* the waiter of the load event is registered before the navigation
        /\ at = "override" /\ at' = "navigate" /\ loaded' = "armed"
        /\ UNCHANGED <<nth, page, obs>>
     \/ /\ at = "navigate" /\ page # None
        /\ at' = "load" /\ UNCHANGED <<nth, page, loaded, obs>>
     \/ /\ at = "load" /\ loaded = "fired"
        /\ at' = "settle" /\ UNCHANGED <<nth, page, loaded, obs>>
     \/ at = "settle" /\ at' = "measure" /\ UNCHANGED <<nth, page, loaded, obs>>
     \/ /\ at = "measure"
        /\ obs' = [x \in DOMAIN obs \cup {Plan[nth]} |->
                     IF x = Plan[nth] THEN Finds(page, x) ELSE obs[x]]
        /\ IF Plan[nth] \in Shots
           THEN at' = "shot" /\ UNCHANGED <<nth, page, loaded>>
           ELSE Advance
  /\ UNCHANGED <<files, run, sha, stray, chrome, out, env>>

\* The screenshot comes and is written.
Capture ==
  /\ at = "shot" /\ chrome = "up"
  /\ shots' = [shots EXCEPT ![Plan[nth]] = [run |-> run, of |-> page]]
  /\ Advance
  /\ UNCHANGED <<sheet, receipt, run, sha, obs, stray, chrome, out, env>>

\* inspect throws: the promise of the load event, when it is still pending,
\* is one that nobody will await any more.
Throw ==
  /\ at' = "catch"
  /\ stray' = (at = "navigate" /\ loaded = "armed")

\* An error reply, an error text, incomplete metrics, an empty screenshot, a
\* screenshot that cannot be written.
ErrorReply ==
  /\ at \in Calls \ {"load"} /\ chrome = "up" /\ faults < MaxFaults
  /\ faults' = faults + 1
  /\ Throw
  /\ UNCHANGED <<files, run, sha, nth, obs, page, loaded, chrome, out,
                 artifact, returned, edits, crashes>>

\* A call is not answered in time.  During a navigation the waiter's timer,
\* the older one, comes first (LoadTimesOut).
Timeout ==
  /\ at \in Calls /\ ~(at = "navigate" /\ loaded = "armed")
  /\ ~(at = "load" /\ loaded = "fired")
  /\ faults < MaxFaults
  /\ faults' = faults + 1
  /\ Throw
  /\ UNCHANGED <<files, run, sha, nth, obs, page, loaded, chrome, out,
                 artifact, returned, edits, crashes>>

\* The waiter times out while the navigation is still awaited: its rejection
\* has no handler, and the process ends there.
LoadTimesOut ==
  /\ at = "navigate" /\ loaded = "armed" /\ faults < MaxFaults
  /\ faults' = faults + 1
  /\ at' = "ended" /\ out' = "uncaught"
  /\ UNCHANGED <<files, run, sha, nth, obs, cdp, artifact, returned, edits, crashes>>

\* The pipe fails or Chrome exits: every pending call is rejected (failAll).
\* A call made after that is rejected when it is written.
ChromeFails ==
  /\ at \in Calls /\ chrome = "up" /\ faults < MaxFaults
  /\ faults' = faults + 1
  /\ chrome' \in {"broken", "dead"}
  /\ Throw
  /\ UNCHANGED <<files, run, sha, nth, obs, page, loaded, out,
                 artifact, returned, edits, crashes>>

(***************************************************************************)
(* The end of the check.                                                   *)
(***************************************************************************)
\* Plausible mistake (used by no action): the artifact is not read again.
StillTheSameSlip == TRUE

StillTheSame == artifact = sha

\* The artifact is read again; a changed one is an error.
Recheck ==
  /\ at = "recheck"
  /\ at' = IF StillTheSame THEN "sheet" ELSE "catch"
  /\ UNCHANGED <<files, run, sha, nth, obs, cdp, out, env>>

WriteSheet ==
  /\ at = "sheet"
  /\ sheet' = run
  /\ at' = "receipt"
  /\ UNCHANGED <<shots, receipt, run, sha, nth, obs, cdp, out, env>>

WriteReceipt ==
  /\ at = "receipt"
  /\ receipt' = Written(Verdict(obs), TRUE, Diagnostics(obs))
  /\ out' = Verdict(obs)
  /\ at' = "close"
  /\ UNCHANGED <<shots, sheet, run, sha, nth, obs, cdp, env>>

\* cleanupCaptureSidecars
Cleanup ==
  /\ shots' = [s \in Shots |-> None]
  /\ sheet' = None

\* The catch block: no captures, a receipt that says fail.
Catch ==
  /\ at = "catch"
  /\ Cleanup
  /\ receipt' = Written("fail", FALSE, {<<"runtime", None>>})
  /\ out' = "fail"
  /\ at' = "close"
  /\ UNCHANGED <<run, sha, nth, obs, cdp, env>>

\* A sidecar cannot be written: in the try block that is one more error, in
\* the catch block the command ends with an error and no receipt.
WriteFails ==
  /\ at \in {"skip", "sheet", "receipt", "catch"} /\ faults < MaxFaults
  /\ faults' = faults + 1
  /\ IF at \in {"sheet", "receipt"}
     THEN at' = "catch" /\ UNCHANGED <<out, shots, sheet>>
     ELSE /\ out' = "error"
          /\ IF at = "catch" THEN at' = "close" /\ Cleanup
                             ELSE at' = "ended" /\ UNCHANGED <<shots, sheet>>
  /\ UNCHANGED <<receipt, run, sha, nth, obs, cdp, artifact, returned, edits, crashes>>

\* Plausible mistake (used by no action): no SIGKILL after the SIGTERM.
GoneSlip == chrome = "dead"

\* A Chrome that does not exit in 1.5 s is killed; close goes on either way.
Gone == TRUE

\* browser.close: a stray promise is rejected, which ends the process before
\* it reports unless Chrome is gone already and nothing is awaited.
Close ==
  /\ at = "close" /\ Gone
  /\ out' = IF stray /\ chrome # "dead" THEN "uncaught" ELSE out
  /\ at' = "ended"
  /\ chrome' = "dead" /\ stray' = FALSE
  /\ UNCHANGED <<files, run, sha, nth, obs, page, loaded, env>>

(***************************************************************************)
(* Around it.                                                              *)
(***************************************************************************)
\* A delivery replaces the artifact.
Deliver ==
  /\ edits < MaxEdits
  /\ \E c \in Contents \ {artifact} :
       /\ artifact' = c
       /\ returned' = (returned \/ (~Idle /\ c = sha))
  /\ edits' = edits + 1
  /\ UNCHANGED <<files, run, at, sha, nth, obs, cdp, out, faults, crashes>>

Kill ==
  /\ ~Idle /\ crashes < MaxCrashes
  /\ crashes' = crashes + 1
  /\ at' = "ended" /\ out' = "killed"
  /\ UNCHANGED <<files, run, sha, nth, obs, cdp, artifact, returned, edits, faults>>

\* Every check that could be started has ended, or one waits for its Chrome.
Rest == ((Idle /\ run = MaxRuns) \/ at = "close") /\ UNCHANGED vars

Command == RemoveReceipt \/ Skip \/ Recheck \/ WriteSheet \/ WriteReceipt
             \/ Catch \/ Close
Browser == Commit \/ LoadFires \/ Answer \/ Capture

Next == Begin \/ Command \/ Browser \/ ErrorReply \/ Timeout \/ LoadTimesOut
          \/ ChromeFails \/ WriteFails \/ Deliver \/ Kill \/ Rest

\* Node runs what it can run; Chrome answers, or the calls run out of time.
Fairness == WF_vars(Command) /\ WF_vars(Browser \/ Timeout \/ LoadTimesOut)

Spec == Init /\ [][Next]_vars /\ Fairness

(***************************************************************************)
(* Properties.                                                             *)
(***************************************************************************)
\* The receipt, the captures and the state of the check have their types.
TypeOK ==
  /\ artifact \in Contents /\ run \in 0 .. MaxRuns
  /\ at \in Calls \cup {"idle", "stale", "skip", "recheck", "sheet", "receipt",
                        "catch", "close", "ended"}
  /\ shots \in [Shots -> {None} \cup [run: 1 .. MaxRuns, of: Contents]]
  /\ sheet \in {None} \cup 1 .. MaxRuns
  /\ receipt = None \/ receipt \in Receipt
  /\ nth \in 1 .. Len(Plan) + 1
  /\ page \in {None} \cup Contents
  /\ loaded \in {"none", "armed", "fired"} /\ stray \in BOOLEAN
  /\ out \in {None, "pass", "fail", "skipped", "error", "uncaught", "killed"}

\* What lies beside the artifact is the evidence of one check: a capture or a
\* contact sheet never stands beside the receipt of another run, whatever was
\* killed in between (runVisualCheck removes both before it inspects).
EvidenceOfOneRun ==
  receipt # None =>
    /\ \A s \in Shots : shots[s] # None => shots[s].run = receipt.run
    /\ sheet # None => sheet = receipt.run

\* A check that ends with exit code 0 or with a defect it measured has left
\* its receipt, the contact sheet and every screenshot, all of the content
\* whose hash the receipt names.  Only a file that changed and changed back
\* escapes the second reading.
CompleteIsWhole ==
  (at = "ended" /\ out \in {"pass", "fail"} /\ receipt.complete) =>
    /\ receipt.run = run /\ receipt.status = out /\ sheet = run
    /\ \A s \in Shots : shots[s] # None
    /\ ~returned => \A s \in Shots : shots[s].of = receipt.of

\* A check that failed on the way, or was skipped, leaves no capture and no
\* contact sheet (delivery-contract.md, "Failed or skipped capture runs").
IncompleteIsBare ==
  (at = "ended" /\ out \in {"fail", "skipped", "error"}
     /\ (receipt = None \/ ~receipt.complete)) =>
    sheet = None /\ \A s \in Shots : shots[s] = None

\* A receipt passes exactly when it has no diagnostic, and a content that
\* overflows or is covered in any inspected theme, or is unreadable in the
\* light one, does not pass (observationDiagnostics and the three statuses).
DiagnosticsExplain ==
  (receipt # None /\ receipt.status # "skipped") =>
    (receipt.status = "pass" <=> receipt.diagnostics = {})

\* Receipt, captures and contact sheet say the same of the same run, or are not
\* there (visual-check.mjs).
EvidenceAgrees ==
  /\ TypeOK
  /\ EvidenceOfOneRun
  /\ IncompleteIsBare
  /\ DiagnosticsExplain

\* Every check ends, whatever Chrome does: each call has a timeout, and a
\* Chrome that does not exit is killed.
CheckEnds == ~Idle ~> Idle
==============================================================================
