----------------------------- MODULE DeltaReview -----------------------------
(***************************************************************************)
(* The script inside a comparison's HTML (delta/architecture-delta.mjs,    *)
(* renderArchitectureDeltaHtml) that walks through the changes: a reader   *)
(* presses buttons and keys, a timer plays the rows one after the other,   *)
(* and the page may be altered under the script.                           *)
(*                                                                         *)
(* Rows are 1..Rows; index 0 is the overview (activeIndex -1).  What the   *)
(* script keeps and shows is one record: each function of the script takes *)
(* it to the next.  Wording, themes and the two exports, which read the    *)
(* page and change none of this, are left out.                             *)
(***************************************************************************)
EXTENDS Integers, FiniteSets

CONSTANTS
  Rows,        \* how many change rows the page has
  MaxToken     \* bound on playbackToken: the reader stops acting there

ASSUME ReviewAssumption == Rows \in Nat /\ MaxToken \in Nat

VARIABLES
  review,      \* what the script keeps and shows
  intact,      \* the rows whose targets in the drawing carry the signature
  reduced,     \* prefers-reduced-motion
  onButton     \* the focus is on a button

reviewVars == <<review, intact, reduced, onButton>>

Views == {"base", "delta", "head"}

(***************************************************************************)
(* The functions of the script.                                            *)
(***************************************************************************)
ShowView(s, v) == [s EXCEPT !.view = v]

\* stopPlayback
StopPlayback(s) ==
  [s EXCEPT !.token = @ + 1, !.timers = @ \ {s.handle}, !.handle = 0, !.playing = FALSE]

\* Plausible mistake (used nowhere): the marks stay on the drawing.
FailReviewSlip(s) ==
  [StopPlayback(s) EXCEPT !.available = FALSE, !.index = 0, !.current = 0, !.enabled = {}]

\* failReview
FailReview(s) ==
  [StopPlayback(s) EXCEPT !.available = FALSE, !.index = 0, !.marked = {}, !.current = 0,
                          !.enabled = {}]

\* updateControls
UpdateControls(s) ==
  [s EXCEPT !.enabled = IF ~s.available \/ s.index = 0 THEN {}
                        ELSE {"overview"} \cup (IF s.index > 1 THEN {"previous"} ELSE {})
                               \cup (IF s.index < Rows THEN {"next"} ELSE {})]

\* selectChange; it returned true exactly when the result is on row i.
SelectChange(s, i) ==
  IF ~s.available \/ i \notin 1 .. Rows THEN s
  ELSE IF i \notin intact THEN FailReview(s)
  ELSE UpdateControls([ShowView(s, "delta") EXCEPT !.marked = {i}, !.current = i, !.index = i])

\* overview
Overview(s) ==
  IF ~s.available THEN FailReview(s)
  ELSE UpdateControls([ShowView(StopPlayback(s), "delta") EXCEPT
                         !.index = 0, !.marked = {}, !.current = 0])

\* Plausible mistake (used nowhere): the end of the rows is not looked for.
SchedulePlaybackSlip(s, t) ==
  IF ~s.playing \/ t # s.token THEN s
  ELSE [s EXCEPT !.timers = @ \cup {t}, !.handle = t]

\* schedulePlayback
SchedulePlayback(s, t) ==
  IF s.index >= Rows THEN StopPlayback(s)
  ELSE IF ~s.playing \/ t # s.token THEN s
  ELSE [s EXCEPT !.timers = @ \cup {t}, !.handle = t]

\* startReview
StartReview(s) ==
  IF ~s.available THEN s
  ELSE IF s.playing THEN StopPlayback(s)
  ELSE LET first == SelectChange(StopPlayback(s), 1)
       IN IF first.index # 1 \/ reduced \/ Rows < 2 THEN first
          ELSE SchedulePlayback([first EXCEPT !.playing = TRUE, !.token = @ + 1],
                                first.token + 1)

(***************************************************************************)
(* Init and the events.                                                    *)
(***************************************************************************)
FreshReview ==
  [index |-> 0, token |-> 0, timers |-> {}, handle |-> 0, playing |-> FALSE,
   available |-> TRUE, view |-> "delta", marked |-> {}, current |-> 0, enabled |-> {}]

\* validateReview: every row is found in the drawing when the page loads.
DeltaInit ==
  /\ intact \in {(1 .. Rows), (1 .. Rows) \ {Rows}}
  /\ reduced \in BOOLEAN
  /\ onButton = FALSE
  /\ review = IF intact = 1 .. Rows THEN UpdateControls(FreshReview) ELSE FailReview(FreshReview)

MayAct == review.token < MaxToken

\* A button takes the focus before it is clicked.
FocusIn ==
  /\ MayAct /\ ~onButton
  /\ onButton' = TRUE
  /\ review' = IF review.playing THEN StopPlayback(review) ELSE review
  /\ UNCHANGED <<intact, reduced>>

FocusOut ==
  /\ onButton /\ onButton' = FALSE /\ UNCHANGED <<review, intact, reduced>>

Press(next) ==
  MayAct /\ onButton /\ review' = next /\ UNCHANGED <<intact, reduced, onButton>>

Tab         == \E v \in Views : Press(ShowView(StopPlayback(review), v))
PickRow     == \E i \in 1 .. Rows :
                 review.available /\ Press(SelectChange(StopPlayback(review), i))
Previous    == "previous" \in review.enabled
                 /\ Press(SelectChange(StopPlayback(review), review.index - 1))
NextRow     == "next" \in review.enabled
                 /\ Press(SelectChange(StopPlayback(review), review.index + 1))
ToOverview  == "overview" \in review.enabled /\ Press(Overview(review))
Play        == review.available /\ Rows > 0 /\ Press(StartReview(review))

\* The arrow keys move the focus along the rows.
Arrows == review.available /\ Press(StopPlayback(review))

Escape ==
  /\ MayAct /\ review.index > 0
  /\ review' = Overview(review) /\ onButton' = TRUE
  /\ UNCHANGED <<intact, reduced>>

BeforePrint == MayAct /\ review' = Overview(review) /\ UNCHANGED <<intact, reduced, onButton>>

HidePage == MayAct /\ review' = StopPlayback(review) /\ UNCHANGED <<intact, reduced, onButton>>

MotionChange ==
  /\ MayAct /\ reduced' = ~reduced
  /\ review' = IF reduced' THEN StopPlayback(review) ELSE review
  /\ UNCHANGED <<intact, onButton>>

\* The callback of the timeout that was set with token t.
Fire ==
  \E t \in review.timers :
    LET s == [review EXCEPT !.timers = @ \ {t}]
        n == SelectChange(s, s.index + 1)
    IN /\ review' = IF ~s.playing \/ t # s.token THEN s
                    ELSE IF n.index # s.index + 1 THEN n
                    ELSE SchedulePlayback(n, t)
       /\ UNCHANGED <<intact, reduced, onButton>>

\* Something else on the page removes or alters a target.
Alter ==
  \E i \in intact : intact' = intact \ {i} /\ UNCHANGED <<review, reduced, onButton>>

DeltaNext ==
  FocusIn \/ FocusOut \/ Tab \/ PickRow \/ Previous \/ NextRow \/ ToOverview \/ Play \/ Arrows
    \/ Escape \/ BeforePrint \/ HidePage \/ MotionChange \/ Fire \/ Alter

\* A browser fires the timers it was given.
DeltaSpec == DeltaInit /\ [][DeltaNext]_reviewVars /\ WF_reviewVars(Fire)

(***************************************************************************)
(* Properties.                                                             *)
(***************************************************************************)
DeltaTypeOK ==
  /\ review \in [index : 0 .. Rows, token : 0 .. MaxToken + 2, timers : SUBSET (1 .. MaxToken + 2),
                 handle : 0 .. MaxToken + 2, playing : BOOLEAN, available : BOOLEAN,
                 view : Views, marked : SUBSET (1 .. Rows), current : 0 .. Rows,
                 enabled : SUBSET {"overview", "previous", "next"}]
  /\ intact \subseteq 1 .. Rows
  /\ reduced \in BOOLEAN /\ onButton \in BOOLEAN

\* A timeout is pending exactly while the review plays, it is the one that can be
\* cleared, and the rows then are on the screen of a reader who allows motion.
OneClock ==
  /\ review.timers = IF review.playing THEN {review.token} ELSE {}
  /\ review.playing => /\ review.handle = review.token
                       /\ review.view = "delta" /\ 1 <= review.index /\ review.index < Rows
                       /\ review.available /\ ~reduced

\* What is highlighted, what the list calls current and which buttons can be
\* pressed agree with the row the review is on; after a failure nothing is left.
HighlightAgrees ==
  /\ review.marked = IF review.index = 0 THEN {} ELSE {review.index}
  /\ review.current = review.index
  /\ "previous" \in review.enabled <=> review.available /\ review.index \in 2 .. Rows
  /\ "next" \in review.enabled <=> review.available /\ review.index \in 1 .. Rows - 1
  /\ "overview" \in review.enabled <=> review.available /\ review.index # 0
  /\ ~review.available => review.index = 0

\* The page of a comparison runs one timer and highlights what its panel says, in
\* whatever order its reader and its browser call it.
ReviewSound ==
  /\ DeltaTypeOK
  /\ OneClock
  /\ HighlightAgrees
==============================================================================
