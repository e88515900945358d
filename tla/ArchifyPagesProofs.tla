------------------------- MODULE ArchifyPagesProofs -------------------------
(***************************************************************************)
(* Proofs about what archify shows and leaves beside an artifact: the      *)
(* evidence of a visual check is that of one run, whole or absent; the     *)
(* live preview publishes and claims only what is so; the page of a        *)
(* comparison runs one timer and highlights the row it is on.  Each part   *)
(* holds for all values of the constants of its module.                    *)
(***************************************************************************)
EXTENDS VisualCheck, Preview, DeltaReview, SequenceTheorems, TLAPS

(***************************************************************************)
(* The visual check                                                        *)
(***************************************************************************)

-----------------------------------------------------------------------------
(* The inductive invariant *)

Inspection == {Plan[i] : i \in DOMAIN Plan}

(* What a receipt can say. *)
Says == {"viewport-overflow", "legend-clearance", "stage-clearance",
         "text-readability", "runtime", "unavailable"} \X ({None} \cup Inspection)

(* The check has removed what the one before it left, and has not ended.   *)
Fresh == Calls \cup {"skip", "recheck", "sheet", "receipt", "catch"}

(* It has every screenshot it was to take. *)
Inspected == {"recheck", "sheet", "receipt"}

Shapes ==
  /\ TypeOK
  /\ at = "idle" \/ (sha \in Contents /\ run \in 1 .. MaxRuns)
  /\ DOMAIN obs \subseteq Inspection
  /\ at \in Calls => nth \in DOMAIN Plan
  /\ at \in {"settle", "measure", "shot"} => page \in Contents
  /\ at = "load" => page \in Contents
  /\ at = "shot" => Plan[nth] \in Shots
  /\ at = "idle" => receipt = None
  /\ at = "stale" => nth = 1 /\ page = None

Bare == sheet = None /\ \A s \in Shots : shots[s] = None

Whole == sheet = run /\ \A s \in Shots : shots[s] # None

(* Until the receipt is written all there is is this run's.                *)
OnlyThisRuns ==
  /\ at \in Fresh =>
       /\ receipt = None /\ sheet \in {None, run}
       /\ \A s \in Shots : shots[s] # None => shots[s].run = run
  /\ at \in {"idle", "stale", "skip"} => Bare
  /\ at = "receipt" => sheet = run

(* No inspection is left out. *)
InOrder ==
  /\ at \in Calls =>
       \A i \in 1 .. (nth - 1) : Plan[i] \in Shots => shots[Plan[i]] # None
  /\ at \in Inspected => \A s \in Shots : shots[s] # None

(* An artifact that is what it was when the check began has been that all  *)
(* the time, or came back to it.                                           *)
Unchanged ==
  /\ at \in Calls \cup {"recheck"} /\ ~returned /\ artifact = sha =>
       /\ page \in {None, sha}
       /\ \A s \in Shots : shots[s] # None => shots[s].of = sha
  /\ at \in {"sheet", "receipt"} /\ ~returned =>
       \A s \in Shots : shots[s].of = sha

(* How the check came out, and what it left. *)
Outcome ==
  /\ at = "close" => out \in {"pass", "fail", "error"}
  /\ at \in {"close", "ended"} /\ out \in {"pass", "fail"} =>
       /\ receipt # None /\ receipt.run = run
       /\ IF receipt.complete
          THEN /\ receipt.status = out /\ Whole
               /\ ~returned => \A s \in Shots : shots[s].of = receipt.of
          ELSE Bare
  /\ at \in {"close", "ended"} /\ out \in {"skipped", "error"} => Bare

VInv ==
  /\ Shapes /\ OnlyThisRuns /\ InOrder /\ Unchanged /\ Outcome
  /\ EvidenceOfOneRun /\ DiagnosticsExplain

-----------------------------------------------------------------------------
(* What is inspected, and what is written about it *)

LEMMA PlanFacts ==
  /\ Len(Plan) \in Nat /\ Len(Plan) >= 1 /\ DOMAIN Plan = 1 .. Len(Plan)
  /\ \A s \in Shots : \E i \in DOMAIN Plan : Plan[i] = s
  /\ \A i \in DOMAIN Plan : Plan[i] \in Inspection
<1> DEFINE Screens == {Viewports[i] : i \in DOMAIN Viewports}
           Pairs == Screens \X {"light", "dark"}
           light == [i \in 1 .. Len(Viewports) |-> <<Viewports[i], "light">>]
           dark == <<<<Viewports[1], "dark">>, <<Viewports[Len(Viewports)], "dark">>>>
<1>1. /\ Len(Viewports) \in Nat /\ Len(Viewports) >= 1
      /\ DOMAIN Viewports = 1 .. Len(Viewports)
  <2>1. Viewports \in Seq(Screens) /\ Len(Viewports) > 0
    BY VisualCheckAssumption
  <2> QED
    BY <2>1, LenProperties
<1>2. PICK n \in Nat : n = Len(Viewports) /\ n >= 1
  BY <1>1
<1>3. light \in Seq(Pairs) /\ Len(light) = n
  <2>1. \A i \in 1 .. n : <<Viewports[i], "light">> \in Pairs
    BY <1>1, <1>2
  <2> QED
    BY <1>2, <2>1
<1>4. dark \in Seq(Pairs) /\ Len(dark) = 2
  <2>1. 1 \in DOMAIN Viewports /\ Len(Viewports) \in DOMAIN Viewports
    BY <1>1
  <2>2. <<Viewports[1], "dark">> \in Pairs /\ <<Viewports[Len(Viewports)], "dark">> \in Pairs
    BY <2>1
  <2> QED
    BY <2>2
<1>5. Plan = light \o dark
  BY DEF Plan
<1> HIDE DEF light, dark, Pairs
<1>6. Plan \in Seq(Pairs) /\ Len(Plan) = n + 2
  <2>1. light \o dark \in Seq(Pairs) /\ Len(light \o dark) = Len(light) + Len(dark)
    BY <1>3, <1>4, ConcatProperties
  <2> QED
    BY <1>2, <1>3, <1>4, <1>5, <2>1
<1>7. Len(Plan) \in Nat /\ Len(Plan) >= 1 /\ DOMAIN Plan = 1 .. Len(Plan)
  BY <1>2, <1>6, LenProperties
<1>8. \A s \in Shots : \E i \in DOMAIN Plan : Plan[i] = s
  BY DEF Shots
<1> QED
  BY <1>7, <1>8 DEF Inspection

(* The receipt of a check. *)
LEMMA WrittenIsReceipt ==
  ASSUME run \in 1 .. MaxRuns, sha \in Contents,
         NEW status \in {"pass", "fail", "skipped"}, NEW complete \in BOOLEAN,
         NEW ds \in SUBSET Says
  PROVE  LET w == Written(status, complete, ds) IN
         /\ w \in Receipt /\ w # None
         /\ w.run = run /\ w.of = sha /\ w.status = status
         /\ w.complete = complete /\ w.diagnostics = ds
<1>1. Written(status, complete, ds) \in Receipt
  BY DEF Written, Receipt, Says, Inspection
<1>2. None \notin Receipt
  BY NoneIsNothing
<1> QED
  BY <1>1, <1>2 DEF Written

(* The verdict passes exactly if there is nothing to say. *)
LEMMA VerdictExplains ==
  ASSUME NEW o, DOMAIN o \subseteq Inspection
  PROVE  /\ Verdict(o) \in {"pass", "fail"}
         /\ Diagnostics(o) \in SUBSET Says
         /\ Verdict(o) = "pass" <=> Diagnostics(o) = {}
<1> DEFINE A == {x \in DOMAIN o : ~Contained(o[x])}
           B == {x \in DOMAIN o : o[x].legend}
           C == {x \in DOMAIN o : ~StageOk(o[x])}
           D == {x \in DOMAIN o : x[2] = "light" /\ ~Readable(o[x])}
           DA == {<<"viewport-overflow", e>> : e \in A}
           DB == {<<"legend-clearance", e>> : e \in B}
           DC == {<<"stage-clearance", e>> : e \in C}
           DD == {<<"text-readability", e>> : e \in D}
<1>1. Verdict(o) \in {"pass", "fail"}
  BY DEF Verdict
<1>2. Diagnostics(o) = DA \cup DB \cup DC \cup DD
  BY DEF Diagnostics
<1>3. A \subseteq Inspection /\ B \subseteq Inspection /\ C \subseteq Inspection
      /\ D \subseteq Inspection
  OBVIOUS
<1>4. Verdict(o) = "pass" <=> A = {} /\ B = {} /\ C = {} /\ D = {}
  BY DEF Verdict, ChromeOk
<1> HIDE DEF A, B, C, D
<1>5. /\ DA = {} <=> A = {}
      /\ DB = {} <=> B = {}
      /\ DC = {} <=> C = {}
      /\ DD = {} <=> D = {}
  OBVIOUS
<1>6. DA \cup DB \cup DC \cup DD \in SUBSET Says
  BY <1>3 DEF Says
<1> HIDE DEF DA, DB, DC, DD
<1>7. DA \cup DB \cup DC \cup DD = {} <=> DA = {} /\ DB = {} /\ DC = {} /\ DD = {}
  OBVIOUS
<1> QED
  BY <1>1, <1>2, <1>4, <1>5, <1>6, <1>7

LEMMA Initially == Init => VInv
<1> SUFFICES ASSUME Init PROVE VInv
  OBVIOUS
<1>1. at = "idle" /\ receipt = None /\ run = 0 /\ obs = <<>>
  BY DEF Init
<1>2. Len(Plan) \in Nat /\ MaxRuns \in Nat
  BY PlanFacts, VisualCheckAssumption
<1>3. Shapes
  <2>1. /\ 0 \in 0 .. MaxRuns /\ 1 \in 1 .. Len(Plan) + 1
        /\ DOMAIN obs \subseteq Inspection
    BY <1>1, <1>2
  <2>2. shots \in [Shots -> {None} \cup [run: 1 .. MaxRuns, of: Contents]]
    BY DEF Init
  <2>3. TypeOK
    BY <1>1, <2>1, <2>2 DEF Init, TypeOK, Calls
  <2> QED
    BY <1>1, <2>1, <2>3 DEF Shapes, Calls
<1>4. OnlyThisRuns /\ InOrder /\ Unchanged /\ Outcome
  BY <1>1 DEF Init, OnlyThisRuns, InOrder, Unchanged, Outcome, Fresh, Calls, Inspected, Bare
<1>5. EvidenceOfOneRun /\ DiagnosticsExplain
  BY <1>1 DEF EvidenceOfOneRun, DiagnosticsExplain
<1> QED
  BY <1>3, <1>4, <1>5 DEF VInv

-----------------------------------------------------------------------------
(* The steps of a check *)

LEMMA BeginKeeps == ASSUME VInv, Begin PROVE VInv'
<1> USE DEF VInv
<1>1. /\ at' = "stale" /\ Bare' /\ receipt' = receipt
      /\ run' \in 1 .. MaxRuns /\ sha' \in Contents
  BY VisualCheckAssumption DEF Begin, Bare, Shapes, TypeOK
<1>2. Shapes'
  <2>1. shots' \in [Shots -> {None} \cup [run: 1 .. MaxRuns, of: Contents]]
    BY DEF Begin
  <2>2. nth' \in 1 .. Len(Plan) + 1 /\ DOMAIN obs' \subseteq Inspection
    BY PlanFacts DEF Begin
  <2>3. run' \in 0 .. MaxRuns /\ receipt' = receipt /\ artifact' = artifact
    BY <1>1, VisualCheckAssumption DEF Begin
  <2>4. /\ sheet' = None /\ page' = None /\ loaded' = "none" /\ stray' = FALSE
        /\ out' = None
    BY DEF Begin
  <2>5. TypeOK'
    BY <1>1, <2>1, <2>2, <2>3, <2>4 DEF Shapes, TypeOK
  <2> QED
    BY <1>1, <2>2, <2>5 DEF Begin, Shapes, Calls
<1>3. OnlyThisRuns' /\ InOrder' /\ Unchanged' /\ Outcome'
  BY <1>1 DEF OnlyThisRuns, InOrder, Unchanged, Outcome, Fresh, Calls, Inspected
<1>4. EvidenceOfOneRun' /\ DiagnosticsExplain'
  BY <1>1 DEF EvidenceOfOneRun, DiagnosticsExplain, Bare
<1> QED
  BY <1>2, <1>3, <1>4

LEMMA RemoveKeeps == ASSUME VInv, RemoveReceipt PROVE VInv'
<1> USE DEF VInv
<1>1. /\ at = "stale" /\ at' \in {"skip", "attach"} /\ receipt' = None
      /\ chrome' \in {chrome, "up"}
      /\ UNCHANGED <<shots, sheet, run, sha, nth, obs, page, loaded, stray, out, env>>
  BY DEF RemoveReceipt, UnlinkReceipt
<1>2. Bare /\ Bare' /\ nth = 1 /\ page = None
  BY <1>1 DEF OnlyThisRuns, Bare, Shapes
<1>3. Shapes'
  BY <1>1, <1>2, PlanFacts DEF Shapes, TypeOK, Calls, env, Inspection
<1>4. OnlyThisRuns' /\ InOrder' /\ Unchanged' /\ Outcome'
  BY <1>1, <1>2 DEF OnlyThisRuns, InOrder, Unchanged, Outcome, Fresh, Calls,
                    Inspected, Bare, env
<1>5. EvidenceOfOneRun' /\ DiagnosticsExplain'
  BY <1>1 DEF EvidenceOfOneRun, DiagnosticsExplain
<1> QED
  BY <1>3, <1>4, <1>5

LEMMA SkipKeeps == ASSUME VInv, Skip PROVE VInv'
<1> USE DEF VInv
<1>1. /\ at = "skip" /\ at' = "ended" /\ out' = "skipped"
      /\ receipt' = Written("skipped", FALSE, {<<"unavailable", None>>})
      /\ UNCHANGED <<shots, sheet, run, sha, nth, obs, cdp, env>>
  BY DEF Skip
<1>2. receipt' \in Receipt /\ receipt'.run = run /\ receipt'.status = "skipped"
  <2>1. {<<"unavailable", None>>} \in SUBSET Says
    BY DEF Says
  <2>2. run \in 1 .. MaxRuns /\ sha \in Contents
    BY <1>1 DEF Shapes
  <2> QED
    BY <1>1, <2>1, <2>2, WrittenIsReceipt
<1>3. Bare /\ Bare'
  BY <1>1 DEF OnlyThisRuns, Bare
<1>4. Shapes'
  BY <1>1, <1>2 DEF Shapes, TypeOK, Calls, env, cdp, Inspection
<1>5. OnlyThisRuns' /\ InOrder' /\ Unchanged' /\ Outcome'
  BY <1>1, <1>3 DEF OnlyThisRuns, InOrder, Unchanged, Outcome, Fresh, Calls, Inspected
<1>6. EvidenceOfOneRun' /\ DiagnosticsExplain'
  BY <1>2, <1>3 DEF EvidenceOfOneRun, DiagnosticsExplain, Bare
<1> QED
  BY <1>4, <1>5, <1>6

(* What happens in Chrome. *)
LEMMA PageKeeps == ASSUME VInv, Commit \/ LoadFires PROVE VInv'
<1> USE DEF VInv
<1>1. /\ at \in {"navigate", "load"} /\ at' = at
      /\ page' = page \/ (page' = artifact /\ at = "navigate")
      /\ loaded' \in {loaded, "fired"}
      /\ UNCHANGED <<files, run, sha, nth, obs, stray, chrome, out, env>>
  BY DEF Commit, LoadFires
<1>2. Shapes'
  BY <1>1 DEF Shapes, TypeOK, Calls, files, env, Inspection
<1>3. OnlyThisRuns' /\ InOrder' /\ Unchanged' /\ Outcome'
  BY <1>1 DEF OnlyThisRuns, InOrder, Unchanged, Outcome, Fresh, Calls, Inspected,
              Bare, files, env
<1>4. EvidenceOfOneRun' /\ DiagnosticsExplain'
  BY <1>1 DEF EvidenceOfOneRun, DiagnosticsExplain, files
<1> QED
  BY <1>2, <1>3, <1>4

(* The inspection that is over is not left out. *)
LEMMA AdvanceKeepsOrder ==
  ASSUME VInv, at \in Calls, Advance, NEW after,
         shots' = after, \A s \in Shots : shots[s] # None => after[s] # None,
         Plan[nth] \in Shots => after[Plan[nth]] # None
  PROVE  /\ InOrder' /\ nth' \in 1 .. Len(Plan) + 1
         /\ at' \in Calls => nth' \in DOMAIN Plan
         /\ at' \in {"recheck", "override"}
<1> USE DEF VInv
<1>1. PICK n \in Nat : n = Len(Plan) /\ DOMAIN Plan = 1 .. n
  BY PlanFacts
<1>2. PICK m \in 1 .. n : m = nth
  BY <1>1 DEF Shapes
<1>3. nth' = m + 1 /\ at' = IF m = n THEN "recheck" ELSE "override"
  BY <1>1, <1>2 DEF Advance
<1>4. \A i \in 1 .. m : Plan[i] \in Shots => after[Plan[i]] # None
  <2>1. ASSUME NEW i \in 1 .. m, i # m, Plan[i] \in Shots PROVE after[Plan[i]] # None
    <3>1. i \in 1 .. (nth - 1)
      BY <1>2, <2>1
    <3> QED
      BY <2>1, <3>1 DEF InOrder
  <2> QED
    BY <1>2, <2>1
<1>5. ASSUME at' = "recheck", NEW s \in Shots PROVE after[s] # None
  <2>1. PICK i \in DOMAIN Plan : Plan[i] = s
    BY PlanFacts
  <2>2. i \in 1 .. m
    BY <1>1, <1>3, <1>5, <2>1
  <2> QED
    BY <1>4, <2>1, <2>2
<1>6. m + 1 - 1 = m /\ m + 1 \in 1 .. n + 1 /\ (m # n => m + 1 \in 1 .. n)
  BY <1>2
<1>7. at' \in {"recheck", "override"} /\ nth' \in 1 .. Len(Plan) + 1
      /\ (at' \in Calls => nth' \in DOMAIN Plan)
  BY <1>1, <1>3, <1>6 DEF Calls
<1>8. \A i \in 1 .. (nth' - 1) : Plan[i] \in Shots => shots'[Plan[i]] # None
  BY <1>3, <1>4, <1>6
<1>9. at' \in Inspected => \A s \in Shots : shots'[s] # None
  BY <1>3, <1>5 DEF Inspected
<1> QED
  BY <1>7, <1>8, <1>9 DEF InOrder

LEMMA AnswerKeeps == ASSUME VInv, Answer PROVE VInv'
<1> USE DEF VInv
<1>1. /\ at \in Calls /\ UNCHANGED <<files, run, sha, stray, chrome, out, env>>
  BY DEF Answer, Calls
<1>2. CASE at # "measure"
  <2>1. /\ at' \in Calls \ {"shot"} /\ UNCHANGED <<nth, page, obs>>
        /\ at' \in {"load", "settle", "measure"} => page \in Contents
        /\ loaded' \in {loaded, "armed"}
    BY <1>1, <1>2 DEF Answer, Calls, Shapes, TypeOK
  <2>2. Shapes'
    BY <1>1, <2>1 DEF Shapes, TypeOK, Calls, files, env, Inspection
  <2>3. OnlyThisRuns' /\ InOrder' /\ Unchanged' /\ Outcome'
    BY <1>1, <2>1 DEF OnlyThisRuns, InOrder, Unchanged, Outcome, Fresh, Calls,
                      Inspected, files, env
  <2>4. EvidenceOfOneRun' /\ DiagnosticsExplain'
    BY <1>1 DEF EvidenceOfOneRun, DiagnosticsExplain, files
  <2> QED
    BY <2>2, <2>3, <2>4
<1>3. CASE at = "measure"
  <2>1. DOMAIN obs' = DOMAIN obs \cup {Plan[nth]}
    BY <1>3 DEF Answer
  <2>2. DOMAIN obs' \subseteq Inspection
    BY <1>1, <2>1, PlanFacts DEF Shapes
  <2>3. CASE Plan[nth] \in Shots
    <3>1. at' = "shot" /\ UNCHANGED <<nth, page, loaded>>
      BY <1>3, <2>3 DEF Answer
    <3>2. Shapes'
      BY <1>1, <1>3, <2>2, <2>3, <3>1 DEF Shapes, TypeOK, Calls, files, env, Inspection
    <3>3. OnlyThisRuns' /\ InOrder' /\ Unchanged' /\ Outcome'
      BY <1>1, <3>1 DEF OnlyThisRuns, InOrder, Unchanged, Outcome, Fresh, Calls,
                        Inspected, files, env
    <3>4. EvidenceOfOneRun' /\ DiagnosticsExplain'
      BY <1>1 DEF EvidenceOfOneRun, DiagnosticsExplain, files
    <3> QED
      BY <3>2, <3>3, <3>4
  <2>4. CASE Plan[nth] \notin Shots
    <3>1. Advance /\ page' = None /\ loaded' = "none"
      BY <1>3, <2>4 DEF Answer, Advance
    <3>2. /\ InOrder' /\ nth' \in 1 .. Len(Plan) + 1
          /\ at' \in Calls => nth' \in DOMAIN Plan
          /\ at' \in {"recheck", "override"}
      BY <1>1, <2>4, <3>1, AdvanceKeepsOrder DEF files
    <3>3. Shapes'
      BY <1>1, <2>2, <3>1, <3>2 DEF Shapes, TypeOK, Calls, files, env, Inspection
    <3>4. OnlyThisRuns' /\ Unchanged' /\ Outcome'
      BY <1>1, <3>1, <3>2 DEF OnlyThisRuns, Unchanged, Outcome, Fresh, Calls,
                              files, env
    <3>5. EvidenceOfOneRun' /\ DiagnosticsExplain'
      BY <1>1 DEF EvidenceOfOneRun, DiagnosticsExplain, files
    <3> QED
      BY <3>2, <3>3, <3>4, <3>5
  <2> QED
    BY <2>3, <2>4
<1> QED
  BY <1>2, <1>3

LEMMA CaptureKeeps == ASSUME VInv, Capture PROVE VInv'
<1> USE DEF VInv
<1>1. /\ at = "shot" /\ at \in Calls /\ page \in Contents /\ Plan[nth] \in Shots
      /\ page' = None /\ loaded' = "none" /\ Advance
      /\ UNCHANGED <<sheet, receipt, run, sha, obs, stray, chrome, out, env>>
  BY DEF Capture, Calls, Shapes, Advance
<1> DEFINE shot == [run |-> run, of |-> page]
<1>2. shot \in [run: 1 .. MaxRuns, of: Contents] /\ shot.run = run /\ shot.of = page
  BY <1>1 DEF Shapes
<1>3. shots' = [shots EXCEPT ![Plan[nth]] = shot]
  BY DEF Capture
<1> HIDE DEF shot
<1>4. shot # None
  BY <1>2, NoneIsNothing
<1>5. /\ shots' \in [Shots -> {None} \cup [run: 1 .. MaxRuns, of: Contents]]
      /\ \A s \in Shots : shots'[s] = IF s = Plan[nth] THEN shot ELSE shots[s]
  BY <1>1, <1>2, <1>3 DEF Shapes, TypeOK
<1>6. /\ InOrder' /\ nth' \in 1 .. Len(Plan) + 1
      /\ at' \in Calls => nth' \in DOMAIN Plan
      /\ at' \in {"recheck", "override"}
  BY <1>1, <1>4, <1>5, AdvanceKeepsOrder
<1>7. Shapes'
  BY <1>1, <1>5, <1>6 DEF Shapes, TypeOK, Calls, env, Inspection
<1>8. OnlyThisRuns'
  BY <1>1, <1>2, <1>5, <1>6 DEF OnlyThisRuns, Fresh, Calls
<1>9. Unchanged'
  <2>1. ASSUME ~returned, artifact = sha, NEW s \in Shots, shots'[s] # None
        PROVE  shots'[s].of = sha
    <3>1. page = sha /\ (shots[s] # None => shots[s].of = sha)
      BY <1>1, <2>1, NoneIsNothing DEF Unchanged
    <3> QED
      BY <1>2, <1>5, <2>1, <3>1
  <2> QED
    BY <1>1, <1>6, <2>1 DEF Unchanged, env
<1>10. Outcome'
  BY <1>6 DEF Outcome
<1>11. EvidenceOfOneRun' /\ DiagnosticsExplain'
  BY <1>1 DEF EvidenceOfOneRun, DiagnosticsExplain, OnlyThisRuns, Fresh, Calls
<1> QED
  BY <1>6, <1>7, <1>8, <1>9, <1>10, <1>11

(* An inspection that breaks off. *)
LEMMA ThrowKeeps ==
  ASSUME VInv, ErrorReply \/ Timeout \/ ChromeFails \/ LoadTimesOut
  PROVE  VInv'
<1> USE DEF VInv
<1>1. /\ at \in Calls /\ stray' \in BOOLEAN /\ returned' = returned
      /\ artifact' = artifact
      /\ UNCHANGED <<files, run, sha, nth, obs, page, loaded>>
      /\ \/ at' = "catch" /\ out' = out
         \/ at' = "ended" /\ out' = "uncaught"
  BY DEF ErrorReply, Timeout, ChromeFails, LoadTimesOut, Throw, Calls, cdp,
         Shapes, TypeOK
<1>2. TypeOK'
  BY <1>1 DEF Shapes, TypeOK, files
<1>3. Shapes'
  BY <1>1, <1>2 DEF Shapes, Calls, Inspection
<1>4. OnlyThisRuns' /\ InOrder' /\ Unchanged' /\ Outcome'
  BY <1>1 DEF OnlyThisRuns, InOrder, Unchanged, Outcome, Fresh, Calls, Inspected, files
<1>5. EvidenceOfOneRun' /\ DiagnosticsExplain'
  BY <1>1 DEF EvidenceOfOneRun, DiagnosticsExplain, files
<1> QED
  BY <1>3, <1>4, <1>5

LEMMA RecheckKeeps == ASSUME VInv, Recheck PROVE VInv'
<1> USE DEF VInv
<1>1. /\ at = "recheck"
      /\ at' = "catch" \/ (at' = "sheet" /\ artifact = sha)
      /\ UNCHANGED <<files, run, sha, nth, obs, cdp, out, env>>
  BY DEF Recheck, StillTheSame
<1>2. TypeOK'
  BY <1>1 DEF Shapes, TypeOK, files, cdp, env
<1>3. Shapes'
  BY <1>1, <1>2 DEF Shapes, Calls, Inspection
<1>4. OnlyThisRuns' /\ InOrder' /\ Unchanged' /\ Outcome'
  BY <1>1 DEF OnlyThisRuns, InOrder, Unchanged, Outcome, Fresh, Calls, Inspected,
              files, env
<1>5. EvidenceOfOneRun' /\ DiagnosticsExplain'
  BY <1>1 DEF EvidenceOfOneRun, DiagnosticsExplain, files
<1> QED
  BY <1>3, <1>4, <1>5

LEMMA SheetKeeps == ASSUME VInv, WriteSheet PROVE VInv'
<1> USE DEF VInv
<1>1. /\ at = "sheet" /\ at' = "receipt" /\ sheet' = run
      /\ UNCHANGED <<shots, receipt, run, sha, nth, obs, cdp, out, env>>
  BY DEF WriteSheet
<1>2. TypeOK'
  BY <1>1 DEF Shapes, TypeOK, cdp, env
<1>3. Shapes'
  BY <1>1, <1>2 DEF Shapes, Calls, Inspection
<1>4. OnlyThisRuns' /\ InOrder' /\ Unchanged' /\ Outcome'
  BY <1>1 DEF OnlyThisRuns, InOrder, Unchanged, Outcome, Fresh, Calls, Inspected, env
<1>5. EvidenceOfOneRun' /\ DiagnosticsExplain'
  BY <1>1 DEF EvidenceOfOneRun, DiagnosticsExplain, OnlyThisRuns, Fresh
<1> QED
  BY <1>3, <1>4, <1>5

(* The receipt of a whole check. *)
LEMMA ReceiptKeeps == ASSUME VInv, WriteReceipt PROVE VInv'
<1> USE DEF VInv
<1>1. /\ at = "receipt" /\ at' = "close" /\ out' = Verdict(obs)
      /\ receipt' = Written(Verdict(obs), TRUE, Diagnostics(obs))
      /\ UNCHANGED <<shots, sheet, run, sha, nth, obs, cdp, env>>
  BY DEF WriteReceipt
<1>2. run \in 1 .. MaxRuns /\ sha \in Contents /\ DOMAIN obs \subseteq Inspection
  BY <1>1 DEF Shapes
<1>3. /\ Verdict(obs) \in {"pass", "fail"}
      /\ Verdict(obs) = "pass" <=> Diagnostics(obs) = {}
  BY <1>2, VerdictExplains
<1>4. /\ receipt' \in Receipt /\ receipt' # None
      /\ receipt'.run = run /\ receipt'.of = sha /\ receipt'.status = Verdict(obs)
      /\ receipt'.complete = TRUE /\ receipt'.diagnostics = Diagnostics(obs)
  <2>1. PICK v \in {"pass", "fail", "skipped"} : v = Verdict(obs)
    BY <1>3
  <2>2. PICK ds \in SUBSET Says : ds = Diagnostics(obs)
    BY <1>2, VerdictExplains
  <2>3. receipt' = [run |-> run, of |-> sha, status |-> v, complete |-> TRUE,
                    diagnostics |-> ds]
    BY <1>1, <2>1, <2>2 DEF Written
  <2>4. receipt' \in Receipt
    BY <1>2, <2>1, <2>2, <2>3 DEF Receipt, Says, Inspection
  <2>5. None \notin Receipt
    BY NoneIsNothing
  <2> QED
    BY <2>1, <2>2, <2>3, <2>4, <2>5
<1>5. /\ sheet = run /\ \A s \in Shots : shots[s] # None /\ shots[s].run = run
      /\ ~returned => \A s \in Shots : shots[s].of = sha
  BY <1>1 DEF OnlyThisRuns, InOrder, Unchanged, Fresh, Inspected
<1>6. TypeOK'
  BY <1>1, <1>3, <1>4 DEF Shapes, TypeOK, cdp, env
<1>7. Shapes'
  BY <1>1, <1>2, <1>6 DEF Shapes, Calls, Inspection
<1>8. OnlyThisRuns' /\ InOrder' /\ Unchanged'
  BY <1>1 DEF OnlyThisRuns, InOrder, Unchanged, Fresh, Calls, Inspected
<1>9. Outcome'
  BY <1>1, <1>3, <1>4, <1>5 DEF Outcome, Whole, env
<1>10. EvidenceOfOneRun' /\ DiagnosticsExplain'
  BY <1>1, <1>3, <1>4, <1>5 DEF EvidenceOfOneRun, DiagnosticsExplain
<1> QED
  BY <1>7, <1>8, <1>9, <1>10

(* The receipt of one that broke off. *)
LEMMA CatchKeeps == ASSUME VInv, Catch PROVE VInv'
<1> USE DEF VInv
<1>1. /\ at = "catch" /\ at' = "close" /\ out' = "fail"
      /\ receipt' = Written("fail", FALSE, {<<"runtime", None>>})
      /\ Bare' /\ shots' = [s \in Shots |-> None]
      /\ UNCHANGED <<run, sha, nth, obs, cdp, env>>
  BY DEF Catch, Cleanup, Bare
<1>2. /\ receipt' \in Receipt /\ receipt' # None
      /\ receipt'.run = run /\ receipt'.status = "fail"
      /\ receipt'.complete = FALSE /\ receipt'.diagnostics = {<<"runtime", None>>}
  <2>1. {<<"runtime", None>>} \in SUBSET Says
    BY DEF Says
  <2>2. run \in 1 .. MaxRuns /\ sha \in Contents
    BY <1>1 DEF Shapes
  <2> QED
    BY <1>1, <2>1, <2>2, WrittenIsReceipt
<1>3. TypeOK'
  BY <1>1, <1>2 DEF Shapes, TypeOK, Bare, cdp, env
<1>4. Shapes'
  BY <1>1, <1>3 DEF Shapes, Calls, Inspection
<1>5. OnlyThisRuns' /\ InOrder' /\ Unchanged' /\ Outcome'
  BY <1>1, <1>2 DEF OnlyThisRuns, InOrder, Unchanged, Outcome, Fresh, Calls, Inspected
<1>6. EvidenceOfOneRun' /\ DiagnosticsExplain'
  BY <1>1, <1>2 DEF EvidenceOfOneRun, DiagnosticsExplain, Bare
<1> QED
  BY <1>4, <1>5, <1>6

LEMMA WriteFailsKeeps == ASSUME VInv, WriteFails PROVE VInv'
<1> USE DEF VInv
<1>1. /\ receipt' = receipt /\ artifact' = artifact /\ returned' = returned
      /\ UNCHANGED <<run, sha, nth, obs, cdp>>
      /\ \/ /\ at \in {"sheet", "receipt"} /\ at' = "catch"
            /\ UNCHANGED <<out, shots, sheet>>
         \/ /\ at = "catch" /\ at' = "close" /\ out' = "error"
            /\ Bare' /\ shots' = [s \in Shots |-> None]
         \/ /\ at = "skip" /\ at' = "ended" /\ out' = "error"
            /\ UNCHANGED <<shots, sheet>>
  BY DEF WriteFails, Cleanup, Bare
<1>2. TypeOK'
  <2>1. shots' \in [Shots -> {None} \cup [run: 1 .. MaxRuns, of: Contents]]
    BY <1>1 DEF Shapes, TypeOK
  <2>2. sheet' \in {None} \cup 1 .. MaxRuns
    BY <1>1 DEF Shapes, TypeOK, Bare
  <2> QED
    BY <1>1, <2>1, <2>2 DEF Shapes, TypeOK, cdp
<1>3. Shapes'
  BY <1>1, <1>2 DEF Shapes, Calls, Inspection
<1>4. OnlyThisRuns'
  BY <1>1 DEF OnlyThisRuns, Fresh, Calls
<1>5. InOrder' /\ Unchanged'
  BY <1>1 DEF InOrder, Unchanged, Calls, Inspected
<1>6. Outcome'
  BY <1>1 DEF Outcome, OnlyThisRuns, Bare
<1>7. EvidenceOfOneRun' /\ DiagnosticsExplain'
  BY <1>1 DEF EvidenceOfOneRun, DiagnosticsExplain, OnlyThisRuns, Fresh, Bare
<1> QED
  BY <1>3, <1>4, <1>5, <1>6, <1>7

(* The check ends, or is killed. *)
LEMMA EndKeeps == ASSUME VInv, Close \/ Kill PROVE VInv'
<1> USE DEF VInv
<1>1. /\ at # "idle" /\ at' = "ended" /\ returned' = returned /\ artifact' = artifact
      /\ \/ out' \in {"uncaught", "killed"}
         \/ out' = out /\ at = "close"
      /\ stray' \in BOOLEAN
      /\ UNCHANGED <<files, run, sha, nth, obs, page, loaded>>
  BY DEF Close, Kill, Idle, env, cdp, Shapes, TypeOK
<1>2. TypeOK'
  BY <1>1 DEF Shapes, TypeOK, files
<1>3. Shapes'
  BY <1>1, <1>2 DEF Shapes, Calls, Inspection
<1>4. OnlyThisRuns' /\ InOrder' /\ Unchanged'
  BY <1>1 DEF OnlyThisRuns, InOrder, Unchanged, Fresh, Calls, Inspected
<1>5. Outcome'
  BY <1>1 DEF Outcome, Whole, Bare, files
<1>6. EvidenceOfOneRun' /\ DiagnosticsExplain'
  BY <1>1 DEF EvidenceOfOneRun, DiagnosticsExplain, files
<1> QED
  BY <1>3, <1>4, <1>5, <1>6

(* An artifact that changes is not what the check read first until it      *)
(* comes back.                                                             *)
LEMMA DeliverKeeps == ASSUME VInv, Deliver PROVE VInv'
<1> USE DEF VInv
<1>1. /\ artifact' \in Contents
      /\ returned => returned'
      /\ ~Idle /\ artifact' = sha => returned'
      /\ UNCHANGED <<files, run, at, sha, nth, obs, cdp, out>>
  <2>1. PICK c \in Contents \ {artifact} :
          artifact' = c /\ returned' = (returned \/ (~Idle /\ c = sha))
    BY ZenonT(30) DEF Deliver
  <2>2. UNCHANGED <<files, run, at, sha, nth, obs, cdp, out>>
    BY DEF Deliver
  <2>3. (returned => returned') /\ (~Idle /\ artifact' = sha => returned')
    BY <2>1, ZenonT(30)
  <2> QED
    BY <2>1, <2>2, <2>3
<1>2. TypeOK'
  BY <1>1 DEF Shapes, TypeOK, files, cdp
<1>3. Shapes'
  BY <1>1, <1>2 DEF Shapes, Calls, Inspection, files, cdp
<1>4. OnlyThisRuns' /\ InOrder'
  BY <1>1 DEF OnlyThisRuns, InOrder, Bare, files
<1>5. Unchanged'
  BY <1>1 DEF Unchanged, Idle, Calls, files, cdp
<1>6. Outcome'
  BY <1>1 DEF Outcome, Whole, Bare, files
<1>7. EvidenceOfOneRun' /\ DiagnosticsExplain'
  BY <1>1 DEF EvidenceOfOneRun, DiagnosticsExplain, files
<1> QED
  BY <1>3, <1>4, <1>5, <1>6, <1>7

LEMMA StutterKeeps == ASSUME VInv, UNCHANGED vars PROVE VInv'
BY DEF VInv, vars, files, cdp, env, Shapes, TypeOK, OnlyThisRuns, InOrder, Unchanged,
       Outcome, Whole, Bare, EvidenceOfOneRun, DiagnosticsExplain, Inspection

-----------------------------------------------------------------------------
(* The theorems *)

LEMMA EvidenceStep == VInv /\ [Next]_vars => VInv'
<1> SUFFICES ASSUME VInv, [Next]_vars PROVE VInv'
  OBVIOUS
<1>1. Command => VInv'
  BY RemoveKeeps, SkipKeeps, RecheckKeeps, SheetKeeps, ReceiptKeeps, CatchKeeps,
     EndKeeps, Zenon DEF Command
<1>2. Browser => VInv'
  BY PageKeeps, AnswerKeeps, CaptureKeeps, Zenon DEF Browser
<1>3. ErrorReply \/ Timeout \/ LoadTimesOut \/ ChromeFails => VInv'
  BY ThrowKeeps
<1>4. Rest => VInv'
  BY StutterKeeps DEF Rest
<1> QED
  BY <1>1, <1>2, <1>3, <1>4, BeginKeeps, WriteFailsKeeps, DeliverKeeps, EndKeeps,
     StutterKeeps, Zenon DEF Next

THEOREM EvidenceStays == Spec => []VInv
BY Initially, EvidenceStep, PTL DEF Spec

(* What lies beside the artifact is of one run: a receipt, its captures    *)
(* and its sheet, or no capture at all; a receipt passes exactly if it has *)
(* nothing to say (runVisualCheck).                                        *)
THEOREM EvidenceIsOfOneRun == Spec => []EvidenceAgrees
<1>1. VInv => IncompleteIsBare
  BY DEF VInv, Outcome, IncompleteIsBare, Bare
<1>2. VInv => EvidenceAgrees
  BY <1>1 DEF VInv, Shapes, EvidenceAgrees
<1> QED
  BY <1>2, EvidenceStays, PTL

(* A check that ends with a complete receipt has every capture, and they   *)
(* are of the content the receipt names.                                   *)
THEOREM CompleteChecksAreWhole == Spec => []CompleteIsWhole
<1>1. VInv => CompleteIsWhole
  BY DEF VInv, Outcome, Whole, CompleteIsWhole
<1> QED
  BY <1>1, EvidenceStays, PTL

(***************************************************************************)
(* The live preview                                                        *)
(***************************************************************************)

(* What is public is what the content verified last is rendered to. *)
GoodIsShown ==
  IF good = Nil THEN state.last = Nil
  ELSE Valid(good) /\ state.last = ArtifactOf[good]

(* A build that nothing superseded is of the content queued last. *)
FreshBuildIsQueued ==
  child # Nil /\ ~child.stale => child.hash = queued /\ ~armed

(* Timers do not outlive a stop. *)
StopDisarms == stopping => ~armed

(* The variables of the server and of the source. *)
ServerOK ==
  /\ source \in Content /\ queued \in Content
  /\ armed \in BOOLEAN /\ pending \in BOOLEAN
  /\ child \in Child \union {Nil}
  /\ good \in Content \union {Nil}
  /\ state \in State

Orderly ==
  /\ stopping \in BOOLEAN /\ closed \in BOOLEAN /\ stopped \in BOOLEAN
  /\ drain \in {"none", "grace", "kill"}
  /\ pending /\ ~stopping => child # Nil /\ child.stale
  /\ drain # "none" => child # Nil /\ stopping
  /\ stopped => child = Nil /\ stopping /\ closed

(* What the steps of the server have to keep, the pages aside. *)
Sound ==
  /\ ServerOK /\ Orderly /\ VerifiedIsQueued
  /\ GoodIsShown /\ FreshBuildIsQueued /\ StopDisarms

PagesOK == pages \in [Page -> PageState]

PInv == Sound /\ PagesOK

-----------------------------------------------------------------------------
(* The parts of the state *)

LEMMA ChildIsRecord ==
  ASSUME NEW c \in Child
  PROVE  /\ c # Nil
         /\ [c EXCEPT !.stale = TRUE] \in Child
         /\ [c EXCEPT !.stale = TRUE].stale
         /\ \A s \in {"none", "term", "kill"} :
              LET d == [c EXCEPT !.signal = s] IN
              d \in Child /\ d.hash = c.hash /\ d.stale = c.stale
BY NilIsNothing DEF Child

LEMMA PublishKeeps ==
  ASSUME PagesOK, NEW next \in State, Publish(next)
  PROVE  PagesOK' /\ state' \in State /\ state' = next
<1>1. ASSUME NEW p \in Page
      PROVE  [pages[p] EXCEPT !.inbox = Append(@, next)] \in PageState
  <2>1. PICK q \in PageState : q = pages[p]
    BY DEF PagesOK
  <2>2. Append(q.inbox, next) \in Seq(State)
    BY AppendProperties DEF PageState
  <2>3. [q EXCEPT !.inbox = Append(q.inbox, next)] \in PageState
    BY <2>2 DEF PageState
  <2> QED
    BY <2>1, <2>3
<1> QED
  BY <1>1 DEF Publish, PagesOK

LEMMA States ==
  ASSUME NEW s \in State, NEW status \in {"checking", "verified", "needs-fix"}
  PROVE  /\ [s EXCEPT !.status = status] \in State
         /\ [s EXCEPT !.status = status].status = status
         /\ [s EXCEPT !.status = status].last = s.last
BY DEF State

-----------------------------------------------------------------------------
(* The source and launch *)

LEMMA PreviewInitially == PreviewInit => PInv
<1> SUFFICES ASSUME PreviewInit PROVE PInv
  OBVIOUS
<1>1. ClosedPage \in PageState
  <2>1. <<>> \in Seq(State)
    OBVIOUS
  <2> QED
    BY <2>1 DEF ClosedPage, PageState
<1>2. PagesOK
  BY <1>1 DEF PreviewInit, PagesOK
<1>3. Sound
  BY DEF PreviewInit, Sound, ServerOK, Orderly, VerifiedIsQueued, GoodIsShown,
         FreshBuildIsQueued, StopDisarms, State
<1> QED
  BY <1>2, <1>3 DEF PInv

(* Nothing of the server changes. *)
LEMMA ServerStays ==
  ASSUME Sound, UNCHANGED <<server, ending>>, source' \in Content PROVE Sound'
BY DEF Sound, server, ending, ServerOK, Orderly, VerifiedIsQueued, GoodIsShown,
       FreshBuildIsQueued, StopDisarms

LEMMA EditKeeps == ASSUME PInv, Edit PROVE PInv'
<1>1. source' \in Content /\ UNCHANGED <<server, pages, ending>>
  BY DEF Edit
<1> QED
  BY <1>1, ServerStays DEF PInv, PagesOK

LEMMA ObserveKeeps == ASSUME PInv, Observe PROVE PInv'
<1>1. Sound /\ PagesOK /\ ~stopping /\ child \in Child \union {Nil}
  BY DEF PInv, Sound, ServerOK, Observe
<1>2. /\ child' \in Child \union {Nil}
      /\ child' = Nil <=> child = Nil
      /\ child # Nil => child'.stale
  <2>1. CASE child = Nil
    BY <2>1 DEF Observe
  <2>2. CASE child # Nil
    <3>1. PICK c \in Child : c = child
      BY <1>1, <2>2
    <3>2. child' = [c EXCEPT !.stale = TRUE]
      BY <2>2, <3>1 DEF Observe
    <3> QED
      BY <3>1, <3>2, ChildIsRecord
  <2> QED
    BY <2>1, <2>2
<1>3. ServerOK'
  BY <1>1, <1>2 DEF Observe, Sound, ServerOK
<1>4. Orderly'
  BY <1>1, <1>2 DEF Observe, ending, Sound, Orderly
<1>5. VerifiedIsQueued' /\ GoodIsShown'
  BY <1>1 DEF Observe, Sound, VerifiedIsQueued, GoodIsShown
<1>6. FreshBuildIsQueued' /\ StopDisarms'
  BY <1>1, <1>2 DEF Observe, ending, FreshBuildIsQueued, StopDisarms
<1>7. PagesOK'
  BY <1>1 DEF Observe, PagesOK
<1> QED
  BY <1>3, <1>4, <1>5, <1>6, <1>7 DEF PInv, Sound

LEMMA RequeueKeeps == ASSUME PInv, Requeue PROVE PInv'
<1>1. Sound /\ PagesOK
  BY DEF PInv
<1>2. PagesOK'
  BY <1>1 DEF Requeue, PagesOK
<1>3. Sound'
  <2>1. ServerOK'
    BY <1>1 DEF Requeue, ending, Sound, ServerOK
  <2>2. Orderly'
    BY <1>1 DEF Requeue, ending, Sound, Orderly
  <2>3. VerifiedIsQueued'
    BY <1>1 DEF Requeue, ending, VerifiedIsQueued
  <2>4. GoodIsShown'
    BY <1>1 DEF Requeue, ending, Sound, GoodIsShown
  <2>5. FreshBuildIsQueued' /\ StopDisarms'
    BY <1>1 DEF Requeue, ending, Sound, FreshBuildIsQueued, StopDisarms
  <2> QED
    BY <2>1, <2>2, <2>3, <2>4, <2>5 DEF Sound
<1> QED
  BY <1>2, <1>3 DEF PInv

LEMMA RestoreKeeps == ASSUME PInv, Restore PROVE PInv'
<1>1. Sound /\ PagesOK /\ state \in State
  BY DEF PInv, Sound, ServerOK
<1>2. PagesOK' /\ state' \in State /\ state'.last = state.last
  <2>1. CASE state.status # "verified"
    BY <1>1, <2>1, PublishKeeps, States DEF Restore
  <2>2. CASE state.status = "verified"
    BY <1>1, <2>2 DEF Restore, PagesOK
  <2> QED
    BY <2>1, <2>2
<1>3. good # Nil
  BY <1>1, NilIsNothing DEF Restore, Stable, Sound, ServerOK
<1>4. Sound'
  <2>1. ServerOK'
    BY <1>1, <1>2, <1>3 DEF Restore, Stable, ending, Valid, Sound, ServerOK
  <2>2. Orderly'
    BY <1>1, <1>2, <1>3 DEF Restore, Stable, ending, Valid, Sound, Orderly
  <2>3. VerifiedIsQueued'
    BY <1>1, <1>2, <1>3 DEF Restore, Stable, ending, Valid, Sound, VerifiedIsQueued, GoodIsShown
  <2>4. GoodIsShown'
    BY <1>1, <1>2, <1>3 DEF Restore, Stable, ending, Valid, Sound, GoodIsShown
  <2>5. FreshBuildIsQueued' /\ StopDisarms'
    BY <1>1, <1>2, <1>3 DEF Restore, Stable, ending, Valid, Sound, FreshBuildIsQueued, StopDisarms
  <2> QED
    BY <2>1, <2>2, <2>3, <2>4, <2>5 DEF Sound
<1> QED
  BY <1>2, <1>4 DEF PInv

LEMMA DeferKeeps == ASSUME PInv, Defer PROVE PInv'
<1>1. Sound /\ PagesOK
  BY DEF PInv
<1>2. PagesOK'
  BY <1>1 DEF Defer, PagesOK
<1>3. Sound'
  <2>1. ServerOK'
    BY <1>1 DEF Defer, Stable, ending, Sound, ServerOK
  <2>2. Orderly'
    BY <1>1 DEF Defer, Stable, ending, Sound, Orderly, FreshBuildIsQueued
  <2>3. VerifiedIsQueued'
    BY <1>1 DEF Defer, Stable, ending, VerifiedIsQueued
  <2>4. GoodIsShown'
    BY <1>1 DEF Defer, Stable, ending, Sound, GoodIsShown
  <2>5. FreshBuildIsQueued' /\ StopDisarms'
    BY <1>1 DEF Defer, Stable, ending, Sound, FreshBuildIsQueued, StopDisarms
  <2> QED
    BY <2>1, <2>2, <2>3, <2>4, <2>5 DEF Sound
<1> QED
  BY <1>2, <1>3 DEF PInv

LEMMA BeginBuildKeeps == ASSUME PInv, BeginBuild PROVE PInv'
<1>1. Sound /\ PagesOK /\ state \in State /\ source \in Content
  BY DEF PInv, Sound, ServerOK
<1>2. PagesOK' /\ state' \in State /\ state'.last = state.last /\ state'.status = "checking"
  BY <1>1, PublishKeeps, States DEF BeginBuild
<1>3. PICK hung \in BOOLEAN : child' = [hash |-> source, stale |-> FALSE, hung |-> hung,
                                        signal |-> "none"]
  BY DEF BeginBuild
<1>4. child' \in Child /\ child'.hash = source
  BY <1>1, <1>3 DEF Child
<1>5. Sound'
  <2>1. ServerOK'
    BY <1>1, <1>2, <1>4 DEF BeginBuild, Stable, ending, Valid, Sound, ServerOK
  <2>2. Orderly'
    BY <1>1, <1>2, <1>4 DEF BeginBuild, Stable, ending, Valid, Sound, Orderly, StopDisarms
  <2>3. VerifiedIsQueued'
    BY <1>1, <1>2, <1>4 DEF BeginBuild, Stable, ending, Valid, VerifiedIsQueued
  <2>4. GoodIsShown'
    BY <1>1, <1>2, <1>4 DEF BeginBuild, Stable, ending, Valid, Sound, GoodIsShown
  <2>5. FreshBuildIsQueued' /\ StopDisarms'
    BY <1>1, <1>2, <1>4 DEF BeginBuild, Stable, ending, Valid, Sound, FreshBuildIsQueued, StopDisarms
  <2> QED
    BY <2>1, <2>2, <2>3, <2>4, <2>5 DEF Sound
<1> QED
  BY <1>2, <1>5 DEF PInv

LEMMA PrepareFailsKeeps == ASSUME PInv, PrepareFails PROVE PInv'
<1>1. Sound /\ PagesOK /\ state \in State
  BY DEF PInv, Sound, ServerOK
<1>2. PagesOK' /\ state' \in State /\ state'.last = state.last /\ state'.status = "needs-fix"
  BY <1>1, PublishKeeps, States DEF PrepareFails, Failed
<1>3. Sound'
  <2>1. ServerOK'
    BY <1>1, <1>2 DEF PrepareFails, Stable, ending, Valid, Sound, ServerOK
  <2>2. Orderly'
    BY <1>1, <1>2 DEF PrepareFails, Stable, ending, Valid, Sound, Orderly
  <2>3. VerifiedIsQueued'
    BY <1>1, <1>2 DEF PrepareFails, Stable, ending, Valid, VerifiedIsQueued
  <2>4. GoodIsShown'
    BY <1>1, <1>2 DEF PrepareFails, Stable, ending, Valid, Sound, GoodIsShown
  <2>5. FreshBuildIsQueued' /\ StopDisarms'
    BY <1>1, <1>2 DEF PrepareFails, Stable, ending, Valid, Sound, FreshBuildIsQueued, StopDisarms
  <2> QED
    BY <2>1, <2>2, <2>3, <2>4, <2>5 DEF Sound
<1> QED
  BY <1>2, <1>3 DEF PInv

-----------------------------------------------------------------------------
(* The end of a build *)

(* A build that publishes nothing. *)
LEMMA QuietEndKeeps ==
  ASSUME PInv, EndsInStop \/ EndsStale \/ Supersede PROVE PInv'
<1>1. Sound /\ PagesOK
  BY DEF PInv
<1>2. PagesOK'
  BY <1>1 DEF EndsInStop, EndsStale, Supersede, PagesOK
<1>3. /\ child' = Nil /\ drain' = "none" /\ child # Nil /\ ~stopped
      /\ UNCHANGED <<source, good, state, stopping, closed>>
      /\ \/ stopping /\ UNCHANGED <<queued, armed, pending>> /\ stopped' = closed
         \/ /\ ~stopping /\ UNCHANGED stopped
            /\ queued' = source /\ armed' = TRUE /\ pending' = FALSE
  <2>1. child # Nil /\ ~stopped
    BY <1>1 DEF EndsInStop, EndsStale, Supersede, Ends, Sound, Orderly
  <2>2. CASE EndsInStop
    BY <1>1, <2>1, <2>2 DEF EndsInStop, Ends, MayFinish, Sound, Orderly
  <2>3. CASE EndsStale \/ Supersede
    BY <2>1, <2>3 DEF EndsStale, Supersede, Ends, AfterBuild
  <2> QED
    BY <2>2, <2>3
<1>4. ServerOK'
  BY <1>1, <1>3 DEF Sound, ServerOK
<1>5. Orderly'
  BY <1>1, <1>3 DEF Sound, Orderly
<1>6. VerifiedIsQueued' /\ GoodIsShown'
  BY <1>1, <1>3 DEF Sound, VerifiedIsQueued, GoodIsShown
<1>7. FreshBuildIsQueued' /\ StopDisarms'
  BY <1>1, <1>3 DEF Sound, FreshBuildIsQueued, StopDisarms
<1> QED
  BY <1>2, <1>4, <1>5, <1>6, <1>7 DEF PInv, Sound

LEMMA CommitKeeps == ASSUME PInv, CommitCandidate PROVE PInv'
<1>1. Sound /\ PagesOK /\ state \in State /\ child \in Child /\ ~child.stale
  BY DEF PInv, Sound, ServerOK, CommitCandidate, Ends
<1>2. child.hash \in Content /\ Valid(child.hash) /\ child.hash = queued
  BY <1>1 DEF Child, CommitCandidate, Ends, Sound, FreshBuildIsQueued
<1>3. ArtifactOf[child.hash] \in Artifact
  BY <1>2, ArtifactsAreGiven DEF Valid
<1>4. Verified(ArtifactOf[child.hash]) \in State
  BY <1>1, <1>3 DEF Verified, State
<1>5. PagesOK' /\ state' \in State /\ state' = Verified(ArtifactOf[child.hash])
  BY <1>1, <1>4, PublishKeeps DEF CommitCandidate
<1>6. state'.last = ArtifactOf[child.hash]
  BY <1>5 DEF Verified
<1>7. /\ child' = Nil /\ drain' = "none" /\ ~stopping /\ good' = child.hash
      /\ UNCHANGED <<source, stopping, closed, stopped>> /\ child # Nil
      /\ \/ queued' = source /\ armed' = TRUE /\ pending' = FALSE
         \/ UNCHANGED <<queued, armed, pending>> /\ ~pending
  BY DEF CommitCandidate, Ends, AfterBuild
<1>8. good' # Nil
  BY <1>2, <1>7, NilIsNothing
<1>9. Sound'
  <2>1. GoodIsShown'
    BY <1>2, <1>6, <1>7, <1>8 DEF Valid, Sound, GoodIsShown
  <2>2. VerifiedIsQueued'
    BY <1>2, <1>6, <1>7 DEF VerifiedIsQueued
  <2>3. ServerOK'
    BY <1>1, <1>2, <1>5, <1>7 DEF Sound, ServerOK
  <2>4. Orderly' /\ FreshBuildIsQueued' /\ StopDisarms'
    BY <1>1, <1>7 DEF Sound, Orderly, FreshBuildIsQueued, StopDisarms
  <2> QED
    BY <2>1, <2>2, <2>3, <2>4 DEF Sound
<1> QED
  BY <1>5, <1>9 DEF PInv

LEMMA FailKeeps == ASSUME PInv, Fail PROVE PInv'
<1>1. Sound /\ PagesOK /\ state \in State
  BY DEF PInv, Sound, ServerOK
<1>2. PagesOK' /\ state' \in State /\ state'.last = state.last /\ state'.status = "needs-fix"
  BY <1>1, PublishKeeps, States DEF Fail, Failed
<1>3. /\ child' = Nil /\ drain' = "none" /\ ~stopping
      /\ UNCHANGED <<source, good, stopping, closed, stopped>> /\ child # Nil
      /\ \/ queued' = source /\ armed' = TRUE /\ pending' = FALSE
         \/ UNCHANGED <<queued, armed, pending>> /\ ~pending
  BY DEF Fail, Ends, AfterBuild
<1>4. Sound'
  <2>1. ServerOK'
    BY <1>1, <1>2, <1>3 DEF Valid, Sound, ServerOK
  <2>2. Orderly'
    BY <1>1, <1>2, <1>3 DEF Valid, Sound, Orderly
  <2>3. VerifiedIsQueued'
    BY <1>1, <1>2, <1>3 DEF Valid, VerifiedIsQueued
  <2>4. GoodIsShown'
    BY <1>1, <1>2, <1>3 DEF Valid, Sound, GoodIsShown
  <2>5. FreshBuildIsQueued' /\ StopDisarms'
    BY <1>1, <1>2, <1>3 DEF Valid, Sound, FreshBuildIsQueued, StopDisarms
  <2> QED
    BY <2>1, <2>2, <2>3, <2>4, <2>5 DEF Sound
<1> QED
  BY <1>2, <1>4 DEF PInv

-----------------------------------------------------------------------------
(* stop *)

(* A signal changes neither the build nor whether there is one. *)
LEMMA SignalKeeps ==
  ASSUME ServerOK, child # Nil, NEW s \in {"term", "kill"}, Signal(s)
  PROVE  /\ child' \in Child /\ child' # Nil
         /\ child'.hash = child.hash /\ child'.stale = child.stale
<1>1. PICK c \in Child : c = child
  BY DEF ServerOK
<1>2. PICK t \in {"none", "term", "kill"} : child' = [c EXCEPT !.signal = t]
  BY <1>1 DEF Signal, Child
<1> QED
  BY <1>1, <1>2, ChildIsRecord

LEMMA StopKeeps == ASSUME PInv, NEW force \in BOOLEAN, Stop(force) PROVE PInv'
<1>1. Sound /\ PagesOK /\ ServerOK
  BY DEF PInv, Sound
<1>2. PagesOK'
  <2>1. \A p \in Page : [pages[p] EXCEPT !.open = FALSE] \in PageState
    BY <1>1 DEF PagesOK, PageState
  <2> QED
    BY <2>1 DEF Stop, PagesOK
<1>3. /\ ~stopped /\ stopping' = TRUE /\ armed' = FALSE
      /\ UNCHANGED <<source, queued, pending, good, state, closed>>
      /\ stopped' = (child = Nil /\ closed)
  BY DEF Stop, MayFinish
<1>4. CASE child = Nil
  <2>1. UNCHANGED <<child, drain>>
    BY <1>4 DEF Stop
  <2> QED
    BY <1>1, <1>2, <1>3, <1>4, <2>1 DEF PInv, Sound, ServerOK, Orderly,
         VerifiedIsQueued, GoodIsShown, FreshBuildIsQueued, StopDisarms, Valid
<1>5. CASE child # Nil
  <2>1. /\ child' \in Child /\ child' # Nil
        /\ child'.hash = child.hash /\ child'.stale = child.stale
        /\ drain' \in {"none", "grace", "kill"}
    <3>1. CASE force
      BY <1>1, <1>5, <3>1, SignalKeeps DEF Stop
    <3>2. CASE ~force
      BY <1>1, <1>5, <3>2 DEF Stop, Sound, ServerOK, Orderly
    <3> QED
      BY <3>1, <3>2
  <2>2. stopped' = FALSE
    BY <1>3, <1>5
  <2>3. Sound'
    <3>1. ServerOK'
      BY <1>1, <1>3, <1>5, <2>1, <2>2 DEF Valid, Sound, ServerOK
    <3>2. Orderly'
      BY <1>1, <1>3, <1>5, <2>1, <2>2 DEF Valid, Sound, Orderly
    <3>3. VerifiedIsQueued'
      BY <1>1, <1>3, <1>5, <2>1, <2>2 DEF Valid, VerifiedIsQueued, GoodIsShown
    <3>4. GoodIsShown'
      BY <1>1, <1>3, <1>5, <2>1, <2>2 DEF Valid, Sound, ServerOK, GoodIsShown
    <3>5. FreshBuildIsQueued' /\ StopDisarms'
      BY <1>1, <1>3, <1>5, <2>1, <2>2 DEF Valid, Sound, FreshBuildIsQueued, StopDisarms
    <3> QED
      BY <3>1, <3>2, <3>3, <3>4, <3>5 DEF Sound
  <2> QED
    BY <1>2, <2>3 DEF PInv
<1> QED
  BY <1>4, <1>5

LEMMA DrainKeeps == ASSUME PInv, GraceEnds \/ KillEnds PROVE PInv'
<1>1. Sound /\ PagesOK /\ ServerOK /\ child # Nil /\ stopping
  BY DEF PInv, Sound, Orderly, GraceEnds, KillEnds
<1>2. PagesOK'
  BY <1>1 DEF PagesOK, GraceEnds, KillEnds
<1>3. /\ child' \in Child /\ child' # Nil
      /\ child'.hash = child.hash /\ child'.stale = child.stale
  BY <1>1, SignalKeeps DEF GraceEnds, KillEnds
<1>4. /\ drain' \in {"none", "kill"}
      /\ UNCHANGED <<source, queued, armed, pending, good, state, stopping, closed, stopped>>
  BY DEF GraceEnds, KillEnds
<1>5. Sound'
  <2>1. ServerOK'
    BY <1>1, <1>3, <1>4 DEF Valid, Sound, ServerOK
  <2>2. Orderly'
    BY <1>1, <1>3, <1>4 DEF Valid, Sound, Orderly
  <2>3. VerifiedIsQueued'
    BY <1>1, <1>3, <1>4 DEF Valid, VerifiedIsQueued
  <2>4. GoodIsShown'
    BY <1>1, <1>3, <1>4 DEF Valid, Sound, GoodIsShown
  <2>5. FreshBuildIsQueued' /\ StopDisarms'
    BY <1>1, <1>3, <1>4 DEF Valid, Sound, FreshBuildIsQueued, StopDisarms
  <2> QED
    BY <2>1, <2>2, <2>3, <2>4, <2>5 DEF Sound
<1> QED
  BY <1>2, <1>5 DEF PInv

LEMMA ServerClosesKeeps == ASSUME PInv, ServerCloses PROVE PInv'
<1>1. Sound /\ PagesOK
  BY DEF PInv
<1>2. PagesOK' /\ UNCHANGED <<queued, armed, child, pending, good, state>>
  BY <1>1 DEF ServerCloses, PagesOK, server
<1>3. Sound'
  <2>1. ServerOK'
    BY <1>1, <1>2 DEF ServerCloses, MayFinish, Valid, Sound, ServerOK
  <2>2. Orderly'
    BY <1>1, <1>2 DEF ServerCloses, MayFinish, Valid, Sound, Orderly
  <2>3. VerifiedIsQueued'
    BY <1>1, <1>2 DEF ServerCloses, MayFinish, Valid, VerifiedIsQueued
  <2>4. GoodIsShown'
    BY <1>1, <1>2 DEF ServerCloses, MayFinish, Valid, Sound, GoodIsShown
  <2>5. FreshBuildIsQueued' /\ StopDisarms'
    BY <1>1, <1>2 DEF ServerCloses, MayFinish, Valid, Sound, FreshBuildIsQueued, StopDisarms
  <2> QED
    BY <2>1, <2>2, <2>3, <2>4, <2>5 DEF Sound
<1> QED
  BY <1>2, <1>3 DEF PInv

-----------------------------------------------------------------------------
(* Pages *)

LEMMA PagesKeep ==
  ASSUME PInv, NEW p \in Page, Open(p) \/ Reconnect(p) \/ Render(p) \/ Load(p)
  PROVE  PInv'
<1>1. Sound /\ PagesOK /\ state \in State /\ source \in Content
  BY DEF PInv, Sound, ServerOK
<1>2. UNCHANGED <<source, server, ending>>
  BY DEF Open, Reconnect, Render, Load
<1>3. Sound'
  BY <1>1, <1>2, ServerStays
<1>4. PICK q \in PageState : q = pages[p]
  BY <1>1 DEF PagesOK
<1>5. \E row \in PageState : pages' = [pages EXCEPT ![p] = row]
  <2>1. <<state>> \in Seq(State)
    BY <1>1
  <2>2. CASE Open(p)
    <3>1. [ClosedPage EXCEPT !.open = TRUE, !.inbox = <<state>>] \in PageState
      BY <2>1 DEF ClosedPage, PageState
    <3> QED
      BY <2>2, <3>1 DEF Open
  <2>3. CASE Reconnect(p)
    <3>1. [q EXCEPT !.inbox = <<state>>] \in PageState
      BY <2>1 DEF PageState
    <3> QED
      BY <1>4, <2>3, <3>1 DEF Reconnect
  <2>4. CASE Render(p)
    <3>1. q.inbox \in Seq(State) /\ q.inbox # <<>>
      BY <1>4, <2>4 DEF Render, PageState
    <3>2. PICK event \in State, rest \in Seq(State) :
            event = Head(q.inbox) /\ rest = Tail(q.inbox)
      BY <3>1, HeadTailProperties
    <3>3. PICK seen \in Nat : seen = IF News(p, event) THEN event.revision ELSE q.seen
      BY DEF State, PageState
    <3>4. PICK loading \in BOOLEAN : loading = (q.loading \/ News(p, event))
      BY ZenonT(30)
    <3> DEFINE row == [q EXCEPT !.inbox = rest, !.told = event.status, !.seen = seen,
                                !.loading = loading]
    <3>5. row \in PageState
      BY DEF PageState, State
    <3>6. pages' = [pages EXCEPT ![p] = row]
      <4>1. pages' = [pages EXCEPT ![p] =
              [pages[p] EXCEPT !.inbox = Tail(pages[p].inbox),
                 !.told = Head(pages[p].inbox).status,
                 !.seen = IF News(p, Head(pages[p].inbox))
                          THEN Head(pages[p].inbox).revision ELSE pages[p].seen,
                 !.loading = pages[p].loading \/ News(p, Head(pages[p].inbox))]]
        BY <2>4 DEF Render
      <4> QED
        BY <1>4, <3>2, <3>3, <3>4, <4>1, Zenon
    <3> HIDE DEF row
    <3> QED
      BY <3>5, <3>6
  <2>5. CASE Load(p)
    <3>1. state.last \in Artifact \union {Nil}
      BY <1>1 DEF State
    <3>2. [q EXCEPT !.loading = FALSE, !.shown = state.last] \in PageState
      BY <3>1 DEF PageState
    <3> QED
      BY <1>4, <2>5, <3>2 DEF Load
  <2> QED
    BY <2>2, <2>3, <2>4, <2>5
<1>6. PagesOK'
  BY <1>1, <1>5 DEF PagesOK
<1> QED
  BY <1>3, <1>6 DEF PInv

-----------------------------------------------------------------------------
(* The theorem *)

LEMMA StepKeeps == PInv /\ [PreviewNext]_previewVars => PInv'
<1> SUFFICES ASSUME PInv, [PreviewNext]_previewVars PROVE PInv'
  OBVIOUS
<1>1. CASE PreviewNext
  BY <1>1, EditKeeps, ObserveKeeps, RequeueKeeps, RestoreKeeps, DeferKeeps,
     BeginBuildKeeps, PrepareFailsKeeps, QuietEndKeeps, CommitKeeps, FailKeeps,
     StopKeeps, DrainKeeps, ServerClosesKeeps, PagesKeep DEF PreviewNext, Launch, ChildEnds
<1>2. CASE UNCHANGED previewVars
  <2>1. UNCHANGED <<server, ending>> /\ UNCHANGED <<source, pages>>
    BY <1>2 DEF previewVars
  <2>2. source \in Content
    BY DEF PInv, Sound, ServerOK
  <2> QED
    BY <2>1, <2>2, ServerStays DEF PInv, PagesOK
<1> QED
  BY <1>1, <1>2

LEMMA AlwaysPInv == PreviewSpec => []PInv
BY PreviewInitially, StepKeeps, PTL DEF PreviewSpec

(* Only a build that is neither superseded nor drained publishes. *)
LEMMA StepPublishes ==
  ASSUME PInv, PreviewNext, state'.last # state.last
  PROVE  Valid(source) /\ state'.last = ArtifactOf[source] /\ ~stopping
<1>1. state \in State
  BY DEF PInv, Sound, ServerOK
<1>2. CASE CommitCandidate
  <2>1. source = child.hash /\ Valid(child.hash) /\ ~stopping
        /\ state' = Verified(ArtifactOf[child.hash])
    BY <1>2 DEF CommitCandidate, Superseded, Publish
  <2> QED
    BY <2>1 DEF Verified
<1>3. CASE Restore \/ BeginBuild \/ PrepareFails \/ Fail
  BY <1>1, <1>3, States DEF Restore, BeginBuild, PrepareFails, Fail, Failed, Publish
<1>4. CASE \/ Edit \/ Observe \/ Requeue \/ Defer \/ EndsInStop \/ EndsStale \/ Supersede
           \/ GraceEnds \/ KillEnds \/ ServerCloses
           \/ \E force \in BOOLEAN : Stop(force)
           \/ \E p \in Page : Open(p) \/ Reconnect(p) \/ Render(p) \/ Load(p)
  BY <1>4 DEF Edit, Observe, Requeue, Defer, EndsInStop, EndsStale, Supersede, GraceEnds,
              KillEnds, ServerCloses, Stop, Open, Reconnect, Render, Load, server
<1> QED
  BY <1>2, <1>3, <1>4 DEF PreviewNext, Launch, ChildEnds

(* What the server shows and says is about the source it was given, for    *)
(* any contents, pages, saves, failing builds and stops: "verified" is     *)
(* said of the content that was queued last, and what is published is the  *)
(* artifact of what the source holds at that time (preview.mjs).           *)
THEOREM PreviewIsSound == PreviewSpec => PublishedIsSound
<1> DEFINE Publishes == state'.last # state.last
     => /\ Valid(source) /\ state'.last = ArtifactOf[source]
        /\ ~stopping
<1>1. PInv => PreviewTypeOK /\ VerifiedIsQueued
  BY DEF PInv, Sound, ServerOK, Orderly, PagesOK, PreviewTypeOK
<1>2. PInv /\ [PreviewNext]_previewVars => [Publishes]_previewVars
  BY StepPublishes
<1> QED
  BY <1>1, <1>2, AlwaysPInv, PTL DEF PreviewSpec, PublishedIsSound, PublishesSource


(***************************************************************************)
(* The page of a comparison                                                *)
(***************************************************************************)

(* What the script keeps, without the bound that stops its reader. *)
Script ==
  [index : 0 .. Rows, token : Nat, timers : SUBSET Nat, handle : Nat,
   playing : BOOLEAN, available : BOOLEAN, view : Views,
   marked : SUBSET (1 .. Rows), current : 0 .. Rows,
   enabled : SUBSET {"overview", "previous", "next"}]

(* The timer of a playback is the only one, and can be cleared. *)
Ticks(s) ==
  /\ s.timers = IF s.playing THEN {s.token} ELSE {}
  /\ s.playing => /\ s.handle = s.token /\ s.view = "delta"
                  /\ 1 <= s.index /\ s.index < Rows /\ s.available

(* The buttons, from what the review is on. *)
Buttons(s) ==
  /\ "previous" \in s.enabled <=> s.available /\ s.index \in 2 .. Rows
  /\ "next" \in s.enabled <=> s.available /\ s.index \in 1 .. Rows - 1
  /\ "overview" \in s.enabled <=> s.available /\ s.index # 0

Highlights(s) ==
  /\ s.marked = IF s.index = 0 THEN {} ELSE {s.index}
  /\ s.current = s.index
  /\ Buttons(s)
  /\ ~s.available => s.index = 0

(* A state between two functions of the script. *)
Good(s) == s \in Script /\ Ticks(s) /\ Highlights(s)

(* One that no timer is set in. *)
Still(s) == Good(s) /\ ~s.playing

(* A playback has one token to spare: for the step that ends it. *)
RInv ==
  /\ Good(review)
  /\ review.playing => ~reduced /\ review.token \in 1 .. MaxToken + 1
  /\ review.token \in 0 .. MaxToken + 2
  /\ review.handle \in 0 .. MaxToken + 2
  /\ intact \subseteq 1 .. Rows
  /\ reduced \in BOOLEAN /\ onButton \in BOOLEAN

LEMMA NothingIsScript ==
  /\ 0 \in 0 .. Rows /\ {} \in SUBSET (1 .. Rows) /\ {} \in SUBSET Nat
  /\ {} \in SUBSET {"overview", "previous", "next"}
BY ReviewAssumption

(* stopPlayback clears the timer it knows of, and moves nothing else. *)
LEMMA StopEmpties ==
  ASSUME NEW s \in Script, s.timers \subseteq {s.handle}
  PROVE  LET n == StopPlayback(s) IN
         /\ n \in Script /\ n.token = s.token + 1 /\ n.handle = 0 /\ n.timers = {} /\ ~n.playing
         /\ n.available = s.available /\ n.index = s.index /\ n.marked = s.marked
         /\ n.current = s.current /\ n.enabled = s.enabled
<1> DEFINE ts == s.timers \ {s.handle}
           n == [s EXCEPT !.token = @ + 1, !.timers = ts, !.handle = 0, !.playing = FALSE]
<1>1. ts = {} /\ StopPlayback(s) = n
  BY DEF StopPlayback
<1>0. ts \in SUBSET Nat /\ s.token + 1 \in Nat
  BY DEF Script
<1> HIDE DEF ts
<1>2. /\ n \in Script /\ n.token = s.token + 1 /\ n.handle = 0 /\ n.timers = ts /\ ~n.playing
      /\ n.available = s.available /\ n.index = s.index /\ n.marked = s.marked
      /\ n.current = s.current /\ n.enabled = s.enabled
  BY <1>0 DEF Script
<1> QED
  BY <1>1, <1>2

(* It ends what plays. *)
LEMMA StopStills ==
  ASSUME NEW s, Good(s)
  PROVE  LET n == StopPlayback(s) IN
         /\ Still(n) /\ n.token = s.token + 1 /\ n.handle = 0
         /\ n.available = s.available /\ n.index = s.index
<1>1. s \in Script /\ s.timers \subseteq {s.handle} /\ Highlights(s)
  BY DEF Good, Ticks
<1> DEFINE n == StopPlayback(s)
<1>2. /\ n \in Script /\ n.token = s.token + 1 /\ n.handle = 0 /\ n.timers = {} /\ ~n.playing
      /\ n.available = s.available /\ n.index = s.index /\ n.marked = s.marked
      /\ n.current = s.current /\ n.enabled = s.enabled
  BY <1>1, StopEmpties
<1> HIDE DEF n
<1> QED
  BY <1>1, <1>2 DEF n, Good, Still, Ticks, Highlights, Buttons

(* The view is anybody's as long as nothing plays. *)
LEMMA ViewKeeps ==
  ASSUME NEW s, Still(s), NEW v \in Views
  PROVE  LET n == ShowView(s, v) IN
         Still(n) /\ n.token = s.token /\ n.handle = s.handle
BY DEF Good, Still, Script, Ticks, Highlights, Buttons, ShowView

(* updateControls sets the buttons for a row or the overview. *)
LEMMA ControlsFit ==
  ASSUME NEW s \in Script
  PROVE  LET n == UpdateControls(s) IN
         /\ n \in Script /\ Buttons(n)
         /\ \E e : n = [s EXCEPT !.enabled = e]
<1> DEFINE es == IF ~s.available \/ s.index = 0 THEN {}
                 ELSE {"overview"} \cup (IF s.index > 1 THEN {"previous"} ELSE {})
                        \cup (IF s.index < Rows THEN {"next"} ELSE {})
           n == [s EXCEPT !.enabled = es]
<1>1. es \in SUBSET {"overview", "previous", "next"}
  OBVIOUS
<1>2. /\ "previous" \in es <=> s.available /\ s.index \in 2 .. Rows
      /\ "next" \in es <=> s.available /\ s.index \in 1 .. Rows - 1
      /\ "overview" \in es <=> s.available /\ s.index # 0
  BY ReviewAssumption DEF Script
<1>3. UpdateControls(s) = n
  BY DEF UpdateControls
<1> HIDE DEF es
<1>4. n \in Script /\ n.enabled = es /\ n.available = s.available /\ n.index = s.index
  BY <1>1 DEF Script
<1> QED
  BY <1>2, <1>3, <1>4 DEF Buttons

LEMMA FailStills ==
  ASSUME NEW s \in Script, s.timers \subseteq {s.handle}
  PROVE  LET n == FailReview(s) IN
         /\ Still(n) /\ n.token = s.token + 1 /\ n.handle = 0 /\ n.index = 0
         /\ ~n.available
<1> DEFINE p == StopPlayback(s)
           none == {}
           n == [p EXCEPT !.available = FALSE, !.index = 0, !.marked = none,
                          !.current = 0, !.enabled = none]
<1>1. p \in Script /\ p.token = s.token + 1 /\ p.handle = 0 /\ p.timers = {} /\ ~p.playing
  BY StopEmpties
<1>0. /\ 0 \in 0 .. Rows /\ none \in SUBSET (1 .. Rows)
      /\ none \in SUBSET {"overview", "previous", "next"}
  BY NothingIsScript
<1>3. FailReview(s) = n
  BY DEF FailReview
<1> HIDE DEF p, none
<1>2. n \in Script /\ n.token = s.token + 1 /\ n.handle = 0 /\ n.timers = {}
      /\ ~n.playing /\ ~n.available /\ n.index = 0 /\ n.marked = none /\ n.current = 0
      /\ n.enabled = none
  BY <1>0, <1>1 DEF Script
<1> HIDE DEF n
<1> QED
  BY <1>2, <1>3 DEF none, Good, Still, Ticks, Highlights, Buttons

(* selectChange moves to a row that is intact and fails on any other; where it *)
(* moves, a timer stays as it is.                                              *)
LEMMA SelectMoves ==
  ASSUME NEW s \in Script, Highlights(s), NEW i \in Int,
         s.timers \subseteq {s.handle}, intact \subseteq 1 .. Rows
  PROVE  LET n == SelectChange(s, i) IN
         \/ /\ n = s /\ (~s.available \/ i \notin 1 .. Rows)
         \/ Still(n) /\ n.token = s.token + 1 /\ n.handle = 0 /\ n.index = 0
         \/ /\ n \in Script /\ Highlights(n)
            /\ n.index = i /\ i \in 1 .. Rows /\ n.view = "delta" /\ n.available
            /\ n.token = s.token /\ n.timers = s.timers /\ n.handle = s.handle
            /\ n.playing = s.playing
<1>1. CASE ~s.available \/ i \notin 1 .. Rows
  BY <1>1 DEF SelectChange
<1>2. CASE s.available /\ i \in 1 .. Rows /\ i \notin intact
  BY <1>2, FailStills DEF SelectChange
<1>3. CASE s.available /\ i \in 1 .. Rows /\ i \in intact
  <2> DEFINE one == {i}
             m == [ShowView(s, "delta") EXCEPT !.marked = one, !.current = i, !.index = i]
  <2>0. one \in SUBSET (1 .. Rows) /\ i \in 0 .. Rows
    BY <1>3, ReviewAssumption
  <2> HIDE DEF one
  <2>1. /\ m \in Script /\ m.marked = one /\ m.current = i /\ m.index = i
        /\ m.view = "delta" /\ m.available /\ m.token = s.token /\ m.timers = s.timers
        /\ m.handle = s.handle /\ m.playing = s.playing
    BY <1>3, <2>0 DEF Script, ShowView, Views
  <2>2. SelectChange(s, i) = UpdateControls(m)
    BY <1>3 DEF SelectChange, one
  <2> HIDE DEF m
  <2> DEFINE n == UpdateControls(m)
  <2>3. /\ n \in Script /\ Buttons(n)
        /\ \E e : n = [m EXCEPT !.enabled = e]
    BY <2>1, ControlsFit
  <2>4. /\ n.marked = one /\ n.current = i /\ n.index = i
        /\ n.view = "delta" /\ n.available /\ n.token = s.token /\ n.timers = s.timers
        /\ n.handle = s.handle /\ n.playing = s.playing
    BY <2>1, <2>3 DEF Script
  <2> HIDE DEF n
  <2>5. Highlights(n)
    BY <1>3, <2>3, <2>4 DEF Highlights, one
  <2> QED
    BY <1>3, <2>2, <2>3, <2>4, <2>5 DEF n
<1> QED
  BY <1>1, <1>2, <1>3

(* A row picked while nothing plays. *)
LEMMA SelectStills ==
  ASSUME NEW s, Still(s), NEW i \in Int, intact \subseteq 1 .. Rows
  PROVE  LET n == SelectChange(s, i) IN
         /\ Still(n) /\ n.token \in {s.token, s.token + 1} /\ n.handle \in {0, s.handle}
         /\ n.index # 0 => n.available
<1>1. s \in Script /\ Highlights(s) /\ s.timers \subseteq {s.handle} /\ Ticks(s) /\ ~s.playing
  BY DEF Still, Good, Ticks
<1>2. s.index # 0 => s.available
  BY <1>1 DEF Highlights, Script
<1> DEFINE n == SelectChange(s, i)
<1>3. CASE n = s
  BY <1>2, <1>3
<1>4. CASE Still(n) /\ n.token = s.token + 1 /\ n.handle = 0 /\ n.index = 0
  BY <1>4
<1>5. CASE /\ n \in Script /\ Highlights(n)
           /\ n.index = i /\ i \in 1 .. Rows /\ n.view = "delta" /\ n.available
           /\ n.token = s.token /\ n.timers = s.timers /\ n.handle = s.handle
           /\ n.playing = s.playing
  BY <1>1, <1>5 DEF Still, Good, Ticks
<1> QED
  BY <1>1, <1>3, <1>4, <1>5, SelectMoves

LEMMA OverviewStills ==
  ASSUME NEW s, Good(s)
  PROVE  LET n == Overview(s) IN
         Still(n) /\ n.token = s.token + 1 /\ n.handle = 0
<1>1. s \in Script /\ s.timers \subseteq {s.handle}
  BY DEF Good, Ticks
<1>2. CASE ~s.available
  BY <1>1, <1>2, FailStills DEF Overview
<1>3. CASE s.available
  <2> DEFINE p == ShowView(StopPlayback(s), "delta")
             m == [p EXCEPT !.index = 0, !.marked = {}, !.current = 0]
             n == UpdateControls(m)
  <2>1. /\ p \in Script /\ p.token = s.token + 1 /\ p.handle = 0 /\ p.timers = {}
        /\ ~p.playing /\ p.available
    <3>1. LET q == StopPlayback(s) IN
          /\ q \in Script /\ q.token = s.token + 1 /\ q.handle = 0 /\ q.timers = {}
          /\ ~q.playing /\ q.available
      BY <1>1, <1>3, StopEmpties
    <3> QED
      BY <3>1 DEF Script, ShowView, Views
  <2> HIDE DEF p
  <2>2. /\ m \in Script /\ m.token = s.token + 1 /\ m.handle = 0 /\ m.timers = {}
        /\ ~m.playing /\ m.available /\ m.index = 0 /\ m.marked = {} /\ m.current = 0
    BY <2>1, NothingIsScript DEF Script
  <2>3. Overview(s) = n
    BY <1>3 DEF Overview, p
  <2> HIDE DEF m
  <2>4. n \in Script /\ Buttons(n) /\ \E e : n = [m EXCEPT !.enabled = e]
    BY <2>2, ControlsFit
  <2>5. /\ n.token = s.token + 1 /\ n.handle = 0 /\ n.timers = {}
        /\ ~n.playing /\ n.available /\ n.index = 0 /\ n.marked = {} /\ n.current = 0
    BY <2>2, <2>4 DEF Script
  <2> HIDE DEF n
  <2>6. Still(n)
    BY <2>4, <2>5 DEF Still, Good, Ticks, Highlights
  <2> QED
    BY <2>3, <2>5, <2>6
<1> QED
  BY <1>2, <1>3

(* schedulePlayback, called by a start or by the timer that fired, sets the one *)
(* timer of its token or ends the playback.                                     *)
LEMMA ScheduleTicks ==
  ASSUME NEW s \in Script, Highlights(s), s.playing, s.timers = {}, s.view = "delta",
         s.index \in 1 .. Rows, s.available
  PROVE  LET n == SchedulePlayback(s, s.token) IN
         \/ Still(n) /\ n.token = s.token + 1 /\ n.handle = 0
         \/ Good(n) /\ n.token = s.token /\ n.handle = s.token
<1>1. CASE s.index >= Rows
  <2> DEFINE n == StopPlayback(s)
  <2>1. /\ n \in Script /\ n.token = s.token + 1 /\ n.handle = 0 /\ n.timers = {} /\ ~n.playing
        /\ n.available = s.available /\ n.index = s.index /\ n.marked = s.marked
        /\ n.current = s.current /\ n.enabled = s.enabled
    BY StopEmpties
  <2>2. SchedulePlayback(s, s.token) = n
    BY <1>1 DEF SchedulePlayback
  <2> HIDE DEF n
  <2> QED
    BY <2>1, <2>2 DEF Still, Good, Ticks, Highlights, Buttons
<1>2. CASE s.index < Rows
  <2> DEFINE ts == s.timers \cup {s.token}
             n == [s EXCEPT !.timers = ts, !.handle = s.token]
  <2>1. SchedulePlayback(s, s.token) = n
    BY <1>2, ReviewAssumption DEF SchedulePlayback, Script
  <2>2. ts = {s.token} /\ ts \in SUBSET Nat
    BY DEF Script
  <2> HIDE DEF ts
  <2>3. /\ n \in Script /\ n.token = s.token /\ n.handle = s.token /\ n.timers = ts /\ n.playing
        /\ n.available = s.available /\ n.index = s.index /\ n.marked = s.marked
        /\ n.current = s.current /\ n.enabled = s.enabled /\ n.view = s.view
    BY <2>2 DEF Script
  <2> HIDE DEF n
  <2> QED
    BY <1>2, <2>1, <2>2, <2>3 DEF Good, Ticks, Highlights, Buttons
<1> QED
  BY <1>1, <1>2, ReviewAssumption DEF Script

LEMMA StartKeeps ==
  ASSUME NEW s, Good(s), intact \subseteq 1 .. Rows
  PROVE  LET n == StartReview(s) IN
         /\ Good(n) /\ (n.playing => ~reduced)
         /\ n.token \in s.token + (IF n.playing THEN 1 ELSE 0)
                  .. s.token + (IF n.playing THEN 2 ELSE 3)
         /\ n.handle \in {0, s.handle, n.token}
<1> DEFINE p == StopPlayback(s)
           f == SelectChange(p, 1)
<1>1. s.token \in Nat /\ (s.playing => s.available)
  BY DEF Good, Script, Ticks
<1>2. CASE ~s.available
  BY <1>1, <1>2 DEF StartReview
<1>3. Still(p) /\ p.token = s.token + 1 /\ p.handle = 0 /\ p.available = s.available
  BY StopStills
<1> HIDE DEF p
<1>4. CASE s.available /\ s.playing
  BY <1>1, <1>3, <1>4 DEF StartReview, Still, p
<1>5. CASE s.available /\ ~s.playing
  <2>1. /\ Still(f) /\ f.token \in {p.token, p.token + 1} /\ f.handle \in {0, p.handle}
        /\ f.index # 0 => f.available
    BY <1>3, SelectStills
  <2>2. f.index = 1 => f.view = "delta" /\ f.token = p.token
    <3>1. /\ p \in Script /\ Highlights(p) /\ p.timers \subseteq {p.handle}
          /\ p.index \in 0 .. Rows /\ p.available
      BY <1>3, <1>5 DEF Still, Good, Ticks, Script
    <3>2. CASE f = p
      BY <1>5, <3>1, <3>2, SelectMoves, ReviewAssumption
    <3> QED
      BY <3>1, <3>2, SelectMoves
  <2> HIDE DEF f
  <2>3. CASE f.index # 1 \/ reduced \/ Rows < 2
    <3>1. StartReview(s) = f
      BY <1>5, <2>3 DEF StartReview, p, f
    <3> QED
      BY <1>1, <1>3, <2>1, <3>1 DEF Still
  <2>4. CASE f.index = 1 /\ ~reduced /\ Rows >= 2
    <3> DEFINE m == [f EXCEPT !.playing = TRUE, !.token = @ + 1]
    <3>0. f \in Script /\ f.timers = {} /\ f.view = "delta" /\ f.available /\ Highlights(f)
      BY <2>1, <2>2, <2>4 DEF Still, Good, Ticks
    <3>1. /\ m \in Script /\ m.playing /\ m.timers = {} /\ m.view = "delta"
          /\ m.index = 1 /\ m.available /\ m.token = f.token + 1
          /\ m.marked = f.marked /\ m.current = f.current /\ m.enabled = f.enabled
      <4> DEFINE tk == f.token + 1
      <4>1. tk \in Nat
        BY <3>0 DEF Script
      <4>2. m = [f EXCEPT !.playing = TRUE, !.token = tk]
        OBVIOUS
      <4> HIDE DEF tk, m
      <4>3. m \in Script
        BY <3>0, <4>1, <4>2 DEF Script
      <4>4. m.token = tk /\ m.playing
        BY <3>0, <4>2 DEF Script
      <4>5. /\ m.timers = f.timers /\ m.view = f.view /\ m.index = f.index
            /\ m.available = f.available
            /\ m.marked = f.marked /\ m.current = f.current /\ m.enabled = f.enabled
        BY <3>0, <4>2 DEF Script
      <4> QED
        BY <2>4, <3>0, <4>3, <4>4, <4>5 DEF tk
    <3>5. Highlights(m)
      BY <2>4, <3>0, <3>1 DEF Highlights, Buttons
    <3>2. StartReview(s) = SchedulePlayback(m, m.token)
      BY <1>5, <2>4, <3>1, ReviewAssumption DEF StartReview, p, f
    <3> HIDE DEF m
    <3> DEFINE n == SchedulePlayback(m, m.token)
    <3>3. \/ Still(n) /\ n.token = m.token + 1 /\ n.handle = 0
          \/ Good(n) /\ n.token = m.token /\ n.handle = m.token
      BY <3>1, <3>5, ScheduleTicks, ReviewAssumption, <2>4
    <3> HIDE DEF n
    <3>4. n.playing => ~reduced
      BY <2>4
    <3> QED
      BY <1>1, <1>3, <2>2, <2>4, <3>1, <3>2, <3>3, <3>4 DEF n, Still
  <2> QED
    BY <2>3, <2>4, ReviewAssumption
<1> QED
  BY <1>2, <1>4, <1>5

-----------------------------------------------------------------------------
(* The events *)

(* What an event of a reader who may still act leaves. *)
LEMMA ReviewSettled ==
  ASSUME RInv, Good(review'), review'.token \in review.token .. review.token + 3,
         review.token < MaxToken, review'.handle \in {0, review.handle, review'.token},
         review'.playing => review'.token \in 1 .. review.token + 2 /\ ~reduced',
         intact' \subseteq intact, reduced' \in BOOLEAN, onButton' \in BOOLEAN
  PROVE  RInv'
BY ReviewAssumption DEF RInv, Good, Script

LEMMA ReviewInitially == DeltaInit => RInv
<1> SUFFICES ASSUME DeltaInit PROVE RInv
  OBVIOUS
<1> DEFINE none == {}
<1>1. /\ FreshReview \in Script /\ FreshReview.timers = {} /\ FreshReview.handle = 0
      /\ FreshReview.token = 0 /\ ~FreshReview.playing /\ FreshReview.marked = {}
      /\ FreshReview.index = 0 /\ FreshReview.current = 0 /\ FreshReview.available
  BY NothingIsScript DEF FreshReview, Script, Views
<1>2. intact \subseteq 1 .. Rows /\ reduced \in BOOLEAN /\ onButton \in BOOLEAN
  BY DEF DeltaInit
<1>3. CASE review = UpdateControls(FreshReview)
  <2>1. /\ review \in Script /\ Buttons(review)
        /\ \E e : review = [FreshReview EXCEPT !.enabled = e]
    BY <1>1, <1>3, ControlsFit
  <2>2. /\ review.timers = {} /\ review.handle = 0 /\ review.token = 0 /\ ~review.playing
        /\ review.marked = {} /\ review.index = 0 /\ review.current = 0 /\ review.available
    BY <1>1, <2>1 DEF Script
  <2> QED
    BY <1>2, <2>1, <2>2, ReviewAssumption DEF RInv, Good, Ticks, Highlights
<1>4. CASE review = FailReview(FreshReview)
  BY <1>1, <1>2, <1>4, FailStills, ReviewAssumption DEF RInv, Still
<1> QED
  BY <1>3, <1>4 DEF DeltaInit

(* Each event of the reader is a chain of the script's functions. *)
LEMMA ReaderKeeps ==
  ASSUME RInv,
         FocusIn \/ FocusOut \/ Tab \/ PickRow \/ Previous \/ NextRow \/ ToOverview
           \/ Play \/ Arrows \/ Escape \/ BeforePrint \/ HidePage \/ MotionChange
  PROVE  RInv'
<1>1. Good(review) /\ intact \subseteq 1 .. Rows /\ review.token \in Nat
      /\ (review.playing => ~reduced) /\ reduced \in BOOLEAN /\ onButton \in BOOLEAN
      /\ review.index \in Nat
  BY ReviewAssumption DEF RInv, Good, Script
<1> DEFINE halted == StopPlayback(review)
<1>2. Still(halted) /\ Good(halted) /\ halted.token = review.token + 1 /\ halted.handle = 0
  BY <1>1, StopStills DEF Still
<1> HIDE DEF halted
<1>3. CASE FocusIn
  BY <1>1, <1>2, <1>3, ReviewSettled DEF FocusIn, MayAct, halted, Still
<1>4. CASE FocusOut
  BY <1>4 DEF FocusOut, RInv
<1>5. CASE Tab
  <2>1. PICK v \in Views : Press(ShowView(halted, v))
    BY <1>5 DEF Tab, halted
  <2>2. LET n == ShowView(halted, v) IN
        Still(n) /\ n.token = halted.token /\ n.handle = halted.handle
    BY <1>2, ViewKeeps
  <2> QED
    BY <1>1, <1>2, <2>1, <2>2, ReviewSettled DEF Press, MayAct, Still
<1>6. ASSUME NEW i \in Int, Press(SelectChange(halted, i)) PROVE RInv'
  <2>1. LET n == SelectChange(halted, i) IN
        Still(n) /\ n.token \in {halted.token, halted.token + 1} /\ n.handle \in {0, halted.handle}
    BY <1>1, <1>2, SelectStills
  <2> QED
    BY <1>1, <1>2, <1>6, <2>1, ReviewSettled DEF Press, MayAct, Still
<1>7. CASE PickRow \/ Previous \/ NextRow
  BY <1>1, <1>6, <1>7, ReviewAssumption DEF PickRow, Previous, NextRow, halted
<1>8. LET n == Overview(review) IN Still(n) /\ n.token = review.token + 1 /\ n.handle = 0
  BY <1>1, OverviewStills
<1>9. CASE ToOverview \/ Escape \/ BeforePrint
  <2>1. /\ review' = Overview(review) /\ review.token < MaxToken
        /\ UNCHANGED <<intact, reduced>> /\ onButton' \in BOOLEAN
    BY <1>1, <1>9 DEF ToOverview, Escape, BeforePrint, Press, MayAct
  <2> QED
    BY <1>1, <1>8, <2>1, ReviewSettled DEF Still
<1>10. CASE Play
  <2>1. LET n == StartReview(review) IN
        /\ Good(n) /\ (n.playing => ~reduced)
        /\ n.token \in review.token + (IF n.playing THEN 1 ELSE 0)
                       .. review.token + (IF n.playing THEN 2 ELSE 3)
        /\ n.handle \in {0, review.handle, n.token}
    BY <1>1, StartKeeps
  <2> QED
    BY <1>1, <1>10, <2>1, ReviewSettled DEF Play, Press, MayAct
<1>11. CASE Arrows \/ HidePage
  BY <1>1, <1>2, <1>11, ReviewSettled DEF Arrows, HidePage, Press, MayAct, halted, Still
<1>12. CASE MotionChange
  <2>1. CASE reduced'
    BY <1>1, <1>2, <1>12, <2>1, ReviewSettled DEF MotionChange, MayAct, halted, Still
  <2>2. CASE ~reduced'
    BY <1>1, <1>12, <2>2 DEF MotionChange, RInv
  <2> QED
    BY <2>1, <2>2
<1> QED
  BY <1>3, <1>4, <1>5, <1>7, <1>9, <1>10, <1>11, <1>12

(* The timer that fires is the one of the playback: it sets the next one, or *)
(* the playback is over.                                                     *)
LEMMA FireKeeps == ASSUME RInv, Fire PROVE RInv'
<1>1. Good(review) /\ intact \subseteq 1 .. Rows
  BY DEF RInv
<1>2. PICK t \in review.timers : 
        LET s == [review EXCEPT !.timers = @ \ {t}]
            n == SelectChange(s, s.index + 1)
        IN review' = IF ~s.playing \/ t # s.token THEN s
                     ELSE IF n.index # s.index + 1 THEN n
                     ELSE SchedulePlayback(n, t)
  BY DEF Fire
<1>3. /\ review \in Script /\ review.playing /\ t = review.token /\ review.timers = {t}
      /\ review.handle = t /\ review.view = "delta" /\ review.index \in 1 .. Rows - 1
      /\ review.available /\ Highlights(review)
  BY <1>1, <1>2, ReviewAssumption DEF Good, Ticks, Script
<1> DEFINE ts == review.timers \ {t}
           s == [review EXCEPT !.timers = ts]
<1>4. ts = {} /\ ts \in SUBSET Nat
  BY <1>3
<1> HIDE DEF ts
<1>5. /\ s \in Script /\ s.playing /\ s.token = t /\ s.timers = ts /\ s.index = review.index
      /\ s.handle = t /\ s.view = "delta" /\ s.available /\ s.marked = review.marked
      /\ s.current = review.current /\ s.enabled = review.enabled
  BY <1>3, <1>4 DEF Script
<1> DEFINE n == SelectChange(s, s.index + 1)
<1>6. review' = IF n.index # s.index + 1 THEN n ELSE SchedulePlayback(n, t)
  BY <1>2, <1>5 DEF ts
<1> HIDE DEF s
<1>7. Highlights(s) /\ s.index + 1 \in 1 .. Rows
  BY <1>3, <1>5, ReviewAssumption DEF Highlights, Buttons
<1>8. \/ Still(n) /\ n.token = t + 1 /\ n.handle = 0 /\ n.index = 0
      \/ /\ n \in Script /\ Highlights(n)
         /\ n.index = s.index + 1 /\ n.view = "delta" /\ n.available
         /\ n.token = t /\ n.timers = {} /\ n.playing
  BY <1>1, <1>4, <1>5, <1>7, SelectMoves
<1> HIDE DEF n
<1>9. /\ Good(review') /\ review'.token \in t .. t + 1
      /\ review'.playing => review'.token = t /\ ~reduced
      /\ review'.handle \in {0, t}
  <2>1. t \in Nat /\ ~reduced /\ s.index + 1 # 0
    BY <1>3, <1>5 DEF RInv, Script
  <2>2. CASE Still(n) /\ n.token = t + 1 /\ n.handle = 0 /\ n.index = 0
    BY <1>6, <2>1, <2>2 DEF Still
  <2>3. CASE /\ n \in Script /\ Highlights(n)
             /\ n.index = s.index + 1 /\ n.view = "delta" /\ n.available
             /\ n.token = t /\ n.timers = {} /\ n.playing
    <3>1. \/ Still(review') /\ review'.token = t + 1 /\ review'.handle = 0
          \/ Good(review') /\ review'.token = t /\ review'.handle = t
      BY <1>6, <1>7, <2>3, ScheduleTicks
    <3> QED
      BY <2>1, <3>1 DEF Still
  <2> QED
    BY <1>8, <2>2, <2>3
<1>10. UNCHANGED <<intact, reduced, onButton>>
  BY DEF Fire
<1> QED
  BY <1>3, <1>9, <1>10, ReviewAssumption DEF RInv

LEMMA ReviewStep == RInv /\ [DeltaNext]_reviewVars => RInv'
<1> SUFFICES ASSUME RInv, [DeltaNext]_reviewVars PROVE RInv'
  OBVIOUS
<1>1. CASE Alter
  BY <1>1 DEF Alter, RInv
<1>2. CASE UNCHANGED reviewVars
  BY <1>2 DEF reviewVars, RInv
<1> QED
  BY <1>1, <1>2, ReaderKeeps, FireKeeps DEF DeltaNext

(* The page of a comparison runs at most one timer, which a stop can clear *)
(* and which belongs to the row on the screen, and its list, drawing and   *)
(* buttons say the same, whatever the reader, the timer and scripts that   *)
(* alter the drawing do, for any number of rows (renderArchitectureDeltaHtml). *)
THEOREM ReviewIsSound == DeltaSpec => []ReviewSound
<1>1. RInv => ReviewSound
  <2> SUFFICES ASSUME RInv PROVE ReviewSound
    OBVIOUS
  <2>1. review \in Script /\ Ticks(review) /\ Highlights(review)
    BY DEF RInv, Good
  <2>2. OneClock
    BY <2>1 DEF RInv, OneClock, Ticks
  <2>3. HighlightAgrees
    BY <2>1 DEF HighlightAgrees, Highlights, Buttons
  <2>4. review.timers \in SUBSET (1 .. MaxToken + 2)
    BY <2>1, ReviewAssumption DEF RInv, Ticks
  <2>5. DeltaTypeOK
    BY <2>1, <2>4, ReviewAssumption DEF RInv, Script, DeltaTypeOK
  <2> QED
    BY <2>2, <2>3, <2>5 DEF ReviewSound
<1> QED
  BY <1>1, ReviewInitially, ReviewStep, PTL DEF DeltaSpec
=============================================================================
