-------------------------- MODULE ArchitectureDelta --------------------------
(***************************************************************************)
(* The comparison of two architecture diagrams and the drawing of the      *)
(* result (delta/architecture-delta.mjs).  A diagram is                    *)
(*   components   a sequence of [id, semantic, evidence, geometry, brand]  *)
(*   connections  a sequence of [id, from, to, label, route]               *)
(*   boundaries   a sequence of [id, wraps, pad], id being kind and label  *)
(*   repository   Absent or [url, revision, pinned]                        *)
(*   look         what presentationChanged compares                        *)
(*   locale       the one field of meta it does not                        *)
(* where a group of fields of the code that is always compared together is *)
(* one field.  Of the drawing it keeps the tags that carry the identity of *)
(* a change: name, state and classifications.  Escaping is left out.       *)
(***************************************************************************)
EXTENDS Integers, Sequences, FiniteSets, SequencesExt

CONSTANTS
  Absent,   \* no value
  NoLabel   \* the empty label

(***************************************************************************)
(* Identity.                                                               *)
(***************************************************************************)
Ids(items) == {items[k].id : k \in DOMAIN items}

\* stableIndex, boundaryIndex: what is wrong with the identities, if anything.
IndexFailure(items, missing, duplicate) ==
  IF Absent \in Ids(items) THEN missing
  ELSE IF Cardinality(Ids(items)) < Len(items) THEN duplicate
  ELSE Absent

At(items, i) == items[CHOOSE k \in DOMAIN items : items[k].id = i]

\* compareArchitecture: the first failure, or Absent.
CompareFailure(base, head) ==
  LET checks ==
        <<IndexFailure(base.components, "stable-id-required", "duplicate-stable-id"),
          IndexFailure(head.components, "stable-id-required", "duplicate-stable-id"),
          IF Ids(base.components) \cap Ids(head.components) = {}
          THEN "no-shared-component-id" ELSE Absent,
          IndexFailure(base.connections, "relationship-id-required", "duplicate-stable-id"),
          IndexFailure(head.connections, "relationship-id-required", "duplicate-stable-id"),
          IndexFailure(base.boundaries, "stable-id-required", "boundary-key-ambiguous"),
          IndexFailure(head.boundaries, "stable-id-required", "boundary-key-ambiguous"),
          IF /\ base.repository # Absent /\ head.repository # Absent
             /\ base.repository.url # head.repository.url
          THEN "repository-mismatch" ELSE Absent>>
      failed == SelectSeq(checks, LAMBDA c : c # Absent)
  IN IF failed = <<>> THEN Absent ELSE failed[1]

(***************************************************************************)
(* What changed.                                                           *)
(***************************************************************************)
\* Plausible mistake (used nowhere): the sources of a component are not compared.
ClassesSlip(kind, b, h) ==
  CASE kind = "component" -> {g \in {"semantic", "geometry"} : b[g] # h[g]}
    [] kind = "connection" ->
         (IF b.from # h.from \/ b.to # h.to THEN {"topology"} ELSE {})
           \cup (IF b.label # h.label THEN {"semantic"} ELSE {})
           \cup (IF b.route # h.route THEN {"geometry"} ELSE {})
    [] kind = "boundary" ->
         (IF b.wraps # h.wraps THEN {"scope"} ELSE {})
           \cup (IF b.pad # h.pad THEN {"geometry"} ELSE {})

\* The groups of fields in which two items with one identity differ.
Classes(kind, b, h) ==
  CASE kind = "component" ->
         {g \in {"semantic", "evidence", "geometry"} : b[g] # h[g]}
    [] kind = "connection" ->
         (IF b.from # h.from \/ b.to # h.to THEN {"topology"} ELSE {})
           \cup (IF b.label # h.label THEN {"semantic"} ELSE {})
           \cup (IF b.route # h.route THEN {"geometry"} ELSE {})
    [] kind = "boundary" ->
         (IF b.wraps # h.wraps THEN {"scope"} ELSE {})
           \cup (IF b.pad # h.pad THEN {"geometry"} ELSE {})

StatusFor(classes, kind) ==
  IF classes \cap {"topology", "semantic", "scope"} # {} THEN "changed"
  ELSE IF "evidence" \in classes THEN "evidence-changed"
  ELSE IF "geometry" \in classes
  THEN CASE kind = "connection" -> "rerouted" [] kind = "component" -> "moved"
         [] kind = "boundary" -> "geometry-changed"
  ELSE "same"

\* The class of something that is only on one side.
IdentityClass(kind) ==
  CASE kind = "connection" -> "topology" [] kind = "boundary" -> "scope"
    [] kind = "component" -> "semantic"

Row(kind, i, status, classes, b, h) ==
  [kind |-> kind, id |-> i, status |-> status, classes |-> classes, base |-> b, head |-> h]

\* compareEntities
CompareEntities(kind, base, head) ==
  {Row(kind, i, "added", {IdentityClass(kind)}, Absent, At(head, i)) :
     i \in Ids(head) \ Ids(base)}
  \cup {Row(kind, i, "removed", {IdentityClass(kind)}, At(base, i), Absent) :
          i \in Ids(base) \ Ids(head)}
  \cup {r \in {LET c == Classes(kind, At(base, i), At(head, i))
               IN Row(kind, i, StatusFor(c, kind), c, At(base, i), At(head, i)) :
                 i \in Ids(base) \cap Ids(head)} : r.status # "same"}

\* The rows of the change navigator.
Changes(base, head) ==
  CompareEntities("component", base.components, head.components)
    \cup CompareEntities("connection", base.connections, head.connections)
    \cup CompareEntities("boundary", base.boundaries, head.boundaries)

ProvenanceChanged(base, head)   == base.repository # head.repository
PresentationChanged(base, head) == base.look # head.look

\* Both inputs name a revision of one repository, and it was verified.
ProofLevel(base, head, verified) ==
  IF /\ base.repository # Absent /\ head.repository # Absent /\ verified
     /\ base.repository.pinned /\ head.repository.pinned
  THEN "revision-pinned" ELSE "authored"

\* summaryFor: how many rows of a kind have a status.  Statuses it has no key
\* for are not counted.
SummaryKeys(kind) ==
  CASE kind = "component"  -> {"added", "changed", "evidence-changed", "removed", "moved"}
    [] kind = "connection" -> {"added", "changed", "removed", "rerouted"}
    [] kind = "boundary"   -> {"added", "changed", "removed", "geometry-changed"}

Summary(rows, kind) ==
  [s \in SummaryKeys(kind) |-> Cardinality({r \in rows : r.kind = kind /\ r.status = s})]

(***************************************************************************)
(* The canonical form: what the semantic hash is taken of.                 *)
(***************************************************************************)
\* Entities in the order of their identities, wraps as a set.
Canonical(d) ==
  [components |-> ToSet(d.components), connections |-> ToSet(d.connections),
   boundaries |-> ToSet(d.boundaries), repository |-> d.repository,
   look |-> d.look, locale |-> d.locale]

(***************************************************************************)
(* The drawing: tags with the identity of a row, as <<name, state,         *)
(* classes>>.  A base element drawn for comparison is a phantom.           *)
(***************************************************************************)
\* Tags of an edge with the given state; its label is a group of its own.
EdgeTags(e, state, classes) ==
  <<<<"path", state, classes>>>>
    \o (IF e.label = NoLabel THEN <<>> ELSE <<<<"g", state, classes>>>>)

BoundaryTags(state, classes) == <<<<"rect", state, classes>>, <<"text", state, {}>>>>

\* buildDeltaSvg: what is drawn of the base.
PhantomTags(r) ==
  CASE r.kind = "component" ->
         IF r.status = "removed" THEN <<<<"g", "removed", r.classes>>>>
         ELSE IF "geometry" \in r.classes THEN <<<<"g", "moved-from", r.classes>>>> ELSE <<>>
    [] r.kind = "connection" ->
         IF r.base = Absent THEN <<>>
         ELSE IF r.status = "removed" \/ "topology" \in r.classes
         THEN EdgeTags(r.base, "removed", r.classes) \o <<<<"text", "removed", {}>>>>
         ELSE IF "geometry" \in r.classes
         THEN EdgeTags(r.base, "moved-from", r.classes) \o <<<<"text", "moved-from", {}>>>>
         ELSE <<>>
    [] r.kind = "boundary" ->
         IF r.status = "removed" THEN BoundaryTags("removed", r.classes)
         ELSE IF r.status \in {"changed", "geometry-changed"}
         THEN BoundaryTags("moved-from", r.classes) ELSE <<>>

\* annotateArchitectureSideSvg of the head, and the markers of its edges.
HeadTags(r) ==
  IF r.head = Absent THEN <<>>
  ELSE CASE r.kind = "component"  -> <<<<"g", r.status, r.classes>>>>
         [] r.kind = "boundary"   -> BoundaryTags(r.status, r.classes)
         [] r.kind = "connection" ->
              EdgeTags(r.head, r.status, r.classes)
                \o <<<<"text", IF r.status = "changed" /\ "topology" \in r.classes
                               THEN "added" ELSE r.status, {}>>>>

\* The signature of a sequence of tags: how often each occurs.
Signature(tags) ==
  [t \in ToSet(tags) |-> Cardinality({k \in DOMAIN tags : tags[k] = t})]

DrawnTags(r) == PhantomTags(r) \o HeadTags(r)

(***************************************************************************)
(* What the navigator expects to find (expectedReviewTargetSignature,      *)
(* reviewPrimaryStates), written independently of the drawing.             *)
(***************************************************************************)
PrimaryStates(r) ==
  IF r.kind = "component" /\ "geometry" \in r.classes THEN <<r.status, "moved-from">>
  ELSE IF r.kind = "connection" /\ r.status = "changed" /\ "topology" \in r.classes
  THEN <<"changed", "removed">>
  ELSE IF r.kind = "connection" /\ "geometry" \in r.classes THEN <<"moved-from", r.status>>
  ELSE IF r.kind = "boundary" /\ r.status \in {"changed", "geometry-changed"}
  THEN <<r.status, "moved-from">>
  ELSE <<r.status>>

Form(state, marker, label, classes) ==
  <<<<"path", state, classes>>, <<"text", marker, {}>>>>
    \o (IF label = NoLabel THEN <<>> ELSE <<<<"g", state, classes>>>>)

ExpectedTags(r) ==
  CASE r.kind = "component" ->
         FlattenSeq([k \in DOMAIN PrimaryStates(r) |->
                       <<<<"g", PrimaryStates(r)[k], r.classes>>>>])
    [] r.kind = "boundary" ->
         FlattenSeq([k \in DOMAIN PrimaryStates(r) |->
                       <<<<"rect", PrimaryStates(r)[k], r.classes>>,
                         <<"text", PrimaryStates(r)[k], {}>>>>])
    [] r.kind = "connection" ->
         IF r.status = "added" THEN Form("added", "added", r.head.label, r.classes)
         ELSE IF r.status = "removed" THEN Form("removed", "removed", r.base.label, r.classes)
         ELSE IF "topology" \in r.classes
         THEN Form("removed", "removed", r.base.label, r.classes)
                \o Form("changed", "added", r.head.label, r.classes)
         ELSE IF "geometry" \in r.classes
         THEN Form("moved-from", "moved-from", r.base.label, r.classes)
                \o Form(r.status, r.status, r.head.label, r.classes)
         ELSE Form("changed", "changed", r.head.label, r.classes)

PrimaryName(kind) ==
  CASE kind = "component" -> "g" [] kind = "connection" -> "path" [] kind = "boundary" -> "rect"

\* validateArchitectureDeltaHtml and targetsMatch: the tags of every row are
\* those expected, and so are the states of the primary ones.
ValidDrawing(rows) ==
  \A r \in rows :
    /\ DrawnTags(r) # <<>>
    /\ Signature(DrawnTags(r)) = Signature(ExpectedTags(r))
    /\ LET primary == SelectSeq(DrawnTags(r), LAMBDA t : t[1] = PrimaryName(r.kind))
       IN Signature([k \in DOMAIN primary |-> primary[k][2]]) = Signature(PrimaryStates(r))

(***************************************************************************)
(* Properties of a pair of diagrams that can be compared.                  *)
(***************************************************************************)
Comparable(base, head) == CompareFailure(base, head) = Absent

\* Every change can be found in the drawing, under its identity and nothing but
\* its own marks: a compare never fails its own validation.
DrawingIsValid(base, head) == Comparable(base, head) => ValidDrawing(Changes(base, head))

\* Nothing is reported exactly when the canonical forms agree, but for the brand
\* of a component and the locale, which no group of fields contains.
NothingHidden(base, head) ==
  LET Plain(d) ==
        [Canonical(d) EXCEPT !.locale = Absent,
           !.components = {[c EXCEPT !.brand = Absent] : c \in @}]
  IN Comparable(base, head) =>
       ((/\ Changes(base, head) = {}
         /\ ~ProvenanceChanged(base, head) /\ ~PresentationChanged(base, head))
          <=> Plain(base) = Plain(head))

\* The summary counts every row once, and the comparison turned round has the
\* same rows with added and removed exchanged.
SummaryAgrees(base, head) ==
  LET rows == Changes(base, head)
      Turned(r) == Row(r.kind, r.id, CASE r.status = "added" -> "removed"
                                       [] r.status = "removed" -> "added"
                                       [] OTHER -> r.status, r.classes, r.head, r.base)
      kinds == {"component", "connection", "boundary"}
  IN Comparable(base, head) =>
       /\ Cardinality(rows) =
            FoldSet(LAMBDA k, n : n + FoldSet(LAMBDA s, m : m + Summary(rows, k)[s], 0, SummaryKeys(k)),
                    0, kinds)
       /\ {Turned(r) : r \in rows} = Changes(head, base)
==============================================================================
