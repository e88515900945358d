--------------------------- MODULE DeliveryProofs ---------------------------
(***************************************************************************)
(* Proofs that what the commands publish belongs together, and that a      *)
(* commit that fails loses nothing, for any processes and sources and any  *)
(* number of saves, failing calls and kills.                               *)
(***************************************************************************)
EXTENDS Delivery, SequenceTheorems, TLAPS

-----------------------------------------------------------------------------
(* The inductive invariant *)

Value == Contents \union {None, Old}

Todo == {<<>>, <<"page">>, <<"migrated">>, <<"in", "head">>, <<"head">>,
         <<"delta", "receipt">>, <<"receipt">>, <<"receipt", "delta">>, <<"delta">>}

Row == [job: Command, pc: Stage, read: Contents \union {<<>>},
        made: Contents \union {<<>>}, backup: [Target -> Value],
        placed: SUBSET Target, todo: Todo, raced: BOOLEAN]

Files ==
  /\ file \in [Input \union Target -> Source \union Value]
  /\ \A n \in Input : file[n] \in Source
  /\ \A n \in Target : file[n] \in Value

(* Nothing has been moved or replaced. *)
Bare(r) == r.backup = NoBackup /\ r.placed = {}

AllOf(job) == IF job = "compare" THEN Source \X Source ELSE {<<s>> : s \in Source}

(* What the candidate is made of was read, and passed. *)
Approved(r) ==
  /\ r.made = r.read /\ r.read \in AllOf(r.job)
  /\ \A i \in DOMAIN r.read :
       r.read[i] \in IF r.job = "compare" THEN Canonical ELSE Authored
  /\ r.raced \/ ToSet(r.read) \subseteq Authored

(* What it moves and replaces are its own targets, with what it read. *)
Owns(r) ==
  /\ r.made \in {<<>>, r.read}
  /\ \A t \in {"page", "migrated"} : r.backup[t] = None
  /\ r.placed \subseteq ToSet(TargetsOf(r.job))
  /\ r.job # "compare" \/ r.pc \in Ended => r.backup = NoBackup

Reads(r) ==
  /\ r.pc \in {"read", "prepare", "authored", "build"} => Bare(r) /\ r.made = <<>>
  /\ r.pc = "read" =>
       /\ r.todo = <<>>
       /\ r.read = <<>> \/ (r.job = "compare" /\ \E s \in Source : r.read = <<s>>)
  /\ r.pc \in {"prepare", "authored", "build"} => r.read \in AllOf(r.job)
  /\ r.pc \in {"prepare", "build"} => r.todo = <<>>
  /\ r.pc = "authored" =>
       r.job = "compare" /\ r.todo \in {<<"in", "head">>, <<"head">>}

(* The commit, and the way back. *)
Commits(r) ==
  /\ r.pc \in Window =>
       Approved(r) /\ (r.job = "compare" \/ (r.pc = "place" /\ r.todo = TargetsOf(r.job)))
  /\ r.pc = "backup" =>
       /\ r.placed = {} /\ r.todo \in {<<"delta", "receipt">>, <<"receipt">>, <<>>}
       /\ \A t \in ToSet(r.todo) : r.backup[t] = None
  /\ r.pc = "place" =>
       /\ r.job # "compare" => r.placed = {}
       /\ r.job = "compare" =>
            \/ r.todo = <<"delta", "receipt">> /\ r.placed = {}
            \/ r.todo = <<"receipt">> /\ r.placed = {"delta"}
  /\ r.pc = "remove" =>
       /\ r.placed \subseteq {"delta"} /\ r.todo \in {<<>>, <<"delta">>}
       /\ ToSet(r.todo) \subseteq r.placed
  /\ r.pc = "restore" =>
       /\ r.placed = {}
       /\ r.todo \in {<<>>, <<"delta">>, <<"receipt">>, <<"receipt", "delta">>}
       /\ \A t \in ToSet(r.todo) : r.backup[t] # None

Finishes(r) ==
  /\ r.pc = "clean" =>
       /\ r.todo = <<>>
       /\ r.placed # {} => Approved(r) /\ r.placed = ToSet(TargetsOf(r.job))
  /\ r.pc = "ok" => Approved(r)

Fits(r) == Owns(r) /\ Reads(r) /\ Commits(r) /\ Finishes(r)

(* Unless a source was saved, the files f hold what was read and validated. *)
Seen(f, r) ==
  ~r.raced =>
    /\ r.pc \in {"read", "prepare", "authored"} =>
         \A i \in DOMAIN r.read : r.read[i] = f[InputsOf(r.job)[i]]
    /\ r.pc = "authored" /\ r.todo = <<"head">> => f["in"] \in Authored
    /\ r.pc = "build" /\ r.job = "compare" => ToSet(r.read) \subseteq Authored

-----------------------------------------------------------------------------
(* The pair *)

Agreed(d, c) == d = c \/ {d, c} \subseteq {None, Old}

(* A compare whose commit has touched the pair: others that are inside the *)
(* window have done nothing yet, or have nothing to undo.                  *)
Engaged(r) ==
  /\ r.job = "compare" /\ r.pc \in Window
  /\ ~ /\ Bare(r)
       /\ \/ r.pc = "backup" /\ r.todo = <<"delta", "receipt">>
          \/ r.pc \in {"remove", "restore"} /\ r.todo = <<>>

(* The target as it was before the commit. *)
Was(f, r, t) ==
  IF r.backup[t] # None THEN r.backup[t] ELSE IF t \in r.placed THEN None ELSE f[t]

(* What an engaged compare that nobody met can put back in the files f. *)
Holds(f, r) ==
  /\ Agreed(Was(f, r, "delta"), Was(f, r, "receipt"))
  /\ r.pc = "backup" =>
       \A t \in {"delta", "receipt"} \ ToSet(r.todo) : f[t] = None
  /\ r.pc = "place" =>
       \A t \in {"delta", "receipt"} :
         f[t] = IF t \in r.placed THEN r.made ELSE None
  /\ r.pc = "remove" => \A t \in r.placed \ ToSet(r.todo) : f[t] = None
  /\ r.pc = "restore" =>
       \A t \in {"delta", "receipt"} \ ToSet(r.todo) :
         r.backup[t] # None => f[t] = r.backup[t]

Alone(p) == \A q \in Process \ {p} : ~Engaged(proc[q])

Tidy ==
  ~torn =>
    /\ \A p \in Process : Engaged(proc[p]) => Alone(p) /\ Holds(file, proc[p])
    /\ (\A p \in Process : ~Engaged(proc[p])) =>
         Agreed(file["delta"], file["receipt"])

DInv ==
  /\ Files /\ proc \in [Process -> Row] /\ torn \in BOOLEAN
  /\ \A p \in Process : Fits(proc[p]) /\ Seen(file, proc[p])
  /\ Tidy

-----------------------------------------------------------------------------
(* Lists *)

LEMMA Lists ==
  /\ \A a : Len(<<a>>) = 1 /\ Head(<<a>>) = a /\ Tail(<<a>>) = <<>> /\ ToSet(<<a>>) = {a}
  /\ \A a, b : /\ Len(<<a, b>>) = 2 /\ Head(<<a, b>>) = a /\ Tail(<<a, b>>) = <<b>>
               /\ ToSet(<<a, b>>) = {a, b} /\ <<a, b>> # <<b>> /\ <<a, b>> # <<a>>
  /\ ToSet(<<>>) = {} /\ Len(<<>>) = 0
  BY DEF ToSet

LEMMA Grown ==
  ASSUME NEW X, NEW s \in X, NEW r \in X
  PROVE  Append(<<>>, s) = <<s>> /\ Append(<<s>>, r) = <<s, r>>
<1>1. /\ <<>> \in Seq(X) /\ <<s>> \in Seq(X) /\ <<s, r>> \in Seq(X)
      /\ Len(<<>>) = 0 /\ Len(<<s>>) = 1 /\ Len(<<s, r>>) = 2
  OBVIOUS
<1>2. PICK a \in Seq(X), b \in Seq(X) :
        a = Append(<<>>, s) /\ b = Append(<<s>>, r)
  BY <1>1, AppendProperties
<1>3. Len(a) = 1 /\ a[1] = s /\ Len(b) = 2 /\ b[1] = s /\ b[2] = r
  BY <1>1, <1>2, AppendProperties
<1>4. PICK c \in Seq(X) : c = <<s, r>>
  BY <1>1
<1>5. a = <<s>>
  BY <1>1, <1>2, <1>3, SeqEqual
<1>6. Len(c) = 2 /\ c[1] = s /\ c[2] = r
  BY <1>4
<1>7. \A i \in 1 .. Len(b) : b[i] = c[i]
  BY <1>3, <1>6
<1>8. b = c
  BY <1>2, <1>3, <1>4, <1>6, <1>7, SeqEqual
<1> QED
  BY <1>2, <1>4, <1>5, <1>8

LEMMA LastFirstLists ==
  ASSUME NEW S
  PROVE  LastFirst(S) =
           IF "receipt" \in S
           THEN IF "delta" \in S THEN <<"receipt", "delta">> ELSE <<"receipt">>
           ELSE IF "delta" \in S THEN <<"delta">> ELSE <<>>
<1> DEFINE X == {"receipt", "delta"}
<1>1. <<>> \in Seq(X) /\ <<"receipt">> \in Seq(X) /\ <<"delta">> \in Seq(X)
  OBVIOUS
<1>2. /\ <<"receipt">> \o <<>> = <<"receipt">> /\ <<>> \o <<>> = <<>>
      /\ <<>> \o <<"delta">> = <<"delta">>
  BY <1>1, ConcatEmptySeq
<1>3. <<"receipt">> \o <<"delta">> = Append(<<"receipt">>, "delta")
  <2>1. "delta" \in X
    OBVIOUS
  <2> QED
    BY <1>1, <2>1, AppendIsConcat
<1>4. Append(<<"receipt">>, "delta") = <<"receipt", "delta">>
  <2>1. "receipt" \in X /\ "delta" \in X
    OBVIOUS
  <2> QED
    BY <2>1, Grown
<1> HIDE DEF X
<1> QED
  BY <1>2, <1>3, <1>4 DEF LastFirst

LEMMA Jobs ==
  /\ TargetsOf("deliver") = <<"page">> /\ TargetsOf("migrate") = <<"migrated">>
  /\ TargetsOf("compare") = <<"delta", "receipt">>
  /\ InputsOf("deliver") = <<"in">> /\ InputsOf("migrate") = <<"in">>
  /\ InputsOf("compare") = <<"in", "head">>
  /\ Len(InputsOf("deliver")) = 1 /\ Len(InputsOf("migrate")) = 1
  /\ Len(InputsOf("compare")) = 2
  BY DEF TargetsOf, InputsOf

-----------------------------------------------------------------------------
(* One process moves *)

(* Inputs are saved by their editor only. *)
Others == \A n \in Input : file'[n] = file[n]

SamePair == file'["delta"] = file["delta"] /\ file'["receipt"] = file["receipt"]

LEMMA InputsRead ==
  ASSUME NEW r \in Row, Fits(r), r.pc \in {"read", "prepare", "authored"},
         NEW i \in DOMAIN r.read
  PROVE  InputsOf(r.job)[i] \in Input
<1>1. \/ r.read = <<>> \/ \E s \in Source : r.read = <<s>>
      \/ r.job = "compare" /\ r.read \in Source \X Source
  BY DEF Fits, Reads, AllOf
<1>2. r.job \in Command
  BY DEF Row
<1> QED
  BY <1>1, <1>2, Jobs DEF Command, Input

LEMMA SeenStays ==
  ASSUME NEW r \in Row, Fits(r), Seen(file, r), Others
  PROVE  Seen(file', r)
BY InputsRead DEF Seen, Others, Input

LEMMA HoldsStays ==
  ASSUME NEW r \in Row, Fits(r), Engaged(r), Holds(file, r), SamePair
  PROVE  Holds(file', r)
<1>1. r.placed \subseteq {"delta", "receipt"}
  BY Jobs, Lists DEF Fits, Owns, Engaged
<1>2. Was(file', r, "delta") = Was(file, r, "delta")
      /\ Was(file', r, "receipt") = Was(file, r, "receipt")
  BY DEF Was, SamePair
<1> QED
  BY <1>1, <1>2 DEF Holds, SamePair

LEMMA OneMoves ==
  ASSUME DInv, NEW p \in Process, NEW row \in Row,
         Become(p, row), Fits(row), Files', Others,
         Seen(file, row), torn' \in BOOLEAN, torn => torn',
         ~torn' =>
           IF Engaged(row) THEN Alone(p) /\ Holds(file', row)
           ELSE IF Engaged(proc[p]) THEN Agreed(file'["delta"], file'["receipt"])
           ELSE SamePair
  PROVE  DInv'
<1>1. proc' = [proc EXCEPT ![p] = row] /\ proc \in [Process -> Row]
  BY DEF Become, DInv
<1>2. proc' \in [Process -> Row] /\ proc'[p] = row
      /\ \A q \in Process \ {p} : proc'[q] = proc[q]
  BY <1>1
<1>3. \A q \in Process : proc[q] \in Row /\ Fits(proc[q]) /\ Seen(file, proc[q])
  BY <1>1 DEF DInv
<1>4. \A q \in Process : Fits(proc'[q]) /\ Seen(file', proc'[q])
  BY <1>2, <1>3, SeenStays
<1>5. ASSUME ~torn'
      PROVE  /\ \A q \in Process : Engaged(proc'[q]) =>
                  /\ \A o \in Process \ {q} : ~Engaged(proc'[o])
                  /\ Holds(file', proc'[q])
             /\ (\A q \in Process : ~Engaged(proc'[q])) =>
                  Agreed(file'["delta"], file'["receipt"])
  <2>1. /\ \A q \in Process : Engaged(proc[q]) =>
             /\ \A o \in Process \ {q} : ~Engaged(proc[o])
             /\ Holds(file, proc[q])
        /\ (\A q \in Process : ~Engaged(proc[q])) =>
             Agreed(file["delta"], file["receipt"])
    BY <1>5 DEF DInv, Tidy, Alone
  <2>2. CASE Engaged(row)
    BY <1>2, <1>5, <2>2 DEF Alone
  <2>3. CASE ~Engaged(row) /\ Engaged(proc[p])
    BY <1>2, <1>5, <2>1, <2>3
  <2>4. CASE ~Engaged(row) /\ ~Engaged(proc[p])
    <3>1. SamePair
      BY <1>5, <2>4
    <3>2. \A q \in Process \ {p} : Engaged(proc[q]) => Holds(file', proc'[q])
      BY <1>2, <1>3, <2>1, <3>1, HoldsStays
    <3> QED
      BY <1>2, <2>1, <2>4, <3>1, <3>2 DEF SamePair
  <2> QED
    BY <2>2, <2>3, <2>4
<1>6. Tidy'
  BY <1>5 DEF Tidy, Alone
<1> QED
  BY <1>2, <1>4, <1>6 DEF DInv

-----------------------------------------------------------------------------
(* Up to the candidate, and the ways out *)

LEMMA Initially == Init => DInv
<1> SUFFICES ASSUME Init PROVE DInv
  OBVIOUS
<1>1. PICK job \in [Process -> Command] : proc = [p \in Process |-> Start(job[p])]
  BY DEF Init
<1>2. \A j \in Command : /\ Start(j) \in Row /\ Fits(Start(j)) /\ Seen(file, Start(j))
                         /\ ~Engaged(Start(j))
  <2> SUFFICES ASSUME NEW j \in Command
               PROVE  /\ Start(j) \in Row /\ Fits(Start(j)) /\ Seen(file, Start(j))
                      /\ ~Engaged(Start(j))
    OBVIOUS
  <2>1. Start(j) \in Row
    BY DEF Start, Row, Stage, Todo, Value, NoBackup
  <2>2. Fits(Start(j))
    BY DEF Start, Fits, Owns, Reads, Commits, Finishes, Bare, NoBackup, Window, Ended, Target
  <2>3. Seen(file, Start(j)) /\ ~Engaged(Start(j))
    BY DEF Start, Seen, Engaged, Window
  <2> QED
    BY <2>1, <2>2, <2>3
<1>3. proc \in [Process -> Row]
      /\ \A p \in Process : Fits(proc[p]) /\ Seen(file, proc[p]) /\ ~Engaged(proc[p])
  BY <1>1, <1>2
<1>4. Files
  BY DEF Init, Files, Value
<1>5. Agreed(file["delta"], file["receipt"])
  BY DEF Init, Agreed, Target
<1> QED
  BY <1>3, <1>4, <1>5 DEF Init, DInv, Tidy

(* A step that touches no file. *)
LEMMA QuietMove ==
  ASSUME DInv, NEW p \in Process, NEW row \in Row,
         Become(p, row), Fits(row), Seen(file, row), file' = file,
         torn' \in BOOLEAN, torn => torn',
         ~torn' => /\ Engaged(row) => Engaged(proc[p]) /\ Holds(file, row)
                   /\ Engaged(proc[p]) /\ ~Engaged(row) =>
                        Agreed(file["delta"], file["receipt"])
  PROVE  DInv'
<1>1. Files' /\ Others /\ SamePair
  BY DEF DInv, Files, Others, SamePair
<1>2. ~torn' /\ Engaged(proc[p]) => Alone(p)
  BY DEF DInv, Tidy
<1>3. ~torn' =>
        IF Engaged(row) THEN Alone(p) /\ Holds(file', row)
        ELSE IF Engaged(proc[p]) THEN Agreed(file'["delta"], file'["receipt"])
        ELSE SamePair
  BY <1>1, <1>2
<1> QED
  BY <1>1, <1>3, OneMoves

LEMMA ReadKeeps == ASSUME DInv, NEW p \in Process, Read(p) PROVE DInv'
<1>1. PICK r \in Row : r = proc[p] /\ Fits(r) /\ Seen(file, r)
  BY DEF DInv
<1>2. r.job \in Command /\ r.pc = "read" /\ Bare(r) /\ r.made = <<>> /\ r.todo = <<>>
      /\ (r.read = <<>> \/ (r.job = "compare" /\ \E s \in Source : r.read = <<s>>))
  <2>1. r.job \in Command /\ r.pc = "read"
    BY <1>1 DEF Read, At, Row
  <2> QED
    BY <1>1, <2>1 DEF Fits, Reads
<1>3. file["in"] \in Source /\ file["head"] \in Source
  BY DEF DInv, Files, Input
<1> DEFINE read == Append(r.read, file[InputsOf(r.job)[Len(r.read) + 1]])
           pc == IF Len(read) = Len(InputsOf(r.job)) THEN "prepare" ELSE "read"
           row == [r EXCEPT !.read = read, !.pc = pc]
<1>4. \/ /\ r.read = <<>> /\ read = <<file["in"]>>
         /\ pc = IF r.job = "compare" THEN "read" ELSE "prepare"
      \/ \E s \in Source :
           /\ r.read = <<s>> /\ r.job = "compare" /\ read = <<s, file["head"]>>
           /\ pc = "prepare"
  <2>1. CASE r.read = <<>>
    <3>1. Len(r.read) = 0 /\ InputsOf(r.job)[Len(r.read) + 1] = "in"
      BY <1>2, <2>1, Jobs, Lists DEF Command
    <3>2. read = <<file["in"]>>
      BY <1>3, <2>1, <3>1, Grown
    <3>3. Len(read) = 1
      BY <3>2
    <3>4. Len(InputsOf(r.job)) = IF r.job = "compare" THEN 2 ELSE 1
      BY <1>2, Jobs DEF Command
    <3> QED
      BY <2>1, <3>2, <3>3, <3>4
  <2>2. ASSUME NEW s \in Source, r.read = <<s>>, r.job = "compare"
        PROVE  read = <<s, file["head"]>> /\ pc = "prepare"
    <3>1. Len(r.read) = 1 /\ InputsOf(r.job)[Len(r.read) + 1] = "head"
      BY <2>2, Jobs, Lists
    <3>2. read = <<s, file["head"]>>
      BY <1>3, <2>2, <3>1, Grown
    <3>3. Len(read) = 2 /\ Len(InputsOf(r.job)) = 2
      BY <2>2, <3>2, Jobs
    <3> QED
      BY <3>2, <3>3
  <2> QED
    BY <1>2, <2>1, <2>2
<1>5. Become(p, row) /\ UNCHANGED <<file, torn>>
  BY <1>1 DEF Read, Job
<1> HIDE DEF read, pc
<1>6. read \in Contents /\ pc \in Stage
  BY <1>3, <1>4 DEF Contents, Stage
<1>7. /\ row \in Row /\ row.job = r.job /\ row.pc = pc /\ row.read = read
      /\ row.made = r.made /\ row.backup = r.backup /\ row.placed = r.placed
      /\ row.todo = r.todo /\ row.raced = r.raced
  BY <1>6 DEF Row
<1> HIDE DEF row
<1>8. Fits(row)
  <2>1. pc = "read" => r.job = "compare" /\ \E s \in Source : read = <<s>>
    BY <1>2, <1>3, <1>4 DEF Command
  <2>2. pc = "prepare" => read \in AllOf(r.job)
    BY <1>2, <1>3, <1>4 DEF AllOf, Command
  <2>3. pc \in {"read", "prepare"}
    BY <1>4
  <2>4. Reads(row)
    BY <1>2, <1>7, <2>1, <2>2, <2>3 DEF Reads, Bare
  <2>5. Owns(row)
    BY <1>1, <1>2, <1>7, <2>3 DEF Fits, Owns, Bare, Ended
  <2> QED
    BY <1>7, <2>3, <2>4, <2>5 DEF Fits, Commits, Finishes, Window
<1>9. Seen(file, row)
  <2>1. ASSUME NEW i \in DOMAIN read, \A k \in DOMAIN r.read : r.read[k] = file[InputsOf(r.job)[k]]
        PROVE  read[i] = file[InputsOf(r.job)[i]]
    BY <1>2, <1>4, <2>1, Jobs DEF Command
  <2>2. pc \in {"read", "prepare"}
    BY <1>4
  <2> QED
    BY <1>1, <1>2, <1>7, <2>1, <2>2 DEF Seen
<1>10. ~Engaged(row)
  BY <1>4, <1>7 DEF Engaged, Window
<1>11. ~Engaged(proc[p])
  BY <1>1, <1>2 DEF Engaged, Window
<1> QED
  BY <1>5, <1>7, <1>8, <1>9, <1>10, <1>11, QuietMove DEF DInv

(* The record of a process, in the inductive invariant. *)
LEMMA Record ==
  ASSUME DInv, NEW p \in Process
  PROVE  /\ proc[p] \in Row /\ proc[p].job \in Command /\ proc[p].todo \in Todo
         /\ Fits(proc[p]) /\ Seen(file, proc[p])
BY DEF DInv, Row

(* Between reading and building, where nothing is committed. *)
Early == {"read", "prepare", "authored", "build"}

(* A step from before the commit to before it. *)
LEMMA EarlyMove ==
  ASSUME DInv, NEW p \in Process, NEW row \in Row, proc[p].pc \in Early,
         Become(p, row), UNCHANGED <<file, torn>>,
         row.job = proc[p].job, row.read = proc[p].read, row.made = proc[p].made,
         row.backup = proc[p].backup, row.placed = proc[p].placed,
         row.raced = proc[p].raced, row.todo \in Todo,
         row.pc \in {"authored", "build", "clean"},
         Reads(row), Seen(file, row), row.pc = "clean" => row.todo = <<>>
  PROVE  DInv'
<1>1. Fits(proc[p]) /\ Bare(row)
  BY Record DEF Early, Fits, Reads, Bare
<1>2. Fits(row)
  <2>1. Owns(row)
    BY <1>1 DEF Fits, Owns, Ended, Bare
  <2>2. Commits(row) /\ Finishes(row)
    BY <1>1 DEF Commits, Finishes, Window, Bare
  <2> QED
    BY <2>1, <2>2 DEF Fits
<1>3. ~Engaged(row) /\ ~Engaged(proc[p])
  BY DEF Engaged, Window, Early
<1> QED
  BY <1>2, <1>3, QuietMove DEF DInv

LEMMA PrepareKeeps ==
  ASSUME DInv, NEW p \in Process,
         PrepareDelivery(p) \/ PrepareCompare(p) \/ PrepareMigration(p)
  PROVE  DInv'
<1>1. PICK r \in Row : r = proc[p] /\ Fits(r) /\ Seen(file, r) /\ r.job \in Command
  BY Record
<1>2. r.pc = "prepare" /\ UNCHANGED <<file, torn>>
  BY <1>1 DEF PrepareDelivery, PrepareCompare, PrepareMigration, At
<1>3. Bare(r) /\ r.made = <<>> /\ r.todo = <<>> /\ r.read \in AllOf(r.job)
  BY <1>1, <1>2 DEF Fits, Reads
<1>4. CASE r.job # "compare"
  <2> DEFINE row == [r EXCEPT !.pc = "build"]
  <2>1. Become(p, row)
    BY <1>1, <1>4 DEF PrepareDelivery, PrepareCompare, PrepareMigration, Job
  <2>2. /\ row \in Row /\ row.job = r.job /\ row.pc = "build" /\ row.read = r.read
        /\ row.made = r.made /\ row.backup = r.backup /\ row.placed = r.placed
        /\ row.todo = r.todo /\ row.raced = r.raced
    BY DEF Row, Stage
  <2> HIDE DEF row
  <2>3. Reads(row) /\ Seen(file, row) /\ row.todo \in Todo
    BY <1>3, <1>4, <2>2 DEF Reads, Bare, Seen, Todo
  <2> QED
    BY <1>1, <1>2, <2>1, <2>2, <2>3, EarlyMove DEF Early
<1>5. CASE r.job = "compare"
  <2> DEFINE row == [r EXCEPT !.pc = "authored", !.todo = <<"in", "head">>]
  <2>1. Become(p, row)
    BY <1>1, <1>5, Jobs DEF PrepareDelivery, PrepareCompare, PrepareMigration, Job
  <2>2. /\ row \in Row /\ row.job = r.job /\ row.pc = "authored" /\ row.read = r.read
        /\ row.made = r.made /\ row.backup = r.backup /\ row.placed = r.placed
        /\ row.todo = <<"in", "head">> /\ row.raced = r.raced
    BY DEF Row, Stage, Todo
  <2> HIDE DEF row
  <2>3. Reads(row)
    BY <1>3, <1>5, <2>2 DEF Reads, Bare
  <2>4. Seen(file, row)
    BY <1>1, <1>2, <2>2, Lists DEF Seen
  <2> QED
    BY <1>1, <1>2, <2>1, <2>2, <2>3, <2>4, EarlyMove DEF Early, Todo
<1> QED
  BY <1>4, <1>5

LEMMA ValidateKeeps ==
  ASSUME DInv, NEW p \in Process, ValidateAuthored(p) PROVE DInv'
<1>1. PICK r \in Row : r = proc[p] /\ Fits(r) /\ Seen(file, r) /\ r.job \in Command
  BY Record
<1>2. r.pc = "authored" /\ UNCHANGED <<file, torn>>
  BY <1>1 DEF ValidateAuthored, At
<1>3. /\ Bare(r) /\ r.made = <<>> /\ r.job = "compare" /\ r.read \in AllOf(r.job)
      /\ r.todo \in {<<"in", "head">>, <<"head">>}
  BY <1>1, <1>2 DEF Fits, Reads
<1>4. CASE file[Head(r.todo)] \notin Authored
  <2> DEFINE row == [r EXCEPT !.pc = "clean", !.todo = <<>>]
  <2>1. Become(p, row)
    BY <1>1, <1>4 DEF ValidateAuthored
  <2>2. /\ row \in Row /\ row.job = r.job /\ row.pc = "clean" /\ row.read = r.read
        /\ row.made = r.made /\ row.backup = r.backup /\ row.placed = r.placed
        /\ row.todo = <<>> /\ row.raced = r.raced
    BY DEF Row, Stage, Todo
  <2> HIDE DEF row
  <2>3. Reads(row) /\ Seen(file, row)
    BY <2>2 DEF Reads, Seen
  <2> QED
    BY <1>1, <1>2, <2>1, <2>2, <2>3, EarlyMove DEF Early, Todo
<1>5. CASE file[Head(r.todo)] \in Authored /\ r.todo = <<"in", "head">>
  <2> DEFINE row == [r EXCEPT !.pc = "authored", !.todo = <<"head">>]
  <2>1. Become(p, row)
    <3>1. Tail(r.todo) = <<"head">> /\ Len(r.todo) # 1
      BY <1>5
    <3>2. Become(p, [r EXCEPT !.todo = <<"head">>, !.pc = r.pc])
      BY <1>1, <1>5, <3>1 DEF ValidateAuthored
    <3>3. [r EXCEPT !.todo = <<"head">>, !.pc = r.pc] = row
      BY <1>2 DEF Row
    <3> QED
      BY <3>2, <3>3
  <2>2. /\ row \in Row /\ row.job = r.job /\ row.pc = "authored" /\ row.read = r.read
        /\ row.made = r.made /\ row.backup = r.backup /\ row.placed = r.placed
        /\ row.todo = <<"head">> /\ row.raced = r.raced
    BY DEF Row, Stage, Todo
  <2> HIDE DEF row
  <2>3. Reads(row)
    BY <1>3, <2>2 DEF Reads, Bare
  <2>4. file["in"] \in Authored
    BY <1>5
  <2>5. Seen(file, row)
    BY <1>1, <1>2, <2>2, <2>4 DEF Seen
  <2> QED
    BY <1>1, <1>2, <2>1, <2>2, <2>3, <2>5, EarlyMove DEF Early, Todo
<1>6. CASE file[Head(r.todo)] \in Authored /\ r.todo = <<"head">>
  <2> DEFINE row == [r EXCEPT !.pc = "build", !.todo = <<>>]
  <2>1. Become(p, row)
    <3>1. Tail(r.todo) = <<>> /\ Len(r.todo) = 1
      BY <1>6
    <3>2. Become(p, [r EXCEPT !.todo = <<>>, !.pc = "build"])
      BY <1>1, <1>6, <3>1 DEF ValidateAuthored
    <3>3. [r EXCEPT !.todo = <<>>, !.pc = "build"] = row
      BY <1>2 DEF Row
    <3> QED
      BY <3>2, <3>3
  <2>2. /\ row \in Row /\ row.job = r.job /\ row.pc = "build" /\ row.read = r.read
        /\ row.made = r.made /\ row.backup = r.backup /\ row.placed = r.placed
        /\ row.todo = <<>> /\ row.raced = r.raced
    BY DEF Row, Stage, Todo
  <2> HIDE DEF row
  <2>3. Reads(row)
    BY <1>3, <2>2 DEF Reads, Bare
  <2>4. file["head"] \in Authored
    BY <1>6
  <2>5. ~r.raced => ToSet(r.read) \subseteq Authored
    <3>1. PICK a \in Source, b \in Source : r.read = <<a, b>>
      BY <1>3 DEF AllOf
    <3>2. ~r.raced => a = file["in"] /\ b = file["head"] /\ file["in"] \in Authored
      <4>1. InputsOf(r.job)[1] = "in" /\ InputsOf(r.job)[2] = "head"
        BY <1>3, Jobs
      <4>2. 1 \in DOMAIN r.read /\ 2 \in DOMAIN r.read /\ r.read[1] = a /\ r.read[2] = b
        BY <3>1
      <4> QED
        BY <1>1, <1>2, <1>6, <4>1, <4>2 DEF Seen
    <3> QED
      BY <2>4, <3>1, <3>2, Lists
  <2>6. Seen(file, row)
    BY <2>2, <2>5 DEF Seen
  <2> QED
    BY <1>1, <1>2, <2>1, <2>2, <2>3, <2>6, EarlyMove DEF Early, Todo
<1> QED
  BY <1>3, <1>4, <1>5, <1>6

(* A process that is not inside a commit before and after its step. *)
LEMMA PlainMove ==
  ASSUME DInv, NEW p \in Process, NEW row \in Row,
         Become(p, row), UNCHANGED <<file, torn>>, Fits(row), Seen(file, row),
         ~Engaged(row), ~Engaged(proc[p])
  PROVE  DInv'
BY QuietMove DEF DInv

LEMMA NothingMoved ==
  ASSUME NEW r \in Row, \A t \in Target : r.backup[t] = None
  PROVE  r.backup = NoBackup
<1>1. r.backup \in [Target -> Value]
  BY DEF Row
<1> QED
  BY <1>1 DEF NoBackup

LEMMA BuildKeeps ==
  ASSUME DInv, NEW p \in Process, BuildDelivery(p) \/ BuildDelta(p) \/ BuildMigration(p)
  PROVE  DInv'
<1>1. PICK r \in Row : r = proc[p] /\ Fits(r) /\ Seen(file, r) /\ r.job \in Command
  BY Record
<1> DEFINE next == IF r.job = "compare" THEN "backup" ELSE "place"
<1>2. Make(p, next)
  BY <1>1 DEF BuildDelivery, BuildDelta, BuildMigration, Job
<1>3. r.pc = "build" /\ UNCHANGED <<file, torn>>
  BY <1>1, <1>2 DEF Make, At
<1>4. Bare(r) /\ r.made = <<>> /\ r.todo = <<>> /\ r.read \in AllOf(r.job)
  BY <1>1, <1>3 DEF Fits, Reads
<1>5. CASE ~Passes(p, Material(p))
  <2> DEFINE row == [r EXCEPT !.pc = "clean"]
  <2>1. Become(p, row)
    BY <1>1, <1>2, <1>5 DEF Make
  <2>2. /\ row \in Row /\ row.job = r.job /\ row.pc = "clean" /\ row.read = r.read
        /\ row.made = r.made /\ row.backup = r.backup /\ row.placed = r.placed
        /\ row.todo = r.todo /\ row.raced = r.raced
    BY DEF Row, Stage
  <2> HIDE DEF row
  <2>3. Reads(row) /\ Seen(file, row)
    BY <2>2 DEF Reads, Seen
  <2> QED
    BY <1>1, <1>3, <1>4, <2>1, <2>2, <2>3, EarlyMove DEF Early, Todo
<1>6. CASE Passes(p, Material(p))
  <2> DEFINE row == [r EXCEPT !.made = r.read, !.todo = TargetsOf(r.job), !.pc = next]
  <2>1. Become(p, row)
    BY <1>1, <1>2, <1>6 DEF Make, Material, Job
  <2>2. r.read \in Contents /\ TargetsOf(r.job) \in Todo /\ next \in Stage
    <3>1. r.read \in Contents
      BY <1>4 DEF AllOf, Contents
    <3>2. TargetsOf(r.job) \in Todo
      BY <1>1, Jobs DEF Todo, Command
    <3> QED
      BY <3>1, <3>2 DEF Stage, Window
  <2>3. /\ row \in Row /\ row.job = r.job /\ row.pc = next /\ row.read = r.read
        /\ row.made = r.read /\ row.backup = r.backup /\ row.placed = r.placed
        /\ row.todo = TargetsOf(r.job) /\ row.raced = r.raced
    <3> HIDE DEF next
    <3> QED
      BY <2>2 DEF Row
  <2>4. \A i \in DOMAIN r.read :
          r.read[i] \in IF r.job = "compare" THEN Canonical ELSE Authored
    BY <1>1, <1>6 DEF Passes, Material, Job
  <2>5. r.raced \/ ToSet(r.read) \subseteq Authored
    BY <1>1, <1>3, <2>4 DEF Seen, ToSet
  <2> HIDE DEF row
  <2>6. Approved(row)
    BY <1>4, <2>3, <2>4, <2>5 DEF Approved
  <2>7. /\ r.job = "compare" => row.todo = <<"delta", "receipt">>
        /\ row.placed = {} /\ row.backup = NoBackup
    BY <1>4, <2>3, Jobs DEF Bare
  <2>8. Commits(row)
    <3>1. \A t \in ToSet(<<"delta", "receipt">>) : t \in Target
      BY Lists DEF Target
    <3> QED
      BY <2>3, <2>6, <2>7, <3>1 DEF Commits, Window, NoBackup
  <2>9. Fits(row)
    <3>1. Owns(row)
      BY <2>3, <2>7 DEF Owns, NoBackup, Target
    <3>2. Reads(row) /\ Finishes(row)
      BY <2>3 DEF Reads, Finishes
    <3> QED
      BY <2>8, <3>1, <3>2 DEF Fits
  <2>10. Seen(file, row)
    BY <2>3 DEF Seen
  <2>11. ~Engaged(row) /\ ~Engaged(proc[p])
    BY <1>1, <1>3, <2>3, <2>7 DEF Engaged, Bare, Window
  <2> QED
    BY <1>3, <2>1, <2>3, <2>9, <2>10, <2>11, PlainMove
<1> QED
  BY <1>5, <1>6

LEMMA RefuseKeeps == ASSUME DInv, NEW p \in Process, Refuse(p) PROVE DInv'
<1>1. PICK r \in Row : r = proc[p] /\ Fits(r) /\ Seen(file, r) /\ r.job \in Command
  BY Record
<1> DEFINE row == [r EXCEPT !.pc = "clean", !.todo = <<>>]
<1>2. Become(p, row) /\ UNCHANGED <<file, torn>>
  BY <1>1 DEF Refuse
<1>3. /\ row \in Row /\ row.job = r.job /\ row.pc = "clean" /\ row.read = r.read
      /\ row.made = r.made /\ row.backup = r.backup /\ row.placed = r.placed
      /\ row.todo = <<>> /\ row.raced = r.raced
  BY DEF Row, Stage, Todo
<1> HIDE DEF row
<1>4. Reads(row) /\ Seen(file, row)
  BY <1>3 DEF Reads, Seen
<1>5. CASE r.pc \in Early
  BY <1>1, <1>2, <1>3, <1>4, <1>5, EarlyMove DEF Todo
<1>6. CASE r.pc = "backup" /\ r.todo = TargetsOf(r.job)
  <2>1. r.job = "compare" /\ r.placed = {} /\ \A t \in ToSet(r.todo) : r.backup[t] = None
    BY <1>1, <1>6 DEF Fits, Commits, Window
  <2>2. r.todo = <<"delta", "receipt">> /\ ToSet(r.todo) = {"delta", "receipt"}
    BY <1>6, <2>1, Jobs, Lists
  <2>3. \A t \in Target : r.backup[t] = None
    BY <1>1, <2>1, <2>2 DEF Fits, Owns, Target
  <2>4. Bare(r)
    BY <2>1, <2>3, NothingMoved DEF Bare
  <2>5. Fits(row)
    <3>1. Owns(row)
      BY <1>1, <1>3, <1>6 DEF Fits, Owns, Ended
    <3>2. Commits(row) /\ Finishes(row)
      BY <1>3, <2>1 DEF Commits, Finishes, Window
    <3> QED
      BY <1>4, <3>1, <3>2 DEF Fits
  <2>6. ~Engaged(row) /\ ~Engaged(proc[p])
    BY <1>1, <1>3, <1>6, <2>2, <2>4 DEF Engaged, Window
  <2> QED
    BY <1>2, <1>3, <1>4, <2>5, <2>6, PlainMove
<1> QED
  BY <1>1, <1>5, <1>6 DEF Refuse, Early, At, Job

LEMMA CleanKeeps == ASSUME DInv, NEW p \in Process, Clean(p) PROVE DInv'
<1>1. PICK r \in Row : r = proc[p] /\ Fits(r) /\ Seen(file, r) /\ r.job \in Command
  BY Record
<1> DEFINE pc == IF r.placed = {} THEN "failed" ELSE "ok"
           row == [r EXCEPT !.backup = NoBackup, !.pc = pc]
<1>2. r.pc = "clean" /\ Become(p, row) /\ UNCHANGED <<file, torn>>
  BY <1>1 DEF Clean, At
<1>3. pc \in Stage /\ NoBackup \in [Target -> Value]
  BY DEF Stage, Ended, NoBackup, Value
<1> HIDE DEF pc
<1>4. /\ row \in Row /\ row.job = r.job /\ row.pc = pc /\ row.read = r.read
      /\ row.made = r.made /\ row.backup = NoBackup /\ row.placed = r.placed
      /\ row.todo = r.todo /\ row.raced = r.raced
  BY <1>3 DEF Row
<1> HIDE DEF row
<1>5. pc \in {"failed", "ok"} /\ (pc = "ok" => Approved(r))
  BY <1>1, <1>2 DEF pc, Fits, Finishes
<1>6. pc = "ok" => Approved(row)
  BY <1>4, <1>5 DEF Approved
<1>7. Fits(row)
  <2>1. Owns(row)
    BY <1>1, <1>4 DEF Fits, Owns, NoBackup, Target
  <2>2. Reads(row) /\ Commits(row) /\ Finishes(row)
    BY <1>4, <1>5, <1>6 DEF Reads, Commits, Finishes, Window
  <2> QED
    BY <2>1, <2>2 DEF Fits
<1>8. Seen(file, row) /\ ~Engaged(row) /\ ~Engaged(proc[p])
  BY <1>1, <1>2, <1>4, <1>5 DEF Seen, Engaged, Window
<1> QED
  BY <1>2, <1>4, <1>7, <1>8, PlainMove

LEMMA KillKeeps == ASSUME DInv, NEW p \in Process, Kill(p) PROVE DInv'
<1>1. PICK r \in Row : r = proc[p] /\ r.job \in Command
  BY Record
<1> DEFINE row == [Start(r.job) EXCEPT !.pc = "killed"]
<1>2. Become(p, row) /\ file' = file
      /\ torn' = (torn \/ (r.job = "compare" /\ r.pc \in Window))
  BY <1>1 DEF Kill, Job
<1>3. /\ row \in Row /\ row.pc = "killed" /\ row.backup = NoBackup /\ row.placed = {}
      /\ row.made = <<>>
  BY <1>1 DEF Row, Start, NoBackup, Value, Stage, Ended, Todo
<1> HIDE DEF row
<1>4. Fits(row)
  BY <1>3 DEF Fits, Owns, Reads, Commits, Finishes, Window, NoBackup, Target
<1>5. Seen(file, row) /\ ~Engaged(row)
  BY <1>3 DEF Seen, Engaged, Window
<1>6. torn' \in BOOLEAN /\ (torn => torn') /\ (~torn' => ~Engaged(proc[p]))
  BY <1>1, <1>2, ZenonT(30) DEF Engaged
<1> QED
  BY <1>2, <1>3, <1>4, <1>5, <1>6, QuietMove

-----------------------------------------------------------------------------
(* A save *)

LEMMA EditKeeps == ASSUME DInv, Edit PROVE DInv'
<1>1. PICK n \in Input, s \in Source : file' = [file EXCEPT ![n] = s]
  BY DEF Edit
<1>2. torn' = torn
  BY DEF Edit
<1> DEFINE new(q) == proc[q].raced \/ proc[q].pc \in {"read", "prepare", "authored"}
<1>3. proc' = [q \in Process |-> [proc[q] EXCEPT !.raced = new(q)]]
  BY DEF Edit
<1>4. \A q \in Process : /\ new(q) \in BOOLEAN
                         /\ proc[q].raced => new(q)
                         /\ proc[q].pc \in {"read", "prepare", "authored"} => new(q)
  BY ZenonT(30)
<1> HIDE DEF new
<1>5. Files' /\ SamePair
  BY <1>1 DEF DInv, Files, SamePair, Input, Target
<1>6. ASSUME NEW q \in Process
      PROVE  /\ proc'[q] \in Row /\ Fits(proc'[q]) /\ Seen(file', proc'[q])
             /\ Engaged(proc'[q]) <=> Engaged(proc[q])
             /\ ~torn /\ Engaged(proc[q]) => Holds(file', proc'[q])
  <2>1. PICK r \in Row : r = proc[q] /\ Fits(r) /\ Seen(file, r)
    BY Record
  <2>2. PICK b \in BOOLEAN : b = new(q)
    BY <1>4
  <2> DEFINE row == [r EXCEPT !.raced = b]
  <2>3. proc'[q] = row
    BY <1>3, <2>1, <2>2
  <2>4. /\ row \in Row /\ row.job = r.job /\ row.pc = r.pc /\ row.read = r.read
        /\ row.made = r.made /\ row.backup = r.backup /\ row.placed = r.placed
        /\ row.todo = r.todo /\ row.raced = b
    BY DEF Row
  <2> HIDE DEF row
  <2>5. (r.raced => b) /\ (r.pc \in {"read", "prepare", "authored"} => b)
    BY <1>4, <2>1, <2>2
  <2>6. Approved(r) => Approved(row)
    BY <2>4, <2>5 DEF Approved
  <2>7. Fits(row)
    <3>1. Owns(row) /\ Reads(row)
      BY <2>1, <2>4 DEF Fits, Owns, Reads, Bare
    <3>2. Commits(row)
      BY <2>1, <2>4, <2>6 DEF Fits, Commits
    <3>3. Finishes(row)
      BY <2>1, <2>4, <2>6 DEF Fits, Finishes
    <3> QED
      BY <3>1, <3>2, <3>3 DEF Fits
  <2>8. Seen(file', row)
    BY <2>1, <2>4, <2>5 DEF Seen
  <2>9. Engaged(row) <=> Engaged(r)
    BY <2>4 DEF Engaged, Bare
  <2>10. ASSUME ~torn, Engaged(r) PROVE Holds(file', row)
    <3>1. Holds(file', r)
      BY <1>5, <2>1, <2>10, HoldsStays DEF DInv, Tidy
    <3> QED
      BY <2>4, <3>1 DEF Holds, Was
  <2> QED
    BY <2>1, <2>3, <2>4, <2>7, <2>8, <2>9, <2>10
<1>7. proc' \in [Process -> Row]
  <2>1. \A q \in Process : [proc[q] EXCEPT !.raced = new(q)] \in Row
    BY <1>3, <1>6
  <2> QED
    BY <1>3, <2>1
<1>8. Tidy'
  <2>1. ~torn =>
          /\ \A p \in Process : Engaged(proc[p]) => Alone(p) /\ Holds(file, proc[p])
          /\ (\A p \in Process : ~Engaged(proc[p])) =>
               Agreed(file["delta"], file["receipt"])
    BY DEF DInv, Tidy
  <2> QED
    BY <1>2, <1>5, <1>6, <2>1 DEF Tidy, Alone, SamePair
<1> QED
  BY <1>2, <1>5, <1>6, <1>7, <1>8 DEF DInv

-----------------------------------------------------------------------------
(* The commit *)

LEMMA TargetSet ==
  ASSUME DInv, NEW t \in Target, NEW v \in Value, file' = [file EXCEPT ![t] = v]
  PROVE  /\ Files' /\ Others /\ file'[t] = v
         /\ \A u \in Target \ {t} : file'[u] = file[u]
BY DEF DInv, Files, Others, Input, Target

LEMMA Unmet ==
  ASSUME DInv, NEW p \in Process, ~Meets(p) PROVE Alone(p)
BY DEF Meets, Alone, Engaged, Job

(* What an engaged compare can count on. *)
LEMMA Hold ==
  ASSUME DInv, NEW p \in Process, ~torn, Engaged(proc[p])
  PROVE  Alone(p) /\ Holds(file, proc[p])
BY DEF DInv, Tidy

LEMMA BackupKeeps == ASSUME DInv, NEW p \in Process, Backup(p) PROVE DInv'
<1>1. PICK r \in Row : r = proc[p] /\ Fits(r) /\ Seen(file, r) /\ r.job \in Command
  BY Record
<1>2. r.pc = "backup" /\ r.todo # <<>> /\ torn' = (torn \/ Meets(p))
  BY <1>1 DEF Backup, At
<1>3. /\ r.job = "compare" /\ r.placed = {} /\ Approved(r)
      /\ r.todo \in {<<"delta", "receipt">>, <<"receipt">>}
      /\ \A t \in ToSet(r.todo) : r.backup[t] = None
  BY <1>1, <1>2 DEF Fits, Commits, Window
<1>4. PICK t \in {"delta", "receipt"}, rest \in {<<"receipt">>, <<>>} :
        /\ t = Head(r.todo) /\ rest = Tail(r.todo)
        /\ \/ r.todo = <<"delta", "receipt">> /\ t = "delta" /\ rest = <<"receipt">>
           \/ r.todo = <<"receipt">> /\ t = "receipt" /\ rest = <<>>
  <2>1. CASE r.todo = <<"delta", "receipt">>
    <3>1. Head(r.todo) = "delta" /\ Tail(r.todo) = <<"receipt">>
      BY <2>1, Lists
    <3> QED
      BY <2>1, <3>1
  <2>2. CASE r.todo = <<"receipt">>
    <3>1. Head(r.todo) = "receipt" /\ Tail(r.todo) = <<>>
      BY <2>2, Lists
    <3> QED
      BY <2>2, <3>1
  <2> QED
    BY <1>3, <2>1, <2>2
<1>5. PICK old \in Value : old = file[t]
  BY DEF DInv, Files, Target
<1> DEFINE saved == [r.backup EXCEPT ![t] = old]
           row == [r EXCEPT !.todo = rest, !.backup = saved]
<1>6. Become(p, row) /\ file' = [file EXCEPT ![t] = None]
  BY <1>1, <1>4, <1>5 DEF Backup
<1>7. /\ saved \in [Target -> Value] /\ saved[t] = old
      /\ \A u \in Target \ {t} : saved[u] = r.backup[u]
  BY DEF Row, Target
<1>8. rest \in Todo
  BY DEF Todo
<1> HIDE DEF saved
<1>9. /\ row \in Row /\ row.job = r.job /\ row.pc = r.pc /\ row.read = r.read
      /\ row.made = r.made /\ row.backup = saved /\ row.placed = r.placed
      /\ row.todo = rest /\ row.raced = r.raced
  BY <1>7, <1>8 DEF Row
<1> HIDE DEF row
<1>10. /\ Files' /\ Others /\ file'[t] = None
       /\ \A u \in Target \ {t} : file'[u] = file[u]
  BY <1>6, TargetSet DEF Target, Value
<1>11. Fits(row)
  <2>1. Owns(row)
    BY <1>1, <1>2, <1>3, <1>7, <1>9 DEF Fits, Owns, Target, Ended
  <2>2. Approved(row)
    BY <1>3, <1>9 DEF Approved
  <2>3. \A u \in ToSet(rest) : saved[u] = None
    <3>1. CASE t = "delta" /\ rest = <<"receipt">> /\ r.todo = <<"delta", "receipt">>
      <4>1. ToSet(rest) = {"receipt"} /\ ToSet(r.todo) = {"delta", "receipt"}
        BY <3>1, Lists
      <4>2. saved["receipt"] = r.backup["receipt"]
        BY <1>7, <3>1 DEF Target
      <4> QED
        BY <1>3, <4>1, <4>2
    <3>2. CASE rest = <<>>
      BY <3>2, Lists
    <3> QED
      BY <1>4, <3>1, <3>2
  <2>4. Reads(row) /\ Commits(row) /\ Finishes(row)
    BY <1>2, <1>3, <1>9, <2>2, <2>3 DEF Reads, Commits, Finishes
  <2> QED
    BY <2>1, <2>4 DEF Fits
<1>12. Seen(file, row)
  BY <1>2, <1>9 DEF Seen
<1>13. torn' \in BOOLEAN /\ (torn => torn') /\ (~torn' => ~torn /\ ~Meets(p))
  BY <1>2, ZenonT(30)
<1>14. Engaged(row)
  BY <1>2, <1>3, <1>4, <1>9 DEF Engaged, Window
<1>15. ASSUME ~torn' PROVE Alone(p) /\ Holds(file', row)
  <2>1. ~torn /\ Alone(p)
    BY <1>13, <1>15, Unmet
  <2>2. Agreed(Was(file, r, "delta"), Was(file, r, "receipt"))
        /\ (r.todo = <<"receipt">> => file["delta"] = None)
    <3>1. CASE r.todo = <<"delta", "receipt">>
      <4>1. \A u \in Target : r.backup[u] = None
        BY <1>1, <1>3, <3>1, Lists DEF Fits, Owns, Target
      <4>2. ~Engaged(proc[p])
        BY <1>1, <1>2, <1>3, <3>1, <4>1, NothingMoved DEF Engaged, Bare
      <4>3. Agreed(file["delta"], file["receipt"])
        BY <2>1, <4>2 DEF DInv, Tidy, Alone
      <4> QED
        BY <1>3, <3>1, <4>1, <4>3 DEF Was, Target
    <3>2. CASE r.todo = <<"receipt">>
      <4>1. Engaged(proc[p])
        BY <1>1, <1>2, <1>3, <3>2 DEF Engaged, Window
      <4>2. Holds(file, r)
        BY <1>1, <2>1, <4>1, Hold
      <4> QED
        BY <1>2, <3>2, <4>2, Lists DEF Holds
    <3> QED
      BY <1>3, <3>1, <3>2
  <2>3. r.backup[t] = None
    BY <1>3, <1>4, Lists
  <2>4. \A u \in {"delta", "receipt"} : Was(file', row, u) = Was(file, r, u)
    <3>1. Was(file', row, t) = Was(file, r, t)
      BY <1>3, <1>5, <1>7, <1>9, <1>10, <2>3 DEF Was
    <3>2. ASSUME NEW u \in {"delta", "receipt"}, u # t
          PROVE  Was(file', row, u) = Was(file, r, u)
      <4>1. u \in Target \ {t}
        BY <3>2 DEF Target
      <4> QED
        BY <1>7, <1>9, <1>10, <4>1 DEF Was
    <3> QED
      BY <3>1, <3>2
  <2>5. \A u \in {"delta", "receipt"} \ ToSet(rest) : file'[u] = None
    <3>1. CASE t = "delta" /\ rest = <<"receipt">>
      BY <1>10, <3>1, Lists
    <3>2. CASE t = "receipt" /\ rest = <<>> /\ r.todo = <<"receipt">>
      <4>1. "delta" \in Target \ {t}
        BY <3>2 DEF Target
      <4> QED
        BY <1>10, <2>2, <3>2, <4>1
    <3> QED
      BY <1>4, <3>1, <3>2
  <2> QED
    BY <1>2, <1>9, <2>1, <2>2, <2>4, <2>5 DEF Holds
<1> QED
  BY <1>6, <1>9, <1>10, <1>11, <1>12, <1>13, <1>14, <1>15, OneMoves

LEMMA BackedUpKeeps == ASSUME DInv, NEW p \in Process, BackedUp(p) PROVE DInv'
<1>1. PICK r \in Row : r = proc[p] /\ Fits(r) /\ Seen(file, r) /\ r.job \in Command
  BY Record
<1>2. r.pc = "backup" /\ r.todo = <<>> /\ UNCHANGED <<file, torn>>
  BY <1>1 DEF BackedUp, At
<1>3. r.job = "compare" /\ r.placed = {} /\ Approved(r)
  BY <1>1, <1>2 DEF Fits, Commits, Window
<1> DEFINE row == [r EXCEPT !.pc = "place", !.todo = <<"delta", "receipt">>]
<1>4. Become(p, row)
  BY <1>1, Jobs DEF BackedUp
<1>5. /\ row \in Row /\ row.job = r.job /\ row.pc = "place" /\ row.read = r.read
      /\ row.made = r.made /\ row.backup = r.backup /\ row.placed = r.placed
      /\ row.todo = <<"delta", "receipt">> /\ row.raced = r.raced
  BY DEF Row, Stage, Window, Todo
<1> HIDE DEF row
<1>6. Fits(row)
  <2>1. Owns(row)
    BY <1>1, <1>2, <1>3, <1>5 DEF Fits, Owns, Ended
  <2>2. Approved(row)
    BY <1>3, <1>5 DEF Approved
  <2>3. Reads(row) /\ Commits(row) /\ Finishes(row)
    BY <1>3, <1>5, <2>2 DEF Reads, Commits, Finishes
  <2> QED
    BY <2>1, <2>3 DEF Fits
<1>7. Seen(file, row)
  BY <1>5 DEF Seen
<1>8. Engaged(proc[p]) /\ Engaged(row)
  BY <1>1, <1>2, <1>3, <1>5 DEF Engaged, Window
<1>9. ASSUME ~torn PROVE Holds(file, row)
  <2>1. Holds(file, r)
    BY <1>1, <1>8, <1>9, Hold
  <2>2. \A t \in {"delta", "receipt"} : file[t] = None
    BY <1>2, <2>1, Lists DEF Holds
  <2>3. Was(file, row, "delta") = Was(file, r, "delta")
        /\ Was(file, row, "receipt") = Was(file, r, "receipt")
    BY <1>5 DEF Was
  <2> QED
    BY <1>3, <1>5, <2>1, <2>2, <2>3 DEF Holds
<1> QED
  BY <1>2, <1>4, <1>5, <1>6, <1>7, <1>8, <1>9, QuietMove DEF DInv

(* The last rename of a commit. *)
LEMMA LastRename ==
  ASSUME DInv, NEW p \in Process, NEW r \in Row, r = proc[p], Fits(r),
         r.pc = "place", Approved(r), r.job \in Command,
         NEW t \in Target, r.todo = <<t>>,
         r.placed \union {t} = ToSet(TargetsOf(r.job)), Rename(p)
  PROVE  /\ Files' /\ Others /\ file'[t] = r.made
         /\ \A u \in Target \ {t} : file'[u] = file[u]
         /\ \E row \in Row :
              /\ Become(p, row) /\ Fits(row) /\ Seen(file, row) /\ ~Engaged(row)
              /\ row.pc = "clean" /\ row.placed = r.placed \union {t}
              /\ row.made = r.made /\ row.backup = r.backup
<1> DEFINE row == [r EXCEPT !.todo = <<>>, !.placed = @ \union {t}, !.pc = "clean"]
<1>1. Head(r.todo) = t /\ Tail(r.todo) = <<>> /\ Len(r.todo) = 1
  BY Lists
<1>2. Become(p, row) /\ file' = [file EXCEPT ![t] = r.made]
  BY <1>1 DEF Rename
<1>3. r.made \in Value
  BY DEF Approved, AllOf, Value, Contents
<1>4. /\ row \in Row /\ row.job = r.job /\ row.pc = "clean" /\ row.read = r.read
      /\ row.made = r.made /\ row.backup = r.backup
      /\ row.placed = r.placed \union {t}
      /\ row.todo = <<>> /\ row.raced = r.raced
  <2>1. "clean" \in Stage /\ <<>> \in Todo
    BY DEF Stage, Todo
  <2>2. r.placed \union {t} \in SUBSET Target
    BY DEF Row
  <2> QED
    BY <2>1, <2>2 DEF Row
<1> HIDE DEF row
<1>5. Approved(row)
  BY <1>4 DEF Approved
<1>6. Fits(row)
  <2>1. Owns(row)
    BY <1>4 DEF Fits, Owns, Ended
  <2>2. Reads(row) /\ Commits(row) /\ Finishes(row)
    BY <1>4, <1>5 DEF Reads, Commits, Finishes, Window
  <2> QED
    BY <2>1, <2>2 DEF Fits
<1>7. Seen(file, row) /\ ~Engaged(row)
  BY <1>4 DEF Seen, Engaged, Window
<1>8. /\ Files' /\ Others /\ file'[t] = r.made
      /\ \A u \in Target \ {t} : file'[u] = file[u]
  BY <1>2, <1>3, TargetSet
<1> QED
  BY <1>2, <1>4, <1>6, <1>7, <1>8

(* deliver and migrate have one target, which is no part of the pair. *)
LEMMA SingleKeeps ==
  ASSUME DInv, NEW p \in Process, At(p, "place"), Job(p) # "compare",
         Rename(p), UNCHANGED torn
  PROVE  DInv'
<1>1. PICK r \in Row : r = proc[p] /\ Fits(r) /\ Seen(file, r) /\ r.job \in Command
  BY Record
<1>2. r.pc = "place" /\ r.job # "compare"
  BY <1>1 DEF At, Job
<1>3. Approved(r) /\ r.todo = TargetsOf(r.job) /\ r.placed = {}
  BY <1>1, <1>2 DEF Fits, Commits, Window
<1>4. PICK t \in {"page", "migrated"} : r.todo = <<t>>
  BY <1>1, <1>2, <1>3, Jobs DEF Command
<1>5. t \in Target /\ r.placed \union {t} = ToSet(TargetsOf(r.job))
  BY <1>3, <1>4, Lists DEF Target
<1>6. /\ Files' /\ Others /\ \A u \in Target \ {t} : file'[u] = file[u]
      /\ \E row \in Row :
              Become(p, row) /\ Fits(row) /\ Seen(file, row) /\ ~Engaged(row)
  BY <1>1, <1>2, <1>3, <1>4, <1>5, LastRename
<1>7. SamePair
  BY <1>4, <1>6 DEF SamePair, Target
<1>8. ~Engaged(proc[p])
  BY <1>1, <1>2 DEF Engaged
<1> QED
  BY <1>6, <1>7, <1>8, OneMoves DEF DInv

LEMMA CommitDeliveryKeeps ==
  ASSUME DInv, NEW p \in Process, CommitDelivery(p) PROVE DInv'
BY SingleKeeps DEF CommitDelivery

(* A command other than compare gives up before its rename. *)
LEMMA GiveUpKeeps ==
  ASSUME DInv, NEW p \in Process, Job(p) # "compare", proc[p].pc \in {"backup", "place"},
         Become(p, [proc[p] EXCEPT !.pc = "clean", !.todo = <<>>]),
         UNCHANGED <<file, torn>>
  PROVE  DInv'
<1>1. PICK r \in Row : r = proc[p] /\ Fits(r) /\ Seen(file, r) /\ r.job \in Command
  BY Record
<1>2. r.job # "compare" /\ r.pc \in {"backup", "place"}
  BY <1>1 DEF Job
<1>3. r.placed = {} /\ r.backup = NoBackup
  BY <1>1, <1>2 DEF Fits, Commits, Owns, Window
<1> DEFINE row == [r EXCEPT !.pc = "clean", !.todo = <<>>]
<1>4. Become(p, row)
  BY <1>1
<1>5. /\ row \in Row /\ row.job = r.job /\ row.pc = "clean" /\ row.read = r.read
      /\ row.made = r.made /\ row.backup = r.backup /\ row.placed = r.placed
      /\ row.todo = <<>> /\ row.raced = r.raced
  <2>1. "clean" \in Stage /\ <<>> \in Todo
    BY DEF Stage, Todo
  <2> QED
    BY <2>1 DEF Row
<1> HIDE DEF row
<1>6. Fits(row)
  BY <1>1, <1>3, <1>5 DEF Fits, Owns, Reads, Commits, Finishes, Window, NoBackup, Target
<1>7. Seen(file, row) /\ ~Engaged(row) /\ ~Engaged(proc[p])
  BY <1>1, <1>2, <1>5 DEF Seen, Engaged, Window
<1> QED
  BY <1>4, <1>5, <1>6, <1>7, PlainMove

LEMMA CommitMigrationKeeps ==
  ASSUME DInv, NEW p \in Process, CommitMigration(p) PROVE DInv'
<1>1. At(p, "place") /\ Job(p) = "migrate" /\ UNCHANGED torn
  BY DEF CommitMigration
<1>2. CASE Stable(p)
  <2>1. Rename(p)
    BY <1>2 DEF CommitMigration
  <2> QED
    BY <1>1, <2>1, SingleKeeps
<1>3. CASE ~Stable(p)
  <2>1. Become(p, [proc[p] EXCEPT !.pc = "clean", !.todo = <<>>]) /\ UNCHANGED file
    BY <1>3 DEF CommitMigration
  <2> QED
    BY <1>1, <2>1, GiveUpKeeps DEF At
<1> QED
  BY <1>2, <1>3

LEMMA PlacePairKeeps == ASSUME DInv, NEW p \in Process, PlacePair(p) PROVE DInv'
<1>1. PICK r \in Row : r = proc[p] /\ Fits(r) /\ Seen(file, r) /\ r.job \in Command
  BY Record
<1>2. /\ r.pc = "place" /\ r.job = "compare" /\ Rename(p)
      /\ torn' = (torn \/ Meets(p))
  BY <1>1 DEF PlacePair, At, Job
<1>3. /\ Approved(r)
      /\ \/ r.todo = <<"delta", "receipt">> /\ r.placed = {}
         \/ r.todo = <<"receipt">> /\ r.placed = {"delta"}
  BY <1>1, <1>2 DEF Fits, Commits, Window
<1>4. torn' \in BOOLEAN /\ (torn => torn') /\ (~torn' => ~torn /\ Alone(p))
  <2>1. torn' \in BOOLEAN /\ (torn => torn') /\ (~torn' => ~torn /\ ~Meets(p))
    BY <1>2, ZenonT(30)
  <2> QED
    BY <2>1, Unmet
<1>5. Engaged(proc[p])
  BY <1>1, <1>2 DEF Engaged, Window
<1>6. ~torn' => Holds(file, r)
  BY <1>1, <1>4, <1>5, Hold
<1>7. CASE r.todo = <<"delta", "receipt">> /\ r.placed = {}
  <2> DEFINE row == [r EXCEPT !.todo = <<"receipt">>, !.placed = @ \union {"delta"}]
  <2>1. /\ Head(r.todo) = "delta" /\ Tail(r.todo) = <<"receipt">> /\ Len(r.todo) # 1
        /\ ToSet(<<"receipt">>) = {"receipt"}
    BY <1>7, Lists
  <2>2. /\ Become(p, [r EXCEPT !.todo = <<"receipt">>, !.placed = @ \union {"delta"},
                        !.pc = r.pc])
        /\ file' = [file EXCEPT !["delta"] = r.made]
    BY <1>1, <1>2, <2>1 DEF Rename
  <2>3. r.placed \union {"delta"} \in SUBSET Target /\ <<"receipt">> \in Todo
    BY DEF Row, Target, Todo
  <2>4. /\ row \in Row /\ row.job = r.job /\ row.pc = r.pc /\ row.read = r.read
        /\ row.made = r.made /\ row.backup = r.backup /\ row.placed = {"delta"}
        /\ row.todo = <<"receipt">> /\ row.raced = r.raced
        /\ [r EXCEPT !.todo = <<"receipt">>, !.placed = @ \union {"delta"}, !.pc = r.pc]
             = row
    BY <1>7, <2>3 DEF Row
  <2>5. Become(p, row)
    BY <2>2, <2>4
  <2> HIDE DEF row
  <2>6. Approved(row)
    BY <1>3, <2>4 DEF Approved
  <2>7. Fits(row)
    <3>1. Owns(row)
      BY <1>1, <1>2, <2>4, Jobs, Lists DEF Fits, Owns, Ended
    <3>2. Reads(row) /\ Commits(row) /\ Finishes(row)
      BY <1>2, <2>4, <2>6 DEF Reads, Commits, Finishes
    <3> QED
      BY <3>1, <3>2 DEF Fits
  <2>8. Seen(file, row) /\ Engaged(row)
    BY <1>2, <2>4 DEF Seen, Engaged, Window
  <2>9. /\ Files' /\ Others /\ file'["delta"] = r.made
        /\ file'["receipt"] = file["receipt"]
    <3>1. "delta" \in Target /\ "receipt" \in Target \ {"delta"}
      BY DEF Target
    <3>2. r.made \in Value
      BY <1>3 DEF Approved, AllOf, Value, Contents
    <3> QED
      BY <2>2, <3>1, <3>2, TargetSet
  <2>10. ASSUME ~torn' PROVE Holds(file', row)
    <3>1. /\ file["delta"] = None /\ file["receipt"] = None
          /\ Agreed(Was(file, r, "delta"), Was(file, r, "receipt"))
      BY <1>2, <1>6, <1>7, <2>10 DEF Holds
    <3>2. Was(file', row, "delta") = Was(file, r, "delta")
      BY <1>7, <2>4, <3>1 DEF Was
    <3>3. Was(file', row, "receipt") = Was(file, r, "receipt")
      BY <1>7, <2>4, <2>9 DEF Was
    <3> QED
      BY <1>2, <2>4, <2>9, <3>1, <3>2, <3>3 DEF Holds
  <2> QED
    BY <1>4, <2>4, <2>5, <2>7, <2>8, <2>9, <2>10, OneMoves
<1>8. CASE r.todo = <<"receipt">> /\ r.placed = {"delta"}
  <2>1. "receipt" \in Target /\ "delta" \in Target \ {"receipt"}
    BY DEF Target
  <2>2. r.placed \union {"receipt"} = ToSet(TargetsOf(r.job))
    BY <1>2, <1>8, Jobs, Lists
  <2>3. /\ Files' /\ Others /\ file'["receipt"] = r.made
        /\ \A u \in Target \ {"receipt"} : file'[u] = file[u]
        /\ \E row \in Row :
              Become(p, row) /\ Fits(row) /\ Seen(file, row) /\ ~Engaged(row)
    BY <1>1, <1>2, <1>3, <1>8, <2>1, <2>2, LastRename
  <2>4. ~torn' => file["delta"] = r.made
    BY <1>2, <1>6, <1>8 DEF Holds
  <2>5. ~torn' => Agreed(file'["delta"], file'["receipt"])
    BY <2>1, <2>3, <2>4 DEF Agreed
  <2> QED
    BY <1>4, <1>5, <2>3, <2>5, OneMoves
<1> QED
  BY <1>3, <1>7, <1>8

LEMMA CommitFailsKeeps == ASSUME DInv, NEW p \in Process, CommitFails(p) PROVE DInv'
<1>1. PICK r \in Row : r = proc[p] /\ Fits(r) /\ Seen(file, r) /\ r.job \in Command
  BY Record
<1>2. r.pc \in {"backup", "place"} /\ r.todo # <<>> /\ UNCHANGED <<file, torn>>
  BY <1>1 DEF CommitFails
<1>3. CASE r.job # "compare"
  <2>1. Become(p, [proc[p] EXCEPT !.pc = "clean", !.todo = <<>>])
    BY <1>1, <1>3 DEF CommitFails, Job
  <2> QED
    BY <1>1, <1>2, <1>3, <2>1, GiveUpKeeps DEF Job
<1>4. CASE r.job = "compare"
  <2>1. Approved(r) /\ r.placed \in {{}, {"delta"}}
    BY <1>1, <1>2, <1>4 DEF Fits, Commits, Window
  <2>2. PICK todo \in {<<>>, <<"delta">>} :
          /\ todo = LastFirst(r.placed)
          /\ todo = IF r.placed = {} THEN <<>> ELSE <<"delta">>
    BY <2>1, LastFirstLists
  <2>3. todo \in Todo /\ "remove" \in Stage /\ ToSet(todo) = r.placed
    BY <2>1, <2>2, Lists DEF Todo, Stage, Window
  <2> DEFINE row == [r EXCEPT !.pc = "remove", !.todo = todo]
  <2>4. Become(p, row)
    BY <1>1, <1>4, <2>2 DEF CommitFails, Job
  <2>5. /\ row \in Row /\ row.job = r.job /\ row.pc = "remove" /\ row.read = r.read
        /\ row.made = r.made /\ row.backup = r.backup /\ row.placed = r.placed
        /\ row.todo = todo /\ row.raced = r.raced
    BY <2>3 DEF Row
  <2> HIDE DEF row
  <2>6. Fits(row)
    <3>1. Approved(row)
      BY <2>1, <2>5 DEF Approved
    <3>2. Owns(row)
      BY <1>1, <1>4, <2>5 DEF Fits, Owns, Ended
    <3>3. Reads(row) /\ Commits(row) /\ Finishes(row)
      BY <1>4, <2>1, <2>3, <2>5, <3>1 DEF Reads, Commits, Finishes
    <3> QED
      BY <3>2, <3>3 DEF Fits
  <2>7. Seen(file, row)
    BY <2>5 DEF Seen
  <2>8. ASSUME ~torn', Engaged(row) PROVE Engaged(r) /\ Holds(file, row)
    <3>1. Engaged(r)
      <4>1. ~Bare(r)
        BY <1>4, <2>1, <2>2, <2>5, <2>8 DEF Engaged, Bare
      <4> QED
        BY <1>2, <1>4, <4>1 DEF Engaged, Window
    <3>2. Agreed(Was(file, r, "delta"), Was(file, r, "receipt"))
      BY <1>1, <1>2, <2>8, <3>1, Hold DEF Holds
    <3>3. Was(file, row, "delta") = Was(file, r, "delta")
          /\ Was(file, row, "receipt") = Was(file, r, "receipt")
      BY <2>5 DEF Was
    <3> QED
      BY <2>3, <2>5, <3>1, <3>2, <3>3 DEF Holds
  <2>9. ASSUME ~torn', Engaged(r), ~Engaged(row)
        PROVE  Agreed(file["delta"], file["receipt"])
    <3>1. Bare(r)
      BY <1>4, <2>5, <2>9 DEF Engaged, Bare, Window
    <3>2. Agreed(Was(file, r, "delta"), Was(file, r, "receipt"))
      BY <1>1, <1>2, <2>9, Hold DEF Holds
    <3>3. Was(file, r, "delta") = file["delta"] /\ Was(file, r, "receipt") = file["receipt"]
      BY <3>1 DEF Was, Bare, NoBackup, Target
    <3> QED
      BY <3>2, <3>3
  <2> QED
    BY <1>1, <1>2, <2>4, <2>5, <2>6, <2>7, <2>8, <2>9, QuietMove DEF DInv
<1> QED
  BY <1>3, <1>4

(* What a compare that undoes its commit has recorded. *)
LEMMA Undoing ==
  ASSUME DInv, NEW p \in Process, proc[p].pc \in {"remove", "restore"}
  PROVE  /\ Job(p) = "compare" /\ Approved(proc[p])
         /\ \A t \in {"page", "migrated"} : proc[p].backup[t] = None
         /\ proc[p].pc = "remove" =>
              /\ proc[p].placed \subseteq {"delta"} /\ proc[p].todo \in {<<>>, <<"delta">>}
              /\ ToSet(proc[p].todo) \subseteq proc[p].placed
         /\ proc[p].pc = "restore" =>
              /\ proc[p].placed = {}
              /\ proc[p].todo \in {<<>>, <<"delta">>, <<"receipt">>, <<"receipt", "delta">>}
              /\ \A t \in ToSet(proc[p].todo) : proc[p].backup[t] # None
<1>1. PICK r \in Row : r = proc[p] /\ Fits(r)
  BY Record
<1>2. Approved(r) /\ r.job = "compare"
  BY <1>1 DEF Fits, Commits, Window
<1> QED
  BY <1>1, <1>2 DEF Fits, Owns, Commits, Job

(* All previous targets are back: the compare is done. *)
LEMMA RestoredKeeps ==
  ASSUME DInv, NEW p \in Process, At(p, "restore"), proc[p].todo = <<>>, Undo(p)
  PROVE  DInv'
<1>1. PICK r \in Row : r = proc[p] /\ Fits(r) /\ Seen(file, r) /\ r.job \in Command
  BY Record
<1>2. /\ r.pc = "restore" /\ r.todo = <<>> /\ r.job = "compare" /\ r.placed = {}
      /\ \A t \in {"page", "migrated"} : r.backup[t] = None
  BY <1>1, Undoing DEF At, Job
<1> DEFINE row == [r EXCEPT !.pc = "clean"]
<1>3. Become(p, row) /\ UNCHANGED <<file, torn>>
  BY <1>1, <1>2 DEF Undo, At
<1>4. /\ row \in Row /\ row.job = r.job /\ row.pc = "clean" /\ row.read = r.read
      /\ row.made = r.made /\ row.backup = r.backup /\ row.placed = r.placed
      /\ row.todo = r.todo /\ row.raced = r.raced
  <2>1. "clean" \in Stage
    BY DEF Stage
  <2> QED
    BY <2>1 DEF Row
<1> HIDE DEF row
<1>5. Fits(row)
  BY <1>1, <1>2, <1>4 DEF Fits, Owns, Reads, Commits, Finishes, Window, Ended
<1>6. Seen(file, row) /\ ~Engaged(row)
  BY <1>4 DEF Seen, Engaged, Window
<1>7. ASSUME ~torn', Engaged(proc[p]) PROVE Agreed(file["delta"], file["receipt"])
  <2>1. Holds(file, r)
    BY <1>1, <1>3, <1>7, Hold
  <2>2. \A t \in {"delta", "receipt"} : Was(file, r, t) = file[t]
    <3>1. \A t \in {"delta", "receipt"} : r.backup[t] # None => file[t] = r.backup[t]
      BY <1>2, <2>1, Lists DEF Holds
    <3> QED
      BY <1>2, <3>1 DEF Was
  <2> QED
    BY <2>1, <2>2 DEF Holds
<1> QED
  BY <1>3, <1>4, <1>5, <1>6, <1>7, QuietMove DEF DInv

(* The placed candidates are removed: the previous targets are next. *)
LEMMA RemovedKeeps ==
  ASSUME DInv, NEW p \in Process, At(p, "remove"), proc[p].todo = <<>>, Undo(p)
  PROVE  DInv'
<1>1. PICK r \in Row : r = proc[p] /\ Fits(r) /\ Seen(file, r) /\ r.job \in Command
  BY Record
<1>2. /\ r.pc = "remove" /\ r.todo = <<>> /\ r.job = "compare" /\ Approved(r)
      /\ r.placed \subseteq {"delta"}
      /\ \A t \in {"page", "migrated"} : r.backup[t] = None
  BY <1>1, Undoing DEF At, Job
<1>3. PICK todo \in {<<>>, <<"delta">>, <<"receipt">>, <<"receipt", "delta">>} :
        /\ todo = LastFirst(Saved(p))
        /\ ToSet(todo) = {t \in {"delta", "receipt"} : r.backup[t] # None}
  <2>1. \A t \in {"delta", "receipt"} : t \in Saved(p) <=> r.backup[t] # None
    BY <1>1 DEF Saved, Target
  <2> QED
    BY <2>1, LastFirstLists, Lists
<1>4. todo \in Todo /\ "restore" \in Stage
  BY DEF Todo, Stage, Window
<1> DEFINE row == [r EXCEPT !.pc = "restore", !.placed = {}, !.todo = todo]
<1>5. Become(p, row) /\ UNCHANGED <<file, torn>>
  BY <1>1, <1>2, <1>3 DEF Undo, At
<1>6. /\ row \in Row /\ row.job = r.job /\ row.pc = "restore" /\ row.read = r.read
      /\ row.made = r.made /\ row.backup = r.backup /\ row.placed = {}
      /\ row.todo = todo /\ row.raced = r.raced
  BY <1>4 DEF Row
<1> HIDE DEF row
<1>7. Fits(row)
  <2>1. Approved(row)
    BY <1>2, <1>6 DEF Approved
  <2>2. Owns(row)
    BY <1>1, <1>2, <1>6 DEF Fits, Owns, Ended
  <2>3. Reads(row) /\ Commits(row) /\ Finishes(row)
    BY <1>2, <1>3, <1>6, <2>1 DEF Reads, Commits, Finishes
  <2> QED
    BY <2>2, <2>3 DEF Fits
<1>8. Seen(file, row)
  BY <1>6 DEF Seen
<1>9. r.backup = NoBackup => todo = <<>>
  <2>1. r.backup = NoBackup => ToSet(todo) = {}
    BY <1>3 DEF NoBackup, Target
  <2> QED
    BY <2>1, Lists
<1>10. ASSUME ~torn', Engaged(row) PROVE Engaged(r) /\ Holds(file, row)
  <2>1. Engaged(r)
    <3>1. r.backup # NoBackup
      BY <1>6, <1>9, <1>10 DEF Engaged, Bare
    <3> QED
      BY <1>2, <3>1 DEF Engaged, Bare, Window
  <2>2. Holds(file, r)
    BY <1>1, <1>5, <1>10, <2>1, Hold
  <2>3. \A t \in r.placed : file[t] = None
    BY <1>2, <2>2, Lists DEF Holds
  <2>4. Was(file, row, "delta") = Was(file, r, "delta")
        /\ Was(file, row, "receipt") = Was(file, r, "receipt")
    BY <1>6, <2>3 DEF Was
  <2>5. \A t \in {"delta", "receipt"} \ ToSet(todo) : row.backup[t] = None
    BY <1>3, <1>6
  <2>6. Agreed(Was(file, row, "delta"), Was(file, row, "receipt"))
    BY <2>2, <2>4 DEF Holds
  <2> QED
    BY <1>6, <2>1, <2>2, <2>5, <2>6 DEF Holds
<1>11. ASSUME ~torn', Engaged(r), ~Engaged(row)
       PROVE  Agreed(file["delta"], file["receipt"])
  <2>1. Holds(file, r)
    BY <1>1, <1>5, <1>11, Hold
  <2>2. r.backup = NoBackup
    BY <1>2, <1>6, <1>11 DEF Engaged, Bare, Window
  <2>3. \A t \in r.placed : file[t] = None
    BY <1>2, <2>1, Lists DEF Holds
  <2>4. Was(file, r, "delta") = file["delta"] /\ Was(file, r, "receipt") = file["receipt"]
    BY <2>2, <2>3 DEF Was, NoBackup, Target
  <2> QED
    BY <2>1, <2>4 DEF Holds
<1> QED
  BY <1>1, <1>5, <1>6, <1>7, <1>8, <1>10, <1>11, QuietMove DEF DInv

(* One rename, or one removal, of the way back. *)
LEMMA UndoOneKeeps ==
  ASSUME DInv, NEW p \in Process, proc[p].todo # <<>>, Undo(p)
  PROVE  DInv'
<1>1. PICK r \in Row : r = proc[p] /\ Fits(r) /\ Seen(file, r) /\ r.job \in Command
  BY Record
<1>2. r.pc \in {"remove", "restore"} /\ r.todo # <<>>
  BY <1>1 DEF Undo
<1>3. /\ r.job = "compare" /\ Approved(r)
      /\ r.pc = "remove" => r.placed = {"delta"} /\ r.todo = <<"delta">>
      /\ r.pc = "restore" =>
              /\ r.placed = {}
              /\ r.todo \in {<<"delta">>, <<"receipt">>, <<"receipt", "delta">>}
              /\ \A t \in ToSet(r.todo) : r.backup[t] # None
  <2>1. ToSet(<<"delta">>) = {"delta"}
    BY Lists
  <2> QED
    BY <1>1, <1>2, <2>1, Undoing DEF Job
<1>4. PICK t \in {"delta", "receipt"}, rest \in {<<>>, <<"delta">>} :
        /\ t = Head(r.todo) /\ rest = Tail(r.todo) /\ ToSet(r.todo) = ToSet(rest) \union {t}
        /\ ToSet(rest) \subseteq {"delta", "receipt"}
        /\ r.pc = "remove" => t = "delta" /\ rest = <<>>
  <2>1. CASE r.todo = <<"delta">>
    <3>1. Head(r.todo) = "delta" /\ Tail(r.todo) = <<>> /\ ToSet(r.todo) = {"delta"}
      BY <2>1, Lists
    <3> QED
      BY <3>1, Lists
  <2>2. CASE r.todo = <<"receipt">>
    <3>1. Head(r.todo) = "receipt" /\ Tail(r.todo) = <<>> /\ ToSet(r.todo) = {"receipt"}
      BY <2>2, Lists
    <3>2. r.pc # "remove"
      BY <1>3, <2>2
    <3> QED
      BY <3>1, <3>2, Lists
  <2>3. CASE r.todo = <<"receipt", "delta">>
    <3>1. /\ Head(r.todo) = "receipt" /\ Tail(r.todo) = <<"delta">>
          /\ ToSet(r.todo) = {"receipt", "delta"} /\ ToSet(<<"delta">>) = {"delta"}
      BY <2>3, Lists
    <3>2. r.pc # "remove"
      BY <1>3, <2>3
    <3> QED
      BY <3>1, <3>2
  <2> QED
    BY <1>2, <1>3, <2>1, <2>2, <2>3
<1> DEFINE row == [r EXCEPT !.todo = rest]
<1>5. Become(p, row)
  BY <1>1, <1>2, <1>4 DEF Undo
<1>6. /\ row \in Row /\ row.job = r.job /\ row.pc = r.pc /\ row.read = r.read
      /\ row.made = r.made /\ row.backup = r.backup /\ row.placed = r.placed
      /\ row.todo = rest /\ row.raced = r.raced
  BY DEF Row, Todo
<1> HIDE DEF row
<1>7. Fits(row)
  <2>1. Approved(row)
    BY <1>3, <1>6 DEF Approved
  <2>2. Owns(row)
    BY <1>1, <1>2, <1>3, <1>6 DEF Fits, Owns, Ended
  <2>3. Commits(row)
    <3>1. r.pc = "remove" => rest = <<>> /\ ToSet(rest) = {}
      BY <1>4, Lists
    <3> QED
      BY <1>2, <1>3, <1>4, <1>6, <2>1, <3>1 DEF Commits
  <2>4. Reads(row) /\ Finishes(row)
    BY <1>2, <1>6 DEF Reads, Finishes
  <2> QED
    BY <2>2, <2>3, <2>4 DEF Fits
<1>8. Seen(file, row)
  BY <1>2, <1>6 DEF Seen
<1>9. ~Bare(r)
  <2>1. CASE r.pc = "remove"
    BY <1>3, <2>1 DEF Bare
  <2>2. CASE r.pc = "restore"
    BY <1>3, <1>4, <2>2 DEF Bare, NoBackup, Target
  <2> QED
    BY <1>2, <2>1, <2>2
<1>10. Engaged(r) /\ Engaged(row)
  BY <1>2, <1>3, <1>6, <1>9 DEF Engaged, Bare, Window
<1> DEFINE back == IF r.pc = "remove" THEN None ELSE r.backup[t]
<1>11. \/ file' = [file EXCEPT ![t] = back] /\ torn' = (torn \/ Meets(p))
       \/ file' = file /\ torn' = TRUE
  BY <1>1, <1>2, <1>4 DEF Undo, At
<1>12. CASE file' = file /\ torn' = TRUE
  BY <1>5, <1>6, <1>7, <1>8, <1>12, QuietMove
<1>13. CASE file' = [file EXCEPT ![t] = back] /\ torn' = (torn \/ Meets(p))
  <2>1. torn' \in BOOLEAN /\ (torn => torn') /\ (~torn' => ~torn /\ ~Meets(p))
    BY <1>13, ZenonT(30)
  <2>2. back \in Value /\ t \in Target
    BY DEF Row, Value, Target
  <2> HIDE DEF back
  <2>3. /\ Files' /\ Others /\ file'[t] = back
        /\ \A u \in Target \ {t} : file'[u] = file[u]
    BY <1>13, <2>2, TargetSet
  <2>4. ASSUME ~torn' PROVE Alone(p) /\ Holds(file', row)
    <3>1. Alone(p) /\ Holds(file, r)
      BY <1>1, <1>10, <2>1, <2>4, Hold
    <3>2. \A u \in {"delta", "receipt"} : u # t => file'[u] = file[u]
      BY <2>3 DEF Target
    <3>3. Was(file', row, t) = Was(file, r, t)
      <4>1. r.pc = "restore" => r.backup[t] # None
        BY <1>3, <1>4
      <4>2. r.pc = "remove" => t \in r.placed
        BY <1>3, <1>4
      <4> QED
        BY <1>2, <1>6, <4>1, <4>2 DEF Was
    <3>4. \A u \in {"delta", "receipt"} : Was(file', row, u) = Was(file, r, u)
      BY <1>6, <3>2, <3>3 DEF Was
    <3>5. r.pc = "remove" => \A u \in r.placed \ ToSet(rest) : file'[u] = None
      BY <1>3, <1>4, <2>3 DEF back
    <3>6. ASSUME r.pc = "restore", NEW u \in {"delta", "receipt"} \ ToSet(rest),
                 r.backup[u] # None
          PROVE  file'[u] = r.backup[u]
      <4>1. CASE u = t
        BY <2>3, <3>6, <4>1 DEF back
      <4>2. CASE u # t
        BY <1>4, <3>1, <3>2, <3>6, <4>2 DEF Holds
      <4> QED
        BY <4>1, <4>2
    <3> QED
      BY <1>2, <1>6, <3>1, <3>4, <3>5, <3>6 DEF Holds
  <2> QED
    BY <1>5, <1>6, <1>7, <1>8, <1>10, <2>1, <2>3, <2>4, OneMoves
<1> QED
  BY <1>11, <1>12, <1>13

LEMMA UndoKeeps == ASSUME DInv, NEW p \in Process, Undo(p) PROVE DInv'
BY RestoredKeeps, RemovedKeeps, UndoOneKeeps DEF Undo, At

-----------------------------------------------------------------------------
(* The theorems *)

LEMMA StepKeeps == ASSUME DInv, [Next]_vars PROVE DInv'
<1>1. CASE Edit
  BY <1>1, EditKeeps
<1>2. ASSUME NEW p \in Process, Step(p) PROVE DInv'
  BY <1>2, ReadKeeps, PrepareKeeps, ValidateKeeps, BuildKeeps, RefuseKeeps, BackupKeeps,
     BackedUpKeeps, CommitDeliveryKeeps, PlacePairKeeps, CommitMigrationKeeps,
     CommitFailsKeeps, UndoKeeps, CleanKeeps, KillKeeps DEF Step
<1>3. CASE UNCHANGED vars
  BY <1>3 DEF vars, DInv, Files, Tidy, Alone, Holds, Was, Seen
<1> QED
  BY <1>1, <1>2, <1>3 DEF Next

LEMMA Inductive == Spec => []DInv
<1>1. DInv /\ [Next]_vars => DInv'
  BY StepKeeps
<1> QED
  BY Initially, <1>1, PTL DEF Spec

(* Only a compare inside its commit, or after it, has saved anything. *)
LEMMA NoneSaved ==
  ASSUME DInv, NEW p \in Process,
         Job(p) # "compare" \/ proc[p].pc \in Early \union Ended
  PROVE  Saved(p) = {}
<1>1. PICK r \in Row : r = proc[p] /\ Fits(r)
  BY Record
<1>2. r.backup = NoBackup
  BY <1>1 DEF Fits, Owns, Reads, Early, Bare, Job
<1> QED
  BY <1>1, <1>2 DEF Saved, NoBackup

LEMMA PairSaved ==
  ASSUME DInv, NEW p \in Process PROVE Saved(p) \subseteq {"delta", "receipt"}
<1>1. PICK r \in Row : r = proc[p] /\ Fits(r)
  BY Record
<1> QED
  BY <1>1 DEF Saved, Fits, Owns, Target

LEMMA Stages == Stage = Early \union {"clean"} \union Window \union Ended
BY DEF Stage, Early

(* Receipts, pages and the bytes they are about belong together, in every  *)
(* state that another process can see, for any processes, saves, failing   *)
(* calls and kills (archify.mjs).                                          *)
THEOREM PublishedFilesAgree == Spec => []PublishedAgrees
<1>1. ASSUME DInv PROVE TypeOK
  <2>1. ASSUME NEW p \in Process
        PROVE  LET r == proc[p] IN
       /\ r.pc \in Stage
       /\ r.read \in Contents \union {<<>>} /\ r.made \in {<<>>, r.read}
       /\ Saved(p) \union r.placed \subseteq ToSet(TargetsOf(Job(p)))
       /\ Saved(p) # {} => Job(p) = "compare" /\ r.pc \in Window \union {"clean"}
       /\ r.raced \in BOOLEAN
    <3>1. PICK r \in Row : r = proc[p] /\ Fits(r)
      BY <1>1, Record
    <3>2. /\ r.pc \in Stage /\ r.read \in Contents \union {<<>>} /\ r.raced \in BOOLEAN
          /\ r.made \in {<<>>, r.read} /\ r.placed \subseteq ToSet(TargetsOf(r.job))
      BY <3>1 DEF Row, Fits, Owns
    <3>3. Saved(p) # {} => Job(p) = "compare" /\ r.pc \in Window \union {"clean"}
      BY <1>1, <3>1, <3>2, NoneSaved, Stages
    <3>4. Saved(p) \subseteq ToSet(TargetsOf(Job(p)))
      <4>1. CASE Saved(p) = {}
        BY <4>1
      <4>2. CASE Saved(p) # {}
        BY <1>1, <3>3, <4>2, PairSaved, Jobs, Lists
      <4> QED
        BY <4>1, <4>2
    <3> QED
      BY <3>1, <3>2, <3>3, <3>4 DEF Job
  <2> QED
    BY <1>1, <2>1 DEF DInv, Files, TypeOK, Value
<1>2. ASSUME DInv PROVE ReceiptBinds
  <2> SUFFICES ASSUME NEW p \in Process, At(p, "ok")
               PROVE  /\ proc[p].made = proc[p].read
                      /\ Passes(p, proc[p].read)
                      /\ proc[p].raced \/ ToSet(proc[p].read) \subseteq Authored
    BY DEF ReceiptBinds
  <2>1. Approved(proc[p])
    BY <1>2, Record DEF Fits, Finishes, At
  <2> QED
    BY <2>1 DEF Approved, Passes, Job
<1>3. ASSUME DInv PROVE PairAgrees
  <2>1. CASE torn \/ \E p \in Process : Job(p) = "compare" /\ proc[p].pc \in Window
    BY <2>1 DEF PairAgrees
  <2>2. CASE ~torn /\ ~ \E p \in Process : Job(p) = "compare" /\ proc[p].pc \in Window
    <3>1. \A p \in Process : ~Engaged(proc[p])
      BY <2>2 DEF Engaged, Job
    <3>2. Agreed(file["delta"], file["receipt"])
      BY <1>3, <2>2, <3>1 DEF DInv, Tidy
    <3> QED
      BY <3>2 DEF Agreed, PairAgrees
  <2> QED
    BY <2>1, <2>2
<1>4. DInv => PublishedAgrees
  BY <1>1, <1>2, <1>3 DEF PublishedAgrees
<1> QED
  BY <1>4, Inductive, PTL

-----------------------------------------------------------------------------
(* Nothing is lost *)

(* What p has saved is back or replaced when it ends its commit. *)
Kept(p) ==
  ~At(p, "clean") /\ proc'[p].pc = "clean" /\ ~torn' =>
    \A t \in Saved(p) :
      file'[t] = IF t \in proc'[p].placed THEN proc[p].made ELSE proc[p].backup[t]

(* A step of one process leaves the others as they were. *)
LEMMA OthersStay ==
  ASSUME NEW p \in Process, Step(p)
  PROVE  \E row : Become(p, row)
BY DEF Step, Read, PrepareDelivery, PrepareCompare, PrepareMigration, ValidateAuthored,
       BuildDelivery, BuildDelta, BuildMigration, Make, Refuse, Backup, BackedUp,
       CommitDelivery, PlacePair, CommitMigration, Rename, CommitFails, Undo, Clean, Kill

(* The stage after a step. *)
LEMMA Became ==
  ASSUME DInv, NEW p \in Process, NEW row, Become(p, row)
  PROVE  proc'[p] = row /\ \A q \in Process \ {p} : proc'[q] = proc[q]
BY DEF DInv, Become

LEMMA RefuseKept == ASSUME DInv, NEW p \in Process, Refuse(p) PROVE Kept(p)
<1>1. PICK r \in Row : r = proc[p] /\ Fits(r) /\ r.job \in Command
  BY Record
<1>2. CASE r.pc \in Early
  BY <1>1, <1>2, NoneSaved DEF Kept
<1>3. CASE r.pc = "backup" /\ r.todo = TargetsOf(r.job)
  <2>1. r.job = "compare" /\ \A t \in ToSet(r.todo) : r.backup[t] = None
    BY <1>1, <1>3 DEF Fits, Commits, Window
  <2>2. ToSet(r.todo) = {"delta", "receipt"}
    BY <1>3, <2>1, Jobs, Lists
  <2>3. Saved(p) = {}
    BY <1>1, <2>1, <2>2, PairSaved DEF Saved
  <2> QED
    BY <2>3 DEF Kept
<1> QED
  BY <1>1, <1>2, <1>3 DEF Refuse, Early, At, Job

LEMMA PlacePairKept == ASSUME DInv, NEW p \in Process, PlacePair(p) PROVE Kept(p)
<1> SUFFICES ASSUME proc'[p].pc = "clean", ~torn'
             PROVE  \A t \in {"delta", "receipt"} :
                      t \in proc'[p].placed /\ file'[t] = proc[p].made
  BY PairSaved DEF Kept
<1>1. PICK r \in Row : r = proc[p] /\ Fits(r)
  BY Record
<1>2. /\ r.pc = "place" /\ r.job = "compare" /\ Rename(p) /\ ~torn
  BY <1>1 DEF PlacePair, At, Job
<1>3. /\ Approved(r)
      /\ \/ r.todo = <<"delta", "receipt">> /\ r.placed = {}
         \/ r.todo = <<"receipt">> /\ r.placed = {"delta"}
  BY <1>1, <1>2 DEF Fits, Commits, Window
<1>4. r.todo = <<"receipt">> /\ r.placed = {"delta"}
  <2>1. CASE r.todo = <<"delta", "receipt">>
    <3>1. Len(r.todo) # 1
      BY <2>1, Lists
    <3>2. PICK row : Become(p, row) /\ row = [r EXCEPT !.todo = Tail(@),
               !.placed = @ \union {Head(r.todo)}, !.pc = r.pc]
      BY <1>1, <1>2, <3>1 DEF Rename
    <3>3. row.pc = r.pc
      BY <3>2 DEF Row
    <3>4. proc'[p].pc = r.pc
      BY <3>2, <3>3, Became
    <3> QED
      BY <1>2, <3>4
  <2> QED
    BY <1>3, <2>1
<1>5. Head(r.todo) = "receipt" /\ Len(r.todo) = 1
  BY <1>4, Lists
<1>6. /\ file' = [file EXCEPT !["receipt"] = r.made]
      /\ \E row : /\ Become(p, row)
                  /\ row = [r EXCEPT !.todo = Tail(@), !.placed = {"delta", "receipt"},
                                !.pc = "clean"]
  BY <1>1, <1>2, <1>4, <1>5 DEF Rename
<1>7. proc'[p].placed = {"delta", "receipt"}
  <2>1. PICK row : Become(p, row) /\ row.placed = {"delta", "receipt"}
    BY <1>6 DEF Row
  <2> QED
    BY <2>1, Became
<1>8. Engaged(proc[p])
  BY <1>1, <1>2 DEF Engaged, Window
<1>9. file["delta"] = r.made
  BY <1>1, <1>2, <1>4, <1>8, Hold DEF Holds
<1>10. file'["receipt"] = r.made /\ file'["delta"] = file["delta"]
  BY <1>6 DEF DInv, Files, Target
<1> QED
  BY <1>1, <1>7, <1>9, <1>10

LEMMA CommitFailsKept == ASSUME DInv, NEW p \in Process, CommitFails(p) PROVE Kept(p)
<1>1. PICK r \in Row : r = proc[p]
  BY Record
<1>2. CASE Job(p) # "compare"
  BY <1>2, NoneSaved DEF Kept
<1>3. CASE Job(p) = "compare"
  <2>1. PICK row : /\ Become(p, row)
                   /\ row = [r EXCEPT !.pc = "remove", !.todo = LastFirst(r.placed)]
    BY <1>1, <1>3 DEF CommitFails
  <2>2. row.pc = "remove"
    BY <2>1 DEF Row
  <2>3. proc'[p].pc = "remove"
    BY <2>1, <2>2, Became
  <2> QED
    BY <2>3 DEF Kept
<1> QED
  BY <1>2, <1>3

LEMMA UndoKept == ASSUME DInv, NEW p \in Process, Undo(p) PROVE Kept(p)
<1> SUFFICES ASSUME proc'[p].pc = "clean", ~torn', NEW t \in Saved(p)
             PROVE  t \notin proc'[p].placed /\ file'[t] = proc[p].backup[t]
  BY DEF Kept
<1>1. PICK r \in Row : r = proc[p]
  BY Record
<1>2. r.pc \in {"remove", "restore"} /\ r.job = "compare"
  BY <1>1, Undoing DEF Undo, Job
<1>3. CASE r.todo # <<>>
  <2>1. Become(p, [r EXCEPT !.todo = Tail(@)])
    BY <1>1, <1>3 DEF Undo
  <2>2. proc'[p].pc = r.pc
    BY <2>1, Became DEF Row
  <2> QED
    BY <1>2, <2>2
<1>4. CASE r.todo = <<>> /\ r.pc = "remove"
  <2>1. PICK row : /\ Become(p, row)
                   /\ row = [r EXCEPT !.pc = "restore", !.placed = {},
                                !.todo = LastFirst(Saved(p))]
    BY <1>1, <1>4 DEF Undo, At
  <2>2. row.pc = "restore"
    BY <2>1 DEF Row
  <2> QED
    BY <2>1, <2>2, Became
<1>5. CASE r.todo = <<>> /\ r.pc = "restore"
  <2>1. Become(p, [r EXCEPT !.pc = "clean"]) /\ UNCHANGED <<file, torn>>
    BY <1>1, <1>5 DEF Undo, At
  <2>2. r.placed = {}
    BY <1>1, <1>5, Undoing
  <2>3. proc'[p].placed = {}
    BY <2>1, <2>2, Became DEF Row
  <2>4. t \in {"delta", "receipt"} /\ r.backup[t] # None
    BY <1>1, PairSaved DEF Saved
  <2>5. Engaged(proc[p])
    BY <1>1, <1>2, <2>4 DEF Engaged, Bare, NoBackup, Window, Target
  <2>6. Holds(file, r)
    BY <1>1, <2>1, <2>5, Hold
  <2>7. file[t] = r.backup[t]
    BY <1>5, <2>4, <2>6, Lists DEF Holds
  <2> QED
    BY <1>1, <2>1, <2>3, <2>7
<1> QED
  BY <1>2, <1>3, <1>4, <1>5

(* The actions of a compare inside its commit. *)
LEMMA StepKept == ASSUME DInv, NEW p \in Process, Step(p) PROVE Kept(p)
<1>1. CASE Job(p) # "compare" \/ proc[p].pc \in Early \union Ended
  BY <1>1, NoneSaved DEF Kept
<1>2. CASE proc[p].pc = "clean"
  BY <1>2 DEF Kept, At
<1>3. CASE Job(p) = "compare" /\ proc[p].pc \in Window
  <2>1. \/ Refuse(p) \/ Backup(p) \/ BackedUp(p) \/ PlacePair(p) \/ CommitFails(p)
        \/ Undo(p) \/ Kill(p)
    <3>1. ~Read(p) /\ ~PrepareDelivery(p) /\ ~PrepareCompare(p) /\ ~PrepareMigration(p)
          /\ ~ValidateAuthored(p) /\ ~Clean(p)
      BY <1>3 DEF Read, PrepareDelivery, PrepareCompare, PrepareMigration,
                  ValidateAuthored, Clean, At, Window
    <3>2. ~BuildDelivery(p) /\ ~BuildDelta(p) /\ ~BuildMigration(p)
      BY <1>3 DEF BuildDelivery, BuildDelta, BuildMigration, Make, At, Window
    <3>3. ~CommitDelivery(p) /\ ~CommitMigration(p)
      BY <1>3 DEF CommitDelivery, CommitMigration
    <3> QED
      BY <3>1, <3>2, <3>3 DEF Step
  <2>2. PICK r \in Row : r = proc[p] /\ r.job = "compare"
    BY <1>3, Record DEF Job
  <2>3. CASE Backup(p)
    <3>1. PICK row : Become(p, row) /\ \E b : row =
            [r EXCEPT !.todo = Tail(@), !.backup = b]
      BY <2>2, <2>3 DEF Backup
    <3>2. row.pc = r.pc
      BY <3>1 DEF Row
    <3>3. proc'[p].pc = "backup"
      BY <2>2, <2>3, <3>1, <3>2, Became DEF Backup, At
    <3> QED
      BY <3>3 DEF Kept
  <2>4. CASE BackedUp(p)
    <3>1. PICK row : /\ Become(p, row)
                     /\ row = [r EXCEPT !.pc = "place", !.todo = TargetsOf("compare")]
      BY <2>2, <2>4 DEF BackedUp
    <3>2. row.pc = "place"
      BY <3>1 DEF Row
    <3>3. proc'[p].pc = "place"
      BY <3>1, <3>2, Became
    <3> QED
      BY <3>3 DEF Kept
  <2>5. CASE Kill(p)
    <3>1. Become(p, [Start(r.job) EXCEPT !.pc = "killed"])
      BY <2>2, <2>5 DEF Kill, Job
    <3>2. proc'[p].pc = "killed"
      BY <3>1, Became DEF Start
    <3> QED
      BY <3>2 DEF Kept
  <2> QED
    BY <2>1, <2>3, <2>4, <2>5, RefuseKept, PlacePairKept, CommitFailsKept, UndoKept
<1>4. proc[p].pc \in Stage
  BY Record DEF Row
<1> QED
  BY <1>1, <1>2, <1>3, <1>4, Stages

-----------------------------------------------------------------------------
(* What a migration writes *)

Migrated == file'["migrated"] # file["migrated"] => file'["migrated"] = <<file["in"]>>

LEMMA RenameMigrated ==
  ASSUME DInv, NEW p \in Process, Rename(p), NEW t \in Target \ {"migrated"},
         t = Head(proc[p].todo)
  PROVE  Migrated
BY DEF Rename, Migrated, DInv, Files, Target

LEMMA StepMigrated == ASSUME DInv, NEW p \in Process, Step(p) PROVE Migrated
<1>1. PICK r \in Row : r = proc[p] /\ Fits(r) /\ r.job \in Command
  BY Record
<1>2. CASE file' = file
  BY <1>2 DEF Migrated
<1>3. CASE Backup(p)
  <2>1. r.pc = "backup" /\ r.todo # <<>>
    BY <1>1, <1>3 DEF Backup, At
  <2>2. r.todo \in {<<"delta", "receipt">>, <<"receipt">>}
    BY <1>1, <2>1 DEF Fits, Commits
  <2>3. PICK t \in Target \ {"migrated"} : t = Head(r.todo)
    BY <2>2, Lists DEF Target
  <2>4. file' = [file EXCEPT ![t] = None]
    BY <1>1, <1>3, <2>3 DEF Backup
  <2> QED
    BY <2>4 DEF Migrated, DInv, Files, Target
<1>4. CASE CommitDelivery(p)
  <2>1. r.todo = <<"page">> /\ Rename(p)
    BY <1>1, <1>4, Jobs DEF CommitDelivery, At, Job, Fits, Commits, Window
  <2>2. Head(r.todo) = "page" /\ "page" \in Target \ {"migrated"}
    BY <2>1, Lists DEF Target
  <2> QED
    BY <1>1, <2>1, <2>2, RenameMigrated
<1>5. CASE PlacePair(p)
  <2>1. r.pc = "place" /\ r.job = "compare" /\ Rename(p)
    BY <1>1, <1>5 DEF PlacePair, At, Job
  <2>2. r.todo \in {<<"delta", "receipt">>, <<"receipt">>}
    BY <1>1, <2>1 DEF Fits, Commits
  <2>3. PICK t \in Target \ {"migrated"} : t = Head(r.todo)
    BY <2>2, Lists DEF Target
  <2> QED
    BY <1>1, <2>1, <2>3, RenameMigrated
<1>6. CASE CommitMigration(p)
  <2>1. r.pc = "place" /\ r.job = "migrate"
    BY <1>1, <1>6 DEF CommitMigration, At, Job
  <2>2. r.todo = <<"migrated">> /\ Approved(r)
    BY <1>1, <2>1, Jobs DEF Fits, Commits, Window
  <2>3. PICK s \in Source : r.made = <<s>>
    BY <2>1, <2>2 DEF Approved, AllOf
  <2>4. CASE Stable(p)
    <3>1. file["in"] = s
      BY <1>1, <2>3, <2>4 DEF Stable
    <3>2. Head(r.todo) = "migrated"
      BY <2>2, Lists
    <3>3. file' = [file EXCEPT !["migrated"] = r.made]
      BY <1>1, <1>6, <2>4, <3>2 DEF CommitMigration, Rename
    <3> QED
      BY <2>3, <3>1, <3>3 DEF Migrated, DInv, Files, Target
  <2>5. CASE ~Stable(p)
    BY <1>6, <2>5 DEF CommitMigration, Migrated
  <2> QED
    BY <2>4, <2>5
<1>7. CASE Undo(p) /\ r.todo # <<>>
  <2>1. /\ r.pc \in {"remove", "restore"}
        /\ r.todo \in {<<"delta">>, <<"receipt">>, <<"receipt", "delta">>}
    BY <1>1, <1>7, Undoing DEF Undo
  <2>2. PICK t \in Target \ {"migrated"} : t = Head(r.todo)
    BY <2>1, Lists DEF Target
  <2>3. file' = file \/ \E v : file' = [file EXCEPT ![t] = v]
    BY <1>1, <1>7, <2>2 DEF Undo
  <2> QED
    BY <2>3 DEF Migrated, DInv, Files, Target
<1>8. CASE Undo(p) /\ r.todo = <<>>
  BY <1>1, <1>8 DEF Undo, Migrated
<1>9. CASE CommitFails(p) \/ Refuse(p) \/ Clean(p) \/ Kill(p) \/ BackedUp(p)
  BY <1>2, <1>9 DEF CommitFails, Refuse, Clean, Kill, BackedUp
<1>10. CASE \/ Read(p) \/ PrepareDelivery(p) \/ PrepareCompare(p) \/ PrepareMigration(p)
            \/ ValidateAuthored(p)
  BY <1>2, <1>10 DEF Read, PrepareDelivery, PrepareCompare, PrepareMigration,
                     ValidateAuthored
<1>11. CASE BuildDelivery(p) \/ BuildDelta(p) \/ BuildMigration(p)
  BY <1>2, <1>11 DEF BuildDelivery, BuildDelta, BuildMigration, Make
<1> QED
  BY <1>3, <1>4, <1>5, <1>6, <1>7, <1>8, <1>9, <1>10, <1>11 DEF Step

(* A save ends no commit and writes no target. *)
LEMMA EditIsSafe == ASSUME DInv, Edit PROVE Migrated /\ \A p \in Process : Kept(p)
<1>1. Migrated
  BY DEF Edit, Migrated, DInv, Files, Input, Target
<1>2. ASSUME NEW p \in Process PROVE Kept(p)
  <2>1. PICK r \in Row : r = proc[p]
    BY Record
  <2>2. proc'[p].pc = r.pc
    BY <2>1 DEF Edit, Row
  <2> QED
    BY <2>1, <2>2 DEF Kept, At
<1> QED
  BY <1>1, <1>2

(* A commit neither loses a previous file nor writes what the source no    *)
(* longer holds, for any processes, saves, failing calls and kills         *)
(* (commitComparePair, commandMigrate).                                    *)
THEOREM CommitsStaySafe == Spec => CommitsAreSafe
<1> DEFINE AllKept == \A p \in Process : Kept(p)
<1>1. ASSUME DInv, Next PROVE AllKept /\ Migrated
  <2>1. CASE Edit
    BY <1>1, <2>1, EditIsSafe
  <2>2. ASSUME NEW p \in Process, Step(p) PROVE AllKept /\ Migrated
    <3>1. \A q \in Process \ {p} : proc'[q] = proc[q]
      BY <1>1, <2>2, OthersStay, Became
    <3>2. \A q \in Process \ {p} : Kept(q)
      BY <3>1 DEF Kept, At
    <3> QED
      BY <1>1, <2>2, <3>2, StepKept, StepMigrated
  <2> QED
    BY <1>1, <2>1, <2>2 DEF Next
<1>2. DInv /\ [Next]_vars => [AllKept]_vars /\ [Migrated]_vars
  BY <1>1
<1>3. Spec => [][AllKept]_vars /\ [][Migrated]_vars
  <2> HIDE DEF AllKept
  <2> QED
    BY <1>2, Inductive, PTL DEF Spec
<1> QED
  BY <1>3 DEF CommitsAreSafe, NothingLost, MigratesSource, Kept, Migrated

=============================================================================
