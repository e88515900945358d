------------------------------ MODULE Delivery ------------------------------
(***************************************************************************)
(* The commands of the archify skill that publish files (bin/archify.mjs): *)
(*   deliver  reads a source and replaces a page,                          *)
(*   compare  reads two sources and replaces a page and its receipt,       *)
(*   migrate  reads a source and replaces a source of a newer schema.      *)
(* Each works in a staging directory of its own and commits by rename.     *)
(* Commands are processes, which run while an editor saves the sources,    *)
(* calls of the file system fail, and processes are killed.                *)
(*                                                                         *)
(* An action is one read or one rename that others can interleave with.    *)
(* The renderer and the checker read and write staged files only and are   *)
(* one step, except for compare's validation of the files as authored.     *)
(***************************************************************************)
EXTENDS Naturals, SequencesExt

(* A definition named XSlip is a plausible mistake in the code of X; the   *)
(* specification never uses it.                                            *)

CONSTANTS
  Process,   \* processes, each of which runs one command, any of the three
  Source,    \* what a source file may hold
  Authored,  \* the sources that renderer and checker accept as authored
  Canonical, \* those that they accept with their collections in order
  None,      \* no file
  Old,       \* what a target holds before any of this
  MaxEdits,  \* bound: saves
  MaxFaults, \* bound: calls of the file system that fail
  MaxCrashes \* bound: processes that are killed

ASSUME AcceptedAreSources ==
  Authored \subseteq Canonical /\ Canonical \subseteq Source

Input == {"in", "head"}
Target == {"page", "delta", "receipt", "migrated"}

Command == {"deliver", "compare", "migrate"}
InputsOf(job) == IF job = "compare" THEN <<"in", "head">> ELSE <<"in">>
TargetsOf(job) == CASE job = "deliver" -> <<"page">>
                    [] job = "compare" -> <<"delta", "receipt">>
                    [] job = "migrate" -> <<"migrated">>

VARIABLES
  file,  \* file[n]: a source; or what a target was made of
  proc,  \* proc[p]
  torn,  \* history: a pair's commit was killed, met another, or could not be
         \* undone
  used   \* what the bounds count

vars == <<file, proc, torn, used>>

NoBackup == [t \in Target |-> None]

(* read: the sources in memory; made: what the candidate is made of;       *)
(* backup: previous targets in the staging directory; placed: candidates   *)
(* renamed to their targets; todo: what the current loop has still to do;  *)
(* raced: a source was saved between its reading and its validation.       *)
Start(job) ==
        [job |-> job, pc |-> "read", read |-> <<>>, made |-> <<>>,
         backup |-> NoBackup, placed |-> {}, todo |-> <<>>, raced |-> FALSE]

Ended == {"ok", "failed", "killed"}
Window == {"backup", "place", "remove", "restore"}
Stage == {"read", "prepare", "authored", "build", "clean"} \union Window \union Ended

Init ==
  /\ file \in [Input \union Target -> Source \union {None, Old}]
  /\ \A n \in Input : file[n] \in Source
  /\ \A n \in Target : file[n] \in {None, Old}
  /\ \E job \in [Process -> Command] : proc = [p \in Process |-> Start(job[p])]
  /\ torn = FALSE
  /\ used = [edits |-> 0, faults |-> 0, crashes |-> 0]

Count(what, bound) ==
  used[what] < bound /\ used' = [used EXCEPT ![what] = @ + 1]

At(p, pc) == proc[p].pc = pc
Become(p, record) == proc' = [proc EXCEPT ![p] = record]
Job(p) == proc[p].job

(* Another compare is committing. *)
Meets(p) == \E q \in Process \ {p} : Job(q) = "compare" /\ proc[q].pc \in Window

-----------------------------------------------------------------------------
(* Up to the candidate *)

(* commandDeliver, commandCompare, commandMigrate: read the sources. *)
Read(p) ==
  LET read == Append(proc[p].read, file[InputsOf(Job(p))[Len(proc[p].read) + 1]])
  IN
  /\ At(p, "read")
  /\ Become(p, [proc[p] EXCEPT !.read = read,
       !.pc = IF Len(read) = Len(InputsOf(Job(p))) THEN "prepare" ELSE "read"])
  /\ UNCHANGED <<file, torn, used>>

(* The paths are resolved, the staging directory is made, and what was     *)
(* read is frozen there.                                                   *)
PrepareDelivery(p) ==
  /\ At(p, "prepare") /\ Job(p) = "deliver"
  /\ Become(p, [proc[p] EXCEPT !.pc = "build"])
  /\ UNCHANGED <<file, torn, used>>

(* compare goes back to the files to validate them as authored. *)
PrepareCompare(p) ==
  /\ At(p, "prepare") /\ Job(p) = "compare"
  /\ Become(p, [proc[p] EXCEPT !.pc = "authored", !.todo = InputsOf("compare")])
  /\ UNCHANGED <<file, torn, used>>

(* migrate checks that its two paths are two files. *)
PrepareMigration(p) ==
  /\ At(p, "prepare") /\ Job(p) = "migrate"
  /\ Become(p, [proc[p] EXCEPT !.pc = "build"])
  /\ UNCHANGED <<file, torn, used>>

(* renderValidatedArchitecture of the files as they are now *)
ValidateAuthored(p) ==
  /\ At(p, "authored")
  /\ Become(p, IF file[Head(proc[p].todo)] \notin Authored
               THEN [proc[p] EXCEPT !.pc = "clean", !.todo = <<>>]
               ELSE [proc[p] EXCEPT !.todo = Tail(@),
                       !.pc = IF Len(proc[p].todo) = 1 THEN "build" ELSE @])
  /\ UNCHANGED <<file, torn, used>>

MaterialSlip(p) == [i \in DOMAIN proc[p].read |-> file[InputsOf(Job(p))[i]]]

(* What is rendered: the snapshot, or the canonical form of what was read. *)
Material(p) == proc[p].read

(* The renderer and the checker accept the candidate. *)
Passes(p, made) ==
  \A i \in DOMAIN made :
    made[i] \in IF Job(p) = "compare" THEN Canonical ELSE Authored

(* The candidate is made and checked, or the command gives up. *)
Make(p, next) ==
  /\ At(p, "build")
  /\ Become(p, IF Passes(p, Material(p))
               THEN [proc[p] EXCEPT !.made = Material(p),
                       !.todo = TargetsOf(Job(p)), !.pc = next]
               ELSE [proc[p] EXCEPT !.pc = "clean"])
  /\ UNCHANGED <<file, torn, used>>

(* Renderer, checker and receipt of a delivery. *)
BuildDelivery(p) == Job(p) = "deliver" /\ Make(p, "place")

(* Both sides in canonical order, the comparison, the page, the receipt. *)
BuildDelta(p) == Job(p) = "compare" /\ Make(p, "backup")

(* The migrated document, rendered and checked. *)
BuildMigration(p) == Job(p) = "migrate" /\ Make(p, "place")

(* A path is refused, a directory cannot be made or a target is no file,   *)
(* before a target is touched.                                             *)
Refuse(p) ==
  /\ \/ proc[p].pc \in {"read", "prepare", "authored", "build"}
     \/ At(p, "backup") /\ proc[p].todo = TargetsOf(Job(p))
  /\ Count("faults", MaxFaults)
  /\ Become(p, [proc[p] EXCEPT !.pc = "clean", !.todo = <<>>])
  /\ UNCHANGED <<file, torn>>

-----------------------------------------------------------------------------
(* The commit *)

(* commitComparePair: a previous target moves into the staging directory;  *)
(* where there is none, nothing moves.                                     *)
Backup(p) ==
  LET t == Head(proc[p].todo) IN
  /\ At(p, "backup") /\ proc[p].todo # <<>>
  /\ Become(p, [proc[p] EXCEPT !.todo = Tail(@), !.backup[t] = file[t]])
  /\ file' = [file EXCEPT ![t] = None]
  /\ torn' = (torn \/ Meets(p))
  /\ UNCHANGED used

BackedUp(p) ==
  /\ At(p, "backup") /\ proc[p].todo = <<>>
  /\ Become(p, [proc[p] EXCEPT !.pc = "place", !.todo = TargetsOf("compare")])
  /\ UNCHANGED <<file, torn, used>>

(* A candidate is renamed to its target. *)
Rename(p) ==
  LET t == Head(proc[p].todo) IN
  /\ file' = [file EXCEPT ![t] = proc[p].made]
  /\ Become(p, [proc[p] EXCEPT !.todo = Tail(@), !.placed = @ \union {t},
          !.pc = IF Len(proc[p].todo) = 1 THEN "clean" ELSE @])
  /\ UNCHANGED used

CommitDelivery(p) ==
  /\ At(p, "place") /\ Job(p) = "deliver"
  /\ Rename(p)
  /\ UNCHANGED torn

PlacePair(p) ==
  /\ At(p, "place") /\ Job(p) = "compare"
  /\ Rename(p)
  /\ torn' = (torn \/ Meets(p))

StableSlip(p) == TRUE

(* migrate commits only what was made of the source as it still is.  The   *)
(* second reading and the rename after it are one step here.               *)
Stable(p) == file["in"] = proc[p].made[1]

CommitMigration(p) ==
  /\ At(p, "place") /\ Job(p) = "migrate"
  /\ IF Stable(p)
     THEN Rename(p)
     ELSE /\ Become(p, [proc[p] EXCEPT !.pc = "clean", !.todo = <<>>])
          /\ UNCHANGED <<file, used>>
  /\ UNCHANGED torn

(* What of compare's targets is in S, in the reverse order. *)
LastFirst(S) ==
  (IF "receipt" \in S THEN <<"receipt">> ELSE <<>>)
    \o (IF "delta" \in S THEN <<"delta">> ELSE <<>>)

(* A rename fails.  compare undoes what it did, in the reverse order.      *)
CommitFails(p) ==
  /\ proc[p].pc \in {"backup", "place"} /\ proc[p].todo # <<>>
  /\ Count("faults", MaxFaults)
  /\ Become(p,
       IF Job(p) = "compare"
       THEN [proc[p] EXCEPT !.pc = "remove",
               !.todo = LastFirst(proc[p].placed)]
       ELSE [proc[p] EXCEPT !.pc = "clean", !.todo = <<>>])
  /\ UNCHANGED <<file, torn>>

(* The previous targets in the staging directory, which are moved back     *)
(* once the placed candidates are removed.                                 *)
Saved(p) == {t \in Target : proc[p].backup[t] # None}

Undo(p) ==
  /\ proc[p].pc \in {"remove", "restore"}
  /\ IF proc[p].todo = <<>>
     THEN /\ Become(p, IF At(p, "restore") THEN [proc[p] EXCEPT !.pc = "clean"]
               ELSE [proc[p] EXCEPT !.pc = "restore", !.placed = {},
                       !.todo = LastFirst(Saved(p))])
          /\ UNCHANGED <<file, torn, used>>
     ELSE LET t == Head(proc[p].todo) IN
          /\ Become(p, [proc[p] EXCEPT !.todo = Tail(@)])
          /\ \/ /\ file' = [file EXCEPT ![t] =
                     IF At(p, "remove") THEN None ELSE proc[p].backup[t]]
                /\ torn' = (torn \/ Meets(p))
                /\ UNCHANGED used
             \/ /\ Count("faults", MaxFaults)
                /\ torn' = TRUE
                /\ UNCHANGED file

(* finally: the staging directory is removed with all that is in it. *)
Clean(p) ==
  /\ At(p, "clean")
  /\ Become(p, [proc[p] EXCEPT !.backup = NoBackup,
       !.pc = IF proc[p].placed = {} THEN "failed" ELSE "ok"])
  /\ UNCHANGED <<file, torn, used>>

-----------------------------------------------------------------------------
Kill(p) ==
  /\ proc[p].pc \notin Ended
  /\ Count("crashes", MaxCrashes)
  /\ Become(p, [Start(Job(p)) EXCEPT !.pc = "killed"])
  /\ torn' = (torn \/ (Job(p) = "compare" /\ proc[p].pc \in Window))
  /\ UNCHANGED file

Edit ==
  /\ Count("edits", MaxEdits)
  /\ \E n \in Input, s \in Source :
       s # file[n] /\ file' = [file EXCEPT ![n] = s]
  /\ proc' = [p \in Process |-> [proc[p] EXCEPT !.raced =
       @ \/ proc[p].pc \in {"read", "prepare", "authored"}]]
  /\ UNCHANGED torn

Step(p) ==
  \/ Read(p) \/ PrepareDelivery(p) \/ PrepareCompare(p) \/ PrepareMigration(p)
  \/ ValidateAuthored(p) \/ BuildDelivery(p) \/ BuildDelta(p)
  \/ BuildMigration(p) \/ Refuse(p)
  \/ Backup(p) \/ BackedUp(p) \/ CommitDelivery(p) \/ PlacePair(p)
  \/ CommitMigration(p) \/ CommitFails(p) \/ Undo(p) \/ Clean(p) \/ Kill(p)

Next == Edit \/ \E p \in Process : Step(p)

Spec == Init /\ [][Next]_vars

-----------------------------------------------------------------------------
(* Properties *)

Contents == {<<s>> : s \in Source} \union (Source \X Source)

(* Every variable keeps its shape; only a compare has backups, and only of *)
(* its own targets.                                                        *)
TypeOK ==
  /\ \A n \in Input : file[n] \in Source
  /\ \A n \in Target : file[n] \in Contents \union {None, Old}
  /\ \A p \in Process :
       LET r == proc[p] IN
       /\ r.pc \in Stage
       /\ r.read \in Contents \union {<<>>} /\ r.made \in {<<>>, r.read}
       /\ Saved(p) \union r.placed \subseteq ToSet(TargetsOf(Job(p)))
       /\ Saved(p) # {} => Job(p) = "compare" /\ r.pc \in Window \union {"clean"}
       /\ r.raced \in BOOLEAN
  /\ torn \in BOOLEAN

(* The receipt of a success is about the bytes that were rendered and that *)
(* passed, whatever was saved meanwhile.  What compare publishes is also   *)
(* accepted as authored, unless a source was saved before compare looked   *)
(* at the file again.                                                      *)
ReceiptBinds ==
  \A p \in Process :
    At(p, "ok") => /\ proc[p].made = proc[p].read
                   /\ Passes(p, proc[p].read)
                   /\ proc[p].raced \/ ToSet(proc[p].read) \subseteq Authored

(* Outside its commit, compare's page and receipt are those of one         *)
(* comparison, or both the ones from before.                               *)
PairAgrees ==
  torn \/ (\E p \in Process : Job(p) = "compare" /\ proc[p].pc \in Window)
  \/ file["delta"] = file["receipt"]
  \/ {file["delta"], file["receipt"]} \subseteq {None, Old}

(* Receipts, pages and the bytes they are about belong together, in every  *)
(* state that another process can see (archify.mjs).                       *)
PublishedAgrees ==
  /\ TypeOK
  /\ ReceiptBinds
  /\ PairAgrees

(* Before the staging directory, and the previous files in it, is removed, *)
(* each of those files is back or replaced.                                *)
NothingLost ==
  [][\A p \in Process :
       ~At(p, "clean") /\ proc'[p].pc = "clean" /\ ~torn'
       => \A t \in Saved(p) :
            file'[t] = IF t \in proc'[p].placed THEN proc[p].made
                                               ELSE proc[p].backup[t]]_vars

(* A migrated file is made of the source as it is when it is read again    *)
(* for the commit, not only of the one read first.                         *)
MigratesSource ==
  [][file'["migrated"] # file["migrated"]
     => file'["migrated"] = <<file["in"]>>]_vars

(* A commit neither loses a file nor writes what the source no longer      *)
(* holds (archify.mjs).                                                    *)
CommitsAreSafe ==
  /\ NothingLost
  /\ MigratesSource
=============================================================================
