------------------------------ MODULE ListViews ------------------------------
(***************************************************************************)
(* The lists of the web client: workspaces (App.tsx), and the              *)
(* conversations, attachments, documents, memories and skills of a         *)
(* workspace (WorkspaceView.tsx).  Each is a copy of a list the server     *)
(* holds, filled by one request and patched with the answers of others,    *)
(* which may arrive in any order.  One list stands for all: a list of the  *)
(* client has some of the handlers, and those without a selection ignore   *)
(* selected.  The server's list also changes without them (Elsewhere), and *)
(* the client learns of it from later answers only.  An item is its        *)
(* identity and the number of its changes; the identities are 1, 2, ... in *)
(* the order of creation.                                                  *)
(***************************************************************************)
EXTENDS Integers, Sequences, FiniteSets

CONSTANTS
  Items,     \* identities of items, the unused ones included
  Listed,    \* those the server has when the view opens
  Handlers,  \* the handlers of this list
  Nothing,
  MaxOps, MaxPolls, MaxLost, MaxElsewhere

ASSUME ListViewsAssumption ==
  /\ IsFiniteSet(Items) /\ Items = 1 .. Cardinality(Items)
  /\ Listed \subseteq Items
  /\ Nothing # "gone" /\ Nothing \notin Items /\ Nothing \notin [id : Items, ver : Nat]
  /\ Handlers \subseteq {"create", "update", "remove", "resolve", "toggle", "upload"}
  /\ MaxOps \in Nat \ {0} /\ MaxPolls \in Nat /\ {MaxLost, MaxElsewhere} \subseteq Nat

VARIABLES
  stored,   \* the server: changes made to an item, 0 before it is created, -1
            \* when it is removed
  told,     \* the same, as the last answer about an item gave it
  unseen,   \* items that changed elsewhere since
  others,   \* changes made elsewhere
  cache,    \* the list in the client
  selected, \* the copy of the selected item, or Nothing
  op,       \* the handlers started so far
  overlap,  \* two of them met: a load and another, or two for one item
  lost      \* answers that never came

lvars == <<stored, told, unseen, others, cache, selected, op, overlap, lost>>

Ops == 1 .. MaxOps
Entry(i) == [id |-> i, ver |-> stored[i]]
Present  == {i \in Items : stored[i] > 0}
Known    == {i \in Items : told[i] > 0}
NoOp     == [kind |-> Nothing, id |-> Nothing, at |-> "none", got |-> Nothing, polls |-> 0]

Active(t) == op[t].at \notin {"none", "done"}
Quiet     == \A t \in Ops : ~Active(t)

\* The numbers of a set, in their order.
Ordered(S) ==
  [n \in 1 .. Cardinality(S) |-> CHOOSE i \in S : Cardinality({j \in S : j < i}) = n - 1]

\* The list the server returns, in the order of the identities.
Answer == [n \in 1 .. Cardinality(Present) |-> Entry(Ordered(Present)[n])]

\* A list is loaded when it is opened, but for the attachments: they start empty.
ListInit ==
  /\ stored = [i \in Items |-> IF i \in Listed THEN 1 ELSE 0]
  /\ told = [i \in Items |-> 0]
  /\ unseen = Listed
  /\ others = 0
  /\ cache = <<>>
  /\ selected = Nothing
  /\ \E opening \in {NoOp, [NoOp EXCEPT !.kind = "load", !.at = "reload"]} :
       op = [[t \in Ops |-> NoOp] EXCEPT ![1] = opening]
  /\ overlap = FALSE
  /\ lost = 0

(***************************************************************************)
(* What a handler does to the copy.                                        *)
(***************************************************************************)
\* current.map((item) => item.id === updated.id ? updated : item)
Replaced(list, item) ==
  [k \in DOMAIN list |-> IF list[k].id = item.id THEN item ELSE list[k]]

\* Plausible mistake (used by no action): === for !==.
WithoutSlip(list, i) ==
  LET kept == {k \in DOMAIN list : list[k].id = i}
  IN [n \in 1 .. Cardinality(kept) |-> list[Ordered(kept)[n]]]

\* current.filter((item) => item.id !== selected.id): of the click.
Without(list, i) ==
  LET kept == {k \in DOMAIN list : list[k].id # i}
  IN [n \in 1 .. Cardinality(kept) |-> list[Ordered(kept)[n]]]

(***************************************************************************)
(* The user.                                                               *)
(***************************************************************************)
Shown == {cache[k].id : k \in DOMAIN cache}

\* Two handlers meet when one of them loads the list or they are about one
\* item; resolve and toggle load it in the end.
Meets(kind, i) ==
  \E t \in Ops : /\ Active(t)
                 /\ \/ {kind, op[t].kind} \cap {"load", "resolve", "toggle"} # {}
                    \/ i # Nothing /\ op[t].id = i

\* Nothing more is started once two have met.
Begin(kind, i) ==
  /\ ~overlap
  /\ \E t \in Ops :
       /\ op[t].at = "none" /\ \A u \in 1 .. t - 1 : op[u].at # "none"
       /\ op' = [op EXCEPT ![t] = [NoOp EXCEPT !.kind = kind, !.id = i,
                                     !.at = IF kind = "load" THEN "reload" ELSE "request"]]
  /\ overlap' = (overlap \/ Meets(kind, i))
  /\ UNCHANGED <<stored, told, unseen, others, cache, selected, lost>>

\* The view is opened again, or its button is pressed.
Load   == op[1].kind = "load" /\ Begin("load", Nothing)
Create == \E kind \in {"create", "upload"} \cap Handlers : Begin(kind, Nothing)
Change == \E kind \in Handlers \cap {"update", "remove", "resolve", "toggle"}, i \in Shown :
            Begin(kind, i)

Pick ==
  /\ \E k \in DOMAIN cache : cache[k] # selected /\ selected' = cache[k]
  /\ UNCHANGED <<stored, told, unseen, others, cache, op, overlap, lost>>

(***************************************************************************)
(* The server.                                                             *)
(***************************************************************************)
Got(t, value) == op' = [op EXCEPT ![t].got = value]

\* What the client knows of item i is what the server holds after the step.
Tell(i) == told' = [told EXCEPT ![i] = stored'[i]] /\ unseen' = unseen \ {i}

\* The whole list: only a resolved conflict keeps the answer of its request.
TellAll(t) ==
  LET kept == IF op[t].kind = "resolve" THEN {op[t].id} ELSE {}
  IN /\ told' = [i \in Items |-> IF i \in kept THEN told[i] ELSE stored[i]]
     /\ unseen' = unseen \cap kept

\* It creates, changes or removes the item, or returns the list.  An item that
\* is gone is an error (Refused).
ServeList(t) ==
  /\ op[t].got = Nothing
  /\ \/ op[t].at = "reload" /\ Got(t, Answer) /\ TellAll(t) /\ UNCHANGED stored
     \/ /\ op[t].at = "request" /\ op[t].kind \in {"create", "upload"}
        /\ \E i \in Items :
             /\ stored[i] = 0 /\ \A j \in 1 .. i - 1 : stored[j] # 0
             /\ stored' = [stored EXCEPT ![i] = 1]
             /\ Tell(i)
             /\ op' = [op EXCEPT ![t].got = [id |-> i, ver |-> 1], ![t].id = i]
     \/ /\ op[t].at = "request" /\ op[t].kind \in {"update", "resolve", "toggle"}
        /\ op[t].id \in Present
        /\ stored' = [stored EXCEPT ![op[t].id] = @ + 1]
        /\ Tell(op[t].id)
        /\ Got(t, [id |-> op[t].id, ver |-> stored[op[t].id] + 1])
     \/ /\ op[t].at = "request" /\ op[t].kind = "remove" /\ op[t].id \in Present
        /\ stored' = [stored EXCEPT ![op[t].id] = -1]
        /\ Tell(op[t].id)
        /\ Got(t, "gone")
     \/ op[t].at = "poll" /\ Got(t, Entry(op[t].id)) /\ UNCHANGED stored /\ Tell(op[t].id)
  /\ UNCHANGED <<others, cache, selected, overlap, lost>>

\* The parser is done with an attachment.
Parsed ==
  /\ \E t \in Ops : /\ op[t].kind = "upload" /\ op[t].at = "poll"
                    /\ stored[op[t].id] = 1
                    /\ stored' = [stored EXCEPT ![op[t].id] = 2]
  /\ UNCHANGED <<told, unseen, others, cache, selected, op, overlap, lost>>

\* The list changes without its handlers: a question gives its conversation a
\* title and leaves memories behind, a promoted attachment becomes a document.
\* Several changes the client does not hear of are one.
Elsewhere ==
  /\ others < MaxElsewhere /\ others' = others + 1
  /\ \E i \in Items \ unseen :
       /\ \/ i \in Present
          \/ stored[i] = 0 /\ \A j \in 1 .. i - 1 : stored[j] # 0
       /\ stored' = [stored EXCEPT ![i] = @ + 1]
       /\ unseen' = unseen \cup {i}
  /\ UNCHANGED <<told, cache, selected, op, overlap, lost>>

(***************************************************************************)
(* The answers.                                                            *)
(***************************************************************************)
End(t) == op' = [op EXCEPT ![t] = [NoOp EXCEPT !.kind = op[t].kind, !.at = "done"]]

\* The list is replaced; a resolved conflict is patched into it.
Loaded(t) ==
  /\ op[t].at = "reload" /\ op[t].got # Nothing
  /\ cache' = IF op[t].kind = "resolve"
              THEN Replaced(op[t].got, [id |-> op[t].id, ver |-> op[t].polls])
              ELSE op[t].got
  /\ End(t)
  /\ UNCHANGED <<stored, told, unseen, others, selected, overlap, lost>>

\* A new item goes to the end and is selected.
Created(t) ==
  /\ op[t].kind = "create" /\ op[t].at = "request" /\ op[t].got # Nothing
  /\ cache' = Append(cache, op[t].got)
  /\ selected' = op[t].got
  /\ End(t)
  /\ UNCHANGED <<stored, told, unseen, others, overlap, lost>>

\* The changed item replaces the old one in the list and in the selection.
Updated(t) ==
  /\ op[t].kind = "update" /\ op[t].at = "request" /\ op[t].got # Nothing
  /\ cache' = Replaced(cache, op[t].got)
  /\ selected' = op[t].got
  /\ End(t)
  /\ UNCHANGED <<stored, told, unseen, others, overlap, lost>>

Removed(t) ==
  /\ op[t].kind = "remove" /\ op[t].at = "request" /\ op[t].got # Nothing
  /\ cache' = Without(cache, op[t].id)
  /\ selected' = Nothing
  /\ End(t)
  /\ UNCHANGED <<stored, told, unseen, others, overlap, lost>>

\* The answer is kept while the list is loaded again.
Reload(t) ==
  /\ op[t].kind \in {"resolve", "toggle"} /\ op[t].at = "request" /\ op[t].got # Nothing
  /\ op' = [op EXCEPT ![t].at = "reload", ![t].got = Nothing, ![t].polls = op[t].got.ver]
  /\ UNCHANGED <<stored, told, unseen, others, cache, selected, overlap, lost>>

\* The upload is accepted and shown while it is parsed.
Accepted(t) ==
  /\ op[t].kind = "upload" /\ op[t].at = "request" /\ op[t].got # Nothing
  /\ cache' = Append(cache, op[t].got)
  /\ op' = [op EXCEPT ![t].at = "poll", ![t].got = Nothing]
  /\ UNCHANGED <<stored, told, unseen, others, selected, overlap, lost>>

Ready(item) == item.ver > 1

\* It is polled until it is parsed, or MaxPolls times.
Polled(t) ==
  /\ op[t].at = "poll" /\ op[t].got # Nothing
  /\ IF Ready(op[t].got)
     THEN cache' = Replaced(cache, op[t].got) /\ End(t)
     ELSE /\ UNCHANGED cache
          /\ IF op[t].polls + 1 < MaxPolls
             THEN op' = [op EXCEPT ![t].got = Nothing, ![t].polls = @ + 1]
             ELSE End(t)
  /\ lost' = IF ~Ready(op[t].got) /\ op[t].polls + 1 >= MaxPolls THEN lost + 1 ELSE lost
  /\ UNCHANGED <<stored, told, unseen, others, selected, overlap>>

\* The server refuses: the copy stays as it is.
RefusedOp(t) ==
  /\ op[t].at = "request" /\ op[t].got = Nothing
  /\ End(t)
  /\ UNCHANGED <<stored, told, unseen, others, cache, selected, overlap, lost>>

\* No answer to a request that may have been handled.
Lost(t) ==
  /\ Active(t) /\ lost < MaxLost
  /\ lost' = lost + 1
  /\ End(t)
  /\ UNCHANGED <<stored, told, unseen, others, cache, selected, overlap>>

ListNext ==
  \/ Load \/ Create \/ Change \/ Pick \/ Parsed \/ Elsewhere
  \/ \E t \in Ops : \/ ServeList(t) \/ Loaded(t) \/ Created(t) \/ Updated(t) \/ Removed(t)
                    \/ Reload(t) \/ Accepted(t) \/ Polled(t) \/ RefusedOp(t) \/ Lost(t)

ListSpec == ListInit /\ [][ListNext]_lvars

(***************************************************************************)
(* Properties.                                                             *)
(***************************************************************************)
\* When all answers have come the copy shows of every item what the server said
\* last, without duplicates, what is selected is in it, and it is behind the
\* server only where the list changed elsewhere: handlers for different items
\* patch the copy, and do not overwrite it with the list they saw.  A load under
\* way, and two handlers of one item, are excepted: the answer that arrives last
\* wins there, whatever it says.
CacheAgrees ==
  (Quiet /\ ~overlap /\ lost = 0) =>
    /\ \A i \in Known : \E k \in DOMAIN cache : cache[k] = [id |-> i, ver |-> told[i]]
    /\ Len(cache) = Cardinality(Known)
    /\ selected # Nothing => selected.id \in Known
    /\ \A i \in Items \ unseen : told[i] = stored[i]
==============================================================================
