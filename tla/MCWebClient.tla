---------------------------- MODULE MCWebClient ----------------------------
(* The two parts of the web client side by side: a behaviour is one of the  *)
(* conversation view or one of a list, chosen in the initial state.         *)
EXTENDS RunView, ListViews

CONSTANTS a, b

VARIABLE part

MCConvs == {a, b}

allVars == <<vars, lvars, part>>

MCInit == Init /\ ListInit /\ part \in {"conversation", "list"}

ListRest == Quiet /\ UNCHANGED lvars

MCNext ==
  /\ part' = part
  /\ \/ part = "conversation" /\ Next /\ UNCHANGED lvars
     \/ part = "list" /\ (ListNext \/ ListRest) /\ UNCHANGED vars

MCFairness ==
  /\ WF_allVars(part = "conversation" /\ ServerStep /\ UNCHANGED <<lvars, part>>)
  /\ WF_allVars(part = "conversation" /\ (\E t \in Tasks : Client(t))
                   /\ UNCHANGED <<lvars, part>>)

MCSpec == MCInit /\ [][MCNext]_allVars /\ MCFairness
============================================================================
