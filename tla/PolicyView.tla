----------------------------- MODULE PolicyView -----------------------------
(***************************************************************************)
(* What the authorizer promises, without locks, caches, channels, queries  *)
(* or messages: every serving instance answers from data that is at least  *)
(* as recent as every change the instance has acknowledged, its data only  *)
(* moves forward, and an instance that starts again starts from data at    *)
(* least as recent as what it acknowledged in its earlier lives.           *)
(***************************************************************************)
EXTENDS Naturals

CONSTANTS Instance, MaxVersion

VARIABLES
    head,      \* version of the committed policy
    serving,   \* the instances that answer requests
    view,      \* [i] version of the oldest data an answer may be based on
    promised   \* [i] latest change the instance acknowledged

viewVars == <<head, serving, view, promised>>

ViewInit ==
    /\ head = 0
    /\ serving = {}
    /\ view = [i \in Instance |-> 0]
    /\ promised = [i \in Instance |-> 0]

CommitChange ==
    /\ head < MaxVersion
    /\ head' = head + 1
    /\ UNCHANGED <<serving, view, promised>>

\* A reload may land anywhere between the present view and the head.
Refresh(i) ==
    /\ i \in serving
    /\ \E v \in view[i]..head : view' = [view EXCEPT ![i] = v]
    /\ UNCHANGED <<head, serving, promised>>

Acknowledge(i) ==
    /\ i \in serving
    /\ \E v \in promised[i]..view[i] : promised' = [promised EXCEPT ![i] = v]
    /\ UNCHANGED <<head, serving, view>>

Start(i) ==
    /\ i \notin serving
    /\ serving' = serving \cup {i}
    /\ \E v \in promised[i]..head : view' = [view EXCEPT ![i] = v]
    /\ UNCHANGED <<head, promised>>

Stop(i) ==
    /\ i \in serving
    /\ serving' = serving \ {i}
    /\ view' = [view EXCEPT ![i] = 0]
    /\ UNCHANGED <<head, promised>>

ViewNext ==
    \/ CommitChange
    \/ \E i \in Instance : Refresh(i) \/ Acknowledge(i) \/ Start(i) \/ Stop(i)

ViewSpec == ViewInit /\ [][ViewNext]_viewVars
=============================================================================
