-------------------------- MODULE ZonePublication ---------------------------
(***************************************************************************)
(* What a commit promises to the zones, without the ConfigMap and without  *)
(* the steps: what CoreDNS is given to serve for a zone changes only from  *)
(* what it was to what the running commit wants, at once, and each zone on *)
(* its own; a file is never named without content; a commit that reports   *)
(* success has moved every zone; a commit overtaken by somebody else's     *)
(* edit of the ConfigMap publishes nothing more.                           *)
(***************************************************************************)
EXTENDS FiniteSets

CONSTANTS Zones, Contents, NoFile

VARIABLES view,    \* what is served for each zone
          target,  \* what the running commit wants
          state    \* the commit's progress

vars == <<view, target, state>>

Unserved == [kind |-> "none", body |-> NoFile]
Views == {Unserved} \cup [kind : {"file", "template"}, body : Contents]
Nothing == [z \in Zones |-> Unserved]

Init == view = Nothing /\ target = Nothing /\ state = "idle"

\* A reconcile decides what each zone should become.
Begin ==
  /\ state # "busy"
  /\ target' \in [Zones -> Views]
  /\ state' = "busy"
  /\ UNCHANGED view

\* Some zones, possibly all, move to what is wanted.
Publish ==
  /\ state = "busy"
  /\ \E S \in SUBSET Zones :
       view' = [z \in Zones |-> IF z \in S THEN target[z] ELSE view[z]]
  /\ UNCHANGED <<target, state>>

\* The last step of a commit: every zone has moved.
Finish ==
  /\ state = "busy"
  /\ view = target
  /\ state' = "done"
  /\ UNCHANGED <<view, target>>

\* Error, crash or conflict: whatever was published stays.
GiveUp ==
  /\ state' = "failed"
  /\ target' = Nothing
  /\ UNCHANGED view

\* Somebody edits the ConfigMap, at worst removing the managed block.
Overtake ==
  /\ view' \in {view, Nothing}
  /\ state' = IF state \in {"busy", "done"} THEN "overtaken" ELSE state
  /\ UNCHANGED target

Next == Begin \/ Publish \/ Finish \/ GiveUp \/ Overtake

Spec == Init /\ [][Next]_vars
=============================================================================
