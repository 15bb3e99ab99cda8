-------------------------- MODULE CatalogContract --------------------------
(***************************************************************************)
(* What publishing a catalog promises a deploy, without tokens, versions,  *)
(* manifests or HTTP: the instance holds one catalog; a publish puts the   *)
(* declared one in its place, at one moment while it runs, and says        *)
(* whether it was there already.  A publish that reports a rejection may   *)
(* have taken place, or may still do so later; one that reports anything   *)
(* else never does.                                                        *)
(***************************************************************************)
CONSTANTS Deploys, Catalogs, None

VARIABLES
  held,      \* the catalog the instance holds, None before the first
  publishes, \* per deploy: its phase, and the catalog or the outcome
  strays     \* rejected publishes that may still take place

vars == <<held, publishes, strays>>

Publish(phase, catalog, unchanged) ==
  [phase |-> phase, catalog |-> catalog, unchanged |-> unchanged]

NoPublish == Publish("none", None, FALSE)

Init == held = None /\ publishes = [d \in Deploys |-> NoPublish] /\ strays = {}

Move(d, from, publish) ==
  /\ publishes[d].phase = from
  /\ publishes' = [publishes EXCEPT ![d] = publish]

Begin(d) ==
  \E catalog \in Catalogs :
    /\ Move(d, "none", Publish("open", catalog, FALSE))
    /\ UNCHANGED <<held, strays>>

TakePlace(d) ==
  /\ LET catalog == publishes[d].catalog IN
     Move(d, "open", Publish("taken", catalog, held = catalog))
  /\ held' = publishes[d].catalog
  /\ UNCHANGED strays

Succeed(d) ==
  /\ Move(d, "taken", Publish("published", None, publishes[d].unchanged))
  /\ UNCHANGED <<held, strays>>

(* It never takes place.                                                   *)
Refuse(d) ==
  /\ \E from \in {"none", "open"} : Move(d, from, Publish("refused", None, FALSE))
  /\ UNCHANGED <<held, strays>>

(* It has taken place, never does, or may still do so.                     *)
Reject(d) ==
  /\ \E from \in {"open", "taken"} : Move(d, from, Publish("rejected", None, FALSE))
  /\ \/ UNCHANGED strays
     \/ publishes[d].phase = "open" /\ strays' = strays \cup {publishes[d].catalog}
  /\ UNCHANGED held

Stray ==
  \E catalog \in strays :
    /\ held' = catalog
    /\ strays' \in {strays, strays \ {catalog}}
    /\ UNCHANGED publishes

Resume(d) ==
  /\ publishes[d].phase \in {"published", "refused", "rejected"}
  /\ publishes' = [publishes EXCEPT ![d] = NoPublish]
  /\ UNCHANGED <<held, strays>>

Next ==
  \/ Stray
  \/ \E d \in Deploys :
       Begin(d) \/ TakePlace(d) \/ Succeed(d) \/ Refuse(d) \/ Reject(d) \/ Resume(d)

Spec == Init /\ [][Next]_vars
=============================================================================
