--------------------------- MODULE NodeLifecycle ---------------------------
(***************************************************************************)
(* What the autoscaler promises about the nodes it manages, without the    *)
(* control loop, its calls, its tracker or its clocks.  A node is in one   *)
(* of five phases:                                                         *)
(*                                                                         *)
(*   serving    schedulable and not marked                                 *)
(*   leaving    unschedulable, not marked as powered off                   *)
(*   parked     unschedulable, marked, and running                         *)
(*   off        unschedulable, marked, and has accepted a shutdown         *)
(*   returning  schedulable again, still marked, and running               *)
(*                                                                         *)
(* A node leaves only while MinNodes others serve, is parked only without  *)
(* work, powers off only from there, and takes work again only once it     *)
(* runs and is schedulable.                                                *)
(***************************************************************************)
EXTENDS Integers, FiniteSets

CONSTANTS
    Fleet,      \* the managed nodes
    MinNodes    \* how many of them have to stay in service

VARIABLES
    phase,      \* the phase of each node
    busy        \* the nodes that run pods which a drain would have to move

vars == <<phase, busy>>

Phases == {"serving", "leaving", "parked", "off", "returning"}

TypeOK == phase \in [Fleet -> Phases] /\ busy \subseteq Fleet

Serving == {n \in Fleet : phase[n] = "serving"}

Schedulable(n) == phase[n] \in {"serving", "returning"}

Move(n, from, to) ==
    /\ phase[n] = from
    /\ phase' = [phase EXCEPT ![n] = to]
    /\ UNCHANGED busy

-----------------------------------------------------------------------------

Leave(n) == Move(n, "serving", "leaving") /\ Cardinality(Serving \ {n}) >= MinNodes

Park(n) == Move(n, "leaving", "parked") /\ n \notin busy

PowerOff(n) == Move(n, "parked", "off")

Boot(n) == Move(n, "off", "parked")

\* The node is made schedulable first and unmarked then, or the other way round.
Return(n) == \/ Move(n, "leaving", "serving")
             \/ Move(n, "parked", "returning")
             \/ Move(n, "parked", "leaving")
             \/ Move(n, "returning", "serving")

TakeWork(n) ==
    /\ Schedulable(n)
    /\ busy' = busy \cup {n}
    /\ UNCHANGED phase

LoseWork(n) ==
    /\ busy' = busy \ {n}
    /\ UNCHANGED phase

-----------------------------------------------------------------------------

Init ==
    /\ phase \in [Fleet -> {"serving", "off"}]
    /\ busy = {}

Next == \E n \in Fleet : \/ Leave(n) \/ Park(n) \/ PowerOff(n) \/ Boot(n)
                         \/ Return(n) \/ TakeWork(n) \/ LoseWork(n)

Spec == Init /\ [][Next]_vars
=============================================================================
