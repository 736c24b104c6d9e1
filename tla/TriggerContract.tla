-------------------------- MODULE TriggerContract --------------------------
(***************************************************************************)
(* What the trigger pipeline promises about an event that is published:    *)
(* it is settled in the end, its instance is launched at most once, and it *)
(* is settled as accepted only if its instance id has been taken.          *)
(***************************************************************************)
EXTENDS Integers

CONSTANTS Events, Verdicts

VARIABLES
    open,     \* published and not settled
    verdict,  \* how an event was settled, "none" before
    taken,    \* the instance ids in use
    starts    \* how often an event's instance was launched

vars == <<open, verdict, taken, starts>>

Init ==
    /\ open = {}
    /\ verdict = [e \in Events |-> "none"]
    /\ taken = {}
    /\ starts = [e \in Events |-> 0]

Send(e) ==
    /\ e \notin open /\ verdict[e] = "none"
    /\ open' = open \cup {e}
    /\ UNCHANGED <<verdict, taken, starts>>

Known(e) == e \in open \/ verdict[e] # "none"

Take(e) ==
    /\ Known(e) /\ e \notin taken
    /\ taken' = taken \cup {e}
    /\ UNCHANGED <<open, verdict, starts>>

Launch(e) ==
    /\ e \in taken /\ starts[e] = 0
    /\ starts' = [starts EXCEPT ![e] = 1]
    /\ UNCHANGED <<open, verdict, taken>>

Settle(e) ==
    /\ e \in open
    /\ open' = open \ {e}
    /\ \E v \in Verdicts :
         /\ v \in {"started", "deduplicated"} => e \in taken
         /\ v = "started" => starts[e] = 1
         /\ verdict' = [verdict EXCEPT ![e] = v]
    /\ UNCHANGED <<taken, starts>>

Next == \E e \in Events : Send(e) \/ Take(e) \/ Launch(e) \/ Settle(e)

Spec == Init /\ [][Next]_vars

FairSpec == Spec /\ \A e \in Events : WF_vars(Settle(e))
=============================================================================
