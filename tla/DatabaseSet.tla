---------------------------- MODULE DatabaseSet ----------------------------
(* What DatabaseManager promises to its callers: a set of named databases, of *)
(* which at most one is in use.  The statements executed in it show at once,  *)
(* and are safe from the moment it is closed.  Nothing but a DROP of it takes *)
(* a database away, and no statement changes a database not in use.           *)
(*                                                                            *)
(* Of a name whose creation was interrupted nothing is promised but that it   *)
(* stays apart from the others ("broken").                                    *)
EXTENDS Naturals

CONSTANTS Names, None

VARIABLES status,   \* name -> "absent", "broken" or "present"
          saved,    \* name -> statements that survive the end of the process
          inUse,    \* the database in use, or None
          shown     \* statements a reader of the database in use sees

vars == <<status, saved, inUse, shown>>

Init ==
    /\ status = [n \in Names |-> "absent"]
    /\ saved  = [n \in Names |-> 0]
    /\ inUse  = None
    /\ shown  = 0

Begin(n) ==
    /\ status[n] = "absent"
    /\ status' = [status EXCEPT ![n] = "broken"]
    /\ UNCHANGED <<saved, inUse, shown>>

Complete(n) ==
    /\ status[n] = "broken"
    /\ inUse # n
    /\ status' = [status EXCEPT ![n] = "present"]
    /\ UNCHANGED <<saved, inUse, shown>>

Open(n) ==
    /\ inUse = None
    /\ status[n] # "absent"
    /\ inUse' = n
    /\ shown' = saved[n]
    /\ UNCHANGED <<status, saved>>

Store ==
    /\ inUse # None
    /\ status[inUse] = "present"
    /\ shown' = shown + 1
    /\ UNCHANGED <<status, saved, inUse>>

Close ==
    /\ inUse # None
    /\ saved' = [saved EXCEPT ![inUse] = shown]
    /\ inUse' = None
    /\ shown' = 0
    /\ UNCHANGED status

Remove(n) ==
    /\ inUse # n
    /\ status[n] # "absent"
    /\ status' = [status EXCEPT ![n] = "absent"]
    /\ saved'  = [saved EXCEPT ![n] = 0]
    /\ UNCHANGED <<inUse, shown>>

\* The process ends without closing the database in use.
Lose ==
    /\ inUse' = None
    /\ shown' = 0
    /\ UNCHANGED <<status, saved>>

Next ==
    \/ \E n \in Names : Begin(n) \/ Complete(n) \/ Open(n) \/ Remove(n)
    \/ Store \/ Close \/ Lose

Spec == Init /\ [][Next]_vars
=============================================================================
