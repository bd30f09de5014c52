----------------------------- MODULE HoldLedger -----------------------------
(***************************************************************************)
(* What the governance plane promises about a policy action, whichever     *)
(* process writes the log and in whatever order: an action is recorded     *)
(* once, it is offered for a decision only from then on, a decision takes  *)
(* it out of the queue, and nothing ever puts it back.                     *)
(***************************************************************************)

CONSTANT Id          \* identifiers of actions

VARIABLES
    pending,         \* recorded with a hold and not decided: the queue
    settled,         \* some manual decision names them
    recorded         \* recorded, not in the queue and named by no decision

ledgerVars == <<pending, settled, recorded>>

Known == pending \cup settled \cup recorded

Init ==
    /\ pending = {}
    /\ settled = {}
    /\ recorded = {}

\* A new action that needs approval enters the queue.
Hold(n) ==
    /\ n \notin Known
    /\ pending' = pending \cup {n}
    /\ UNCHANGED <<settled, recorded>>

\* A new action that was decided as it was proposed is only recorded.
Record(n) ==
    /\ n \notin Known
    /\ recorded' = recorded \cup {n}
    /\ UNCHANGED <<pending, settled>>

\* The decision n on the action m is recorded, and m leaves the queue for good.
Settle(m, n) ==
    /\ m \in Known
    /\ n \notin Known
    /\ pending' = pending \ {m}
    /\ settled' = settled \cup {m}
    /\ recorded' = (recorded \ {m}) \cup {n}

Next ==
    \/ \E n \in Id : Hold(n) \/ Record(n)
    \/ \E m, n \in Id : Settle(m, n)

Spec == Init /\ [][Next]_ledgerVars
=============================================================================
