--------------------------- MODULE WeeklySchedule ---------------------------
(***************************************************************************)
(* What the weekly schedule promises, without sessions, locks, crashes or  *)
(* tables: every weekly window is decided at most once and for good.  It   *)
(* is traded in a single transaction, refused by a recorded failure, or    *)
(* declared missed after it closed; a missed or refused week is never      *)
(* traded afterwards (docs/operations.md, "Audit a missed/startup window"; *)
(* forward_experiment/governance.json, incident_policy).                   *)
(*                                                                         *)
(* Instants are counted as in PaperForward: 2k-1 lies inside window k, 2k  *)
(* after it closed.                                                        *)
(***************************************************************************)
EXTENDS Integers

CONSTANT Weeks

VARIABLES
    today,      \* the current instant
    decision,   \* what became of each week
    traded      \* execution transactions committed for each week

vars == <<today, decision, traded>>

Window == 1 .. Weeks

Opened(k) == 2 * k - 1 <= today
Closed(k) == 2 * k <= today

Init ==
    /\ today = 0
    /\ decision = [k \in Window |-> "open"]
    /\ traded = [k \in Window |-> 0]

PassTime ==
    /\ today < 2 * Weeks
    /\ today' = today + 1
    /\ UNCHANGED <<decision, traded>>

Decide(k, d) ==
    /\ decision[k] = "open"
    /\ decision' = [decision EXCEPT ![k] = d]
    /\ UNCHANGED today

Trade(k) ==
    /\ Opened(k)
    /\ Decide(k, "traded")
    /\ traded' = [traded EXCEPT ![k] = @ + 1]

Refuse(k) == Opened(k) /\ Decide(k, "refused") /\ UNCHANGED traded

Miss(k) == Closed(k) /\ Decide(k, "missed") /\ UNCHANGED traded

Next == PassTime \/ \E k \in Window : Trade(k) \/ Refuse(k) \/ Miss(k)

Spec == Init /\ [][Next]_vars

=============================================================================
