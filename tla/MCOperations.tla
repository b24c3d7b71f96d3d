----------------------------- MODULE MCOperations -----------------------------
(***************************************************************************)
(* Operations for TLC.  No component of it reads a variable of another, so *)
(* one of them is at work in a behaviour and the others rest in their       *)
(* initial state.                                                           *)
(*   lock    four processes: one leaving, one entering, one dead with its  *)
(*           sidecar still there, and one waiting;                         *)
(*   backup  two backups that ask for the same name, two changes of the    *)
(*           database by the other holders of the lock, one checkout;      *)
(*   market  two assets, one retry, a midnight and both ends of the        *)
(*           decision window within four instants, time stamps that are    *)
(*           exact or ahead of the clock;                                  *)
(*   gate    four candidates and three expected trials, so that a trial    *)
(*           too many and a second declaration of finalists happen;        *)
(*   ledger  seven writes: the records of some processes around a failed   *)
(*           one, and the ledger of a historical run;                      *)
(*   schedule two weeks of instants at the edges of days and windows, for  *)
(*           the governed schedule and others whose window ends on the day *)
(*           it opens.                                                     *)
(***************************************************************************)
EXTENDS Operations, TLC

MondayNight == [weekday |-> 0, hour |-> 0, minute |-> 5, target |-> 10, window |-> 15]

\* Refused, by a target after the end of the window: the last but one.  The
\* others: over a full hour, to the last minute of a day, from midnight on.
Schedules ==
    {MondayNight,
     [weekday |-> 6, hour |-> 22, minute |-> 55, target |-> 5,  window |-> 20],
     [weekday |-> 2, hour |-> 23, minute |-> 0,  target |-> 59, window |-> 59],
     [weekday |-> 4, hour |-> 12, minute |-> 50, target |-> 10, window |-> 15],
     [weekday |-> 3, hour |-> 0,  minute |-> 0,  target |-> 0,  window |-> 1]}

\* The edges of the day and of the window, on the day of the schedule, those
\* beside it and one far from it, in two weeks.
Edges(p) ==
    LET opens  == 2 * (60 * p.hour + p.minute)
        closes == opens + 2 * p.window
        days   == {(p.weekday + i) % 7 : i \in {-1, 0, 1, 3}}
        hours  == {0, 1, opens - 1, opens, opens + 1, closes - 1, closes,
                   closes + 1, closes + 2, 2879} \cap 0 .. 2879
    IN  {2880 * (7 * w + d) + h : w \in {0, 1}, d \in days, h \in hours}

-----------------------------------------------------------------------------

MCInit ==
    /\ OpsInit
    /\ Cardinality(parts) = 1
    /\ "backup" \notin parts => db.auth = CHOOSE a \in Authorities : TRUE
    /\ "ledger" \notin parts => file = << >>
    /\ "schedule" \notin parts => plan = MondayNight /\ start = 0

MCSpec == MCInit /\ [][OpsNext]_opsVars

Symmetry == Permutations(Backups)

Universe == <<"BTC", "ETH">>
Exact == {-1, 0}

=============================================================================
