------------------------- MODULE WeeklyLauncherProofs -------------------------
(***************************************************************************)
(* Proofs about WeeklyLauncher for any launchers, windows, delays and      *)
(* numbers of attempts.  They use no fairness.                              *)
(***************************************************************************)
EXTENDS WeeklyLauncher, TLAPS

Decided == week \notin {"open", "committed"}

\* A child is there exactly while its launcher waits for it, and past its start it
\* is the one that holds the lock.
LockInv ==
    \A l \in Launchers :
        /\ child[l] # "none" <=> pc[l] = "running"
        /\ child[l] \notin {"none", "starting"} => lock = l

\* What the child that holds the lock knows of the week is still true.
WeekInv ==
    /\ week \in {"open", "missed"} => trades = 0
    /\ trades <= 1
    /\ \A l \in Launchers :
          /\ child[l] \in {"admit", "late"} => week # "committed"
          /\ child[l] = "late" => clock > Close
          /\ child[l] \in {"fetch", "run"} => week = "open"
          /\ child[l] = "finalise" => week = "committed"

\* Exit 0, given or about to be, stands for a decided week.
CodeInv ==
    \A l \in Launchers : code[l] = 0 =>
        /\ Decided
        /\ week = "failed" => clock > Close

\* A launcher that will start another child has attempts left and has seen no
\* rate limit.
AttemptInv ==
    \A l \in Launchers :
        /\ pc[l] \in {"idle", "sleeping"} => attempt[l] < MaxAttempts
        /\ marker[l] => pc[l] \in {"running", "exited", "done"}

IInv == TypeOK /\ LockInv /\ WeekInv /\ CodeInv /\ AttemptInv

LEMMA InitInv == Init => IInv
BY TimesAssumption
   DEF Init, IInv, TypeOK, LockInv, WeekInv, CodeInv, AttemptInv, WeekStates, Codes,
       Phases, NotRun

-----------------------------------------------------------------------------
(* A decided week stays decided *)

LEMMA DecidedStays ==
    ASSUME IInv, [Next]_vars, Decided
    PROVE  week' = week
<1>1. ASSUME NEW l \in Launchers, Child(l)
      PROVE  week' = week
  BY <1>1
     DEF Decided, IInv, WeekInv, Child, Acquire, Overlap, ReportMissed, Duplicate,
         Admitted, ProvenanceUnavailable, AdmissionFails, StartFetch, FetchTransient,
         FetchFails, FetchReturns, DataHalt, RunRefused, Execute, Finalise, Exit,
         ChildFails, ChildGone
<1> QED
  BY <1>1
     DEF Next, Tick, OtherCommand, Launcher, Begin, AfterChild, Wake, Kill, ChildGone,
         vars, Decided

LEMMA ClockGrows ==
    ASSUME TypeOK, [Next]_vars
    PROVE  clock' >= clock
<1>1. ASSUME NEW l \in Launchers, Child(l)
      PROVE  clock' = clock
  BY <1>1
     DEF Child, Acquire, Overlap, ReportMissed, Duplicate, ProvenanceUnavailable,
         AdmissionFails, StartFetch, FetchTransient, FetchFails, FetchReturns, DataHalt,
         RunRefused, Execute, Finalise, Exit, ChildFails, ChildGone, Proceed, Leave
<1> QED
  BY <1>1
     DEF Next, Tick, OtherCommand, Launcher, Begin, AfterChild, Wake, Kill, ChildGone,
         vars, TypeOK

-----------------------------------------------------------------------------
(* The launcher and its surroundings *)

LEMMA LaunchInv ==
    ASSUME IInv, NEW l \in Launchers, pc[l] \in {"idle", "sleeping"},
           Launch(l) \/ GiveUp(l), UNCHANGED <<clock, lock, week, trades, marker>>
    PROVE  IInv'
<1> USE DEF IInv, TypeOK
<1>1. CASE Launch(l)
  <2>1. TypeOK'
    BY <1>1, TimesAssumption DEF Launch, AttemptInv, Codes, NotRun, Phases
  <2>2. LockInv'
    BY <1>1 DEF Launch, LockInv
  <2>3. WeekInv'
    BY <1>1 DEF Launch, WeekInv
  <2>4. CodeInv'
    BY <1>1 DEF Launch, CodeInv, NotRun, Decided
  <2>5. AttemptInv'
    BY <1>1 DEF Launch, AttemptInv
  <2> QED
    BY <2>1, <2>2, <2>3, <2>4, <2>5
<1>2. CASE GiveUp(l)
  BY <1>2 DEF GiveUp, LockInv, WeekInv, CodeInv, AttemptInv, Decided
<1> QED
  BY <1>1, <1>2

\* The end of a child, whatever its code, as long as 0 stands for a decided week.
LEMMA GoneInv ==
    ASSUME IInv, NEW l \in Launchers, NEW c \in Codes, child[l] # "none",
           ChildGone(l, c),
           c = 0 => Decided /\ (week = "failed" => clock > Close)
    PROVE  IInv'
<1> USE DEF IInv, TypeOK, ChildGone
<1>1. TypeOK'
  BY DEF Phases
<1>2. LockInv'
  BY DEF LockInv
<1>3. WeekInv'
  BY DEF WeekInv
<1>4. CodeInv'
  BY DEF CodeInv, Decided
<1>5. AttemptInv'
  BY DEF AttemptInv, LockInv
<1> QED
  BY <1>1, <1>2, <1>3, <1>4, <1>5

LEMMA LauncherInv ==
    ASSUME IInv, NEW l \in Launchers, Launcher(l)
    PROVE  IInv'
<1>1. CASE Begin(l) \/ Wake(l)
  BY <1>1, LaunchInv DEF Begin, Wake
<1>2. CASE AfterChild(l)
  <2>1. CASE Final(l)
    BY <1>2, <2>1
       DEF AfterChild, GiveUp, IInv, TypeOK, LockInv, WeekInv, CodeInv, AttemptInv,
           Decided
  <2>2. CASE ~Final(l)
    <3>1. attempt[l] < MaxAttempts /\ ~marker[l]
      BY <2>2, TimesAssumption DEF Final, IInv, TypeOK
    <3> QED
      BY <1>2, <2>2, <3>1
         DEF AfterChild, IInv, TypeOK, LockInv, WeekInv, CodeInv, AttemptInv, Decided
  <2> QED
    BY <2>1, <2>2
<1>3. CASE Kill(l)
  BY <1>3, GoneInv DEF Kill, Expired, Killed, Codes
<1> QED
  BY <1>1, <1>2, <1>3 DEF Launcher

LEMMA SurroundingsInv ==
    ASSUME IInv, Tick \/ OtherCommand
    PROVE  IInv'
<1>1. CASE Tick
  BY <1>1, TimesAssumption
     DEF Tick, launcher, IInv, TypeOK, LockInv, WeekInv, CodeInv, AttemptInv, Decided
<1>2. CASE OtherCommand
  <2> USE <1>2, TimesAssumption DEF OtherCommand, launcher, IInv, TypeOK
  <2>0. \A l \in Launchers : child[l] \in {"none", "starting"}
    BY DEF LockInv
  <2>1. TypeOK'
    BY DEF WeekStates
  <2>2. LockInv'
    BY <2>0 DEF LockInv
  <2>3. WeekInv'
    BY <2>0 DEF WeekInv
  <2>4. CodeInv'
    BY DEF CodeInv, Decided
  <2>5. AttemptInv'
    BY DEF AttemptInv
  <2> QED
    BY <2>1, <2>2, <2>3, <2>4, <2>5
<1> QED
  BY <1>1, <1>2

-----------------------------------------------------------------------------
(* The child *)

\* A child that goes on, or decides to leave, while it holds the lock.
Moves(l, phase, c) ==
    /\ child' = [child EXCEPT ![l] = phase]
    /\ code' = [code EXCEPT ![l] = c]
    /\ lock' = l
    /\ UNCHANGED <<clock, launcher>>

LEMMA MovesInv ==
    ASSUME IInv, NEW l \in Launchers, child[l] # "none", lock \in {None, l},
           NEW phase \in Phases \ {"none", "starting"}, NEW c \in Codes,
           Moves(l, phase, c),
           marker' = marker \/ marker' = [marker EXCEPT ![l] = TRUE],
           week' \in WeekStates, trades' \in Nat,
           week' \in {"open", "missed"} => trades' = 0,
           trades' <= 1,
           phase \in {"admit", "late"} => week' # "committed",
           phase = "late" => clock > Close,
           phase \in {"fetch", "run"} => week' = "open",
           phase = "finalise" => week' = "committed",
           Decided => week' = week,
           c = 0 => Decided' /\ (week' = "failed" => clock > Close)
    PROVE  IInv'
<1> USE DEF IInv, TypeOK, Moves, launcher
<1>0. \A k \in Launchers \ {l} : child[k] \in {"none", "starting"} /\ child'[k] = child[k]
  BY TimesAssumption DEF LockInv
<1>1. TypeOK'
  BY DEF Phases
<1>2. LockInv'
  BY <1>0 DEF LockInv
<1>3. WeekInv'
  BY <1>0 DEF WeekInv
<1>4. CodeInv'
  BY DEF CodeInv, Decided
<1>5. AttemptInv'
  BY DEF AttemptInv, LockInv
<1> QED
  BY <1>1, <1>2, <1>3, <1>4, <1>5

LEMMA ChildInv ==
    ASSUME IInv, NEW l \in Launchers, Child(l)
    PROVE  IInv'
<1> USE DEF IInv, TypeOK
<1>a. code' = [code EXCEPT ![l] = code[l]] <=> code' = code
  OBVIOUS
<1>b. child[l] \notin {"none", "starting"} => lock = l
  BY DEF LockInv
<1>c. code[l] = 0 => Decided /\ (week = "failed" => clock > Close)
  BY DEF CodeInv
<1>d. {0, 1, 2, 3, 4} \subseteq Codes /\ code[l] \in Codes
  BY DEF Codes
<1>1. CASE Acquire(l)
  <2>1. CASE clock > Close
    <3>1. Moves(l, "late", code[l])
      BY <1>1, <1>a, <2>1 DEF Acquire, Proceed, Moves
    <3> QED
      BY <1>1, <1>c, <1>d, <2>1, <3>1, MovesInv
         DEF Acquire, Verdicts, Phases, WeekInv, WeekStates, Decided
  <2>2. CASE ~(clock > Close)
    <3>1. Moves(l, "admit", code[l])
      BY <1>1, <1>a, <2>2 DEF Acquire, Proceed, Moves
    <3> QED
      BY <1>1, <1>c, <1>d, <2>2, <3>1, MovesInv
         DEF Acquire, Verdicts, Phases, WeekInv, WeekStates, Decided
  <2> QED
    BY <2>1, <2>2
<1>2. CASE Overlap(l)
  BY <1>2, <1>d, GoneInv DEF Overlap
<1>3. CASE ReportMissed(l)
  <2>1. Moves(l, "leave", 0) /\ child[l] = "late"
    BY <1>3, <1>b DEF ReportMissed, Leave, Moves
  <2> QED
    BY <1>3, <1>b, <1>d, <2>1, MovesInv
       DEF ReportMissed, Phases, WeekInv, WeekStates, Decided
<1>4. CASE Duplicate(l)
  <2>1. Moves(l, "leave", IF week = "failed" THEN 2 ELSE 0) /\ child[l] = "admit"
    BY <1>4, <1>b DEF Duplicate, Leave, Moves
  <2> QED
    BY <1>4, <1>b, <1>d, <2>1, MovesInv
       DEF Duplicate, Phases, WeekInv, WeekStates, Decided
<1>5. CASE ProvenanceUnavailable(l) \/ DataHalt(l) \/ FetchTransient(l)
  <2>1. PICK c \in {3, 4} :
          /\ Moves(l, "leave", c) /\ child[l] \in {"admit", "run", "fetch"}
          /\ week' = week /\ trades' = trades
    BY <1>5, <1>b
       DEF ProvenanceUnavailable, Admitted, DataHalt, FetchTransient, Leave, Moves
  <2>2. marker' = marker \/ marker' = [marker EXCEPT ![l] = TRUE]
    BY <1>5 DEF ProvenanceUnavailable, DataHalt, FetchTransient
  <2> QED
    BY <1>b, <1>d, <2>1, <2>2, MovesInv DEF Phases, WeekInv, WeekStates
<1>6. CASE AdmissionFails(l)
  <2>1. Moves(l, "leave", 2) /\ child[l] = "admit" /\ week = "open" /\ week' = "failed"
    BY <1>6, <1>b DEF AdmissionFails, Admitted, Leave, Moves
  <2> QED
    BY <1>6, <1>b, <1>d, <2>1, MovesInv
       DEF AdmissionFails, Phases, WeekInv, WeekStates, Decided
<1>7. CASE StartFetch(l)
  <2>1. Moves(l, "fetch", code[l]) /\ child[l] = "admit" /\ week = "open"
    BY <1>7, <1>a, <1>b DEF StartFetch, Admitted, Proceed, Moves
  <2> QED
    BY <1>7, <1>b, <1>c, <1>d, <2>1, MovesInv
       DEF StartFetch, Phases, WeekInv, WeekStates, Decided
<1>8. CASE FetchFails(l)
  <2>1. Moves(l, "leave", 2) /\ child[l] = "fetch"
    BY <1>8, <1>b DEF FetchFails, Leave, Moves
  <2> QED
    BY <1>8, <1>b, <1>d, <2>1, MovesInv DEF FetchFails, Phases, WeekInv, WeekStates
<1>9. CASE FetchReturns(l)
  <2>1. child[l] = "fetch" /\ week = "open" /\ week' = week /\ trades' = trades
        /\ marker' = marker
    BY <1>9 DEF FetchReturns, WeekInv
  <2>2. CASE clock > Close
    <3>1. Moves(l, "late", code[l])
      BY <1>9, <1>a, <1>b, <2>2 DEF FetchReturns, Proceed, Moves
    <3> QED
      BY <1>b, <1>c, <1>d, <2>1, <2>2, <3>1, MovesInv
         DEF Phases, WeekInv, WeekStates, Decided
  <2>3. CASE ~(clock > Close)
    <3>1. Moves(l, "run", code[l])
      BY <1>9, <1>a, <1>b, <2>3 DEF FetchReturns, Proceed, Moves
    <3> QED
      BY <1>b, <1>c, <1>d, <2>1, <2>3, <3>1, MovesInv
         DEF Phases, WeekInv, WeekStates, Decided
  <2> QED
    BY <2>2, <2>3
<1>10. CASE RunRefused(l)
  <2>1. PICK c \in {2, 3} : Leave(l, c)
    BY <1>10 DEF RunRefused
  <2>2. Moves(l, "leave", c) /\ child[l] = "run" /\ week = "open"
    BY <1>10, <1>b, <2>1 DEF RunRefused, Leave, Moves, WeekInv
  <2> QED
    BY <1>10, <1>b, <1>d, <2>2, MovesInv
       DEF RunRefused, Verdicts, Phases, WeekInv, WeekStates, Decided
<1>11. CASE Execute(l)
  <2>1. /\ Moves(l, "finalise", code[l]) /\ child[l] = "run" /\ week = "open"
        /\ trades = 0 /\ trades' = 1 /\ week' = "committed" /\ marker' = marker
    BY <1>11, <1>a, <1>b DEF Execute, Proceed, Moves, WeekInv
  <2> QED
    BY <1>b, <1>c, <1>d, <2>1, MovesInv DEF Phases, WeekInv, WeekStates, Decided
<1>12. CASE Finalise(l)
  <2>1. PICK v \in Verdicts : /\ week' = v
                              /\ \E c \in {IF v = "traded" THEN 0 ELSE 2, 3} : Leave(l, c)
    BY <1>12 DEF Finalise
  <2>2. PICK c \in {IF v = "traded" THEN 0 ELSE 2, 3} : Leave(l, c)
    BY <2>1
  <2>3. Moves(l, "leave", c) /\ child[l] = "finalise" /\ week = "committed"
    BY <1>12, <1>b, <2>2 DEF Finalise, Leave, Moves, WeekInv
  <2> QED
    BY <1>12, <1>b, <1>d, <2>1, <2>2, <2>3, MovesInv
       DEF Finalise, Verdicts, Phases, WeekInv, WeekStates, Decided
<1>13. CASE Exit(l)
  BY <1>13, <1>c, <1>d, GoneInv DEF Exit
<1>14. CASE ChildFails(l)
  BY <1>14, <1>d, GoneInv DEF ChildFails
<1> QED
  BY <1>1, <1>2, <1>3, <1>4, <1>5, <1>6, <1>7, <1>8, <1>9, <1>10, <1>11, <1>12, <1>13,
     <1>14
     DEF Child

LEMMA NextInv ==
    ASSUME IInv, [Next]_vars
    PROVE  IInv'
<1>1. CASE UNCHANGED vars
  BY <1>1
     DEF vars, IInv, TypeOK, LockInv, WeekInv, CodeInv, AttemptInv, Decided
<1> QED
  BY <1>1, LauncherInv, ChildInv, SurroundingsInv DEF Next

-----------------------------------------------------------------------------
(* Why a launcher gives up *)

\* A launcher that has started a child has seen the window open, and one that has
\* ended had nothing to retry, nothing left to retry with, or no window to do it in.
ReasonInv ==
    \A l \in Launchers :
        /\ pc[l] = "idle" => code[l] = NotRun
        /\ pc[l] \in {"running", "exited", "sleeping"} => clock >= GateStart
        /\ pc[l] = "done" /\ code[l] \in Retryable =>
              attempt[l] = MaxAttempts \/ marker[l] \/ clock > GateEnd

\* What a child and its end leave of the launchers.
LEMMA ChildKeepsReasons ==
    ASSUME IInv, ReasonInv, NEW l \in Launchers, Child(l) \/ Kill(l)
    PROVE  ReasonInv'
<1> USE DEF IInv, TypeOK
<1>1. pc[l] = "running"
  BY DEF LockInv, Child, Kill, Expired, Acquire, Overlap, ReportMissed, Duplicate,
         Admitted, ProvenanceUnavailable, AdmissionFails, StartFetch, FetchTransient,
         FetchFails, FetchReturns, DataHalt, RunRefused, Execute, Finalise, Exit,
         ChildFails
<1>2. /\ UNCHANGED <<clock, attempt>>
      /\ pc' = pc \/ pc' = [pc EXCEPT ![l] = "exited"]
      /\ \A k \in Launchers \ {l} : code'[k] = code[k] /\ marker'[k] = marker[k]
  <2>1. CASE Kill(l) \/ Overlap(l) \/ Exit(l) \/ ChildFails(l)
    BY <2>1 DEF Kill, Overlap, Exit, ChildFails, ChildGone
  <2>2. CASE /\ Child(l)
             /\ ~(Overlap(l) \/ Exit(l) \/ ChildFails(l))
    BY <2>2
       DEF Child, Acquire, ReportMissed, Duplicate, ProvenanceUnavailable,
           AdmissionFails, StartFetch, FetchTransient, FetchFails, FetchReturns,
           DataHalt, RunRefused, Execute, Finalise, Proceed, Leave, launcher
  <2> QED
    BY <2>1, <2>2
<1>3. \A k \in Launchers \ {l} : pc'[k] = pc[k]
  BY <1>2
<1>4. pc'[l] \in {"running", "exited"}
  BY <1>1, <1>2
<1> QED
  BY <1>1, <1>2, <1>3, <1>4 DEF ReasonInv

LEMMA ReasonStays ==
    ASSUME IInv, ReasonInv, [Next]_vars
    PROVE  ReasonInv'
<1> USE DEF IInv, TypeOK
<1>1. ASSUME NEW l \in Launchers, Begin(l) \/ Wake(l)
      PROVE  ReasonInv'
  <2>1. CASE ShouldLaunch
    BY <1>1, <2>1 DEF Begin, Wake, Launch, ShouldLaunch, ReasonInv
  <2>2. CASE ~ShouldLaunch
    <3>1. pc[l] = "sleeping" => clock > GateEnd
      BY <2>2, TimesAssumption DEF ShouldLaunch, ReasonInv
    <3>2. pc[l] = "idle" => code[l] \notin Retryable
      BY DEF ReasonInv, Retryable, NotRun, Killed
    <3> QED
      BY <1>1, <2>2, <3>1, <3>2 DEF Begin, Wake, GiveUp, ReasonInv
  <2> QED
    BY <2>1, <2>2
<1>2. ASSUME NEW l \in Launchers, AfterChild(l)
      PROVE  ReasonInv'
  BY <1>2 DEF AfterChild, GiveUp, Final, ReasonInv
<1>3. CASE Tick
  BY <1>3, TimesAssumption DEF Tick, launcher, ReasonInv
<1>4. CASE OtherCommand \/ UNCHANGED vars
  BY <1>4 DEF OtherCommand, launcher, vars, ReasonInv
<1> QED
  BY <1>1, <1>2, <1>3, <1>4, ChildKeepsReasons DEF Next, Launcher

-----------------------------------------------------------------------------
(* The theorems *)

\* The invariant holds in every reachable state.
THEOREM Invariance == Spec => []IInv
<1>1. IInv /\ [Next]_vars => IInv'
  BY NextInv
<1> QED
  BY InitInv, <1>1, PTL DEF Spec

\* Clock, lock, week, and launchers stay typed.
THEOREM TypeCorrect == Spec => []TypeOK
<1>1. IInv => TypeOK
  BY DEF IInv
<1> QED
  BY Invariance, <1>1, PTL

\* However many launchers run, whatever is killed or retried, the week is traded
\* at most once and a traded week is never declared missed.
THEOREM OneTrade == Spec => []TradedOnce
<1>1. IInv => TradedOnce
  BY DEF IInv, WeekInv, TradedOnce
<1> QED
  BY Invariance, <1>1, PTL

\* A launcher reports success only for a decided week.
THEOREM Success == Spec => []SuccessIsDecided
<1>1. IInv => SuccessIsDecided
  BY DEF IInv, CodeInv, SuccessIsDecided, Decided
<1> QED
  BY Invariance, <1>1, PTL

\* No child is started after one that printed the rate-limit marker.
THEOREM Deferral == Spec => DeferralEndsAttempts
<1>1. IInv /\ [Next]_vars =>
          [\A l \in Launchers : marker[l] => attempt'[l] = attempt[l]]_vars
  <2> SUFFICES ASSUME IInv, Next, NEW l \in Launchers, marker[l]
               PROVE  attempt'[l] = attempt[l]
    BY DEF vars
  <2>0. attempt \in [Launchers -> 0 .. MaxAttempts] /\ pc[l] \notin {"idle", "sleeping"}
    BY DEF IInv, TypeOK, AttemptInv
  <2>1. ASSUME NEW k \in Launchers, Launcher(k)
        PROVE  attempt'[l] = attempt[l]
    BY <2>0, <2>1 DEF Launcher, Begin, AfterChild, Wake, Kill, ChildGone, Launch, GiveUp
  <2>2. ASSUME NEW k \in Launchers, Child(k)
        PROVE  attempt'[l] = attempt[l]
    BY <2>2
       DEF Child, Acquire, Overlap, ReportMissed, Duplicate, ProvenanceUnavailable,
           AdmissionFails, StartFetch, FetchTransient, FetchFails, FetchReturns, DataHalt,
           RunRefused, Execute, Finalise, Exit, ChildFails, ChildGone, Proceed, Leave,
           launcher
  <2> QED
    BY <2>1, <2>2 DEF Next, Tick, OtherCommand, launcher
<1> QED
  BY Invariance, <1>1, PTL DEF Spec, DeferralEndsAttempts
\* A launcher gives up on what it could have retried only with its attempts used,
\* a rate limit met, or the window closed.
THEOREM EndsForAReason == Spec => []GivesUpForAReason
<1>1. Init => ReasonInv
  BY DEF Init, ReasonInv
<1>2. IInv /\ ReasonInv /\ [Next]_vars => ReasonInv'
  BY ReasonStays
<1>3. ReasonInv => GivesUpForAReason
  BY DEF ReasonInv, GivesUpForAReason
<1> QED
  BY Invariance, <1>1, <1>2, <1>3, PTL DEF Spec
=============================================================================
