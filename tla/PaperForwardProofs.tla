------------------------- MODULE PaperForwardProofs -------------------------
(***************************************************************************)
(* Proofs about PaperForward for every number of weeks.                    *)
(***************************************************************************)
EXTENDS PaperForward, TLAPS

(* The inductive invariant *)

\* Steps at which the session's own row is RUNNING, and at which it is over.
Inserted == {"failFinish", "execute", "runFinish", "halt", "haltFinish"}
Finished == {"failWindow", "failIncident", "details", "baseline", "window",
             "incident", "notify", "recoverBaseline", "recoverWindow",
             "recoverIncident", "recoverNotify"}
Failing  == {"failInsert", "failFinish", "failWindow", "failIncident"}

Terminal(r) == r.status \notin {"NONE", "RUNNING"}

\* A session's instant is not in the future, and the window it would claim was
\* open then and so is not recorded as missed.
TimeInv ==
    /\ now <= clock
    /\ pc \in {"admit", "failInsert", "fetch"} => key = KeyAt(now)
    /\ pc # "idle" /\ KeyAt(now) # NoKey => window[KeyAt(now)] # "MISSED_SCHEDULE"

\* A row exists only once its window has opened, an absent row committed
\* nothing, and the trades of a week are those of its row.  A row that is still
\* RUNNING belongs to the session that holds the lock, or to one that died.
RowInv ==
    \A k \in Keys :
        /\ claim[k].status = "NONE" => claim[k].exec = "NONE"
        /\ claim[k].status # "NONE" => 2 * k - 1 <= clock
        /\ trades[k] = IF Committed(claim[k]) THEN 1 ELSE 0
        /\ claim[k].status = "RUNNING" /\ pc # "idle" => k = cur /\ pc \in Inserted

\* Where the session stands tells the state of its own row.
CurInv ==
    /\ pc \in Inserted => cur \in Keys /\ claim[cur].status = "RUNNING"
    /\ pc \in Finished => cur \in Keys /\ Terminal(claim[cur])
    /\ pc \in {"failFinish", "execute"} => ~Committed(claim[cur])
    /\ pc \in Failing => fate \in {"RELEASE_PROVENANCE_FAILURE", "KILL_SWITCH_ACTIVATED"}
    /\ \A k \in todo : Terminal(claim[k])

WindowInv ==
    \A k \in Keys :
        /\ window[k] = "MISSED_SCHEDULE" => Past(k, clock) /\ claim[k].status = "NONE"
        /\ window[k] \notin {"NONE", "MISSED_SCHEDULE"} => Terminal(claim[k])

IInv == TypeOK /\ TimeInv /\ RowInv /\ CurInv /\ WindowInv

-----------------------------------------------------------------------------
(* Facts about the schedule and the rows *)

LEMMA KeyAtFact ==
    ASSUME NEW t \in 0 .. 2 * Weeks
    PROVE  /\ KeyAt(t) \in Keys \cup {NoKey}
           /\ KeyAt(t) # NoKey => t = 2 * KeyAt(t) - 1
BY WeeksAssumption DEF KeyAt, Keys, NoKey

LEMMA NewRowFact ==
    ASSUME NEW official \in BOOLEAN, NEW prov \in BOOLEAN
    PROVE  /\ NewRow(official, prov) \in Row
           /\ NewRow(official, prov).status = "RUNNING"
           /\ NewRow(official, prov).exec = "NONE"
BY DEF NewRow, NoRow, Row, Statuses

LEMMA NoRowFact ==
    NoRow \in Row /\ NoRow.status = "NONE" /\ NoRow.exec = "NONE"
BY DEF NoRow, Row, Statuses

LEMMA CommitFact ==
    ASSUME NEW r \in Row, NEW x \in Executions
    PROVE  /\ Commit(r, x) \in Row
           /\ Commit(r, x).status = r.status
           /\ Committed(Commit(r, x))
BY ExecutionsAssumption DEF Commit, Committed, Row

LEMMA FinishFact ==
    ASSUME NEW r \in Row, NEW s \in Statuses, NEW valid \in BOOLEAN
    PROVE  /\ Finish(r, s, valid) \in Row
           /\ Finish(r, s, valid).status = s
           /\ Finish(r, s, valid).exec = r.exec
BY DEF Finish, Row

LEMMA DiagnoseFact ==
    ASSUME NEW r \in Row, NEW o \in Outcomes, NEW clean \in BOOLEAN
    PROVE  /\ Diagnose(r, o, clean) \in Row
           /\ Diagnose(r, o, clean).status = r.status
           /\ Diagnose(r, o, clean).exec = r.exec
BY DEF Diagnose, Row

LEMMA RegisterFact ==
    ASSUME NEW r \in Row, NEW b \in BOOLEAN
    PROVE  /\ Register(r, b) \in Row
           /\ Register(r, b).status = r.status
           /\ Register(r, b).exec = r.exec
BY DEF Register, Row

LEMMA ClassifiedFact ==
    ASSUME NEW r, NEW valid
    PROVE  Classified(r, valid) \subseteq Outcomes
BY VerdictsAssumption
   DEF Classified, ExecutionOutcome, Outcomes, ErrorOutcomes, TradingOutcomes

LEMMA CoarseOutcomeFact ==
    ASSUME NEW r \in Row
    PROVE  CoarseOutcome(r) \in Outcomes
BY DEF CoarseOutcome, Outcomes, ErrorOutcomes, TradingOutcomes

LEMMA RecoveredFact ==
    ASSUME NEW r \in Row, r.status = "NONE" => r.exec = "NONE"
    PROVE  /\ Recovered(r) \in Row
           /\ Recovered(r).status # "RUNNING"
           /\ Recovered(r).exec = r.exec
           /\ Terminal(r) => Recovered(r) = r
           /\ Recovered(r).status = "NONE" => Recovered(r).exec = "NONE"
           /\ r.status = "NONE" => Recovered(r).status = "NONE"
<1>1. CASE r.status # "RUNNING"
  BY <1>1 DEF Recovered
<1>2. CASE r.status = "RUNNING" /\ Committed(r)
  <2>1. Recovered(r) = Finish(r, "RECOVERED_COMMITTED", FALSE)
    BY <1>2 DEF Recovered
  <2>2. /\ Finish(r, "RECOVERED_COMMITTED", FALSE) \in Row
        /\ Finish(r, "RECOVERED_COMMITTED", FALSE).status = "RECOVERED_COMMITTED"
        /\ Finish(r, "RECOVERED_COMMITTED", FALSE).exec = r.exec
    BY FinishFact DEF Statuses
  <2> QED
    BY <1>2, <2>1, <2>2 DEF Terminal
<1>3. CASE r.status = "RUNNING" /\ ~Committed(r)
  <2>1. Recovered(r) = NoRow /\ r.exec = "NONE"
    BY <1>3 DEF Recovered, Committed
  <2> QED
    BY <1>3, <2>1, NoRowFact DEF Terminal
<1> QED
  BY <1>1, <1>2, <1>3

LEMMA OutcomeFact ==
    /\ "MISSED_SCHEDULE" \notin Outcomes /\ "NONE" \notin Outcomes
    /\ ErrorOutcomes \subseteq Outcomes
    /\ {"RELEASE_PROVENANCE_FAILURE", "KILL_SWITCH_ACTIVATED"}
          \subseteq ErrorOutcomes \cap Statuses
BY DEF Outcomes, ErrorOutcomes, TradingOutcomes, Statuses

-----------------------------------------------------------------------------
(* Steps that change a run row *)

\* A step that keeps the status and the execution of every row keeps what the
\* invariant says of rows and windows.
LEMMA RowsKept ==
    ASSUME IInv, claim' \in [Keys -> Row],
           \A k \in Keys : /\ claim'[k].status = claim[k].status
                           /\ claim'[k].exec = claim[k].exec,
           UNCHANGED <<clock, trades, window>>,
           pc # "idle", pc \notin Inserted
    PROVE  RowInv' /\ WindowInv'
BY DEF IInv, RowInv, WindowInv, Committed, Terminal, Past

\* Diagnosing a run or registering its notification keeps the status and the
\* execution of every row.
LEMMA RowsAnnotated ==
    ASSUME IInv,
           RecoverDetails \/ RecoverNotify \/ FinalizeDetails \/ RegisterNotification
    PROVE  /\ claim' \in [Keys -> Row]
           /\ \A j \in Keys : /\ claim'[j].status = claim[j].status
                              /\ claim'[j].exec = claim[j].exec
<1>1. ASSUME NEW k \in Keys, NEW r \in Row,
             r.status = claim[k].status, r.exec = claim[k].exec,
             claim' = [claim EXCEPT ![k] = r]
      PROVE  /\ claim' \in [Keys -> Row]
             /\ \A j \in Keys : /\ claim'[j].status = claim[j].status
                                /\ claim'[j].exec = claim[j].exec
  BY <1>1 DEF IInv, TypeOK
<1>2. ASSUME NEW k \in Keys, NEW o \in Outcomes,
             claim' = [claim EXCEPT ![k] = Diagnose(@, o, Clean)]
      PROVE  /\ claim' \in [Keys -> Row]
             /\ \A j \in Keys : /\ claim'[j].status = claim[j].status
                                /\ claim'[j].exec = claim[j].exec
  <2>1. claim[k] \in Row /\ Clean \in BOOLEAN
    BY DEF IInv, TypeOK, Clean
  <2>2. claim' = [claim EXCEPT ![k] = Diagnose(claim[k], o, Clean)]
    BY <1>2 DEF IInv, TypeOK
  <2>3. /\ Diagnose(claim[k], o, Clean) \in Row
        /\ Diagnose(claim[k], o, Clean).status = claim[k].status
        /\ Diagnose(claim[k], o, Clean).exec = claim[k].exec
    BY <2>1, DiagnoseFact
  <2> QED
    BY <1>1, <2>2, <2>3
<1>3. ASSUME NEW k \in Keys, NEW b \in BOOLEAN,
             claim' = [claim EXCEPT ![k] = Register(claim[k], b)]
      PROVE  /\ claim' \in [Keys -> Row]
             /\ \A j \in Keys : /\ claim'[j].status = claim[j].status
                                /\ claim'[j].exec = claim[j].exec
  <2>1. claim[k] \in Row
    BY DEF IInv, TypeOK
  <2>2. /\ Register(claim[k], b) \in Row
        /\ Register(claim[k], b).status = claim[k].status
        /\ Register(claim[k], b).exec = claim[k].exec
    BY <2>1, RegisterFact
  <2> QED
    BY <1>1, <1>3, <2>2
<1>4. CASE RecoverDetails
  <2>1. PICK k \in Keys :
           IF claim[k].outcome = "NONE"
           THEN \E o \in Classified(claim[k], consistent) :
                   claim' = [claim EXCEPT ![k] = Diagnose(@, o, Clean)]
           ELSE UNCHANGED claim
    BY <1>4 DEF RecoverDetails
  <2>2. CASE claim[k].outcome = "NONE"
    BY <2>1, <2>2, <1>2, ClassifiedFact
  <2>3. CASE claim[k].outcome # "NONE"
    BY <2>1, <2>3 DEF IInv, TypeOK
  <2> QED
    BY <2>2, <2>3
<1>5. CASE RecoverNotify
  <2>1. cur \in Keys
    BY <1>5 DEF RecoverNotify, IInv, CurInv, Finished
  <2>2. (claim[cur].notified \/ kind = "paper") \in BOOLEAN
    OBVIOUS
  <2>3. PICK b \in BOOLEAN : claim' = [claim EXCEPT ![cur] = Register(claim[cur], b)]
    BY <1>5, <2>1, <2>2 DEF RecoverNotify, IInv, TypeOK
  <2> QED
    BY <1>3, <2>1, <2>3
<1>6. CASE FinalizeDetails
  <2>1. cur \in Keys
    BY <1>6 DEF FinalizeDetails, IInv, CurInv, Finished
  <2>2. PICK o \in Outcomes : claim' = [claim EXCEPT ![cur] = Diagnose(@, o, Clean)]
    BY <1>6, ClassifiedFact DEF FinalizeDetails
  <2> QED
    BY <1>2, <2>1, <2>2
<1>7. CASE RegisterNotification
  <2>1. cur \in Keys
    BY <1>7 DEF RegisterNotification, IInv, CurInv, Finished
  <2>2. PICK b \in BOOLEAN : claim' = [claim EXCEPT ![cur] = Register(claim[cur], b)]
    BY <1>7, <2>1 DEF RegisterNotification, IInv, TypeOK
  <2> QED
    BY <1>3, <2>1, <2>2
<1> QED
  BY <1>4, <1>5, <1>6, <1>7

LEMMA RecoverDetailsStep ==
    ASSUME IInv, RecoverDetails
    PROVE  IInv'
<1>1. PICK k \in Keys : k \in todo /\ cur' = k
  BY DEF RecoverDetails, IsLeast
<1>2. /\ pc = "recover" /\ pc' = "recoverBaseline"
      /\ UNCHANGED <<clock, account, consistent, trades, window, incidents,
                     baseline, kind, now, key, fate, todo>>
  BY DEF RecoverDetails
<1>3. /\ claim' \in [Keys -> Row]
      /\ \A j \in Keys : /\ claim'[j].status = claim[j].status
                         /\ claim'[j].exec = claim[j].exec
  BY RowsAnnotated
<1>4. TypeOK'
  BY <1>1, <1>2, <1>3 DEF IInv, TypeOK, Steps
<1>5. TimeInv'
  BY <1>2 DEF IInv, TimeInv
<1>6. RowInv' /\ WindowInv'
  BY <1>2, <1>3, RowsKept DEF Inserted
<1>7. CurInv'
  BY <1>1, <1>2, <1>3 DEF IInv, TypeOK, CurInv, Terminal, Inserted, Finished, Failing
<1> QED
  BY <1>4, <1>5, <1>6, <1>7 DEF IInv

LEMMA RecoverNotifyStep ==
    ASSUME IInv, RecoverNotify
    PROVE  IInv'
<1>1. /\ pc = "recoverNotify" /\ pc' = "recover" /\ cur' = NoKey
      /\ todo' \subseteq todo
      /\ UNCHANGED <<clock, account, consistent, trades, window, incidents,
                     baseline, kind, now, key, fate>>
  BY DEF RecoverNotify
<1>2. /\ claim' \in [Keys -> Row]
      /\ \A j \in Keys : /\ claim'[j].status = claim[j].status
                         /\ claim'[j].exec = claim[j].exec
  BY RowsAnnotated
<1>3. TypeOK'
  BY <1>1, <1>2 DEF IInv, TypeOK, Steps
<1>4. TimeInv'
  BY <1>1 DEF IInv, TimeInv
<1>5. RowInv' /\ WindowInv'
  BY <1>1, <1>2, RowsKept DEF Inserted
<1>6. CurInv'
  BY <1>1, <1>2 DEF IInv, TypeOK, CurInv, Terminal, Inserted, Finished, Failing
<1> QED
  BY <1>3, <1>4, <1>5, <1>6 DEF IInv

LEMMA FinalizeDetailsStep ==
    ASSUME IInv, FinalizeDetails
    PROVE  IInv'
<1>1. /\ pc = "details" /\ pc' = "baseline"
      /\ UNCHANGED <<clock, account, consistent, trades, window, incidents,
                     baseline, kind, now, key, cur, fate, todo>>
  BY DEF FinalizeDetails, Goto
<1>2. /\ claim' \in [Keys -> Row]
      /\ \A j \in Keys : /\ claim'[j].status = claim[j].status
                         /\ claim'[j].exec = claim[j].exec
  BY RowsAnnotated
<1>3. TypeOK'
  BY <1>1, <1>2 DEF IInv, TypeOK, Steps
<1>4. TimeInv'
  BY <1>1 DEF IInv, TimeInv
<1>5. RowInv' /\ WindowInv'
  BY <1>1, <1>2, RowsKept DEF Inserted
<1>6. CurInv'
  BY <1>1, <1>2 DEF IInv, TypeOK, CurInv, Terminal, Inserted, Finished, Failing
<1> QED
  BY <1>3, <1>4, <1>5, <1>6 DEF IInv

LEMMA RegisterNotificationStep ==
    ASSUME IInv, RegisterNotification
    PROVE  IInv'
<1>1. /\ pc = "notify" /\ pc' = "idle" /\ kind' = "none" /\ now' = 0
      /\ key' = NoKey /\ cur' = NoKey /\ fate' = "NONE" /\ todo' = {}
      /\ UNCHANGED <<clock, account, consistent, trades, window, incidents, baseline>>
  BY DEF RegisterNotification, EndSession
<1>2. /\ claim' \in [Keys -> Row]
      /\ \A j \in Keys : /\ claim'[j].status = claim[j].status
                         /\ claim'[j].exec = claim[j].exec
  BY RowsAnnotated
<1>3. TypeOK'
  BY <1>1, <1>2, WeeksAssumption DEF IInv, TypeOK, NoKey
<1>4. TimeInv'
  BY <1>1 DEF IInv, TypeOK, TimeInv
<1>5. RowInv' /\ WindowInv'
  BY <1>1, <1>2, RowsKept DEF Inserted
<1>6. CurInv'
  BY <1>1 DEF CurInv, Inserted, Finished, Failing
<1> QED
  BY <1>3, <1>4, <1>5, <1>6 DEF IInv

\* Inserting a RUNNING row for the week whose window holds the instant now.
LEMMA RowInserted ==
    ASSUME IInv, NEW k \in Keys, NEW r \in Row,
           k = KeyAt(now), claim[k].status = "NONE",
           r.status = "RUNNING", r.exec = "NONE",
           claim' = [claim EXCEPT ![k] = r],
           pc # "idle", pc \notin Inserted, pc' \in Inserted, cur' = k,
           UNCHANGED <<clock, trades, window>>
    PROVE  /\ claim' \in [Keys -> Row]
           /\ claim'[k] = r
           /\ RowInv' /\ WindowInv'
           /\ \A j \in Keys : Terminal(claim[j]) => claim'[j] = claim[j]
<1>1. claim' \in [Keys -> Row] /\ claim'[k] = r
      /\ \A j \in Keys \ {k} : claim'[j] = claim[j]
  BY DEF IInv, TypeOK
<1>2. 2 * k - 1 <= clock
  BY KeyAtFact DEF IInv, TypeOK, TimeInv, Keys, NoKey
<1>3. \A j \in Keys : claim[j].status # "RUNNING"
  BY DEF IInv, RowInv
<1>4. RowInv'
  BY <1>1, <1>2, <1>3 DEF IInv, RowInv, Committed
<1>5. window[k] # "MISSED_SCHEDULE"
  BY DEF IInv, TimeInv, Keys, NoKey
<1>6. WindowInv'
  BY <1>1, <1>5 DEF IInv, WindowInv, Terminal, Past
<1> QED
  BY <1>1, <1>4, <1>6 DEF Terminal

\* Finishing the row of the session.
LEMMA RowFinished ==
    ASSUME IInv, pc \in Inserted, NEW r \in Row,
           Terminal(r), r.exec = claim[cur].exec,
           claim' = [claim EXCEPT ![cur] = r],
           UNCHANGED <<clock, trades, window, cur>>
    PROVE  /\ claim' \in [Keys -> Row]
           /\ RowInv' /\ WindowInv'
           /\ \A j \in Keys : Terminal(claim[j]) => Terminal(claim'[j])
           /\ Terminal(claim'[cur])
<1>1. cur \in Keys /\ claim[cur].status = "RUNNING"
  BY DEF IInv, CurInv
<1>2. claim' \in [Keys -> Row] /\ claim'[cur] = r
      /\ \A j \in Keys \ {cur} : claim'[j] = claim[j]
  BY <1>1 DEF IInv, TypeOK
<1>3. pc # "idle"
  BY DEF Inserted
<1>4. RowInv'
  BY <1>1, <1>2, <1>3 DEF IInv, RowInv, Committed, Terminal
<1>5. WindowInv'
  BY <1>1, <1>2 DEF IInv, WindowInv, Terminal, Past
<1> QED
  BY <1>1, <1>2, <1>4, <1>5 DEF Terminal

LEMMA FailInsertStep ==
    ASSUME IInv, FailInsert
    PROVE  IInv'
<1>1. CASE key = NoKey \/ claim[key].status # "NONE"
  BY <1>1, WeeksAssumption
     DEF FailInsert, EndSession, IInv, TypeOK, TimeInv, RowInv, CurInv, WindowInv,
         NoKey, Committed, Terminal, Past, Inserted, Finished, Failing
<1>2. CASE key # NoKey /\ claim[key].status = "NONE"
  <2> DEFINE r == NewRow(Official, Official /\ fate = "KILL_SWITCH_ACTIVATED")
  <2>1. /\ pc = "failInsert" /\ pc' = "failFinish" /\ cur' = key
        /\ claim' = [claim EXCEPT ![key] = r]
        /\ UNCHANGED <<clock, account, consistent, trades, window, incidents,
                       baseline, kind, now, key, fate, todo>>
    BY <1>2 DEF FailInsert
  <2>2. key \in Keys /\ key = KeyAt(now)
    BY <1>2, <2>1 DEF IInv, TypeOK, TimeInv
  <2>3. r \in Row /\ r.status = "RUNNING" /\ r.exec = "NONE"
    BY NewRowFact DEF Official, dry
  <2> HIDE DEF r
  <2>4. /\ claim' \in [Keys -> Row] /\ claim'[key] = r
        /\ RowInv' /\ WindowInv'
        /\ \A j \in Keys : Terminal(claim[j]) => claim'[j] = claim[j]
    BY <1>2, <2>1, <2>2, <2>3, RowInserted DEF Inserted
  <2>5. TypeOK'
    BY <2>1, <2>2, <2>4 DEF IInv, TypeOK, Steps
  <2>6. TimeInv'
    BY <2>1 DEF IInv, TimeInv
  <2>7. CurInv'
    BY <2>1, <2>2, <2>3, <2>4
       DEF IInv, TypeOK, CurInv, Committed, Inserted, Finished, Failing
  <2> QED
    BY <2>4, <2>5, <2>6, <2>7 DEF IInv
<1> QED
  BY <1>1, <1>2

LEMMA RunRefusedStep ==
    ASSUME IInv, RunRefused
    PROVE  IInv'
<1>1. CASE RefusedKey = NoKey
  BY <1>1, WeeksAssumption
     DEF RunRefused, EndSession, IInv, TypeOK, TimeInv, RowInv, CurInv, WindowInv,
         NoKey, Committed, Terminal, Past, Inserted, Finished, Failing
<1>2. CASE RefusedKey # NoKey
  <2>1. /\ RefusedKey \in Keys /\ RefusedKey = KeyAt(now)
        /\ claim[RefusedKey].status = "NONE"
    BY <1>2, KeyAtFact DEF RunRefused, RefusedKey, IInv, TypeOK
  <2> DEFINE k == RefusedKey
             r == NewRow(Official, Official)
  <2>2. /\ pc = "run" /\ pc' = "halt" /\ cur' = k
        /\ claim' = [claim EXCEPT ![k] = r]
        /\ UNCHANGED <<clock, account, consistent, trades, window, incidents,
                       baseline, kind, now, key, fate, todo>>
    BY <1>2 DEF RunRefused
  <2>3. r \in Row /\ r.status = "RUNNING" /\ r.exec = "NONE"
    BY NewRowFact DEF Official, dry
  <2> HIDE DEF k, r
  <2>4. k \in Keys /\ k = KeyAt(now) /\ claim[k].status = "NONE"
    BY <2>1 DEF k
  <2>5. /\ claim' \in [Keys -> Row] /\ claim'[k] = r
        /\ RowInv' /\ WindowInv'
        /\ \A j \in Keys : Terminal(claim[j]) => claim'[j] = claim[j]
    BY <2>2, <2>3, <2>4, RowInserted DEF Inserted
  <2>6. TypeOK'
    BY <2>2, <2>4, <2>5 DEF IInv, TypeOK, Steps
  <2>7. TimeInv'
    BY <2>2 DEF IInv, TimeInv
  <2>8. CurInv'
    BY <2>2, <2>3, <2>4, <2>5
       DEF IInv, TypeOK, CurInv, Committed, Inserted, Finished, Failing
  <2> QED
    BY <2>5, <2>6, <2>7, <2>8 DEF IInv
<1> QED
  BY <1>1, <1>2

LEMMA RunClaimsStep ==
    ASSUME IInv, RunClaims
    PROVE  IInv'
<1> DEFINE k == KeyAt(now)
           r == NewRow(Official, Official)
<1>1. /\ pc = "run" /\ pc' = "execute" /\ cur' = k
      /\ claim' = [claim EXCEPT ![k] = r]
      /\ UNCHANGED <<clock, account, consistent, trades, window, incidents,
                     baseline, kind, now, key, fate, todo>>
  BY DEF RunClaims
<1>2. k \in Keys /\ k = KeyAt(now) /\ claim[k].status = "NONE"
  BY KeyAtFact DEF RunClaims, IInv, TypeOK
<1>3. r \in Row /\ r.status = "RUNNING" /\ r.exec = "NONE"
  BY NewRowFact DEF Official, dry
<1> HIDE DEF k, r
<1>4. /\ claim' \in [Keys -> Row] /\ claim'[k] = r
      /\ RowInv' /\ WindowInv'
      /\ \A j \in Keys : Terminal(claim[j]) => claim'[j] = claim[j]
  BY <1>1, <1>2, <1>3, RowInserted DEF Inserted
<1>5. TypeOK'
  BY <1>1, <1>2, <1>4 DEF IInv, TypeOK, Steps
<1>6. TimeInv'
  BY <1>1 DEF IInv, TimeInv
<1>7. CurInv'
  BY <1>1, <1>2, <1>3, <1>4
     DEF IInv, TypeOK, CurInv, Committed, Inserted, Finished, Failing
<1> QED
  BY <1>4, <1>5, <1>6, <1>7 DEF IInv

LEMMA ExecuteStep ==
    ASSUME IInv, Execute
    PROVE  IInv'
<1>1. /\ pc = "execute" /\ pc' = "runFinish"
      /\ trades' = [trades EXCEPT ![cur] = @ + 1]
      /\ UNCHANGED <<clock, account, consistent, window, incidents, baseline,
                     kind, now, key, cur, fate, todo>>
  BY DEF Execute, Goto
<1>2. cur \in Keys /\ claim[cur].status = "RUNNING" /\ ~Committed(claim[cur])
  BY <1>1 DEF IInv, CurInv, Inserted
<1>3. PICK x \in Executions : claim' = [claim EXCEPT ![cur] = Commit(@, x)]
  BY DEF Execute
<1>4. /\ Commit(claim[cur], x) \in Row
      /\ Commit(claim[cur], x).status = "RUNNING"
      /\ Committed(Commit(claim[cur], x))
  BY <1>2, CommitFact DEF IInv, TypeOK
<1>5. /\ claim' \in [Keys -> Row]
      /\ claim'[cur].status = "RUNNING" /\ Committed(claim'[cur])
      /\ \A j \in Keys \ {cur} : claim'[j] = claim[j]
  BY <1>2, <1>3, <1>4 DEF IInv, TypeOK
<1>6. /\ trades' \in [Keys -> Nat]
      /\ trades'[cur] = 1
      /\ \A j \in Keys \ {cur} : trades'[j] = trades[j]
  BY <1>1, <1>2 DEF IInv, TypeOK, RowInv
<1>7. TypeOK'
  BY <1>1, <1>5, <1>6 DEF IInv, TypeOK, Steps
<1>8. TimeInv'
  BY <1>1 DEF IInv, TimeInv
<1>9. RowInv'
  BY <1>1, <1>2, <1>5, <1>6 DEF IInv, RowInv, Committed, Inserted
<1>10. CurInv'
  BY <1>1, <1>2, <1>5 DEF IInv, TypeOK, CurInv, Terminal, Inserted, Finished, Failing
<1>11. WindowInv'
  BY <1>1, <1>2, <1>5 DEF IInv, WindowInv, Terminal, Past
<1> QED
  BY <1>7, <1>8, <1>9, <1>10, <1>11 DEF IInv

LEMMA RunFinishStep ==
    ASSUME IInv, RunFinish
    PROVE  IInv'
<1>1. CASE ~consistent
  BY <1>1 DEF RunFinish, Goto, IInv, TypeOK, TimeInv, RowInv, CurInv, WindowInv,
       Committed, Terminal, Past, Inserted, Finished, Failing, Steps
<1>2. CASE consistent
  <2> DEFINE r == Finish(claim[cur], "EXECUTED", TRUE)
  <2>1. /\ pc = "runFinish" /\ pc' = "details"
        /\ claim' = [claim EXCEPT ![cur] = r]
        /\ UNCHANGED <<clock, account, consistent, trades, window, incidents,
                       baseline, kind, now, key, cur, fate, todo>>
    BY <1>2 DEF RunFinish, Goto
  <2>2. cur \in Keys /\ claim[cur] \in Row
    BY <2>1 DEF IInv, TypeOK, CurInv, Inserted
  <2>3. r \in Row /\ r.exec = claim[cur].exec /\ r.status = "EXECUTED"
    BY <2>2, FinishFact DEF Statuses
  <2> HIDE DEF r
  <2>4. /\ claim' \in [Keys -> Row]
        /\ RowInv' /\ WindowInv'
        /\ \A j \in Keys : Terminal(claim[j]) => Terminal(claim'[j])
        /\ Terminal(claim'[cur])
    BY <2>1, <2>2, <2>3, RowFinished DEF Inserted, Terminal
  <2>5. TypeOK'
    BY <2>1, <2>4 DEF IInv, TypeOK, Steps
  <2>6. TimeInv'
    BY <2>1 DEF IInv, TimeInv
  <2>7. CurInv'
    BY <2>1, <2>2, <2>4 DEF IInv, TypeOK, CurInv, Inserted, Finished, Failing
  <2> QED
    BY <2>4, <2>5, <2>6, <2>7 DEF IInv
<1> QED
  BY <1>1, <1>2

LEMMA HaltFinishStep ==
    ASSUME IInv, HaltFinish
    PROVE  IInv'
<1> DEFINE r == Finish(claim[cur], "KILL_SWITCH", FALSE)
<1>1. /\ pc = "haltFinish" /\ pc' = "details"
      /\ claim' = [claim EXCEPT ![cur] = r]
      /\ UNCHANGED <<clock, account, consistent, trades, window, incidents,
                     baseline, kind, now, key, cur, fate, todo>>
  BY DEF HaltFinish, Goto
<1>2. cur \in Keys /\ claim[cur] \in Row
  BY <1>1 DEF IInv, TypeOK, CurInv, Inserted
<1>3. r \in Row /\ r.exec = claim[cur].exec /\ r.status = "KILL_SWITCH"
  BY <1>2, FinishFact DEF Statuses
<1> HIDE DEF r
<1>4. /\ claim' \in [Keys -> Row]
      /\ RowInv' /\ WindowInv'
      /\ \A j \in Keys : Terminal(claim[j]) => Terminal(claim'[j])
      /\ Terminal(claim'[cur])
  BY <1>1, <1>2, <1>3, RowFinished DEF Inserted, Terminal
<1>5. TypeOK'
  BY <1>1, <1>4 DEF IInv, TypeOK, Steps
<1>6. TimeInv'
  BY <1>1 DEF IInv, TimeInv
<1>7. CurInv'
  BY <1>1, <1>2, <1>4 DEF IInv, TypeOK, CurInv, Inserted, Finished, Failing
<1> QED
  BY <1>4, <1>5, <1>6, <1>7 DEF IInv

LEMMA FailFinishStep ==
    ASSUME IInv, FailFinish
    PROVE  IInv'
<1> DEFINE r == Finish(claim[cur], fate, consistent)
<1>1. /\ pc = "failFinish" /\ pc' = "failWindow"
      /\ claim' = [claim EXCEPT ![cur] = r]
      /\ UNCHANGED <<clock, account, consistent, trades, window, incidents,
                     baseline, kind, now, key, cur, fate, todo>>
  BY DEF FailFinish, Goto
<1>2. /\ cur \in Keys /\ claim[cur] \in Row
      /\ fate \in {"RELEASE_PROVENANCE_FAILURE", "KILL_SWITCH_ACTIVATED"}
  BY <1>1 DEF IInv, TypeOK, CurInv, Inserted, Failing
<1>3. r \in Row /\ r.exec = claim[cur].exec /\ r.status = fate
  <2>1. consistent \in BOOLEAN
    BY DEF IInv, TypeOK
  <2>2. fate \in Statuses
    BY <1>2 DEF Statuses
  <2> QED
    BY <1>2, <2>1, <2>2, FinishFact
<1> HIDE DEF r
<1>4. /\ claim' \in [Keys -> Row]
      /\ RowInv' /\ WindowInv'
      /\ \A j \in Keys : Terminal(claim[j]) => Terminal(claim'[j])
      /\ Terminal(claim'[cur])
  BY <1>1, <1>2, <1>3, RowFinished DEF Inserted, Terminal
<1>5. TypeOK'
  BY <1>1, <1>4 DEF IInv, TypeOK, Steps
<1>6. TimeInv'
  BY <1>1 DEF IInv, TimeInv
<1>7. CurInv'
  BY <1>1, <1>2, <1>4 DEF IInv, TypeOK, CurInv, Inserted, Finished, Failing
<1> QED
  BY <1>4, <1>5, <1>6, <1>7 DEF IInv

-----------------------------------------------------------------------------
(* Steps that leave the run rows alone *)

LEMMA SessionEnds ==
    ASSUME IInv, EndSession, account' \in {"ACTIVE", "HALTED"},
           UNCHANGED <<clock, consistent, claim, trades, window, incidents, baseline>>
    PROVE  IInv'
BY WeeksAssumption
   DEF EndSession, IInv, TypeOK, TimeInv, RowInv, CurInv, WindowInv, NoKey,
       Committed, Terminal, Past, Inserted, Finished, Failing

\* Writing an outcome into the window row of a run that is over.
LEMMA WindowWritten ==
    ASSUME IInv, NEW k \in Keys, Terminal(claim[k]),
           NEW o \in Outcomes \cup {"NONE"},
           window' = [window EXCEPT ![k] = o],
           UNCHANGED <<clock, claim, now, kind>>, pc # "idle"
    PROVE  /\ window' \in [Keys -> Outcomes \cup {"NONE", "MISSED_SCHEDULE"}]
           /\ WindowInv'
           /\ KeyAt(now') # NoKey => window'[KeyAt(now')] # "MISSED_SCHEDULE"
<1>1. o # "MISSED_SCHEDULE"
  BY OutcomeFact
<1>2. KeyAt(now) \in Keys \cup {NoKey}
  BY KeyAtFact DEF IInv, TypeOK
<1> QED
  BY <1>1, <1>2 DEF IInv, TypeOK, WindowInv, TimeInv, Terminal, Past, Keys, NoKey

LEMMA RecordMissedStep ==
    ASSUME IInv, RecordMissedWindow
    PROVE  IInv'
<1>1. /\ pc \in {"missed", "missedLate"}
      /\ UNCHANGED <<clock, account, consistent, claim, trades, baseline,
                     pc, kind, now, key, cur, fate, todo>>
  BY DEF RecordMissedWindow, session
<1>2. PICK k \in Keys :
         /\ Past(k, now) /\ window[k] = "NONE"
         /\ IF claim[k].status \notin {"NONE", "RUNNING"}
            THEN /\ window' = [window EXCEPT ![k] = CoarseOutcome(claim[k])]
                 /\ UNCHANGED incidents
            ELSE /\ window' = [window EXCEPT ![k] = "MISSED_SCHEDULE"]
                 /\ incidents' = incidents \cup {<<"MISSED_SCHEDULE", k>>}
  BY DEF RecordMissedWindow, IsLeast, Unrecorded
<1>3. /\ incidents' \subseteq (ErrorOutcomes \cup {"MISSED_SCHEDULE", "INCOMPLETE_DELIVERY"}) \X Keys
      /\ RowInv' /\ CurInv'
  BY <1>1, <1>2 DEF IInv, TypeOK, RowInv, CurInv, Committed, Terminal
<1>4. CASE Terminal(claim[k])
  <2>1. /\ CoarseOutcome(claim[k]) \in Outcomes
        /\ window' = [window EXCEPT ![k] = CoarseOutcome(claim[k])]
    BY <1>2, <1>4, CoarseOutcomeFact DEF Terminal, IInv, TypeOK
  <2>2. /\ window' \in [Keys -> Outcomes \cup {"NONE", "MISSED_SCHEDULE"}]
        /\ WindowInv'
        /\ KeyAt(now') # NoKey => window'[KeyAt(now')] # "MISSED_SCHEDULE"
    BY <1>1, <1>4, <2>1, WindowWritten
  <2> QED
    BY <1>1, <1>3, <2>2 DEF IInv, TypeOK, TimeInv
<1>5. CASE ~Terminal(claim[k])
  <2>1. claim[k].status = "NONE"
    BY <1>1, <1>5 DEF IInv, RowInv, Terminal, Inserted
  <2>2. window' = [window EXCEPT ![k] = "MISSED_SCHEDULE"]
    BY <1>2, <2>1
  <2>3. /\ KeyAt(now) \in Keys \cup {NoKey}
        /\ KeyAt(now) # NoKey => now = 2 * KeyAt(now) - 1
    BY KeyAtFact DEF IInv, TypeOK
  <2>4. KeyAt(now) # k /\ Past(k, clock)
    BY <1>2, <2>3 DEF IInv, TypeOK, TimeInv, Past, Keys, NoKey
  <2>5. TypeOK'
    BY <1>1, <1>3, <2>2 DEF IInv, TypeOK
  <2>6. TimeInv' /\ WindowInv'
    BY <1>1, <2>1, <2>2, <2>3, <2>4
       DEF IInv, TypeOK, TimeInv, WindowInv, Terminal, Past, Keys, NoKey
  <2> QED
    BY <1>3, <2>5, <2>6 DEF IInv
<1> QED
  BY <1>4, <1>5

LEMMA OpenSessionStep ==
    ASSUME IInv, NEW c \in Kinds, OpenSession(c)
    PROVE  IInv'
<1>1. /\ pc = "idle" /\ pc' \in {"recover", "missed", "reset"}
      /\ kind' = c /\ now' = clock
      /\ claim' = [k \in Keys |-> Recovered(claim[k])]
      /\ todo' \subseteq Keys
      /\ UNCHANGED <<clock, account, consistent, trades, window, incidents,
                     baseline, key, cur, fate>>
  BY DEF OpenSession, Unfinalized, Kinds
<1>2. \A k \in todo' : Terminal(claim'[k])
  BY DEF OpenSession, Unfinalized, Terminal
<1>3. \A k \in Keys :
         /\ claim'[k] \in Row
         /\ claim'[k].status # "RUNNING"
         /\ claim'[k].exec = claim[k].exec
         /\ Terminal(claim[k]) => claim'[k] = claim[k]
         /\ claim'[k].status = "NONE" => claim'[k].exec = "NONE"
         /\ claim[k].status = "NONE" => claim'[k].status = "NONE"
  BY <1>1, RecoveredFact DEF IInv, TypeOK, RowInv
<1>4. TypeOK'
  BY <1>1, <1>3 DEF IInv, TypeOK, Steps
<1>5. /\ KeyAt(clock) \in Keys \cup {NoKey}
      /\ KeyAt(clock) # NoKey => clock = 2 * KeyAt(clock) - 1
  BY KeyAtFact DEF IInv, TypeOK
<1>6. TimeInv'
  BY <1>1, <1>5 DEF IInv, TypeOK, TimeInv, WindowInv, Past, Keys, NoKey
<1>7. RowInv'
  BY <1>1, <1>3 DEF IInv, RowInv, Committed
<1>8. CurInv'
  BY <1>1, <1>2 DEF CurInv, Inserted, Finished, Failing
<1>9. WindowInv'
  BY <1>1, <1>3 DEF IInv, WindowInv, Terminal, Past
<1> QED
  BY <1>4, <1>6, <1>7, <1>8, <1>9 DEF IInv

LEMMA RecoverWindowStep ==
    ASSUME IInv, RecoverWindow
    PROVE  IInv'
<1>1. /\ pc = "recoverWindow" /\ pc' = "recoverIncident"
      /\ window' = [window EXCEPT ![cur] = claim[cur].outcome]
      /\ UNCHANGED <<clock, account, consistent, claim, trades, incidents,
                     baseline, kind, now, key, cur, fate, todo>>
  BY DEF RecoverWindow, Goto
<1>2. cur \in Keys /\ Terminal(claim[cur]) /\ claim[cur].outcome \in Outcomes \cup {"NONE"}
  BY <1>1, OutcomeFact DEF IInv, TypeOK, CurInv, Row, Finished, Failing
<1>3. /\ window' \in [Keys -> Outcomes \cup {"NONE", "MISSED_SCHEDULE"}]
      /\ WindowInv'
      /\ KeyAt(now') # NoKey => window'[KeyAt(now')] # "MISSED_SCHEDULE"
  BY <1>1, <1>2, WindowWritten
<1>4. RowInv' /\ CurInv'
  BY <1>1 DEF IInv, RowInv, CurInv, Committed, Terminal, Inserted, Finished, Failing
<1> QED
  BY <1>1, <1>3, <1>4 DEF IInv, TypeOK, TimeInv, Steps

LEMMA FinalizeWindowStep ==
    ASSUME IInv, FinalizeWindow
    PROVE  IInv'
<1>1. /\ pc = "window" /\ pc' = "incident"
      /\ window' = [window EXCEPT ![cur] = claim[cur].outcome]
      /\ UNCHANGED <<clock, account, consistent, claim, trades, incidents,
                     baseline, kind, now, key, cur, fate, todo>>
  BY DEF FinalizeWindow, Goto
<1>2. cur \in Keys /\ Terminal(claim[cur]) /\ claim[cur].outcome \in Outcomes \cup {"NONE"}
  BY <1>1, OutcomeFact DEF IInv, TypeOK, CurInv, Row, Finished, Failing
<1>3. /\ window' \in [Keys -> Outcomes \cup {"NONE", "MISSED_SCHEDULE"}]
      /\ WindowInv'
      /\ KeyAt(now') # NoKey => window'[KeyAt(now')] # "MISSED_SCHEDULE"
  BY <1>1, <1>2, WindowWritten
<1>4. RowInv' /\ CurInv'
  BY <1>1 DEF IInv, RowInv, CurInv, Committed, Terminal, Inserted, Finished, Failing
<1> QED
  BY <1>1, <1>3, <1>4 DEF IInv, TypeOK, TimeInv, Steps

LEMMA FailWindowStep ==
    ASSUME IInv, FailWindow
    PROVE  IInv'
<1>1. /\ pc = "failWindow" /\ pc' = "failIncident"
      /\ window' = [window EXCEPT ![cur] = fate]
      /\ UNCHANGED <<clock, account, consistent, claim, trades, incidents,
                     baseline, kind, now, key, cur, fate, todo>>
  BY DEF FailWindow, Goto
<1>2. cur \in Keys /\ Terminal(claim[cur]) /\ fate \in Outcomes \cup {"NONE"}
  BY <1>1, OutcomeFact DEF IInv, TypeOK, CurInv, Row, Finished, Failing
<1>3. /\ window' \in [Keys -> Outcomes \cup {"NONE", "MISSED_SCHEDULE"}]
      /\ WindowInv'
      /\ KeyAt(now') # NoKey => window'[KeyAt(now')] # "MISSED_SCHEDULE"
  BY <1>1, <1>2, WindowWritten
<1>4. RowInv' /\ CurInv'
  BY <1>1 DEF IInv, RowInv, CurInv, Committed, Terminal, Inserted, Finished, Failing
<1> QED
  BY <1>1, <1>3, <1>4 DEF IInv, TypeOK, TimeInv, Steps

-----------------------------------------------------------------------------
(* The theorems *)

LEMMA InitInv == Init => IInv
<1> SUFFICES ASSUME Init PROVE IInv
  OBVIOUS
<1>1. NoRow \in Row /\ NoRow.status = "NONE" /\ NoRow.exec = "NONE"
  BY NoRowFact
<1>2. KeyAt(0) = NoKey
  BY KeyAtFact, WeeksAssumption DEF NoKey, Keys
<1> QED
  BY <1>1, <1>2, WeeksAssumption
     DEF Init, IInv, TypeOK, TimeInv, RowInv, CurInv, WindowInv, Committed, NoKey,
         Past, Terminal, Inserted, Finished, Failing

LEMMA NextInv ==
    ASSUME IInv, [Next]_vars
    PROVE  IInv'
<1>1. CASE Tick
  <2>1. /\ clock' = clock + 1 /\ clock' \in 0 .. 2 * Weeks
        /\ UNCHANGED <<account, consistent, claim, trades, window, incidents,
                       baseline, pc, kind, now, key, cur, fate, todo>>
    BY <1>1, WeeksAssumption DEF Tick, store, session, IInv, TypeOK
  <2>2. TypeOK'
    BY <2>1 DEF IInv, TypeOK
  <2>3. TimeInv'
    BY <2>1 DEF IInv, TypeOK, TimeInv
  <2>4. RowInv'
    BY <2>1 DEF IInv, TypeOK, RowInv, Committed, Keys
  <2>5. CurInv'
    BY <2>1 DEF IInv, CurInv, Committed, Terminal
  <2>6. WindowInv'
    BY <2>1 DEF IInv, TypeOK, WindowInv, Terminal, Past, Keys
  <2> QED
    BY <2>2, <2>3, <2>4, <2>5, <2>6 DEF IInv
<1>2. CASE LedgerDamaged \/ LedgerRepaired
  <2>1. consistent' \in BOOLEAN
    BY <1>2 DEF LedgerDamaged, LedgerRepaired
  <2>2. UNCHANGED <<clock, account, claim, trades, window, incidents,
                    baseline, pc, kind, now, key, cur, fate, todo>>
    BY <1>2 DEF LedgerDamaged, LedgerRepaired, store, session
  <2>3. TypeOK'
    BY <2>1, <2>2 DEF IInv, TypeOK
  <2>4. TimeInv' /\ RowInv'
    BY <2>2 DEF IInv, TimeInv, RowInv, Committed
  <2>5. CurInv' /\ WindowInv'
    BY <2>2 DEF IInv, CurInv, WindowInv, Committed, Terminal
  <2> QED
    BY <2>3, <2>4, <2>5 DEF IInv
<1>3. ASSUME NEW c \in Kinds, OpenSession(c)
      PROVE  IInv'
  BY <1>3, OpenSessionStep
<1>4. CASE Crash \/ AuditEnds \/ LeaveUndecided \/ ProvenanceRetryable \/ FetchFails
           \/ DataHalt \/ RunOutsideWindow \/ DryRunEnds \/ ResetKillSwitch
  BY <1>4, SessionEnds DEF Crash, AuditEnds, LeaveUndecided, ProvenanceRetryable,
       FetchFails, DataHalt, RunOutsideWindow, DryRunEnds, ResetKillSwitch, store,
       IInv, TypeOK
<1> USE DEF store, IInv, TypeOK, TimeInv, RowInv, CurInv, WindowInv, Committed, Terminal,
        Past, Inserted, Finished, Failing, Steps, Goto
<1>5. CASE RecoveryStep
  <2>1. CASE RecoverDetails
    BY <2>1, RecoverDetailsStep
  <2>2. CASE RecoverBaseline
    BY <2>2 DEF RecoverBaseline, EnsureBaseline
  <2>3. CASE RecoverWindow
    BY <2>3, RecoverWindowStep
  <2>4. CASE RecoverIncident
    BY <2>4 DEF RecoverIncident
  <2>5. CASE RecoverNotify
    BY <2>5, RecoverNotifyStep
  <2>6. CASE EndRecovery
    BY <2>6 DEF EndRecovery
  <2> QED
    BY <1>5, <2>1, <2>2, <2>3, <2>4, <2>5, <2>6 DEF RecoveryStep
<1>6. CASE AuditStep
  <2>1. CASE RecordMissedWindow
    BY <2>1, RecordMissedStep
  <2>2. CASE AuditEnds
    BY <1>4, <2>2
  <2>3. CASE DeriveKey
    BY <2>3, KeyAtFact DEF DeriveKey, NoKey, Keys
  <2> QED
    BY <1>6, <2>1, <2>2, <2>3 DEF AuditStep
<1>7. CASE AdmissionStep
  <2>1. CASE LeaveUndecided
    BY <1>4, <2>1
  <2>2. CASE ProvenanceRetryable
    BY <1>4, <2>2
  <2>3. CASE ProvenanceFails
    BY <2>3 DEF ProvenanceFails, ErrorOutcomes
  <2>4. CASE RefuseHalted
    BY <2>4 DEF RefuseHalted, ErrorOutcomes
  <2>5. CASE StartFetch
    BY <2>5 DEF StartFetch
  <2>6. CASE FetchFails
    BY <1>4, <2>6
  <2>7. CASE FetchReturns
    BY <2>7, KeyAtFact DEF FetchReturns, NoKey, Keys
  <2> QED
    BY <1>7, <2>1, <2>2, <2>3, <2>4, <2>5, <2>6, <2>7 DEF AdmissionStep
<1>8. CASE FailureStep
  <2>1. CASE FailInsert
    BY <2>1, FailInsertStep
  <2>2. CASE FailFinish
    BY <2>2, FailFinishStep
  <2>3. CASE FailWindow
    BY <2>3, FailWindowStep
  <2>4. CASE FailIncident
    BY <2>4 DEF FailIncident, ErrorOutcomes
  <2> QED
    BY <1>8, <2>1, <2>2, <2>3, <2>4 DEF FailureStep
<1>9. CASE RunStep
  <2>1. CASE RunRefused
    BY <2>1, RunRefusedStep
  <2>2. CASE DataHalt
    BY <1>4, <2>2
  <2>3. CASE RunOutsideWindow
    BY <1>4, <2>3
  <2>4. CASE DryRunEnds
    BY <1>4, <2>4
  <2>5. CASE RunClaims
    BY <2>5, RunClaimsStep
  <2>6. CASE Execute
    BY <2>6, ExecuteStep
  <2>7. CASE RunFinish
    BY <2>7, RunFinishStep
  <2>8. CASE ActivateKillSwitch
    BY <2>8 DEF ActivateKillSwitch
  <2>9. CASE HaltFinish
    BY <2>9, HaltFinishStep
  <2> QED
    BY <1>9, <2>1, <2>2, <2>3, <2>4, <2>5, <2>6, <2>7, <2>8, <2>9 DEF RunStep
<1>10. CASE FinalizeStep
  <2>1. CASE FinalizeDetails
    BY <2>1, FinalizeDetailsStep
  <2>2. CASE FinalizeBaseline
    BY <2>2 DEF FinalizeBaseline, EnsureBaseline
  <2>3. CASE FinalizeWindow
    BY <2>3, FinalizeWindowStep
  <2>4. CASE FinalizeIncident
    BY <2>4 DEF FinalizeIncident, ErrorOutcomes
  <2>5. CASE RegisterNotification
    BY <2>5, RegisterNotificationStep
  <2> QED
    BY <1>10, <2>1, <2>2, <2>3, <2>4, <2>5 DEF FinalizeStep
<1>11. CASE UNCHANGED vars
  BY <1>11 DEF vars, session
<1> QED
  BY <1>1, <1>2, <1>3, <1>4, <1>5, <1>6, <1>7, <1>8, <1>9, <1>10, <1>11
     DEF Next, SessionStep

\* The invariant holds in every reachable state.
THEOREM Invariance == Spec => []IInv
BY InitInv, NextInv, PTL DEF Spec

\* Every reachable state is well typed.
THEOREM TypeCorrect == Spec => []TypeOK
BY Invariance, PTL DEF IInv

\* However often a run is interrupted, recovered and launched again, the schedule
\* key of a week is executed at most once.
THEOREM AtMostOneExecution == Spec => []ExecutedAtMostOnce
<1>1. IInv => ExecutedAtMostOnce
  BY DEF IInv, RowInv, ExecutedAtMostOnce
<1> QED
  BY <1>1, Invariance, PTL

\* Run rows and window rows agree; a missed week was never traded.
THEOREM TablesAgree == Spec => []WindowsAgreeWithRuns
<1>1. IInv => WindowsAgreeWithRuns
  BY DEF IInv, RowInv, WindowInv, Terminal, Past, WindowsAgreeWithRuns
<1> QED
  BY <1>1, Invariance, PTL


-----------------------------------------------------------------------------
(* The kill switch *)

\* A session about to trade runs on an active account, one about to finish a run
\* as KILL_SWITCH on a halted one: no step in between changes the account.
HaltInv ==
    /\ pc = "execute" => account = "ACTIVE"
    /\ pc = "haltFinish" => account = "HALTED"

LEMMA HaltStep ==
    ASSUME HaltInv, [Next]_vars
    PROVE  HaltInv'
<1>1. CASE UNCHANGED <<account, pc>>
  BY <1>1 DEF HaltInv
<1>2. CASE pc' \notin {"execute", "haltFinish"}
  BY <1>2 DEF HaltInv
<1>3. CASE RunClaims
  BY <1>3 DEF RunClaims, Refused, HaltInv
<1>4. CASE ActivateKillSwitch
  BY <1>4 DEF ActivateKillSwitch, Goto, HaltInv
<1>5. CASE Tick \/ LedgerDamaged \/ LedgerRepaired \/ UNCHANGED vars \/ RecordMissedWindow
  BY <1>1, <1>5 DEF Tick, LedgerDamaged, LedgerRepaired, RecordMissedWindow,
       session, vars
<1>6. CASE \/ Crash \/ ResetKillSwitch \/ AuditEnds \/ LeaveUndecided
           \/ ProvenanceRetryable \/ FetchFails \/ DataHalt \/ RunOutsideWindow
           \/ DryRunEnds \/ RegisterNotification
  BY <1>2, <1>6 DEF Crash, ResetKillSwitch, AuditEnds, LeaveUndecided,
       ProvenanceRetryable, FetchFails, DataHalt, RunOutsideWindow, DryRunEnds,
       RegisterNotification, EndSession
<1>7. CASE RecoveryStep \/ DeriveKey \/ FailureStep \/ \E c \in Kinds : OpenSession(c)
  BY <1>2, <1>7 DEF RecoveryStep, RecoverDetails, RecoverBaseline, RecoverWindow,
       RecoverIncident, RecoverNotify, EndRecovery, DeriveKey, FailureStep,
       FailInsert, FailFinish, FailWindow, FailIncident, OpenSession, Kinds,
       Goto, EndSession
<1>8. CASE \/ ProvenanceFails \/ RefuseHalted \/ StartFetch \/ FetchReturns
           \/ RunRefused \/ Execute \/ RunFinish \/ HaltFinish
  BY <1>2, <1>8 DEF ProvenanceFails, RefuseHalted, StartFetch, FetchReturns,
       RunRefused, Execute, RunFinish, HaltFinish, Goto, EndSession
<1>9. CASE FinalizeDetails \/ FinalizeBaseline \/ FinalizeWindow \/ FinalizeIncident
  BY <1>2, <1>9 DEF FinalizeDetails, FinalizeBaseline, FinalizeWindow,
       FinalizeIncident, Goto
<1> QED
  BY <1>3, <1>4, <1>5, <1>6, <1>7, <1>8, <1>9
     DEF Next, SessionStep, AuditStep, AdmissionStep, RunStep, FinalizeStep

\* Only HaltFinish gives a run the status KILL_SWITCH.
LEMMA OnlyHaltFinish ==
    ASSUME IInv, [Next]_vars, NEW k \in Keys,
           claim'[k].status = "KILL_SWITCH", claim[k].status # "KILL_SWITCH"
    PROVE  HaltFinish
<1>1. ASSUME NEW j \in Keys, NEW r, claim' = [claim EXCEPT ![j] = r],
             r.status # "KILL_SWITCH"
      PROVE  FALSE
  BY <1>1 DEF IInv, TypeOK
<1>2. claim' # claim
  OBVIOUS
<1>3. ASSUME NEW c \in Kinds, OpenSession(c)
      PROVE  FALSE
  <2>1. claim'[k] = Recovered(claim[k])
    BY <1>3 DEF OpenSession
  <2>2. CASE claim[k].status = "RUNNING" /\ Committed(claim[k])
    <3>1. claim[k] \in Row
      BY DEF IInv, TypeOK
    <3>2. Finish(claim[k], "RECOVERED_COMMITTED", FALSE).status = "RECOVERED_COMMITTED"
      BY <3>1, FinishFact DEF Statuses
    <3> QED
      BY <2>1, <2>2, <3>2 DEF Recovered
  <2>3. CASE ~(claim[k].status = "RUNNING" /\ Committed(claim[k]))
    BY <2>1, <2>3, NoRowFact DEF Recovered
  <2> QED
    BY <2>2, <2>3
<1>4. CASE RecoverDetails \/ RecoverNotify \/ FinalizeDetails \/ RegisterNotification
  BY <1>4, RowsAnnotated
<1>5. CASE FailInsert \/ RunRefused \/ RunClaims
  <2>1. Official \in BOOLEAN /\ (Official /\ fate = "KILL_SWITCH_ACTIVATED") \in BOOLEAN
    BY DEF Official, dry
  <2>2. KeyAt(now) \in Keys \cup {NoKey} /\ key \in Keys \cup {NoKey}
    BY KeyAtFact DEF IInv, TypeOK
  <2>3. PICK j \in Keys, p \in BOOLEAN : claim' = [claim EXCEPT ![j] = NewRow(Official, p)]
    BY <1>2, <1>5, <2>1, <2>2 DEF FailInsert, RunRefused, RunClaims, RefusedKey
  <2>4. NewRow(Official, p).status = "RUNNING"
    BY <2>1, NewRowFact
  <2> QED
    BY <1>1, <2>3, <2>4
<1>6. CASE Execute
  <2>1. cur \in Keys /\ claim[cur] \in Row /\ claim[cur].status = "RUNNING"
    BY <1>6 DEF Execute, IInv, TypeOK, CurInv, Inserted
  <2>2. PICK x \in Executions : claim' = [claim EXCEPT ![cur] = Commit(claim[cur], x)]
    BY <1>6, <2>1 DEF Execute, IInv, TypeOK
  <2> QED
    BY <1>1, <2>1, <2>2, CommitFact
<1>7. CASE RunFinish \/ FailFinish
  <2>1. cur \in Keys /\ claim[cur] \in Row
    BY <1>7 DEF RunFinish, FailFinish, IInv, TypeOK, CurInv, Inserted
  <2>2. fate \in Statuses \ {"KILL_SWITCH"} \/ RunFinish
    BY <1>7 DEF FailFinish, IInv, CurInv, Failing, Statuses
  <2>3. consistent \in BOOLEAN
    BY DEF IInv, TypeOK
  <2>4. PICK s \in Statuses \ {"KILL_SWITCH"}, v \in BOOLEAN :
          claim' = [claim EXCEPT ![cur] = Finish(claim[cur], s, v)]
    <3>1. CASE RunFinish
      BY <1>2, <2>1, <3>1 DEF RunFinish, IInv, TypeOK, Statuses
    <3>2. CASE FailFinish /\ fate \in Statuses \ {"KILL_SWITCH"}
      BY <2>1, <2>3, <3>2 DEF FailFinish, IInv, TypeOK
    <3> QED
      BY <1>7, <2>2, <3>1, <3>2
  <2> QED
    BY <1>1, <2>1, <2>4, FinishFact
<1>8. CASE \/ Tick \/ LedgerDamaged \/ LedgerRepaired \/ Crash \/ ResetKillSwitch
           \/ RecoverBaseline \/ RecoverWindow \/ RecoverIncident \/ EndRecovery
           \/ AuditStep \/ AdmissionStep \/ FailWindow \/ FailIncident
           \/ UNCHANGED vars
  BY <1>2, <1>8 DEF Tick, LedgerDamaged, LedgerRepaired, Crash, ResetKillSwitch,
       RecoverBaseline, RecoverWindow, RecoverIncident, EndRecovery, AuditStep,
       RecordMissedWindow, AuditEnds, DeriveKey, AdmissionStep, LeaveUndecided,
       ProvenanceRetryable, ProvenanceFails, RefuseHalted, StartFetch,
       FetchFails, FetchReturns, FailWindow, FailIncident, store, vars
<1>9. CASE \/ DataHalt \/ RunOutsideWindow \/ DryRunEnds \/ ActivateKillSwitch
           \/ FinalizeBaseline \/ FinalizeWindow \/ FinalizeIncident
  BY <1>2, <1>9 DEF DataHalt, RunOutsideWindow, DryRunEnds, ActivateKillSwitch,
       FinalizeBaseline, FinalizeWindow, FinalizeIncident, store
<1> QED
  BY <1>3, <1>4, <1>5, <1>6, <1>7, <1>8, <1>9
     DEF Next, SessionStep, RecoveryStep, FailureStep, RunStep, FinalizeStep

\* Only Execute trades.
LEMMA OnlyExecute ==
    ASSUME [Next]_vars, trades' # trades
    PROVE  Execute
BY DEF Next, SessionStep, Tick, LedgerDamaged, LedgerRepaired, Crash, OpenSession,
       ResetKillSwitch, RecoveryStep, RecoverDetails, RecoverBaseline, RecoverWindow,
       RecoverIncident, RecoverNotify, EndRecovery, AuditStep, RecordMissedWindow,
       AuditEnds, DeriveKey, AdmissionStep, LeaveUndecided, ProvenanceRetryable,
       ProvenanceFails, RefuseHalted, StartFetch, FetchFails, FetchReturns,
       FailureStep, FailInsert, FailFinish, FailWindow, FailIncident, RunStep,
       RunRefused, DataHalt, RunOutsideWindow, DryRunEnds, RunClaims, RunFinish,
       ActivateKillSwitch, HaltFinish, FinalizeStep, FinalizeDetails,
       FinalizeBaseline, FinalizeWindow, FinalizeIncident, RegisterNotification,
       store, vars

\* Nothing trades on a halted account, and a run is finished as KILL_SWITCH only
\* once the account is halted, whatever crashes and restarts come in between.
THEOREM KillSwitch == Spec => KillSwitchHolds
<1>1. Init => HaltInv
  BY DEF Init, HaltInv
<1>2. HaltInv /\ [Next]_vars => HaltInv'
  BY HaltStep
<1>3. IInv /\ HaltInv /\ [Next]_vars =>
        [\A k \in Keys :
            /\ trades'[k] # trades[k] => account = "ACTIVE"
            /\ claim'[k].status = "KILL_SWITCH" /\ claim[k].status # "KILL_SWITCH"
                  => account = "HALTED"]_vars
  <2> SUFFICES ASSUME IInv, HaltInv, [Next]_vars, NEW k \in Keys
               PROVE  /\ trades'[k] # trades[k] => account = "ACTIVE"
                      /\ claim'[k].status = "KILL_SWITCH" /\ claim[k].status # "KILL_SWITCH"
                            => account = "HALTED"
    OBVIOUS
  <2>1. ASSUME trades'[k] # trades[k] PROVE account = "ACTIVE"
    BY <2>1, OnlyExecute DEF Execute, HaltInv
  <2>2. ASSUME claim'[k].status = "KILL_SWITCH", claim[k].status # "KILL_SWITCH"
        PROVE  account = "HALTED"
    BY <2>2, OnlyHaltFinish DEF HaltFinish, HaltInv
  <2> QED
    BY <2>1, <2>2
<1> QED
  BY <1>1, <1>2, <1>3, Invariance, PTL DEF Spec, KillSwitchHolds

-----------------------------------------------------------------------------
(* What a step may do to one row *)

\* The fields that no step changes once the row is inserted.
SameRun(r, q) == q.official = r.official /\ q.prov = r.prov

\* An interrupted run is recovered when a session opens.
RowRecovered(r, q) ==
    /\ pc = "idle"
    /\ r.status = "RUNNING"
    /\ q.status \in {"NONE", "RECOVERED_COMMITTED"}
    /\ q.exec = r.exec
    /\ q.outcome \in {"NONE", r.outcome}
    /\ q.notified => r.notified

\* A run is inserted; one that will trade has provenance if it is official.
RowInsertedFor(k, r, q) ==
    /\ r.status = "NONE"
    /\ q.status = "RUNNING" /\ q.exec = "NONE" /\ q.outcome = "NONE" /\ ~q.notified
    /\ pc' \in {"failFinish", "halt", "execute"} /\ cur' = k
    /\ pc' = "execute" => (q.official => q.prov)

\* The session's run commits its execution.
RowTraded(k, r, q) ==
    /\ pc = "execute" /\ pc' = "runFinish" /\ cur = k
    /\ q.status = r.status /\ q.outcome = r.outcome /\ q.notified = r.notified
    /\ SameRun(r, q)

\* The session's run becomes terminal.
RowEnded(k, r, q) ==
    /\ pc \in {"failFinish", "runFinish", "haltFinish"}
    /\ pc' \in {"failWindow", "details"} /\ cur = k
    /\ Terminal(q)
    /\ q.status = "EXECUTED" => pc = "runFinish"
    /\ q.exec = r.exec /\ q.outcome = r.outcome /\ q.notified = r.notified
    /\ SameRun(r, q)

\* The diagnostics of a run are recorded.
RowDiagnosed(k, r, q) ==
    /\ \/ pc = "recover" /\ r.outcome = "NONE" /\ k \in todo /\ cur' = k
       \/ pc = "details" /\ cur = k
    /\ q.status = r.status /\ q.exec = r.exec /\ q.notified = r.notified
    /\ q.outcome \in Outcomes
    /\ SameRun(r, q)

\* The notification of a run is registered, or kept.
RowRegistered(k, r, q) ==
    /\ pc \in {"recoverNotify", "notify"} /\ cur = k
    /\ pc = "recoverNotify" /\ r.notified => q.notified
    /\ q.status = r.status /\ q.exec = r.exec /\ q.outcome = r.outcome
    /\ q.sound = r.sound /\ q.clean = r.clean
    /\ SameRun(r, q)

RowStep(k, r, q) ==
    \/ q = r
    \/ RowRecovered(r, q)
    \/ RowInsertedFor(k, r, q)
    \/ RowTraded(k, r, q)
    \/ RowEnded(k, r, q)
    \/ RowDiagnosed(k, r, q)
    \/ RowRegistered(k, r, q)

LEMMA NewRowFields ==
    ASSUME NEW official \in BOOLEAN, NEW prov \in BOOLEAN
    PROVE  LET q == NewRow(official, prov)
           IN  /\ q.status = "RUNNING" /\ q.exec = "NONE"
               /\ q.outcome = "NONE" /\ ~q.notified
               /\ q.official = official /\ q.prov = prov
BY DEF NewRow, NoRow

LEMMA NoRowFields ==
    NoRow.status = "NONE" /\ NoRow.exec = "NONE" /\ NoRow.outcome = "NONE" /\ ~NoRow.notified
BY DEF NoRow

LEMMA CommitFields ==
    ASSUME NEW r \in Row, NEW x
    PROVE  LET q == Commit(r, x)
           IN  /\ q.status = r.status /\ q.outcome = r.outcome /\ q.notified = r.notified
               /\ SameRun(r, q)
BY DEF Commit, Row, SameRun

LEMMA FinishFields ==
    ASSUME NEW r \in Row, NEW s, NEW valid \in BOOLEAN
    PROVE  LET q == Finish(r, s, valid)
           IN  /\ q.status = s /\ q.exec = r.exec
               /\ q.outcome = r.outcome /\ q.notified = r.notified
               /\ SameRun(r, q)
BY DEF Finish, Row, SameRun

LEMMA DiagnoseFields ==
    ASSUME NEW r \in Row, NEW o, NEW clean
    PROVE  LET q == Diagnose(r, o, clean)
           IN  /\ q.status = r.status /\ q.exec = r.exec
               /\ q.outcome = o /\ q.notified = r.notified
               /\ SameRun(r, q)
BY DEF Diagnose, Row, SameRun

LEMMA RegisterFields ==
    ASSUME NEW r \in Row, NEW b
    PROVE  LET q == Register(r, b)
           IN  /\ q.status = r.status /\ q.exec = r.exec /\ q.outcome = r.outcome
               /\ q.sound = r.sound /\ q.clean = r.clean /\ q.notified = b
               /\ SameRun(r, q)
BY DEF Register, Row, SameRun

LEMMA RecoveredFields ==
    ASSUME NEW r \in Row
    PROVE  \/ Recovered(r) = r
           \/ /\ r.status = "RUNNING"
              /\ Recovered(r).status \in {"NONE", "RECOVERED_COMMITTED"}
              /\ Recovered(r).exec = r.exec
              /\ Recovered(r).outcome \in {"NONE", r.outcome}
              /\ Recovered(r).notified => r.notified
<1>1. CASE r.status # "RUNNING"
  BY <1>1 DEF Recovered
<1>2. CASE r.status = "RUNNING" /\ Committed(r)
  <2> DEFINE q == Finish(r, "RECOVERED_COMMITTED", FALSE)
  <2>1. Recovered(r) = q
    BY <1>2 DEF Recovered
  <2>2. /\ q.status = "RECOVERED_COMMITTED" /\ q.exec = r.exec
        /\ q.outcome = r.outcome /\ q.notified = r.notified
    BY FinishFields
  <2> HIDE DEF q
  <2>3. Recovered(r).notified => r.notified
    BY <2>1, <2>2
  <2>4. /\ Recovered(r).status = "RECOVERED_COMMITTED"
        /\ Recovered(r).exec = r.exec /\ Recovered(r).outcome = r.outcome
    BY <2>1, <2>2
  <2> QED
    BY <1>2, <2>3, <2>4
<1>3. CASE r.status = "RUNNING" /\ ~Committed(r)
  BY <1>3, NoRowFields DEF Recovered, Committed
<1> QED
  BY <1>1, <1>2, <1>3

\* Every step changes a row in one of these ways.
LEMMA EachRowSteps ==
    ASSUME IInv, [Next]_vars, NEW k \in Keys
    PROVE  RowStep(k, claim[k], claim'[k])
<1>1. claim \in [Keys -> Row] /\ claim[k] \in Row /\ cur \in Keys \cup {NoKey}
  BY DEF IInv, TypeOK
<1>2. ASSUME claim' = claim PROVE RowStep(k, claim[k], claim'[k])
  BY <1>2 DEF RowStep
<1>3. ASSUME NEW j \in Keys, NEW q, claim' = [claim EXCEPT ![j] = q]
      PROVE  j # k => claim'[k] = claim[k]
  BY <1>1, <1>3
<1>4. ASSUME NEW j \in Keys, NEW q, claim' = [claim EXCEPT ![j] = q]
      PROVE  claim'[j] = q
  BY <1>1, <1>4
<1>5. ASSUME NEW c \in Kinds, OpenSession(c)
      PROVE  RowStep(k, claim[k], claim'[k])
  <2>1. claim'[k] = Recovered(claim[k]) /\ pc = "idle"
    BY <1>5 DEF OpenSession
  <2> QED
    BY <1>1, <2>1, RecoveredFields DEF RowStep, RowRecovered
<1>6. CASE RecoverDetails
  <2>1. PICK j \in Keys :
          /\ IsLeast(j, todo)
          /\ IF claim[j].outcome = "NONE"
             THEN \E o \in Classified(claim[j], consistent) :
                     claim' = [claim EXCEPT ![j] = Diagnose(@, o, Clean)]
             ELSE UNCHANGED claim
          /\ cur' = j
    BY <1>6 DEF RecoverDetails
  <2>2. CASE claim[j].outcome = "NONE"
    <3>1. PICK o \in Outcomes : claim' = [claim EXCEPT ![j] = Diagnose(claim[j], o, Clean)]
      BY <1>1, <2>1, <2>2, ClassifiedFact
    <3>2. CASE j = k
      <4>1. claim'[k] = Diagnose(claim[k], o, Clean)
        BY <1>4, <3>1, <3>2
      <4>2. pc = "recover" /\ k \in todo
        BY <1>6, <2>1, <3>2 DEF RecoverDetails, IsLeast
      <4> QED
        BY <1>1, <2>1, <2>2, <3>2, <4>1, <4>2, DiagnoseFields DEF RowStep, RowDiagnosed
    <3>3. CASE j # k
      BY <1>3, <3>1, <3>3 DEF RowStep
    <3> QED
      BY <3>2, <3>3
  <2>3. CASE claim[j].outcome # "NONE"
    BY <1>2, <2>1, <2>3
  <2> QED
    BY <2>2, <2>3
<1>7. CASE FinalizeDetails
  <2>1. pc = "details" /\ cur \in Keys
    BY <1>7 DEF FinalizeDetails, IInv, CurInv, Finished
  <2>2. PICK o \in Outcomes : claim' = [claim EXCEPT ![cur] = Diagnose(claim[cur], o, Clean)]
    BY <1>1, <1>7, <2>1, ClassifiedFact DEF FinalizeDetails
  <2>3. CASE cur = k
    <3>1. claim'[k] = Diagnose(claim[k], o, Clean)
      BY <1>4, <2>2, <2>3
    <3> QED
      BY <1>1, <2>1, <2>3, <3>1, DiagnoseFields DEF RowStep, RowDiagnosed
  <2>4. CASE cur # k
    BY <1>3, <2>1, <2>2, <2>4 DEF RowStep
  <2> QED
    BY <2>3, <2>4
<1>8. CASE RecoverNotify \/ RegisterNotification
  <2>1. pc \in {"recoverNotify", "notify"} /\ cur \in Keys
    BY <1>8 DEF RecoverNotify, RegisterNotification, IInv, CurInv, Finished
  <2>2. PICK b \in BOOLEAN :
          /\ claim' = [claim EXCEPT ![cur] = Register(claim[cur], b)]
          /\ pc = "recoverNotify" /\ claim[cur].notified => b
    <3>1. CASE RecoverNotify
      <4> DEFINE b == claim[cur].notified \/ kind = "paper"
      <4>1. claim' = [claim EXCEPT ![cur] = Register(claim[cur], b)]
        BY <1>1, <2>1, <3>1 DEF RecoverNotify
      <4>2. b \in BOOLEAN /\ (claim[cur].notified => b)
        OBVIOUS
      <4> HIDE DEF b
      <4> QED
        BY <4>1, <4>2
    <3>2. CASE RegisterNotification
      <4> DEFINE b == ~dry
      <4>1. claim' = [claim EXCEPT ![cur] = Register(claim[cur], b)]
        BY <1>1, <2>1, <3>2 DEF RegisterNotification
      <4>2. b \in BOOLEAN /\ pc # "recoverNotify"
        BY <3>2 DEF RegisterNotification
      <4> HIDE DEF b
      <4> QED
        BY <4>1, <4>2
    <3> QED
      BY <1>8, <3>1, <3>2
  <2>3. CASE cur = k
    <3>1. claim'[k] = Register(claim[k], b)
      BY <1>4, <2>2, <2>3
    <3> QED
      BY <1>1, <2>1, <2>2, <2>3, <3>1, RegisterFields DEF RowStep, RowRegistered
  <2>4. CASE cur # k
    BY <1>3, <2>1, <2>2, <2>4 DEF RowStep
  <2> QED
    BY <2>3, <2>4
<1>9. CASE FailInsert \/ RunRefused \/ RunClaims
  <2>1. Official \in BOOLEAN /\ (Official /\ fate = "KILL_SWITCH_ACTIVATED") \in BOOLEAN
    BY DEF Official, dry
  <2>2. KeyAt(now) \in Keys \cup {NoKey} /\ key \in Keys \cup {NoKey}
    BY KeyAtFact DEF IInv, TypeOK
  <2>3. CASE claim' # claim
    <3>1. PICK j \in Keys, p \in BOOLEAN :
            /\ claim[j].status = "NONE"
            /\ claim' = [claim EXCEPT ![j] = NewRow(Official, p)]
            /\ cur' = j /\ pc' \in {"failFinish", "halt", "execute"}
            /\ pc' = "execute" => p = Official
      <4>1. CASE FailInsert
        BY <2>1, <2>2, <2>3, <4>1 DEF FailInsert
      <4>2. CASE RunRefused
        BY <2>1, <2>2, <2>3, <4>2 DEF RunRefused, RefusedKey
      <4>3. CASE RunClaims
        BY <2>1, <2>2, <4>3 DEF RunClaims
      <4> QED
        BY <1>9, <4>1, <4>2, <4>3
    <3>2. CASE j = k
      <4>1. claim'[k] = NewRow(Official, p)
        BY <1>4, <3>1, <3>2
      <4> QED
        BY <2>1, <3>1, <3>2, <4>1, NewRowFields DEF RowStep, RowInsertedFor
    <3>3. CASE j # k
      BY <1>3, <3>1, <3>3 DEF RowStep
    <3> QED
      BY <3>2, <3>3
  <2> QED
    BY <1>2, <2>3
<1>10. CASE Execute
  <2>1. pc = "execute" /\ pc' = "runFinish" /\ cur \in Keys
    BY <1>10 DEF Execute, Goto, IInv, CurInv, Inserted
  <2>2. PICK x \in Executions : claim' = [claim EXCEPT ![cur] = Commit(claim[cur], x)]
    BY <1>1, <1>10, <2>1 DEF Execute
  <2>3. CASE cur = k
    <3>1. claim'[k] = Commit(claim[k], x)
      BY <1>4, <2>2, <2>3
    <3> QED
      BY <1>1, <2>1, <2>3, <3>1, CommitFields DEF RowStep, RowTraded
  <2>4. CASE cur # k
    BY <1>3, <2>1, <2>2, <2>4 DEF RowStep
  <2> QED
    BY <2>3, <2>4
<1>11. CASE RunFinish \/ HaltFinish \/ FailFinish
  <2>1. pc \in {"failFinish", "runFinish", "haltFinish"} /\ cur \in Keys
    BY <1>11 DEF RunFinish, HaltFinish, FailFinish, IInv, CurInv, Inserted
  <2>2. CASE claim' # claim
    <3>1. PICK s \in {"EXECUTED", "KILL_SWITCH", "KILL_SWITCH_ACTIVATED",
                      "RELEASE_PROVENANCE_FAILURE"}, v \in BOOLEAN :
            /\ claim' = [claim EXCEPT ![cur] = Finish(claim[cur], s, v)]
            /\ pc' \in {"failWindow", "details"}
            /\ s = "EXECUTED" => pc = "runFinish"
      <4>1. CASE RunFinish
        BY <1>1, <2>1, <2>2, <4>1 DEF RunFinish, Goto
      <4>2. CASE HaltFinish
        BY <1>1, <2>1, <4>2 DEF HaltFinish, Goto
      <4>3. CASE FailFinish
        <5>1. consistent \in BOOLEAN
              /\ fate \in {"RELEASE_PROVENANCE_FAILURE", "KILL_SWITCH_ACTIVATED"}
          BY <4>3 DEF FailFinish, IInv, TypeOK, CurInv, Failing
        <5> QED
          BY <1>1, <2>1, <4>3, <5>1 DEF FailFinish, Goto
      <4> QED
        BY <1>11, <4>1, <4>2, <4>3
    <3>2. CASE cur = k
      <4>1. claim'[k] = Finish(claim[k], s, v)
        BY <1>4, <3>1, <3>2
      <4> QED
        BY <1>1, <2>1, <3>1, <3>2, <4>1, FinishFields DEF RowStep, RowEnded, Terminal
    <3>3. CASE cur # k
      BY <1>3, <2>1, <3>1, <3>3 DEF RowStep
    <3> QED
      BY <3>2, <3>3
  <2> QED
    BY <1>2, <2>2
<1>12. CASE \/ Tick \/ LedgerDamaged \/ LedgerRepaired \/ Crash \/ ResetKillSwitch
            \/ RecoverBaseline \/ RecoverWindow \/ RecoverIncident \/ EndRecovery
            \/ AuditStep \/ AdmissionStep \/ FailWindow \/ FailIncident
            \/ UNCHANGED vars
  BY <1>2, <1>12 DEF Tick, LedgerDamaged, LedgerRepaired, Crash, ResetKillSwitch,
       RecoverBaseline, RecoverWindow, RecoverIncident, EndRecovery, AuditStep,
       RecordMissedWindow, AuditEnds, DeriveKey, AdmissionStep, LeaveUndecided,
       ProvenanceRetryable, ProvenanceFails, RefuseHalted, StartFetch,
       FetchFails, FetchReturns, FailWindow, FailIncident, store, vars
<1>13. CASE \/ DataHalt \/ RunOutsideWindow \/ DryRunEnds \/ ActivateKillSwitch
            \/ FinalizeBaseline \/ FinalizeWindow \/ FinalizeIncident
  BY <1>2, <1>13 DEF DataHalt, RunOutsideWindow, DryRunEnds, ActivateKillSwitch,
       FinalizeBaseline, FinalizeWindow, FinalizeIncident, store
<1> QED
  BY <1>5, <1>6, <1>7, <1>8, <1>9, <1>10, <1>11, <1>12, <1>13
     DEF Next, SessionStep, RecoveryStep, FailureStep, RunStep, FinalizeStep

-----------------------------------------------------------------------------
(* The forward baseline *)

\* A run that is not over has no diagnostics and no notification, and neither
\* has one whose diagnostics its own session is about to write.
FreshInv ==
    /\ \A k \in Keys : ~Terminal(claim[k]) =>
          claim[k].outcome = "NONE" /\ ~claim[k].notified
    /\ pc = "details" => claim[cur].outcome = "NONE"

\* An official run that trades has provenance from its insertion to its end, and
\* the row of the baseline keeps what made it eligible.
GovernedInv ==
    /\ \A k \in Keys : claim[k].status = "EXECUTED" /\ claim[k].official => claim[k].prov
    /\ pc \in {"execute", "runFinish"} => (claim[cur].official => claim[cur].prov)
    /\ baseline # NoKey => BaselineEligible(claim[baseline])

\* Where the sessions that are about to trade, to finish and to diagnose come from.
LEMMA WhereFrom ==
    ASSUME [Next]_vars
    PROVE  /\ pc' = "details" => \/ pc = "details" /\ cur' = cur /\ claim' = claim
                                 \/ pc \in {"runFinish", "haltFinish"} /\ cur' = cur
           /\ pc' \in {"execute", "runFinish"} =>
                 \/ pc' = pc /\ cur' = cur /\ claim' = claim
                 \/ pc = "execute" /\ cur' = cur
                 \/ RunClaims
           /\ baseline' # baseline =>
                 /\ claim' = claim /\ baseline = NoKey /\ baseline' = cur
                 /\ BaselineEligible(claim[cur])
                 /\ pc \in {"recoverBaseline", "baseline"}
<1>1. CASE pc' = pc /\ cur' = cur /\ claim' = claim /\ baseline' = baseline
  BY <1>1
<1>2. CASE \/ Tick \/ LedgerDamaged \/ LedgerRepaired \/ RecordMissedWindow
           \/ UNCHANGED vars
  BY <1>1, <1>2 DEF Tick, LedgerDamaged, LedgerRepaired, RecordMissedWindow,
       store, session, vars
<1>3. CASE \/ Crash \/ ResetKillSwitch \/ AuditEnds \/ LeaveUndecided
           \/ ProvenanceRetryable \/ FetchFails \/ DataHalt \/ RunOutsideWindow
           \/ DryRunEnds \/ RegisterNotification
  BY <1>3 DEF Crash, ResetKillSwitch, AuditEnds, LeaveUndecided, store,
       ProvenanceRetryable, FetchFails, DataHalt, RunOutsideWindow, DryRunEnds,
       RegisterNotification, EndSession
<1>4. CASE RecoveryStep
  BY <1>4 DEF RecoveryStep, RecoverDetails, RecoverBaseline, RecoverWindow,
       RecoverIncident, RecoverNotify, EndRecovery, EnsureBaseline, Goto, store
<1>5. CASE DeriveKey \/ FailureStep \/ \E c \in Kinds : OpenSession(c)
  BY <1>5 DEF DeriveKey, FailureStep,
       FailInsert, FailFinish, FailWindow, FailIncident, OpenSession, Kinds,
       Goto, EndSession, store
<1>6. CASE \/ ProvenanceFails \/ RefuseHalted \/ StartFetch \/ FetchReturns
           \/ RunRefused \/ RunClaims \/ Execute \/ RunFinish
           \/ ActivateKillSwitch \/ HaltFinish
  BY <1>6 DEF ProvenanceFails, RefuseHalted, StartFetch, FetchReturns,
       RunRefused, RunClaims, Execute, RunFinish, ActivateKillSwitch, HaltFinish,
       Goto, EndSession, store
<1>7. CASE FinalizeDetails \/ FinalizeBaseline \/ FinalizeWindow \/ FinalizeIncident
  BY <1>7 DEF FinalizeDetails, FinalizeBaseline, FinalizeWindow,
       FinalizeIncident, EnsureBaseline, Goto
<1> QED
  BY <1>2, <1>3, <1>4, <1>5, <1>6, <1>7
     DEF Next, SessionStep, AuditStep, AdmissionStep, RunStep, FinalizeStep

LEMMA FreshStep ==
    ASSUME IInv, FreshInv, [Next]_vars
    PROVE  FreshInv'
<1>1. ASSUME NEW k \in Keys, ~Terminal(claim'[k])
      PROVE  claim'[k].outcome = "NONE" /\ ~claim'[k].notified
  <2>1. RowStep(k, claim[k], claim'[k])
    BY EachRowSteps
  <2>2. pc \in Inserted /\ cur = k => claim[k].status = "RUNNING"
    BY DEF IInv, CurInv
  <2>3. pc \in Finished /\ cur = k => Terminal(claim[k])
    BY DEF IInv, CurInv
  <2>4. k \in todo => Terminal(claim[k])
    BY DEF IInv, CurInv
  <2> QED
    BY <1>1, <2>1, <2>2, <2>3, <2>4
       DEF RowStep, RowRecovered, RowInsertedFor, RowTraded, RowEnded,
           RowDiagnosed, RowRegistered, FreshInv, Terminal, Inserted, Finished
<1>2. ASSUME pc' = "details"
      PROVE  claim'[cur'].outcome = "NONE"
  <2>1. CASE pc = "details" /\ cur' = cur /\ claim' = claim
    BY <2>1 DEF FreshInv
  <2>2. CASE pc \in {"runFinish", "haltFinish"} /\ cur' = cur
    <3>1. cur \in Keys /\ claim[cur].status = "RUNNING"
      BY <2>2 DEF IInv, CurInv, Inserted
    <3>2. RowStep(cur, claim[cur], claim'[cur]) /\ claim[cur].outcome = "NONE"
      BY <3>1, EachRowSteps DEF FreshInv, Terminal
    <3> QED
      BY <2>2, <3>1, <3>2 DEF RowStep, RowRecovered, RowInsertedFor, RowTraded,
           RowEnded, RowDiagnosed, RowRegistered
  <2> QED
    BY <1>2, <2>1, <2>2, WhereFrom
<1> QED
  BY <1>1, <1>2 DEF FreshInv

LEMMA GovernedStep ==
    ASSUME IInv, FreshInv, GovernedInv, [Next]_vars
    PROVE  GovernedInv'
<1>1. ASSUME NEW k \in Keys, claim'[k].status = "EXECUTED", claim'[k].official
      PROVE  claim'[k].prov
  <2>1. RowStep(k, claim[k], claim'[k])
    BY EachRowSteps
  <2> QED
    BY <1>1, <2>1
       DEF RowStep, RowRecovered, RowInsertedFor, RowTraded, RowEnded,
           RowDiagnosed, RowRegistered, SameRun, GovernedInv
<1>2. ASSUME pc' \in {"execute", "runFinish"}
      PROVE  claim'[cur'].official => claim'[cur'].prov
  <2>1. CASE pc' = pc /\ cur' = cur /\ claim' = claim
    BY <1>2, <2>1 DEF GovernedInv
  <2>2. CASE pc = "execute" /\ cur' = cur
    <3>1. cur \in Keys /\ claim[cur].status = "RUNNING"
      BY <2>2 DEF IInv, CurInv, Inserted
    <3>2. RowStep(cur, claim[cur], claim'[cur])
      BY <3>1, EachRowSteps
    <3> QED
      BY <1>2, <2>2, <3>1, <3>2 DEF RowStep, RowRecovered, RowInsertedFor, RowTraded,
           RowEnded, RowDiagnosed, RowRegistered, SameRun, GovernedInv
  <2>3. CASE RunClaims
    <3>1. /\ cur' = KeyAt(now) /\ KeyAt(now) # NoKey
          /\ claim' = [claim EXCEPT ![KeyAt(now)] = NewRow(Official, Official)]
      BY <2>3 DEF RunClaims
    <3>2. cur' \in Keys /\ claim'[cur'] = NewRow(Official, Official)
      BY <3>1, KeyAtFact DEF IInv, TypeOK
    <3>3. Official \in BOOLEAN
      BY DEF Official, dry
    <3> QED
      BY <3>2, <3>3, NewRowFields
  <2> QED
    BY <1>2, <2>1, <2>2, <2>3, WhereFrom
<1>3. ASSUME baseline' # NoKey
      PROVE  BaselineEligible(claim'[baseline'])
  <2>1. CASE baseline' # baseline
    BY <2>1, WhereFrom
  <2>2. CASE baseline' = baseline
    <3>1. baseline \in Keys /\ BaselineEligible(claim[baseline])
      BY <1>3, <2>2 DEF IInv, TypeOK, GovernedInv
    <3>2. RowStep(baseline, claim[baseline], claim'[baseline])
      BY <3>1, EachRowSteps
    <3>3. /\ claim[baseline].status = "EXECUTED"
          /\ claim[baseline].outcome # "NONE"
      BY <3>1, OutcomeFact DEF BaselineEligible, Outcomes
    <3>4. pc \in Inserted /\ cur = baseline => claim[baseline].status = "RUNNING"
      BY DEF IInv, CurInv
    <3>5. pc = "details" => cur # baseline
      BY <3>3 DEF FreshInv
    <3> QED
      BY <2>2, <3>1, <3>2, <3>3, <3>4, <3>5
         DEF RowStep, RowRecovered, RowInsertedFor, RowTraded, RowEnded,
             RowDiagnosed, RowRegistered, SameRun, BaselineEligible, Committed, Inserted
  <2> QED
    BY <2>1, <2>2
<1> QED
  BY <1>1, <1>2, <1>3 DEF GovernedInv

LEMMA FreshAlways == Spec => []FreshInv
<1>1. Init => FreshInv
  BY NoRowFields DEF Init, FreshInv
<1>2. IInv /\ FreshInv /\ [Next]_vars => FreshInv'
  BY FreshStep
<1> QED
  BY <1>1, <1>2, Invariance, PTL DEF Spec

\* The forward baseline is an execution of an official run with release
\* provenance and a trading outcome of its own, and it stays one.
THEOREM GovernedBaseline == Spec => []BaselineGoverned
<1>1. Init => GovernedInv
  BY NoRowFields DEF Init, GovernedInv
<1>2. IInv /\ FreshInv /\ GovernedInv /\ [Next]_vars => GovernedInv'
  BY GovernedStep
<1>3. IInv /\ GovernedInv => BaselineGoverned
  BY DEF IInv, TypeOK, RowInv, GovernedInv, BaselineEligible, BaselineGoverned
<1> QED
  BY <1>1, <1>2, <1>3, Invariance, FreshAlways, PTL DEF Spec

-----------------------------------------------------------------------------
(* The evidence of committed executions *)

Reported(k) == <<"INCOMPLETE_DELIVERY", k>> \in incidents
Sealed(k)   == claim[k].outcome # "NONE" /\ window[k] = claim[k].outcome
Evident(k)  == Sealed(k) /\ (claim[k].notified \/ Reported(k))

\* The steps of the recovery of one run, and the way from there to a trade.
RecoveringRun == {"recoverBaseline", "recoverWindow", "recoverIncident", "recoverNotify"}
BeforeTrade ==
    \/ pc = "missed" /\ kind # "audit"
    \/ pc \in {"admit", "fetch", "run", "execute"}

\* A lost delivery is reported, and a notification registered, only after the
\* window row: that of an execution then repeats its diagnostics.
ReportInv ==
    \A k \in Keys :
        /\ Reported(k) => Committed(claim[k])
        /\ Committed(claim[k]) /\ (claim[k].notified \/ Reported(k)) => Sealed(k)

\* How far the session has come with its own run.
StageInv ==
    /\ \A k \in todo : Committed(claim[k])
    /\ pc \in RecoveringRun => cur \in todo
    /\ pc \in {"recoverBaseline", "recoverWindow", "baseline", "window"} =>
          claim[cur].outcome # "NONE"
    /\ pc \in {"recoverIncident", "recoverNotify", "incident", "notify"} =>
          (Committed(claim[cur]) => Sealed(cur))
    /\ pc \in {"failWindow", "failIncident"} => ~Committed(claim[cur])
    /\ pc = "recoverNotify" => claim[cur].notified \/ Reported(cur)

\* The recovery leaves no execution without evidence: what it has not selected
\* has its evidence, and so has everything once it is over.
RecoveryInv ==
    \A k \in Keys : Committed(claim[k]) =>
        /\ pc \in RecoveringRun \cup {"recover"} => k \in todo \/ Evident(k)
        /\ BeforeTrade => Evident(k)

EvidenceInv == ReportInv /\ StageInv /\ RecoveryInv

LEMMA WindowSteps ==
    ASSUME IInv, [Next]_vars, NEW k \in Keys
    PROVE  \/ window'[k] = window[k]
           \/ window[k] = "NONE" /\ claim' = claim /\ pc \in {"missed", "missedLate"}
           \/ /\ pc \in {"recoverWindow", "window", "failWindow"} /\ cur = k
              /\ claim' = claim
              /\ pc # "failWindow" => window'[k] = claim[k].outcome
<1>1. CASE RecordMissedWindow
  BY <1>1 DEF RecordMissedWindow, IsLeast, Unrecorded, IInv, TypeOK
<1>2. CASE RecoverWindow \/ FinalizeWindow \/ FailWindow
  <2>1. cur \in Keys
    BY <1>2 DEF RecoverWindow, FinalizeWindow, FailWindow, IInv, CurInv, Finished
  <2> QED
    BY <1>2, <2>1 DEF RecoverWindow, FinalizeWindow, FailWindow, IInv, TypeOK
<1>3. CASE window' = window
  BY <1>3
<1>4. window' = window \/ RecordMissedWindow \/ RecoverWindow \/ FinalizeWindow \/ FailWindow
  BY DEF Next, SessionStep, Tick, LedgerDamaged, LedgerRepaired, Crash, OpenSession,
       ResetKillSwitch, RecoveryStep, RecoverDetails, RecoverBaseline,
       RecoverIncident, RecoverNotify, EndRecovery, AuditStep,
       AuditEnds, DeriveKey, AdmissionStep, LeaveUndecided, ProvenanceRetryable,
       ProvenanceFails, RefuseHalted, StartFetch, FetchFails, FetchReturns,
       FailureStep, FailInsert, FailFinish, FailIncident, RunStep,
       RunRefused, DataHalt, RunOutsideWindow, DryRunEnds, RunClaims, Execute, RunFinish,
       ActivateKillSwitch, HaltFinish, FinalizeStep, FinalizeDetails,
       FinalizeBaseline, FinalizeIncident, RegisterNotification, store, vars
<1> QED
  BY <1>1, <1>2, <1>3, <1>4

LEMMA ReportSteps ==
    ASSUME IInv, [Next]_vars, NEW k \in Keys
    PROVE  /\ Reported(k) => Reported(k)'
           /\ Reported(k)' /\ ~Reported(k) =>
                 pc = "recoverIncident" /\ cur = k /\ claim' = claim
<1>1. CASE incidents' = incidents
  BY <1>1 DEF Reported
<1>2. CASE RecordMissedWindow
  BY <1>2 DEF RecordMissedWindow, Reported
<1>3. CASE RecoverIncident
  BY <1>3 DEF RecoverIncident, Reported
<1>4. CASE FailIncident
  <2>1. fate \in ErrorOutcomes
    BY <1>4 DEF FailIncident, IInv, CurInv, Failing, ErrorOutcomes
  <2> QED
    BY <1>4, <2>1 DEF FailIncident, Reported, ErrorOutcomes
<1>5. CASE FinalizeIncident
  BY <1>5 DEF FinalizeIncident, Reported, ErrorOutcomes
<1>6. \/ incidents' = incidents
      \/ RecordMissedWindow \/ RecoverIncident \/ FailIncident \/ FinalizeIncident
  BY DEF Next, SessionStep, Tick, LedgerDamaged, LedgerRepaired, Crash, OpenSession,
       ResetKillSwitch, RecoveryStep, RecoverDetails, RecoverBaseline, RecoverWindow,
       RecoverNotify, EndRecovery, AuditStep,
       AuditEnds, DeriveKey, AdmissionStep, LeaveUndecided, ProvenanceRetryable,
       ProvenanceFails, RefuseHalted, StartFetch, FetchFails, FetchReturns,
       FailureStep, FailInsert, FailFinish, FailWindow, RunStep,
       RunRefused, DataHalt, RunOutsideWindow, DryRunEnds, RunClaims, Execute, RunFinish,
       ActivateKillSwitch, HaltFinish, FinalizeStep, FinalizeDetails,
       FinalizeBaseline, FinalizeWindow, RegisterNotification, store, vars
<1> QED
  BY <1>1, <1>2, <1>3, <1>4, <1>5, <1>6

\* Only Execute commits a run, and a sealed run stays as it is.
LEMMA CommittedBefore ==
    ASSUME IInv, [Next]_vars, NEW k \in Keys, Committed(claim'[k])
    PROVE  Committed(claim[k]) \/ pc = "execute"
BY EachRowSteps DEF RowStep, RowRecovered, RowInsertedFor, RowTraded, RowEnded,
       RowDiagnosed, RowRegistered, Committed

LEMMA CommittedStays ==
    ASSUME IInv, [Next]_vars, NEW k \in Keys, Terminal(claim[k]), Committed(claim[k])
    PROVE  Committed(claim'[k])
<1>1. pc = "execute" => cur # k
  BY DEF IInv, CurInv, Inserted, Terminal
<1> QED
  BY <1>1, EachRowSteps DEF RowStep, RowRecovered, RowInsertedFor, RowTraded, RowEnded,
       RowDiagnosed, RowRegistered, Committed, Terminal

LEMMA SealedStays ==
    ASSUME IInv, FreshInv, StageInv, [Next]_vars, NEW k \in Keys,
           Committed(claim[k]), Sealed(k)
    PROVE  /\ Committed(claim'[k]) /\ Sealed(k)'
           /\ claim[k].notified /\ pc # "notify" => claim'[k].notified
<1>1. Terminal(claim[k]) /\ claim[k].outcome # "NONE"
  BY DEF FreshInv, Sealed
<1>2. /\ pc \in Inserted => cur # k
      /\ pc = "details" => cur # k
      /\ pc = "failWindow" => cur # k
  BY <1>1 DEF IInv, CurInv, FreshInv, StageInv, Terminal
<1>3. RowStep(k, claim[k], claim'[k])
  BY EachRowSteps
<1>4. \/ claim'[k] = claim[k]
      \/ RowRegistered(k, claim[k], claim'[k])
  BY <1>1, <1>2, <1>3 DEF RowStep, RowRecovered, RowInsertedFor, RowTraded, RowEnded,
       RowDiagnosed, Terminal, Inserted
<1>5. claim'[k].outcome = claim[k].outcome
  BY <1>4 DEF RowRegistered
<1>6. window'[k] = claim[k].outcome
  BY <1>1, <1>2, WindowSteps DEF Sealed
<1>7. claim[k].notified /\ pc # "notify" => claim'[k].notified
  BY <1>4 DEF RowRegistered
<1> QED
  BY <1>1, <1>5, <1>6, <1>7, CommittedStays DEF Sealed

LEMMA EvidentStays ==
    ASSUME IInv, FreshInv, StageInv, [Next]_vars, NEW k \in Keys,
           Committed(claim[k]), Evident(k), pc # "notify"
    PROVE  Evident(k)'
BY SealedStays, ReportSteps DEF Evident

LEMMA ReportStep ==
    ASSUME IInv, FreshInv, EvidenceInv, [Next]_vars
    PROVE  ReportInv'
<1> SUFFICES ASSUME NEW k \in Keys
             PROVE  /\ Reported(k)' => Committed(claim'[k])
                    /\ Committed(claim'[k]) /\ (claim'[k].notified \/ Reported(k)') => Sealed(k)'
  BY DEF ReportInv
<1>1. RowStep(k, claim[k], claim'[k])
  BY EachRowSteps
<1>2. CASE Committed(claim[k]) /\ Sealed(k)
  BY <1>2, SealedStays DEF EvidenceInv
<1>3. CASE ~(Committed(claim[k]) /\ Sealed(k))
  <2>1. Reported(k)' => Reported(k)
    <3> SUFFICES ASSUME pc = "recoverIncident", cur = k
                 PROVE  FALSE
      BY ReportSteps
    <3> QED
      BY <1>3 DEF EvidenceInv, StageInv, RecoveringRun
  <2>2. ~Reported(k)
    BY <1>3 DEF EvidenceInv, ReportInv
  <2>3. ASSUME Committed(claim'[k]), claim'[k].notified
        PROVE  FALSE
    <3>1. CASE Committed(claim[k])
      <4>1. ~claim[k].notified
        BY <1>3, <3>1 DEF EvidenceInv, ReportInv
      <4>2. pc \in {"recoverNotify", "notify"} /\ cur = k
        BY <1>1, <2>3, <4>1 DEF RowStep, RowRecovered, RowInsertedFor, RowTraded, RowEnded,
             RowDiagnosed, RowRegistered
      <4> QED
        BY <1>3, <3>1, <4>2 DEF EvidenceInv, StageInv
    <3>2. CASE ~Committed(claim[k])
      <4>1. pc = "execute"
        BY <2>3, <3>2, CommittedBefore
      <4>2. cur = k /\ claim'[k].notified = claim[k].notified
        BY <1>1, <2>3, <3>2, <4>1 DEF RowStep, RowRecovered, RowInsertedFor, RowTraded,
             RowEnded, RowDiagnosed, RowRegistered, Committed
      <4>3. ~claim[k].notified
        BY <4>1, <4>2 DEF IInv, CurInv, Inserted, FreshInv, Terminal
      <4> QED
        BY <2>3, <4>2, <4>3
    <3> QED
      BY <3>1, <3>2
  <2> QED
    BY <2>1, <2>2, <2>3
<1> QED
  BY <1>2, <1>3

LEMMA OpenEvidence ==
    ASSUME IInv, FreshInv, EvidenceInv, [Next]_vars, ReportInv',
           NEW c \in Kinds, OpenSession(c)
    PROVE  StageInv' /\ RecoveryInv'
<1>1. /\ pc' = CASE c \in {"paper", "dry"} -> "recover"
                 [] c = "audit"            -> "missed"
                 [] c = "reset"            -> "reset"
      /\ kind' = c
      /\ claim' = [k \in Keys |-> Recovered(claim[k])]
      /\ todo' = IF c \in {"paper", "dry"} THEN Unfinalized(claim', c = "paper") ELSE {}
      /\ UNCHANGED <<window, incidents>>
  BY DEF OpenSession
<1>2. pc' \in {"recover", "missed", "reset"} /\ (pc' = "missed" => kind' = "audit")
      /\ (pc' = "recover" => c \in {"paper", "dry"})
  BY <1>1 DEF Kinds
<1>3. \A k \in todo' : Committed(claim'[k])
  BY <1>1 DEF Unfinalized
<1>4. StageInv'
  BY <1>2, <1>3 DEF StageInv, RecoveringRun
<1>5. ASSUME NEW k \in Keys, Committed(claim'[k]), c \in {"paper", "dry"}, k \notin todo'
      PROVE  Evident(k)'
  <2>1. /\ claim'[k].status # "RUNNING"
        /\ claim'[k].status = "NONE" => claim'[k].exec = "NONE"
    BY <1>1, RecoveredFact DEF IInv, TypeOK, RowInv
  <2>2. claim'[k].notified \/ Reported(k)'
    BY <1>1, <1>5, <2>1 DEF Unfinalized, Committed, Reported
  <2>3. Sealed(k)'
    BY <1>5, <2>2 DEF ReportInv
  <2> QED
    BY <2>2, <2>3 DEF Evident
<1> QED
  BY <1>2, <1>4, <1>5 DEF RecoveryInv, RecoveringRun, BeforeTrade

LEMMA EvidenceStep ==
    ASSUME IInv, FreshInv, EvidenceInv, [Next]_vars
    PROVE  EvidenceInv'
<1>1. ReportInv'
  BY ReportStep
<1>2. ASSUME NEW k \in Keys, Committed(claim'[k]), pc # "execute"
      PROVE  Committed(claim[k])
  BY <1>2, CommittedBefore
<1>3. ASSUME NEW k \in todo PROVE Committed(claim'[k])
  BY <1>3, CommittedStays DEF EvidenceInv, StageInv, IInv, TypeOK, CurInv
<1>4. ASSUME NEW k \in Keys, Committed(claim[k]), Sealed(k) PROVE Sealed(k)'
  BY <1>4, SealedStays DEF EvidenceInv
<1>5. ASSUME NEW k \in Keys, Committed(claim[k]), Evident(k), pc # "notify" PROVE Evident(k)'
  BY <1>5, EvidentStays DEF EvidenceInv
<1>6. /\ pc \in Inserted \cup Finished => cur \in Keys
      /\ todo \subseteq Keys
      /\ pc = "failFinish" => ~Committed(claim[cur])
  BY DEF IInv, TypeOK, CurInv
<1>7. todo' \subseteq todo => \A k \in todo' : Committed(claim'[k])
  BY <1>3
<1> USE DEF EvidenceInv, RecoveringRun, BeforeTrade
<1>8. CASE \/ Tick \/ LedgerDamaged \/ LedgerRepaired \/ UNCHANGED vars
  <2>1. UNCHANGED <<claim, window, incidents, pc, kind, cur, todo>>
    BY <1>8 DEF Tick, LedgerDamaged, LedgerRepaired, store, session, vars
  <2> QED
    BY <1>1, <2>1 DEF StageInv, RecoveryInv, Sealed, Evident, Reported
<1>9. CASE \/ Crash \/ ResetKillSwitch \/ AuditEnds \/ LeaveUndecided
           \/ ProvenanceRetryable \/ FetchFails \/ DataHalt \/ RunOutsideWindow
           \/ DryRunEnds \/ RegisterNotification
  <2>1. pc' = "idle" /\ todo' = {}
    BY <1>9 DEF Crash, ResetKillSwitch, AuditEnds, LeaveUndecided,
       ProvenanceRetryable, FetchFails, DataHalt, RunOutsideWindow, DryRunEnds,
       RegisterNotification, EndSession
  <2> QED
    BY <1>1, <2>1 DEF StageInv, RecoveryInv
<1>10. CASE \E c \in Kinds : OpenSession(c)
  BY <1>1, <1>10, OpenEvidence
<1>11. CASE RecoverDetails
  <2>1. PICK j \in Keys :
          /\ IsLeast(j, todo)
          /\ IF claim[j].outcome = "NONE"
             THEN \E o \in Classified(claim[j], consistent) :
                     claim' = [claim EXCEPT ![j] = Diagnose(@, o, Clean)]
             ELSE UNCHANGED claim
          /\ cur' = j
    BY <1>11 DEF RecoverDetails
  <2>2. pc = "recover" /\ pc' = "recoverBaseline" /\ todo' = todo /\ j \in todo
    BY <1>11, <2>1 DEF RecoverDetails, IsLeast
  <2>3. claim'[j].outcome # "NONE"
    <3>1. CASE claim[j].outcome = "NONE"
      <4>1. PICK o \in Outcomes : claim' = [claim EXCEPT ![j] = Diagnose(claim[j], o, Clean)]
        BY <2>1, <3>1, ClassifiedFact DEF IInv, TypeOK
      <4>2. claim'[j] = Diagnose(claim[j], o, Clean) /\ claim[j] \in Row
        BY <4>1 DEF IInv, TypeOK
      <4> QED
        BY <4>2, DiagnoseFields, OutcomeFact
    <3>2. CASE claim[j].outcome # "NONE"
      BY <2>1, <3>2
    <3> QED
      BY <3>1, <3>2
  <2>4. StageInv'
    BY <1>7, <2>1, <2>2, <2>3 DEF StageInv
  <2>5. RecoveryInv'
    BY <1>2, <1>5, <2>2 DEF RecoveryInv
  <2> QED
    BY <1>1, <2>4, <2>5
<1>12. CASE RecoverBaseline
  <2>1. /\ pc = "recoverBaseline" /\ pc' = "recoverWindow"
        /\ UNCHANGED <<claim, window, incidents, kind, cur, todo>>
    BY <1>12 DEF RecoverBaseline, Goto
  <2> QED
    BY <1>1, <2>1 DEF StageInv, RecoveryInv, Sealed, Evident, Reported
<1>13. CASE RecoverWindow
  <2>1. /\ pc = "recoverWindow" /\ pc' = "recoverIncident"
        /\ window' = [window EXCEPT ![cur] = claim[cur].outcome]
        /\ UNCHANGED <<claim, incidents, kind, cur, todo>>
    BY <1>13 DEF RecoverWindow, Goto
  <2>2. Sealed(cur)'
    BY <1>6, <2>1 DEF Finished, StageInv, Sealed, IInv, TypeOK
  <2>3. StageInv'
    BY <1>7, <2>1, <2>2 DEF StageInv
  <2>4. RecoveryInv'
    BY <1>2, <1>5, <2>1 DEF RecoveryInv
  <2> QED
    BY <1>1, <2>3, <2>4
<1>14. CASE RecoverIncident
  <2>1. /\ pc = "recoverIncident" /\ pc' = "recoverNotify"
        /\ UNCHANGED <<claim, window, kind, cur, todo>>
    BY <1>14 DEF RecoverIncident, Goto
  <2>2. claim'[cur'].notified \/ Reported(cur)'
    BY <1>14, <2>1 DEF RecoverIncident, Reported
  <2>3. StageInv'
    BY <2>1, <2>2 DEF StageInv, Sealed, Reported
  <2>4. RecoveryInv'
    BY <1>2, <1>5, <2>1 DEF RecoveryInv
  <2> QED
    BY <1>1, <2>3, <2>4
<1>15. CASE RecoverNotify
  <2>1. pc = "recoverNotify" /\ pc' = "recover" /\ todo' = todo \ {cur}
    BY <1>15 DEF RecoverNotify
  <2>2. Committed(claim[cur]) /\ Evident(cur) /\ cur \in Keys
    BY <1>6, <2>1 DEF StageInv, Evident, Finished
  <2>3. StageInv'
    BY <1>7, <2>1 DEF StageInv
  <2>4. RecoveryInv'
    BY <1>2, <1>5, <2>1, <2>2 DEF RecoveryInv
  <2> QED
    BY <1>1, <2>3, <2>4
<1>16. CASE \/ EndRecovery \/ DeriveKey \/ StartFetch \/ FetchReturns \/ RunClaims
            \/ RecordMissedWindow
  <2>1. /\ todo' = todo /\ kind' = kind
        /\ pc' \in {"missed", "missedLate", "admit", "fetch", "run", "execute"}
        /\ BeforeTrade \/ (pc = "recover" /\ todo = {}) \/ ~BeforeTrade'
        /\ pc \notin {"execute", "notify"}
    <3>1. CASE EndRecovery
      BY <3>1 DEF EndRecovery, Goto
    <3>2. CASE DeriveKey \/ StartFetch \/ FetchReturns \/ RunClaims
      BY <3>2 DEF DeriveKey, StartFetch, FetchReturns, RunClaims, Goto
    <3>3. CASE RecordMissedWindow
      BY <3>3 DEF RecordMissedWindow, session
    <3> QED
      BY <1>16, <3>1, <3>2, <3>3
  <2>2. StageInv'
    BY <1>7, <2>1 DEF StageInv
  <2>3. RecoveryInv'
    BY <1>2, <1>5, <2>1 DEF RecoveryInv
  <2> QED
    BY <1>1, <2>2, <2>3
<1>17. CASE \/ ProvenanceFails \/ RefuseHalted \/ FailInsert \/ RunRefused \/ Execute
            \/ RunFinish \/ ActivateKillSwitch \/ HaltFinish
  <2>1. /\ todo' \subseteq todo
        /\ pc' \in {"idle", "failInsert", "details"} \cup Inserted
        /\ pc' # "execute"
    BY <1>17 DEF ProvenanceFails, RefuseHalted, FailInsert, RunRefused, Execute,
         RunFinish, ActivateKillSwitch, HaltFinish, Goto, EndSession, Inserted
  <2> QED
    BY <1>1, <1>7, <2>1 DEF StageInv, RecoveryInv, Inserted
<1>18. CASE FailFinish \/ FailWindow \/ FailIncident
  <2>1. /\ todo' = todo /\ cur' = cur
        /\ pc \in {"failFinish", "failWindow", "failIncident"}
        /\ pc' \in {"failWindow", "failIncident", "notify"}
        /\ cur \in Keys /\ ~Committed(claim[cur])
    BY <1>6, <1>18 DEF FailFinish, FailWindow, FailIncident, Goto, StageInv,
         Inserted, Finished
  <2>2. ~Committed(claim'[cur'])
    BY <1>2, <2>1
  <2> QED
    BY <1>1, <1>7, <2>1, <2>2 DEF StageInv, RecoveryInv
<1>19. CASE FinalizeDetails
  <2>1. /\ pc = "details" /\ pc' = "baseline" /\ cur' = cur /\ todo' = todo /\ cur \in Keys
    BY <1>6, <1>19 DEF FinalizeDetails, Goto, Finished
  <2>2. PICK o \in Outcomes : claim' = [claim EXCEPT ![cur] = Diagnose(claim[cur], o, Clean)]
    BY <1>19, <2>1, ClassifiedFact DEF FinalizeDetails, IInv, TypeOK
  <2>3. claim'[cur] = Diagnose(claim[cur], o, Clean) /\ claim[cur] \in Row
    BY <2>1, <2>2 DEF IInv, TypeOK
  <2>4. claim'[cur].outcome # "NONE"
    BY <2>3, DiagnoseFields, OutcomeFact
  <2> QED
    BY <1>1, <1>7, <2>1, <2>4 DEF StageInv, RecoveryInv
<1>20. CASE FinalizeBaseline
  <2>1. pc = "baseline" /\ pc' = "window" /\ UNCHANGED <<claim, cur, todo>>
    BY <1>20 DEF FinalizeBaseline, Goto
  <2> QED
    BY <1>1, <2>1 DEF StageInv, RecoveryInv
<1>21. CASE FinalizeWindow
  <2>1. /\ pc = "window" /\ pc' = "incident"
        /\ window' = [window EXCEPT ![cur] = claim[cur].outcome]
        /\ UNCHANGED <<claim, cur, todo>>
    BY <1>21 DEF FinalizeWindow, Goto
  <2>2. Sealed(cur)'
    BY <1>6, <2>1 DEF Finished, StageInv, Sealed, IInv, TypeOK
  <2> QED
    BY <1>1, <2>1, <2>2 DEF StageInv, RecoveryInv
<1>22. CASE FinalizeIncident
  <2>1. pc = "incident" /\ pc' = "notify" /\ UNCHANGED <<claim, window, cur, todo>>
    BY <1>22 DEF FinalizeIncident, Goto
  <2> QED
    BY <1>1, <2>1 DEF StageInv, RecoveryInv, Sealed
<1> QED
  BY <1>8, <1>9, <1>10, <1>11, <1>12, <1>13, <1>14, <1>15, <1>16, <1>17, <1>18,
     <1>19, <1>20, <1>21, <1>22
     DEF Next, SessionStep, RecoveryStep, AuditStep, AdmissionStep, FailureStep,
         RunStep, FinalizeStep

\* When a week trades, every execution committed before it has its diagnostics, a
\* window row that repeats them, and a notification that is registered or
\* reported missing, whatever crashes, audits and dry runs came in between.
THEOREM EvidenceFirst == Spec => EvidenceBeforeNextTrade
<1>1. Init => EvidenceInv
  BY NoRowFields DEF Init, EvidenceInv, ReportInv, StageInv, RecoveryInv, Reported,
       Committed, RecoveringRun, BeforeTrade
<1>2. IInv /\ FreshInv /\ EvidenceInv /\ [Next]_vars => EvidenceInv'
  BY EvidenceStep
<1>3. IInv /\ EvidenceInv /\ [Next]_vars =>
        [trades' # trades =>
            \A k \in Keys : Committed(claim[k]) =>
                /\ claim[k].outcome # "NONE"
                /\ window[k] = claim[k].outcome
                /\ claim[k].notified \/ <<"INCOMPLETE_DELIVERY", k>> \in incidents]_vars
  <2> SUFFICES ASSUME IInv, EvidenceInv, [Next]_vars, trades' # trades,
                      NEW k \in Keys, Committed(claim[k])
               PROVE  Evident(k)
    BY DEF Evident, Sealed, Reported
  <2>1. pc = "execute"
    BY OnlyExecute DEF Execute
  <2> QED
    BY <2>1 DEF EvidenceInv, RecoveryInv, BeforeTrade
<1> QED
  BY <1>1, <1>2, <1>3, Invariance, FreshAlways, PTL DEF Spec, EvidenceBeforeNextTrade

-----------------------------------------------------------------------------
(***************************************************************************)
(* PaperForward implements WeeklySchedule, for every number of weeks.  A   *)
(* week is seen as decided through its run row and its window row; every   *)
(* step of a session, of time or of the ledger decides one undecided week, *)
(* passes time, or changes no decision.                                    *)
(***************************************************************************)
-----------------------------------------------------------------------------
(* Decisions and the tables *)

\* Decision read off the tables, the invariant having excluded the overlaps.
LEMMA DecisionFact ==
    ASSUME IInv, NEW k \in Keys
    PROVE  /\ Committed(claim[k]) => Decision(k) = "traded"
           /\ ~Committed(claim[k]) /\ Terminal(claim[k]) => Decision(k) = "refused"
           /\ ~Committed(claim[k]) /\ ~Terminal(claim[k]) /\ window[k] = "MISSED_SCHEDULE"
                 => Decision(k) = "missed"
           /\ ~Committed(claim[k]) /\ ~Terminal(claim[k]) /\ window[k] # "MISSED_SCHEDULE"
                 => Decision(k) = "open"
BY DEF Decision, Terminal

LEMMA DecisionFactPrime ==
    ASSUME IInv', NEW k \in Keys
    PROVE  /\ Committed(claim'[k]) => Decision(k)' = "traded"
           /\ ~Committed(claim'[k]) /\ Terminal(claim'[k]) => Decision(k)' = "refused"
           /\ ~Committed(claim'[k]) /\ ~Terminal(claim'[k]) /\ window'[k] = "MISSED_SCHEDULE"
                 => Decision(k)' = "missed"
           /\ ~Committed(claim'[k]) /\ ~Terminal(claim'[k]) /\ window'[k] # "MISSED_SCHEDULE"
                 => Decision(k)' = "open"
BY DEF Decision, Terminal, Committed

\* A step that keeps the execution of every row, does not let a row become or
\* cease to be terminal, and declares no week missed, decides nothing.
LEMMA NothingDecided ==
    ASSUME IInv, IInv', UNCHANGED <<clock, trades>>,
           \A k \in Keys : /\ claim'[k].exec = claim[k].exec
                           /\ Terminal(claim'[k]) \/ Committed(claim'[k])
                                <=> Terminal(claim[k]) \/ Committed(claim[k])
                           /\ ~Terminal(claim[k]) =>
                                (window'[k] = "MISSED_SCHEDULE" <=> window[k] = "MISSED_SCHEDULE")
    PROVE  UNCHANGED Schedule!vars
<1>1. ASSUME NEW k \in Keys PROVE Decision(k)' = Decision(k)
  <2>1. Committed(claim'[k]) <=> Committed(claim[k])
    BY DEF Committed
  <2> QED
    BY <2>1, DecisionFact, DecisionFactPrime
<1> QED
  BY <1>1 DEF Schedule!vars

\* A step that writes neither run rows nor window rows decides nothing.
LEMMA TablesKept ==
    ASSUME UNCHANGED <<clock, trades, claim, window>>
    PROVE  UNCHANGED Schedule!vars
BY DEF Schedule!vars, Decision, Committed

\* A step that decides week k, from an undecided one.
LEMMA OneDecided ==
    ASSUME NEW k \in Keys, NEW d, Decision(k) = "open", Decision(k)' = d,
           \A j \in Keys \ {k} : claim'[j] = claim[j] /\ window'[j] = window[j],
           UNCHANGED clock
    PROVE  Schedule!Decide(k, d)
<1>1. ASSUME NEW j \in Keys \ {k} PROVE Decision(j)' = Decision(j)
  BY <1>1 DEF Decision, Committed
<1> QED
  BY <1>1 DEF Schedule!Decide

-----------------------------------------------------------------------------
(* Steps that decide a week *)

LEMMA ExecuteDecides ==
    ASSUME IInv, IInv', Execute
    PROVE  \E k \in Keys : Schedule!Trade(k)
<1>1. /\ pc = "execute"
      /\ trades' = [trades EXCEPT ![cur] = @ + 1]
      /\ UNCHANGED <<clock, window>>
  BY DEF Execute
<1>2. PICK k \in Keys : k = cur /\ claim[k].status = "RUNNING" /\ ~Committed(claim[k])
  BY <1>1 DEF IInv, CurInv, Inserted
<1>3. PICK x \in Executions : claim' = [claim EXCEPT ![k] = Commit(@, x)]
  BY <1>2 DEF Execute
<1>4. Committed(Commit(claim[k], x))
  BY CommitFact DEF IInv, TypeOK
<1>5. /\ Committed(claim'[k])
      /\ \A j \in Keys \ {k} : claim'[j] = claim[j]
  BY <1>3, <1>4 DEF IInv, TypeOK
<1>6. Decision(k) = "open"
  BY <1>2, DecisionFact DEF IInv, WindowInv, Terminal
<1>7. Decision(k)' = "traded"
  BY <1>5, DecisionFactPrime
<1>8. Schedule!Decide(k, "traded")
  BY <1>1, <1>5, <1>6, <1>7, OneDecided
<1>9. Schedule!Opened(k)
  BY <1>2 DEF IInv, RowInv, Schedule!Opened
<1> QED
  BY <1>1, <1>2, <1>8, <1>9 DEF Schedule!Trade

\* A running row that becomes terminal: its week is refused, unless it traded.
LEMMA FinishDecides ==
    ASSUME IInv, IInv', pc \in Inserted, NEW r,
           claim' = [claim EXCEPT ![cur] = r], Terminal(r), r.exec = claim[cur].exec,
           UNCHANGED <<clock, trades, window>>
    PROVE  (\E k \in Keys : Schedule!Refuse(k)) \/ UNCHANGED Schedule!vars
<1>1. PICK k \in Keys : k = cur /\ claim[k].status = "RUNNING"
  BY DEF IInv, CurInv
<1>2. /\ Terminal(claim'[k]) /\ claim'[k].exec = claim[k].exec
      /\ \A j \in Keys \ {k} : claim'[j] = claim[j]
  BY <1>1 DEF IInv, TypeOK
<1>3. CASE Committed(claim[k])
  BY <1>2, <1>3, NothingDecided DEF Committed, Terminal
<1>4. CASE ~Committed(claim[k])
  <2>1. Decision(k) = "open"
    BY <1>1, <1>4, DecisionFact DEF IInv, WindowInv, Terminal
  <2>2. Decision(k)' = "refused"
    BY <1>2, <1>4, DecisionFactPrime DEF Committed
  <2>3. Schedule!Decide(k, "refused")
    BY <1>2, <2>1, <2>2, OneDecided
  <2>4. Schedule!Opened(k)
    BY <1>1 DEF IInv, RowInv, Schedule!Opened
  <2> QED
    BY <2>3, <2>4 DEF Schedule!Refuse
<1> QED
  BY <1>3, <1>4

LEMMA RecordMissedDecides ==
    ASSUME IInv, IInv', RecordMissedWindow
    PROVE  (\E k \in Keys : Schedule!Miss(k)) \/ UNCHANGED Schedule!vars
<1>1. /\ pc \in {"missed", "missedLate"}
      /\ UNCHANGED <<clock, claim, trades>>
  BY DEF RecordMissedWindow
<1>2. PICK k \in Keys :
         /\ Past(k, now) /\ window[k] = "NONE"
         /\ window' = [window EXCEPT ![k] = IF claim[k].status \notin {"NONE", "RUNNING"}
                                            THEN CoarseOutcome(claim[k])
                                            ELSE "MISSED_SCHEDULE"]
  BY DEF RecordMissedWindow, IsLeast, Unrecorded
<1>3. \A j \in Keys \ {k} : window'[j] = window[j]
  BY <1>2 DEF IInv, TypeOK
<1>4. CASE Terminal(claim[k])
  BY <1>1, <1>3, <1>4, NothingDecided
<1>5. CASE ~Terminal(claim[k])
  <2>1. claim[k].status = "NONE" /\ ~Committed(claim[k])
    BY <1>1, <1>5 DEF IInv, RowInv, Terminal, Inserted, Committed
  <2>2. window'[k] = "MISSED_SCHEDULE"
    BY <1>2, <2>1 DEF IInv, TypeOK
  <2>3. Decision(k) = "open"
    BY <1>2, <1>5, <2>1, DecisionFact
  <2>4. Decision(k)' = "missed"
    BY <1>1, <1>5, <2>1, <2>2, DecisionFactPrime
  <2>5. Schedule!Decide(k, "missed")
    BY <1>1, <1>3, <2>3, <2>4, OneDecided
  <2>6. Schedule!Closed(k)
    BY <1>2 DEF IInv, TypeOK, TimeInv, Past, Keys, Schedule!Closed
  <2> QED
    BY <1>1, <2>5, <2>6 DEF Schedule!Miss
<1> QED
  BY <1>4, <1>5

-----------------------------------------------------------------------------
(* Steps that decide nothing *)

\* A row is inserted into a week that is not missed, or changed without touching
\* its execution or ending it.
LEMMA RowStaysOpen ==
    ASSUME IInv, IInv', NEW k \in Keys, NEW r,
           claim' = [claim EXCEPT ![k] = r],
           r.exec = claim[k].exec, Terminal(r) <=> Terminal(claim[k]),
           UNCHANGED <<clock, trades, window>>
    PROVE  UNCHANGED Schedule!vars
<1>1. \A j \in Keys : /\ claim'[j].exec = claim[j].exec
                      /\ Terminal(claim'[j]) <=> Terminal(claim[j])
  BY DEF IInv, TypeOK
<1> QED
  BY <1>1, NothingDecided DEF Committed

\* An outcome is written into the window row of a run that is over.
LEMMA WindowDecidesNothing ==
    ASSUME IInv, IInv', NEW k \in Keys, Terminal(claim[k]), NEW o,
           window' = [window EXCEPT ![k] = o],
           UNCHANGED <<clock, trades, claim>>
    PROVE  UNCHANGED Schedule!vars
<1>1. \A j \in Keys \ {k} : window'[j] = window[j]
  BY DEF IInv, TypeOK
<1> QED
  BY <1>1, NothingDecided

LEMMA OpenSessionDecidesNothing ==
    ASSUME IInv, IInv', NEW c \in Kinds, OpenSession(c)
    PROVE  UNCHANGED Schedule!vars
<1>1. /\ claim' = [k \in Keys |-> Recovered(claim[k])]
      /\ UNCHANGED <<clock, trades, window>>
  BY DEF OpenSession
<1>2. ASSUME NEW k \in Keys
      PROVE  /\ claim'[k].exec = claim[k].exec
             /\ Terminal(claim'[k]) \/ Committed(claim'[k])
                  <=> Terminal(claim[k]) \/ Committed(claim[k])
  <2>1. CASE claim[k].status = "RUNNING" /\ ~Committed(claim[k])
    <3>1. claim'[k] = NoRow /\ claim[k].exec = "NONE"
      BY <1>1, <2>1 DEF Recovered, Committed
    <3> QED
      BY <2>1, <3>1, NoRowFact DEF Terminal, Committed
  <2>2. CASE claim[k].status = "RUNNING" /\ Committed(claim[k])
    BY <1>1, <2>2, RecoveredFact DEF IInv, TypeOK, RowInv, Committed
  <2>3. CASE claim[k].status # "RUNNING"
    BY <1>1, <2>3 DEF Recovered
  <2> QED
    BY <2>1, <2>2, <2>3
<1> QED
  BY <1>1, <1>2, NothingDecided

-----------------------------------------------------------------------------
(* The refinement *)

LEMMA InitRefines == Init => Schedule!Init
BY NoRowFact DEF Init, Decision, Committed, Keys, Schedule!Init, Schedule!Window

LEMMA FinishRefines ==
    ASSUME IInv, IInv', RunFinish \/ HaltFinish \/ FailFinish
    PROVE  (\E k \in Keys : Schedule!Refuse(k)) \/ UNCHANGED Schedule!vars
<1>1. ASSUME NEW st \in Statuses, st \notin {"NONE", "RUNNING"}, NEW valid \in BOOLEAN,
             pc \in Inserted, claim' = [claim EXCEPT ![cur] = Finish(@, st, valid)],
             UNCHANGED <<clock, trades, window>>
      PROVE  (\E k \in Keys : Schedule!Refuse(k)) \/ UNCHANGED Schedule!vars
  <2>1. claim[cur] \in Row /\ cur \in Keys
    BY <1>1 DEF IInv, TypeOK, CurInv
  <2>2. /\ Finish(claim[cur], st, valid).exec = claim[cur].exec
        /\ Terminal(Finish(claim[cur], st, valid))
    BY <1>1, <2>1, FinishFact DEF Terminal
  <2>3. claim' = [claim EXCEPT ![cur] = Finish(claim[cur], st, valid)]
    BY <1>1, <2>1 DEF IInv, TypeOK
  <2> QED
    BY <1>1, <2>2, <2>3, FinishDecides
<1>2. CASE RunFinish
  <2>1. CASE consistent
    BY <1>1, <1>2, <2>1 DEF RunFinish, Statuses, Inserted
  <2>2. CASE ~consistent
    BY <1>2, <2>2, TablesKept DEF RunFinish
  <2> QED
    BY <2>1, <2>2
<1>3. CASE HaltFinish
  BY <1>1, <1>3 DEF HaltFinish, Statuses, Inserted
<1>4. CASE FailFinish
  <2>1. /\ pc \in Inserted
        /\ claim' = [claim EXCEPT ![cur] = Finish(@, fate, consistent)]
        /\ UNCHANGED <<clock, trades, window>>
    BY <1>4 DEF FailFinish, Inserted
  <2>2. fate \in Statuses /\ fate \notin {"NONE", "RUNNING"}
    BY <1>4 DEF FailFinish, IInv, CurInv, Failing, Statuses
  <2>3. consistent \in BOOLEAN
    BY DEF IInv, TypeOK
  <2> QED
    BY <1>1, <2>1, <2>2, <2>3
<1> QED
  BY <1>2, <1>3, <1>4

LEMMA InsertRefines ==
    ASSUME IInv, IInv', FailInsert \/ RunRefused \/ RunClaims
    PROVE  UNCHANGED Schedule!vars
<1>1. ASSUME NEW k \in Keys, claim[k].status = "NONE",
             NEW official \in BOOLEAN, NEW prov \in BOOLEAN,
             claim' = [claim EXCEPT ![k] = NewRow(official, prov)],
             UNCHANGED <<clock, trades, window>>
      PROVE  UNCHANGED Schedule!vars
  <2>1. /\ NewRow(official, prov).status = "RUNNING"
        /\ NewRow(official, prov).exec = "NONE"
    BY NewRowFact
  <2>2. claim[k].exec = "NONE"
    BY <1>1 DEF IInv, RowInv
  <2> QED
    BY <1>1, <2>1, <2>2, RowStaysOpen DEF Terminal
<1>2. Official \in BOOLEAN /\ KeyAt(now) \in Keys \cup {NoKey}
  BY KeyAtFact DEF Official, dry, IInv, TypeOK
<1>3. CASE FailInsert
  <2>1. CASE key = NoKey \/ claim[key].status # "NONE"
    BY <1>3, <2>1, TablesKept DEF FailInsert
  <2>2. CASE key # NoKey /\ claim[key].status = "NONE"
    <3>1. /\ claim' = [claim EXCEPT ![key] =
                         NewRow(Official, Official /\ fate = "KILL_SWITCH_ACTIVATED")]
          /\ UNCHANGED <<clock, trades, window>>
      BY <1>3, <2>2 DEF FailInsert
    <3>2. key \in Keys
      BY <2>2 DEF IInv, TypeOK
    <3>3. (Official /\ fate = "KILL_SWITCH_ACTIVATED") \in BOOLEAN
      OBVIOUS
    <3> QED
      BY <1>1, <1>2, <2>2, <3>1, <3>2, <3>3
  <2> QED
    BY <2>1, <2>2
<1>4. CASE RunRefused
  <2>1. CASE RefusedKey = NoKey
    BY <1>4, <2>1, TablesKept DEF RunRefused
  <2>2. CASE RefusedKey # NoKey
    <3>1. RefusedKey \in Keys
      BY <1>2, <2>2 DEF RefusedKey
    <3> QED
      BY <1>1, <1>2, <1>4, <2>2, <3>1 DEF RunRefused
  <2> QED
    BY <2>1, <2>2
<1>5. CASE RunClaims
  BY <1>1, <1>2, <1>5 DEF RunClaims
<1> QED
  BY <1>3, <1>4, <1>5

LEMMA StepRefines ==
    ASSUME IInv, [Next]_vars
    PROVE  [Schedule!Next]_(Schedule!vars)
<1> IInv'
  BY NextInv
<1>1. CASE Tick
  <2>1. /\ clock < 2 * Weeks /\ clock' = clock + 1
        /\ UNCHANGED <<claim, trades, window>>
    BY <1>1 DEF Tick, store
  <2>2. UNCHANGED <<trades, [k \in Keys |-> Decision(k)]>>
    BY <2>1 DEF Decision, Committed
  <2> QED
    BY <2>1, <2>2 DEF Schedule!Next, Schedule!PassTime
<1>2. ASSUME NEW c \in Kinds, OpenSession(c)
      PROVE  UNCHANGED Schedule!vars
  BY <1>2, OpenSessionDecidesNothing
<1>3. CASE UNCHANGED <<clock, trades, claim, window>>
  BY <1>3, TablesKept
<1>4. CASE \/ LedgerDamaged \/ LedgerRepaired \/ Crash \/ ResetKillSwitch
           \/ RecoverBaseline \/ RecoverIncident \/ EndRecovery
           \/ AuditEnds \/ DeriveKey \/ AdmissionStep \/ FailIncident
           \/ DataHalt \/ RunOutsideWindow \/ DryRunEnds \/ ActivateKillSwitch
           \/ FinalizeBaseline \/ FinalizeIncident \/ UNCHANGED vars
  <2>1. UNCHANGED <<clock, trades, claim, window>>
    BY <1>4 DEF LedgerDamaged, LedgerRepaired, Crash, ResetKillSwitch,
         RecoverBaseline, RecoverIncident, EndRecovery, AuditEnds, DeriveKey,
         AdmissionStep, LeaveUndecided, ProvenanceRetryable, ProvenanceFails,
         RefuseHalted, StartFetch, FetchFails, FetchReturns, FailIncident,
         DataHalt, RunOutsideWindow, DryRunEnds, ActivateKillSwitch,
         FinalizeBaseline, FinalizeIncident, store, vars
  <2> QED
    BY <2>1, TablesKept
<1>5. CASE RecoverDetails \/ RecoverNotify \/ FinalizeDetails \/ RegisterNotification
  <2>1. UNCHANGED <<clock, trades, window>>
    BY <1>5 DEF RecoverDetails, RecoverNotify, FinalizeDetails, RegisterNotification
  <2>2. \A j \in Keys : /\ claim'[j].status = claim[j].status
                        /\ claim'[j].exec = claim[j].exec
    BY <1>5, RowsAnnotated
  <2> QED
    BY <2>1, <2>2, NothingDecided DEF Terminal, Committed
<1>6. CASE RecoverWindow \/ FinalizeWindow \/ FailWindow
  <2>1. cur \in Keys /\ Terminal(claim[cur])
    BY <1>6 DEF RecoverWindow, FinalizeWindow, FailWindow, IInv, CurInv, Finished
  <2>2. /\ \E o : window' = [window EXCEPT ![cur] = o]
        /\ UNCHANGED <<clock, trades, claim>>
    BY <1>6 DEF RecoverWindow, FinalizeWindow, FailWindow
  <2> QED
    BY <2>1, <2>2, WindowDecidesNothing
<1>7. CASE RecordMissedWindow
  BY <1>7, RecordMissedDecides DEF Schedule!Next, Schedule!Window, Keys
<1>8. CASE FailInsert \/ RunRefused \/ RunClaims
  BY <1>8, InsertRefines
<1>9. CASE Execute
  BY <1>9, ExecuteDecides DEF Schedule!Next, Schedule!Window, Keys
<1>10. CASE RunFinish \/ HaltFinish \/ FailFinish
  BY <1>10, FinishRefines DEF Schedule!Next, Schedule!Window, Keys
<1> QED
  BY <1>1, <1>2, <1>4, <1>5, <1>6, <1>7, <1>8, <1>9, <1>10
     DEF Next, SessionStep, RecoveryStep, AuditStep, FailureStep, RunStep, FinalizeStep

\* Sessions, crashes, recovery and audits implement the abstract schedule: every
\* week is traded in one transaction, refused or missed, at most once and for good.
THEOREM Refinement == Spec => ImplementsSchedule
<1>1. Init => Schedule!Init
  BY InitRefines
<1>2. IInv /\ [Next]_vars => [Schedule!Next]_(Schedule!vars)
  BY StepRefines
<1> QED
  BY <1>1, <1>2, Invariance, PTL DEF Spec, ImplementsSchedule, Schedule!Spec
=============================================================================
