---------------------- MODULE NotificationOutboxProofs ----------------------
(***************************************************************************)
(* The program never sends a message twice on its own, for any set of      *)
(* notifications and any bounds, if the sender's output always decodes.    *)
(***************************************************************************)
EXTENDS NotificationOutbox, TLAPS

\* What the recipient has got or may still get.
Outgoing(m) == delivered[m] + inflight[m]

Released(m) == audits[m]["not-delivered"]

\* One message may go out beyond those an operator declared lost, and none once
\* the notification may be retried.
AccountInv ==
    \A m \in Messages :
        /\ Outgoing(m) <= Released(m) + 1
        /\ status[m] \in {"NONE", "PENDING", "FAILED"} => Outgoing(m) <= Released(m)

\* The process that attempts a delivery knows as much as the tables will.
SessionInv ==
    /\ pc # "idle" => msg \in Messages
    /\ pc \in {"launch", "waiting", "mark"} => status[msg] = "SENDING"
    /\ pc = "launch" => Outgoing(msg) <= Released(msg)
    /\ pc = "waiting" => inflight[msg] >= 1
    /\ pc = "mark" => /\ answer \in {"FAILED", "DELIVERY_UNKNOWN", "DELIVERED"}
                      /\ answer = "FAILED" => Outgoing(msg) <= Released(msg)
                      /\ answer = "DELIVERED" => delivered[msg] > 0

IInv == TypeOK /\ AccountInv /\ SessionInv /\ DeliveredMeansDelivered

-----------------------------------------------------------------------------
(* Attempts and resolutions *)

LEMMA ReleasedFact ==
    ASSUME TypeOK, NEW m \in Messages
    PROVE  Released(m) \in Nat
BY DEF TypeOK, Released, Resolutions

LEMMA NewStatusFact ==
    ASSUME NEW r \in Resolutions
    PROVE  /\ NewStatus(r) \in Statuses
           /\ NewStatus(r) = "FAILED" => r = "not-delivered"
           /\ NewStatus(r) = "DELIVERED" => r = "delivered"
           /\ NewStatus(r) \notin {"NONE", "PENDING"}
BY DEF NewStatus, Resolutions, Statuses

LEMMA SetLastFact ==
    ASSUME NEW s \in Seq(Statuses), NEW st \in Statuses
    PROVE  SetLast(s, st) \in Seq(Statuses)
<1>1. CASE Len(s) = 0
  <2>1. s = [i \in 1 .. Len(s) |-> s[i]]
    OBVIOUS
  <2>2. SetLast(s, st) = [i \in 1 .. Len(s) |-> s[i]]
    BY <1>1, <2>1 DEF SetLast
  <2> QED
    BY <2>1, <2>2
<1>2. CASE Len(s) # 0
  BY <1>2 DEF SetLast
<1> QED
  BY <1>1, <1>2

LEMMA ResolveLatestFact ==
    ASSUME NEW s \in Seq(Statuses), NEW st \in Statuses
    PROVE  ResolveLatest(s, st) \in Seq(Statuses)
<1>1. /\ Len(s) \in Nat
      /\ \A i \in 1 .. Len(s) : ResolveLatest(s, st)[i] \in Statuses
  BY DEF ResolveLatest
<1>2. ResolveLatest(s, st) = [i \in 1 .. Len(s) |-> ResolveLatest(s, st)[i]]
  BY DEF ResolveLatest
<1> QED
  BY <1>1, <1>2

-----------------------------------------------------------------------------
(* Steps of the entry points and of the environment *)

LEMMA InitInv == Init => IInv
BY KindsAssumption
   DEF Init, IInv, TypeOK, AccountInv, SessionInv, DeliveredMeansDelivered, Outgoing,
       Released, Messages, Statuses, Resolutions

\* Ending a session forgets what only the session knew.
LEMMA SessionEnds ==
    ASSUME IInv, EndSession, UNCHANGED <<run, report, rows, outside>>
    PROVE  IInv'
BY DEF EndSession, rows, outside, IInv, TypeOK, AccountInv, SessionInv,
       DeliveredMeansDelivered, Outgoing, Released

LEMMA EntryStep ==
    ASSUME IInv, EntryPoint
    PROVE  IInv'
<1>1. ASSUME NEW m \in Messages, RegisterRow(m), UNCHANGED <<run, report, outside>>,
             \/ UNCHANGED local
             \/ Attempt(m)
      PROVE  IInv'
  <2>1. TypeOK'
    BY <1>1 DEF RegisterRow, Attempt, local, outside, IInv, TypeOK, Statuses
  <2>2. AccountInv' /\ DeliveredMeansDelivered'
    BY <1>1 DEF RegisterRow, Attempt, outside, IInv, TypeOK, AccountInv,
         DeliveredMeansDelivered, Outgoing, Released
  <2>3. SessionInv'
    BY <1>1 DEF RegisterRow, Attempt, local, outside, IInv, TypeOK, SessionInv,
         Outgoing, Released
  <2> QED
    BY <2>1, <2>2, <2>3 DEF IInv
<1>2. ASSUME NEW m \in Paper, RegisterPending(m) \/ SendCommittedRun(m)
      PROVE  IInv'
  BY <1>1, <1>2 DEF RegisterPending, SendCommittedRun, Messages
<1>3. ASSUME NEW m \in Monthly, SendCommittedMonthly(m)
      PROVE  IInv'
  BY <1>1, <1>3 DEF SendCommittedMonthly, Messages
<1>4. ASSUME NEW m \in Paper, Resend(m)
      PROVE  IInv'
  BY <1>4 DEF Resend, Attempt, rows, outside, Messages, IInv, TypeOK, AccountInv,
       SessionInv, DeliveredMeansDelivered, Outgoing, Released
<1> QED
  BY <1>2, <1>3, <1>4 DEF EntryPoint

LEMMA EnvironmentStep ==
    ASSUME IInv, Environment
    PROVE  IInv'
<1>1. ASSUME NEW m \in Paper, RunEnds(m)
      PROVE  IInv'
  BY <1>1 DEF RunEnds, rows, local, outside, IInv, TypeOK, AccountInv, SessionInv,
       DeliveredMeansDelivered, Outgoing, Released
<1>2. ASSUME NEW m \in Messages, NEW state \in {"sealed", "altered", "absent"},
             ReportChanges(m, state)
      PROVE  IInv'
  BY <1>2 DEF ReportChanges, rows, local, outside, IInv, TypeOK, AccountInv,
       SessionInv, DeliveredMeansDelivered, Outgoing, Released
<1>3. ASSUME NEW m \in Messages, NEW delivers \in BOOLEAN, OrphanEnds(m, delivers)
      PROVE  IInv'
  <2>1. /\ inflight[m] \in Nat /\ delivered[m] \in Nat
        /\ inflight[m] > 0
        /\ pc = "waiting" /\ msg = m => inflight[m] > 1
        /\ UNCHANGED <<run, report, rows, local>>
    BY <1>3 DEF OrphanEnds, IInv, TypeOK
  <2>2. /\ inflight' \in [Messages -> Nat] /\ delivered' \in [Messages -> Nat]
        /\ inflight'[m] = inflight[m] - 1
        /\ delivered'[m] \in {delivered[m], delivered[m] + 1}
        /\ \A k \in Messages \ {m} : /\ inflight'[k] = inflight[k]
                                     /\ delivered'[k] = delivered[k]
    BY <1>3, <2>1 DEF OrphanEnds, SenderEnds, IInv, TypeOK
  <2>3. ASSUME NEW k \in Messages
        PROVE  Outgoing(k)' <= Outgoing(k) /\ delivered'[k] >= delivered[k]
    <3>1. /\ delivered[k] \in Nat /\ inflight[k] \in Nat
          /\ delivered'[k] \in Nat /\ inflight'[k] \in Nat
      BY <2>2 DEF IInv, TypeOK
    <3>2. CASE k = m
      BY <2>1, <2>2, <3>1, <3>2 DEF Outgoing
    <3>3. CASE k # m
      BY <2>2, <3>1, <3>3 DEF Outgoing
    <3> QED
      BY <3>2, <3>3
  <2>4. \A k \in Messages : Released(k)' = Released(k) /\ status'[k] = status[k]
    BY <2>1 DEF rows, Released
  <2>5. TypeOK'
    BY <2>1, <2>2 DEF rows, local, IInv, TypeOK
  <2>6. ASSUME NEW k \in Messages
        PROVE  Outgoing(k) \in Int /\ Outgoing(k)' \in Int /\ Released(k) \in Int
    <3>1. /\ delivered[k] \in Nat /\ inflight[k] \in Nat
          /\ delivered'[k] \in Nat /\ inflight'[k] \in Nat
      BY <2>2 DEF IInv, TypeOK
    <3> QED
      BY <3>1, ReleasedFact DEF IInv, Outgoing
  <2>7. AccountInv'
    BY <2>3, <2>4, <2>6 DEF IInv, AccountInv
  <2>8. SessionInv'
    BY <2>1, <2>2, <2>3, <2>4, <2>6 DEF local, rows, IInv, TypeOK, SessionInv
  <2>9. DeliveredMeansDelivered'
    BY <2>1, <2>2, <2>3 DEF rows, IInv, TypeOK, DeliveredMeansDelivered
  <2> QED
    BY <2>5, <2>7, <2>8, <2>9 DEF IInv
<1>4. CASE Crash
  BY <1>4, SessionEnds DEF Crash
<1> QED
  BY <1>1, <1>2, <1>3, <1>4 DEF Environment

-----------------------------------------------------------------------------
(* Steps of an attempt *)

LEMMA AttemptInv ==
    ASSUME IInv, AttemptStep, Decodable = TRUE
    PROVE  IInv'
<1>1. CASE ClaimAttempt
  BY <1>1 DEF ClaimAttempt, Claimable, Retryable, outside, IInv, TypeOK, AccountInv,
       SessionInv, DeliveredMeansDelivered, Outgoing, Released, Statuses
<1>2. CASE ClaimRefused
  BY <1>2, SessionEnds DEF ClaimRefused
<1>3. CASE LaunchSender
  <2> USE <1>3 DEF LaunchSender, rows, outside, IInv, TypeOK, Outgoing, Released,
          Resolutions
  <2>0. msg \in Messages /\ inflight[msg] \in Nat
    BY DEF SessionInv
  <2>1. TypeOK'
    BY <2>0
  <2>2. AccountInv'
    BY <2>0 DEF AccountInv, SessionInv
  <2>3. SessionInv'
    BY <2>0 DEF AccountInv, SessionInv
  <2>4. DeliveredMeansDelivered'
    BY DEF DeliveredMeansDelivered
  <2> QED
    BY <2>1, <2>2, <2>3, <2>4
<1>4. CASE LaunchFails
  BY <1>4 DEF LaunchFails, Answer, rows, outside, IInv, TypeOK, AccountInv, SessionInv,
       DeliveredMeansDelivered, Outgoing, Released, Statuses
<1>5. ASSUME pc = "waiting", NEW d \in BOOLEAN, SenderEnds(msg, d),
             NEW a \in {"FAILED", "DELIVERY_UNKNOWN", "DELIVERED"}, Answer(a),
             a = "FAILED" => d = FALSE, a = "DELIVERED" => d = TRUE,
             UNCHANGED <<run, report, rows>>
      PROVE  IInv'
  <2>1. PICK m \in Messages : m = msg /\ status[m] = "SENDING" /\ inflight[m] >= 1
    BY <1>5 DEF IInv, SessionInv
  <2>2. /\ inflight' \in [Messages -> Nat] /\ delivered' \in [Messages -> Nat]
        /\ inflight'[m] = inflight[m] - 1
        /\ delivered'[m] = delivered[m] + IF d THEN 1 ELSE 0
        /\ \A k \in Messages \ {m} : /\ inflight'[k] = inflight[k]
                                     /\ delivered'[k] = delivered[k]
    BY <1>5, <2>1 DEF SenderEnds, IInv, TypeOK
  <2>3. ASSUME NEW k \in Messages
        PROVE  /\ Outgoing(k)' <= Outgoing(k) /\ delivered'[k] >= delivered[k]
               /\ k = m /\ ~d => Outgoing(k)' = Outgoing(k) - 1
               /\ k = m /\ d => delivered'[k] > 0
    <3>1. /\ delivered[k] \in Nat /\ inflight[k] \in Nat
          /\ delivered'[k] \in Nat /\ inflight'[k] \in Nat
      BY <2>2 DEF IInv, TypeOK
    <3>2. CASE k = m
      BY <2>1, <2>2, <3>1, <3>2 DEF Outgoing
    <3>3. CASE k # m
      BY <2>2, <3>1, <3>3 DEF Outgoing
    <3> QED
      BY <3>2, <3>3
  <2>4. \A k \in Messages : Released(k)' = Released(k) /\ status'[k] = status[k]
    BY <1>5 DEF rows, Released
  <2>5. TypeOK'
    BY <1>5, <2>2 DEF rows, Answer, IInv, TypeOK, Statuses
  <2>6. ASSUME NEW k \in Messages
        PROVE  Outgoing(k) \in Int /\ Outgoing(k)' \in Int /\ Released(k) \in Int
    <3>1. /\ delivered[k] \in Nat /\ inflight[k] \in Nat
          /\ delivered'[k] \in Nat /\ inflight'[k] \in Nat
      BY <2>2 DEF IInv, TypeOK
    <3> QED
      BY <3>1, ReleasedFact DEF IInv, Outgoing
  <2>7. AccountInv'
    BY <2>3, <2>4, <2>6 DEF IInv, AccountInv
  <2>8. DeliveredMeansDelivered'
    BY <1>5, <2>2, <2>3 DEF rows, IInv, TypeOK, DeliveredMeansDelivered
  <2>9. SessionInv'
    <3>1. pc' = "mark" /\ msg' = m /\ answer' = a
      BY <1>5, <2>1 DEF Answer
    <3>2. Outgoing(m) <= Released(m) + 1
      BY DEF IInv, AccountInv
    <3>3. a = "FAILED" => Outgoing(m)' <= Released(m)'
      BY <1>5, <2>3, <2>4, <2>6, <3>2
    <3>4. a = "DELIVERED" => delivered'[m] > 0
      BY <1>5, <2>3
    <3>5. status'[m] = "SENDING"
      BY <2>1, <2>4
    <3> QED
      BY <3>1, <3>3, <3>4, <3>5 DEF SessionInv, Outgoing, Released
  <2> QED
    BY <2>5, <2>7, <2>8, <2>9 DEF IInv
<1>6. CASE SenderSucceeds \/ SenderRejectsUsage \/ SenderAmbiguous
  BY <1>5, <1>6 DEF SenderSucceeds, SenderRejectsUsage, SenderAmbiguous
<1>7. CASE MarkAnswer
  <2>1. PICK m \in Messages : m = msg
    BY <1>7 DEF MarkAnswer, IInv, SessionInv
  <2>2. answer \in {"FAILED", "DELIVERY_UNKNOWN", "DELIVERED"} /\ answer \in Statuses
    BY <1>7 DEF MarkAnswer, IInv, SessionInv, Statuses
  <2>3. SetLast(attempts[m], answer) \in Seq(Statuses)
    BY <2>2, SetLastFact DEF IInv, TypeOK
  <2>4. /\ status' = [status EXCEPT ![m] = answer]
        /\ attempts' = [attempts EXCEPT ![m] = SetLast(attempts[m], answer)]
        /\ pc' = "idle" /\ msg' = NoMessage /\ answer' = "NONE"
        /\ UNCHANGED <<run, report, audits, inflight, delivered>>
    BY <1>7, <2>1 DEF MarkAnswer, EndSession, outside, IInv, TypeOK
  <2>5. TypeOK'
    BY <2>2, <2>3, <2>4 DEF IInv, TypeOK
  <2>6. AccountInv'
    BY <1>7, <2>1, <2>2, <2>4 DEF MarkAnswer, IInv, TypeOK, AccountInv, SessionInv,
         Outgoing, Released
  <2>7. SessionInv' /\ DeliveredMeansDelivered'
    BY <1>7, <2>1, <2>2, <2>4 DEF MarkAnswer, IInv, TypeOK, SessionInv,
         DeliveredMeansDelivered, Outgoing, Released
  <2> QED
    BY <2>5, <2>6, <2>7 DEF IInv
<1> QED
  BY <1>1, <1>2, <1>3, <1>4, <1>6, <1>7 DEF AttemptStep

LEMMA RecoverStep ==
    ASSUME IInv, NEW m \in Messages, NEW r \in Resolutions, RecoverNotification(m, r)
    PROVE  IInv'
<1>1. ResolveLatest(attempts[m], NewStatus(r)) \in Seq(Statuses)
  BY NewStatusFact, ResolveLatestFact DEF IInv, TypeOK
<1>2. /\ pc = "idle"
      /\ status' = [status EXCEPT ![m] = NewStatus(r)]
      /\ attempts' = [attempts EXCEPT ![m] = ResolveLatest(attempts[m], NewStatus(r))]
      /\ audits' = [audits EXCEPT ![m] = [audits[m] EXCEPT ![r] = audits[m][r] + 1]]
      /\ UNCHANGED <<run, report, pc, msg, answer, inflight, delivered>>
  BY DEF RecoverNotification, local, outside, IInv, TypeOK
<1>3. TypeOK'
  BY <1>1, <1>2, NewStatusFact DEF IInv, TypeOK
<1>4. AccountInv'
  <2>1. ASSUME NEW k \in Messages
        PROVE  /\ Outgoing(k)' = Outgoing(k) /\ Released(k) \in Nat
               /\ k # m => Released(k)' = Released(k) /\ status'[k] = status[k]
    BY <1>2, ReleasedFact DEF IInv, TypeOK, Outgoing, Released
  <2>2. /\ status'[m] = NewStatus(r)
        /\ r = "not-delivered" => Released(m)' = Released(m) + 1
        /\ r # "not-delivered" => Released(m)' = Released(m)
    BY <1>2 DEF IInv, TypeOK, Released, Resolutions
  <2>3. \A k \in Messages : Outgoing(k) \in Nat
    BY DEF IInv, TypeOK, Outgoing
  <2> QED
    BY <2>1, <2>2, <2>3, NewStatusFact DEF IInv, AccountInv
<1>5. SessionInv'
  BY <1>2 DEF IInv, SessionInv
<1>6. DeliveredMeansDelivered'
  BY <1>2, NewStatusFact DEF IInv, TypeOK, DeliveredMeansDelivered, Resolutions
<1> QED
  BY <1>3, <1>4, <1>5, <1>6 DEF IInv

-----------------------------------------------------------------------------
(* The row and its attempts *)

\* The row has the status of the latest attempt, earlier ones failed, and an
\* attempt starts as SENDING.
AgreeInv ==
    /\ OutboxAgreesWithAttempts
    /\ \A m \in Messages : \A i \in 1 .. Len(attempts[m]) : attempts[m][i] # "PENDING"

\* One notification's part of it.
AgreeOn(st, s) ==
    /\ s = <<>> => st \in {"NONE", "PENDING"}
    /\ s # <<>> => s[Len(s)] = st
    /\ \A i \in 1 .. Len(s) - 1 : s[i] = "FAILED"
    /\ \A i \in 1 .. Len(s) : s[i] # "PENDING"

LEMMA AgreePointwise == AgreeInv <=> \A m \in Messages : AgreeOn(status[m], attempts[m])
BY DEF AgreeInv, OutboxAgreesWithAttempts, AgreeOn

\* A new attempt follows a failed one, or none.
LEMMA AppendAgrees ==
    ASSUME NEW s \in Seq(Statuses), NEW st \in {"PENDING", "FAILED"}, AgreeOn(st, s)
    PROVE  AgreeOn("SENDING", Append(s, "SENDING"))
<1> DEFINE t == Append(s, "SENDING")
<1>1. /\ Len(s) \in Nat /\ Len(t) = Len(s) + 1
      /\ t[Len(t)] = "SENDING" /\ t # <<>>
      /\ \A i \in 1 .. Len(s) : t[i] = s[i]
  OBVIOUS
<1>2. \A i \in 1 .. Len(s) : s[i] = "FAILED"
  <2>1. CASE s = <<>>
    BY <2>1
  <2>2. CASE s # <<>>
    <3>1. Len(s) \in 1 .. Len(s) /\ s[Len(s)] = st
      BY <2>2 DEF AgreeOn
    <3>2. s[Len(s)] = "FAILED"
      BY <3>1 DEF AgreeOn
    <3> QED
      BY <3>2, <1>1 DEF AgreeOn
  <2> QED
    BY <2>1, <2>2
<1>3. \A i \in 1 .. Len(t) - 1 : t[i] = "FAILED"
  BY <1>1, <1>2
<1>4. \A i \in 1 .. Len(t) : t[i] # "PENDING"
  BY <1>1, <1>2
<1> QED
  BY <1>1, <1>3, <1>4 DEF AgreeOn

\* The answer of an attempt is written to the latest one.
LEMMA SetLastAgrees ==
    ASSUME NEW s \in Seq(Statuses), NEW st \in Statuses, AgreeOn("SENDING", s),
           st # "PENDING"
    PROVE  AgreeOn(st, SetLast(s, st))
<1> DEFINE t == SetLast(s, st)
<1>1. s # <<>> /\ Len(s) \in Nat /\ Len(s) >= 1
  BY DEF AgreeOn
<1>2. /\ Len(t) = Len(s) /\ t # <<>>
      /\ t[Len(s)] = st
      /\ \A i \in 1 .. Len(s) - 1 : t[i] = s[i]
  BY <1>1 DEF SetLast
<1>3. \A i \in 1 .. Len(t) - 1 : t[i] = "FAILED"
  BY <1>2 DEF AgreeOn
<1>4. \A i \in 1 .. Len(t) : t[i] # "PENDING"
  BY <1>1, <1>2, <1>3
<1> QED
  BY <1>2, <1>3, <1>4 DEF AgreeOn

\* So is an operator's decision: no other attempt is in doubt.
LEMMA ResolveLatestAgrees ==
    ASSUME NEW s \in Seq(Statuses), NEW old \in Doubtful, AgreeOn(old, s),
           NEW st \in Statuses, st # "PENDING"
    PROVE  AgreeOn(st, ResolveLatest(s, st))
<1> DEFINE t == ResolveLatest(s, st)
<1>1. /\ s # <<>> /\ Len(s) \in Nat /\ Len(s) >= 1
      /\ s[Len(s)] = old /\ s[Len(s)] \in Doubtful
  BY DEF AgreeOn, Doubtful
<1>2. \A i \in 1 .. Len(s) - 1 : s[i] = "FAILED" /\ s[i] \notin Doubtful
  BY DEF AgreeOn, Doubtful
<1>3. /\ t \in Seq(Statuses) /\ Len(t) = Len(s) /\ t # <<>>
  <2>1. t \in Seq(Statuses)
    BY ResolveLatestFact
  <2>2. Len(t) = Len(s)
    BY <1>1, <2>1 DEF ResolveLatest
  <2> QED
    BY <1>1, <2>1, <2>2
<1>4. t[Len(s)] = st
  BY <1>1 DEF ResolveLatest
<1>5. \A i \in 1 .. Len(s) - 1 : t[i] = s[i]
  BY <1>1, <1>2 DEF ResolveLatest
<1>6. \A i \in 1 .. Len(t) - 1 : t[i] = "FAILED"
  BY <1>2, <1>3, <1>5
<1>7. \A i \in 1 .. Len(t) : t[i] # "PENDING"
  BY <1>1, <1>3, <1>4, <1>6
<1> QED
  BY <1>3, <1>4, <1>6, <1>7 DEF AgreeOn

LEMMA AgreeStep ==
    ASSUME IInv, AgreeInv, [Next]_vars
    PROVE  AgreeInv'
<1> SUFFICES ASSUME NEW k \in Messages
             PROVE  AgreeOn(status'[k], attempts'[k])
  BY AgreePointwise DEF AgreeInv, OutboxAgreesWithAttempts, AgreeOn
<1>a. AgreeOn(status[k], attempts[k])
  BY AgreePointwise
<1>b. /\ attempts[k] \in Seq(Statuses)
      /\ status[k] \in Statuses \cup {"NONE"}
      /\ "NONE" \notin Statuses
  BY DEF IInv, TypeOK, Statuses
<1>1. CASE status'[k] = status[k] /\ attempts'[k] = attempts[k]
  BY <1>1, <1>a
<1>2. ASSUME NEW m \in Messages, RegisterRow(m)
      PROVE  AgreeOn(status'[k], attempts'[k])
  <2>1. /\ attempts'[k] = attempts[k]
        /\ \/ status'[k] = status[k]
           \/ status[k] = "NONE" /\ status'[k] = "PENDING"
    BY <1>2 DEF RegisterRow, IInv, TypeOK
  <2>2. CASE status[k] = "NONE" /\ status'[k] = "PENDING"
    <3>1. attempts[k] = <<>>
      <4> SUFFICES ASSUME attempts[k] # <<>>
                   PROVE  FALSE
        OBVIOUS
      <4>1. Len(attempts[k]) \in 1 .. Len(attempts[k])
        BY <1>b
      <4>2. attempts[k][Len(attempts[k])] \in Statuses
        BY <1>b, <4>1
      <4> QED
        BY <1>a, <1>b, <2>2, <4>2 DEF AgreeOn
    <3> QED
      BY <2>1, <2>2, <3>1 DEF AgreeOn
  <2> QED
    BY <1>a, <2>1, <2>2
<1>3. CASE EntryPoint
  BY <1>1, <1>2, <1>3 DEF EntryPoint, RegisterPending, SendCommittedRun, Resend,
       SendCommittedMonthly, Messages, rows
<1>4. CASE ClaimAttempt
  <2>1. msg \in Messages /\ status[msg] \in {"PENDING", "FAILED"}
    BY <1>4 DEF ClaimAttempt, Claimable, Retryable, IInv, SessionInv
  <2>2. CASE k = msg
    <3>1. /\ status'[k] = "SENDING"
          /\ attempts'[k] = Append(attempts[k], "SENDING")
      BY <1>4, <2>1, <2>2 DEF ClaimAttempt, IInv, TypeOK
    <3> QED
      BY <1>a, <1>b, <2>1, <2>2, <3>1, AppendAgrees
  <2>3. CASE k # msg
    BY <1>1, <1>4, <2>1, <2>3 DEF ClaimAttempt, IInv, TypeOK
  <2> QED
    BY <2>2, <2>3
<1>5. CASE MarkAnswer
  <2>1. /\ msg \in Messages /\ status[msg] = "SENDING"
        /\ answer \in Statuses /\ answer # "PENDING"
    BY <1>5 DEF MarkAnswer, IInv, SessionInv, Statuses
  <2>2. CASE k = msg
    <3>1. /\ status'[k] = answer
          /\ attempts'[k] = SetLast(attempts[k], answer)
      BY <1>5, <2>1, <2>2 DEF MarkAnswer, IInv, TypeOK
    <3> QED
      BY <1>a, <1>b, <2>1, <2>2, <3>1, SetLastAgrees
  <2>3. CASE k # msg
    BY <1>1, <1>5, <2>1, <2>3 DEF MarkAnswer, IInv, TypeOK
  <2> QED
    BY <2>2, <2>3
<1>6. ASSUME NEW m \in Messages, NEW r \in Resolutions, RecoverNotification(m, r)
      PROVE  AgreeOn(status'[k], attempts'[k])
  <2>1. CASE k = m
    <3>1. /\ status[k] \in Doubtful
          /\ status'[k] = NewStatus(r)
          /\ attempts'[k] = ResolveLatest(attempts[k], NewStatus(r))
      BY <1>6, <2>1 DEF RecoverNotification, IInv, TypeOK
    <3> QED
      BY <1>a, <1>b, <3>1, NewStatusFact, ResolveLatestAgrees
  <2>2. CASE k # m
    BY <1>1, <1>6, <2>2 DEF RecoverNotification, IInv, TypeOK
  <2> QED
    BY <2>1, <2>2
<1>7. CASE Environment
  BY <1>1, <1>7 DEF Environment, RunEnds, ReportChanges, OrphanEnds, Crash, rows
<1>8. CASE UNCHANGED vars
  BY <1>1, <1>8 DEF vars, rows
<1>9. CASE AttemptStep
  BY <1>1, <1>4, <1>5, <1>9 DEF AttemptStep, ClaimRefused, LaunchSender, LaunchFails,
       SenderSucceeds, SenderRejectsUsage, SenderAmbiguous, rows
<1> QED
  BY <1>3, <1>6, <1>7, <1>8, <1>9 DEF Next

-----------------------------------------------------------------------------
(* The theorems *)

LEMMA NextInv ==
    ASSUME IInv, [Next]_vars, Decodable = TRUE
    PROVE  IInv'
<1>1. CASE UNCHANGED vars
  BY <1>1 DEF vars, rows, local, outside, IInv, TypeOK, AccountInv, SessionInv,
       DeliveredMeansDelivered, Outgoing, Released
<1> QED
  BY <1>1, EntryStep, AttemptInv, RecoverStep, EnvironmentStep DEF Next

\* If every successful sender's output decodes, the invariant holds in every
\* reachable state.
THEOREM Invariance == Decodable = TRUE => (Spec => []IInv)
<1> SUFFICES ASSUME Decodable = TRUE PROVE Spec => []IInv
  OBVIOUS
<1>1. IInv /\ [Next]_vars => IInv'
  BY NextInv
<1> QED
  BY <1>1, InitInv, PTL DEF Spec

\* A message goes out once, and once more for each time an operator declared it
\* not delivered, orphaned senders included.
THEOREM NoDuplicate == Decodable = TRUE => (Spec => []NoUnattendedDuplicate)
<1>1. IInv => NoUnattendedDuplicate
  BY DEF IInv, TypeOK, AccountInv, NoUnattendedDuplicate, Outgoing, Released, Resolutions
<1> QED
  BY <1>1, Invariance, PTL

\* Only what did not go out may be retried.
THEOREM SafeRetry == Decodable = TRUE => (Spec => []RetryableMeansUndelivered)
<1>1. IInv => RetryableMeansUndelivered
  BY DEF IInv, TypeOK, AccountInv, RetryableMeansUndelivered, Outgoing, Released
<1> QED
  BY <1>1, Invariance, PTL

\* What is recorded as delivered was delivered.
THEOREM TrueDelivery == Decodable = TRUE => (Spec => []DeliveredMeansDelivered)
BY Invariance, PTL DEF IInv

\* A delivery in doubt is settled by its own process or by an audited decision.
THEOREM DoubtSettled == Decodable = TRUE => (Spec => DoubtNeedsOperator)
<1> DEFINE Settled ==
      \A m \in Messages :
          status[m] \in {"SENDING", "DELIVERY_UNKNOWN"} /\ status'[m] # status[m] =>
              \/ status[m] = "SENDING" /\ msg = m /\ status'[m] = answer
              \/ audits'[m] # audits[m]
<1>1. IInv /\ [Next]_vars => [Settled]_vars
  <2> SUFFICES ASSUME IInv, Next, NEW m \in Messages,
                      status[m] \in {"SENDING", "DELIVERY_UNKNOWN"}, status'[m] # status[m]
               PROVE  \/ status[m] = "SENDING" /\ msg = m /\ status'[m] = answer
                      \/ audits'[m] # audits[m]
    OBVIOUS
  <2>1. ~EntryPoint
    BY DEF EntryPoint, RegisterPending, SendCommittedRun, Resend, SendCommittedMonthly,
         RegisterRow, rows, IInv, TypeOK, Messages
  <2>2. ~Environment
    BY DEF Environment, RunEnds, ReportChanges, OrphanEnds, Crash, rows
  <2>3. CASE AttemptStep
    <3>1. CASE ClaimAttempt
      BY <3>1 DEF ClaimAttempt, Claimable, Retryable, IInv, TypeOK, SessionInv
    <3>2. CASE MarkAnswer
      BY <3>2 DEF MarkAnswer, IInv, TypeOK, SessionInv
    <3> QED
      BY <2>3, <3>1, <3>2 DEF AttemptStep, ClaimRefused, LaunchSender, LaunchFails,
           SenderSucceeds, SenderRejectsUsage, SenderAmbiguous, rows
  <2>4. CASE \E k \in Messages, r \in Resolutions : RecoverNotification(k, r)
    <3>1. PICK k \in Messages, r \in Resolutions : RecoverNotification(k, r)
      BY <2>4
    <3>2. k = m
      BY <3>1 DEF RecoverNotification, IInv, TypeOK
    <3>3. audits'[m][r] = audits[m][r] + 1 /\ audits[m][r] \in Nat
      BY <3>1, <3>2 DEF RecoverNotification, IInv, TypeOK
    <3> QED
      BY <3>3
  <2> QED
    BY <2>1, <2>2, <2>3, <2>4 DEF Next
<1> QED
  BY <1>1, Invariance, PTL DEF Spec, DoubtNeedsOperator

\* The outbox row carries the status of its latest attempt, and no earlier one
\* is in doubt.
THEOREM RowsAgree == Decodable = TRUE => (Spec => []OutboxAgreesWithAttempts)
<1>1. Init => AgreeInv
  BY DEF Init, AgreeInv, OutboxAgreesWithAttempts, Messages
<1>2. IInv /\ AgreeInv /\ [Next]_vars => AgreeInv'
  BY AgreeStep
<1>3. AgreeInv => OutboxAgreesWithAttempts
  BY DEF AgreeInv
<1> QED
  BY <1>1, <1>2, <1>3, Invariance, PTL DEF Spec

=============================================================================
