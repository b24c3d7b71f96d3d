------------------------- MODULE MonthlyReportProofs -------------------------
(***************************************************************************)
(* Proofs about MonthlyReport for any wrappers, versions and edits.        *)
(***************************************************************************)
EXTENDS MonthlyReport, TLAPS

(* The inductive invariant *)

\* The claim belongs to the wrapper that is past it, the command to the wrapper
\* that waits for it; once the month is completed nobody is on the way to
\* launching it.
DispatchInv ==
    /\ \A w \in Wrapper : wrapper[w] \in Claiming <=> claim = w
    /\ \A w \in Wrapper : wrapper[w] = "waiting" <=> parent = w
    /\ pc = "idle" => parent = Nobody
    /\ \A w \in Wrapper : wrapper[w] = "succeeded" => outbox = "DELIVERED"
    /\ completed => /\ outbox = "DELIVERED"
                    /\ \A w \in Wrapper : wrapper[w] \notin {"launch", "waiting"}

\* The files appear in the order JSON, Markdown, marker, and a later one equals
\* the earlier ones.
FilesInv ==
    /\ pc \in {"json", "markdown", "marker"} => draft \in Versions
    /\ edits = 0 =>
          /\ md \in {Absent, json} /\ marker \in {Absent, md}
          /\ pc \in {"markdown", "marker"} => json = draft
          /\ pc = "marker" => md = draft

\* Only the registered report is ever given to the sender; it is the committed one
\* unless somebody touches the files.
MailInv ==
    /\ outbox = "NONE" => digest = Absent
    /\ outbox # "NONE" => digest # Absent
    /\ pc \in {"attempt", "deliver"} => outbox # "NONE"
    /\ pc = "deliver" => md = digest /\ outbox = "SENDING"
    /\ delivered \subseteq {digest} \ {Absent}
    /\ edits = 0 =>
          /\ pc = "register" => Committed
          /\ outbox # "NONE" => Committed /\ digest = md

IInv == TypeOK /\ DispatchInv /\ FilesInv /\ MailInv

LEMMA InitInv == Init => IInv
<1> SUFFICES ASSUME Init PROVE IInv
  OBVIOUS
<1>1. TypeOK
  <2>1. edits \in 0 .. MaxEdits
    BY MaxEditsAssumption DEF Init
  <2> QED
    BY <2>1 DEF Init, TypeOK, Contents
<1>2. DispatchInv
  BY NobodyAssumption DEF Init, DispatchInv, Claiming
<1>3. FilesInv
  BY DEF Init, FilesInv
<1>4. MailInv
  BY DEF Init, MailInv
<1> QED
  BY <1>1, <1>2, <1>3, <1>4 DEF IInv

-----------------------------------------------------------------------------
(* Around the report *)

LEMMA EnvironmentStep ==
    ASSUME IInv, DataChanges \/ Edit \/ OperatorDecides
    PROVE  IInv'
<1>1. CASE DataChanges
  BY <1>1 DEF DataChanges, files, dispatch, mail, IInv, TypeOK, DispatchInv, FilesInv, MailInv, Committed
<1>2. CASE Edit
  <2>1. edits \in Nat /\ edits' \in 0 .. MaxEdits /\ edits' # 0
    BY <1>2, MaxEditsAssumption DEF Edit, IInv, TypeOK
  <2>2. json' \in Contents /\ md' \in Contents /\ marker' \in Contents
    BY <1>2 DEF Edit, IInv, TypeOK
  <2>3. pc # "deliver" /\ UNCHANGED <<data, dispatch, pc, draft, mail>>
    BY <1>2 DEF Edit
  <2> QED
    BY <2>1, <2>2, <2>3 DEF dispatch, mail, IInv, TypeOK, DispatchInv, FilesInv, MailInv
<1>3. CASE OperatorDecides
  BY <1>3 DEF OperatorDecides, files, dispatch, IInv, TypeOK, DispatchInv, FilesInv, MailInv, Committed
<1> QED
  BY <1>1, <1>2, <1>3

-----------------------------------------------------------------------------
(* The wrapper *)

\* A wrapper moves the command at most into its first step.
LEMMA WrapperKeeps ==
    ASSUME IInv, UNCHANGED <<data, files, draft, mail>>,
           pc' = pc \/ pc' = "load", TypeOK', DispatchInv'
    PROVE  IInv'
BY DEF files, mail, IInv, TypeOK, DispatchInv, FilesInv, MailInv, Committed

LEMMA WrapperStepInv ==
    ASSUME IInv, NEW w \in Wrapper, WrapperStep(w) \/ WrapperDies(w)
    PROVE  IInv'
<1> USE NobodyAssumption DEF Move, dispatch, files, mail, IInv, TypeOK, DispatchInv, Claiming
<1>1. CASE CheckCompleted(w)
  BY <1>1, WrapperKeeps DEF CheckCompleted
<1>2. CASE AcquireClaim(w)
  BY <1>2, WrapperKeeps DEF AcquireClaim
<1>3. CASE ClaimTaken(w)
  BY <1>3, WrapperKeeps DEF ClaimTaken
<1>4. CASE Recheck(w)
  BY <1>4, WrapperKeeps DEF Recheck
<1>5. CASE Launch(w)
  BY <1>5, WrapperKeeps DEF Launch
<1>6. CASE LaunchFails(w)
  BY <1>6, WrapperKeeps DEF LaunchFails
<1>7. CASE MarkCompleted(w)
  BY <1>7, WrapperKeeps DEF MarkCompleted
<1>8. CASE ReleaseClaim(w)
  BY <1>8, WrapperKeeps DEF ReleaseClaim
<1>9. CASE WrapperDies(w)
  BY <1>9, WrapperKeeps DEF WrapperDies
<1> QED
  BY <1>1, <1>2, <1>3, <1>4, <1>5, <1>6, <1>7, <1>8, <1>9 DEF WrapperStep

-----------------------------------------------------------------------------
(* The command *)

\* The wrapper that waited goes on; it may do so as after a delivery only if
\* there was one.
LEMMA ExitKeeps ==
    ASSUME IInv, NEW success \in BOOLEAN, Exit(success),
           UNCHANGED <<data, files>>, pc # "idle",
           success \/ outbox = "DELIVERED" => outbox' = "DELIVERED"
    PROVE  DispatchInv' /\ FilesInv'
           /\ claim' \in Wrapper \cup {Nobody} /\ parent' = Nobody /\ draft' = Absent
           /\ wrapper' \in [Wrapper -> Claiming \cup {"off", "checked"}]
           /\ pc' = "idle" /\ completed' = completed
<1>1. CASE parent = Nobody
  BY <1>1, NobodyAssumption DEF Exit, files, IInv, TypeOK, DispatchInv, FilesInv
<1>2. CASE parent \in Wrapper
  <2>1. wrapper' = [wrapper EXCEPT ![parent] = IF success THEN "succeeded" ELSE "off"]
    BY <1>2, NobodyAssumption DEF Exit, Move
  <2>2. wrapper[parent] = "waiting" /\ claim = parent /\ ~completed
    BY <1>2 DEF IInv, DispatchInv, Claiming
  <2>3. \A w \in Wrapper : wrapper'[w] =
          IF w # parent THEN wrapper[w] ELSE IF success THEN "succeeded" ELSE "off"
    BY <2>1 DEF IInv, TypeOK
  <2> QED
    BY <1>2, <2>1, <2>2, <2>3, NobodyAssumption
       DEF Exit, files, IInv, TypeOK, DispatchInv, FilesInv, Claiming
<1> QED
  BY <1>1, <1>2 DEF IInv, TypeOK

LEMMA PublicationStepInv ==
    ASSUME IInv, PublicationStep \/ RunDirectly
    PROVE  IInv'
<1>1. CASE LoadCommitted
  BY <1>1 DEF LoadCommitted, Goto, dispatch, files, mail, IInv, TypeOK, DispatchInv,
       FilesInv, MailInv, Committed
<1>2. CASE Build
  BY <1>2 DEF Build, dispatch, files, mail, IInv, TypeOK, DispatchInv, FilesInv, MailInv,
       Committed
<1>3. CASE PublishJson
  BY <1>3, ContentsAssumption DEF PublishJson, Goto, dispatch, mail, IInv, TypeOK,
       DispatchInv, FilesInv, MailInv, Committed, Contents
<1>4. CASE PublishMarkdown
  BY <1>4, ContentsAssumption DEF PublishMarkdown, Goto, dispatch, mail, IInv, TypeOK,
       DispatchInv, FilesInv, MailInv, Committed, Contents
<1>5. CASE PublishMarker
  BY <1>5, ContentsAssumption DEF PublishMarker, Goto, dispatch, mail, IInv, TypeOK,
       DispatchInv, FilesInv, MailInv, Committed, Contents
<1>6. CASE PublicationRefused
  BY <1>6, ExitKeeps DEF PublicationRefused, files, mail, IInv, TypeOK, MailInv, Committed
<1>7. CASE RunDirectly
  BY <1>7 DEF RunDirectly, dispatch, files, mail, IInv, TypeOK, DispatchInv, FilesInv,
       MailInv, Committed
<1> QED
  BY <1>1, <1>2, <1>3, <1>4, <1>5, <1>6, <1>7 DEF PublicationStep

\* What is delivered is what was registered.
LEMMA ReceivedRegistered ==
    ASSUME IInv, NEW arrives \in BOOLEAN, Received(arrives),
           arrives => pc = "deliver", UNCHANGED digest
    PROVE  delivered' \subseteq {digest'} \ {Absent} /\ delivered' \subseteq Contents
BY DEF Received, IInv, TypeOK, MailInv, Committed, Contents

LEMMA DeliveryStepInv ==
    ASSUME IInv, DeliveryStep \/ CommandDies
    PROVE  IInv'
<1>1. CASE Confirm
  BY <1>1 DEF Confirm, Goto, dispatch, files, mail, IInv, TypeOK,
       DispatchInv, FilesInv, MailInv, Committed
<1>2. CASE Register
  BY <1>2 DEF Register, Goto, dispatch, files, IInv, TypeOK, DispatchInv,
       FilesInv, MailInv, Committed
<1>3. CASE AlreadyDelivered
  BY <1>3, ExitKeeps DEF AlreadyDelivered, files, mail, IInv, TypeOK, MailInv, Committed
<1>4. CASE ClaimAttempt
  BY <1>4 DEF ClaimAttempt, Retryable, Goto, dispatch, files, IInv, TypeOK, DispatchInv,
       FilesInv, MailInv, Committed
<1>5. CASE DeliveryRefused
  BY <1>5, ExitKeeps DEF DeliveryRefused, files, mail, IInv, TypeOK, MailInv, Committed
<1>6. CASE Delivered
  BY <1>6, ExitKeeps, ReceivedRegistered DEF Delivered, files, IInv, TypeOK, MailInv,
       Committed
<1>7. CASE NotDelivered
  <2>1. PICK arrives \in BOOLEAN : Received(arrives)
    BY <1>7 DEF NotDelivered
  <2> QED
    BY <1>7, <2>1, ExitKeeps, ReceivedRegistered DEF NotDelivered, files, IInv, TypeOK,
       MailInv, Committed
<1>8. CASE CommandDies
  <2>1. PICK arrives \in BOOLEAN : Received(arrives /\ pc = "deliver")
    BY <1>8 DEF CommandDies
  <2>2. delivered' \subseteq {digest'} \ {Absent} /\ delivered' \subseteq Contents
    BY <1>8, <2>1, ReceivedRegistered DEF CommandDies
  <2> QED
    BY <1>8, <2>2, ExitKeeps DEF CommandDies, files, IInv, TypeOK, MailInv, Committed
<1> QED
  BY <1>1, <1>2, <1>3, <1>4, <1>5, <1>6, <1>7, <1>8 DEF DeliveryStep

-----------------------------------------------------------------------------
LEMMA NextInv ==
    ASSUME IInv, [Next]_vars
    PROVE  IInv'
<1>1. CASE UNCHANGED vars
  BY <1>1 DEF vars, files, dispatch, mail, IInv, TypeOK, DispatchInv, FilesInv, MailInv,
       Committed
<1> QED
  BY <1>1, EnvironmentStep, WrapperStepInv, PublicationStepInv, DeliveryStepInv DEF Next

\* The inductive invariant of the monthly report.
THEOREM Invariance == Spec => []IInv
BY InitInv, NextInv, PTL DEF Spec

\* One report of the month is delivered, however often and whatever its files
\* and its data go through; the committed one if nobody touches the files.
THEOREM OneReport == Spec => []OneReportDelivered
<1>1. IInv => OneReportDelivered
  BY ContentsAssumption DEF IInv, MailInv, OneReportDelivered
<1> QED
  BY <1>1, Invariance, PTL

\* Interrupted publications never leave files of two versions.
THEOREM NotMixed == Spec => []NoMixedPublication
<1>1. IInv => NoMixedPublication
  BY DEF IInv, FilesInv, NoMixedPublication
<1> QED
  BY <1>1, Invariance, PTL

\* A published file stays as the program wrote it, unless it is edited.
THEOREM Immutable == Spec => NeverRewritten
<1>1. ASSUME IInv, [Next]_vars, edits' = edits
      PROVE  /\ json # Absent => json' = json
             /\ md # Absent => md' = md
             /\ marker # Absent => marker' = marker
  <2>1. CASE Edit
    BY <1>1, <2>1, MaxEditsAssumption DEF Edit, IInv, TypeOK
  <2>2. CASE PublicationStep
    BY <2>2 DEF PublicationStep, LoadCommitted, Build, PublishJson, PublishMarkdown,
         PublishMarker, PublicationRefused, files
  <2>3. CASE UNCHANGED files
    BY <2>3 DEF files
  <2> QED
    BY <1>1, <2>1, <2>2, <2>3 DEF Next, DataChanges, OperatorDecides, WrapperStep,
       CheckCompleted, AcquireClaim, ClaimTaken, Recheck, Launch, LaunchFails,
       MarkCompleted, ReleaseClaim, WrapperDies, RunDirectly, DeliveryStep, Confirm, Register,
       AlreadyDelivered, ClaimAttempt, DeliveryRefused, Delivered, NotDelivered,
       CommandDies, vars
<1>2. IInv /\ [Next]_vars =>
        [edits' = edits =>
          /\ json # Absent => json' = json
          /\ md # Absent => md' = md
          /\ marker # Absent => marker' = marker]_vars
  BY <1>1
<1> QED
  BY <1>2, Invariance, PTL DEF Spec, NeverRewritten

\* Once a month is completed, no wrapper launches the command for it.
THEOREM NoLaunch == Spec => NoLaunchAfterCompletion
<1>1. ASSUME IInv, [Next]_vars, NEW w \in Wrapper,
             wrapper[w] # "waiting", wrapper'[w] = "waiting"
      PROVE  ~completed
  <2>1. PICK u \in Wrapper : wrapper[u] = "launch" /\ u = w
    <3>1. ~UNCHANGED wrapper
      BY <1>1
    <3>2. CASE \E u \in Wrapper : WrapperStep(u) \/ WrapperDies(u)
      BY <1>1, <3>1, <3>2 DEF WrapperStep, CheckCompleted, AcquireClaim, ClaimTaken,
         Recheck, Launch, LaunchFails, MarkCompleted, ReleaseClaim, WrapperDies, Move,
         IInv, TypeOK
    <3>3. CASE Exit(TRUE) \/ Exit(FALSE)
      BY <1>1, <3>3 DEF Exit, Move, IInv, TypeOK
    <3> QED
      BY <1>1, <3>1, <3>2, <3>3 DEF Next, DataChanges, Edit, OperatorDecides, RunDirectly,
         PublicationStep, LoadCommitted, Build, PublishJson, PublishMarkdown,
         PublishMarker, PublicationRefused, DeliveryStep, Confirm, Register, AlreadyDelivered,
         ClaimAttempt, DeliveryRefused, Delivered, NotDelivered, CommandDies, Goto,
         dispatch, vars
  <2> QED
    BY <1>1, <2>1 DEF IInv, DispatchInv
<1>2. IInv /\ [Next]_vars =>
        [\A w \in Wrapper :
          wrapper[w] # "waiting" /\ wrapper'[w] = "waiting" => ~completed]_vars
  BY <1>1
<1> QED
  BY <1>2, Invariance, PTL DEF Spec, NoLaunchAfterCompletion

\* A month is marked as completed only once its report is delivered.
THEOREM CompletedDelivered == Spec => []CompletedMeansDelivered
<1>1. IInv => CompletedMeansDelivered
  BY DEF IInv, DispatchInv, CompletedMeansDelivered
<1> QED
  BY <1>1, Invariance, PTL

=============================================================================
