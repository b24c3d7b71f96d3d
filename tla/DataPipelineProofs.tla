-------------------------- MODULE DataPipelineProofs --------------------------
(***************************************************************************)
(* Proofs about DataPipeline for any assets, universes, days and number of *)
(* runs, as long as a pointer that is there can be read: NoReadErrors.     *)
(* With read errors a failed run can be the current one, and section 7 of  *)
(* the README shows what follows.                                          *)
(***************************************************************************)
EXTENDS DataPipeline, TLAPS

NoReadErrors == ReadErrors = FALSE

-----------------------------------------------------------------------------
(* The inductive invariant *)

\* A row: its status agrees with its publication state, whatever is past the
\* artifacts has a manifest, and what is completed has been the current
\* generation.
RowsInv ==
    \A r \in Run : rows[r] # None =>
        /\ r <= now
        /\ rows[r].status = "completed" <=> rows[r].state = "completed"
        /\ rows[r].state # "running" => manifest[r] # None
        /\ rows[r].status = "completed" => pointer # None /\ r <= pointer.run

\* Files belong to runs on record, and no candle is of a day to come.
FilesInv ==
    /\ parquet \subseteq raw
    /\ \A f \in raw : rows[f.run] # None /\ f.end <= today

\* A manifest lists the Parquet files of its run, all of the same day.
ManifestInv ==
    \A r \in Run : manifest[r] # None =>
        /\ rows[r] # None
        /\ manifest[r].run = r
        /\ StoredOf(r) = DOMAIN manifest[r].data
        /\ \A a, b \in DOMAIN manifest[r].data :
              manifest[r].data[a] = manifest[r].data[b]
        /\ \A a \in DOMAIN manifest[r].data :
              [run |-> r, asset |-> a, end |-> manifest[r].data[a]] \in parquet

\* The pointer is the manifest of a run that is completed, or that the next
\* recovery looks at.
PointerInv ==
    pointer # None =>
        /\ manifest[pointer.run] = pointer
        /\ rows[pointer.run].state # "running"
        /\ rows[pointer.run].status # "failed"

Settled(r) ==
    rows[r] # None =>
        /\ rows[r].status # "running"
        /\ (pointer # None /\ pointer.run = r) => rows[r].status = "completed"

\* A pipeline that runs is the latest run, and the only one that is not settled.
RunInv ==
    /\ p.pc # "idle" =>
         /\ p.run \in Run
         /\ p.run <= now
         /\ \A r \in Run : rows[r] # None => r <= p.run
    /\ p.pc = "starting" => \A r \in Run : Settled(r)
    /\ p.pc \in Inside \cup {"failing"} =>
         /\ rows[p.run] # None
         /\ rows[p.run].status = "running"
         /\ \A r \in Run \ {p.run} : Settled(r)

Before == {"validating", "downloading", "storing"}

\* What the run has left behind at each of its places.
PhaseInv ==
    /\ p.pc \in Before => manifest[p.run] = None
    /\ p.pc \in Before \cup {"linked"} => rows[p.run].state = "running"
    /\ p.pc \in {"validating", "downloading"} => \A f \in parquet : f.run # p.run
    /\ p.pc = "validating" => \A f \in raw : f.run # p.run
    /\ p.pc \in {"downloading", "storing"} =>
         \A f \in raw : f.run = p.run => f.end = p.end
    /\ p.pc \in {"downloading", "storing", "linked", "ready"} =>
         (pointer # None =>
            \A a \in DOMAIN pointer.data : pointer.data[a] <= p.end)
    /\ p.pc \in {"linked", "ready"} =>
         /\ manifest[p.run] # None
         /\ \A a \in DOMAIN manifest[p.run].data : manifest[p.run].data[a] = p.end
    /\ p.pc \in {"ready", "pointed", "publishing"} =>
         rows[p.run].state = "artifacts_ready"
    /\ p.pc = "ready" => (pointer # None => pointer.run # p.run)
    /\ p.pc \in {"pointed", "publishing", "completing"} =>
         /\ pointer # None
         /\ pointer = manifest[p.run]
    /\ p.pc = "completing" => rows[p.run].state = "published"

\* The recovery has settled what is no longer in its list.
RecoveryInv ==
    p.pc \in {"recovering", "settling"} =>
        /\ \A r \in Run \ p.todo : Settled(r)
        /\ \A r \in p.todo : Recoverable(r)
        /\ p.pc = "settling" =>
             \A r \in Run : Oldest(r) =>
                 rows[r].state = "published" /\ PointerMatches(r)

\* A reader holds a payload whose manifest is immutable.
ReaderInv ==
    /\ reader.pc # "idle" => reader.first = reader.expected
    /\ reader.pc = "second" => pointer # None
    /\ reader.pc \in {"second", "immutable"} => reader.paths = {}
    /\ reader.pc \in {"immutable", "files", "resolved"} => reader.payload # None
    /\ reader.pc \in {"files", "resolved"} =>
         /\ manifest[reader.payload.run] = reader.payload
         /\ reader.paths \subseteq reader.first
         /\ \A a \in reader.paths : Verifies(a)
    /\ reader.pc = "resolved" =>
         /\ reader.paths = reader.first
         /\ DOMAIN reader.payload.data = reader.expected

IInv == /\ TypeOK /\ RowsInv /\ FilesInv /\ ManifestInv /\ PointerInv
        /\ RunInv /\ PhaseInv /\ RecoveryInv /\ ReaderInv

-----------------------------------------------------------------------------
(* Lemmas about the data *)

LEMMA DatasetType ==
    ASSUME NEW d \in Datasets
    PROVE  /\ DOMAIN d \subseteq Asset
           /\ \A a \in DOMAIN d : d[a] \in Day
BY DEF Datasets

LEMMA PayloadType ==
    ASSUME NEW q \in Payload
    PROVE  /\ q.run \in Run
           /\ q.data \in Datasets
           /\ DOMAIN q.data \subseteq Asset
           /\ \A a \in DOMAIN q.data : q.data[a] \in Day
           /\ q # None
<1>1. q.run \in Run /\ q.data \in Datasets
  BY DEF Payload
<1>2. q # None
  BY PipelineAssumption DEF Payload, Datasets
<1> QED
  BY <1>1, <1>2, DatasetType

LEMMA RowType ==
    ASSUME NEW q \in Row
    PROVE  q # None
BY PipelineAssumption DEF Row

\* A file is determined by its run, its asset and its last day.
LEMMA FileType ==
    ASSUME NEW f \in File
    PROVE  /\ f.run \in Run /\ f.asset \in Asset /\ f.end \in Day
           /\ f = [run |-> f.run, asset |-> f.asset, end |-> f.end]
BY DEF File

\* What a run links as its manifest: every Parquet file of it ends on the day
\* the run expects.
LEMMA StoredEnds ==
    ASSUME TypeOK, FilesInv, PhaseInv, p.pc = "storing",
           NEW a \in StoredOf(p.run)
    PROVE  /\ EndOf(p.run, a) = p.end
           /\ [run |-> p.run, asset |-> a, end |-> p.end] \in parquet
<1>1. PICK f \in parquet : f.run = p.run /\ f.asset = a
  BY DEF StoredOf
<1>2. f \in raw /\ f \in File
  BY <1>1 DEF FilesInv, TypeOK
<1>3. f.end = p.end
  BY <1>1, <1>2 DEF PhaseInv
<1>4. [run |-> p.run, asset |-> a, end |-> p.end] \in parquet
  BY <1>1, <1>2, <1>3, FileType
<1>5. p.end \in Day
  BY <1>2, <1>3, FileType
<1>6. \A e \in Day : [run |-> p.run, asset |-> a, end |-> e] \in parquet => e = p.end
  <2> SUFFICES ASSUME NEW e \in Day, [run |-> p.run, asset |-> a, end |-> e] \in parquet
               PROVE  e = p.end
    OBVIOUS
  <2> DEFINE g == [run |-> p.run, asset |-> a, end |-> e]
  <2>1. g \in raw
    BY DEF FilesInv
  <2>2. g.run = p.run /\ g.end = e
    OBVIOUS
  <2> QED
    BY <2>1, <2>2 DEF PhaseInv
<1> QED
  BY <1>4, <1>5, <1>6 DEF EndOf

-----------------------------------------------------------------------------
(* Initial states and types *)

LEMMA InitInv == Init => IInv
<1> SUFFICES ASSUME Init PROVE IInv
  OBVIOUS
<1>1. TypeOK
  BY PipelineAssumption
     DEF Init, TypeOK, Run, Day, Idle, ReaderIdle, Places, ReaderPlaces, Inside,
         Pipeline, Reader
<1> QED
  BY <1>1
     DEF Init, IInv, RowsInv, FilesInv, ManifestInv, PointerInv, RunInv, PhaseInv,
         RecoveryInv, ReaderInv, Idle, ReaderIdle, Inside, Before

LEMMA Zero == 0 \in Day
BY PipelineAssumption DEF Day

LEMMA GovernedType ==
    ASSUME TypeOK
    PROVE  governed \in SUBSET Asset
BY PipelineAssumption DEF TypeOK

\* A change of one row's fields leaves the table typed.
LEMMA RowChange ==
    ASSUME TypeOK, NEW r \in Run, rows[r] # None,
           NEW s \in {"running", "completed", "failed"},
           NEW t \in {"running", "artifacts_ready", "published", "completed"}
    PROVE  /\ rows[r] \in Row
           /\ [rows EXCEPT ![r].status = s] \in [Run -> Row \cup {None}]
           /\ [rows EXCEPT ![r].state = t] \in [Run -> Row \cup {None}]
           /\ [rows EXCEPT ![r].status = s, ![r].state = t]
                  \in [Run -> Row \cup {None}]
<1>1. rows[r] \in Row
  BY DEF TypeOK
<1>2. /\ [rows[r] EXCEPT !.status = s] \in Row
      /\ [rows[r] EXCEPT !.state = t] \in Row
      /\ [[rows[r] EXCEPT !.status = s] EXCEPT !.state = t] \in Row
  BY <1>1 DEF Row
<1> QED
  BY <1>1, <1>2 DEF TypeOK

\* The fields of the pipeline process.
LEMMA ProcessChange ==
    ASSUME TypeOK, NEW place \in Places, NEW d \in Day, NEW todo \in SUBSET Run
    PROVE  /\ Idle \in Pipeline
           /\ [p EXCEPT !.pc = place] \in Pipeline
           /\ [p EXCEPT !.todo = todo] \in Pipeline
           /\ [p EXCEPT !.pc = place, !.end = d] \in Pipeline
           /\ [p EXCEPT !.pc = place, !.todo = todo] \in Pipeline
           /\ [Idle EXCEPT !.pc = place, !.run = now, !.assets = governed,
                           !.todo = todo] \in Pipeline
<1>1. 0 \in Day /\ governed \in SUBSET Asset
  BY Zero, GovernedType
<1> QED
  BY <1>1 DEF TypeOK, Idle, Places, Pipeline

\* And of a reader.
LEMMA ReaderChange ==
    ASSUME TypeOK, NEW place \in ReaderPlaces, NEW q \in Payload \cup {None},
           NEW x \in SUBSET Asset, NEW y \in SUBSET Asset
    PROVE  /\ ReaderIdle \in Reader
           /\ [reader EXCEPT !.pc = place] \in Reader
           /\ [reader EXCEPT !.paths = x] \in Reader
           /\ [reader EXCEPT !.pc = place, !.payload = q] \in Reader
           /\ [ReaderIdle EXCEPT !.pc = place, !.expected = x, !.first = y] \in Reader
BY DEF TypeOK, ReaderIdle, ReaderPlaces, Reader

\* The run that has a row is at hand wherever the code changes it.
LEMMA RowAtHand ==
    ASSUME IInv
    PROVE  /\ p.pc \in Inside \cup {"failing"} =>
                 p.run \in Run /\ rows[p.run] \in Row
           /\ p.pc \in {"recovering", "settling"} =>
                 \A r \in Run : Oldest(r) => rows[r] \in Row /\ Recoverable(r)
<1>1. ASSUME p.pc \in Inside \cup {"failing"}
      PROVE  p.run \in Run /\ rows[p.run] \in Row
  BY <1>1 DEF IInv, TypeOK, RunInv, Inside, Pipeline
<1>2. ASSUME p.pc \in {"recovering", "settling"}, NEW r \in Run, Oldest(r)
      PROVE  rows[r] \in Row /\ Recoverable(r)
  BY <1>2 DEF IInv, TypeOK, RecoveryInv, Recoverable, Oldest
<1> QED
  BY <1>1, <1>2

\* The manifest that is linked.
LEMMA NewManifest ==
    ASSUME IInv, LinkManifest
    PROVE  [run |-> p.run, data |-> [a \in p.assets |-> EndOf(p.run, a)]] \in Payload
<1>1. p.pc = "storing" /\ p.run \in Run /\ p.assets \in SUBSET Asset /\ p.end \in Day
  BY RowAtHand DEF LinkManifest, Inside, IInv, TypeOK, Pipeline
<1>2. \A a \in p.assets : EndOf(p.run, a) \in Day
  BY <1>1, StoredEnds DEF LinkManifest, IInv
<1>3. [a \in p.assets |-> EndOf(p.run, a)] \in Datasets
  BY <1>1, <1>2 DEF Datasets
<1> QED
  BY <1>1, <1>3 DEF Payload

LEMMA TypeStep ==
    ASSUME IInv, [Next]_vars
    PROVE  TypeOK'
<1> USE DEF env, files
<1>0. TypeOK
  BY DEF IInv
<1>1. CASE World
  BY <1>0, <1>1, PipelineAssumption
     DEF World, NextSecond, NextDay, Regovern, Run, Day, TypeOK
<1>2. CASE Recovery
  <2>1. CASE Begin
    BY <1>0, <2>1, ProcessChange, Zero DEF Begin, Places, TypeOK
  <2>2. CASE EndRecovery
    BY <1>0, <2>2, ProcessChange, Zero DEF EndRecovery, Go, Places, TypeOK
  <2>3. ASSUME NEW r \in Run, RecoverMatching(r) \/ RecoverComplete(r) \/ RecoverFailed(r)
        PROVE  TypeOK'
    <3>1. rows[r] \in Row /\ rows[r] # None /\ p.todo \in SUBSET Run
      BY <1>0, <2>3, RowAtHand, RowType
         DEF RecoverMatching, RecoverComplete, RecoverFailed, TypeOK, Pipeline
    <3>2. rows' \in [Run -> Row \cup {None}]
      <4>1. CASE RecoverMatching(r)
        BY <1>0, <3>1, <4>1, RowChange DEF RecoverMatching
      <4>2. CASE RecoverComplete(r)
        BY <1>0, <3>1, <4>2, RowChange DEF RecoverComplete
      <4>3. CASE RecoverFailed(r)
        BY <1>0, <3>1, <4>3, RowChange DEF RecoverFailed
      <4> QED
        BY <2>3, <4>1, <4>2, <4>3
    <3>3. p' \in Pipeline
      <4>0. {"recovering", "settling"} \subseteq Places /\ p.todo \ {r} \in SUBSET Run
        BY <3>1 DEF Places
      <4>1. CASE RecoverMatching(r)
        BY <1>0, <4>0, <4>1, ProcessChange, Zero DEF RecoverMatching, Go
      <4>2. CASE RecoverComplete(r)
        BY <1>0, <4>0, <4>2, ProcessChange, Zero DEF RecoverComplete
      <4>3. CASE RecoverFailed(r)
        BY <1>0, <4>0, <4>3, ProcessChange, Zero DEF RecoverFailed
      <4> QED
        BY <2>3, <4>1, <4>2, <4>3
    <3> QED
      BY <1>0, <2>3, <3>2, <3>3
         DEF RecoverMatching, RecoverComplete, RecoverFailed, TypeOK
  <2> QED
    BY <1>2, <2>1, <2>2, <2>3 DEF Recovery
<1>3. CASE Attempt
  <2>0. Inside \cup {"idle", "failing"} \subseteq Places
    BY DEF Places
  <2>1. CASE StartRun
    <3>1. p' \in Pipeline
      BY <1>0, <2>0, <2>1, ProcessChange, Zero DEF StartRun, Go, Inside, TypeOK
    <3>2. [status |-> "running", state |-> "running"] \in Row
      BY DEF Row
    <3> QED
      BY <1>0, <2>1, <3>1, <3>2 DEF StartRun, TypeOK
  <2>2. CASE Validate
    BY <1>0, <2>0, <2>2, ProcessChange DEF Validate, Inside, TypeOK
  <2>3. CASE EndDownloads \/ CheckPointer \/ Raise \/ Crash
    <3>1. p' \in Pipeline
      BY <1>0, <2>0, <2>3, ProcessChange, Zero
         DEF EndDownloads, CheckPointer, Raise, Crash, Go, Inside
    <3> QED
      BY <1>0, <2>3, <3>1 DEF EndDownloads, CheckPointer, Raise, Crash, TypeOK
  <2>4. CASE LinkManifest
    <3>1. p' \in Pipeline
      BY <1>0, <2>0, <2>4, ProcessChange, Zero DEF LinkManifest, Go, Inside
    <3>5. [run |-> p.run, data |-> [a \in p.assets |-> EndOf(p.run, a)]] \in Payload
      BY <2>4, NewManifest
    <3>6. manifest' \in [Run -> Payload \cup {None}]
      BY <1>0, <2>4, <3>5 DEF LinkManifest, TypeOK
    <3> QED
      BY <1>0, <2>4, <3>1, <3>6 DEF LinkManifest, TypeOK
  <2>5. CASE MarkArtifactsReady \/ MarkPublished \/ Complete \/ Handle
    <3>1. p.run \in Run /\ rows[p.run] # None
      BY <2>5, RowAtHand, RowType
         DEF MarkArtifactsReady, MarkPublished, Complete, Handle, Inside
    <3>2. rows' \in [Run -> Row \cup {None}]
      <4>1. CASE MarkArtifactsReady
        BY <1>0, <3>1, <4>1, RowChange DEF MarkArtifactsReady
      <4>2. CASE MarkPublished
        BY <1>0, <3>1, <4>2, RowChange DEF MarkPublished
      <4>3. CASE Complete
        BY <1>0, <3>1, <4>3, RowChange DEF Complete
      <4>4. CASE Handle
        <5>1. rows' = rows \/ rows' = [rows EXCEPT ![p.run].status = "failed"]
          BY <4>4 DEF Handle
        <5>2. rows \in [Run -> Row \cup {None}]
          BY <1>0 DEF TypeOK
        <5>3. [rows EXCEPT ![p.run].status = "failed"] \in [Run -> Row \cup {None}]
          BY <1>0, <3>1, RowChange
        <5> QED
          BY <5>1, <5>2, <5>3
      <4> QED
        BY <2>5, <4>1, <4>2, <4>3, <4>4
    <3>3. p' \in Pipeline
      BY <1>0, <2>0, <2>5, ProcessChange, Zero
         DEF MarkArtifactsReady, MarkPublished, Complete, Handle, Go, Inside
    <3> QED
      BY <1>0, <2>5, <3>2, <3>3
         DEF MarkArtifactsReady, MarkPublished, Complete, Handle, TypeOK
  <2>6. CASE ReplacePointer
    <3>1. p' \in Pipeline
      BY <1>0, <2>0, <2>6, ProcessChange, Zero DEF ReplacePointer, Go, Inside
    <3>2. pointer' \in Payload \cup {None}
      BY <1>0, <2>6, RowAtHand DEF ReplacePointer, Inside, TypeOK
    <3> QED
      BY <1>0, <2>6, <3>1, <3>2 DEF ReplacePointer, TypeOK
  <2>7. ASSUME NEW a \in Asset, Store(a)
        PROVE  TypeOK'
    BY <1>0, <2>7 DEF Store, TypeOK
  <2>8. ASSUME NEW a \in Asset, NEW e \in Day, Download(a, e)
        PROVE  TypeOK'
    <3>1. p' \in Pipeline
      BY <1>0, <2>0, <2>8, ProcessChange, Zero DEF Download, Go, TypeOK
    <3>2. [run |-> p.run, asset |-> a, end |-> e] \in File
      BY <2>8, RowAtHand DEF Download, Inside, File
    <3> QED
      BY <1>0, <2>8, <3>1, <3>2 DEF Download, TypeOK
  <2> QED
    BY <1>3, <2>1, <2>2, <2>3, <2>4, <2>5, <2>6, <2>7, <2>8 DEF Attempt
<1>4. CASE Reading
  <2>1. CASE ReadFirst
    <3>1. DOMAIN pointer.data \in SUBSET Asset /\ governed \in SUBSET Asset
      BY <1>0, <2>1, GovernedType DEF ReadFirst
    <3>2. reader' \in Reader
      BY <1>0, <2>1, <3>1, ReaderChange DEF ReadFirst, ReaderPlaces
    <3> QED
      BY <1>0, <2>1, <3>2 DEF ReadFirst, TypeOK
  <2>2. CASE ReadSecond
    <3>1. reader' \in Reader
      BY <1>0, <2>2, ReaderChange DEF ReadSecond, ReaderPlaces, TypeOK
    <3> QED
      BY <1>0, <2>2, <3>1 DEF ReadSecond, TypeOK
  <2>3. CASE ReadManifest \/ Resolve \/ Leave
    <3>1. reader' \in Reader
      BY <1>0, <2>3, ReaderChange
         DEF ReadManifest, Resolve, Leave, ReaderGoes, ReaderPlaces
    <3> QED
      BY <1>0, <2>3, <3>1 DEF ReadManifest, Resolve, Leave, TypeOK
  <2>4. ASSUME NEW a \in Asset, ReadFile(a)
        PROVE  TypeOK'
    <3>1. reader.paths \cup {a} \in SUBSET Asset
      BY <1>0 DEF TypeOK, Reader
    <3>2. reader' \in Reader
      BY <1>0, <2>4, <3>1, ReaderChange DEF ReadFile, ReaderPlaces
    <3> QED
      BY <1>0, <2>4, <3>2 DEF ReadFile, TypeOK
  <2> QED
    BY <1>4, <2>1, <2>2, <2>3, <2>4 DEF Reading
<1>5. CASE UNCHANGED vars
  BY <1>0, <1>5 DEF vars, TypeOK
<1> QED
  BY <1>1, <1>2, <1>3, <1>4, <1>5 DEF Next

-----------------------------------------------------------------------------
(* What each step does to the table and to the files *)

\* The row of r becomes <<s, t>>, the others stay.
Becomes(r, s, t) ==
    /\ rows'[r] # None
    /\ rows'[r].status = s
    /\ rows'[r].state = t
    /\ \A q \in Run \ {r} : rows'[q] = rows[q]

LEMMA RowEffect ==
    ASSUME TypeOK, NEW r \in Run, rows[r] \in Row,
           NEW s \in {"running", "completed", "failed"},
           NEW t \in {"running", "artifacts_ready", "published", "completed"}
    PROVE  /\ rows' = [rows EXCEPT ![r].status = s] => Becomes(r, s, rows[r].state)
           /\ rows' = [rows EXCEPT ![r].state = t] => Becomes(r, rows[r].status, t)
           /\ rows' = [rows EXCEPT ![r].status = s, ![r].state = t] => Becomes(r, s, t)
<1>1. DOMAIN rows = Run
  BY DEF TypeOK
<1>2. ASSUME rows' = [rows EXCEPT ![r].status = s]
      PROVE  Becomes(r, s, rows[r].state)
  <2>1. rows'[r] = [rows[r] EXCEPT !.status = s]
    BY <1>1, <1>2
  <2>2. rows'[r] \in Row /\ rows'[r].status = s /\ rows'[r].state = rows[r].state
    BY <2>1 DEF Row
  <2> QED
    BY <1>1, <1>2, <2>2, RowType DEF Becomes
<1>3. ASSUME rows' = [rows EXCEPT ![r].state = t]
      PROVE  Becomes(r, rows[r].status, t)
  <2>1. rows'[r] = [rows[r] EXCEPT !.state = t]
    BY <1>1, <1>3
  <2>2. rows'[r] \in Row /\ rows'[r].state = t /\ rows'[r].status = rows[r].status
    BY <2>1 DEF Row
  <2> QED
    BY <1>1, <1>3, <2>2, RowType DEF Becomes
<1>4. ASSUME rows' = [rows EXCEPT ![r].status = s, ![r].state = t]
      PROVE  Becomes(r, s, t)
  <2>1. rows'[r] = [[rows[r] EXCEPT !.status = s] EXCEPT !.state = t]
    BY <1>1, <1>4
  <2>2. rows'[r] \in Row /\ rows'[r].state = t /\ rows'[r].status = s
    BY <2>1 DEF Row
  <2> QED
    BY <1>1, <1>4, <2>2, RowType DEF Becomes
<1> QED
  BY <1>2, <1>3, <1>4

LEMMA RecoveryEffect ==
    ASSUME IInv, NEW r \in Run
    PROVE  /\ RecoverMatching(r) => Becomes(r, rows[r].status, "published")
           /\ RecoverComplete(r) => Becomes(r, "completed", "completed")
           /\ RecoverFailed(r) => Becomes(r, "failed", rows[r].state)
<1>1. TypeOK
  BY DEF IInv
<1>2. ASSUME RecoverMatching(r)
      PROVE  Becomes(r, rows[r].status, "published")
  <2>1. rows[r] \in Row
    BY <1>2, RowAtHand DEF RecoverMatching
  <2> QED
    BY <1>1, <1>2, <2>1, RowEffect DEF RecoverMatching
<1>3. ASSUME RecoverComplete(r)
      PROVE  Becomes(r, "completed", "completed")
  <2>1. rows[r] \in Row
    BY <1>3, RowAtHand DEF RecoverComplete
  <2> QED
    BY <1>1, <1>3, <2>1, RowEffect DEF RecoverComplete
<1>4. ASSUME RecoverFailed(r)
      PROVE  Becomes(r, "failed", rows[r].state)
  <2>1. rows[r] \in Row
    BY <1>4, RowAtHand DEF RecoverFailed
  <2> QED
    BY <1>1, <1>4, <2>1, RowEffect DEF RecoverFailed
<1> QED
  BY <1>2, <1>3, <1>4

LEMMA StartEffect ==
    ASSUME IInv, StartRun
    PROVE  /\ p.run \in Run
           /\ \/ rows' = rows /\ p' = Idle
              \/ /\ rows[p.run] = None
                 /\ Becomes(p.run, "running", "running")
                 /\ p' = [p EXCEPT !.pc = "validating"]
<1>1. p.run \in Run /\ DOMAIN rows = Run
  BY DEF StartRun, IInv, RunInv, TypeOK
<1>2. [status |-> "running", state |-> "running"] \in Row
  BY DEF Row
<1> QED
  BY <1>1, <1>2, RowType DEF StartRun, Becomes, Go

LEMMA AttemptEffect ==
    ASSUME IInv
    PROVE  /\ MarkArtifactsReady => Becomes(p.run, "running", "artifacts_ready")
           /\ MarkPublished => Becomes(p.run, "running", "published")
           /\ Complete => Becomes(p.run, "completed", "completed")
<1>1. TypeOK
  BY DEF IInv
<1>2. CASE p.pc \in Inside
  <2>1. p.run \in Run /\ rows[p.run] \in Row
    BY <1>2, RowAtHand
  <2>2. MarkArtifactsReady => Becomes(p.run, "running", "artifacts_ready")
    BY <1>1, <2>1, RowEffect DEF MarkArtifactsReady
  <2>3. MarkPublished => Becomes(p.run, "running", "published")
    BY <1>1, <2>1, RowEffect DEF MarkPublished
  <2>4. Complete => Becomes(p.run, "completed", "completed")
    BY <1>1, <2>1, RowEffect DEF Complete
  <2> QED
    BY <2>2, <2>3, <2>4
<1> QED
  BY <1>2 DEF MarkArtifactsReady, MarkPublished, Complete, Inside

\* Without read errors the recovery and the handler tell a published run.
LEMMA SeenExactly ==
    ASSUME NoReadErrors, NEW b \in BOOLEAN
    PROVE  Seen(b) = {b}
BY DEF Seen, NoReadErrors

LEMMA HandleEffect ==
    ASSUME IInv, NoReadErrors, Handle
    PROVE  /\ p.run \in Run /\ p' = Idle
           /\ \/ rows' = rows
              \/ /\ Becomes(p.run, "failed", rows[p.run].state)
                 /\ ~(/\ rows[p.run].state \in {"artifacts_ready", "published"}
                      /\ PointerMatches(p.run))
<1>1. p.run \in Run /\ rows[p.run] \in Row
  BY RowAtHand DEF Handle
<1>2. TypeOK
  BY DEF IInv
<1> DEFINE b == /\ rows[p.run].state \in {"artifacts_ready", "published"}
                /\ PointerMatches(p.run)
<1>3. Seen(b) = {b}
  BY SeenExactly DEF PointerMatches
<1>4. rows' = IF b THEN rows ELSE [rows EXCEPT ![p.run].status = "failed"]
  BY <1>3 DEF Handle
<1>5. rows' = [rows EXCEPT ![p.run].status = "failed"]
          => Becomes(p.run, "failed", rows[p.run].state)
  BY <1>1, <1>2, RowEffect
<1> QED
  BY <1>1, <1>4, <1>5 DEF Handle

LEMMA FailedEffect ==
    ASSUME IInv, NoReadErrors, NEW r \in Run, RecoverFailed(r)
    PROVE  ~(/\ rows[r].state \in {"artifacts_ready", "published"}
             /\ PointerMatches(r))
<1> DEFINE b == /\ rows[r].state \in {"artifacts_ready", "published"}
                /\ PointerMatches(r)
<1>1. Seen(b) = {b}
  BY SeenExactly DEF PointerMatches
<1> QED
  BY <1>1 DEF RecoverFailed

-----------------------------------------------------------------------------
(* What no step takes back *)

LEMMA RowsKept ==
    ASSUME IInv, NoReadErrors, [Next]_vars, NEW q \in Run, rows[q] # None
    PROVE  rows'[q] # None
<1>1. ASSUME NEW r \in Run, RecoverMatching(r) \/ RecoverComplete(r) \/ RecoverFailed(r)
      PROVE  rows'[q] # None
  BY <1>1, RecoveryEffect DEF Becomes
<1>2. CASE StartRun
  BY <1>2, StartEffect DEF Becomes
<1>3. CASE MarkArtifactsReady \/ MarkPublished \/ Complete
  BY <1>3, AttemptEffect DEF Becomes
<1>4. CASE Handle
  BY <1>4, HandleEffect DEF Becomes
<1>5. CASE UNCHANGED rows
  BY <1>5
<1> QED
  BY <1>1, <1>2, <1>3, <1>4, <1>5
     DEF Next, World, Recovery, Attempt, Reading, vars, NextSecond, NextDay, Regovern,
         Begin, EndRecovery, Validate, EndDownloads, LinkManifest, ReplacePointer,
         CheckPointer, Raise, Crash, Store, Download, ReadFirst, ReadSecond,
         ReadManifest, Resolve, Leave, ReadFile

\* Files, manifests and the pointer stay: they are linked once, and the pointer is
\* only replaced.
LEMMA FilesKept ==
    ASSUME IInv, [Next]_vars
    PROVE  /\ raw \subseteq raw'
           /\ parquet \subseteq parquet'
           /\ \A q \in Run : manifest[q] # None => manifest'[q] = manifest[q]
           /\ pointer # None => pointer' # None
<1>1. ASSUME NEW a \in Asset, Store(a)
      PROVE  parquet \subseteq parquet' /\ UNCHANGED <<raw, manifest, pointer>>
  BY <1>1 DEF Store
<1>2. ASSUME NEW a \in Asset, NEW e \in Day, Download(a, e)
      PROVE  raw \subseteq raw' /\ UNCHANGED <<parquet, manifest, pointer>>
  BY <1>2 DEF Download
<1>3. CASE LinkManifest
  BY <1>3 DEF LinkManifest, IInv, PhaseInv, Before, TypeOK
<1>4. CASE ReplacePointer
  BY <1>4 DEF ReplacePointer, IInv, PhaseInv
<1>5. CASE UNCHANGED files
  BY <1>5 DEF files
<1> QED
  BY <1>1, <1>2, <1>3, <1>4, <1>5
     DEF Next, World, Recovery, Attempt, Reading, vars, NextSecond, NextDay, Regovern,
         Begin, EndRecovery, RecoverMatching, RecoverComplete, RecoverFailed, StartRun,
         Validate, EndDownloads, MarkArtifactsReady, CheckPointer, MarkPublished,
         Complete, Raise, Handle, Crash, ReadFirst, ReadSecond, ReadManifest, Resolve,
         Leave, ReadFile

\* Only the pipeline itself changes the table, the files and its own place.
LEMMA Elsewhere ==
    ASSUME [Next]_vars
    PROVE  \/ Recovery \/ Attempt
           \/ NextSecond \/ NextDay
           \/ UNCHANGED <<now, today, rows, files, p>>
BY DEF Next, World, Regovern, Reading, vars, env, ReadFirst, ReadSecond, ReadManifest,
       Resolve, Leave, ReadFile

-----------------------------------------------------------------------------
(* The table *)

LEMMA RowsStep ==
    ASSUME IInv, TypeOK', NoReadErrors, [Next]_vars
    PROVE  RowsInv'
<1>0. TypeOK /\ RowsInv
  BY DEF IInv
<1>1. CASE NextSecond
  BY <1>0, <1>1 DEF NextSecond, RowsInv, TypeOK, Run, files
<1>2. ASSUME NEW r \in Run, RecoverMatching(r)
      PROVE  RowsInv'
  <2>1. /\ Recoverable(r) /\ manifest[r] # None
        /\ rows[r].status # "completed"
    BY <1>0, <1>2, RowAtHand DEF RecoverMatching, PointerMatches, Recoverable
  <2>2. Becomes(r, rows[r].status, "published")
    BY <1>2, RecoveryEffect
  <2>3. UNCHANGED <<now, manifest, pointer>> /\ rows[r] # None
    BY <1>2, <2>1 DEF RecoverMatching, env, files, Recoverable
  <2> QED
    BY <1>0, <2>1, <2>2, <2>3 DEF RowsInv, Becomes
<1>3. ASSUME NEW r \in Run, RecoverComplete(r)
      PROVE  RowsInv'
  <2>1. Recoverable(r) /\ PointerMatches(r)
    BY <1>3, RowAtHand DEF RecoverComplete, IInv, RecoveryInv
  <2>2. Becomes(r, "completed", "completed")
    BY <1>3, RecoveryEffect
  <2>3. UNCHANGED <<now, manifest, pointer>> /\ rows[r] # None
    BY <1>3, <2>1 DEF RecoverComplete, env, files, Recoverable
  <2>4. pointer # None /\ manifest[r] # None /\ pointer.run = r
    BY <2>1 DEF PointerMatches, IInv, ManifestInv
  <2> QED
    BY <1>0, <2>2, <2>3, <2>4 DEF RowsInv, Becomes, TypeOK, Run
<1>4. ASSUME NEW r \in Run, RecoverFailed(r)
      PROVE  RowsInv'
  <2>1. Recoverable(r)
    BY <1>4, RowAtHand DEF RecoverFailed
  <2>2. Becomes(r, "failed", rows[r].state)
    BY <1>4, RecoveryEffect
  <2>3. UNCHANGED <<now, manifest, pointer>> /\ rows[r] # None
    BY <1>4, <2>1 DEF RecoverFailed, env, files, Recoverable
  <2> QED
    BY <1>0, <2>1, <2>2, <2>3 DEF RowsInv, Becomes, Recoverable
<1>5. CASE StartRun
  <2>1. p.run <= now /\ UNCHANGED <<now, manifest, pointer>>
    BY <1>5 DEF StartRun, IInv, RunInv, env, files
  <2> QED
    BY <1>0, <1>5, <2>1, StartEffect DEF RowsInv, Becomes
<1>6. CASE MarkArtifactsReady \/ MarkPublished \/ Complete
  <2>1. p.run \in Run /\ rows[p.run] # None /\ UNCHANGED <<now, manifest, pointer>>
    BY <1>6 DEF MarkArtifactsReady, MarkPublished, Complete, IInv, RunInv, Inside, env,
                files
  <2>2. manifest[p.run] # None
    BY <1>6 DEF MarkArtifactsReady, MarkPublished, Complete, IInv, PhaseInv
  <2>3. Complete => pointer # None /\ p.run <= pointer.run
    BY <2>1, <2>2 DEF Complete, IInv, PhaseInv, ManifestInv, Run
  <2> QED
    BY <1>0, <1>6, <2>1, <2>2, <2>3, AttemptEffect DEF RowsInv, Becomes
<1>7. CASE Handle
  <2>1. /\ p.run \in Run /\ rows[p.run] # None /\ rows[p.run].status = "running"
        /\ UNCHANGED <<now, manifest, pointer>>
    BY <1>7 DEF Handle, IInv, RunInv, env, files
  <2> QED
    BY <1>0, <1>7, <2>1, HandleEffect DEF RowsInv, Becomes
<1>8. CASE LinkManifest
  <2>1. UNCHANGED <<now, rows, pointer>>
    BY <1>8 DEF LinkManifest, env
  <2> QED
    BY <1>0, <2>1, FilesKept DEF RowsInv
<1>9. CASE ReplacePointer
  <2>1. /\ UNCHANGED <<now, rows, manifest>>
        /\ p.run \in Run /\ manifest[p.run] # None
        /\ \A r \in Run : rows[r] # None => r <= p.run
    BY <1>9 DEF ReplacePointer, IInv, RunInv, PhaseInv, Inside, env
  <2>2. pointer' # None /\ pointer'.run = p.run
    BY <1>9, <2>1 DEF ReplacePointer, IInv, ManifestInv
  <2> QED
    BY <1>0, <2>1, <2>2 DEF RowsInv
<1>10. CASE UNCHANGED <<now, rows, manifest, pointer>>
  BY <1>0, <1>10 DEF RowsInv
<1> QED
  BY Elsewhere, <1>1, <1>2, <1>3, <1>4, <1>5, <1>6, <1>7, <1>8, <1>9, <1>10
     DEF Recovery, Attempt, Begin, EndRecovery, Validate, EndDownloads, CheckPointer,
         Raise, Crash, Store, Download, NextDay, env, files

-----------------------------------------------------------------------------
(* Files, manifests and the pointer *)

LEMMA FilesStep ==
    ASSUME IInv, TypeOK', NoReadErrors, [Next]_vars
    PROVE  FilesInv'
<1>0. TypeOK /\ FilesInv
  BY DEF IInv
<1>1. ASSUME raw' = raw, parquet' = parquet, today <= today'
      PROVE  FilesInv'
  <2> SUFFICES ASSUME NEW f \in raw
               PROVE  rows'[f.run] # None /\ f.end <= today'
    BY <1>0, <1>1 DEF FilesInv
  <2>1. f.run \in Run /\ f.end \in Day
    BY <1>0, FileType DEF TypeOK
  <2> QED
    BY <1>0, <1>1, <2>1, RowsKept DEF FilesInv, TypeOK, Day
<1>2. ASSUME NEW a \in Asset, Store(a)
      PROVE  FilesInv'
  BY <1>0, <1>2 DEF Store, FilesInv, env
<1>3. ASSUME NEW a \in Asset, NEW e \in Day, Download(a, e)
      PROVE  FilesInv'
  BY <1>0, <1>3 DEF Download, FilesInv, IInv, RunInv, Inside, env
<1>4. today \in Nat
  BY <1>0 DEF TypeOK, Day
<1>5. CASE NextDay
  BY <1>1, <1>4, <1>5 DEF NextDay, files
<1>6. CASE UNCHANGED <<today, raw, parquet>>
  BY <1>1, <1>4, <1>6
<1> QED
  BY <1>2, <1>3, <1>5, <1>6, Elsewhere
     DEF Recovery, Attempt, Begin, EndRecovery, RecoverMatching, RecoverComplete,
         RecoverFailed, StartRun, Validate, EndDownloads, LinkManifest,
         MarkArtifactsReady, ReplacePointer, CheckPointer, MarkPublished, Complete, Raise,
         Handle, Crash, NextSecond, env, files

LEMMA ManifestStep ==
    ASSUME IInv, TypeOK', NoReadErrors, [Next]_vars
    PROVE  ManifestInv'
<1>0. TypeOK /\ ManifestInv
  BY DEF IInv
<1>1. ASSUME UNCHANGED <<manifest, parquet>>
      PROVE  ManifestInv'
  BY <1>0, <1>1, RowsKept DEF ManifestInv, StoredOf
<1>2. ASSUME NEW a \in Asset, Store(a)
      PROVE  ManifestInv'
  <2>1. /\ manifest[p.run] = None /\ UNCHANGED <<rows, manifest>>
        /\ \E f \in raw : f.run = p.run /\ parquet' = parquet \cup {f}
    BY <1>2 DEF Store, IInv, PhaseInv, Before
  <2>2. \A r \in Run : manifest[r] # None => StoredOf(r)' = StoredOf(r)
    BY <2>1 DEF StoredOf
  <2> QED
    BY <1>0, <2>1, <2>2 DEF ManifestInv
<1>3. CASE LinkManifest
  <2> DEFINE m == [run |-> p.run, data |-> [a \in p.assets |-> EndOf(p.run, a)]]
  <2>1. /\ p.run \in Run /\ rows[p.run] # None /\ UNCHANGED <<rows, parquet>>
        /\ manifest' = [manifest EXCEPT ![p.run] = m]
        /\ StoredOf(p.run) = p.assets
    BY <1>3 DEF LinkManifest, IInv, RunInv, Inside, env
  <2>2. \A a \in p.assets : EndOf(p.run, a) = p.end
    BY <1>3, <2>1, StoredEnds DEF LinkManifest, IInv
  <2>3. \A a \in p.assets : [run |-> p.run, asset |-> a, end |-> p.end] \in parquet
    BY <1>3, <2>1, StoredEnds DEF LinkManifest, IInv
  <2>4. manifest'[p.run] = m /\ \A r \in Run \ {p.run} : manifest'[r] = manifest[r]
    BY <1>0, <2>1 DEF TypeOK
  <2>5. m.run = p.run /\ DOMAIN m.data = p.assets /\ \A a \in p.assets : m.data[a] = p.end
    BY <2>2
  <2>6. \A r \in Run : StoredOf(r)' = StoredOf(r)
    BY <2>1 DEF StoredOf
  <2> HIDE DEF m
  <2> QED
    BY <1>0, <2>1, <2>3, <2>4, <2>5, <2>6 DEF ManifestInv
<1> QED
  BY <1>1, <1>2, <1>3, Elsewhere
     DEF Recovery, Attempt, Begin, EndRecovery, RecoverMatching, RecoverComplete,
         RecoverFailed, StartRun, Validate, EndDownloads, Download,
         MarkArtifactsReady, ReplacePointer, CheckPointer, MarkPublished, Complete, Raise,
         Handle, Crash, NextSecond, NextDay, env, files

LEMMA PointerStep ==
    ASSUME IInv, TypeOK', NoReadErrors, [Next]_vars
    PROVE  PointerInv'
<1>0. TypeOK /\ PointerInv /\ RowsInv /\ ManifestInv
  BY DEF IInv
<1>a. pointer # None => pointer.run \in Run /\ rows[pointer.run] # None
  BY <1>0, PayloadType DEF PointerInv, ManifestInv, TypeOK
<1>1. ASSUME UNCHANGED <<rows, pointer>>
      PROVE  PointerInv'
  BY <1>0, <1>1, <1>a, FilesKept DEF PointerInv
<1>2. ASSUME NEW r \in Run, RecoverMatching(r) \/ RecoverComplete(r)
      PROVE  PointerInv'
  <2>1. UNCHANGED <<manifest, pointer>>
    BY <1>2 DEF RecoverMatching, RecoverComplete, files
  <2> QED
    BY <1>0, <1>2, <1>a, <2>1, RecoveryEffect DEF PointerInv, Becomes
<1>3. ASSUME NEW r \in Run, RecoverFailed(r)
      PROVE  PointerInv'
  <2>1. UNCHANGED <<manifest, pointer>>
    BY <1>3 DEF RecoverFailed, files
  <2>2. ASSUME pointer # None, pointer.run = r
        PROVE  FALSE
    <3>1. Recoverable(r) /\ rows[r] \in Row
      BY <1>3, RowAtHand DEF RecoverFailed
    <3>2. rows[r].state \in {"artifacts_ready", "published"}
      BY <1>0, <2>2, <3>1 DEF PointerInv, RowsInv, Recoverable, Row
    <3>3. PointerMatches(r)
      BY <1>0, <2>2 DEF PointerInv, PointerMatches
    <3> QED
      BY <1>3, <3>2, <3>3, FailedEffect
  <2> QED
    BY <1>0, <1>3, <1>a, <2>1, <2>2, RecoveryEffect DEF PointerInv, Becomes
<1>4. CASE StartRun
  <2>1. UNCHANGED <<manifest, pointer>>
    BY <1>4 DEF StartRun, files
  <2> QED
    BY <1>0, <1>4, <1>a, <2>1, StartEffect DEF PointerInv, Becomes
<1>5. CASE MarkArtifactsReady \/ MarkPublished \/ Complete
  <2>1. UNCHANGED <<manifest, pointer>>
    BY <1>5 DEF MarkArtifactsReady, MarkPublished, Complete, files
  <2> QED
    BY <1>0, <1>5, <1>a, <2>1, AttemptEffect DEF PointerInv, Becomes
<1>6. CASE Handle
  <2>1. UNCHANGED <<manifest, pointer>> /\ rows[p.run] \in Row
        /\ rows[p.run].status = "running" /\ p.run \in Run
    BY <1>6, RowAtHand DEF Handle, files, IInv, RunInv
  <2>2. ASSUME pointer # None, pointer.run = p.run
        PROVE  /\ rows[p.run].state \in {"artifacts_ready", "published"}
               /\ PointerMatches(p.run)
    <3>1. rows[p.run] # None
      BY <1>a, <2>2
    <3> QED
      BY <1>0, <2>1, <2>2, <3>1 DEF PointerInv, PointerMatches, RowsInv, Row
  <2> QED
    BY <1>0, <1>6, <1>a, <2>1, <2>2, HandleEffect DEF PointerInv, Becomes
<1>7. CASE ReplacePointer
  <2>1. /\ UNCHANGED <<rows, manifest>> /\ pointer' = manifest[p.run]
        /\ manifest[p.run] # None /\ p.run \in Run
        /\ rows[p.run].state = "artifacts_ready" /\ rows[p.run].status = "running"
    BY <1>7 DEF ReplacePointer, IInv, PhaseInv, RunInv, Inside
  <2> QED
    BY <1>0, <2>1 DEF PointerInv, ManifestInv
<1> QED
  BY <1>1, <1>2, <1>3, <1>4, <1>5, <1>6, <1>7, Elsewhere
     DEF Recovery, Attempt, Begin, EndRecovery, Validate, EndDownloads, Store, Download,
         LinkManifest, CheckPointer, Raise, Crash, NextSecond, NextDay, env, files

-----------------------------------------------------------------------------
(* The pipeline *)

\* Another run's row, or the pointer, may only change as follows for a settled run
\* to stay settled.
LEMMA SettledKept ==
    ASSUME NEW r \in Run, Settled(r), rows'[r] = rows[r],
           pointer' = pointer \/ (pointer' # None /\ pointer'.run # r)
    PROVE  Settled(r)'
BY DEF Settled

LEMMA SettledByStatus ==
    ASSUME NEW r \in Run, rows'[r] # None => rows'[r].status = "completed"
    PROVE  Settled(r)'
BY DEF Settled

LEMMA RunStep ==
    ASSUME IInv, TypeOK', NoReadErrors, [Next]_vars
    PROVE  RunInv'
<1>0. TypeOK /\ RunInv /\ RowsInv /\ PointerInv /\ ManifestInv
  BY DEF IInv
<1>a. \A r \in Run : rows[r] # None => r <= now
  BY <1>0 DEF RowsInv
<1>1. CASE NextSecond
  BY <1>0, <1>1 DEF NextSecond, RunInv, Settled, TypeOK, Run, Pipeline, files
<1>2. CASE Begin
  <2>1. p'.pc = "recovering" /\ p'.run = now /\ UNCHANGED <<now, rows>>
    BY <1>2 DEF Begin, Idle, env
  <2>2. now \in Run
    BY <1>0 DEF TypeOK
  <2> QED
    BY <1>a, <2>1, <2>2 DEF RunInv, Inside, Run
<1>3. CASE EndRecovery
  <2>1. /\ p.pc = "recovering" /\ p.todo = {} /\ p'.pc = "starting" /\ p'.run = p.run
        /\ UNCHANGED <<now, rows, pointer>>
    BY <1>0, <1>3 DEF EndRecovery, Go, TypeOK, Pipeline, env, files
  <2>2. \A r \in Run : Settled(r)'
    BY <2>1, SettledKept DEF IInv, RecoveryInv
  <2> QED
    BY <1>0, <2>1, <2>2 DEF RunInv, Inside
<1>4. ASSUME NEW r \in Run, RecoverMatching(r) \/ RecoverComplete(r) \/ RecoverFailed(r)
      PROVE  RunInv'
  <2>1. /\ p'.pc \in {"recovering", "settling"} /\ p'.run = p.run /\ p.pc # "idle"
        /\ UNCHANGED now
    BY <1>0, <1>4
       DEF RecoverMatching, RecoverComplete, RecoverFailed, Go, TypeOK, Pipeline, env
  <2>2. rows[r] # None
    BY <1>4, RowAtHand, RowType DEF RecoverMatching, RecoverComplete, RecoverFailed
  <2>3. \A q \in Run : rows'[q] # None => rows[q] # None
    BY <1>4, <2>2, RecoveryEffect DEF Becomes
  <2> QED
    BY <1>0, <2>1, <2>3 DEF RunInv, Inside
<1>5. CASE StartRun
  <2>1. CASE p' = Idle
    BY <2>1 DEF RunInv, Idle, Inside
  <2>2. CASE /\ Becomes(p.run, "running", "running")
             /\ p' = [p EXCEPT !.pc = "validating"]
    <3>1. /\ p.run \in Run /\ p.pc = "starting" /\ p'.pc = "validating" /\ p'.run = p.run
          /\ UNCHANGED <<now, pointer>>
      BY <1>0, <1>5, <2>2, StartEffect DEF StartRun, TypeOK, Pipeline, env, files
    <3>2. \A r \in Run \ {p.run} : Settled(r)'
      BY <1>0, <2>2, <3>1, SettledKept DEF RunInv, Becomes
    <3> QED
      BY <1>0, <2>2, <3>1, <3>2 DEF RunInv, Inside, Becomes, Run
  <2> QED
    BY <1>5, <2>1, <2>2, StartEffect
<1>6. CASE MarkArtifactsReady \/ MarkPublished
  <2>1. /\ p.pc \in Inside /\ p'.pc \in Inside /\ p'.run = p.run
        /\ UNCHANGED <<now, pointer>>
    BY <1>0, <1>6
       DEF MarkArtifactsReady, MarkPublished, Go, Inside, TypeOK, Pipeline, env, files
  <2>2. p.run \in Run /\ rows[p.run] # None
    BY <1>0, <2>1 DEF RunInv, Inside
  <2>3. rows'[p.run] # None /\ rows'[p.run].status = "running"
        /\ \A r \in Run \ {p.run} : rows'[r] = rows[r]
    BY <1>6, AttemptEffect DEF Becomes
  <2>4. \A r \in Run \ {p.run} : Settled(r)'
    BY <1>0, <2>1, <2>3, SettledKept DEF RunInv
  <2> QED
    BY <1>0, <2>1, <2>2, <2>3, <2>4 DEF RunInv, Inside
<1>7. CASE Complete \/ Handle \/ Crash
  <2>1. p' = Idle
    BY <1>7 DEF Complete, Handle, Crash
  <2> QED
    BY <2>1 DEF RunInv, Idle, Inside
<1>8. CASE ReplacePointer
  <2>1. /\ p.pc = "ready" /\ p'.pc = "pointed" /\ p'.run = p.run
        /\ pointer' = manifest[p.run] /\ UNCHANGED <<now, rows>>
    BY <1>0, <1>8 DEF ReplacePointer, Go, TypeOK, Pipeline, env
  <2>2. p.run \in Run /\ manifest[p.run] # None /\ manifest[p.run].run = p.run
    BY <1>0, <2>1 DEF RunInv, Inside, IInv, PhaseInv, ManifestInv
  <2>3. \A r \in Run \ {p.run} : Settled(r)'
    BY <1>0, <2>1, <2>2, SettledKept DEF RunInv, Inside
  <2> QED
    BY <1>0, <2>1, <2>2, <2>3 DEF RunInv, Inside
<1>9. ASSUME p.pc \in Inside, p'.pc \in Inside \cup {"failing"}, p'.run = p.run,
             UNCHANGED <<now, rows, pointer>>
      PROVE  RunInv'
  <2>1. \A r \in Run \ {p.run} : Settled(r)'
    BY <1>0, <1>9, SettledKept DEF RunInv
  <2> QED
    BY <1>0, <1>9, <2>1 DEF RunInv, Inside
<1>10. CASE UNCHANGED <<now, rows, pointer, p>>
  BY <1>0, <1>10 DEF RunInv, Settled
<1>11. CASE Validate \/ EndDownloads \/ LinkManifest \/ CheckPointer \/ Raise
  <2>1. p.pc \in Inside /\ p'.pc \in Inside \cup {"failing"} /\ p'.run = p.run
    BY <1>0, <1>11
       DEF Validate, EndDownloads, LinkManifest, CheckPointer, Raise, Go, Inside, TypeOK,
           Pipeline
  <2>2. UNCHANGED <<now, rows, pointer>>
    BY <1>11
       DEF Validate, EndDownloads, LinkManifest, CheckPointer, Raise, env, files
  <2> QED
    BY <1>9, <2>1, <2>2
<1>12. ASSUME NEW a \in Asset, NEW e \in Day, Download(a, e)
       PROVE  RunInv'
  <2>1. p.pc \in Inside /\ p'.pc \in Inside \cup {"failing"} /\ p'.run = p.run
    BY <1>0, <1>12 DEF Download, Go, Inside, TypeOK, Pipeline
  <2>2. UNCHANGED <<now, rows, pointer>>
    BY <1>12 DEF Download, env
  <2> QED
    BY <1>9, <2>1, <2>2
<1> QED
  BY <1>1, <1>2, <1>3, <1>4, <1>5, <1>6, <1>7, <1>8, <1>10, <1>11, <1>12, Elsewhere
     DEF Recovery, Attempt, Store, NextDay, env, files

LEMMA RecoveryStep ==
    ASSUME IInv, TypeOK', NoReadErrors, [Next]_vars
    PROVE  RecoveryInv'
<1>0. TypeOK /\ RowsInv /\ PointerInv /\ ManifestInv /\ RecoveryInv
  BY DEF IInv
<1>1. CASE Begin
  <2>1. /\ p'.pc = "recovering" /\ p'.todo = {r \in Run : Recoverable(r)}
        /\ UNCHANGED <<rows, pointer>>
    BY <1>1 DEF Begin, Idle, files
  <2>2. \A r \in Run : ~Recoverable(r) => Settled(r)
    BY <1>0 DEF Recoverable, Settled, PointerInv, TypeOK, Row
  <2>3. \A r \in Run : Settled(r)' = Settled(r) /\ Recoverable(r)' = Recoverable(r)
    BY <2>1 DEF Settled, Recoverable
  <2> QED
    BY <2>1, <2>2, <2>3 DEF RecoveryInv
<1>2. ASSUME NEW r \in Run, RecoverMatching(r)
      PROVE  RecoveryInv'
  <2>1. /\ p.pc = "recovering" /\ Oldest(r) /\ p'.pc = "settling" /\ p'.todo = p.todo
        /\ UNCHANGED <<pointer, manifest>>
    BY <1>0, <1>2 DEF RecoverMatching, Go, TypeOK, Pipeline, files
  <2>2. Recoverable(r) /\ PointerMatches(r) /\ Becomes(r, rows[r].status, "published")
    BY <1>2, <2>1, RowAtHand, RecoveryEffect DEF RecoverMatching
  <2>3. \A q \in Run \ p.todo : Settled(q)'
    BY <1>0, <2>1, <2>2, SettledKept DEF RecoveryInv, Becomes, Oldest
  <2>4. \A q \in p.todo : Recoverable(q)'
    BY <1>0, <2>1, <2>2 DEF RecoveryInv, Recoverable, Becomes, TypeOK, Pipeline
  <2>5. \A q \in Run : Oldest(q)' => q = r
    BY <2>1 DEF Oldest, Run
  <2>6. PointerMatches(r)'
    BY <2>1, <2>2 DEF PointerMatches
  <2> QED
    BY <2>1, <2>2, <2>3, <2>4, <2>5, <2>6 DEF RecoveryInv, Becomes
<1>3. ASSUME NEW r \in Run, RecoverComplete(r) \/ RecoverFailed(r)
      PROVE  RecoveryInv'
  <2>1. /\ p.pc \in {"recovering", "settling"} /\ Oldest(r)
        /\ p'.pc = "recovering" /\ p'.todo = p.todo \ {r}
        /\ UNCHANGED <<pointer, manifest>>
    BY <1>0, <1>3 DEF RecoverComplete, RecoverFailed, TypeOK, Pipeline, files
  <2>2. \A q \in Run \ {r} : rows'[q] = rows[q]
    BY <1>3, RecoveryEffect DEF Becomes
  <2>3. \A q \in Run \ p.todo : Settled(q)'
    BY <1>0, <2>1, <2>2, SettledKept DEF RecoveryInv, Oldest
  <2>4. \A q \in p.todo \ {r} : Recoverable(q)'
    BY <1>0, <2>1, <2>2 DEF RecoveryInv, Recoverable, TypeOK, Pipeline
  <2>5. Settled(r)'
    <3>1. CASE RecoverComplete(r)
      BY <3>1, RecoveryEffect, SettledByStatus DEF Becomes
    <3>2. CASE RecoverFailed(r)
      <4>1. rows'[r].status = "failed"
        BY <3>2, RecoveryEffect DEF Becomes
      <4>2. ~(pointer # None /\ pointer.run = r)
        <5> SUFFICES ASSUME pointer # None, pointer.run = r
                     PROVE  FALSE
          OBVIOUS
        <5>1. Recoverable(r) /\ rows[r] \in Row
          BY <2>1, RowAtHand
        <5>2. rows[r].state \in {"artifacts_ready", "published"} /\ PointerMatches(r)
          BY <1>0, <5>1 DEF PointerInv, PointerMatches, RowsInv, Recoverable, Row
        <5> QED
          BY <3>2, <5>2, FailedEffect
      <4> QED
        BY <2>1, <4>1, <4>2 DEF Settled
    <3> QED
      BY <1>3, <3>1, <3>2
  <2> QED
    BY <2>1, <2>3, <2>4, <2>5 DEF RecoveryInv
<1>4. CASE p'.pc \notin {"recovering", "settling"}
  BY <1>4 DEF RecoveryInv
<1>5. CASE UNCHANGED <<rows, manifest, pointer, p>>
  BY <1>0, <1>5 DEF RecoveryInv, Settled, Recoverable, Oldest, PointerMatches
<1>6. Attempt => \/ p'.pc \notin {"recovering", "settling"}
                 \/ UNCHANGED <<rows, manifest, pointer, p>>
  <2>1. CASE StartRun
    BY <1>0, <2>1 DEF StartRun, Go, Idle, TypeOK, Pipeline
  <2>2. CASE \E a \in Asset : Store(a) \/ (\E e \in Day : Download(a, e))
    BY <1>0, <2>2 DEF Store, Download, Go, TypeOK, Pipeline
  <2>3. CASE Validate \/ EndDownloads \/ LinkManifest \/ MarkArtifactsReady
             \/ ReplacePointer \/ CheckPointer \/ MarkPublished \/ Raise
    BY <1>0, <2>3
       DEF Validate, EndDownloads, LinkManifest, MarkArtifactsReady, ReplacePointer,
           CheckPointer, MarkPublished, Raise, Go, TypeOK, Pipeline
  <2>4. CASE Complete \/ Handle \/ Crash
    <3>1. p' = Idle
      BY <2>4 DEF Complete, Handle, Crash
    <3> QED
      BY <3>1 DEF Idle
  <2> QED
    BY <2>1, <2>2, <2>3, <2>4 DEF Attempt
<1>7. EndRecovery => p'.pc \notin {"recovering", "settling"}
  BY <1>0 DEF EndRecovery, Go, TypeOK, Pipeline
<1> QED
  BY <1>1, <1>2, <1>3, <1>4, <1>5, <1>6, <1>7, Elsewhere
     DEF Recovery, NextSecond, NextDay, files

-----------------------------------------------------------------------------
(* The places of a run *)

LEMMA PhaseStep ==
    ASSUME IInv, TypeOK', NoReadErrors, [Next]_vars
    PROVE  PhaseInv'
<1>0. TypeOK /\ PhaseInv /\ RunInv /\ RowsInv /\ FilesInv /\ ManifestInv /\ PointerInv
  BY DEF IInv
<1>1. CASE p'.pc \notin Inside
  BY <1>1 DEF PhaseInv, Before, Inside
<1>2. CASE StartRun
  <2>1. CASE p' = Idle
    BY <1>1, <2>1 DEF Idle, Inside
  <2>2. CASE /\ rows[p.run] = None
             /\ Becomes(p.run, "running", "running")
             /\ p' = [p EXCEPT !.pc = "validating"]
    <3>1. /\ p'.pc = "validating" /\ p'.run = p.run /\ p.run \in Run
          /\ UNCHANGED <<raw, parquet, manifest, pointer>>
      BY <1>0, <1>2, <2>2, StartEffect DEF StartRun, TypeOK, Pipeline, files
    <3>2. manifest[p.run] = None
      BY <1>0, <2>2, <3>1 DEF ManifestInv
    <3>3. \A f \in raw : f.run # p.run
      BY <1>0, <2>2 DEF FilesInv
    <3> QED
      BY <1>0, <2>2, <3>1, <3>2, <3>3 DEF PhaseInv, Before, Becomes, FilesInv
  <2> QED
    BY <1>2, <2>1, <2>2, StartEffect
<1>3. CASE Validate
  <2>1. /\ p.pc = "validating" /\ p'.pc = "downloading" /\ p'.run = p.run
        /\ p'.end = today
        /\ UNCHANGED <<rows, raw, parquet, manifest, pointer>>
    BY <1>0, <1>3 DEF Validate, TypeOK, Pipeline, files
  <2>2. ASSUME pointer # None, NEW a \in DOMAIN pointer.data
        PROVE  pointer.data[a] <= today
    <3>1. pointer.run \in Run
      BY <1>0, <2>2, PayloadType DEF TypeOK
    <3>2. [run |-> pointer.run, asset |-> a, end |-> pointer.data[a]] \in parquet
      BY <1>0, <2>2, <3>1 DEF PointerInv, ManifestInv
    <3> QED
      BY <1>0, <3>2 DEF FilesInv
  <2> QED
    BY <1>0, <2>1, <2>2 DEF PhaseInv, Before
<1>4. ASSUME NEW a \in Asset, NEW e \in Day, Download(a, e), p'.pc \in Inside
      PROVE  PhaseInv'
  <2>1. /\ p.pc = "downloading" /\ p' = p /\ e = p.end
        /\ raw' = raw \cup {[run |-> p.run, asset |-> a, end |-> e]}
        /\ UNCHANGED <<rows, parquet, manifest, pointer>>
    BY <1>0, <1>4 DEF Download, Go, Inside, TypeOK, Pipeline
  <2> QED
    BY <1>0, <2>1 DEF PhaseInv, Before
<1>5. CASE EndDownloads
  <2>1. /\ p.pc = "downloading" /\ p'.pc = "storing" /\ p'.run = p.run /\ p'.end = p.end
        /\ UNCHANGED <<rows, raw, parquet, manifest, pointer>>
    BY <1>0, <1>5 DEF EndDownloads, Go, TypeOK, Pipeline, files
  <2> QED
    BY <1>0, <2>1 DEF PhaseInv, Before
<1>6. ASSUME NEW a \in Asset, Store(a)
      PROVE  PhaseInv'
  <2>1. p.pc = "storing" /\ p' = p /\ UNCHANGED <<rows, raw, manifest, pointer>>
    BY <1>6 DEF Store
  <2> QED
    BY <1>0, <2>1 DEF PhaseInv, Before
<1>7. CASE LinkManifest
  <2> DEFINE m == [run |-> p.run, data |-> [a \in p.assets |-> EndOf(p.run, a)]]
  <2>1. /\ p.pc = "storing" /\ p'.pc = "linked" /\ p'.run = p.run /\ p'.end = p.end
        /\ manifest' = [manifest EXCEPT ![p.run] = m]
        /\ StoredOf(p.run) = p.assets
        /\ UNCHANGED <<rows, pointer>>
    BY <1>0, <1>7 DEF LinkManifest, Go, TypeOK, Pipeline
  <2>2. p.run \in Run /\ manifest'[p.run] = m
    BY <1>0, <2>1 DEF RunInv, Inside, TypeOK
  <2>3. DOMAIN m.data = p.assets /\ \A a \in p.assets : m.data[a] = p.end
    BY <1>0, <2>1, StoredEnds
  <2>4. m # None
    BY <1>7, NewManifest, PayloadType DEF IInv
  <2> HIDE DEF m
  <2> QED
    BY <1>0, <2>1, <2>2, <2>3, <2>4 DEF PhaseInv, Before
<1>8. CASE MarkArtifactsReady
  <2>1. /\ p.pc = "linked" /\ p'.pc = "ready" /\ p'.run = p.run /\ p'.end = p.end
        /\ UNCHANGED <<raw, parquet, manifest, pointer>>
    BY <1>0, <1>8 DEF MarkArtifactsReady, Go, TypeOK, Pipeline, files
  <2>2. Becomes(p.run, "running", "artifacts_ready")
    BY <1>8, AttemptEffect
  <2>3. pointer # None => pointer.run # p.run
    BY <1>0, <2>1 DEF PhaseInv, PointerInv
  <2> QED
    BY <1>0, <2>1, <2>2, <2>3 DEF PhaseInv, Before, Becomes
<1>9. CASE ReplacePointer
  <2>1. /\ p.pc = "ready" /\ p'.pc = "pointed" /\ p'.run = p.run
        /\ pointer' = manifest[p.run]
        /\ UNCHANGED <<rows, raw, parquet, manifest>>
    BY <1>0, <1>9 DEF ReplacePointer, Go, TypeOK, Pipeline
  <2> QED
    BY <1>0, <2>1 DEF PhaseInv, Before
<1>10. CASE CheckPointer
  <2>1. /\ p.pc = "pointed" /\ p'.pc = "publishing" /\ p'.run = p.run
        /\ UNCHANGED <<rows, raw, parquet, manifest, pointer>>
    BY <1>0, <1>10 DEF CheckPointer, PointerMatches, PhaseInv, Go, TypeOK, Pipeline, files
  <2> QED
    BY <1>0, <2>1 DEF PhaseInv, Before
<1>11. CASE MarkPublished
  <2>1. /\ p.pc = "publishing" /\ p'.pc = "completing" /\ p'.run = p.run
        /\ UNCHANGED <<raw, parquet, manifest, pointer>>
    BY <1>0, <1>11 DEF MarkPublished, Go, TypeOK, Pipeline, files
  <2>2. Becomes(p.run, "running", "published")
    BY <1>11, AttemptEffect
  <2> QED
    BY <1>0, <2>1, <2>2 DEF PhaseInv, Before, Becomes
<1>12. CASE UNCHANGED <<rows, raw, parquet, manifest, pointer, p>>
  BY <1>0, <1>12 DEF PhaseInv, Before
<1>13. CASE Recovery \/ Raise \/ Complete \/ Handle \/ Crash
  <2>1. p'.pc \notin Inside
    <3>1. CASE Complete \/ Handle \/ Crash
      <4>1. p' = Idle
        BY <3>1 DEF Complete, Handle, Crash
      <4> QED
        BY <4>1 DEF Idle, Inside
    <3>2. CASE Recovery \/ Raise
      BY <1>0, <3>2
         DEF Recovery, Begin, EndRecovery, RecoverMatching, RecoverComplete,
             RecoverFailed, Raise, Go, Idle, Inside, TypeOK, Pipeline
    <3> QED
      BY <1>13, <3>1, <3>2
  <2> QED
    BY <1>1, <2>1
<1> QED
  BY <1>1, <1>2, <1>3, <1>4, <1>5, <1>6, <1>7, <1>8, <1>9, <1>10, <1>11, <1>12, <1>13,
     Elsewhere
     DEF Attempt, NextSecond, NextDay, files

-----------------------------------------------------------------------------
(* The reader *)

\* What a reader has verified stays verified: nothing is ever unlinked.
LEMMA VerifiedKept ==
    ASSUME IInv, [Next]_vars, reader.payload \in Payload,
           UNCHANGED reader, NEW a, Verifies(a)
    PROVE  Verifies(a)'
BY FilesKept DEF Verifies

LEMMA ReaderStep ==
    ASSUME IInv, TypeOK', NoReadErrors, [Next]_vars
    PROVE  ReaderInv'
<1>0. TypeOK /\ ReaderInv
  BY DEF IInv
<1>1. CASE UNCHANGED reader
  <2>1. reader.payload # None => reader.payload \in Payload /\ reader.payload.run \in Run
    BY <1>0, PayloadType DEF TypeOK, Reader
  <2>2. reader.pc \in {"files", "resolved"} =>
            manifest'[reader.payload.run] = reader.payload
    BY <1>0, <2>1, FilesKept DEF ReaderInv
  <2>3. reader.pc \in {"files", "resolved"} => \A a \in reader.paths : Verifies(a)'
    BY <1>0, <1>1, <2>1, VerifiedKept DEF ReaderInv
  <2> QED
    BY <1>0, <1>1, <2>2, <2>3, FilesKept DEF ReaderInv
<1>2. CASE ReadFirst
  BY <1>0, <1>2 DEF ReadFirst, ReaderIdle, ReaderInv, files
<1>3. CASE ReadSecond
  <2>1. /\ reader.pc = "second" /\ reader'.pc = "immutable" /\ reader'.payload = pointer
        /\ reader'.first = reader.first /\ reader'.expected = reader.expected
        /\ reader'.paths = reader.paths
    BY <1>0, <1>3 DEF ReadSecond, TypeOK, Reader
  <2> QED
    BY <1>0, <2>1 DEF ReaderInv
<1>4. CASE ReadManifest
  <2>1. CASE reader' = ReaderIdle
    BY <2>1 DEF ReaderInv, ReaderIdle
  <2>2. CASE reader' # ReaderIdle
    <3>1. /\ reader.pc = "immutable" /\ manifest[reader.payload.run] = reader.payload
          /\ reader' = [reader EXCEPT !.pc = "files"] /\ UNCHANGED manifest
      BY <1>4, <2>2 DEF ReadManifest, ReaderGoes, files
    <3>2. /\ reader'.pc = "files" /\ reader'.paths = reader.paths
          /\ reader'.payload = reader.payload /\ reader'.first = reader.first
          /\ reader'.expected = reader.expected
      BY <1>0, <3>1 DEF TypeOK, Reader
    <3> QED
      BY <1>0, <3>1, <3>2 DEF ReaderInv
  <2> QED
    BY <2>1, <2>2
<1>5. ASSUME NEW a \in Asset, ReadFile(a)
      PROVE  ReaderInv'
  <2>1. CASE reader' = ReaderIdle
    BY <2>1 DEF ReaderInv, ReaderIdle
  <2>2. CASE reader' # ReaderIdle
    <3>1. /\ reader.pc = "files" /\ a \in reader.first /\ Verifies(a)
          /\ reader' = [reader EXCEPT !.paths = reader.paths \cup {a}]
          /\ UNCHANGED <<raw, parquet, manifest>>
      BY <1>5, <2>2 DEF ReadFile, files
    <3>2. /\ reader'.pc = "files" /\ reader'.paths = reader.paths \cup {a}
          /\ reader'.payload = reader.payload /\ reader'.first = reader.first
          /\ reader'.expected = reader.expected
      BY <1>0, <3>1 DEF TypeOK, Reader
    <3>3. \A b \in reader'.paths : Verifies(b)'
      BY <1>0, <3>1, <3>2 DEF ReaderInv, Verifies
    <3> QED
      BY <1>0, <3>1, <3>2, <3>3 DEF ReaderInv
  <2> QED
    BY <2>1, <2>2
<1>6. CASE Resolve
  <2>1. CASE reader' = ReaderIdle
    BY <2>1 DEF ReaderInv, ReaderIdle
  <2>2. CASE reader' # ReaderIdle
    <3>1. /\ reader.pc = "files" /\ reader.paths = reader.first
          /\ DOMAIN reader.payload.data = reader.expected
          /\ reader' = [reader EXCEPT !.pc = "resolved"]
          /\ UNCHANGED <<raw, parquet, manifest>>
      BY <1>6, <2>2 DEF Resolve, ReaderGoes, files
    <3>2. /\ reader'.pc = "resolved" /\ reader'.paths = reader.paths
          /\ reader'.payload = reader.payload /\ reader'.first = reader.first
          /\ reader'.expected = reader.expected
      BY <1>0, <3>1 DEF TypeOK, Reader
    <3>3. \A b \in reader'.paths : Verifies(b)'
      BY <1>0, <3>1, <3>2 DEF ReaderInv, Verifies
    <3> QED
      BY <1>0, <3>1, <3>2, <3>3 DEF ReaderInv
  <2> QED
    BY <2>1, <2>2
<1>7. CASE Leave
  BY <1>7 DEF Leave, ReaderInv, ReaderIdle
<1> QED
  BY <1>1, <1>2, <1>3, <1>4, <1>5, <1>6, <1>7
     DEF Next, World, Recovery, Attempt, Reading, vars, NextSecond, NextDay, Regovern,
         Begin, EndRecovery, RecoverMatching, RecoverComplete, RecoverFailed, StartRun,
         Validate, EndDownloads, Store, Download, LinkManifest, MarkArtifactsReady,
         ReplacePointer, CheckPointer, MarkPublished, Complete, Raise, Handle, Crash

-----------------------------------------------------------------------------
(* The theorems *)

LEMMA NextInv ==
    ASSUME IInv, NoReadErrors, [Next]_vars
    PROVE  IInv'
BY TypeStep, RowsStep, FilesStep, ManifestStep, PointerStep, RunStep, PhaseStep,
   RecoveryStep, ReaderStep
   DEF IInv

\* The invariant holds in every reachable state.
THEOREM Invariance == ASSUME NoReadErrors PROVE Spec => []IInv
<1>1. IInv /\ [Next]_vars => IInv'
  BY NextInv
<1> QED
  BY InitInv, <1>1, PTL DEF Spec

\* Rows, files, manifests and both processes stay typed, for any universes.
THEOREM TypeCorrect == ASSUME NoReadErrors PROVE Spec => []TypeOK
<1>1. IInv => TypeOK
  BY DEF IInv
<1> QED
  BY Invariance, <1>1, PTL

\* Whatever run is interrupted wherever, the pointer shows a whole generation.
THEOREM Whole == ASSUME NoReadErrors PROVE Spec => []PointerIsWhole
<1>1. IInv => PointerIsWhole
  <2> SUFFICES ASSUME IInv, pointer # None
               PROVE  /\ manifest[pointer.run] = pointer
                      /\ \A a \in DOMAIN pointer.data :
                           /\ \A b \in DOMAIN pointer.data :
                                pointer.data[a] = pointer.data[b]
                           /\ [run |-> pointer.run, asset |-> a,
                               end |-> pointer.data[a]] \in raw \cap parquet
    BY DEF PointerIsWhole
  <2>1. pointer.run \in Run /\ manifest[pointer.run] = pointer
    BY PayloadType DEF IInv, TypeOK, PointerInv
  <2> QED
    BY <2>1 DEF IInv, ManifestInv, FilesInv
<1> QED
  BY Invariance, <1>1, PTL

\* No run is recorded as failed while readers are given its data.
THEOREM NotFailed == ASSUME NoReadErrors PROVE Spec => []FailedIsNotCurrent
<1>1. IInv => FailedIsNotCurrent
  BY DEF IInv, PointerInv, FailedIsNotCurrent
<1> QED
  BY Invariance, <1>1, PTL

\* A run that does its own work has left no unsettled one behind.
THEOREM OthersSettled == ASSUME NoReadErrors PROVE Spec => []OthersAreSettled
<1>1. IInv => OthersAreSettled
  BY DEF IInv, RunInv, OthersAreSettled, Settled
<1> QED
  BY Invariance, <1>1, PTL

\* A completed run was published, and its Parquet files are all there.
THEOREM Backed == ASSUME NoReadErrors PROVE Spec => []CompletedIsBacked
<1>1. IInv => CompletedIsBacked
  <2> SUFFICES ASSUME IInv, NEW r \in Run, rows[r] # None, rows[r].status = "completed"
               PROVE  /\ manifest[r] # None
                      /\ pointer # None /\ r <= pointer.run
                      /\ StoredOf(r) = DOMAIN manifest[r].data
    BY DEF CompletedIsBacked
  <2>1. manifest[r] # None /\ pointer # None /\ r <= pointer.run
    BY DEF IInv, RowsInv
  <2> QED
    BY <2>1 DEF IInv, ManifestInv
<1> QED
  BY Invariance, <1>1, PTL

\* A reader that takes no lock is given one whole generation of the assets it
\* expected.
THEOREM Resolved == ASSUME NoReadErrors PROVE Spec => []ResolvedIsWhole
<1>1. IInv => ResolvedIsWhole
  BY DEF IInv, ReaderInv, ResolvedIsWhole
<1> QED
  BY Invariance, <1>1, PTL

\* Only a later run with data that reaches at least as far replaces the pointer.
LEMMA PointerMoves ==
    ASSUME IInv, [Next]_vars, pointer' # pointer
    PROVE  /\ ReplacePointer /\ p.run \in Run /\ rows[p.run] # None
           /\ rows[p.run].status = "running" /\ UNCHANGED rows
           /\ pointer' = manifest[p.run] /\ pointer' \in Payload /\ pointer'.run = p.run
           /\ \A b \in DOMAIN pointer'.data : pointer'.data[b] = p.end
           /\ pointer # None =>
                /\ pointer \in Payload
                /\ pointer.run < p.run
                /\ rows[pointer.run].status = "completed"
                /\ \A a \in DOMAIN pointer.data : pointer.data[a] <= p.end
<1>1. ReplacePointer
  BY DEF Next, World, Recovery, Attempt, Reading, vars, files, NextSecond, NextDay,
         Regovern, Begin, EndRecovery, RecoverMatching, RecoverComplete, RecoverFailed,
         StartRun, Validate, EndDownloads, Store, Download, LinkManifest,
         MarkArtifactsReady, CheckPointer, MarkPublished, Complete, Raise, Handle, Crash,
         ReadFirst, ReadSecond, ReadManifest, Resolve, Leave, ReadFile
<1>2. p.pc = "ready" /\ pointer' = manifest[p.run] /\ UNCHANGED rows
  BY <1>1 DEF ReplacePointer
<1>3. p.run \in Run /\ rows[p.run] # None /\ rows[p.run].status = "running"
  BY <1>2 DEF IInv, RunInv, Inside
<1>4. manifest[p.run] # None /\ \A b \in DOMAIN manifest[p.run].data :
                                    manifest[p.run].data[b] = p.end
  BY <1>2 DEF IInv, PhaseInv
<1>5. pointer' \in Payload /\ pointer'.run = p.run
  BY <1>2, <1>3, <1>4 DEF IInv, ManifestInv, TypeOK
<1>6. ASSUME pointer # None
      PROVE  /\ pointer \in Payload
             /\ pointer.run < p.run
             /\ rows[pointer.run].status = "completed"
             /\ \A a \in DOMAIN pointer.data : pointer.data[a] <= p.end
  <2>1. pointer \in Payload /\ pointer.run \in Run
    BY <1>6, PayloadType DEF IInv, TypeOK
  <2>2. rows[pointer.run] # None /\ pointer.run # p.run
    BY <1>2, <1>6, <2>1 DEF IInv, PointerInv, ManifestInv, PhaseInv
  <2>3. pointer.run <= p.run /\ Settled(pointer.run)
    BY <1>2, <2>1, <2>2 DEF IInv, RunInv, Inside
  <2>4. \A a \in DOMAIN pointer.data : pointer.data[a] <= p.end
    BY <1>2, <1>6 DEF IInv, PhaseInv
  <2> QED
    BY <1>3, <1>6, <2>1, <2>2, <2>3, <2>4 DEF Settled, Run
<1> QED
  BY <1>1, <1>2, <1>3, <1>4, <1>5, <1>6

\* Readers are never given data that ends earlier than what they were given.
THEOREM NeverBack == ASSUME NoReadErrors PROVE Spec => DataNeverGoesBack
<1>1. IInv /\ [Next]_vars =>
          [pointer # None /\ pointer' # pointer =>
             \A a \in DOMAIN pointer.data, b \in DOMAIN pointer'.data :
                 pointer.data[a] <= pointer'.data[b]]_vars
  <2> SUFFICES ASSUME IInv, [Next]_vars, pointer # None, pointer' # pointer,
                      NEW a \in DOMAIN pointer.data, NEW b \in DOMAIN pointer'.data
               PROVE  pointer.data[a] <= pointer'.data[b]
    OBVIOUS
  <2> QED
    BY PointerMoves
<1> QED
  BY Invariance, <1>1, PTL DEF Spec, DataNeverGoesBack

\* A step that adds a completed run adds the current one.
LEMMA CompletedMoves ==
    ASSUME IInv, NoReadErrors, [Next]_vars, UNCHANGED pointer
    PROVE  \/ CompletedRuns' = CompletedRuns
           \/ /\ pointer # None
              /\ CompletedRuns' = CompletedRuns \cup {pointer.run}
<1>1. ASSUME NEW r \in Run, RecoverComplete(r)
      PROVE  pointer # None /\ CompletedRuns' = CompletedRuns \cup {pointer.run}
  <2>1. Becomes(r, "completed", "completed")
    BY <1>1, RecoveryEffect
  <2>2. PointerMatches(r)
    BY <1>1 DEF RecoverComplete, IInv, RecoveryInv
  <2>3. pointer # None /\ pointer.run = r
    BY <2>2 DEF PointerMatches, IInv, ManifestInv
  <2> QED
    BY <2>1, <2>3 DEF Becomes, CompletedRuns
<1>2. CASE Complete
  <2>1. Becomes(p.run, "completed", "completed") /\ p.run \in Run
    BY <1>2, AttemptEffect DEF Complete, IInv, RunInv, Inside
  <2>2. pointer # None /\ pointer = manifest[p.run]
    BY <1>2 DEF Complete, IInv, PhaseInv
  <2>3. pointer.run = p.run
    BY <2>1, <2>2 DEF IInv, ManifestInv
  <2> QED
    BY <2>1, <2>2, <2>3 DEF Becomes, CompletedRuns
<1>3. ASSUME NEW r \in Run, RecoverMatching(r) \/ RecoverFailed(r)
      PROVE  CompletedRuns' = CompletedRuns
  <2>1. rows[r] # None /\ rows[r].status # "completed"
    BY <1>3, RowAtHand DEF RecoverMatching, RecoverFailed, Recoverable
  <2> QED
    BY <1>3, <2>1, RecoveryEffect DEF Becomes, CompletedRuns
<1>4. CASE StartRun
  BY <1>4, StartEffect DEF Becomes, CompletedRuns
<1>5. CASE MarkArtifactsReady \/ MarkPublished \/ Handle
  <2>1. p.run \in Run /\ rows[p.run].status = "running" /\ rows[p.run] # None
    BY <1>5 DEF MarkArtifactsReady, MarkPublished, Handle, IInv, RunInv, Inside
  <2> QED
    BY <1>5, <2>1, AttemptEffect, HandleEffect DEF Becomes, CompletedRuns
<1>6. CASE UNCHANGED rows
  BY <1>6 DEF CompletedRuns
<1> QED
  BY <1>1, <1>2, <1>3, <1>4, <1>5, <1>6
     DEF Next, World, Recovery, Attempt, Reading, vars, NextSecond, NextDay, Regovern,
         Begin, EndRecovery, Validate, EndDownloads, Store, Download, LinkManifest,
         ReplacePointer, CheckPointer, Raise, Crash, ReadFirst, ReadSecond,
         ReadManifest, Resolve, Leave, ReadFile

\* The pipeline implements the abstract dataset: one generation at a time, whole,
\* later than the one before, and none replaced before its run is completed.
THEOREM Refinement == ASSUME NoReadErrors PROVE Spec => ImplementsCanonical
<1>1. Init => Canonical!AInit
  BY DEF Init, Canonical!AInit, CompletedRuns
<1>2. IInv /\ [Next]_vars => [Canonical!ANext]_<<pointer, CompletedRuns>>
  <2> SUFFICES ASSUME IInv, [Next]_vars
               PROVE  [Canonical!ANext]_<<pointer, CompletedRuns>>
    OBVIOUS
  <2>1. CASE pointer' = pointer
    BY <2>1, CompletedMoves DEF Canonical!ANext, Canonical!Complete
  <2>2. CASE pointer' # pointer
    <3>1. pointer' \in Canonical!Generation
      BY <2>2, PointerMoves, PayloadType DEF Canonical!Generation, Payload, Run
    <3>2. UNCHANGED CompletedRuns /\ pointer'.run \notin CompletedRuns
      BY <2>2, PointerMoves DEF CompletedRuns
    <3>3. pointer # None => pointer.run \in CompletedRuns /\ pointer.run < pointer'.run
      <4> SUFFICES ASSUME pointer # None
                   PROVE  pointer.run \in CompletedRuns /\ pointer.run < pointer'.run
        OBVIOUS
      <4>1. pointer.run \in Run /\ rows[pointer.run] # None
        BY PayloadType DEF IInv, TypeOK, PointerInv, ManifestInv
      <4> QED
        BY <2>2, <4>1, PointerMoves DEF CompletedRuns
    <3> QED
      BY <3>1, <3>2, <3>3 DEF Canonical!ANext, Canonical!Publish
  <2> QED
    BY <2>1, <2>2
<1> QED
  BY <1>1, <1>2, Invariance, PTL DEF Spec, ImplementsCanonical, Canonical!ASpec
=============================================================================
