---------------------------- MODULE DataPipeline ----------------------------
(***************************************************************************)
(* run_data_pipeline.py: the daily candles of the governed assets are      *)
(* downloaded, checked, stored as immutable artifacts of one run, and made *)
(* the canonical dataset by replacing one pointer file.  The runs are rows *)
(* of a database that shares no transaction with the files, so a run can   *)
(* stop, at any step, with the two in disagreement; the next run begins by *)
(* settling what it finds.  Readers (src/research_data.py) take no lock.   *)
(*                                                                         *)
(* One pipeline runs at a time: InterProcessLock, module WriterLock.  A    *)
(* run is named by the second it starts in.  A file is what it contains:   *)
(* the last day of an asset's candles stands for its rows, and two files   *)
(* with equal contents have equal hashes.                                   *)
(***************************************************************************)
EXTENDS Naturals

CONSTANTS
    Asset,       \* assets config/assets.yaml may govern
    Universes,   \* the sets of assets it governs, over time
    MaxRun,      \* bound: seconds in which a run can start
    MaxDay,      \* bound: UTC days
    ReadErrors,  \* BOOLEAN: can reading the pointer fail in the recovery
    None         \* no row, no file, no pointer

Run == 1..MaxRun
Day == 0..MaxDay

ASSUME PipelineAssumption ==
    /\ MaxRun \in Nat \ {0}
    /\ MaxDay \in Nat
    /\ Universes \subseteq (SUBSET Asset) \ {{}}
    /\ ReadErrors \in BOOLEAN
    /\ None \notin [run: Run, data: UNION {[A -> Day] : A \in SUBSET Asset}]
    /\ None \notin [status: {"running", "completed", "failed"},
                    state: {"running", "artifacts_ready", "published", "completed"}]

VARIABLES
    now,       \* the second
    today,     \* the last day whose candle is final
    governed,  \* the assets of config/assets.yaml
    rows,      \* table ingestion_runs
    raw,       \* immutable raw files: [run, asset, end]
    parquet,   \* immutable Parquet files: [run, asset, end]
    manifest,  \* immutable manifest of each run
    pointer,   \* data/processed/dataset_manifest.json
    p,         \* the pipeline process
    reader     \* a process that resolves the canonical dataset

files == <<raw, parquet, manifest, pointer>>
env == <<now, today, governed>>
vars == <<env, rows, files, p, reader>>

Datasets == UNION {[A -> Day] : A \in SUBSET Asset}
Payload == [run: Run, data: Datasets]
Row == [status: {"running", "completed", "failed"},
        state: {"running", "artifacts_ready", "published", "completed"}]
File == [run: Run, asset: Asset, end: Day]

\* Where a run stands once its row is inserted, in the order of the code.
Inside == {"validating", "downloading", "storing", "linked", "ready",
           "pointed", "publishing", "completing"}
Places == {"idle", "recovering", "settling", "starting", "failing"} \cup Inside
ReaderPlaces == {"idle", "second", "immutable", "files", "resolved"}

Idle == [pc |-> "idle", run |-> 0, assets |-> {}, end |-> 0, todo |-> {}]
ReaderIdle == [pc |-> "idle", expected |-> {}, first |-> {}, payload |-> None,
               paths |-> {}]

Pipeline == [pc: Places, run: Run \cup {0}, assets: SUBSET Asset, end: Day,
             todo: SUBSET Run]
Reader == [pc: ReaderPlaces, expected: SUBSET Asset, first: SUBSET Asset,
           payload: Payload \cup {None}, paths: SUBSET Asset]

TypeOK ==
    /\ now \in Run
    /\ today \in Day
    /\ governed \in Universes
    /\ rows \in [Run -> Row \cup {None}]
    /\ raw \subseteq File
    /\ parquet \subseteq File
    /\ manifest \in [Run -> Payload \cup {None}]
    /\ pointer \in Payload \cup {None}
    /\ p \in Pipeline
    /\ reader \in Reader

Init ==
    /\ now = 1
    /\ today = 0
    /\ governed \in Universes
    /\ rows = [r \in Run |-> None]
    /\ raw = {}
    /\ parquet = {}
    /\ manifest = [r \in Run |-> None]
    /\ pointer = None
    /\ p = Idle
    /\ reader = ReaderIdle

Go(place) == p' = [p EXCEPT !.pc = place]

-----------------------------------------------------------------------------
(* The world around a run *)

NextSecond ==
    /\ now < MaxRun
    /\ now' = now + 1
    /\ UNCHANGED <<today, governed, rows, files, p, reader>>

NextDay ==
    /\ today < MaxDay
    /\ today' = today + 1
    /\ UNCHANGED <<now, governed, rows, files, p, reader>>

\* A commit changes the governed assets.
Regovern ==
    /\ governed' \in Universes \ {governed}
    /\ UNCHANGED <<now, today, rows, files, p, reader>>

-----------------------------------------------------------------------------
(* Recovery *)

\* recoverable_publications.
Recoverable(r) ==
    /\ rows[r] # None
    /\ \/ rows[r].status = "running"
       \/ /\ rows[r].status = "failed"
          /\ rows[r].state \in {"artifacts_ready", "published"}

\* The pointer and the run's immutable manifest are there, byte for byte equal.
PointerMatches(r) ==
    /\ pointer # None
    /\ manifest[r] # None
    /\ pointer = manifest[r]

\* A read that fails counts as a mismatch.
Seen(matches) == IF ReadErrors THEN {matches, FALSE} ELSE {matches}

\* The run of _run_pipeline_locked, up to the list of what is to be recovered.
Begin ==
    /\ p.pc = "idle"
    /\ p' = [Idle EXCEPT !.pc = "recovering", !.run = now, !.assets = governed,
                         !.todo = {r \in Run : Recoverable(r)}]
    /\ UNCHANGED <<env, rows, files, reader>>

Oldest(r) == r \in p.todo /\ \A q \in p.todo : r <= q

\* recover_artifacts_ready_publication, one transaction; a run that is published
\* already goes to complete_published_run at once.
RecoverMatching(r) ==
    /\ p.pc = "recovering"
    /\ Oldest(r)
    /\ rows[r].state \in {"artifacts_ready", "published"}
    /\ PointerMatches(r)
    /\ rows' = [rows EXCEPT ![r].state = "published"]
    /\ Go("settling")
    /\ UNCHANGED <<env, files, reader>>

\* complete_published_run, another transaction.
RecoverComplete(r) ==
    /\ p.pc = "settling"
    /\ Oldest(r)
    /\ rows' = [rows EXCEPT ![r].status = "completed", ![r].state = "completed"]
    /\ p' = [p EXCEPT !.pc = "recovering", !.todo = @ \ {r}]
    /\ UNCHANGED <<env, files, reader>>

\* finish_run: the publication state stays what it was.
RecoverFailed(r) ==
    /\ p.pc = "recovering"
    /\ Oldest(r)
    /\ FALSE \in Seen(rows[r].state \in {"artifacts_ready", "published"}
                          /\ PointerMatches(r))
    /\ rows' = [rows EXCEPT ![r].status = "failed"]
    /\ p' = [p EXCEPT !.todo = @ \ {r}]
    /\ UNCHANGED <<env, files, reader>>

\* Mutant: the recovery is left out.
NoRecovery ==
    /\ p.pc = "recovering"
    /\ p' = [p EXCEPT !.pc = "starting", !.todo = {}]
    /\ UNCHANGED <<env, rows, files, reader>>

EndRecovery ==
    /\ p.pc = "recovering"
    /\ p.todo = {}
    /\ Go("starting")
    /\ UNCHANGED <<env, rows, files, reader>>

-----------------------------------------------------------------------------
(* A run *)

\* start_run.  The second may have been used already: then the primary key
\* refuses, outside the try.
StartRun ==
    /\ p.pc = "starting"
    /\ IF rows[p.run] = None
         THEN /\ rows' = [rows EXCEPT ![p.run] =
                            [status |-> "running", state |-> "running"]]
              /\ Go("validating")
         ELSE /\ p' = Idle
              /\ UNCHANGED rows
    /\ UNCHANGED <<env, files, reader>>

\* _validate_canonical_publication, the Git provenance, and the day the data has
\* to reach.
Validate ==
    /\ p.pc = "validating"
    /\ p.assets = governed
    /\ p' = [p EXCEPT !.pc = "downloading", !.end = today]
    /\ UNCHANGED <<env, rows, files, reader>>

RawOf(r) == {f.asset : f \in {g \in raw : g.run = r}}
StoredOf(r) == {f.asset : f \in {g \in parquet : g.run = r}}

\* Mutant: the rows are accepted wherever they end.
DownloadAnyEnd(a, e) ==
    /\ p.pc = "downloading"
    /\ a \in p.assets \ RawOf(p.run)
    /\ e <= today
    /\ raw' = raw \cup {[run |-> p.run, asset |-> a, end |-> e]}
    /\ UNCHANGED p
    /\ UNCHANGED <<env, rows, parquet, manifest, pointer, reader>>

\* download_daily_ohlcv up to the last final day of the moment it starts in, or
\* less when the exchange sends a short page; the raw file is linked before the
\* rows are found to end on another day than the run expects.
Download(a, e) ==
    /\ p.pc = "downloading"
    /\ a \in p.assets \ RawOf(p.run)
    /\ e <= today
    /\ raw' = raw \cup {[run |-> p.run, asset |-> a, end |-> e]}
    /\ IF e = p.end THEN UNCHANGED p ELSE Go("failing")
    /\ UNCHANGED <<env, rows, parquet, manifest, pointer, reader>>

EndDownloads ==
    /\ p.pc = "downloading"
    /\ RawOf(p.run) = p.assets
    /\ Go("storing")
    /\ UNCHANGED <<env, rows, files, reader>>

\* The common calendar holds; the Parquet file is linked.
Store(a) ==
    /\ p.pc = "storing"
    /\ a \in p.assets \ StoredOf(p.run)
    /\ \E f \in raw : /\ f.run = p.run /\ f.asset = a
                      /\ parquet' = parquet \cup {f}
    /\ UNCHANGED <<env, rows, raw, manifest, pointer, p, reader>>

\* The last day of the Parquet file of an asset.
EndOf(r, a) == CHOOSE e \in Day : [run |-> r, asset |-> a, end |-> e] \in parquet

LinkManifest ==
    /\ p.pc = "storing"
    /\ StoredOf(p.run) = p.assets
    /\ manifest' = [manifest EXCEPT ![p.run] =
                      [run |-> p.run, data |-> [a \in p.assets |-> EndOf(p.run, a)]]]
    /\ Go("linked")
    /\ UNCHANGED <<env, rows, raw, parquet, pointer, reader>>

MarkArtifactsReady ==
    /\ p.pc = "linked"
    /\ rows[p.run].status = "running" /\ rows[p.run].state = "running"
    /\ rows' = [rows EXCEPT ![p.run].state = "artifacts_ready"]
    /\ Go("ready")
    /\ UNCHANGED <<env, files, reader>>

\* The quality report is written, then os.replace.
ReplacePointer ==
    /\ p.pc = "ready"
    /\ pointer' = manifest[p.run]
    /\ Go("pointed")
    /\ UNCHANGED <<env, rows, raw, parquet, manifest, reader>>

CheckPointer ==
    /\ p.pc = "pointed"
    /\ Go(IF PointerMatches(p.run) THEN "publishing" ELSE "failing")
    /\ UNCHANGED <<env, rows, files, reader>>

MarkPublished ==
    /\ p.pc = "publishing"
    /\ rows[p.run].status = "running" /\ rows[p.run].state = "artifacts_ready"
    /\ rows' = [rows EXCEPT ![p.run].state = "published"]
    /\ Go("completing")
    /\ UNCHANGED <<env, files, reader>>

Complete ==
    /\ p.pc = "completing"
    /\ rows[p.run].state = "published"
    /\ rows' = [rows EXCEPT ![p.run].status = "completed", ![p.run].state = "completed"]
    /\ p' = Idle
    /\ UNCHANGED <<env, files, reader>>

\* Anything after start_run can raise: the exchange, a file, a database write,
\* assets that are no longer the governed ones.
Raise ==
    /\ p.pc \in Inside
    /\ Go("failing")
    /\ UNCHANGED <<env, rows, files, reader>>

\* The except clause: a run whose publication the pointer shows is left to the
\* next recovery, any other is failed.
Handle ==
    /\ p.pc = "failing"
    /\ \E matches \in Seen(/\ rows[p.run].state \in {"artifacts_ready", "published"}
                           /\ PointerMatches(p.run)) :
         rows' = IF matches THEN rows ELSE [rows EXCEPT ![p.run].status = "failed"]
    /\ p' = Idle
    /\ UNCHANGED <<env, files, reader>>

\* The process dies, or an exception leaves the recovery or the handler; the
\* operating system frees the lock.
Crash ==
    /\ p.pc # "idle"
    /\ p' = Idle
    /\ UNCHANGED <<env, rows, files, reader>>

-----------------------------------------------------------------------------
(* resolve_canonical_dataset *)

ReaderGoes(place) == reader' = [reader EXCEPT !.pc = place]

\* The pointer is read a first time, for the set of assets.
ReadFirst ==
    /\ reader.pc = "idle"
    /\ pointer # None
    /\ DOMAIN pointer.data = governed
    /\ reader' = [ReaderIdle EXCEPT !.pc = "second", !.expected = governed,
                                    !.first = DOMAIN pointer.data]
    /\ UNCHANGED <<env, rows, files, p>>

\* And a second time, for everything else.
ReadSecond ==
    /\ reader.pc = "second"
    /\ reader' = [reader EXCEPT !.pc = "immutable", !.payload = pointer]
    /\ UNCHANGED <<env, rows, files, p>>

ReadManifest ==
    /\ reader.pc = "immutable"
    /\ IF manifest[reader.payload.run] = reader.payload
         THEN ReaderGoes("files")
         ELSE reader' = ReaderIdle
    /\ UNCHANGED <<env, rows, files, p>>

\* The dataset and the raw evidence of an asset exist and have the declared hash.
Verifies(a) ==
    /\ a \in DOMAIN reader.payload.data
    /\ LET f == [run |-> reader.payload.run, asset |-> a,
                 end |-> reader.payload.data[a]]
       IN  f \in parquet /\ f \in raw

ReadFile(a) ==
    /\ reader.pc = "files"
    /\ a \in reader.first \ reader.paths
    /\ reader' = IF Verifies(a) THEN [reader EXCEPT !.paths = @ \cup {a}]
                                ELSE ReaderIdle
    /\ UNCHANGED <<env, rows, files, p>>

\* Mutant: the assets are not compared again with the manifest that was used.
ResolveUnchecked ==
    /\ reader.pc = "files"
    /\ reader.paths = reader.first
    /\ ReaderGoes("resolved")
    /\ UNCHANGED <<env, rows, files, p>>

\* The assets of the manifest that was used are compared with the expected ones.
Resolve ==
    /\ reader.pc = "files"
    /\ reader.paths = reader.first
    /\ IF DOMAIN reader.payload.data = reader.expected
         THEN ReaderGoes("resolved")
         ELSE reader' = ReaderIdle
    /\ UNCHANGED <<env, rows, files, p>>

Leave ==
    /\ reader.pc = "resolved"
    /\ reader' = ReaderIdle
    /\ UNCHANGED <<env, rows, files, p>>

-----------------------------------------------------------------------------

World == NextSecond \/ NextDay \/ Regovern

Recovery ==
    \/ Begin \/ EndRecovery
    \/ \E r \in Run : RecoverMatching(r) \/ RecoverComplete(r) \/ RecoverFailed(r)

Attempt ==
    \/ StartRun \/ Validate \/ EndDownloads \/ LinkManifest \/ MarkArtifactsReady
    \/ ReplacePointer \/ CheckPointer \/ MarkPublished \/ Complete
    \/ Raise \/ Handle \/ Crash
    \/ \E a \in Asset : Store(a) \/ (\E e \in Day : Download(a, e))

Reading ==
    \/ ReadFirst \/ ReadSecond \/ ReadManifest \/ Resolve \/ Leave
    \/ \E a \in Asset : ReadFile(a)

Next == World \/ Recovery \/ Attempt \/ Reading

Spec == Init /\ [][Next]_vars

-----------------------------------------------------------------------------
(* Correctness properties *)

\* Whatever the pointer shows is whole: its manifest is linked, every asset it
\* names has its raw file and its Parquet file, and all end on the same day, even
\* when midnight passes between two downloads.
PointerIsWhole ==
    pointer # None =>
        /\ manifest[pointer.run] = pointer
        /\ \A a \in DOMAIN pointer.data :
             /\ \A b \in DOMAIN pointer.data : pointer.data[a] = pointer.data[b]
             /\ [run |-> pointer.run, asset |-> a, end |-> pointer.data[a]]
                    \in raw \cap parquet

\* No run is on record as failed while its data is the canonical dataset.
FailedIsNotCurrent ==
    pointer # None => rows[pointer.run].status # "failed"

\* Once a run has begun its own work, every other run is settled, and the one
\* that is published is completed.
OthersAreSettled ==
    p.pc \in Inside => \A r \in Run \ {p.run} :
        rows[r] # None =>
            /\ rows[r].status # "running"
            /\ (pointer # None /\ pointer.run = r) => rows[r].status = "completed"

\* A completed run was published and its artifacts are still all there.
CompletedIsBacked ==
    \A r \in Run : rows[r] # None /\ rows[r].status = "completed" =>
        /\ manifest[r] # None
        /\ pointer # None /\ r <= pointer.run
        /\ StoredOf(r) = DOMAIN manifest[r].data

\* Whatever goes wrong, reads included, the run whose data is canonical is
\* completed or will be looked at by the next recovery.
CurrentStaysRecoverable ==
    pointer # None =>
        \/ rows[pointer.run].status = "completed"
        \/ Recoverable(pointer.run)

\* What a reader is given is all of one generation, though the pointer may have
\* moved between its reads, and exactly the assets it expected.
ResolvedIsWhole ==
    reader.pc = "resolved" =>
        /\ reader.paths = DOMAIN reader.payload.data
        /\ reader.paths = reader.expected
        /\ manifest[reader.payload.run] = reader.payload
        /\ \A a \in reader.paths : Verifies(a)

\* The pointer only moves to data that reaches at least as far.
DataNeverGoesBack ==
    [][ pointer # None /\ pointer' # pointer =>
          \A a \in DOMAIN pointer.data, b \in DOMAIN pointer'.data :
              pointer.data[a] <= pointer'.data[b] ]_vars

\* The abstract specification: the completed runs and the current generation.
CompletedRuns == {r \in Run : rows[r] # None /\ rows[r].status = "completed"}

Canonical == INSTANCE CanonicalDataset WITH
                 current <- pointer, completed <- CompletedRuns

\* The pipeline implements the abstract specification: no published generation is
\* replaced before its run is completed, and only a later one replaces it.
ImplementsCanonical == Canonical!ASpec

-----------------------------------------------------------------------------
(* What the repository says and the code does not do *)

\* recover_interrupted_publications: "Resolve interrupted canonical publications".
\* A publication that the pointer shows is completed before another replaces it.
NoPublicationForgotten ==
    [][ pointer # None /\ pointer' # pointer =>
          rows[pointer.run].status = "completed" ]_vars

=============================================================================
