---------------------------- MODULE BackupRestore ----------------------------
(***************************************************************************)
(* src/backup_restore.py: backups of the paper database, its reports and   *)
(* the governed evidence, made under the writer lock in a staging          *)
(* directory, verified there, and published by a rename; the verification  *)
(* of a published backup.                                                   *)
(*                                                                         *)
(* The writers of the database and of the reports hold the same lock.  The *)
(* operator's git does not: a checkout changes the files of                *)
(* forward_experiment/ one by one, and HEAD last, between any two steps.   *)
(*                                                                         *)
(* A checksum is modelled by the contents it is taken of: it tells any two *)
(* contents apart.                                                          *)
(***************************************************************************)
EXTENDS Integers, FiniteSets

CONSTANTS
    Backups,       \* processes running create_verified_backup
    Names,         \* backup names: the second in which one was asked for
    Authorities,   \* what an active experiment settles: identity, tolerances
    MaxWrites,     \* changes of the database
    MaxReleases,   \* checkouts
    None,          \* no holder, no backup, no active experiment
    Writer,        \* the command that writes the database and the reports
    Junk           \* damaged contents

GitFiles == {"manifest", "evidence"}     \* of forward_experiment/
Parts == GitFiles \cup {"db", "reports"}

VARIABLES
    db,         \* the database: generation, authority, does it reconcile
    reports,    \* generation the reports were written for
    head,       \* the release HEAD names
    target,     \* the release a checkout is moving the tree to
    tree,       \* governed file -> the release its contents are of
    lock,
    published,  \* name -> backup directory, or None
    original,   \* name -> the backup as it was renamed into place
    cuts,       \* pairs of a database and reports that existed together
    pc, name, authority, prov, staged    \* the locals of a backup

source == <<db, reports, head, target, tree>>
shelf  == <<published, original>>
locals == <<name, authority, prov, staged>>
vars   == <<source, lock, shelf, cuts, pc, locals>>

Releases == 0 .. MaxReleases

Databases == [gen : 0 .. MaxWrites, auth : Authorities \cup {None}, sound : BOOLEAN]

NoProv == [commit |-> None, sha |-> None]

TypeOK ==
    /\ db \in Databases
    /\ reports \in 0 .. MaxWrites
    /\ head \in Releases /\ target \in Releases
    /\ tree \in [GitFiles -> Releases]
    /\ lock \in Backups \cup {None, Writer}
    /\ DOMAIN published = Names /\ DOMAIN original = Names
    /\ cuts \subseteq Databases \X (0 .. MaxWrites)
    /\ pc \in [Backups -> {"idle", "waiting", "commit", "status", "hardening",
                           "authority", "copy", "seal", "publish"}]
    /\ \A b \in Backups : DOMAIN staged[b] \subseteq Parts

Init ==
    /\ \E a \in Authorities : db = [gen |-> 0, auth |-> a, sound |-> TRUE]
    /\ reports = 0
    /\ head = 0 /\ target = 0
    /\ tree = [f \in GitFiles |-> 0]
    /\ lock = None
    /\ published = [n \in Names |-> None]
    /\ original = [n \in Names |-> None]
    /\ cuts = {<<db, 0>>}
    /\ pc = [b \in Backups |-> "idle"]
    /\ name = [b \in Backups |-> None]
    /\ authority = [b \in Backups |-> None]
    /\ prov = [b \in Backups |-> NoProv]
    /\ staged = [b \in Backups |-> << >>]

-----------------------------------------------------------------------------
(* The surroundings: the lock's other holders, git, and damage *)

WriterTakes ==
    /\ lock = None
    /\ lock' = Writer
    /\ UNCHANGED <<source, shelf, cuts, pc, locals>>

\* A transaction: the ledger moves on, stops reconciling, or another experiment
\* becomes the active one.
WriteDatabase ==
    /\ lock = Writer
    /\ db.gen < MaxWrites
    /\ db' \in {d \in Databases : d.gen = db.gen + 1}
    /\ cuts' = cuts \cup {<<db', reports>>}
    /\ UNCHANGED <<reports, head, target, tree, lock, shelf, pc, locals>>

WriteReports ==
    /\ lock = Writer
    /\ reports' = db.gen
    /\ cuts' = cuts \cup {<<db, reports'>>}
    /\ UNCHANGED <<db, head, target, tree, lock, shelf, pc, locals>>

\* Or dies: the reports may be behind the database.
WriterReleases ==
    /\ lock = Writer
    /\ lock' = None
    /\ UNCHANGED <<source, shelf, cuts, pc, locals>>

BeginCheckout ==
    /\ target = head
    /\ target < MaxReleases
    /\ target' = target + 1
    /\ UNCHANGED <<db, reports, head, tree, lock, shelf, cuts, pc, locals>>

CheckoutFile ==
    /\ \E f \in GitFiles :
          /\ tree[f] # target
          /\ tree' = [tree EXCEPT ![f] = target]
    /\ UNCHANGED <<db, reports, head, target, lock, shelf, cuts, pc, locals>>

EndCheckout ==
    /\ target # head
    /\ \A f \in GitFiles : tree[f] = target
    /\ head' = target
    /\ UNCHANGED <<db, reports, target, tree, lock, shelf, cuts, pc, locals>>

\* One file of a published backup is damaged: a copy, the manifest, the digest
\* of the manifest.
Damage(n) ==
    /\ published[n] # None
    /\ published[n] = original[n]
    /\ \/ \E p \in Parts : published' = [published EXCEPT ![n].files[p] = Junk]
       \/ \E f \in {"commit", "sha", "auth", "sound"} :
             published' = [published EXCEPT ![n].doc[f] = Junk]
       \/ published' = [published EXCEPT ![n].side = Junk]
    /\ UNCHANGED <<source, lock, original, cuts, pc, locals>>

-----------------------------------------------------------------------------
(* verify_backup *)

\* Mutant: the manifest's identity is not compared with the archived one.
VerifiedSums(a) == (\A p \in Parts : a.files[p] = a.doc.sums[p]) /\ a.side = a.doc

\* The files are those the manifest lists, the digest is that of the manifest,
\* the archived hardening manifest is the one of the provenance, and the
\* database has the authority the manifest states, reconciles, and gives the
\* recorded checks again.
Verified(a) ==
    /\ \A p \in Parts : a.files[p] = a.doc.sums[p]
    /\ a.side = a.doc
    /\ a.files["manifest"] = a.doc.sha
    /\ a.files["db"].auth = a.doc.auth /\ a.files["db"].auth # None
    /\ a.files["db"].sound = a.doc.sound /\ a.files["db"].sound

-----------------------------------------------------------------------------
(* create_verified_backup *)

\* os.path.lexists(backup_dir)
Taken(n) == published[n] # None

Goto(b, step) == pc' = [pc EXCEPT ![b] = step]

\* An exception or a crash: the lock is released.  What is left of the staging
\* directory bears a name no backup has.
Abandon(b) ==
    /\ pc[b] # "idle"
    /\ Goto(b, "idle")
    /\ lock' = IF lock = b THEN None ELSE lock
    /\ name' = [name EXCEPT ![b] = None]
    /\ authority' = [authority EXCEPT ![b] = None]
    /\ prov' = [prov EXCEPT ![b] = NoProv]
    /\ staged' = [staged EXCEPT ![b] = << >>]
    /\ UNCHANGED <<source, shelf, cuts>>

\* Before the lock: an active experiment with a well-formed authority, and a
\* destination that does not exist.
Request(b, n) ==
    /\ pc[b] = "idle"
    /\ db.auth # None
    /\ ~Taken(n)
    /\ name' = [name EXCEPT ![b] = n]
    /\ authority' = [authority EXCEPT ![b] = db.auth]
    /\ Goto(b, "waiting")
    /\ UNCHANGED <<source, lock, shelf, cuts, prov, staged>>

\* Mutant: the backup does not wait for the lock.
AcquireAnyway(b) ==
    /\ pc[b] = "waiting"
    /\ ~Taken(name[b])
    /\ Goto(b, "commit")
    /\ UNCHANGED <<source, lock, shelf, cuts, locals>>

Acquire(b) ==
    /\ pc[b] = "waiting"
    /\ lock = None
    /\ ~Taken(name[b])
    /\ lock' = b
    /\ Goto(b, "commit")
    /\ UNCHANGED <<source, shelf, cuts, locals>>

\* capture_release_provenance: git rev-parse, then git status, then the hashes
\* of the hardening manifest.
ReadCommit(b) ==
    /\ pc[b] = "commit"
    /\ prov' = [prov EXCEPT ![b].commit = head]
    /\ Goto(b, "status")
    /\ UNCHANGED <<source, lock, shelf, cuts, name, authority, staged>>

ReadStatus(b) ==
    /\ pc[b] = "status"
    /\ \A f \in GitFiles : tree[f] = head
    /\ Goto(b, "hardening")
    /\ UNCHANGED <<source, lock, shelf, cuts, locals>>

VerifyHardening(b) ==
    /\ pc[b] = "hardening"
    /\ tree["evidence"] = tree["manifest"]
    /\ prov' = [prov EXCEPT ![b].sha = tree["manifest"]]
    /\ Goto(b, "authority")
    /\ UNCHANGED <<source, lock, shelf, cuts, name, authority, staged>>

\* The authority may have changed while the backup waited for the lock.
RecheckAuthority(b) ==
    /\ pc[b] = "authority"
    /\ db.auth = authority[b]
    /\ Goto(b, "copy")
    /\ UNCHANGED <<source, lock, shelf, cuts, locals>>

Contents(p) ==
    CASE p = "db"      -> db
      [] p = "reports" -> reports
      [] OTHER         -> tree[p]

\* The database first, then the trees file by file.
Copy(b) ==
    /\ pc[b] = "copy"
    /\ \E p \in Parts \ DOMAIN staged[b] :
          /\ p = "db" \/ "db" \in DOMAIN staged[b]
          /\ LET copied == DOMAIN staged[b] \cup {p}
             IN  /\ staged' = [staged EXCEPT ![b] =
                       [q \in copied |-> IF q = p THEN Contents(p) ELSE staged[b][q]]]
                 /\ Goto(b, IF copied = Parts THEN "seal" ELSE "copy")
    /\ UNCHANGED <<source, lock, shelf, cuts, name, authority, prov>>

\* backup_manifest.json and its digest.
Manifest(b) ==
    [commit |-> prov[b].commit, sha |-> prov[b].sha, auth |-> authority[b],
     sound |-> staged[b]["db"].sound, sums |-> staged[b]]

Archive(b) == [files |-> staged[b], doc |-> Manifest(b), side |-> Manifest(b)]

Seal(b) ==
    /\ pc[b] = "seal"
    /\ Verified(Archive(b))
    /\ Goto(b, "publish")
    /\ UNCHANGED <<source, lock, shelf, cuts, locals>>

\* staging_dir.rename(backup_dir), and the lock is released.
Publish(b) ==
    /\ pc[b] = "publish"
    /\ ~Taken(name[b])
    /\ published' = [published EXCEPT ![name[b]] = Archive(b)]
    /\ original' = [original EXCEPT ![name[b]] = Archive(b)]
    /\ Goto(b, "idle")
    /\ lock' = IF lock = b THEN None ELSE lock
    /\ name' = [name EXCEPT ![b] = None]
    /\ authority' = [authority EXCEPT ![b] = None]
    /\ prov' = [prov EXCEPT ![b] = NoProv]
    /\ staged' = [staged EXCEPT ![b] = << >>]
    /\ UNCHANGED <<source, cuts>>

-----------------------------------------------------------------------------

BackupStep(b) ==
    \/ Acquire(b) \/ ReadCommit(b) \/ ReadStatus(b) \/ VerifyHardening(b)
    \/ RecheckAuthority(b) \/ Copy(b) \/ Seal(b) \/ Publish(b) \/ Abandon(b)

Surroundings ==
    \/ WriterTakes \/ WriteDatabase \/ WriteReports \/ WriterReleases
    \/ BeginCheckout \/ CheckoutFile \/ EndCheckout
    \/ \E n \in Names : Damage(n)

Next ==
    \/ Surroundings
    \/ \E b \in Backups : BackupStep(b) \/ \E n \in Names : Request(b, n)

Spec == Init /\ [][Next]_vars

-----------------------------------------------------------------------------
(* Properties *)

\* The database and the reports of a backup existed together: no writer came
\* in between the copies (docs/operations.md, "acquire the global writer
\* lock").
ArchiveIsACut ==
    \A n \in Names : original[n] # None =>
        <<original[n].files["db"], original[n].files["reports"]>> \in cuts

\* A published backup passes verify_backup, and stops passing it when one of its
\* files is damaged.
VerificationTells ==
    \A n \in Names : published[n] # None =>
        (Verified(published[n]) <=> published[n] = original[n])

\* A backup states the authority its own database carries, and the hardening
\* manifest it archives is the one whose hash the provenance recorded, whatever
\* was changed while it waited and copied.
IdentityIsArchived ==
    \A n \in Names : original[n] # None =>
        /\ original[n].files["db"].auth = original[n].doc.auth
        /\ original[n].files["manifest"] = original[n].doc.sha

\* Backups are non-overwriting: two requests of the same second do not replace
\* one another.
NeverOverwritten ==
    [][\A n \in Names : original[n] # None => original'[n] = original[n]]_vars

\* "Governed v2 backups record the current verified Git commit": the commit a
\* backup names is the one its hardening manifest belongs to.
CommitIsTheArchivedOne ==
    \A n \in Names : original[n] # None => original[n].doc.commit = original[n].doc.sha

=============================================================================
