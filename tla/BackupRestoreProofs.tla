-------------------------- MODULE BackupRestoreProofs --------------------------
(***************************************************************************)
(* Proofs about BackupRestore for any number of backups, names, changes    *)
(* and checkouts: a published backup is a cut through the database and the *)
(* reports, names what it archives, and is told from a damaged one.         *)
(***************************************************************************)
EXTENDS BackupRestore, TLAPS

\* The holders of the lock can be told apart, and the bounds are numbers.
Distinct ==
    /\ None \notin Backups /\ Writer \notin Backups /\ Writer # None
    /\ MaxWrites \in Nat /\ MaxReleases \in Nat

-----------------------------------------------------------------------------
(* The inductive invariant *)

LocalsInv ==
    /\ DOMAIN name = Backups /\ DOMAIN authority = Backups
    /\ DOMAIN prov = Backups /\ DOMAIN staged = Backups

\* A backup past its wait holds the lock.
HolderInv(b) == pc[b] \notin {"idle", "waiting"} => lock = b

\* What a backup has copied of the locked files is what is still there: nobody
\* writes them before the backup is published or abandoned.
StagedInv(b) ==
    /\ DOMAIN staged[b] # {} => pc[b] \in {"copy", "seal", "publish"}
    /\ "db" \in DOMAIN staged[b] => staged[b]["db"] = db
    /\ "reports" \in DOMAIN staged[b] => staged[b]["reports"] = reports
    /\ pc[b] \in {"seal", "publish"} => DOMAIN staged[b] = Parts

\* What is about to be renamed into place has been verified as it is.
SealedInv(b) == pc[b] = "publish" => Verified(Archive(b))

BackupInv(b) == HolderInv(b) /\ StagedInv(b) /\ SealedInv(b)

\* What was published is a cut and names what it archives.
ShelfInv ==
    /\ <<db, reports>> \in cuts
    /\ ArchiveIsACut /\ IdentityIsArchived

IInv == TypeOK /\ LocalsInv /\ (\A b \in Backups : BackupInv(b)) /\ ShelfInv

-----------------------------------------------------------------------------
(* Steps that leave a backup alone *)

LEMMA EmptyFact == DOMAIN << >> = {}
OBVIOUS

LEMMA InitInv == Distinct /\ Init => IInv
<1> SUFFICES ASSUME Distinct, Init
             PROVE  IInv
  OBVIOUS
<1>1. TypeOK
  <2>1. db \in Databases /\ reports \in 0 .. MaxWrites
    BY DEF Distinct, Init, Databases
  <2>2. cuts \subseteq Databases \X (0 .. MaxWrites)
    <3>1. <<db, reports>> \in Databases \X (0 .. MaxWrites)
      BY <2>1
    <3>2. cuts = {<<db, reports>>}
      BY DEF Init
    <3> QED
      BY <3>1, <3>2
  <2>3. \A b \in Backups : DOMAIN staged[b] \subseteq Parts
    BY EmptyFact DEF Init
  <2>4. /\ head \in Releases /\ target \in Releases
        /\ tree \in [GitFiles -> Releases]
    BY DEF Distinct, Init, Releases
  <2> QED
    BY <2>1, <2>2, <2>3, <2>4 DEF Init, TypeOK
<1>2. LocalsInv
  BY DEF Init, LocalsInv
<1>3. ASSUME NEW b \in Backups
      PROVE  BackupInv(b)
  BY EmptyFact DEF Init, BackupInv, HolderInv, StagedInv, SealedInv
<1>4. ShelfInv
  BY DEF Init, ShelfInv, ArchiveIsACut, IdentityIsArchived
<1> QED
  BY <1>1, <1>2, <1>3, <1>4 DEF IInv

\* A backup is undisturbed by a step that keeps its locals and the lock it
\* holds, and that leaves the locked files alone if it holds it.
LEMMA Undisturbed ==
    ASSUME NEW b \in Backups, BackupInv(b),
           pc'[b] = pc[b], prov'[b] = prov[b], authority'[b] = authority[b],
           staged'[b] = staged[b],
           lock = b => lock' = b /\ UNCHANGED <<db, reports>>
    PROVE  BackupInv(b)'
<1>1. HolderInv(b)'
  BY DEF BackupInv, HolderInv
<1>2. StagedInv(b)'
  BY DEF BackupInv, HolderInv, StagedInv
<1>3. SealedInv(b)'
  <2>1. Archive(b)' = Archive(b)
    BY DEF Archive, Manifest
  <2> QED
    BY <2>1 DEF BackupInv, SealedInv, Verified
<1> QED
  BY <1>1, <1>2, <1>3 DEF BackupInv

LEMMA ShelfKept ==
    ASSUME ShelfInv, UNCHANGED original, cuts \subseteq cuts', <<db', reports'>> \in cuts'
    PROVE  ShelfInv'
BY DEF ShelfInv, ArchiveIsACut, IdentityIsArchived

\* The writer, git and damage.
LEMMA SurroundingsStep ==
    ASSUME Distinct, IInv, Surroundings
    PROVE  IInv'
<1>1. CASE WriterTakes
  <2>1. TypeOK' /\ LocalsInv'
    BY <1>1 DEF WriterTakes, source, shelf, locals, IInv, TypeOK, LocalsInv
  <2>2. ASSUME NEW b \in Backups PROVE BackupInv(b)'
    BY <1>1, <2>2, Undisturbed DEF WriterTakes, source, locals, Distinct, IInv
  <2>3. ShelfInv'
    BY <1>1, ShelfKept DEF WriterTakes, source, shelf, IInv, ShelfInv
  <2> QED
    BY <2>1, <2>2, <2>3 DEF IInv
<1>2. CASE WriteDatabase
  <2>1. TypeOK' /\ LocalsInv'
    <3>1. db' \in Databases
      BY <1>2 DEF WriteDatabase
    <3>2. cuts' \subseteq Databases \X (0 .. MaxWrites)
      BY <1>2, <3>1 DEF WriteDatabase, IInv, TypeOK
    <3> QED
      BY <1>2, <3>1, <3>2 DEF WriteDatabase, shelf, locals, IInv, TypeOK, LocalsInv
  <2>2. ASSUME NEW b \in Backups PROVE BackupInv(b)'
    BY <1>2, <2>2, Undisturbed DEF WriteDatabase, locals, Distinct, IInv
  <2>3. ShelfInv'
    BY <1>2, ShelfKept DEF WriteDatabase, shelf, IInv
  <2> QED
    BY <2>1, <2>2, <2>3 DEF IInv
<1>3. CASE WriteReports
  <2>1. TypeOK' /\ LocalsInv'
    <3>1. db \in Databases /\ reports' \in 0 .. MaxWrites
      BY <1>3 DEF WriteReports, IInv, TypeOK, Databases
    <3>2. cuts' \subseteq Databases \X (0 .. MaxWrites)
      BY <1>3, <3>1 DEF WriteReports, IInv, TypeOK
    <3> QED
      BY <1>3, <3>1, <3>2 DEF WriteReports, shelf, locals, IInv, TypeOK, LocalsInv
  <2>2. ASSUME NEW b \in Backups PROVE BackupInv(b)'
    BY <1>3, <2>2, Undisturbed DEF WriteReports, locals, Distinct, IInv
  <2>3. ShelfInv'
    BY <1>3, ShelfKept DEF WriteReports, shelf, IInv
  <2> QED
    BY <2>1, <2>2, <2>3 DEF IInv
<1>4. CASE WriterReleases
  <2>1. TypeOK' /\ LocalsInv'
    BY <1>4 DEF WriterReleases, source, shelf, locals, IInv, TypeOK, LocalsInv
  <2>2. ASSUME NEW b \in Backups PROVE BackupInv(b)'
    BY <1>4, <2>2, Undisturbed DEF WriterReleases, source, locals, Distinct, IInv
  <2>3. ShelfInv'
    BY <1>4, ShelfKept DEF WriterReleases, source, shelf, IInv, ShelfInv
  <2> QED
    BY <2>1, <2>2, <2>3 DEF IInv
<1>5. CASE BeginCheckout \/ CheckoutFile \/ EndCheckout
  <2>1. UNCHANGED <<db, reports, lock, shelf, cuts, pc, locals>>
    BY <1>5 DEF BeginCheckout, CheckoutFile, EndCheckout
  <2>2. head' \in Releases /\ target' \in Releases
    BY <1>5 DEF BeginCheckout, CheckoutFile, EndCheckout, Distinct, IInv, TypeOK, Releases
  <2>3. tree' \in [GitFiles -> Releases]
    BY <1>5 DEF BeginCheckout, CheckoutFile, EndCheckout, IInv, TypeOK
  <2>4. TypeOK' /\ LocalsInv'
    BY <2>1, <2>2, <2>3 DEF shelf, locals, IInv, TypeOK, LocalsInv
  <2>5. ASSUME NEW b \in Backups PROVE BackupInv(b)'
    BY <2>1, <2>5, Undisturbed DEF locals, IInv
  <2>6. ShelfInv'
    BY <2>1, ShelfKept DEF shelf, IInv, ShelfInv
  <2> QED
    BY <2>4, <2>5, <2>6 DEF IInv
<1>6. ASSUME NEW n \in Names, Damage(n)
      PROVE  IInv'
  <2>1. UNCHANGED <<source, lock, original, cuts, pc, locals>>
    BY <1>6 DEF Damage
  <2>2. DOMAIN published' = Names
    BY <1>6 DEF Damage, IInv, TypeOK
  <2>3. TypeOK' /\ LocalsInv'
    BY <2>1, <2>2 DEF source, locals, IInv, TypeOK, LocalsInv
  <2>4. ASSUME NEW b \in Backups PROVE BackupInv(b)'
    BY <2>1, <2>4, Undisturbed DEF source, locals, IInv
  <2>5. ShelfInv'
    BY <2>1, ShelfKept DEF source, IInv, ShelfInv
  <2> QED
    BY <2>3, <2>4, <2>5 DEF IInv
<1> QED
  BY <1>1, <1>2, <1>3, <1>4, <1>5, <1>6 DEF Surroundings

-----------------------------------------------------------------------------
(* The steps of a backup *)

\* A step of one backup that leaves the locked files alone disturbs no other.
LEMMA OthersUndisturbed ==
    ASSUME IInv, NEW b \in Backups,
           \E step : Goto(b, step),
           \A c \in Backups \ {b} : /\ prov'[c] = prov[c] /\ authority'[c] = authority[c]
                                    /\ staged'[c] = staged[c],
           UNCHANGED <<db, reports>>,
           lock' = lock \/ lock \in {b, None},
           None \notin Backups
    PROVE  \A c \in Backups \ {b} : BackupInv(c)'
<1> SUFFICES ASSUME NEW c \in Backups \ {b}
             PROVE  BackupInv(c)'
  OBVIOUS
<1>1. pc'[c] = pc[c]
  BY DEF Goto, IInv, TypeOK
<1>2. lock = c => lock' = c
  OBVIOUS
<1> QED
  BY <1>1, <1>2, Undisturbed DEF IInv

\* The end of a backup, published or not, leaves nothing of it behind.
LEMMA EndKeeps ==
    ASSUME Distinct, IInv, NEW b \in Backups,
           Goto(b, "idle"),
           lock' = (IF lock = b THEN None ELSE lock),
           name' = [name EXCEPT ![b] = None],
           authority' = [authority EXCEPT ![b] = None],
           prov' = [prov EXCEPT ![b] = NoProv],
           staged' = [staged EXCEPT ![b] = << >>],
           UNCHANGED <<source, cuts>>,
           DOMAIN published' = Names, DOMAIN original' = Names,
           ShelfInv'
    PROVE  IInv'
<1>1. TypeOK'
  BY EmptyFact DEF Goto, source, IInv, TypeOK, LocalsInv
<1>2. LocalsInv'
  BY DEF IInv, LocalsInv
<1>3. \A c \in Backups \ {b} : BackupInv(c)'
  BY OthersUndisturbed DEF source, Distinct, IInv, LocalsInv
<1>4. BackupInv(b)'
  <2>1. pc'[b] = "idle" /\ staged'[b] = << >>
    BY DEF Goto, IInv, TypeOK, LocalsInv
  <2> QED
    BY <2>1, EmptyFact DEF BackupInv, HolderInv, StagedInv, SealedInv
<1> QED
  BY <1>1, <1>2, <1>3, <1>4 DEF IInv

\* A step before the copies, which changes no files and stays within the wait or
\* the lock.
LEMMA EarlyStep ==
    ASSUME Distinct, IInv, NEW b \in Backups,
           NEW step \in {"waiting", "commit", "status", "hardening", "authority", "copy"},
           Goto(b, step),
           pc[b] \notin {"copy", "seal", "publish"},
           step # "waiting" => lock' = b,
           lock' = lock \/ (lock = None /\ lock' = b),
           DOMAIN name' = Backups, DOMAIN authority' = Backups, DOMAIN prov' = Backups,
           \A c \in Backups \ {b} : prov'[c] = prov[c] /\ authority'[c] = authority[c],
           UNCHANGED <<source, shelf, cuts, staged>>
    PROVE  IInv'
<1>1. TypeOK' /\ LocalsInv'
  BY DEF Goto, source, shelf, IInv, TypeOK, LocalsInv
<1>2. \A c \in Backups \ {b} : BackupInv(c)'
  BY OthersUndisturbed DEF source, Distinct
<1>3. BackupInv(b)'
  <2>1. pc'[b] = step /\ DOMAIN staged'[b] = {}
    BY DEF Goto, IInv, TypeOK, BackupInv, StagedInv
  <2> QED
    BY <2>1 DEF BackupInv, HolderInv, StagedInv, SealedInv
<1>4. ShelfInv'
  BY ShelfKept DEF source, shelf, IInv, ShelfInv
<1> QED
  BY <1>1, <1>2, <1>3, <1>4 DEF IInv

LEMMA RequestStep ==
    ASSUME Distinct, IInv, NEW b \in Backups, NEW n \in Names, Request(b, n)
    PROVE  IInv'
BY EarlyStep DEF Request, shelf, IInv, LocalsInv

LEMMA EarlySteps ==
    ASSUME Distinct, IInv, NEW b \in Backups,
           \/ Acquire(b) \/ ReadCommit(b) \/ ReadStatus(b)
           \/ VerifyHardening(b) \/ RecheckAuthority(b)
    PROVE  IInv'
<1> USE DEF shelf, locals, IInv, LocalsInv
<1>0. pc[b] \notin {"idle", "waiting"} => lock = b
  BY DEF BackupInv, HolderInv
<1>1. CASE Acquire(b)
  BY <1>1, EarlyStep DEF Acquire
<1>2. CASE ReadCommit(b)
  <2>1. /\ DOMAIN prov' = Backups
        /\ \A c \in Backups \ {b} : prov'[c] = prov[c]
    BY <1>2 DEF ReadCommit
  <2> QED
    BY <1>0, <1>2, <2>1, EarlyStep DEF ReadCommit
<1>3. CASE ReadStatus(b)
  BY <1>0, <1>3, EarlyStep DEF ReadStatus
<1>4. CASE VerifyHardening(b)
  <2>1. /\ DOMAIN prov' = Backups
        /\ \A c \in Backups \ {b} : prov'[c] = prov[c]
    BY <1>4 DEF VerifyHardening
  <2> QED
    BY <1>0, <1>4, <2>1, EarlyStep DEF VerifyHardening
<1>5. CASE RecheckAuthority(b)
  BY <1>0, <1>5, EarlyStep DEF RecheckAuthority
<1> QED
  BY <1>1, <1>2, <1>3, <1>4, <1>5

LEMMA CopyStep ==
    ASSUME Distinct, IInv, NEW b \in Backups, Copy(b)
    PROVE  IInv'
<1>1. PICK p \in Parts \ DOMAIN staged[b] :
          LET copied == DOMAIN staged[b] \cup {p}
          IN  /\ staged' = [staged EXCEPT ![b] =
                    [q \in copied |-> IF q = p THEN Contents(p) ELSE staged[b][q]]]
              /\ Goto(b, IF copied = Parts THEN "seal" ELSE "copy")
  BY DEF Copy
<1> DEFINE copied == DOMAIN staged[b] \cup {p}
           step == IF copied = Parts THEN "seal" ELSE "copy"
<1>2. /\ pc[b] = "copy" /\ lock = b
      /\ UNCHANGED <<source, lock, shelf, cuts, name, authority, prov>>
  BY DEF Copy, IInv, BackupInv, HolderInv
<1>3. /\ staged'[b] = [q \in copied |-> IF q = p THEN Contents(p) ELSE staged[b][q]]
      /\ DOMAIN staged' = Backups
      /\ \A c \in Backups \ {b} : staged'[c] = staged[c]
  BY <1>1 DEF IInv, LocalsInv
<1>4. copied \subseteq Parts /\ DOMAIN staged'[b] = copied
  BY <1>3 DEF IInv, TypeOK
<1>5. step \in {"seal", "copy"} /\ Goto(b, step) /\ pc'[b] = step
  BY <1>1 DEF Goto, IInv, TypeOK
<1>6. TypeOK' /\ LocalsInv'
  BY <1>2, <1>3, <1>4, <1>5 DEF Goto, source, shelf, IInv, TypeOK, LocalsInv
<1>7. \A c \in Backups \ {b} : BackupInv(c)'
  BY <1>2, <1>3, <1>5, OthersUndisturbed DEF source, Distinct
<1>8. BackupInv(b)'
  <2>1. HolderInv(b)' /\ SealedInv(b)'
    BY <1>2, <1>5 DEF HolderInv, SealedInv
  <2>2. StagedInv(b)
    BY DEF IInv, BackupInv
  <2>3. "db" \in copied => staged'[b]["db"] = db'
    BY <1>2, <1>3, <2>2 DEF StagedInv, Contents, source
  <2>4. "reports" \in copied => staged'[b]["reports"] = reports'
    BY <1>2, <1>3, <2>2 DEF StagedInv, Contents, source
  <2>5. StagedInv(b)'
    BY <1>4, <1>5, <2>3, <2>4 DEF StagedInv
  <2> QED
    BY <2>1, <2>5 DEF BackupInv
<1>9. ShelfInv'
  BY <1>2, ShelfKept DEF source, shelf, IInv, ShelfInv
<1> QED
  BY <1>6, <1>7, <1>8, <1>9 DEF IInv

LEMMA SealStep ==
    ASSUME Distinct, IInv, NEW b \in Backups, Seal(b)
    PROVE  IInv'
<1>1. /\ pc[b] = "seal" /\ lock = b /\ Verified(Archive(b))
      /\ Goto(b, "publish") /\ pc'[b] = "publish"
      /\ UNCHANGED <<source, lock, shelf, cuts, locals>>
  BY DEF Seal, Goto, IInv, TypeOK, BackupInv, HolderInv
<1>2. TypeOK' /\ LocalsInv'
  BY <1>1 DEF Goto, source, shelf, locals, IInv, TypeOK, LocalsInv
<1>3. \A c \in Backups \ {b} : BackupInv(c)'
  BY <1>1, OthersUndisturbed DEF source, locals, Distinct
<1>4. BackupInv(b)'
  <2>1. HolderInv(b)' /\ StagedInv(b)'
    BY <1>1 DEF source, locals, IInv, BackupInv, HolderInv, StagedInv
  <2>2. Archive(b)' = Archive(b)
    BY <1>1 DEF locals, Archive, Manifest
  <2>3. SealedInv(b)'
    BY <1>1, <2>2 DEF SealedInv, Verified
  <2> QED
    BY <2>1, <2>3 DEF BackupInv
<1>5. ShelfInv'
  BY <1>1, ShelfKept DEF source, shelf, IInv, ShelfInv
<1> QED
  BY <1>2, <1>3, <1>4, <1>5 DEF IInv

\* The backup holds the lock, so that what it copied is what is there now.
LEMMA PublishStep ==
    ASSUME Distinct, IInv, NEW b \in Backups, Publish(b)
    PROVE  IInv'
<1> DEFINE a == Archive(b)
<1>1. /\ Verified(a)
      /\ staged[b]["db"] = db /\ staged[b]["reports"] = reports
  BY DEF Publish, IInv, BackupInv, StagedInv, SealedInv, Parts
<1>2. /\ a.files = staged[b]
      /\ a.doc.auth = a.files["db"].auth /\ a.doc.sha = a.files["manifest"]
  BY <1>1 DEF Archive, Verified
<1>3. \A n \in Names : original'[n] = original[n] \/ original'[n] = a
  BY DEF Publish, IInv, TypeOK
<1>4. DOMAIN published' = Names /\ DOMAIN original' = Names
  BY DEF Publish, IInv, TypeOK
<1>5. ShelfInv'
  <2>1. UNCHANGED <<db, reports, cuts>> /\ <<db, reports>> \in cuts
    BY DEF Publish, source, IInv, ShelfInv
  <2>2. ArchiveIsACut'
    BY <1>1, <1>2, <1>3, <2>1 DEF IInv, ShelfInv, ArchiveIsACut
  <2>3. IdentityIsArchived'
    BY <1>2, <1>3 DEF IInv, ShelfInv, IdentityIsArchived
  <2> QED
    BY <2>1, <2>2, <2>3 DEF ShelfInv
<1> QED
  BY <1>4, <1>5, EndKeeps DEF Publish

LEMMA AbandonStep ==
    ASSUME Distinct, IInv, NEW b \in Backups, Abandon(b)
    PROVE  IInv'
<1>1. ShelfInv'
  BY ShelfKept DEF Abandon, source, shelf, IInv, ShelfInv
<1>2. DOMAIN published' = Names /\ DOMAIN original' = Names
  BY DEF Abandon, shelf, IInv, TypeOK
<1> QED
  BY <1>1, <1>2, EndKeeps DEF Abandon

-----------------------------------------------------------------------------
(* The theorems *)

LEMMA NextInv ==
    ASSUME Distinct, IInv, [Next]_vars
    PROVE  IInv'
<1>1. CASE UNCHANGED vars
  <2>1. TypeOK' /\ LocalsInv'
    BY <1>1 DEF vars, source, shelf, locals, IInv, TypeOK, LocalsInv
  <2>2. ASSUME NEW b \in Backups PROVE BackupInv(b)'
    BY <1>1, <2>2, Undisturbed DEF vars, source, locals, IInv
  <2>3. ShelfInv'
    BY <1>1, ShelfKept DEF vars, source, shelf, IInv, ShelfInv
  <2> QED
    BY <2>1, <2>2, <2>3 DEF IInv
<1>2. ASSUME NEW b \in Backups, BackupStep(b)
      PROVE  IInv'
  BY <1>2, EarlySteps, CopyStep, SealStep, PublishStep, AbandonStep DEF BackupStep
<1>3. ASSUME NEW b \in Backups, NEW n \in Names, Request(b, n)
      PROVE  IInv'
  BY <1>3, RequestStep
<1> QED
  BY <1>1, <1>2, <1>3, SurroundingsStep DEF Next

\* The invariant holds in every reachable state.
THEOREM Invariance == Distinct => (Spec => []IInv)
<1> SUFFICES ASSUME Distinct PROVE Spec => []IInv
  OBVIOUS
<1>1. IInv /\ [Next]_vars => IInv'
  BY NextInv
<1>2. Init => IInv
  BY InitInv
<1> QED
  BY <1>1, <1>2, PTL DEF Spec

\* Every variable has its type.
THEOREM TypeCorrect == Distinct => (Spec => []TypeOK)
BY Invariance, PTL DEF IInv

\* No writer comes between the copies of the database and of the reports.
THEOREM Cut == Distinct => (Spec => []ArchiveIsACut)
<1>1. IInv => ArchiveIsACut
  BY DEF IInv, ShelfInv
<1> QED
  BY <1>1, Invariance, PTL

\* A backup states the authority of its own database and the hash of its own
\* hardening manifest.
THEOREM Identity == Distinct => (Spec => []IdentityIsArchived)
<1>1. IInv => IdentityIsArchived
  BY DEF IInv, ShelfInv
<1> QED
  BY <1>1, Invariance, PTL

\* At most one backup is past its wait, and never while a writer works.
THEOREM OneBackup ==
    Distinct => (Spec => [](\A b, c \in Backups :
        /\ pc[b] \notin {"idle", "waiting"} => lock # Writer
        /\ {pc[b], pc[c]} \cap {"idle", "waiting"} = {} => b = c))
<1> SUFFICES ASSUME Distinct
             PROVE  Spec => [](\A b, c \in Backups :
                 /\ pc[b] \notin {"idle", "waiting"} => lock # Writer
                 /\ {pc[b], pc[c]} \cap {"idle", "waiting"} = {} => b = c)
  OBVIOUS
<1>1. IInv => \A b, c \in Backups :
          /\ pc[b] \notin {"idle", "waiting"} => lock # Writer
          /\ {pc[b], pc[c]} \cap {"idle", "waiting"} = {} => b = c
  BY DEF Distinct, IInv, BackupInv, HolderInv
<1> QED
  BY <1>1, Invariance, PTL

-----------------------------------------------------------------------------
(* What the verification tells, and what is never replaced *)

\* Damage is visible: what it leaves is no content, no field and no document that
\* a backup writes, and no backup is the absence of one.
Visible ==
    /\ Junk \notin Databases \cup 0 .. MaxWrites \cup Releases \cup Authorities
                 \cup {None} \cup BOOLEAN
    /\ \A c, s, t, d, u :
          [commit |-> c, sha |-> s, auth |-> t, sound |-> d, sums |-> u] # Junk
    /\ \A f, d, s : [files |-> f, doc |-> d, side |-> s] # None

\* A backup as it is renamed into place: it passes the verification, and nothing
\* in it is damaged.
Pristine(o) ==
    /\ Verified(o)
    /\ DOMAIN o.files = Parts
    /\ \E f, c, s, t, d, u :
          LET doc == [commit |-> c, sha |-> s, auth |-> t, sound |-> d, sums |-> u]
          IN  o = [files |-> f, doc |-> doc, side |-> doc] /\ Junk \notin {c, s, t, d}
    /\ \A p \in Parts : o.files[p] # Junk

\* What one damage makes of a backup.
Hurt(o, a) ==
    \/ \E p \in Parts : a = [o EXCEPT !.files[p] = Junk]
    \/ \E f \in {"commit", "sha", "auth", "sound"} : a = [o EXCEPT !.doc[f] = Junk]
    \/ a = [o EXCEPT !.side = Junk]

\* What a backup holds on its way is not damaged.
Intact(b) ==
    /\ \E c, s : prov[b] = [commit |-> c, sha |-> s] /\ c # Junk
    /\ \A p \in DOMAIN staged[b] : staged[b][p] # Junk

IntactInv == \A b \in Backups : Intact(b)

\* What is on the shelf was pristine and has been damaged once at most.
PlaceInv ==
    \A n \in Names :
        /\ original[n] = None <=> published[n] = None
        /\ original[n] # None =>
              /\ Pristine(original[n])
              /\ published[n] = original[n] \/ Hurt(original[n], published[n])

LEMMA HurtFails ==
    ASSUME Visible, NEW o, Pristine(o), NEW a, Hurt(o, a)
    PROVE  ~ Verified(a) /\ a # None
<1>1. PICK f, c, s, t, d, u :
          LET doc == [commit |-> c, sha |-> s, auth |-> t, sound |-> d, sums |-> u]
          IN  o = [files |-> f, doc |-> doc, side |-> doc] /\ Junk \notin {c, s, t, d}
  BY DEF Pristine
<1> DEFINE doc == [commit |-> c, sha |-> s, auth |-> t, sound |-> d, sums |-> u]
<1>2. o = [files |-> f, doc |-> doc, side |-> doc] /\ Junk \notin {c, s, t, d}
  BY <1>1
<1>3. /\ DOMAIN f = Parts /\ \A p \in Parts : f[p] # Junk /\ f[p] = u[p]
  BY <1>2 DEF Pristine, Verified
<1>4. CASE \E p \in Parts : a = [o EXCEPT !.files[p] = Junk]
  <2>1. PICK p \in Parts : a = [o EXCEPT !.files[p] = Junk]
    BY <1>4
  <2>2. a = [files |-> [f EXCEPT ![p] = Junk], doc |-> doc, side |-> doc]
    BY <1>2, <2>1
  <2>3. a.files[p] = Junk /\ a.doc.sums[p] = u[p] /\ u[p] # Junk
    BY <1>3, <2>2
  <2> QED
    BY <2>2, <2>3 DEF Verified, Visible
<1>5. CASE \E g \in {"commit", "sha", "auth", "sound"} : a = [o EXCEPT !.doc[g] = Junk]
  <2>1. PICK g \in {"commit", "sha", "auth", "sound"} : a = [o EXCEPT !.doc[g] = Junk]
    BY <1>5
  <2>2. a = [files |-> f, doc |-> [doc EXCEPT ![g] = Junk], side |-> doc]
    BY <1>2, <2>1
  <2>3. a.side[g] # a.doc[g]
    BY <1>2, <2>1, <2>2
  <2> QED
    BY <2>2, <2>3 DEF Verified, Visible
<1>6. CASE a = [o EXCEPT !.side = Junk]
  <2>1. a = [files |-> f, doc |-> doc, side |-> Junk]
    BY <1>2, <1>6
  <2>2. doc # Junk
    BY DEF Visible
  <2> QED
    BY <2>1, <2>2 DEF Verified, Visible
<1> QED
  BY <1>4, <1>5, <1>6 DEF Hurt

LEMMA StaysIntact ==
    ASSUME NEW b \in Backups, Intact(b), prov'[b] = prov[b], staged'[b] = staged[b]
    PROVE  Intact(b)'
BY DEF Intact

LEMMA IntactStep ==
    ASSUME Visible, IInv, IntactInv, [Next]_vars
    PROVE  IntactInv'
<1> USE DEF IInv, LocalsInv
<1>1. ASSUME NEW b \in Backups, Copy(b)
      PROVE  IntactInv'
  <2>1. \A p \in Parts : Contents(p) # Junk
    BY DEF Visible, Contents, Parts, GitFiles, TypeOK
  <2>2. PICK p \in Parts \ DOMAIN staged[b] :
            LET copied == DOMAIN staged[b] \cup {p}
            IN  staged' = [staged EXCEPT ![b] =
                    [q \in copied |-> IF q = p THEN Contents(p) ELSE staged[b][q]]]
    BY <1>1 DEF Copy
  <2>3. \A q \in DOMAIN staged'[b] : staged'[b][q] # Junk
    BY <2>1, <2>2 DEF IntactInv, Intact
  <2>4. prov' = prov /\ \A c \in Backups \ {b} : staged'[c] = staged[c]
    BY <1>1, <2>2 DEF Copy
  <2> QED
    BY <2>3, <2>4, StaysIntact DEF IntactInv, Intact
<1>2. ASSUME NEW b \in Backups, ReadCommit(b)
      PROVE  IntactInv'
  <2>1. PICK c, s : prov[b] = [commit |-> c, sha |-> s]
    BY DEF IntactInv, Intact
  <2>2. prov'[b] = [commit |-> head, sha |-> s] /\ head # Junk
    BY <1>2, <2>1 DEF ReadCommit, Visible, TypeOK
  <2> QED
    BY <1>2, <2>2, StaysIntact DEF ReadCommit, IntactInv, Intact
<1>3. ASSUME NEW b \in Backups, VerifyHardening(b)
      PROVE  IntactInv'
  <2>1. PICK c, s : prov[b] = [commit |-> c, sha |-> s] /\ c # Junk
    BY DEF IntactInv, Intact
  <2>2. prov'[b] = [commit |-> c, sha |-> tree["manifest"]]
    BY <1>3, <2>1 DEF VerifyHardening
  <2> QED
    BY <1>3, <2>1, <2>2, StaysIntact DEF VerifyHardening, IntactInv, Intact
<1>4. ASSUME NEW b \in Backups, Publish(b) \/ Abandon(b)
      PROVE  IntactInv'
  <2>1. prov'[b] = [commit |-> None, sha |-> None] /\ None # Junk /\ staged'[b] = << >>
    BY <1>4 DEF Publish, Abandon, NoProv, Visible
  <2> QED
    BY <1>4, <2>1, EmptyFact, StaysIntact DEF Publish, Abandon, IntactInv, Intact
<1>5. CASE Surroundings \/ UNCHANGED vars
  <2>1. UNCHANGED <<prov, staged>>
    BY <1>5
       DEF Surroundings, WriterTakes, WriteDatabase, WriteReports, WriterReleases,
           BeginCheckout, CheckoutFile, EndCheckout, Damage, locals, vars
  <2> QED
    BY <2>1, StaysIntact DEF IntactInv
<1>6. ASSUME NEW b \in Backups, Acquire(b) \/ ReadStatus(b) \/ RecheckAuthority(b) \/ Seal(b)
      PROVE  IntactInv'
  <2>1. UNCHANGED <<prov, staged>>
    BY <1>6 DEF Acquire, ReadStatus, RecheckAuthority, Seal, locals
  <2> QED
    BY <2>1, StaysIntact DEF IntactInv
<1>7. ASSUME NEW b \in Backups, NEW n \in Names, Request(b, n)
      PROVE  IntactInv'
  BY <1>7 DEF Request, IntactInv, Intact
<1> QED
  BY <1>1, <1>2, <1>3, <1>4, <1>5, <1>6, <1>7 DEF Next, BackupStep

\* What a backup renames into place is pristine.
LEMMA PublishesPristine ==
    ASSUME Visible, IInv, IntactInv, NEW b \in Backups, Publish(b)
    PROVE  Pristine(Archive(b))
<1>1. /\ Verified(Archive(b)) /\ DOMAIN staged[b] = Parts /\ staged[b]["db"] = db
  BY DEF Publish, IInv, BackupInv, StagedInv, SealedInv, Parts
<1>2. PICK c, s : prov[b] = [commit |-> c, sha |-> s] /\ c # Junk
  BY DEF IntactInv, Intact
<1>3. \A p \in Parts : staged[b][p] # Junk
  BY <1>1 DEF IntactInv, Intact
<1> DEFINE doc == [commit |-> c, sha |-> s, auth |-> authority[b],
                   sound |-> staged[b]["db"].sound, sums |-> staged[b]]
<1>4. Archive(b) = [files |-> staged[b], doc |-> doc, side |-> doc]
  BY <1>2 DEF Archive, Manifest
<1>5. s = staged[b]["manifest"] /\ authority[b] = db.auth
  BY <1>1, <1>4 DEF Verified
<1>6. db.auth # Junk /\ db.sound # Junk /\ s # Junk
  BY <1>3, <1>5 DEF IInv, TypeOK, Databases, Visible, Parts, GitFiles
<1>7. Junk \notin {c, s, authority[b], staged[b]["db"].sound}
  BY <1>1, <1>2, <1>5, <1>6
<1>8. \E f, e, r, t, d, u :
          LET given == [commit |-> e, sha |-> r, auth |-> t, sound |-> d, sums |-> u]
          IN  /\ Archive(b) = [files |-> f, doc |-> given, side |-> given]
              /\ Junk \notin {e, r, t, d}
  BY <1>4, <1>7
<1>9. Archive(b).files = staged[b]
  BY <1>4
<1> QED
  BY <1>1, <1>3, <1>8, <1>9 DEF Pristine

LEMMA PlaceStep ==
    ASSUME Visible, IInv, IntactInv, PlaceInv, [Next]_vars
    PROVE  /\ PlaceInv'
           /\ \A n \in Names : original[n] # None => original'[n] = original[n]
<1> USE DEF IInv
<1>1. ASSUME NEW b \in Backups, Publish(b)
      PROVE  /\ PlaceInv'
             /\ \A n \in Names : original[n] # None => original'[n] = original[n]
  <2>1. Pristine(Archive(b)) /\ Archive(b) # None
    BY <1>1, PublishesPristine DEF Archive, Visible
  <2>2. \A n \in Names :
            \/ original'[n] = original[n] /\ published'[n] = published[n]
            \/ /\ original'[n] = Archive(b) /\ published'[n] = Archive(b)
               /\ published[n] = None
    BY <1>1 DEF Publish, Taken, TypeOK
  <2> QED
    BY <2>1, <2>2 DEF PlaceInv
<1>2. ASSUME NEW n \in Names, Damage(n)
      PROVE  /\ PlaceInv'
             /\ \A m \in Names : original[m] # None => original'[m] = original[m]
  <2>1. /\ published[n] # None /\ published[n] = original[n] /\ original' = original
        /\ \A m \in Names \ {n} : published'[m] = published[m]
    BY <1>2 DEF Damage, TypeOK
  <2>2. Hurt(original[n], published'[n])
    <3>1. DOMAIN published = Names
      BY DEF TypeOK
    <3>2. ASSUME NEW p \in Parts, published' = [published EXCEPT ![n].files[p] = Junk]
          PROVE  published'[n] = [original[n] EXCEPT !.files[p] = Junk]
      BY <2>1, <3>1, <3>2
    <3>3. ASSUME NEW f \in {"commit", "sha", "auth", "sound"},
                 published' = [published EXCEPT ![n].doc[f] = Junk]
          PROVE  published'[n] = [original[n] EXCEPT !.doc[f] = Junk]
      BY <2>1, <3>1, <3>3
    <3>4. ASSUME published' = [published EXCEPT ![n].side = Junk]
          PROVE  published'[n] = [original[n] EXCEPT !.side = Junk]
      BY <2>1, <3>1, <3>4
    <3> QED
      BY <1>2, <3>2, <3>3, <3>4 DEF Damage, Hurt
  <2>3. published'[n] # None
    BY <2>1, <2>2, HurtFails DEF PlaceInv
  <2> QED
    BY <2>1, <2>2, <2>3 DEF PlaceInv
<1>3. ASSUME UNCHANGED shelf
      PROVE  /\ PlaceInv'
             /\ \A n \in Names : original[n] # None => original'[n] = original[n]
  BY <1>3 DEF shelf, PlaceInv
<1>4. ASSUME NEW b \in Backups, BackupStep(b), ~ Publish(b)
      PROVE  UNCHANGED shelf
  BY <1>4
     DEF BackupStep, Acquire, ReadCommit, ReadStatus, VerifyHardening,
         RecheckAuthority, Copy, Seal, Abandon
<1>5. ASSUME NEW b \in Backups, NEW n \in Names, Request(b, n)
      PROVE  UNCHANGED shelf
  BY <1>5 DEF Request
<1>6. CASE Surroundings /\ ~ \E n \in Names : Damage(n)
  BY <1>6, <1>3
     DEF Surroundings, WriterTakes, WriteDatabase, WriteReports, WriterReleases,
         BeginCheckout, CheckoutFile, EndCheckout
<1>7. CASE UNCHANGED vars
  BY <1>7, <1>3 DEF vars
<1> QED
  BY <1>1, <1>2, <1>3, <1>4, <1>5, <1>6, <1>7 DEF Next, Surroundings

LEMMA PlaceInit == Visible /\ Init => IntactInv /\ PlaceInv
<1> SUFFICES ASSUME Visible, Init
             PROVE  IntactInv /\ PlaceInv
  OBVIOUS
<1>1. IntactInv
  BY EmptyFact DEF Init, Visible, NoProv, IntactInv, Intact
<1>2. PlaceInv
  BY DEF Init, PlaceInv
<1> QED
  BY <1>1, <1>2

\* verify_backup accepts a published backup exactly as long as nothing in it was
\* damaged.
THEOREM Verification == Distinct /\ Visible => (Spec => []VerificationTells)
<1> SUFFICES ASSUME Distinct, Visible
             PROVE  Spec => []VerificationTells
  OBVIOUS
<1>1. Init => IntactInv /\ PlaceInv
  BY PlaceInit
<1>2. IInv /\ IntactInv /\ PlaceInv /\ [Next]_vars => IntactInv' /\ PlaceInv'
  BY IntactStep, PlaceStep
<1>3. PlaceInv => VerificationTells
  <2> SUFFICES ASSUME PlaceInv, NEW n \in Names, published[n] # None
               PROVE  Verified(published[n]) <=> published[n] = original[n]
    BY DEF VerificationTells
  <2>1. /\ Pristine(original[n])
        /\ published[n] = original[n] \/ Hurt(original[n], published[n])
    BY DEF PlaceInv
  <2>2. Verified(original[n])
    BY <2>1 DEF Pristine
  <2> QED
    BY <2>1, <2>2, HurtFails
<1> QED
  BY <1>1, <1>2, <1>3, Invariance, PTL DEF Spec

\* A backup that was published is not replaced by another one, and what was damaged
\* is not taken for a free name.
THEOREM NotOverwritten == Distinct /\ Visible => (Spec => NeverOverwritten)
<1> SUFFICES ASSUME Distinct, Visible
             PROVE  Spec => NeverOverwritten
  OBVIOUS
<1>1. Init => IntactInv /\ PlaceInv
  BY PlaceInit
<1>2. IInv /\ IntactInv /\ PlaceInv /\ [Next]_vars => IntactInv' /\ PlaceInv'
  BY IntactStep, PlaceStep
<1>3. IInv /\ IntactInv /\ PlaceInv /\ [Next]_vars
        => [\A n \in Names : original[n] # None => original'[n] = original[n]]_vars
  BY PlaceStep
<1> QED
  BY <1>1, <1>2, <1>3, Invariance, PTL DEF Spec, NeverOverwritten

=============================================================================
