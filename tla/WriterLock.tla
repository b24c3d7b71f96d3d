----------------------------- MODULE WriterLock -----------------------------
(***************************************************************************)
(* InterProcessLock of src/forward_operations.py, the lock that every      *)
(* command writing the paper database holds: an operating-system lock on a *)
(* file, tried until a deadline, and a sidecar file that names the owner.  *)
(* The operating system frees the lock of a dead process; its sidecar      *)
(* stays.                                                                   *)
(*                                                                         *)
(* A process takes the lock once; a later run of a command is another      *)
(* process, with another token.                                            *)
(***************************************************************************)
EXTENDS Integers

CONSTANTS
    Process,   \* processes, each with the token it draws
    None       \* no process, no sidecar

ASSUME NoneAssumption == None \notin Process

VARIABLES
    holder,    \* process that holds the operating-system lock
    sidecar,   \* token in the owner file, or None if there is no file
    stale,     \* the token each process found when it took the lock
    pc         \* where each process stands

vars == <<holder, sidecar, stale, pc>>

Places == {"trying", "locked", "working", "released", "unlinking", "done",
           "busy", "dead"}

TypeOK ==
    /\ holder \in Process \cup {None}
    /\ sidecar \in Process \cup {None}
    /\ stale \in [Process -> Process \cup {None}]
    /\ pc \in [Process -> Places]

Init ==
    /\ holder = None
    /\ sidecar = None
    /\ stale = [p \in Process |-> None]
    /\ pc = [p \in Process |-> "trying"]

Go(p, place) == pc' = [pc EXCEPT ![p] = place]

-----------------------------------------------------------------------------
(* __enter__ *)

\* The operating system grants the lock to one process at a time; the sidecar
\* that is there was left by an earlier owner.
TryLock(p) ==
    /\ pc[p] = "trying"
    /\ holder = None
    /\ holder' = p
    /\ stale' = [stale EXCEPT ![p] = sidecar]
    /\ Go(p, "locked")
    /\ UNCHANGED sidecar

\* The deadline passes while another process holds the lock: AlreadyRunningError.
GiveUp(p) ==
    /\ pc[p] = "trying"
    /\ holder # None
    /\ Go(p, "busy")
    /\ UNCHANGED <<holder, sidecar, stale>>

\* Mutant: a sidecar that is there is left alone.
WriteOwnerIfAbsent(p) ==
    /\ pc[p] = "locked"
    /\ sidecar' = IF sidecar = None THEN p ELSE sidecar
    /\ Go(p, "working")
    /\ UNCHANGED <<holder, stale>>

\* A temporary file replaces the sidecar.
WriteOwner(p) ==
    /\ pc[p] = "locked"
    /\ sidecar' = p
    /\ Go(p, "working")
    /\ UNCHANGED <<holder, stale>>

\* Mutant: the exception is lost, and the process goes on without the lock.
WriteOwnerFailureLost(p) ==
    /\ pc[p] = "locked"
    /\ holder' = None
    /\ Go(p, "working")
    /\ UNCHANGED <<sidecar, stale>>

\* The sidecar cannot be written: __exit__ and the exception.
WriteOwnerFails(p) ==
    /\ pc[p] = "locked"
    /\ holder' = None
    /\ Go(p, "released")
    /\ UNCHANGED <<sidecar, stale>>

(* __exit__ *)

\* The operating-system lock goes first, the sidecar afterwards.
Unlock(p) ==
    /\ pc[p] = "working"
    /\ holder' = None
    /\ Go(p, "released")
    /\ UNCHANGED <<sidecar, stale>>

\* The sidecar is removed only if it carries this owner's token.
ReadOwner(p) ==
    /\ pc[p] = "released"
    /\ Go(p, IF sidecar = p THEN "unlinking" ELSE "done")
    /\ UNCHANGED <<holder, sidecar, stale>>

Unlink(p) ==
    /\ pc[p] = "unlinking"
    /\ sidecar' = None
    /\ Go(p, "done")
    /\ UNCHANGED <<holder, stale>>

\* The process dies; the operating system frees what it holds.
Die(p) ==
    /\ pc[p] \notin {"done", "busy", "dead"}
    /\ holder' = IF holder = p THEN None ELSE holder
    /\ Go(p, "dead")
    /\ UNCHANGED <<sidecar, stale>>

Step(p) ==
    \/ TryLock(p) \/ WriteOwner(p) \/ WriteOwnerFails(p)
    \/ Unlock(p) \/ ReadOwner(p) \/ Unlink(p)

Next == \E p \in Process : Step(p) \/ GiveUp(p) \/ Die(p)

Spec == Init /\ [][Next]_vars

-----------------------------------------------------------------------------
(* Correctness properties *)

Inside(p) == pc[p] \in {"locked", "working"}

\* One writer at a time, and the operating-system lock is held by it: the other
\* modules' one session rests on this.
OneWriter ==
    \A p \in Process : Inside(p) <=> holder = p

\* From the moment the holder has written the sidecar until it unlocks, the sidecar
\* names it or is gone.  A live process that the sidecar names works or is on its way
\* out; it has not left, does not wait and was not turned away.  On its way out it
\* may be named while its successor has the lock but has not written yet.
SidecarNamesOwnerOrLeaver ==
    \A p \in Process :
        /\ pc[p] = "working" => sidecar \in {p, None}
        /\ sidecar = p => pc[p] \in {"working", "released", "unlinking", "dead"}

\* A process whose sidecar was taken over was gone, or gone past its unlock.
StaleOwnerIsGone ==
    \A p \in Process : stale[p] # None =>
        pc[stale[p]] \in {"released", "unlinking", "done", "dead"}

-----------------------------------------------------------------------------
(* What the repository says and the code does not do *)

\* InterProcessLock's docstring: "auditable owner metadata"; docs/operations.md:
\* the owner evidence of an active process is not deleted.
SidecarNamesWriter ==
    \A p \in Process : pc[p] = "working" => sidecar = p

=============================================================================
