----------------------------- MODULE FolderLease -----------------------------
(***************************************************************************)
(* What the lock table promises the rest of openci-tf, without closers,    *)
(* ownership rows or DynamoDB calls: a folder is leased to one run at a    *)
(* time; another run gets it only after the lease was given up or has      *)
(* expired; and while a run has not ended, its lease is not given up.      *)
(***************************************************************************)
EXTENDS Integers

CONSTANTS
  Runs,     \* outer executions
  Folders,  \* lock keys
  None      \* no lease

VARIABLES
  now,    \* wall clock
  lease,  \* the run a folder is leased to, and until when
  ended   \* runs that have stopped working on their folders

vars == <<now, lease, ended>>

Init ==
  /\ now = 0
  /\ lease = [f \in Folders |-> None]
  /\ ended = {}

\* Time passes.
Tick ==
  /\ now' \in Nat
  /\ now' > now
  /\ UNCHANGED <<lease, ended>>

\* A run obtains a lease nobody holds, or one that has expired.
Grant(r, f) ==
  /\ lease[f] # None => lease[f].until < now
  /\ lease'[f] # None
  /\ lease'[f].until \in Nat
  /\ lease' = [lease EXCEPT ![f] = [run |-> r, until |-> lease'[f].until]]
  /\ UNCHANGED <<now, ended>>

\* A lease goes when its run has ended or its time is over.
Release(f) ==
  /\ lease[f] # None
  /\ lease[f].run \in ended \/ lease[f].until < now
  /\ lease' = [lease EXCEPT ![f] = None]
  /\ UNCHANGED <<now, ended>>

\* A run ends: it succeeded, failed, or was aborted.
Finish(r) ==
  /\ ended' = ended \cup {r}
  /\ UNCHANGED <<now, lease>>

Next ==
  \/ Tick
  \/ \E r \in Runs, f \in Folders : Grant(r, f)
  \/ \E f \in Folders : Release(f)
  \/ \E r \in Runs : Finish(r)

Spec == Init /\ [][Next]_vars
=============================================================================
