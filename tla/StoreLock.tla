----------------------------- MODULE StoreLock -----------------------------
(***************************************************************************)
(* The lock files of PosixClusterStore (server/cluster_store.cpp, lock,    *)
(* lock_is_stale, LockGuard) around bump_epoch: one lock file, one counter *)
(* file, and gateways that call bump_epoch.                                *)
(*                                                                         *)
(* A step is one system call.  mu_ keeps the threads of a gateway apart,   *)
(* so a gateway makes one call at a time.  A lock file is told from its    *)
(* successors by who created it, since a caller holds one at a time.  Time *)
(* is abstracted: a lock file may grow older than stale_lock_after only    *)
(* when its creator is dead, and the 100 ms a caller waits may end at any  *)
(* moment.                                                                 *)
(***************************************************************************)
EXTENDS Naturals, Sequences, FiniteSets, Functions

CONSTANTS
  Proc,      \* gateways sharing the directory
  MaxCalls,  \* calls each of them makes
  MaxCrash,  \* bound on crashes
  NoFile     \* the lock file does not exist

ASSUME StoreLockAssumption ==
  /\ MaxCalls \in Nat /\ MaxCrash \in Nat
  /\ NoFile \notin [creator : Proc, stamped : BOOLEAN, old : BOOLEAN]

VARIABLES
  file,       \* epoch.lock: who created it, is the stamp written, is it too old
  counter,    \* the epoch file
  pc,         \* where each gateway is
  read,       \* what it read from the counter
  reclaimed,  \* lock()'s local: it has unlinked a stale lock once
  failed,     \* has an input or output error ended its call
  calls,      \* calls made
  crashes,    \* crashes so far
  minted      \* history: the epochs returned, in order

vars == <<file, counter, pc, read, reclaimed, failed, calls, crashes, minted>>

PC == {"idle", "open", "stamp", "peek", "stat", "unlink", "wait", "read", "write", "unlock", "dead"}

\* The variables keep their types.
TypeOK ==
  /\ file \in [creator : Proc, stamped : BOOLEAN, old : BOOLEAN] \cup {NoFile}
  /\ counter \in 0 .. Cardinality(Proc) * MaxCalls
  /\ pc \in [Proc -> PC]
  /\ read \in [Proc -> Nat]
  /\ reclaimed \in [Proc -> BOOLEAN] /\ failed \in [Proc -> BOOLEAN]
  /\ calls \in [Proc -> 0 .. MaxCalls]
  /\ crashes \in 0 .. MaxCrash
  /\ minted \in Seq(Nat)

Init ==
  /\ file = NoFile /\ counter = 0
  /\ pc = [p \in Proc |-> "idle"]
  /\ read = [p \in Proc |-> 0]
  /\ reclaimed = [p \in Proc |-> FALSE] /\ failed = [p \in Proc |-> FALSE]
  /\ calls = [p \in Proc |-> 0]
  /\ crashes = 0
  /\ minted = <<>>

Goto(p, l) == pc' = [pc EXCEPT ![p] = l]

----------------------------------------------------------------------------
(* lock(). *)

Call(p) ==
  /\ pc[p] = "idle" /\ calls[p] < MaxCalls
  /\ calls' = [calls EXCEPT ![p] = @ + 1]
  /\ reclaimed' = [reclaimed EXCEPT ![p] = FALSE] /\ failed' = [failed EXCEPT ![p] = FALSE]
  /\ Goto(p, "open")
  /\ UNCHANGED <<file, counter, read, crashes, minted>>

\* Faulty: open without O_EXCL.
CreatableAlways == TRUE

\* O_CREAT | O_EXCL.
Creatable == file = NoFile

\* open(O_CREAT | O_EXCL): the lock is ours, or there is one (EEXIST).  A second attempt to
\* reclaim is not made.
Open(p) ==
  /\ pc[p] = "open"
  /\ IF Creatable
       THEN file' = [creator |-> p, stamped |-> FALSE, old |-> FALSE] /\ Goto(p, "stamp")
       ELSE UNCHANGED file /\ Goto(p, IF reclaimed[p] THEN "wait" ELSE "peek")
  /\ UNCHANGED <<counter, read, reclaimed, failed, calls, crashes, minted>>

\* The stamp goes to the file we created, which the path may no longer name.
Stamp(p) ==
  /\ pc[p] = "stamp"
  /\ file' = IF file # NoFile /\ file.creator = p THEN [file EXCEPT !.stamped = TRUE] ELSE file
  /\ Goto(p, "read")
  /\ UNCHANGED <<counter, read, reclaimed, failed, calls, crashes, minted>>

\* lock_is_stale: the stamp tells the age; no file or no stamp falls back to stat.
Peek(p) ==
  /\ pc[p] = "peek"
  /\ Goto(p, IF file = NoFile \/ ~file.stamped THEN "stat" ELSE IF file.old THEN "unlink" ELSE "wait")
  /\ UNCHANGED <<file, counter, read, reclaimed, failed, calls, crashes, minted>>

\* Faulty: a lock without a stamp is never stale.
StaleStampedOnly == file = NoFile

\* lock_is_stale after stat: a file that is gone (ENOENT) is answered as stale.
StaleByStat == file = NoFile \/ file.old

Stat(p) ==
  /\ pc[p] = "stat"
  /\ Goto(p, IF StaleByStat THEN "unlink" ELSE "wait")
  /\ UNCHANGED <<file, counter, read, reclaimed, failed, calls, crashes, minted>>

\* Reclaiming: the path is unlinked, whatever it names by now.
Reclaim(p) ==
  /\ pc[p] = "unlink"
  /\ file' = NoFile
  /\ reclaimed' = [reclaimed EXCEPT ![p] = TRUE]
  /\ Goto(p, "open")
  /\ UNCHANGED <<counter, read, failed, calls, crashes, minted>>

\* Sleep 5 ms and try again, or past the deadline answer EBUSY.
Retry(p) ==
  /\ pc[p] = "wait" /\ Goto(p, "open")
  /\ UNCHANGED <<file, counter, read, reclaimed, failed, calls, crashes, minted>>
GiveUp(p) ==
  /\ pc[p] = "wait" /\ Goto(p, "idle")
  /\ UNCHANGED <<file, counter, read, reclaimed, failed, calls, crashes, minted>>

----------------------------------------------------------------------------
(* bump_epoch under the lock. *)

ReadCounter(p) ==
  /\ pc[p] = "read"
  /\ read' = [read EXCEPT ![p] = counter]
  /\ Goto(p, "write")
  /\ UNCHANGED <<file, counter, reclaimed, failed, calls, crashes, minted>>

\* Faulty: the counter skips.
AdvancedTwice(p) == read[p] + 2

\* The epoch after the one read.
Advanced(p) == read[p] + 1

\* atomic_write_file, whose value bump_epoch returns.
WriteCounter(p) ==
  /\ pc[p] = "write"
  /\ counter' = Advanced(p)
  /\ minted' = Append(minted, Advanced(p))
  /\ Goto(p, "unlock")
  /\ UNCHANGED <<file, read, reclaimed, failed, calls, crashes>>

\* ~LockGuard unlinks the path, whoever's file it names by now.
Unlock(p) ==
  /\ pc[p] = "unlock"
  /\ file' = NoFile
  /\ Goto(p, "idle")
  /\ UNCHANGED <<counter, read, reclaimed, failed, calls, crashes, minted>>

\* open fails with an error other than EEXIST, or read_epoch or atomic_write_file fails under
\* the lock: the call answers the error, and ~LockGuard runs if there is a guard.
Fail(p) ==
  /\ \/ pc[p] = "open" /\ Goto(p, "idle")
     \/ pc[p] \in {"read", "write"} /\ Goto(p, "unlock")
  /\ failed' = [failed EXCEPT ![p] = TRUE]
  /\ UNCHANGED <<file, counter, read, reclaimed, calls, crashes, minted>>

----------------------------------------------------------------------------

Crash(p) ==
  /\ pc[p] # "dead" /\ crashes < MaxCrash
  /\ crashes' = crashes + 1
  /\ Goto(p, "dead")
  /\ UNCHANGED <<file, counter, read, reclaimed, failed, calls, minted>>

\* stale_lock_after passes over a dead gateway's lock.
Age ==
  /\ file # NoFile /\ ~file.old /\ pc[file.creator] = "dead"
  /\ file' = [file EXCEPT !.old = TRUE]
  /\ UNCHANGED <<counter, pc, read, reclaimed, failed, calls, crashes, minted>>

Step(p) ==
  \/ Open(p) \/ Stamp(p) \/ Peek(p) \/ Stat(p) \/ Reclaim(p) \/ Retry(p)
  \/ ReadCounter(p) \/ WriteCounter(p) \/ Unlock(p)

Next == Age \/ \E p \in Proc : Call(p) \/ Step(p) \/ GiveUp(p) \/ Fail(p) \/ Crash(p)

Spec == Init /\ [][Next]_vars

\* A living gateway goes on and its wait ends; calls, errors and crashes need not come.
FairSpec ==
  /\ Spec /\ WF_vars(Age)
  /\ \A p \in Proc : WF_vars(Step(p)) /\ SF_vars(GiveUp(p))

----------------------------------------------------------------------------
(* Properties. *)

\* bump_epoch never returns the same epoch twice (cluster_store.hpp, "bump_epoch is
\* serialized"): the lock file keeps read and write of the counter together.
BumpsDistinct == IsInjective(minted)

\* A gateway that died inside bump_epoch, at whatever step, does not keep the other out:
\* once its lock is old, a call that starts over it (lock's first open) bumps the epoch
\* instead of answering EBUSY, unless an input or output error ends it.
DeadLockReclaimed ==
  \A p \in Proc :
    (pc[p] = "open" /\ ~reclaimed[p] /\ file # NoFile /\ file.old) ~> (pc[p] \in {"unlock", "dead"} \/ failed[p])
=============================================================================
