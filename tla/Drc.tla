-------------------------------- MODULE Drc --------------------------------
(***************************************************************************)
(* One shard of the NFSv3 duplicate request cache (rpc/drc.cpp) together   *)
(* with the part of the NFSv3 engine that uses it (nfsv3/engine.cpp,       *)
(* Engine::dispatch).  Shards share nothing but counters, so one shard is  *)
(* the whole cache.                                                        *)
(*                                                                         *)
(* A transmission (a member of Req) carries a key.  Every method of Drc    *)
(* runs under the shard's AsyncMutex, which is dropped only by             *)
(* AsyncCondVar::wait, so a method (or the part of begin between two       *)
(* waits) is one step.                                                     *)
(***************************************************************************)
EXTENDS Naturals, Sequences, FiniteSetsExt

CONSTANTS
  Req,        \* transmissions of non-idempotent calls, retransmissions included
  Key,        \* Drc::Key values that fall in this shard
  KeyOf,      \* the key a transmission carries
  Sizes,      \* sizes a captured reply may have (Capture, never empty)
  MaxMemory,  \* cfg_.max_memory / kShards
  MaxFlush    \* bound on operator flushes

ASSUME DrcAssumption ==
  /\ KeyOf \in [Req -> Key]
  /\ Sizes \subseteq Nat \ {0}
  /\ MaxMemory \in Nat
  /\ MaxFlush \in Nat

VARIABLES
  shard,      \* the Shard: entries (status, size), completed, bytes
  pc,         \* where each transmission is
  flushes     \* flushes so far

vars == <<shard, pc, flushes>>

\* status is "miss" for a key without an entry, "progress" for !done.  size is the
\* length of a done entry's reply.
Shard == [status : [Key -> {"miss", "progress", "done"}],
          size : [Key -> Nat],
          completed : Seq(Key),
          bytes : Nat]

EmptyShard == [status |-> [k \in Key |-> "miss"],
               size |-> [k \in Key |-> 0],
               completed |-> <<>>,
               bytes |-> 0]

\* "queued" sits in the condition variable's list, "notified" has been popped from it
\* and is to take the mutex again, "exec" owns the key and runs the procedure.
PC == {"new", "queued", "notified", "exec", "end"}

\* The variables keep their types.
TypeOK ==
  /\ shard \in Shard
  /\ pc \in [Req -> PC]
  /\ flushes \in 0..MaxFlush

Init ==
  /\ shard = EmptyShard
  /\ pc = [r \in Req |-> "new"]
  /\ flushes = 0
-----------------------------------------------------------------------------
\* The n oldest completed keys.
Oldest(sh, n) == {sh.completed[i] : i \in 1..n}

SizeSum(sh, ks) == MapThenSumSet(LAMBDA k : sh.size[k], ks)

\* Faulty: purge leaves the shard one byte over its cap.
PurgeStopsLate(sh, e, n) ==
  LET Over(i) == sh.bytes > MaxMemory + 1 + SizeSum(sh, Oldest(sh, i))
  IN  /\ n >= e
      /\ n > e => Over(n - 1)
      /\ n < Len(sh.completed) => ~Over(n)

\* purge pops the front while it has expired or the shard is over its memory cap.
\* Completion stamps are ordered, so the expired entries are the e oldest.
PurgeStops(sh, e, n) ==
  LET Over(i) == sh.bytes > MaxMemory + SizeSum(sh, Oldest(sh, i))
  IN  /\ n >= e
      /\ n > e => Over(n - 1)
      /\ n < Len(sh.completed) => ~Over(n)

\* Faulty: an evicted entry's bytes are given back twice.
PurgedTwice(sh, n) ==
  LET gone == Oldest(sh, n)
  IN  [status |-> [k \in Key |-> IF k \in gone THEN "miss" ELSE sh.status[k]],
       size |-> [k \in Key |-> IF k \in gone THEN 0 ELSE sh.size[k]],
       completed |-> SubSeq(sh.completed, n + 1, Len(sh.completed)),
       bytes |-> sh.bytes - 2 * SizeSum(sh, gone)]

\* The shard once purge has popped its n oldest keys.
Purged(sh, n) ==
  LET gone == Oldest(sh, n)
  IN  [status |-> [k \in Key |-> IF k \in gone THEN "miss" ELSE sh.status[k]],
       size |-> [k \in Key |-> IF k \in gone THEN 0 ELSE sh.size[k]],
       completed |-> SubSeq(sh.completed, n + 1, Len(sh.completed)),
       bytes |-> sh.bytes - SizeSum(sh, gone)]

\* purge for every number of entries whose TTL may have run out.
Purge(sh) ==
  {Purged(sh, n) : n \in {m \in 0..Len(sh.completed) :
                            \E e \in 0..Len(sh.completed) : PurgeStops(sh, e, m)}}

\* Faulty: nobody is woken.
NotifiedNone(p) == p

\* cv.notify_all: every waiter of the shard, whatever its key, checks again.
Notified(p) == [q \in Req |-> IF p[q] = "queued" THEN "notified" ELSE p[q]]

\* Faulty: any entry without a reply is taken for a missing one.
ClaimableUnlessDone(sh, k) == sh.status[k] # "done"

\* begin claims a key that has no entry.
Claimable(sh, k) == sh.status[k] = "miss"

\* begin: purge, then claim a missing key, replay a done one, or wait for the owner.
Begin(r) ==
  /\ pc[r] \in {"new", "notified"}
  /\ \E sh \in Purge(shard) :
       \/ /\ Claimable(sh, KeyOf[r])
          /\ shard' = [sh EXCEPT !.status[KeyOf[r]] = "progress"]
          /\ pc' = [pc EXCEPT ![r] = "exec"]
       \/ /\ sh.status[KeyOf[r]] = "done"
          /\ shard' = sh
          /\ pc' = [pc EXCEPT ![r] = "end"]
       \/ /\ sh.status[KeyOf[r]] = "progress"
          /\ shard' = sh
          /\ pc' = [pc EXCEPT ![r] = "queued"]
  /\ UNCHANGED flushes

\* The shard with r's reply of s bytes stored under its key.
Stored(sh, r, s) ==
  [status |-> [sh.status EXCEPT ![KeyOf[r]] = "done"],
   size |-> [sh.size EXCEPT ![KeyOf[r]] = s],
   completed |-> Append(sh.completed, KeyOf[r]),
   bytes |-> sh.bytes + s]

\* Faulty: complete does not look whether the entry already holds a reply.
StoresAlways(sh, k) == sh.status[k] # "miss"

\* complete stores into an entry that exists and is not done.
Stores(sh, k) == sh.status[k] = "progress"

\* complete: the procedure produced a reply; it is stored if the key has an unfinished
\* entry, and every waiter is woken either way.
Complete(r) ==
  /\ pc[r] = "exec"
  /\ \/ /\ Stores(shard, KeyOf[r])
        /\ \E s \in Sizes : shard' \in Purge(Stored(shard, r, s))
     \/ /\ ~Stores(shard, KeyOf[r])
        /\ UNCHANGED shard
  /\ pc' = Notified([pc EXCEPT ![r] = "end"])
  /\ UNCHANGED flushes

\* abort: an exception or GARBAGE_ARGS left no reply; an unfinished entry is dropped.
Abort(r) ==
  /\ pc[r] = "exec"
  /\ shard' = [shard EXCEPT !.status[KeyOf[r]] = IF @ = "progress" THEN "miss" ELSE @]
  /\ pc' = Notified([pc EXCEPT ![r] = "end"])
  /\ UNCHANGED flushes

\* flush (lightnfs-ctl drc flush): every entry goes, finished or not.
Flush ==
  /\ flushes < MaxFlush
  /\ shard' = EmptyShard
  /\ pc' = Notified(pc)
  /\ flushes' = flushes + 1

Next ==
  \/ \E r \in Req : Begin(r) \/ Complete(r) \/ Abort(r)
  \/ Flush

\* A woken waiter gets the mutex (AsyncMutex hands it on in FIFO order) and a running
\* procedure returns or throws; nothing makes clients transmit or operators flush.
Fairness ==
  \A r \in Req : /\ WF_vars(pc[r] = "notified" /\ Begin(r))
                 /\ WF_vars(Complete(r) \/ Abort(r))

Spec == Init /\ [][Next]_vars

FairSpec == Spec /\ Fairness
-----------------------------------------------------------------------------
DoneKeys == {k \in Key : shard.status[k] = "done"}

\* completed lists exactly the finished entries, each once.  purge looks a popped key up
\* in entries and erases what it finds, so a stale or doubled key in the list would make
\* it drop an entry that is in progress or that has not expired.
CompletedIsDone ==
  /\ Oldest(shard, Len(shard.completed)) = DoneKeys
  /\ \A i, j \in 1..Len(shard.completed) :
       shard.completed[i] = shard.completed[j] => i = j

\* bytes is what the finished entries hold, and is within the cap whenever the shard's
\* mutex is free: the unsigned counter never wraps and the cache never outgrows its cap.
BytesExact ==
  /\ shard.bytes = SizeSum(shard, DoneKeys)
  /\ shard.bytes <= MaxMemory

\* drc.hpp: a retransmission "waits on the original - never concurrent re-execution".
\* Until an operator flushes the cache, no key has two running owners, and the owner's
\* entry is still there, unfinished, for its own reply.
NoConcurrentExecution ==
  flushes = 0 =>
    \A r \in Req : pc[r] = "exec" =>
      /\ shard.status[KeyOf[r]] = "progress"
      /\ \A q \in Req : pc[q] = "exec" /\ KeyOf[q] = KeyOf[r] => q = r

\* A wait always has someone to end it: while a transmission is queued for a key, some
\* transmission is running that will notify the shard.
WaiterHasOwner ==
  \A r \in Req : pc[r] = "queued" => \E q \in Req : pc[q] = "exec" /\ KeyOf[q] = KeyOf[r]

\* A transmission that found its key in progress is answered in the end, whether the
\* owner completes, aborts, or loses its entry to a flush.
WaiterAnswered == \A r \in Req : pc[r] = "queued" ~> pc[r] = "end"
=============================================================================
