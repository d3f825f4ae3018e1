# A TLA+ verification of lightnfs

lightnfs is a user-space NFS gateway: it serves NFSv3 and NFSv4.1/4.2 over
TCP from exports that live on local, memory, Gluster, CephFS or Lustre
backends, alone or as one of several gateways over shared storage. This
directory holds TLA+ modules translated from its code, the TLC configurations
that check them on small instances, and proofs that TLAPS checks for every value
of the constants. `PROJECT.json` is the index: for each definition the source
lines it models, for each run its question, and the hazards of the code with the
properties that watch them.

Paths below are relative to the repository's `src/` directory. Line numbers are in
`PROJECT.json`.

## 1. The system

Requests travel down these layers, and each layer calls only the next ones:

    clients
      transport/     listeners, connections, record marking, TLS, callback channel
      rpc/           message header, credentials, dispatch, duplicate request cache
      nfsv3/ nfsv4/ mountd/   the protocol engines
      core/ state/   exports, handles, object locks; NFSv4 state, byte-range locks
      backend/       local, memory, gluster, cephfs, lustre, a fault wrapper
    runtime/         reactors, coroutines, async locks, the offload pool
    server/          the daemon, operator commands, cluster controllers and store

A request is a coroutine on one of several reactor threads. Everything it shares
with other requests is behind an `AsyncMutex` (waiters park as coroutines) or a
plain mutex held for a few lines. Blocking calls go to the offload pool. Operator
commands run on pool threads, the cluster controllers have a timer thread of their
own, and the daemon's main loop runs the work posted to it in order.

### 1.1 Inventory

For each component: its state, its operations, what is hard about it, and what
makes it correct.

| Component | State | Operations | What is hard | Correct when | Module |
|---|---|---|---|---|---|
| Duplicate request cache (`rpc/drc`, `nfsv3/engine`) | per shard: entries, completion order, bytes | begin, complete, abort, purge, flush | retransmissions wait for the first one; TTL and memory eviction; a flush while requests run | a non-idempotent call runs once, the reply is its own, waiters are answered, accounting is exact | `Drc` |
| Session slots (`state/state_mgr`, `nfsv4/engine`) | per session: slots with seqid, in-flight flag, cached reply; bound connections | sequence_begin, _abort, _complete, destruction | retransmission on another connection; seqid wrap; session gone while waiting; exceptions | exactly-once execution, replays are the request's own, no waiter is left | `SessionSlots` |
| Byte-range locks (`state/lock_mgr`) | per file: segments of owners; two counters | lock, test, unlock, release_owner | splitting and merging, to-end-of-file ranges at 2^64-1 | the list means a map from bytes to locks | `LockTable`, `LockCover` |
| Client leases (`state/state_mgr`) | lease expiry, courtesy and expired flags, heap of checks, courtesy counter | renew, arm_lease_check, scan_leases, expire_client | renewal takes none of the scanner's locks | silent clients are reclaimed, returning clients keep their state, the counter is that of the courtesy clients | `Lease` |
| Client records (`state/state_mgr`) | records by id and by owner, sessions, stable list | exchange_id, create_session, confirm, destroy_*, expiry | every operation is several lock sections; a record can be replaced in between; crash between memory and disk | indexes agree, sessions have clients, confirmed clients are on the stable list | `Clients` |
| Open, lock and delegation state (`state/state_mgr`) | stateids, per-file opens, lock owners, delegations, recalls, waiters | open, close_state, open_downgrade, lock, locku, lockt, free_stateid, release_fsid, delegreturn, recall | state unlinked in several sections while another request merges into it; courtesy reclaim in the middle of open | share reservations hold, no lock outlives its stateid, recalls end | planned |
| Grace (`state/state_mgr`) | windows per export or global, reclaim lists | arm_grace, in_grace, note_reclaimed, reclaim_complete, end_grace | lists written outside the locks, early end | only listed clients reclaim, only in the window, which ends | planned |
| Failover controller (`server/cluster_controller`, `daemon`, `main_loop`) | role, epoch, data plane; the shared fence and epoch | tick, activation, draining, operator requests, exit | three threads per gateway and a store that can fail; leases against late timers | two planes never serve one epoch; at most one Active while timers are punctual; someone becomes Active | `Failover` |
| Store lock files (`server/cluster_store`) | `*.lock`, the file it guards | lock, reclaim of a stale lock, unlock | every system call is a step; holders die | read-modify-write is exclusive; a dead holder's lock is reclaimed | `StoreLock` |
| Active-active controller (`server/cluster_controller`) | a role per export, held-off and migrating exports, batched fences, owner records | tick, begin/run activation and draining, migrate, sync_exports, publish | the same threads, times exports that come and go | one owner per export, no export without one for long | planned |
| Export catalog (`server/catalog_*`, `ctl_catalog`, `core/catalog`) | versioned document with history, applied version per node | compare-and-swap commit, poll, apply, retire | concurrent commits, partial apply, restart | versions are linear, all gateways converge | planned |
| Sync primitives (`runtime/sync.hpp`) | wait queues | lock, unlock, wait, notify, post | hand-off to a waiter on another reactor | mutual exclusion, no lost wakeup | planned |
| Offload pool (`runtime/offload_pool`) | ring, overflow list, worker groups | submit, take, stop | overflow against sleeping workers and stop | each job runs once, stop joins | planned |
| Connections (`transport/`) | registry, in-flight counts, callback waiters | accept, read, reply, drain, close | close against requests in flight and callbacks | limits hold, drain ends, a reply reaches its call | planned |
| Object locks, mutation guard (`core/obj_lock`, `core/mutate`) | weak table of locks | get, enter, finish | two locks at once | ordered, so no deadlock | planned |
| Boot epoch, handles, atomic files (`core/`) | files | read, bump | crash between write and rename | epochs grow | planned, small |
| NFSv4 engine (`nfsv4/engine`) | current and saved handle, current stateid | compound and its operations | error paths in a compound | stops at the first error | SEQUENCE path in `SessionSlots` |
| NFSv3 engine, MOUNT, RPC dispatch, XDR | none that outlives a call | translate calls | - | - | not modelled |
| Backends | handle caches, file systems | backend API | foreign libraries | - | not modelled |
| Reactor, rings, buffers, TLS, config, metrics, logs | kernel objects, tables, counters | I/O | - | - | not modelled |

## 2. Modules

Every module is a state machine with one action per handler, or per section of a
handler between two points where others may run. Where that boundary lies is
the main modelling decision and each module's header states it.

**Drc** - one shard of the cache and the engine's use of it. `Begin` is the part of
`begin` up to its wait, `Complete` and `Abort` end a call. `Purge` stands for
TTL and memory eviction, `Flush` is the operator's command.

**SessionSlots** - one session, its slots and the transmissions of a client that
sends a request once per connection and the next when it has the answer, as
RFC 8881 has it. Seqids are taken modulo `SeqMod` (2^32 in the code).
`Throw` is an exception that leaves `Engine::compound`.

**LockTable** - the segment arithmetic of `GatewayLockMgr`: `range_end`, carving,
merging, sorting. `UMax` is UINT64_MAX. **LockCover** is its abstract
specification, a map from bytes to modes per owner; `ImplementsCover` is the
refinement with `cover` read off the segments.

**Lease** - one client and an integer clock. Renewals are split into their atomic
accesses, since `renew` does not take the client shard on SEQUENCE's path; from
EXCHANGE_ID and CREATE_SESSION it runs under that shard, which `ShardFree` keeps
exclusive. The scanner is split by the locks it takes. `Expire` is the section in
which a client leaves the tables; `DestroyClientid`, a lapse in `ScanLock` and
`ExchangeIdDisplaces` (another principal takes the owner over) are the other ways
out.

**Clients** - the records of one owner id, the sessions and the stable list's entry,
with crash and restart. Any operation may begin while others are between two of
their steps. What the known races do is kept in history variables that no action
reads: `ghosts` (records confirmed after they had left the tables), `late` (sessions
inserted after the reclaim of their record), `settled` (CREATE_SESSIONs whose reply
is the cached one) and `eraser` (for which record the stable entry was removed last).

**Failover** - `ClusterController` with its timer thread, operator threads and main
loop on each gateway, and the store's fence and epoch as atomic calls that may
fail. Time is counted in periods of the timer. `Punctual` says that each timer
thread ticks once per period.

**StoreLock** - inside one of those store calls: `lock`, `lock_is_stale` and
`LockGuard` around `bump_epoch`, a system call per step. Failover takes from it that
bumps are distinct, which holds apart from the finding below.

`MC*` modules give the constants their values and hold nothing else.
`*_proof` modules hold the theorems.

## 3. Runs

Passing runs:

| Run | What it shows | Bounds |
|---|---|---|
| `drc` | no two executions of one key at once until a flush (an evicted or aborted call may run again); the completion list names exactly the finished entries; bytes add up; a waiter has an owner and is answered | 4 transmissions over 2 keys: a call with two retransmissions and a call to evict; memory for one large or two small replies; one flush |
| `session_slots` | exactly once, replays are own, the last request is replayable, in-flight slots are owned, waiters are answered | 1 slot (slots are independent), 2 connections, 4 requests modulo 3: the seqid wraps; one exception |
| `lock_table` | normal form, exact counters; refinement of the byte map | 2 owners, a file of 3 bytes: enough for a split, a merge and a neighbour; offsets below UMax |
| `lease` | the heap always holds a check that is early enough; the courtesy counter is exact but for a displaced client; a silent client is reclaimed | 2 threads renewing by SEQUENCE, EXCHANGE_ID or CREATE_SESSION, 1 conflicting request, an operator, a reboot; lease 1, courtesy window 2, scanner late by at most 1; renewals until time 2, clock to 13, past the last deadline |
| `clients` | the owner slot, `by_id` and the count agree, a session in the table has a client, a CREATE_SESSION replay is its own, a confirmed client is on the stable list, each up to the race named below; reboot, new principal and full table included | 2 threads in every interleaving, 2 incarnations, 2 principals, 2 records, 2 sessions, 1 crash: a reboot, a displacement or a replacement while another request is between its steps, and a pipelined CREATE_SESSION |
| `failover` | one Active gateway, no data plane in Standby, the fence released after teardown on exit; some gateway becomes and stays Active | 2 gateways, no operator, lease of 3 periods as in the code, 3 faults (as many renewals as the code lets fail), 1 crash or exit, punctual timers |
| `failover_ctl` | data planes have distinct epochs although timers are late and operators force takeovers; a drain an operator asked for releases the fence after the teardown | 2 gateways, 1 operator thread, 2 requests, 2 takeovers, 1 fault |
| `store_lock` | epochs distinct, a dead holder's lock is reclaimed | 2 gateways, 1 call each, 1 crash, input and output errors at any step |

Deadlock checking is off where every process has a last step under its bounds.

Violation runs, each a disagreement between the code and its own documentation or
comments, quoted in `PROJECT.json`:

| Run | What the trace shows |
|---|---|
| `failover_zombie` | a tick drains an activation before it is posted; the plane comes up in Standby |
| `store_lock_vanish` | a lock that vanished counts as stale; the next holder's lock is unlinked and an epoch is minted twice |
| `lease_revive` | a client whose lease is stored before the scanner looks at it and whose courtesy is cleared after the scanner collected it loses its state |
| `clients_replaced` | a record replaced between lookup and lock becomes the confirmed one |

### Limits of the passing runs

Some properties hold only up to a case that the model contains and that the
property or the bounds name. Each is a place where the code does something its
readers may not expect:

- *Drc*: after a flush a retransmission can claim the key again; the flushed owner's
  reply is then stored into that new entry. `NoConcurrentExecution` is stated up to
  the first flush.
- *LockTable*: `LastOffset < UMax`. A lock at offset 2^64-1 to end of file becomes
  the empty segment [2^64-1, 2^64-1) and conflicts with nothing. Also, `unlock`
  leaves the list unsorted after a split; nothing but the order of conflict reports
  depends on the order.
- *SessionSlots*: `LastIsReplayed` excepts seqid 0, which the code takes for an unused
  slot, so the replay of request 2^32 is refused. `WaiterAnswered` excepts a compound
  that ended in an exception: its slot stays in flight until the session goes.
- *Lease*: a renewal between the scanner's recheck and its mark leaves a live client in
  courtesy until its next SEQUENCE.
- *Lease* again: `exchange_id` from another principal removes an idle record and leaves
  its courtesy flag and its share of `courtesy_count_` as they are. A client that went
  courtesy, then destroyed its last session, then was displaced stays counted until the
  process ends; `CourtesyCounted` excepts it by the history flag `displaced`.
- *Clients*: `create_session` does not look its record up again once it has the shard,
  nor between its two sections. A record that left the tables meanwhile can become the
  confirmed one (`SlotIsIndexedButGhosts`, `clients_replaced`), and a session can be
  inserted for a record whose reclaim has passed and stays (`SessionHasClient`, `late`).
  A CREATE_SESSION retransmitted before its reply is cached gets an empty or an older
  one, and an older one still running may cache its reply over a newer one's
  (`ReplayIsOwn`, `settled`). The stable list has one entry per owner id, so removing any
  record of the owner, the replaced incarnation included, takes a client that is back off
  the list (`ConfirmedIsListed`, `eraser`).
- *Failover*: `StandbyServesNothing` is for gateways that the ticks alone move; with an
  operator's takeover `failover_zombie` breaks it, and `ReleasedAfterTeardown` therefore
  excepts a failed activation that hands back its own fence.
- *StoreLock*: `store_lock` allows one call per gateway; with two the race of
  `store_lock_vanish` occurs. Only a dead gateway's lock grows old.

### Fairness

Weak fairness is assumed only of steps that a thread or coroutine takes by itself.
A notified waiter runs, since it is queued on a reactor; a handler ends
(`Complete`, `Abort` or, where allowed, `Throw`), since backend calls return; the
lease scanner is a loop over a timer; the timer thread ticks and the main loop
takes posted work; time passes. None of it says that a client sends, that an
operator acts, or that a fault does not occur. Faults and crashes are bounded, so
the liveness results read: after the last fault. `StoreLock` needs strong
fairness for `GiveUp`: the deadline of a waiting caller is a clock's, and ends the
wait however often the lock changes hands. `Lease` needs it for `ScanLock`:
`AsyncMutex` hands the shard to its waiters in turn.

## 4. Proofs

| Theorem | For every | Inductive invariant |
|---|---|---|
| `SessionSlots_proof!ExactlyOnceThm`, `InFlightOwnedThm` | number of slots, connections, requests and exceptions, and modulus above 2 | below |
| `Failover_proof!EpochsDistinctThm`, `TypeCorrect` | sets of gateways and operator threads, lease length, punctuality, faults, crashes | below |

*SessionSlots.* `ExactlyOnce` is not inductive: a slot knows only seqids modulo
`SeqMod`. `IInv` adds that a client sends a request after the answer to the one
before (`ClientInStep`, `LastWasSent`), so every pending transmission is the last
answered request or the next one (`Window`); that a slot's seqid is that of the
last answered request (`SlotInStep`); that one compound owns a slot in flight
(`OneOwner`); and that requests beyond the last have not run, except behind a slot
that an exception blocked (`RunsInStep`). Two neighbours differ modulo any number
above 1 (`ModStep`), so `ClaimIsNext`: what claims the slot is the next request.
There is one lemma per action.

*Failover.* `EpochsDistinct` speaks of data planes, but an epoch travels from
`bump_epoch` through a thread's local, a posted item and the main loop's local to
the plane. `Held(n)` is the set of all epochs a gateway has in these places; `IInv`
says none is above the store's (`Minted`) and no two gateways share one
(`Unshared`). `KeepsInv` reduces the actions that mint nothing to
`Held(n)' \subseteq Held(n) \cup {0}`; `BumpStep` is the one that mints. The
argument uses no timing, so epochs stay distinct even when leases do not protect
the planes; it takes `bump_epoch` to be atomic, see `StoreLock`.

The assumptions are the `ASSUME`s of the two modules, which TLC evaluates in every
run. Left to TLC: liveness, since the prover has no support for fairness and
ENABLED; refinement and arithmetic over whole lists, which need induction over
sequences; and the properties of `Drc`, `Lease`, `Clients` and `StoreLock` for now.

## 5. What is left out

Data is abstracted to what properties tell apart: replies are named by their
request, keys and owners are values. Encodings, attributes and file contents are
absent. In `Clients` the store never fails and `per_fsid_reclaim` is off. In
`Failover` the contents of a data plane and the takeover hook's effect on the
storage are absent. In `Lease` time is integer and the relaxed atomics are
sequentially consistent, since every one is a single word and the findings need no
reordering. Components marked "not modelled" in 1.1 keep no state across calls
or are interfaces to the kernel and to foreign libraries.

## 6. Plan

In this order; the open hazards in `PROJECT.json` name the module that will cover
them.

1. `StateTable`: stateids of one file, by lock section: open, close, lock, unlock,
   free, release_fsid, expiry. Composes with `LockTable`'s abstract map.
   Properties: no lock without a live stateid, share reservations, a
   returned stateid is live until closed. Abstract specification: an atomic table.
2. `Delegation`: grant, recall, DELEGRETURN, deadline. Recalls end.
3. `Grace`: windows and reclaim lists with restart, composed with `Clients`.
4. `FsController`: per-export roles over batched fences; one owner per export,
   every export is taken. Its epochs refine the argument of `Failover`.
5. `AsyncSync`, `OffloadPool`, `ObjLock`: exclusion, no lost wakeup, no deadlock;
   the abstract mutex as refinement target.
6. `Connection`, `Catalog`: limits, drain, linear versions, convergence.
7. Proofs: `Drc` (`CompletedIsDone`, `NoConcurrentExecution`, `WaiterHasOwner`),
   `SessionSlots` (`ReplayIsOwn`), `Lease` (`NoticedOnTime`), `AsyncSync`, then the
   new modules' main invariants.
