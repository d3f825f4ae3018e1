------------------------------- MODULE Lease -------------------------------
(***************************************************************************)
(* The lease of one confirmed client (state/state_mgr.cpp): renew, the     *)
(* expiry heap with arm_lease_check, scan_leases, the client-shard section *)
(* of expire_client_impl, and what exchange_id, create_session and the     *)
(* destroy operations do to the lease.                                     *)
(*                                                                         *)
(* renew runs on SEQUENCE threads under a session shard, so it interleaves *)
(* with the scanner even while the scanner holds the client's shard; in    *)
(* exchange_id and create_session it runs under the client shard.  A step  *)
(* is one access to a shared atomic, one section under the heap mutex or   *)
(* one section under the client shard.  The heap is a set of deadlines:    *)
(* equal ones are popped together.  Other clients only delay the scanner,  *)
(* which may pause between any two steps as it is.                         *)
(***************************************************************************)
EXTENDS Integers, FiniteSets

CONSTANTS
  Renewer,     \* threads that run SEQUENCE, EXCHANGE_ID or CREATE_SESSION for the client
  Conflicter,  \* threads whose OPEN or LOCK meets the client's state
  LeaseTime,   \* lease_seconds
  Window,      \* courtesy_window
  Lag,         \* bound: a pass begins and ends this many seconds late at most
  RenewUntil,  \* bound: the client falls silent after this second
  MaxTime,     \* bound: the clock stops here
  Forced       \* TRUE: operators may expire the client, and it may reboot

ASSUME LeaseAssumption ==
  /\ LeaseTime \in Nat \ {0} /\ Window \in Nat \ {0}
  /\ RenewUntil \in Nat /\ Lag \in Nat
  /\ MaxTime \in Nat /\ MaxTime > RenewUntil + LeaseTime + Window + 4 * Lag
  /\ Forced \in BOOLEAN

VARIABLES
  now,       \* now_coarse()
  expiry,    \* lease_expiry
  courtesy,  \* courtesy
  since,     \* courtesy_since
  count,     \* courtesy_count_
  indexed,   \* in by_id and client_idx_
  expired,   \* the reclaim chain has begun
  idle,      \* sessions and states are empty
  deadline,  \* lease_heap_deadline, -1 when none
  heap,      \* the client's entries of lease_heap_
  scan,      \* where the scanner is, and its `now`
  renewing,  \* where each renewing request is, its expiry, and whether it holds the shard
  meeting,   \* has a conflicting request seen a courtesy client
  displaced  \* history: exchange_id gave the owner to another principal

record == <<expiry, courtesy, since, count>>
tables == <<indexed, expired, idle>>
armed == <<deadline, heap>>
vars == <<now, expiry, courtesy, since, count, indexed, expired, idle, deadline, heap, scan, renewing, meeting, displaced>>

Time == 0 .. MaxTime + LeaseTime + Window

\* The variables keep their types.
TypeOK ==
  /\ now \in 0 .. MaxTime
  /\ expiry \in Time /\ since \in Time
  /\ courtesy \in BOOLEAN
  /\ count \in -1 .. 1
  /\ indexed \in BOOLEAN /\ expired \in BOOLEAN /\ idle \in BOOLEAN
  /\ deadline \in Time \cup {-1}
  /\ heap \subseteq Time
  /\ scan \in [pc : {"sleep", "check", "expiry", "lock", "mark", "count", "expire"}, now : Time]
  /\ renewing \in [Renewer -> [pc : {"none", "found", "revive", "arm"}, e : Time, shard : BOOLEAN]]
  /\ meeting \in [Conflicter -> BOOLEAN]
  /\ displaced \in BOOLEAN

Free == [pc |-> "none", e |-> 0, shard |-> FALSE]

\* A client just registered, confirmed and given a session.
Init ==
  /\ now = 0 /\ expiry = LeaseTime
  /\ courtesy = FALSE /\ since = 0 /\ count = 0
  /\ indexed = TRUE /\ expired = FALSE /\ idle = FALSE
  /\ deadline = LeaseTime /\ heap = {LeaseTime}
  /\ scan = [pc |-> "sleep", now |-> 0]
  /\ renewing = [r \in Renewer |-> Free]
  /\ meeting = [c \in Conflicter |-> FALSE]
  /\ displaced = FALSE

\* Faulty: an armed client is not armed again, however early.
ArmedEnoughAlways(when) == deadline >= 0

\* An entry that pops no later than `when` is enough.
ArmedEnough(when) == deadline >= 0 /\ deadline <= when

\* arm_lease_check.
Arm(when) ==
  IF ArmedEnough(when) THEN UNCHANGED armed
  ELSE deadline' = when /\ heap' = heap \cup {when}

----------------------------------------------------------------------------
(* renew(), from SEQUENCE on a session, or from EXCHANGE_ID or CREATE_SESSION. *)

\* The client shard, which the scanner and those two hold over several steps.
ShardFree ==
  /\ scan.pc \notin {"mark", "count"}
  /\ \A r \in Renewer : ~renewing[r].shard

\* Faulty: the lease is taken for milliseconds.
FreshExpiryUnscaled == now + 1000 * LeaseTime

\* The end of a lease renewed now.
FreshExpiry == now + LeaseTime

\* The lease is stored first.
RenewUnder(r, shard) ==
  /\ now <= RenewUntil
  /\ expiry' = FreshExpiry
  /\ renewing' = [renewing EXCEPT ![r] = [pc |-> "revive", e |-> FreshExpiry, shard |-> shard]]
  /\ UNCHANGED <<now, courtesy, since, count, indexed, expired, armed, scan, meeting, displaced>>

\* sequence_begin refuses an expired client.
Renew(r) ==
  /\ renewing[r].pc = "none" /\ ~idle /\ ~expired
  /\ RenewUnder(r, FALSE)
  /\ UNCHANGED idle

\* exchange_id from the same incarnation, update or not.
ExchangeIdRenews(r) ==
  /\ renewing[r].pc = "none" /\ ShardFree /\ indexed
  /\ RenewUnder(r, TRUE)
  /\ UNCHANGED idle

\* create_session finds the client without the shard and does not look it up again under it;
\* the client has a session then.
FindClient(r) ==
  /\ renewing[r].pc = "none" /\ indexed /\ now <= RenewUntil
  /\ renewing' = [renewing EXCEPT ![r].pc = "found"]
  /\ UNCHANGED <<now, record, tables, armed, scan, meeting, displaced>>
CreateSessionRenews(r) ==
  /\ renewing[r].pc = "found" /\ ShardFree
  /\ RenewUnder(r, TRUE)
  /\ idle' = FALSE

Revive(r) ==
  /\ renewing[r].pc = "revive"
  /\ courtesy' = FALSE
  /\ count' = IF courtesy THEN count - 1 ELSE count
  /\ renewing' = [renewing EXCEPT ![r] = IF courtesy THEN [@ EXCEPT !.pc = "arm"] ELSE Free]
  /\ UNCHANGED <<now, expiry, since, tables, armed, scan, meeting, displaced>>

RenewArm(r) ==
  /\ renewing[r].pc = "arm"
  /\ Arm(renewing[r].e)
  /\ renewing' = [renewing EXCEPT ![r] = Free]
  /\ UNCHANGED <<now, record, tables, scan, meeting, displaced>>

----------------------------------------------------------------------------
(* scan_leases. *)

Scan(p) == scan' = [scan EXCEPT !.pc = p]

\* Faulty: the client's deadline is left standing when its entry is popped.
DeadlineOnPopKept == deadline

\* The deadline of a client whose entry is popped.
DeadlineOnPop == -1

\* The pops of one pass, under the heap and index mutexes: entries of a client that is gone
\* and superseded entries are dropped.
ScanPop ==
  /\ scan.pc = "sleep"
  /\ \E d \in heap : d <= now
  /\ heap' = {d \in heap : d > now}
  /\ IF indexed /\ deadline \in heap \ heap'
       THEN deadline' = DeadlineOnPop /\ scan' = [pc |-> "check", now |-> now]
       ELSE UNCHANGED <<deadline, scan>>
  /\ UNCHANGED <<now, record, tables, renewing, meeting, displaced>>

\* Outside every lock: a courtesy client waits for its window or is collected into timed_out.
ScanCheck ==
  /\ scan.pc = "check"
  /\ IF expired THEN Scan("sleep") /\ UNCHANGED armed
     ELSE IF ~courtesy THEN Scan("expiry") /\ UNCHANGED armed
     ELSE IF scan.now - since >= Window THEN Scan("expire") /\ UNCHANGED armed
     ELSE Arm(since + Window) /\ Scan("sleep")
  /\ UNCHANGED <<now, record, tables, renewing, meeting, displaced>>

\* Renewed since the entry was armed: re-arm at the fresh expiry.
ScanExpiry ==
  /\ scan.pc = "expiry"
  /\ IF expiry > scan.now THEN Arm(expiry) /\ Scan("sleep") ELSE Scan("lock") /\ UNCHANGED armed
  /\ UNCHANGED <<now, record, tables, renewing, meeting, displaced>>

LaterOf(a, b) == IF a >= b THEN a ELSE b

\* Under the client shard: recheck, lapse an idle client, or go on to mark it.
ScanLock ==
  /\ scan.pc = "lock" /\ ShardFree
  /\ \/ /\ ~indexed \/ expired
        /\ Scan("sleep") /\ UNCHANGED <<armed, indexed>>
     \/ /\ indexed /\ ~expired /\ (expiry > scan.now \/ courtesy)
        /\ Arm(LaterOf(expiry, scan.now + 1)) /\ Scan("sleep") /\ UNCHANGED indexed
     \/ /\ indexed /\ ~expired /\ expiry <= scan.now /\ ~courtesy
        /\ indexed' = ~idle
        /\ Scan(IF idle THEN "sleep" ELSE "mark")
        /\ UNCHANGED armed
  /\ UNCHANGED <<now, record, expired, idle, renewing, meeting, displaced>>

\* Still under the shard, which a SEQUENCE does not take.
ScanMark ==
  /\ scan.pc = "mark"
  /\ courtesy' = TRUE /\ since' = scan.now
  /\ Scan("count")
  /\ UNCHANGED <<now, expiry, count, tables, armed, renewing, meeting, displaced>>

ScanCount ==
  /\ scan.pc = "count"
  /\ count' = count + 1
  /\ Arm(scan.now + Window) /\ Scan("sleep")
  /\ UNCHANGED <<now, expiry, courtesy, since, tables, renewing, meeting, displaced>>

----------------------------------------------------------------------------
(* expire_client_impl and the other ways out. *)

\* Faulty: the courtesy counter is forgotten.
ExpireKeepsCount ==
  /\ ShardFree
  /\ indexed' = FALSE /\ expired' = TRUE
  /\ courtesy' = FALSE
  /\ UNCHANGED count

\* The section under the client shard: neither the lease nor courtesy is looked at again.
Expire ==
  /\ ShardFree
  /\ IF indexed
       THEN /\ indexed' = FALSE /\ expired' = TRUE
            /\ courtesy' = FALSE
            /\ count' = IF courtesy THEN count - 1 ELSE count
       ELSE UNCHANGED <<indexed, expired, courtesy, count>>

\* The scanner's timed_out pass.
ScanExpire ==
  /\ scan.pc = "expire"
  /\ Expire /\ Scan("sleep")
  /\ UNCHANGED <<now, expiry, since, idle, armed, renewing, meeting, displaced>>

\* An OPEN or LOCK of another client meets a courtesy client's state, then reclaims it.
Meet(c) ==
  /\ ~meeting[c] /\ indexed /\ ~idle /\ courtesy
  /\ meeting' = [meeting EXCEPT ![c] = TRUE]
  /\ UNCHANGED <<now, record, tables, armed, scan, renewing, displaced>>
MeetExpire(c) ==
  /\ meeting[c]
  /\ Expire
  /\ meeting' = [meeting EXCEPT ![c] = FALSE]
  /\ UNCHANGED <<now, expiry, since, idle, armed, scan, renewing, displaced>>

\* lightnfs-ctl expires the client.
ForceExpire ==
  /\ Forced /\ indexed
  /\ Expire
  /\ UNCHANGED <<now, expiry, since, idle, armed, scan, renewing, meeting, displaced>>

\* create_session of the client's next incarnation does the same to this one.
Rebooted ==
  /\ Forced /\ indexed
  /\ Expire
  /\ UNCHANGED <<now, expiry, since, idle, armed, scan, renewing, meeting, displaced>>

\* The client destroys its last session and holds no state any more.
GoIdle ==
  /\ ShardFree /\ indexed /\ ~idle
  /\ idle' = TRUE
  /\ UNCHANGED <<now, record, indexed, expired, armed, scan, renewing, meeting, displaced>>

\* destroy_clientid of an idle client.
DestroyClientid ==
  /\ ShardFree /\ indexed /\ idle
  /\ indexed' = FALSE
  /\ courtesy' = FALSE
  /\ count' = IF courtesy THEN count - 1 ELSE count
  /\ UNCHANGED <<now, expiry, since, expired, idle, armed, scan, renewing, meeting, displaced>>

\* exchange_id from another principal removes an idle client, courtesy and its count aside.
ExchangeIdDisplaces ==
  /\ ShardFree /\ indexed /\ idle
  /\ indexed' = FALSE /\ displaced' = TRUE
  /\ UNCHANGED <<now, record, expired, idle, armed, scan, renewing, meeting>>

\* A second passes; run_lease_scanner makes one pass in each, give or take Lag.
Tick ==
  /\ now < MaxTime /\ now' = now + 1
  /\ IF scan.pc = "sleep" THEN \A d \in heap : now < d + Lag ELSE now < scan.now + Lag
  /\ UNCHANGED <<record, tables, armed, scan, renewing, meeting, displaced>>

----------------------------------------------------------------------------

Scanner ==
  ScanPop \/ ScanCheck \/ ScanExpiry \/ ScanLock \/ ScanMark \/ ScanCount \/ ScanExpire

Next ==
  \/ Tick \/ Scanner \/ ForceExpire \/ Rebooted \/ GoIdle \/ DestroyClientid \/ ExchangeIdDisplaces
  \/ \E r \in Renewer :
       \/ Renew(r) \/ ExchangeIdRenews(r) \/ FindClient(r) \/ CreateSessionRenews(r)
       \/ Revive(r) \/ RenewArm(r)
  \/ \E c \in Conflicter : Meet(c) \/ MeetExpire(c)

Spec == Init /\ [][Next]_vars

\* The clock and the scanner run on, and a renewal that has begun ends; none need begin.  The
\* shard's mutex is handed to its waiters in turn, so the scanner gets it however many ask.
FairSpec ==
  /\ Spec /\ WF_vars(Tick) /\ WF_vars(Scanner)
  /\ SF_vars(ScanLock)
  /\ \A r \in Renewer : WF_vars(Revive(r) \/ RenewArm(r))

----------------------------------------------------------------------------
(* Properties. *)

Renewed == \A r \in Renewer : renewing[r].pc \in {"none", "found"}
Quiet == scan.pc = "sleep" /\ Renewed

\* The scanner never loses sight of a client: between two passes every registered client
\* has an entry on the heap, and none that is renewing normally is due later than its
\* lease ends (arm_lease_check's "only advance", renew's re-arm of a revived client).
NoticedOnTime ==
  indexed /\ Quiet => deadline \in heap /\ (~courtesy => deadline <= expiry)

\* courtesy_count_ counts the client exactly while it is registered and in courtesy, whenever
\* nobody is between a flag and its counter, for every interleaving of renewals, conflicts
\* and expiries.  The exception: exchange_id's case 3 removes an idle courtesy client with
\* its flag set and counted, and only a CREATE_SESSION that found it before can undo that.
CourtesyCounted ==
  Quiet => count = IF courtesy /\ (indexed \/ displaced) THEN 1 ELSE 0

\* A client that falls silent is removed from the tables, whatever raced before.
SilentIsReclaimed == <>~indexed

\* Unless an operator asks, only a client whose lease is over is reclaimed: one that came
\* back, renew done, revives with its state intact (the comment in renew).
RevivedIsKept == [][expired' /\ ~expired /\ Renewed => expiry <= now]_vars
=============================================================================
