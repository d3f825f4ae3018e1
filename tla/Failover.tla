------------------------------ MODULE Failover ------------------------------
(***************************************************************************)
(* The failover cluster: one ClusterController per gateway                 *)
(* (server/cluster_controller.cpp), its main loop (server/main_loop.hpp,   *)
(* the hooks of server/daemon.cpp) and the fence and epoch records of the  *)
(* shared store (server/cluster_store.cpp).                                *)
(*                                                                         *)
(* Each gateway has a timer thread ("tick"), the threads that run operator *)
(* requests (Ctl) and the main loop, which runs posted work first in first *)
(* out.  A step is one section under mu_ or one store call; the store's    *)
(* calls are atomic here and StoreLock looks inside them.  The fence       *)
(* record's epoch field is only displayed and is left out, as is the name  *)
(* of the node the takeover hook evicts.                                   *)
(***************************************************************************)
EXTENDS Integers, Sequences

CONSTANTS
  Node,        \* the gateways
  Eager,       \* those with takeover = "auto" and role other than "standby"
  Ctl,         \* threads running operator requests
  Request,     \* the requests operators make: "takeover", "force", "standby"
  Ttl,         \* ttl() in periods of the timer thread (3 in the code)
  Punctual,    \* TRUE: every timer thread ticks once per period
  MaxRequest,  \* bound on operator requests
  MaxFault,    \* bound on failing store calls and activations
  MaxDown,     \* bound on crashes and exits
  MaxEpoch,    \* bound on takeovers
  None         \* no fence record

ASSUME FailoverAssumption ==
  /\ Eager \subseteq Node
  /\ "tick" \notin Ctl
  /\ Request \subseteq {"takeover", "force", "standby"}
  /\ Ttl \in Nat
  /\ Punctual \in BOOLEAN
  /\ MaxRequest \in Nat /\ MaxFault \in Nat /\ MaxDown \in Nat /\ MaxEpoch \in Nat
  /\ None \notin Node

Thread == {"tick"} \cup Ctl

VARIABLES
  fence,    \* the store's fence record, None or its node
  left,     \* periods until the record expires, 0 once it has
  epoch,    \* the store's epoch
  run,      \* "up", then "stopping", "closed", "down" (run_server past loop.run), "gone"
  role,     \* ClusterController::role_
  failures, \* renew_failures_
  served,   \* epoch_, what snapshot() reports
  plane,    \* epoch of the data plane that is up, 0 when there is none
  queue,    \* MainLoop::queue_
  loop,     \* what the main loop is doing
  thread,   \* where the timer thread and the request threads are
  ticked,   \* under Punctual, has the timer thread ticked in this period
  budget    \* requests, faults and downs left

store == <<fence, left, epoch>>
ctrl == <<role, failures, served>>
vars == <<fence, left, epoch, run, role, failures, served, plane, queue, loop, thread, ticked, budget>>

Work == [op : {"activate", "drain"}, e : Nat, release : BOOLEAN]
NoWork == [pc |-> "idle", e |-> 0, release |-> FALSE]
Idle == [pc |-> "idle", e |-> 0, flag |-> FALSE]

ThreadPC == {"idle", "poll", "renew", "claim", "epoch", "acquire", "bump", "undo", "fail", "note", "post",
           "drain", "postdrain"}
LoopPC == {"idle", "activate", "activated", "failed", "drain", "release", "standby"}

LoopRec == [pc : LoopPC, e : Nat, release : BOOLEAN]
ThreadRec == [pc : ThreadPC, e : Nat, flag : BOOLEAN]

\* The variables keep their types.
TypeOK ==
  /\ fence \in Node \cup {None}
  /\ left \in 0 .. Ttl + 1
  /\ epoch \in Nat
  /\ run \in [Node -> {"up", "stopping", "closed", "down", "gone"}]
  /\ role \in [Node -> {"standby", "activating", "active", "draining"}]
  /\ failures \in [Node -> Nat]
  /\ served \in [Node -> Nat]
  /\ plane \in [Node -> Nat]
  /\ queue \in [Node -> Seq(Work)]
  /\ loop \in [Node -> LoopRec]
  /\ thread \in [Node -> [Thread -> ThreadRec]]
  /\ ticked \in [Node -> BOOLEAN]
  /\ budget \in [request : Nat, fault : Nat, down : Nat]

Init ==
  /\ fence = None /\ left = 0 /\ epoch = 0
  /\ run = [n \in Node |-> "up"]
  /\ role = [n \in Node |-> "standby"]
  /\ failures = [n \in Node |-> 0]
  /\ served = [n \in Node |-> 0]
  /\ plane = [n \in Node |-> 0]
  /\ queue = [n \in Node |-> <<>>]
  /\ loop = [n \in Node |-> NoWork]
  /\ thread = [n \in Node |-> [t \in Thread |-> Idle]]
  /\ ticked = [n \in Node |-> FALSE]
  /\ budget = [request |-> MaxRequest, fault |-> MaxFault, down |-> MaxDown]

----------------------------------------------------------------------------
(* The shared store. *)

\* Faulty: an expired record is never taken over.
AcquirableUnexpired(n, force) == fence = None \/ fence = n \/ force

\* acquire_fence's condition: no record, expired, our own, or forced.
Acquirable(n, force) == fence = None \/ left = 0 \/ fence = n \/ force

\* Faulty: the lease is one period too long.
WriteFenceLonger(n) == fence' = n /\ left' = Ttl + 2

\* write_fence with expires_at = now + ttl: live for Ttl more periods.
WriteFence(n) == fence' = n /\ left' = Ttl + 1

\* release_fence removes our own record only.
ReleasedFence(n) == IF fence = n THEN None ELSE fence

\* One of the bounded failures: a store call (EBUSY of a file lock, an IO error) or an
\* activation that cannot bind its ports.
Fault == budget.fault > 0 /\ budget' = [budget EXCEPT !.fault = @ - 1]

----------------------------------------------------------------------------
(* The threads. *)

At(n, t, p) == run[n] # "gone" /\ thread[n][t].pc = p
Goto(n, t, p) == thread' = [thread EXCEPT ![n][t].pc = p]
Return(n, t) == thread' = [thread EXCEPT ![n][t] = Idle]

SetRole(n, r) == role' = [role EXCEPT ![n] = r]

\* tick_once: the role decides what this tick does.
TickStart(n) ==
  /\ run[n] = "up" /\ thread[n]["tick"].pc = "idle"
  /\ Punctual => ~ticked[n]
  /\ ticked' = [ticked EXCEPT ![n] = Punctual]
  /\ CASE role[n] = "standby" -> Goto(n, "tick", "poll")
       [] role[n] \in {"activating", "active"} -> Goto(n, "tick", "renew")
       [] role[n] = "draining" -> UNCHANGED thread
  /\ UNCHANGED <<store, run, ctrl, plane, queue, loop, budget>>

\* tick_once in Standby: take over a fence that is free, expired or our own.
TickPoll(n) ==
  /\ At(n, "tick", "poll")
  /\ \/ Fault /\ Return(n, "tick")
     \/ /\ IF n \in Eager /\ Acquirable(n, FALSE) THEN Goto(n, "tick", "claim") ELSE Return(n, "tick")
        /\ UNCHANGED budget
  /\ UNCHANGED <<store, run, ctrl, plane, queue, loop, ticked>>

\* Faulty: one failed renewal too many before draining.
RenewLimitLate == 4

\* Failed renewals in a row that drain the gateway.
RenewLimit == 3

\* renew: EPERM means another node (or nobody) holds the fence and we drain.
TickRenew(n) ==
  /\ At(n, "tick", "renew")
  /\ \/ /\ fence = n
        /\ WriteFence(n) /\ failures' = [failures EXCEPT ![n] = 0]
        /\ Return(n, "tick") /\ UNCHANGED budget
     \/ /\ fence # n
        /\ Goto(n, "tick", "drain")
        /\ UNCHANGED <<fence, left, failures, budget>>
     \/ /\ Fault
        /\ failures' = [failures EXCEPT ![n] = @ + 1]
        /\ IF failures[n] + 1 >= RenewLimit THEN Goto(n, "tick", "drain") ELSE Return(n, "tick")
        /\ UNCHANGED <<fence, left>>
  /\ UNCHANGED <<epoch, run, role, served, plane, queue, loop, ticked>>

\* An operator's request reaches the controller (request_takeover, request_standby).
CtlRequest(n, t) ==
  /\ run[n] \in {"up", "stopping", "closed"} /\ thread[n][t].pc = "idle"
  /\ budget.request > 0 /\ budget' = [budget EXCEPT !.request = @ - 1]
  /\ \/ /\ "takeover" \in Request /\ Goto(n, t, "claim")
     \/ /\ "force" \in Request
        /\ thread' = [thread EXCEPT ![n][t] = [pc |-> "claim", e |-> 0, flag |-> TRUE]]
     \/ /\ "standby" \in Request /\ role[n] = "active"
        /\ thread' = [thread EXCEPT ![n][t] = [pc |-> "drain", e |-> 0, flag |-> TRUE]]
  /\ UNCHANGED <<store, run, ctrl, plane, queue, loop, ticked>>

\* begin_activation: Standby -> Activating under mu_, EBUSY in any other role.
MayClaim(n) == role[n] = "standby"
Claim(n, t) ==
  /\ At(n, t, "claim")
  /\ IF MayClaim(n)
       THEN /\ SetRole(n, "activating") /\ failures' = [failures EXCEPT ![n] = 0]
            /\ Goto(n, t, "epoch")
       ELSE Return(n, t) /\ UNCHANGED <<role, failures>>
  /\ UNCHANGED <<store, run, served, plane, queue, loop, ticked, budget>>

\* read_epoch; what it read only labels the fence record.
ReadEpoch(n, t) ==
  /\ At(n, t, "epoch")
  /\ \/ Goto(n, t, "acquire") /\ UNCHANGED <<role, budget>>
     \/ Fault /\ SetRole(n, "standby") /\ Return(n, t)
  /\ UNCHANGED <<store, run, failures, served, plane, queue, loop, ticked>>

\* acquire_fence, and back to Standby when it is refused or fails.
AcquireFence(n, t) ==
  /\ At(n, t, "acquire")
  /\ \/ /\ Acquirable(n, thread[n][t].flag)
        /\ WriteFence(n) /\ Goto(n, t, "bump")
        /\ UNCHANGED <<role, budget>>
     \/ /\ \/ ~Acquirable(n, thread[n][t].flag) /\ UNCHANGED budget
           \/ Fault
        /\ SetRole(n, "standby") /\ Return(n, t)
        /\ UNCHANGED <<fence, left>>
  /\ UNCHANGED <<epoch, run, failures, served, plane, queue, loop, ticked>>

\* Faulty: an epoch file that is there is read as missing.
BumpedFromZero == 1

\* bump_epoch: the epoch this takeover serves.
Bumped == epoch + 1
BumpEpoch(n, t) ==
  /\ At(n, t, "bump")
  /\ \/ /\ epoch < MaxEpoch
        /\ epoch' = Bumped
        /\ thread' = [thread EXCEPT ![n][t] = [pc |-> "note", e |-> Bumped, flag |-> FALSE]]
        /\ UNCHANGED budget
     \/ Fault /\ Goto(n, t, "undo") /\ UNCHANGED epoch
  /\ UNCHANGED <<fence, left, run, ctrl, plane, queue, loop, ticked>>

\* bump_epoch failed: the fence is given back, then the role.
UndoFence(n, t) ==
  /\ At(n, t, "undo")
  /\ \/ fence' = ReleasedFence(n) /\ UNCHANGED budget
     \/ Fault /\ UNCHANGED fence
  /\ Goto(n, t, "fail")
  /\ UNCHANGED <<left, epoch, run, ctrl, plane, queue, loop, ticked>>

UndoRole(n, t) ==
  /\ At(n, t, "fail")
  /\ SetRole(n, "standby") /\ Return(n, t)
  /\ UNCHANGED <<store, run, failures, served, plane, queue, loop, ticked, budget>>

NoteEpoch(n, t) ==
  /\ At(n, t, "note")
  /\ served' = [served EXCEPT ![n] = thread[n][t].e]
  /\ Goto(n, t, "post")
  /\ UNCHANGED <<store, run, role, failures, plane, queue, loop, ticked, budget>>

\* hooks_.post: MainLoop::post appends.
Post(n, t, w) == queue' = [queue EXCEPT ![n] = Append(@, w)] /\ Return(n, t)

PostActivation(n, t) ==
  /\ At(n, t, "post")
  /\ Post(n, t, [op |-> "activate", e |-> thread[n][t].e, release |-> FALSE])
  /\ UNCHANGED <<store, run, ctrl, plane, loop, ticked, budget>>

\* begin_draining's section under mu_; flag is !fence_lost.
BeginDraining(n, t) ==
  /\ At(n, t, "drain")
  /\ IF role[n] \in {"active", "activating"}
       THEN SetRole(n, "draining") /\ Goto(n, t, "postdrain")
       ELSE Return(n, t) /\ UNCHANGED role
  /\ UNCHANGED <<store, run, failures, served, plane, queue, loop, ticked, budget>>

PostDraining(n, t) ==
  /\ At(n, t, "postdrain")
  /\ Post(n, t, [op |-> "drain", e |-> 0, release |-> thread[n][t].flag])
  /\ UNCHANGED <<store, run, ctrl, plane, loop, ticked, budget>>

----------------------------------------------------------------------------
(* The main loop. *)

\* MainLoop::run takes the oldest item; past loop.run, MainLoop::drain does, once
\* controller->stop has joined the timer thread.
LoopTake(n) ==
  /\ run[n] = "up" \/ (run[n] = "stopping" /\ thread[n]["tick"].pc = "idle")
  /\ loop[n].pc = "idle" /\ queue[n] # <<>>
  /\ LET w == Head(queue[n]) IN
       loop' = [loop EXCEPT ![n] = [pc |-> w.op, e |-> w.e, release |-> w.release]]
  /\ queue' = [queue EXCEPT ![n] = Tail(@)]
  /\ UNCHANGED <<store, run, ctrl, plane, thread, ticked, budget>>

\* run_activation up to its lock: bring_up builds the plane whatever the role is by now,
\* replacing one that is there (SO_REUSEPORT lets both bind), or leaves none.
Built(n) == loop[n].e
RunActivate(n) ==
  /\ loop[n].pc = "activate"
  /\ \/ /\ plane' = [plane EXCEPT ![n] = Built(n)]
        /\ loop' = [loop EXCEPT ![n].pc = "activated"]
        /\ UNCHANGED budget
     \/ /\ Fault
        /\ plane' = [plane EXCEPT ![n] = 0]
        /\ loop' = [loop EXCEPT ![n].pc = "failed"]
  /\ UNCHANGED <<store, run, ctrl, queue, thread, ticked>>

LoopDone(n) == loop' = [loop EXCEPT ![n] = NoWork]

\* run_activation under mu_: a gateway drained meanwhile keeps its role.
Activated(n) ==
  /\ loop[n].pc = "activated"
  /\ IF role[n] = "activating" THEN SetRole(n, "active") ELSE UNCHANGED role
  /\ LoopDone(n)
  /\ UNCHANGED <<store, run, failures, served, plane, queue, thread, ticked, budget>>

ActivationFailed(n) ==
  /\ loop[n].pc = "failed"
  /\ IF role[n] = "activating"
       THEN /\ SetRole(n, "standby")
            /\ \/ fence' = ReleasedFence(n) /\ UNCHANGED budget
               \/ Fault /\ UNCHANGED fence
       ELSE UNCHANGED <<role, fence, budget>>
  /\ LoopDone(n)
  /\ UNCHANGED <<left, epoch, run, failures, served, plane, queue, thread, ticked>>

\* Faulty: the plane stays up.
NotTornDown(n) == plane[n]

\* take_down leaves no plane.
TornDown(n) == 0

\* run_draining: the plane goes first, the fence after it, the role last.
RunDrain(n) ==
  /\ loop[n].pc = "drain"
  /\ plane' = [plane EXCEPT ![n] = TornDown(n)]
  /\ loop' = [loop EXCEPT ![n].pc = IF loop[n].release THEN "release" ELSE "standby"]
  /\ UNCHANGED <<store, run, ctrl, queue, thread, ticked, budget>>

DrainRelease(n) ==
  /\ loop[n].pc = "release"
  /\ \/ fence' = ReleasedFence(n) /\ UNCHANGED budget
     \/ Fault /\ UNCHANGED fence
  /\ loop' = [loop EXCEPT ![n].pc = "standby"]
  /\ UNCHANGED <<left, epoch, run, ctrl, plane, queue, thread, ticked>>

DrainDone(n) ==
  /\ loop[n].pc = "standby"
  /\ SetRole(n, "standby") /\ served' = [served EXCEPT ![n] = 0]
  /\ LoopDone(n)
  /\ UNCHANGED <<store, run, failures, plane, queue, thread, ticked, budget>>

----------------------------------------------------------------------------
(* The process and the clock. *)

Down == budget.down > 0 /\ budget' = [budget EXCEPT !.down = @ - 1]

\* What a process that is not there has in memory.
Forgotten(n) ==
  /\ run' = [run EXCEPT ![n] = "gone"]
  /\ role' = [role EXCEPT ![n] = "standby"]
  /\ failures' = [failures EXCEPT ![n] = 0]
  /\ served' = [served EXCEPT ![n] = 0]
  /\ plane' = [plane EXCEPT ![n] = 0]
  /\ queue' = [queue EXCEPT ![n] = <<>>]
  /\ loop' = [loop EXCEPT ![n] = NoWork]
  /\ thread' = [thread EXCEPT ![n] = [t \in Thread |-> Idle]]
  /\ UNCHANGED <<store, ticked>>

Crash(n) == run[n] # "gone" /\ Down /\ Forgotten(n)

\* run_server again: every gateway starts as standby.
Restart(n) ==
  /\ run[n] = "gone" /\ run' = [run EXCEPT ![n] = "up"]
  /\ UNCHANGED <<store, ctrl, plane, queue, loop, thread, ticked, budget>>

\* SIGTERM: loop.run returns between two items.
BeginExit(n) ==
  /\ run[n] = "up" /\ loop[n].pc = "idle" /\ Down
  /\ run' = [run EXCEPT ![n] = "stopping"]
  /\ UNCHANGED <<store, ctrl, plane, queue, loop, thread, ticked>>

\* Faulty: the exit path forgets the plane.
ExitKeepsPlane(n) ==
  /\ run[n] = "stopping" /\ loop[n].pc = "idle" /\ queue[n] = <<>>
  /\ thread[n]["tick"].pc = "idle"
  /\ run' = [run EXCEPT ![n] = "closed"]
  /\ UNCHANGED <<store, ctrl, plane, queue, loop, thread, ticked, budget>>

\* take_down once the timer thread is joined and the queue is drained.
ExitTakeDown(n) ==
  /\ run[n] = "stopping" /\ loop[n].pc = "idle" /\ queue[n] = <<>>
  /\ thread[n]["tick"].pc = "idle"
  /\ plane' = [plane EXCEPT ![n] = 0]
  /\ run' = [run EXCEPT ![n] = "closed"]
  /\ UNCHANGED <<store, ctrl, queue, loop, thread, ticked, budget>>

ExitRelease(n) ==
  /\ run[n] = "closed"
  /\ \/ role[n] # "standby" /\ fence' = ReleasedFence(n) /\ UNCHANGED budget
     \/ role[n] # "standby" /\ Fault /\ UNCHANGED fence
     \/ role[n] = "standby" /\ UNCHANGED <<fence, budget>>
  /\ run' = [run EXCEPT ![n] = "down"]
  /\ UNCHANGED <<left, epoch, ctrl, plane, queue, loop, thread, ticked>>

\* runtime.stop_and_join waits for the requests still running.
ExitGone(n) ==
  /\ run[n] = "down" /\ \A t \in Ctl : thread[n][t].pc = "idle"
  /\ Forgotten(n) /\ UNCHANGED budget

\* One fence_lease passes.  Under Punctual every timer thread has had its tick in it.
Advance ==
  /\ Punctual => \A n \in Node : run[n] = "up" => ticked[n] /\ thread[n]["tick"].pc = "idle"
  /\ left' = IF left > 0 THEN left - 1 ELSE 0
  /\ ticked' = [n \in Node |-> FALSE]
  /\ UNCHANGED <<fence, epoch, run, ctrl, plane, queue, loop, thread, budget>>

----------------------------------------------------------------------------

Tick(n) == TickStart(n) \/ TickPoll(n) \/ TickRenew(n)
Activation(n, t) ==
  \/ Claim(n, t) \/ ReadEpoch(n, t) \/ AcquireFence(n, t) \/ BumpEpoch(n, t)
  \/ UndoFence(n, t) \/ UndoRole(n, t) \/ NoteEpoch(n, t) \/ PostActivation(n, t)
Draining(n, t) == BeginDraining(n, t) \/ PostDraining(n, t)
MainLoop(n) ==
  \/ LoopTake(n) \/ RunActivate(n) \/ Activated(n) \/ ActivationFailed(n)
  \/ RunDrain(n) \/ DrainRelease(n) \/ DrainDone(n)
Exiting(n) == ExitTakeDown(n) \/ ExitRelease(n) \/ ExitGone(n)

Next ==
  \/ \E n \in Node : Tick(n) \/ MainLoop(n) \/ Exiting(n) \/ Crash(n) \/ Restart(n) \/ BeginExit(n)
  \/ \E n \in Node, t \in Thread : Activation(n, t) \/ Draining(n, t)
  \/ \E n \in Node, t \in Ctl : CtlRequest(n, t)
  \/ Advance

Spec == Init /\ [][Next]_vars

\* The timer thread, the posted work, requests that began and the clock go on; operators,
\* faults, crashes and restarts need not happen.
Fairness ==
  /\ WF_vars(Advance)
  /\ \A n \in Node : WF_vars(Tick(n)) /\ WF_vars(MainLoop(n)) /\ WF_vars(Exiting(n))
  /\ \A n \in Node, t \in Thread : WF_vars(Activation(n, t)) /\ WF_vars(Draining(n, t))

FairSpec == Spec /\ Fairness

----------------------------------------------------------------------------
(* Properties. *)

\* Two gateways never serve the same epoch, not even when both are up (split brain): every
\* clientid and stateid one of them issued is STALE on the other (begin_activation's
\* epoch++, design 09 section 9.5).
EpochsDistinct == \A m, n \in Node : m # n /\ plane[m] # 0 => plane[m] # plane[n]

\* A gateway in Standby has no data plane when the ticks alone move it: run_activation and
\* run_draining leave the plane and the role in agreement after failed renewals, failed
\* activations and lost fences (daemon.cpp, "standby until the controller takes the fence").
StandbyServesNothing == \A n \in Node : run[n] = "up" /\ role[n] = "standby" => plane[n] = 0

\* The same once everything posted has run and no thread is inside the controller: what a
\* gateway in Standby is left with.
QuietStandbyServesNothing ==
  \A n \in Node : /\ run[n] = "up" /\ role[n] = "standby"
                  /\ loop[n].pc = "idle" /\ queue[n] = <<>>
                  /\ \A t \in Thread : thread[n][t].pc = "idle"
                  => plane[n] = 0

\* With timely ticks and no forced takeover at most one running gateway is Active: three failed
\* renewals drain the holder before its lease of three periods lapses for anyone else.
Active(n) == run[n] = "up" /\ role[n] = "active"
AtMostOneActive == \A m, n \in Node : Active(m) /\ Active(n) => m = n

\* A gateway hands its fence back only when its data plane is gone (run_draining and the
\* exit path of run_server release after the teardown), so a successor that finds no
\* record finds no plane behind it.  The exception is begin_activation, which gives back
\* what it has just acquired and trusts that a gateway in Standby has no plane.
ReleasedAfterTeardown ==
  [][\A n \in Node : fence = n /\ fence' = None =>
       plane[n] = 0 \/ \E t \in Thread : At(n, t, "undo")]_vars

\* A gateway allowed to take over on its own and up for good ends with some gateway Active
\* and serving for good: crashes, lost fences and failed activations are recovered from by
\* the ticks alone.
Settles ==
  (\E n \in Eager : <>[](run[n] = "up"))
    => <>[](\E n \in Node : role[n] = "active" /\ plane[n] # 0 /\ fence = n)
=============================================================================
