-------------------------- MODULE Failover_proof ---------------------------
(***************************************************************************)
(* No two gateways ever serve the same epoch, for any number of gateways,  *)
(* request threads, crashes, faults and forced takeovers, and any pace of  *)
(* the timer threads.                                                      *)
(*                                                                         *)
(* EpochsDistinct speaks of the planes that are up.  An epoch reaches a    *)
(* plane through a thread, the queue and the main loop, so the inductive   *)
(* invariant speaks of everything a gateway holds on the way: all of it    *)
(* was minted by bump_epoch, and none of it is held by two gateways.       *)
(***************************************************************************)
EXTENDS Failover, TLAPS

\* The epochs gateway n holds: in a takeover on its way, posted, being run, or served.
Held(n) ==
  {thread[n][t].e : t \in Thread} \cup {queue[n][i].e : i \in DOMAIN queue[n]} \cup {loop[n].e, plane[n]}

Minted == \A n \in Node : \A e \in Held(n) : e <= epoch
Unshared == \A m, n \in Node : m # n => \A e \in Held(m) \cap Held(n) : e = 0

IInv == TypeOK /\ Minted /\ Unshared

\* A step that mints nothing: gateways hold what they held.
Keeps == epoch' = epoch /\ \A n \in Node : Held(n)' \subseteq Held(n) \cup {0}

LEMMA KeepsInv ==
  ASSUME Minted, Unshared, epoch \in Nat, Keeps
  PROVE  Minted' /\ Unshared'
<1>1. Minted'
  <2> SUFFICES ASSUME NEW n \in Node, NEW e \in Held(n)'
               PROVE  e <= epoch'
    BY DEF Minted
  <2>1. e \in Held(n) \/ e = 0
    BY DEF Keeps
  <2> QED BY <2>1 DEF Keeps, Minted
<1>2. Unshared'
  <2> SUFFICES ASSUME NEW m \in Node, NEW n \in Node, m # n, NEW e \in Held(m)' \cap Held(n)'
               PROVE  e = 0
    BY DEF Unshared
  <2>1. (e \in Held(m) \/ e = 0) /\ (e \in Held(n) \/ e = 0)
    BY DEF Keeps
  <2> QED BY <2>1 DEF Unshared
<1> QED BY <1>1, <1>2

LEMMA ThreadKeeps ==
  ASSUME epoch' = epoch, UNCHANGED <<queue, loop, plane>>,
         \A n \in Node, t \in Thread : thread'[n][t].e \in {0, thread[n][t].e}
  PROVE  Keeps
<1> SUFFICES ASSUME NEW n \in Node, NEW e \in Held(n)'
             PROVE  e \in Held(n) \cup {0}
  BY DEF Keeps
<1>1. CASE e \in {thread[n][t].e : t \in Thread}'
  <2>1. PICK t \in Thread : e = thread'[n][t].e
    BY <1>1 DEF Thread
  <2> QED BY <2>1 DEF Held
<1>2. CASE e \in {queue[n][i].e : i \in DOMAIN queue[n]} \cup {loop[n].e, plane[n]}
  BY <1>2 DEF Held
<1> QED BY <1>1, <1>2 DEF Held

\* Going to another place in the code, and returning.
LEMMA GotoFacts ==
  ASSUME TypeOK, NEW n \in Node, NEW t \in Thread, NEW p \in ThreadPC, Goto(n, t, p)
  PROVE  /\ thread' \in [Node -> [Thread -> ThreadRec]]
         /\ \A m \in Node, u \in Thread : thread'[m][u].e \in {0, thread[m][u].e}
<1>1. thread \in [Node -> [Thread -> ThreadRec]]
  BY DEF TypeOK
<1>2. [thread[n][t] EXCEPT !.pc = p] \in ThreadRec
  BY <1>1 DEF ThreadRec
<1>3. thread' = [thread EXCEPT ![n] = [thread[n] EXCEPT ![t] = [thread[n][t] EXCEPT !.pc = p]]]
  BY <1>1 DEF Goto
<1>4. thread' \in [Node -> [Thread -> ThreadRec]]
  BY <1>1, <1>2, <1>3
<1>5. ASSUME NEW m \in Node, NEW u \in Thread
      PROVE  thread'[m][u].e = thread[m][u].e
  <2>1. CASE m = n /\ u = t
    <3>1. thread'[m][u] = [thread[n][t] EXCEPT !.pc = p]
      BY <1>1, <1>3, <2>1
    <3> QED BY <1>1, <2>1, <3>1 DEF ThreadRec
  <2>2. CASE ~(m = n /\ u = t)
    <3>1. thread'[m][u] = thread[m][u]
      BY <1>1, <1>3, <2>2
    <3> QED BY <3>1
  <2> QED BY <2>1, <2>2
<1> QED BY <1>4, <1>5

LEMMA SetThreadFacts ==
  ASSUME TypeOK, NEW n \in Node, NEW t \in Thread, NEW r \in ThreadRec, r.e = 0,
         thread' = [thread EXCEPT ![n][t] = r]
  PROVE  /\ thread' \in [Node -> [Thread -> ThreadRec]]
         /\ \A m \in Node, u \in Thread : thread'[m][u].e \in {0, thread[m][u].e}
<1>1. thread \in [Node -> [Thread -> ThreadRec]]
  BY DEF TypeOK
<1>2. thread' = [thread EXCEPT ![n] = [thread[n] EXCEPT ![t] = r]]
  BY <1>1
<1>3. thread' \in [Node -> [Thread -> ThreadRec]]
  BY <1>1, <1>2
<1>4. ASSUME NEW m \in Node, NEW u \in Thread
      PROVE  thread'[m][u].e \in {0, thread[m][u].e}
  <2>1. thread'[m][u] = r \/ thread'[m][u] = thread[m][u]
    BY <1>1, <1>2
  <2> QED BY <2>1
<1> QED BY <1>3, <1>4

LEMMA ReturnFacts ==
  ASSUME TypeOK, NEW n \in Node, NEW t \in Thread, Return(n, t)
  PROVE  /\ thread' \in [Node -> [Thread -> ThreadRec]]
         /\ \A m \in Node, u \in Thread : thread'[m][u].e \in {0, thread[m][u].e}
<1>1. Idle \in ThreadRec /\ Idle.e = 0
  BY DEF Idle, ThreadRec, ThreadPC
<1> QED BY <1>1, SetThreadFacts DEF Return

\* What every step of a thread outside BumpEpoch and the two posts does to the threads.
ThreadStep == /\ thread' \in [Node -> [Thread -> ThreadRec]]
              /\ \A m \in Node, u \in Thread : thread'[m][u].e \in {0, thread[m][u].e}

LEMMA StepGoto ==
  ASSUME TypeOK, NEW n \in Node, NEW t \in Thread, NEW p \in ThreadPC, Goto(n, t, p)
  PROVE  ThreadStep
BY GotoFacts DEF ThreadStep

LEMMA StepReturn ==
  ASSUME TypeOK, NEW n \in Node, NEW t \in Thread, Return(n, t)
  PROVE  ThreadStep
BY ReturnFacts DEF ThreadStep

LEMMA StepStay ==
  ASSUME TypeOK, UNCHANGED thread
  PROVE  ThreadStep
BY DEF ThreadStep, TypeOK

LEMMA ThreadStepKeeps ==
  ASSUME ThreadStep, epoch' = epoch, UNCHANGED <<queue, loop, plane>>
  PROVE  Keeps
BY ThreadKeeps DEF ThreadStep

LEMMA FaultType ==
  ASSUME TypeOK, Fault
  PROVE  budget' \in [request : Nat, fault : Nat, down : Nat]
<1>1. budget \in [request : Nat, fault : Nat, down : Nat] /\ budget.fault > 0
  BY DEF TypeOK, Fault
<1>2. budget.fault - 1 \in Nat
  BY <1>1
<1>3. budget' = [budget EXCEPT !.fault = budget.fault - 1]
  BY <1>1 DEF Fault
<1> QED BY <1>1, <1>2, <1>3

LEMMA RoleType ==
  ASSUME TypeOK, NEW n \in Node, NEW r \in {"standby", "activating", "active", "draining"}, SetRole(n, r)
  PROVE  role' \in [Node -> {"standby", "activating", "active", "draining"}]
BY DEF TypeOK, SetRole

LEMMA WriteFenceType ==
  ASSUME TypeOK, NEW n \in Node, WriteFence(n)
  PROVE  fence' \in Node \cup {None} /\ left' \in 0 .. Ttl + 1
BY FailoverAssumption DEF TypeOK, WriteFence, FailoverAssumption

LEMMA TickThread == "tick" \in Thread
BY DEF Thread

LEMMA CtlThread == ASSUME NEW t \in Ctl PROVE t \in Thread
BY DEF Thread

LEMMA TickStep ==
  ASSUME TypeOK, NEW n \in Node, Tick(n)
  PROVE  TypeOK' /\ Keeps
<1>1. CASE TickStart(n)
  <2>1. ThreadStep
    <3>1. CASE role[n] = "standby"
      BY <1>1, <3>1, StepGoto, TickThread DEF TickStart, ThreadPC
    <3>2. CASE role[n] \in {"activating", "active"}
      BY <1>1, <3>2, StepGoto, TickThread DEF TickStart, ThreadPC
    <3>3. CASE role[n] = "draining"
      BY <1>1, <3>3, StepStay DEF TickStart
    <3> QED BY <3>1, <3>2, <3>3 DEF TypeOK
  <2>2. TypeOK'
    BY <1>1, <2>1, FailoverAssumption DEF TypeOK, TickStart, ThreadStep, store, ctrl, FailoverAssumption
  <2> QED BY <1>1, <2>1, <2>2, ThreadStepKeeps DEF TickStart, store
<1>2. CASE TickPoll(n)
  <2>1. ThreadStep
    BY <1>2, StepGoto, StepReturn, TickThread DEF TickPoll, ThreadPC
  <2>2. budget' \in [request : Nat, fault : Nat, down : Nat]
    BY <1>2, FaultType DEF TickPoll, TypeOK
  <2>3. TypeOK'
    BY <1>2, <2>1, <2>2 DEF TypeOK, TickPoll, ThreadStep, store, ctrl
  <2> QED BY <1>2, <2>1, <2>3, ThreadStepKeeps DEF TickPoll, store
<1>3. CASE TickRenew(n)
  <2>1. ThreadStep
    BY <1>3, StepGoto, StepReturn, TickThread DEF TickRenew, ThreadPC
  <2>2. budget' \in [request : Nat, fault : Nat, down : Nat]
    BY <1>3, FaultType DEF TickRenew, TypeOK
  <2>3. fence' \in Node \cup {None} /\ left' \in 0 .. Ttl + 1
    BY <1>3, WriteFenceType DEF TickRenew, TypeOK
  <2>4. failures' \in [Node -> Nat]
    <3>1. failures \in [Node -> Nat] /\ failures[n] + 1 \in Nat
      BY DEF TypeOK
    <3>2. failures' \in {failures, [failures EXCEPT ![n] = 0], [failures EXCEPT ![n] = failures[n] + 1]}
      BY <1>3, <3>1 DEF TickRenew
    <3> QED BY <3>1, <3>2
  <2>5. TypeOK'
    BY <1>3, <2>1, <2>2, <2>3, <2>4 DEF TypeOK, TickRenew, ThreadStep
  <2> QED BY <1>3, <2>1, <2>5, ThreadStepKeeps DEF TickRenew
<1> QED BY <1>1, <1>2, <1>3 DEF Tick

LEMMA CtlRequestStep ==
  ASSUME TypeOK, NEW n \in Node, NEW t \in Ctl, CtlRequest(n, t)
  PROVE  TypeOK' /\ Keeps
<1>1. ThreadStep
  <2> DEFINE r(p) == [pc |-> p, e |-> 0, flag |-> TRUE]
  <2>1. r("claim") \in ThreadRec /\ r("claim").e = 0 /\ r("drain") \in ThreadRec /\ r("drain").e = 0
    BY DEF ThreadRec, ThreadPC
  <2>2. CASE Goto(n, t, "claim")
    BY <2>2, StepGoto, CtlThread DEF ThreadPC
  <2>3. CASE thread' = [thread EXCEPT ![n][t] = r("claim")]
    BY <2>1, <2>3, SetThreadFacts, CtlThread DEF ThreadStep
  <2>4. CASE thread' = [thread EXCEPT ![n][t] = r("drain")]
    BY <2>1, <2>4, SetThreadFacts, CtlThread DEF ThreadStep
  <2> QED BY <2>2, <2>3, <2>4 DEF CtlRequest
<1>2. budget' \in [request : Nat, fault : Nat, down : Nat]
  <2>1. budget \in [request : Nat, fault : Nat, down : Nat] /\ budget.request > 0
    BY DEF TypeOK, CtlRequest
  <2>2. budget.request - 1 \in Nat
    BY <2>1
  <2>3. budget' = [budget EXCEPT !.request = budget.request - 1]
    BY <2>1 DEF CtlRequest
  <2> QED BY <2>1, <2>2, <2>3
<1>3. TypeOK'
  BY <1>1, <1>2 DEF TypeOK, CtlRequest, ThreadStep, store, ctrl
<1> QED BY <1>1, <1>3, ThreadStepKeeps DEF CtlRequest, store

LEMMA ReleaseType ==
  ASSUME TypeOK, NEW n \in Node, fence' = ReleasedFence(n)
  PROVE  fence' \in Node \cup {None}
BY DEF TypeOK, ReleasedFence

\* begin_activation and begin_draining, bump_epoch and the posts apart.
LEMMA ActivationStep ==
  ASSUME TypeOK, NEW n \in Node, NEW t \in Thread,
         \/ Claim(n, t) \/ ReadEpoch(n, t) \/ AcquireFence(n, t) \/ UndoFence(n, t)
         \/ UndoRole(n, t) \/ NoteEpoch(n, t) \/ BeginDraining(n, t)
  PROVE  TypeOK' /\ Keeps
<1>1. CASE Claim(n, t)
  <2>1. ThreadStep
    BY <1>1, StepGoto, StepReturn DEF Claim, ThreadPC
  <2>2. role' \in [Node -> {"standby", "activating", "active", "draining"}]
    BY <1>1, RoleType DEF Claim, TypeOK
  <2>3. failures' \in [Node -> Nat]
    <3>1. failures \in [Node -> Nat] /\ failures' \in {failures, [failures EXCEPT ![n] = 0]}
      BY <1>1 DEF Claim, TypeOK
    <3> QED BY <3>1
  <2>4. TypeOK'
    BY <1>1, <2>1, <2>2, <2>3 DEF TypeOK, Claim, ThreadStep, store, ctrl
  <2> QED BY <1>1, <2>1, <2>4, ThreadStepKeeps DEF Claim, store
<1>2. CASE ReadEpoch(n, t)
  <2>1. ThreadStep
    BY <1>2, StepGoto, StepReturn DEF ReadEpoch, ThreadPC
  <2>2. role' \in [Node -> {"standby", "activating", "active", "draining"}]
    BY <1>2, RoleType DEF ReadEpoch, TypeOK
  <2>3. budget' \in [request : Nat, fault : Nat, down : Nat]
    <3>1. Fault \/ budget' = budget
      BY <1>2 DEF ReadEpoch
    <3> QED BY <3>1, FaultType DEF TypeOK
  <2>4. TypeOK'
    BY <1>2, <2>1, <2>2, <2>3 DEF TypeOK, ReadEpoch, ThreadStep, store, ctrl
  <2> QED BY <1>2, <2>1, <2>4, ThreadStepKeeps DEF ReadEpoch, store
<1>3. CASE AcquireFence(n, t)
  <2>1. ThreadStep
    BY <1>3, StepGoto, StepReturn DEF AcquireFence, ThreadPC
  <2>2. role' \in [Node -> {"standby", "activating", "active", "draining"}]
    BY <1>3, RoleType DEF AcquireFence, TypeOK
  <2>3. budget' \in [request : Nat, fault : Nat, down : Nat]
    BY <1>3, FaultType DEF AcquireFence, TypeOK
  <2>4. fence' \in Node \cup {None} /\ left' \in 0 .. Ttl + 1
    BY <1>3, WriteFenceType DEF AcquireFence, TypeOK
  <2>5. TypeOK'
    BY <1>3, <2>1, <2>2, <2>3, <2>4 DEF TypeOK, AcquireFence, ThreadStep, store, ctrl
  <2> QED BY <1>3, <2>1, <2>5, ThreadStepKeeps DEF AcquireFence, store
<1>4. CASE UndoFence(n, t)
  <2>1. ThreadStep
    BY <1>4, StepGoto, StepReturn DEF UndoFence, ThreadPC
  <2>2. budget' \in [request : Nat, fault : Nat, down : Nat]
    BY <1>4, FaultType DEF UndoFence, TypeOK
  <2>3. fence' \in Node \cup {None}
    BY <1>4, ReleaseType DEF UndoFence, TypeOK
  <2>4. TypeOK'
    BY <1>4, <2>1, <2>2, <2>3 DEF TypeOK, UndoFence, ThreadStep, store, ctrl
  <2> QED BY <1>4, <2>1, <2>4, ThreadStepKeeps DEF UndoFence, store
<1>5. CASE UndoRole(n, t)
  <2>1. ThreadStep
    BY <1>5, StepGoto, StepReturn DEF UndoRole, ThreadPC
  <2>2. role' \in [Node -> {"standby", "activating", "active", "draining"}]
    BY <1>5, RoleType DEF UndoRole, TypeOK
  <2>3. TypeOK'
    BY <1>5, <2>1, <2>2 DEF TypeOK, UndoRole, ThreadStep, store, ctrl
  <2> QED BY <1>5, <2>1, <2>3, ThreadStepKeeps DEF UndoRole, store
<1>6. CASE NoteEpoch(n, t)
  <2>1. ThreadStep
    BY <1>6, StepGoto, StepReturn DEF NoteEpoch, ThreadPC
  <2>2. served' \in [Node -> Nat]
    <3>1. thread[n][t] \in ThreadRec /\ served \in [Node -> Nat]
      BY DEF TypeOK
    <3>2. thread[n][t].e \in Nat
      BY <3>1 DEF ThreadRec
    <3> QED BY <1>6, <3>1, <3>2 DEF NoteEpoch
  <2>3. TypeOK'
    BY <1>6, <2>1, <2>2 DEF TypeOK, NoteEpoch, ThreadStep, store, ctrl
  <2> QED BY <1>6, <2>1, <2>3, ThreadStepKeeps DEF NoteEpoch, store
<1>7. CASE BeginDraining(n, t)
  <2>1. ThreadStep
    BY <1>7, StepGoto, StepReturn DEF BeginDraining, ThreadPC
  <2>2. role' \in [Node -> {"standby", "activating", "active", "draining"}]
    BY <1>7, RoleType DEF BeginDraining, TypeOK
  <2>3. TypeOK'
    BY <1>7, <2>1, <2>2 DEF TypeOK, BeginDraining, ThreadStep, store, ctrl
  <2> QED BY <1>7, <2>1, <2>3, ThreadStepKeeps DEF BeginDraining, store
<1> QED BY <1>1, <1>2, <1>3, <1>4, <1>5, <1>6, <1>7

LEMMA HeldNat ==
  ASSUME TypeOK, NEW n \in Node, NEW e \in Held(n)
  PROVE  e \in Nat
<1>1. CASE e \in {thread[n][t].e : t \in Thread}
  <2>1. PICK t \in Thread : e = thread[n][t].e
    BY <1>1
  <2>2. thread[n][t] \in ThreadRec
    BY DEF TypeOK
  <2> QED BY <2>1, <2>2 DEF ThreadRec
<1>2. CASE e \in {queue[n][i].e : i \in DOMAIN queue[n]}
  <2>1. PICK i \in DOMAIN queue[n] : e = queue[n][i].e
    BY <1>2
  <2>2. queue[n] \in Seq(Work)
    BY DEF TypeOK
  <2>3. queue[n][i] \in Work
    BY <2>1, <2>2
  <2> QED BY <2>1, <2>3 DEF Work
<1>3. CASE e \in {loop[n].e, plane[n]}
  <2>1. loop[n] \in LoopRec /\ plane[n] \in Nat
    BY DEF TypeOK
  <2> QED BY <1>3, <2>1 DEF LoopRec
<1> QED BY <1>1, <1>2, <1>3 DEF Held

\* bump_epoch mints an epoch nobody holds and gives it to one thread.
LEMMA BumpStep ==
  ASSUME IInv, NEW n \in Node, NEW t \in Thread, BumpEpoch(n, t)
  PROVE  IInv'
<1>1. CASE Fault /\ Goto(n, t, "undo") /\ UNCHANGED epoch
  <2>1. ThreadStep
    BY <1>1, StepGoto DEF IInv, ThreadPC
  <2>2. TypeOK'
    BY <1>1, <2>1, FaultType DEF IInv, TypeOK, BumpEpoch, ThreadStep, ctrl
  <2>3. Keeps
    BY <1>1, <2>1, ThreadStepKeeps DEF BumpEpoch
  <2> QED BY <2>2, <2>3, KeepsInv DEF IInv, TypeOK
<1>2. CASE ~(Fault /\ Goto(n, t, "undo") /\ UNCHANGED epoch)
  <2> DEFINE r == [pc |-> "note", e |-> epoch + 1, flag |-> FALSE]
  <2>0. thread \in [Node -> [Thread -> ThreadRec]] /\ epoch \in Nat
    BY DEF IInv, TypeOK
  <2>1. /\ epoch' = epoch + 1
        /\ thread' = [thread EXCEPT ![n][t] = r]
        /\ UNCHANGED <<fence, left, run, ctrl, plane, queue, loop, ticked, budget>>
    BY <1>2 DEF BumpEpoch, Bumped
  <2>2. r \in ThreadRec /\ r.e = epoch + 1
    BY <2>0 DEF ThreadRec, ThreadPC
  <2>3. thread' = [thread EXCEPT ![n] = [thread[n] EXCEPT ![t] = r]]
    BY <2>0, <2>1
  <2> HIDE DEF r
  <2>4. thread' \in [Node -> [Thread -> ThreadRec]]
    BY <2>0, <2>2, <2>3
  <2>5. TypeOK'
    BY <2>0, <2>1, <2>4 DEF IInv, TypeOK, ctrl
  <2>6. ASSUME NEW m \in Node, NEW e \in Held(m)'
        PROVE  e \in Held(m) \/ (m = n /\ e = epoch + 1)
    <3>1. CASE e \in {thread[m][u].e : u \in Thread}'
      <4>1. PICK u \in Thread : e = thread'[m][u].e
        BY <3>1 DEF Thread
      <4>2. CASE m = n /\ u = t
        BY <2>0, <2>2, <2>3, <4>1, <4>2
      <4>3. CASE ~(m = n /\ u = t)
        <5>1. thread'[m][u] = thread[m][u]
          BY <2>0, <2>3, <4>3
        <5> QED BY <4>1, <5>1 DEF Held
      <4> QED BY <4>2, <4>3
    <3>2. CASE e \in {queue[m][i].e : i \in DOMAIN queue[m]} \cup {loop[m].e, plane[m]}
      BY <3>2 DEF Held
    <3> QED BY <2>1, <2>6, <3>1, <3>2 DEF Held
  <2>7. ASSUME NEW m \in Node
        PROVE  epoch + 1 \notin Held(m)
    BY <2>0 DEF IInv, Minted
  <2>8. ASSUME NEW m \in Node, NEW e \in Held(m)
        PROVE  e <= epoch + 1
    <3>1. e \in Nat
      BY <2>8, HeldNat DEF IInv
    <3> QED BY <2>0, <2>8, <3>1 DEF IInv, Minted
  <2>9. Minted'
    BY <2>0, <2>1, <2>6, <2>8 DEF Minted
  <2>10. Unshared'
    <3> SUFFICES ASSUME NEW k \in Node, NEW m \in Node, k # m, NEW e \in Held(k)' \cap Held(m)'
                 PROVE  e = 0
      BY DEF Unshared
    <3>1. (e \in Held(k) \/ (k = n /\ e = epoch + 1)) /\ (e \in Held(m) \/ (m = n /\ e = epoch + 1))
      BY <2>6
    <3>2. e \in Held(k) /\ e \in Held(m)
      BY <2>7, <3>1
    <3> QED BY <3>2 DEF IInv, Unshared
  <2> QED BY <2>5, <2>9, <2>10 DEF IInv
<1> QED BY <1>1, <1>2

\* hooks_.post: what the thread held is now in the queue.
LEMMA PostStep ==
  ASSUME TypeOK, NEW n \in Node, NEW t \in Thread, PostActivation(n, t) \/ PostDraining(n, t)
  PROVE  TypeOK' /\ Keeps
<1>0. /\ thread[n][t] \in ThreadRec /\ queue \in [Node -> Seq(Work)]
  BY DEF TypeOK
<1>1. PICK w \in Work : /\ w.e \in {0, thread[n][t].e}
                       /\ queue' = [queue EXCEPT ![n] = Append(queue[n], w)]
                       /\ Return(n, t)
                       /\ UNCHANGED <<store, run, ctrl, plane, loop, ticked, budget>>
  <2>1. CASE PostActivation(n, t)
    <3> DEFINE w == [op |-> "activate", e |-> thread[n][t].e, release |-> FALSE]
    <3>1. w \in Work /\ w.e = thread[n][t].e
      BY <1>0 DEF Work, ThreadRec
    <3>2. /\ queue' = [queue EXCEPT ![n] = Append(queue[n], w)]
          /\ Return(n, t)
          /\ UNCHANGED <<store, run, ctrl, plane, loop, ticked, budget>>
      BY <1>0, <2>1 DEF PostActivation, Post
    <3> QED BY <3>1, <3>2
  <2>2. CASE PostDraining(n, t)
    <3> DEFINE w == [op |-> "drain", e |-> 0, release |-> thread[n][t].flag]
    <3>1. w \in Work /\ w.e = 0
      BY <1>0 DEF Work, ThreadRec
    <3>2. /\ queue' = [queue EXCEPT ![n] = Append(queue[n], w)]
          /\ Return(n, t)
          /\ UNCHANGED <<store, run, ctrl, plane, loop, ticked, budget>>
      BY <1>0, <2>2 DEF PostDraining, Post
    <3> QED BY <3>1, <3>2
  <2> QED BY <2>1, <2>2
<1>2. ThreadStep
  BY <1>1, StepReturn
<1>3. TypeOK'
  <2>1. queue' \in [Node -> Seq(Work)]
    BY <1>0, <1>1
  <2> QED BY <1>1, <1>2, <2>1 DEF TypeOK, ThreadStep, store, ctrl
<1>4. ASSUME NEW m \in Node, NEW e \in Held(m)'
      PROVE  e \in Held(m) \cup {0}
  <2>1. CASE e \in {thread[m][u].e : u \in Thread}'
    <3>1. PICK u \in Thread : e = thread'[m][u].e
      BY <2>1 DEF Thread
    <3> QED BY <1>2, <3>1 DEF Held, ThreadStep
  <2>2. CASE e \in {queue[m][i].e : i \in DOMAIN queue[m]}'
    <3>1. PICK i \in DOMAIN queue'[m] : e = queue'[m][i].e
      BY <2>2
    <3>2. CASE m = n
      <4>1. queue'[m] = Append(queue[m], w) /\ queue[m] \in Seq(Work)
        BY <1>0, <1>1, <3>2
      <4>2. queue'[m][i] = w \/ (i \in DOMAIN queue[m] /\ queue'[m][i] = queue[m][i])
        BY <3>1, <4>1
      <4> QED BY <1>1, <3>1, <3>2, <4>2 DEF Held
    <3>3. CASE m # n
      BY <1>0, <1>1, <3>1, <3>3 DEF Held
    <3> QED BY <3>2, <3>3
  <2>3. CASE e \in {loop'[m].e, plane'[m]}
    BY <1>1, <2>3 DEF Held
  <2> QED BY <1>4, <2>1, <2>2, <2>3 DEF Held
<1> QED BY <1>1, <1>3, <1>4 DEF Keeps, store

\* A step of the main loop leaves the threads alone and moves at most one work item.
LEMMA HeldKeeps ==
  ASSUME epoch' = epoch, UNCHANGED thread,
         \A m \in Node : /\ \A i \in DOMAIN queue'[m] : queue'[m][i].e \in Held(m)
                        /\ loop'[m].e \in Held(m) \cup {0}
                        /\ plane'[m] \in Held(m) \cup {0}
  PROVE  Keeps
<1> SUFFICES ASSUME NEW m \in Node, NEW e \in Held(m)'
             PROVE  e \in Held(m) \cup {0}
  BY DEF Keeps
<1>1. CASE e \in {thread[m][u].e : u \in Thread}'
  BY <1>1 DEF Held, Thread
<1>2. CASE e \in {queue[m][i].e : i \in DOMAIN queue[m]}'
  BY <1>2
<1>3. CASE e \in {loop'[m].e, plane'[m]}
  BY <1>3
<1> QED BY <1>1, <1>2, <1>3 DEF Held

\* What is in the queue, in the loop or served is held.
LEMMA HeldParts ==
  ASSUME NEW m \in Node
  PROVE  /\ \A i \in DOMAIN queue[m] : queue[m][i].e \in Held(m)
         /\ loop[m].e \in Held(m) /\ plane[m] \in Held(m)
BY DEF Held

LEMMA LoopTakeStep ==
  ASSUME TypeOK, NEW n \in Node, LoopTake(n)
  PROVE  TypeOK' /\ Keeps
<1> DEFINE w == Head(queue[n])
           r == [pc |-> w.op, e |-> w.e, release |-> w.release]
<1>0. queue \in [Node -> Seq(Work)] /\ loop \in [Node -> LoopRec] /\ queue[n] # <<>>
  BY DEF TypeOK, LoopTake
<1>1. queue[n] \in Seq(Work) /\ 1 \in DOMAIN queue[n] /\ w = queue[n][1] /\ w \in Work
  BY <1>0
<1>2. r \in LoopRec /\ r.e = w.e
  BY <1>1 DEF Work, LoopRec, LoopPC
<1>3. loop' = [loop EXCEPT ![n] = r] /\ queue' = [queue EXCEPT ![n] = Tail(queue[n])]
  BY <1>0 DEF LoopTake
<1>4. UNCHANGED <<store, run, ctrl, plane, thread, ticked, budget>>
  BY DEF LoopTake
<1>5. Tail(queue[n]) \in Seq(Work)
  BY <1>0, <1>1
<1> HIDE DEF r
<1>6. loop' \in [Node -> LoopRec] /\ queue' \in [Node -> Seq(Work)]
  BY <1>0, <1>2, <1>3, <1>5
<1>7. TypeOK'
  BY <1>4, <1>6 DEF TypeOK, store, ctrl
<1>8. ASSUME NEW m \in Node
      PROVE  /\ \A i \in DOMAIN queue'[m] : queue'[m][i].e \in Held(m)
             /\ loop'[m].e \in Held(m) \cup {0}
             /\ plane'[m] \in Held(m) \cup {0}
  <2>1. CASE m = n
    <3>1. loop'[m].e = queue[m][1].e
      BY <1>0, <1>1, <1>2, <1>3, <2>1
    <3>2. ASSUME NEW i \in DOMAIN queue'[m]
          PROVE  queue'[m][i].e \in Held(m)
      <4>1. queue'[m] = Tail(queue[m])
        BY <1>0, <1>3, <2>1
      <4>2. i + 1 \in DOMAIN queue[m] /\ queue'[m][i] = queue[m][i + 1]
        BY <1>0, <1>1, <2>1, <4>1
      <4> QED BY <4>2, HeldParts
    <3> QED BY <1>1, <1>4, <2>1, <3>1, <3>2, HeldParts
  <2>2. CASE m # n
    <3>1. loop'[m] = loop[m] /\ queue'[m] = queue[m] /\ plane'[m] = plane[m]
      BY <1>0, <1>3, <1>4, <2>2
    <3> QED BY <3>1, HeldParts
  <2> QED BY <2>1, <2>2
<1>9. epoch' = epoch /\ UNCHANGED thread
  BY <1>4 DEF store
<1>10. Keeps
  BY <1>8, <1>9, HeldKeeps
<1> QED BY <1>7, <1>10

\* A step that gives the loop record r and the plane p, both out of what n holds.
LEMMA LoopFacts ==
  ASSUME TypeOK, NEW n \in Node, NEW r \in LoopRec, NEW p \in Nat,
         r.e \in {0, loop[n].e}, p \in {0, loop[n].e, plane[n]},
         loop' = [loop EXCEPT ![n] = r], plane' = [plane EXCEPT ![n] = p],
         epoch' = epoch, UNCHANGED <<queue, thread>>
  PROVE  loop' \in [Node -> LoopRec] /\ plane' \in [Node -> Nat] /\ Keeps
<1>1. loop \in [Node -> LoopRec] /\ plane \in [Node -> Nat]
  BY DEF TypeOK
<1>2. ASSUME NEW m \in Node
      PROVE  /\ \A i \in DOMAIN queue'[m] : queue'[m][i].e \in Held(m)
             /\ loop'[m].e \in Held(m) \cup {0}
             /\ plane'[m] \in Held(m) \cup {0}
  <2>1. CASE m = n
    BY <1>1, <2>1, HeldParts
  <2>2. CASE m # n
    BY <1>1, <2>2, HeldParts
  <2> QED BY <2>1, <2>2
<1> QED BY <1>1, <1>2, HeldKeeps

\* The main loop goes on to place p of the same item.
LEMMA LoopGoto ==
  ASSUME TypeOK, NEW n \in Node, NEW p \in LoopPC, NEW q \in Nat, q \in {0, loop[n].e, plane[n]},
         loop' = [loop EXCEPT ![n].pc = p], plane' = [plane EXCEPT ![n] = q],
         epoch' = epoch, UNCHANGED <<queue, thread>>
  PROVE  loop' \in [Node -> LoopRec] /\ plane' \in [Node -> Nat] /\ Keeps
<1> DEFINE r == [loop[n] EXCEPT !.pc = p]
<1>1. loop[n] \in LoopRec
  BY DEF TypeOK
<1>2. r \in LoopRec /\ r.e = loop[n].e
  BY <1>1 DEF LoopRec
<1>3. loop' = [loop EXCEPT ![n] = r]
  BY <1>1
<1> HIDE DEF r
<1> QED BY <1>2, <1>3, LoopFacts

LEMMA SamePlane ==
  ASSUME TypeOK, NEW n \in Node, UNCHANGED plane
  PROVE  plane' = [plane EXCEPT ![n] = plane[n]] /\ plane[n] \in Nat
BY DEF TypeOK

LEMMA LoopEnd ==
  ASSUME TypeOK, NEW n \in Node, LoopDone(n), UNCHANGED plane,
         epoch' = epoch, UNCHANGED <<queue, thread>>
  PROVE  loop' \in [Node -> LoopRec] /\ plane' \in [Node -> Nat] /\ Keeps
<1>1. NoWork \in LoopRec /\ NoWork.e = 0
  BY DEF NoWork, LoopRec, LoopPC
<1>2. loop' = [loop EXCEPT ![n] = NoWork]
  BY DEF LoopDone
<1>3. plane' = [plane EXCEPT ![n] = plane[n]] /\ plane[n] \in Nat
  BY SamePlane
<1> HIDE DEF NoWork
<1> QED BY <1>1, <1>2, <1>3, LoopFacts

LEMMA MainLoopStep ==
  ASSUME TypeOK, NEW n \in Node, MainLoop(n)
  PROVE  TypeOK' /\ Keeps
<1>0. loop[n] \in LoopRec /\ loop[n].e \in Nat /\ plane \in [Node -> Nat]
  BY DEF TypeOK, LoopRec
<1>1. CASE LoopTake(n)
  BY <1>1, LoopTakeStep
<1>2. CASE RunActivate(n)
  <2>0. epoch' = epoch /\ UNCHANGED <<queue, thread>>
    BY <1>2 DEF RunActivate, store
  <2>1. loop' \in [Node -> LoopRec] /\ plane' \in [Node -> Nat] /\ Keeps
    <3>1. CASE plane' = [plane EXCEPT ![n] = loop[n].e] /\ loop' = [loop EXCEPT ![n].pc = "activated"]
      BY <1>0, <2>0, <3>1, LoopGoto DEF LoopPC
    <3>2. CASE plane' = [plane EXCEPT ![n] = 0] /\ loop' = [loop EXCEPT ![n].pc = "failed"]
      BY <1>0, <2>0, <3>2, LoopGoto DEF LoopPC
    <3> QED BY <1>2, <3>1, <3>2 DEF RunActivate, Built
  <2>2. budget' \in [request : Nat, fault : Nat, down : Nat]
    BY <1>2, FaultType DEF RunActivate, TypeOK
  <2> QED BY <1>2, <2>1, <2>2 DEF RunActivate, TypeOK, store, ctrl
<1>3. CASE Activated(n)
  <2>1. loop' \in [Node -> LoopRec] /\ plane' \in [Node -> Nat] /\ Keeps
    BY <1>3, LoopEnd DEF Activated, store
  <2>2. role' \in [Node -> {"standby", "activating", "active", "draining"}]
    BY <1>3, RoleType DEF Activated, TypeOK
  <2> QED BY <1>3, <2>1, <2>2 DEF Activated, TypeOK, store
<1>4. CASE ActivationFailed(n)
  <2>1. loop' \in [Node -> LoopRec] /\ plane' \in [Node -> Nat] /\ Keeps
    BY <1>4, LoopEnd DEF ActivationFailed
  <2>2. role' \in [Node -> {"standby", "activating", "active", "draining"}]
    BY <1>4, RoleType DEF ActivationFailed, TypeOK
  <2>3. budget' \in [request : Nat, fault : Nat, down : Nat]
    <3>1. Fault \/ budget' = budget
      BY <1>4 DEF ActivationFailed
    <3> QED BY <3>1, FaultType DEF TypeOK
  <2>4. fence' \in Node \cup {None}
    BY <1>4, ReleaseType DEF ActivationFailed, TypeOK
  <2> QED BY <1>4, <2>1, <2>2, <2>3, <2>4 DEF ActivationFailed, TypeOK
<1>5. CASE RunDrain(n)
  <2>1. loop' \in [Node -> LoopRec] /\ plane' \in [Node -> Nat] /\ Keeps
    <3>1. PICK p \in LoopPC : loop' = [loop EXCEPT ![n].pc = p]
      BY <1>5 DEF RunDrain, LoopPC
    <3>2. plane' = [plane EXCEPT ![n] = 0] /\ epoch' = epoch /\ UNCHANGED <<queue, thread>>
      BY <1>5 DEF RunDrain, TornDown, store
    <3> QED BY <3>1, <3>2, LoopGoto
  <2> QED BY <1>5, <2>1 DEF RunDrain, TypeOK, store, ctrl
<1>6. CASE DrainRelease(n)
  <2>1. loop' \in [Node -> LoopRec] /\ plane' \in [Node -> Nat] /\ Keeps
    <3>1. loop' = [loop EXCEPT ![n].pc = "standby"] /\ epoch' = epoch /\ UNCHANGED <<queue, thread, plane>>
      BY <1>6 DEF DrainRelease
    <3>2. plane' = [plane EXCEPT ![n] = plane[n]] /\ plane[n] \in Nat
      BY <3>1, SamePlane
    <3>3. "standby" \in LoopPC
      BY DEF LoopPC
    <3> QED BY <3>1, <3>2, <3>3, LoopGoto
  <2>2. budget' \in [request : Nat, fault : Nat, down : Nat]
    BY <1>6, FaultType DEF DrainRelease, TypeOK
  <2>3. fence' \in Node \cup {None}
    BY <1>6, ReleaseType DEF DrainRelease, TypeOK
  <2> QED BY <1>6, <2>1, <2>2, <2>3 DEF DrainRelease, TypeOK, ctrl
<1>7. CASE DrainDone(n)
  <2>1. loop' \in [Node -> LoopRec] /\ plane' \in [Node -> Nat] /\ Keeps
    BY <1>7, LoopEnd DEF DrainDone, store
  <2>2. role' \in [Node -> {"standby", "activating", "active", "draining"}]
    BY <1>7, RoleType DEF DrainDone, TypeOK
  <2>3. served' \in [Node -> Nat]
    BY <1>7 DEF DrainDone, TypeOK
  <2> QED BY <1>7, <2>1, <2>2, <2>3 DEF DrainDone, TypeOK, store
<1> QED BY <1>1, <1>2, <1>3, <1>4, <1>5, <1>6, <1>7 DEF MainLoop

LEMMA DownType ==
  ASSUME TypeOK, Down
  PROVE  budget' \in [request : Nat, fault : Nat, down : Nat]
<1>1. budget \in [request : Nat, fault : Nat, down : Nat] /\ budget.down > 0
  BY DEF TypeOK, Down
<1>2. budget.down - 1 \in Nat
  BY <1>1
<1>3. budget' = [budget EXCEPT !.down = budget.down - 1]
  BY <1>1 DEF Down
<1> QED BY <1>1, <1>2, <1>3

\* A process that is gone holds nothing.
LEMMA ForgottenStep ==
  ASSUME TypeOK, NEW n \in Node, Forgotten(n), budget' \in [request : Nat, fault : Nat, down : Nat]
  PROVE  TypeOK' /\ Keeps
<1>1. Idle \in ThreadRec /\ Idle.e = 0 /\ NoWork \in LoopRec /\ NoWork.e = 0
  BY DEF Idle, NoWork, ThreadRec, ThreadPC, LoopRec, LoopPC
<1>2. /\ thread \in [Node -> [Thread -> ThreadRec]] /\ loop \in [Node -> LoopRec]
      /\ queue \in [Node -> Seq(Work)] /\ plane \in [Node -> Nat]
  BY DEF TypeOK
<1>3. /\ thread' = [thread EXCEPT ![n] = [t \in Thread |-> Idle]]
      /\ loop' = [loop EXCEPT ![n] = NoWork]
      /\ queue' = [queue EXCEPT ![n] = <<>>]
      /\ plane' = [plane EXCEPT ![n] = 0]
  BY DEF Forgotten
<1>4. epoch' = epoch
  BY DEF Forgotten, store
<1> HIDE DEF Idle, NoWork
<1>5. /\ thread' \in [Node -> [Thread -> ThreadRec]] /\ loop' \in [Node -> LoopRec]
      /\ queue' \in [Node -> Seq(Work)] /\ plane' \in [Node -> Nat]
  BY <1>1, <1>2, <1>3
<1>6. TypeOK'
  BY <1>5 DEF TypeOK, Forgotten, store
<1>7. ASSUME NEW m \in Node, NEW e \in Held(m)'
      PROVE  e \in Held(m) \cup {0}
  <2>1. CASE m = n
    <3>1. /\ thread'[m] = [t \in Thread |-> Idle] /\ loop'[m] = NoWork
          /\ queue'[m] = <<>> /\ plane'[m] = 0
      BY <1>2, <1>3, <2>1
    <3>2. CASE e \in {thread[m][u].e : u \in Thread}'
      <4>1. PICK u \in Thread : e = thread'[m][u].e
        BY <3>2 DEF Thread
      <4> QED BY <1>1, <3>1, <4>1
    <3>3. CASE e \in {queue[m][i].e : i \in DOMAIN queue[m]}'
      BY <3>1, <3>3
    <3>4. CASE e \in {loop'[m].e, plane'[m]}
      BY <1>1, <3>1, <3>4
    <3> QED BY <1>7, <3>2, <3>3, <3>4 DEF Held
  <2>2. CASE m # n
    <3>1. /\ thread'[m] = thread[m] /\ loop'[m] = loop[m]
          /\ queue'[m] = queue[m] /\ plane'[m] = plane[m]
      BY <1>2, <1>3, <2>2
    <3>2. Held(m)' = Held(m)
      BY <3>1 DEF Held, Thread
    <3> QED BY <1>7, <3>2
  <2> QED BY <2>1, <2>2
<1> QED BY <1>4, <1>6, <1>7 DEF Keeps

\* Crashes, restarts, exits and the clock.
LEMMA ProcessStep ==
  ASSUME TypeOK,
         \/ \E n \in Node : Exiting(n) \/ Crash(n) \/ Restart(n) \/ BeginExit(n)
         \/ Advance
  PROVE  TypeOK' /\ Keeps
<1>1. ASSUME NEW n \in Node, Crash(n)
      PROVE  TypeOK' /\ Keeps
  BY <1>1, DownType, ForgottenStep DEF Crash
<1>2. ASSUME NEW n \in Node, ExitGone(n)
      PROVE  TypeOK' /\ Keeps
  <2>1. budget' \in [request : Nat, fault : Nat, down : Nat]
    BY <1>2 DEF ExitGone, TypeOK
  <2> QED BY <1>2, <2>1, ForgottenStep DEF ExitGone
<1>3. ASSUME NEW n \in Node, Restart(n)
      PROVE  TypeOK' /\ Keeps
  <2>1. ThreadStep
    BY <1>3, StepStay DEF Restart
  <2> QED BY <1>3, <2>1, ThreadStepKeeps DEF Restart, TypeOK, store, ctrl
<1>4. ASSUME NEW n \in Node, BeginExit(n)
      PROVE  TypeOK' /\ Keeps
  <2>1. ThreadStep
    BY <1>4, StepStay DEF BeginExit
  <2>2. budget' \in [request : Nat, fault : Nat, down : Nat]
    BY <1>4, DownType DEF BeginExit
  <2> QED BY <1>4, <2>1, <2>2, ThreadStepKeeps DEF BeginExit, TypeOK, store, ctrl
<1>5. ASSUME NEW n \in Node, ExitTakeDown(n)
      PROVE  TypeOK' /\ Keeps
  <2>1. loop \in [Node -> LoopRec] /\ loop[n] \in LoopRec
    BY DEF TypeOK
  <2>2. loop' = [loop EXCEPT ![n] = loop[n]] /\ plane' = [plane EXCEPT ![n] = 0]
        /\ epoch' = epoch /\ UNCHANGED <<queue, thread>>
    BY <1>5, <2>1 DEF ExitTakeDown, store
  <2>3. loop' \in [Node -> LoopRec] /\ plane' \in [Node -> Nat] /\ Keeps
    BY <2>1, <2>2, LoopFacts
  <2> QED BY <1>5, <2>3 DEF ExitTakeDown, TypeOK, store, ctrl
<1>6. ASSUME NEW n \in Node, ExitRelease(n)
      PROVE  TypeOK' /\ Keeps
  <2>1. ThreadStep
    BY <1>6, StepStay DEF ExitRelease
  <2>2. budget' \in [request : Nat, fault : Nat, down : Nat]
    BY <1>6, FaultType DEF ExitRelease, TypeOK
  <2>3. fence' \in Node \cup {None}
    BY <1>6, ReleaseType DEF ExitRelease, TypeOK
  <2>4. TypeOK'
    BY <1>6, <2>1, <2>2, <2>3 DEF ExitRelease, TypeOK, ctrl
  <2> QED BY <1>6, <2>1, <2>4, ThreadStepKeeps DEF ExitRelease
<1>7. CASE Advance
  <2>1. ThreadStep
    BY <1>7, StepStay DEF Advance
  <2>2. left' \in 0 .. Ttl + 1
    BY <1>7, FailoverAssumption DEF Advance, TypeOK, FailoverAssumption
  <2>3. TypeOK'
    BY <1>7, <2>1, <2>2 DEF Advance, TypeOK, ctrl
  <2> QED BY <1>7, <2>1, <2>3, ThreadStepKeeps DEF Advance
<1> QED BY <1>1, <1>2, <1>3, <1>4, <1>5, <1>6, <1>7 DEF Exiting

LEMMA InitIInv == Init => IInv
<1> SUFFICES ASSUME Init PROVE IInv
  OBVIOUS
<1>1. Idle \in ThreadRec /\ Idle.e = 0 /\ NoWork \in LoopRec /\ NoWork.e = 0
  BY DEF Idle, NoWork, ThreadRec, ThreadPC, LoopRec, LoopPC
<1> HIDE DEF Idle, NoWork
<1>2. budget \in [request : Nat, fault : Nat, down : Nat] /\ left \in 0 .. Ttl + 1
  BY FailoverAssumption DEF Init, FailoverAssumption
<1>3. TypeOK
  BY <1>1, <1>2 DEF Init, TypeOK
<1>4. ASSUME NEW n \in Node, NEW e \in Held(n)
      PROVE  e = 0
  <2>1. \A t \in Thread : thread[n][t].e = 0
    BY <1>1 DEF Init
  <2>2. DOMAIN queue[n] = {}
    BY DEF Init
  <2>3. loop[n].e = 0 /\ plane[n] = 0
    BY <1>1 DEF Init
  <2> QED BY <1>4, <2>1, <2>2, <2>3 DEF Held
<1> QED BY <1>3, <1>4 DEF IInv, Minted, Unshared, Init

LEMMA NextIInv == IInv /\ [Next]_vars => IInv'
<1> SUFFICES ASSUME IInv, [Next]_vars PROVE IInv'
  OBVIOUS
<1>1. ASSUME NEW n \in Node, NEW t \in Thread, BumpEpoch(n, t)
      PROVE  IInv'
  BY <1>1, BumpStep
<1>2. ASSUME TypeOK' /\ Keeps
      PROVE  IInv'
  BY <1>2, KeepsInv DEF IInv, TypeOK
<1>3. ASSUME NEW n \in Node, Tick(n) \/ MainLoop(n)
      PROVE  IInv'
  BY <1>2, <1>3, TickStep, MainLoopStep DEF IInv
<1>4. ASSUME NEW n \in Node, NEW t \in Thread, Activation(n, t) \/ Draining(n, t)
      PROVE  IInv'
  BY <1>1, <1>2, <1>4, ActivationStep, PostStep DEF IInv, Activation, Draining
<1>5. ASSUME NEW n \in Node, NEW t \in Ctl, CtlRequest(n, t)
      PROVE  IInv'
  BY <1>2, <1>5, CtlRequestStep DEF IInv
<1>6. ASSUME \/ \E n \in Node : Exiting(n) \/ Crash(n) \/ Restart(n) \/ BeginExit(n)
             \/ Advance
      PROVE  IInv'
  BY <1>2, <1>6, ProcessStep DEF IInv
<1>7. CASE UNCHANGED vars
  <2>1. ThreadStep
    BY <1>7, StepStay DEF vars, IInv
  <2>2. TypeOK'
    BY <1>7 DEF vars, IInv, TypeOK
  <2>3. Keeps
    BY <1>7, <2>1, ThreadStepKeeps DEF vars
  <2> QED BY <1>2, <2>2, <2>3
<1> QED BY <1>3, <1>4, <1>5, <1>6, <1>7 DEF Next

\* The invariant holds in every state: every epoch on its way to a data plane, or served by
\* one, was minted by bump_epoch and belongs to one gateway.
THEOREM Invariance == Spec => []IInv
BY InitIInv, NextIInv, PTL DEF Spec

\* No two gateways ever serve the same epoch, so what one of them issued is STALE on the
\* other even in a split brain (begin_activation's epoch++).
THEOREM EpochsDistinctThm == Spec => []EpochsDistinct
<1>1. IInv => EpochsDistinct
  <2> SUFFICES ASSUME IInv, NEW m \in Node, NEW n \in Node, m # n, plane[m] # 0
               PROVE  plane[m] # plane[n]
    BY DEF EpochsDistinct
  <2> QED BY HeldParts DEF IInv, Unshared
<1> QED BY <1>1, Invariance, PTL

\* The variables of the failover machine keep their types.
THEOREM TypeCorrect == Spec => []TypeOK
<1>1. IInv => TypeOK
  BY DEF IInv
<1> QED BY <1>1, Invariance, PTL
=============================================================================
