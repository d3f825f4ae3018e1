---------------------------- MODULE SessionSlots ----------------------------
(***************************************************************************)
(* SEQUENCE on one NFSv4.1 session: StateMgr::sequence_begin, _abort and   *)
(* _complete (state/state_mgr.cpp) as Engine::compound (nfsv4/engine.cpp)  *)
(* calls them, with the operations that take the session away.  Every      *)
(* method holds the session shard's AsyncMutex except while it waits on a  *)
(* slot's condition variable, so the part between two waits is one step.   *)
(*                                                                         *)
(* The client numbers the requests of a slot 1, 2, 3, ... and sends        *)
(* number n as seqid n % SeqMod (2^32 in the code).  It may transmit a     *)
(* request once on each connection, and sends the next request when it has *)
(* the reply to the one before.                                            *)
(***************************************************************************)
EXTENDS Naturals

CONSTANTS
  SlotCount,  \* SessionRec::slot_count
  Conn,       \* connections of the client
  MaxReq,     \* bound: requests per slot
  SeqMod,     \* seqids wrap at this number
  MaxThrow    \* bound: handlers that end in an exception

ASSUME SlotsAssumption ==
  /\ SlotCount \in Nat \ {0}
  /\ MaxReq \in Nat \ {0}
  /\ SeqMod \in Nat /\ SeqMod > 2
  /\ MaxThrow \in Nat

VARIABLES
  session,  \* "live" while the session shard's table has the session
  expired,  \* ClientRec::expired of the session's client
  bound,    \* SessionRec::bound_conns
  slot,     \* SessionRec::slots
  pc,       \* where each transmission is, or how it was answered
  last,     \* history: the request each slot answered last
  runs,     \* history: how often each request's operations ran
  throws    \* exceptions so far

vars == <<session, expired, bound, slot, pc, last, runs, throws>>

Slots == 0..(SlotCount - 1)

\* A transmission: its slot, the number of its request and its connection.
Tx == Slots \X (1..MaxReq) \X Conn

SlotOf(t) == t[1]
Num(t) == t[2]
ConnOf(t) == t[3]
Seqid(t) == Num(t) % SeqMod

\* "queued" waits on the slot, "notified" is to take the shard's mutex again, "exec"
\* has claimed the slot.
Pending == {"sent", "queued", "notified"}

\* Answers that tell the client its request was executed.
Replies == {"fresh", "replay", "uncached"}

\* "refused" stands for BADSESSION, BAD_HIGH_SLOT, REQ_TOO_BIG, TOO_MANY_OPS and
\* REP_TOO_BIG_TO_CACHE, "error" for the SYSTEM_ERR an exception leads to.
Answers == Replies \cup {"misordered", "refused", "error"}

\* reply is the request whose reply the slot caches, 0 when there is none.
SlotRec == [seqid : 0..(SeqMod - 1), in_flight : BOOLEAN, cached : BOOLEAN, reply : 0..MaxReq]

\* The variables keep their types.
TypeOK ==
  /\ session \in {"live", "gone"}
  /\ expired \in BOOLEAN
  /\ bound \subseteq Conn
  /\ slot \in [Slots -> SlotRec]
  /\ pc \in [Tx -> {"unsent", "exec"} \cup Pending \cup Answers]
  /\ last \in [Slots -> 0..MaxReq]
  /\ runs \in [Slots -> [1..MaxReq -> Nat]]
  /\ throws \in 0..MaxThrow

\* CREATE_SESSION binds the connection it came on.
Init ==
  /\ session = "live"
  /\ expired = FALSE
  /\ bound \in {{c} : c \in Conn}
  /\ slot = [s \in Slots |-> [seqid |-> 0, in_flight |-> FALSE, cached |-> FALSE, reply |-> 0]]
  /\ pc = [t \in Tx |-> "unsent"]
  /\ last = [s \in Slots |-> 0]
  /\ runs = [s \in Slots |-> [n \in 1..MaxReq |-> 0]]
  /\ throws = 0
-----------------------------------------------------------------------------
\* The client has the reply to request n of slot s.
Answered(s, n) == \E c \in Conn : pc[<<s, n, c>>] \in Replies

\* No transmission outlives SeqMod - 2 later requests of its slot (2^32 - 2 in the code).
InWindow(t) ==
  \A u \in Tx : SlotOf(u) = SlotOf(t) =>
    /\ pc[u] # "unsent" => Num(u) <= Num(t) + (SeqMod - 2)
    /\ pc[u] \in Pending => Num(t) <= Num(u) + (SeqMod - 2)

\* The client transmits a request or retransmits it on another connection; the network
\* may deliver a transmission at any later time, or never.
Send(t) ==
  /\ pc[t] = "unsent"
  /\ Num(t) > 1 => Answered(SlotOf(t), Num(t) - 1)
  /\ InWindow(t)
  /\ pc' = [pc EXCEPT ![t] = "sent"]
  /\ UNCHANGED <<session, expired, bound, slot, last, runs, throws>>
-----------------------------------------------------------------------------
\* Faulty: the slot's waiters are not woken.
NotifiedNone(p, ss) == p

\* notify_all on the condition variables of the slots in ss.
Notified(p, ss) ==
  [t \in Tx |-> IF p[t] = "queued" /\ SlotOf(t) \in ss THEN "notified" ELSE p[t]]

NextSeqid(sl) == (sl.seqid + 1) % SeqMod

\* Faulty: a slot that is in flight may be claimed again.
MayClaimBusy(sl, seqid) == seqid = NextSeqid(sl)

\* A new request: the slot is idle and the seqid is the next one.
MayClaim(sl, seqid) == ~sl.in_flight /\ seqid = NextSeqid(sl)

\* A retransmission of the request that is being executed.
MustWait(sl, seqid) == sl.in_flight /\ seqid = NextSeqid(sl)

\* Faulty: only cached replies are taken for replays.
MayReplayCached(sl, seqid) ==
  ~sl.in_flight /\ seqid = sl.seqid /\ sl.seqid # 0 /\ sl.cached

\* A retransmission of the request answered last.
MayReplay(sl, seqid) == ~sl.in_flight /\ seqid = sl.seqid /\ sl.seqid # 0

\* How sequence_begin classifies a transmission against its slot.
Classified(sl, seqid) ==
  CASE MayClaim(sl, seqid)  -> "exec"
    [] MustWait(sl, seqid)  -> "queued"
    [] MayReplay(sl, seqid) -> IF sl.cached THEN "replay" ELSE "uncached"
    [] OTHER                -> "misordered"

\* sequence_begin: a session that is gone or whose client is being reclaimed is refused;
\* otherwise the connection is bound and the transmission classified.  A highest_slotid
\* that is out of range is refused before the slot is looked at.
SequenceBegin(t) ==
  LET sl == slot[SlotOf(t)]
      to == Classified(sl, Seqid(t))
  IN
  /\ pc[t] \in {"sent", "notified"}
  /\ \/ /\ session = "gone" \/ expired
        /\ pc' = [pc EXCEPT ![t] = "refused"]
        /\ UNCHANGED <<bound, slot>>
     \/ /\ session = "live" /\ ~expired
        /\ bound' = bound \cup {ConnOf(t)}
        /\ \/ /\ pc[t] = "sent"
              /\ pc' = [pc EXCEPT ![t] = "refused"]
              /\ UNCHANGED slot
           \/ /\ pc' = [pc EXCEPT ![t] = to]
              /\ slot' = [slot EXCEPT ![SlotOf(t)].in_flight = @ \/ to = "exec"]
  /\ UNCHANGED <<session, expired, last, runs, throws>>

\* A compound too big for the session, or not cacheable, gives the slot back unused.
SequenceAbort(t) ==
  /\ pc[t] = "exec"
  /\ \/ /\ session = "live"
        /\ slot' = [slot EXCEPT ![SlotOf(t)].in_flight = FALSE]
        /\ pc' = Notified([pc EXCEPT ![t] = "refused"], {SlotOf(t)})
     \/ /\ session = "gone"
        /\ pc' = [pc EXCEPT ![t] = "refused"]
        /\ UNCHANGED slot
  /\ UNCHANGED <<session, expired, bound, last, runs, throws>>

\* Faulty: the reply of an uncached request leaves the slot's old reply in place.
CompletedKeepsReply(sl, t, cache) ==
  [seqid |-> Seqid(t), in_flight |-> FALSE, cached |-> sl.cached \/ cache,
   reply |-> IF cache THEN Num(t) ELSE sl.reply]

\* Faulty: the slot keeps the request's number beyond the width of a seqid.
CompletedUnwrapped(sl, t, cache) ==
  [seqid |-> Num(t), in_flight |-> FALSE, cached |-> cache,
   reply |-> IF cache THEN Num(t) ELSE 0]

\* The slot once sequence_complete has stored the reply to t.
Completed(sl, t, cache) ==
  [seqid |-> Seqid(t), in_flight |-> FALSE, cached |-> cache,
   reply |-> IF cache THEN Num(t) ELSE 0]

\* The compound's operations run, then the slot is updated (unless the session went away
\* meanwhile, DESTROY_SESSION in the compound itself included) and the reply is sent.
SequenceComplete(t) ==
  /\ pc[t] = "exec"
  /\ \/ /\ session = "live"
        /\ \E cache \in BOOLEAN :
             slot' = [slot EXCEPT ![SlotOf(t)] = Completed(@, t, cache)]
        /\ pc' = Notified([pc EXCEPT ![t] = "fresh"], {SlotOf(t)})
     \/ /\ session = "gone"
        /\ pc' = [pc EXCEPT ![t] = "fresh"]
        /\ UNCHANGED slot
  /\ last' = [last EXCEPT ![SlotOf(t)] = Num(t)]
  /\ runs' = [runs EXCEPT ![SlotOf(t)][Num(t)] = @ + 1]
  /\ UNCHANGED <<session, expired, bound, throws>>

\* An exception leaves the compound: the RPC dispatcher answers SYSTEM_ERR and nothing
\* touches the slot.
Throw(t) ==
  /\ pc[t] = "exec"
  /\ throws < MaxThrow
  /\ throws' = throws + 1
  /\ pc' = [pc EXCEPT ![t] = "error"]
  /\ runs' = [runs EXCEPT ![SlotOf(t)][Num(t)] = @ + 1]
  /\ UNCHANGED <<session, expired, bound, slot, last>>
-----------------------------------------------------------------------------
\* The table drops the session and wake_all_slots runs.
Dropped ==
  /\ session = "live"
  /\ session' = "gone"
  /\ pc' = Notified(pc, Slots)
  /\ UNCHANGED <<bound, slot, last, runs, throws>>

\* DESTROY_SESSION from a connection that is bound to the session.
DestroySession(c) ==
  /\ c \in bound
  /\ Dropped
  /\ UNCHANGED expired

\* BIND_CONN_TO_SESSION.
BindConn(c) ==
  /\ session = "live"
  /\ bound' = bound \cup {c}
  /\ UNCHANGED <<session, expired, slot, pc, last, runs, throws>>

\* The client expires, or a new incarnation of it is confirmed ...
Expire ==
  /\ ~expired
  /\ expired' = TRUE
  /\ UNCHANGED <<session, bound, slot, pc, last, runs, throws>>

\* ... and the reclaim chain gets to this session.
Reap ==
  /\ expired
  /\ Dropped
  /\ UNCHANGED expired

Next ==
  \/ \E t \in Tx : \/ Send(t) \/ SequenceBegin(t)
                   \/ SequenceAbort(t) \/ SequenceComplete(t) \/ Throw(t)
  \/ \E c \in Conn : DestroySession(c) \/ BindConn(c)
  \/ Expire \/ Reap

Spec == Init /\ [][Next]_vars

\* The shard's mutex goes round in FIFO order and compounds finish; nothing makes the
\* client send, or the network deliver, anything.
Fairness ==
  \A t \in Tx : /\ WF_vars(pc[t] = "notified" /\ SequenceBegin(t))
                /\ WF_vars(SequenceAbort(t) \/ SequenceComplete(t) \/ Throw(t))

FairSpec == Spec /\ Fairness
-----------------------------------------------------------------------------
\* Whatever is retransmitted, on whichever connection, and whatever the slot goes through,
\* the operations of a request run at most once.
ExactlyOnce == \A s \in Slots : \A n \in 1..MaxReq : runs[s][n] <= 1

\* in_flight is set exactly while one claimed compound of the slot is running (or died
\* with an exception), so sequence_complete and sequence_abort, which do not check who
\* calls them, only ever clear their own claim.
InFlightOwned ==
  session = "live" =>
    \A s \in Slots :
      LET owners == {t \in Tx : SlotOf(t) = s /\ pc[t] \in {"exec", "error"}}
      IN  /\ slot[s].in_flight <=> owners # {}
          /\ \A t, u \in owners : t = u

\* Every waiter waits for the running compound of its own request, so that compound's end
\* wakes it; a waiter of a dropped session has been woken.
WaiterHasOwner ==
  \A t \in Tx : pc[t] = "queued" =>
    /\ session = "live"
    /\ \E u \in Tx : /\ SlotOf(u) = SlotOf(t) /\ Num(u) = Num(t)
                     /\ pc[u] \in {"exec", "error"}

\* A replay is the cached reply of the very request that is retransmitted, across seqid
\* wrap-around too.
ReplayIsOwn ==
  [][\A t \in Tx : pc[t] # "replay" /\ pc'[t] = "replay" => slot[SlotOf(t)].reply = Num(t)]_vars

\* t is answered SEQ_MISORDERED though its request is the last one its idle slot answered.
LosesReplay(t) ==
  /\ pc[t] # "misordered" /\ pc'[t] = "misordered"
  /\ last[SlotOf(t)] = Num(t) /\ ~slot[SlotOf(t)].in_flight

\* A retransmission of the last request of an idle slot is recognised as a replay, unless
\* its seqid wrapped around to the 0 that marks an unused slot.
LastIsReplayed == [][\A t \in Tx : LosesReplay(t) => Seqid(t) = 0]_vars

\* Transmissions that found their request running are answered in the end, whether that
\* run completes, gives the slot back, or the session is destroyed or reclaimed: the
\* slot's wait queue empties.  The exception is a run that ended in one: nothing clears
\* its in_flight.
WaiterAnswered ==
  \A s \in Slots :
    LET on == {t \in Tx : SlotOf(t) = s}
    IN  (\E t \in on : pc[t] = "queued") ~>
          \/ \A t \in on : pc[t] \notin {"queued", "notified"}
          \/ \E t \in on : pc[t] = "error"
=============================================================================
