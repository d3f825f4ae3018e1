------------------------------ MODULE Clients ------------------------------
(***************************************************************************)
(* The client records of one co_ownerid and their sessions                 *)
(* (state/state_mgr.cpp): exchange_id, create_session and                  *)
(* confirm_create_session as op_create_session calls them,                 *)
(* destroy_session, destroy_clientid, the lapse of an idle record in       *)
(* scan_leases, expire_client_impl, and the owner's entry of the stable    *)
(* list, with per_fsid_reclaim off.                                        *)
(*                                                                         *)
(* A step is one section under the client shard, one under a session shard *)
(* or one write of the stable list, and any two operations may interleave  *)
(* between their steps.  An owner id names one entry of the stable list,   *)
(* whichever record of it was written.  Records and sessions  *)
(* are numbered in the order they are made.  Leases, slots and open state  *)
(* are left to Lease, SessionSlots and the state table: a record may lapse *)
(* or be expired at any time, and it is idle when it has no sessions.      *)
(***************************************************************************)
EXTENDS Integers, FiniteSets

CONSTANTS
  Thread,      \* threads running CREATE_SESSION, DESTROY_SESSION or a reclaim
  Verifier,    \* client incarnations
  Principal,   \* RPC identities
  Capped,      \* TRUE: other owners' clients may fill max_clients
  MaxRec,      \* bound on registrations
  MaxSession,  \* bound on sessions
  MaxCrash     \* bound on crashes

ASSUME ClientsAssumption ==
  /\ Capped \in BOOLEAN
  /\ MaxRec \in Nat /\ MaxSession \in Nat /\ MaxCrash \in Nat

VARIABLES
  recs,         \* the client records made so far
  byId,         \* those in by_id and client_idx_
  confirmed,    \* OwnerSlot::confirmed, 0 for none
  unconfirmed,  \* OwnerSlot::unconfirmed, 0 for none
  clients,      \* this owner's share of client_count_
  made,         \* history: for each session, its record and CREATE_SESSION sequence
  table,        \* the sessions in the session table
  stable,       \* is the owner on the stable list
  thread,       \* where each thread is
  ghosts,       \* history: records confirmed when they were not registered any more
  late,         \* history: sessions that came too late for the reclaim of their record
  settled,      \* history: sessions whose reply is cached, none older cached since
  eraser,       \* history: the record for whose removal the stable entry went last
  crashes       \* crashes so far

slot == <<confirmed, unconfirmed>>
history == <<ghosts, late, settled, eraser>>
vars == <<recs, byId, confirmed, unconfirmed, clients, made, table, stable, thread,
          ghosts, late, settled, eraser, crashes>>

Rec == 1 .. MaxRec
Session == 1 .. MaxSession

ClientRec ==
  [verifier : Verifier, principal : Principal, confirmed : BOOLEAN, cs_sequence : Nat,
   cached : 0 .. MaxSession, sessions : SUBSET Session, persisted : BOOLEAN]

PC == {"idle", "section", "insert", "orphans", "confirm", "persist", "replayed", "unlist", "reap", "unpersist"}
ThreadRec ==
  [pc : PC, rec : 0 .. MaxRec, seq : Nat, principal : Principal, session : 0 .. MaxSession, dead : SUBSET Session]

Idle == [pc |-> "idle", rec |-> 0, seq |-> 0, principal |-> CHOOSE p \in Principal : TRUE, session |-> 0, dead |-> {}]

\* The variables keep their types.
TypeOK ==
  /\ DOMAIN recs \subseteq Rec /\ \A r \in DOMAIN recs : recs[r] \in ClientRec
  /\ byId \subseteq DOMAIN recs
  /\ confirmed \in {0} \cup DOMAIN recs /\ unconfirmed \in {0} \cup DOMAIN recs
  /\ clients \in - MaxRec .. MaxRec
  /\ DOMAIN made \subseteq Session /\ \A n \in DOMAIN made : made[n] \in [rec : Rec, seq : Nat]
  /\ table \subseteq DOMAIN made
  /\ stable \in BOOLEAN
  /\ thread \in [Thread -> ThreadRec]
  /\ ghosts \subseteq DOMAIN recs
  /\ late \subseteq DOMAIN made /\ settled \subseteq DOMAIN made
  /\ eraser \in {0} \cup DOMAIN recs
  /\ crashes \in 0 .. MaxCrash

Init ==
  /\ recs = <<>> /\ byId = {} /\ confirmed = 0 /\ unconfirmed = 0 /\ clients = 0
  /\ made = <<>> /\ table = {}
  /\ stable = FALSE
  /\ thread = [t \in Thread |-> Idle]
  /\ ghosts = {} /\ late = {} /\ settled = {} /\ eraser = 0
  /\ crashes = 0

\* The sessions that some thread has unlisted and will take out of the table.
Doomed == UNION {thread[t].dead : t \in {u \in Thread : thread[u].pc \in {"insert", "orphans", "reap"}}}

Goto(t, p) == thread' = [thread EXCEPT ![t].pc = p]
Done(t) == thread' = [thread EXCEPT ![t] = Idle]

Without(r, s) == IF s = r THEN 0 ELSE s

\* Faulty: the count of records is not adjusted.
ForgetUncounted(r) ==
  /\ byId' = byId \ {r}
  /\ UNCHANGED clients

\* Faulty: the count of records is adjusted by both indexes.
ForgetTwice(r) ==
  /\ byId' = byId \ {r}
  /\ clients' = clients - 2

\* Leaving by_id and the index; clients counts it.
Forget(r) ==
  /\ byId' = byId \ {r}
  /\ clients' = clients - 1

----------------------------------------------------------------------------
(* EXCHANGE_ID. *)

Registered(v, p) ==
  [verifier |-> v, principal |-> p, confirmed |-> FALSE, cs_sequence |-> 1,
   cached |-> 0, sessions |-> {}, persisted |-> FALSE]

\* exchange_id under the client shard, EXCHGID4_FLAG_UPD_CONFIRMED_REC_A aside, which only
\* renews: the answer is CLID_INUSE or the confirmed record of this incarnation and nothing
\* changes, or a confirmed record without state under another principal is removed, an
\* unconfirmed one is dropped, and the cap decides whether a new one is registered.
ExchangeId(v, p) ==
  /\ Cardinality(DOMAIN recs) < MaxRec
  /\ LET other == confirmed # 0 /\ recs[confirmed].principal # p
         busy == other /\ recs[confirmed].sessions # {}
         same == confirmed # 0 /\ ~other /\ recs[confirmed].verifier = v
         gone == (IF other THEN {confirmed} ELSE {}) \cup (IF unconfirmed # 0 THEN {unconfirmed} ELSE {})
         left == clients - Cardinality(gone)
         r == Cardinality(DOMAIN recs) + 1
     IN /\ ~busy /\ ~same
        /\ confirmed' = IF other THEN 0 ELSE confirmed
        /\ stable' = (stable /\ ~other)
        /\ eraser' = IF other THEN confirmed ELSE eraser
        /\ \E full \in {FALSE, Capped} :
             IF full
             THEN /\ unconfirmed' = 0 /\ byId' = byId \ gone /\ clients' = left
                  /\ UNCHANGED recs
             ELSE /\ recs' = [q \in DOMAIN recs \cup {r} |-> IF q = r THEN Registered(v, p) ELSE recs[q]]
                  /\ unconfirmed' = r /\ byId' = (byId \ gone) \cup {r} /\ clients' = left + 1
  /\ UNCHANGED <<made, table, thread, ghosts, late, settled, crashes>>

----------------------------------------------------------------------------
(* CREATE_SESSION. *)

\* find_client; the answer is STALE_CLIENTID when it is not indexed.
FindClient(t) ==
  /\ thread[t].pc = "idle"
  /\ \E r \in byId, p \in Principal : \E s \in 0 .. recs[r].cs_sequence + 1 :
       thread' = [thread EXCEPT ![t] = [Idle EXCEPT !.pc = "section", !.rec = r, !.seq = s, !.principal = p]]
  /\ UNCHANGED <<recs, byId, slot, clients, made, table, stable, history, crashes>>

\* Faulty: any earlier sequence is taken for a replay.
IsReplayAny(c, s) == s < c.cs_sequence /\ c.confirmed

\* The sequence before the next one: the previous CREATE_SESSION again.
IsReplay(c, s) == s + 1 = c.cs_sequence /\ c.confirmed

\* create_session's section under the client shard.  The record found before is not looked
\* up again.
CreateSection(t) ==
  /\ thread[t].pc = "section"
  /\ LET r == thread[t].rec
         c == recs[r]
         s == thread[t].seq
         n == Cardinality(DOMAIN made) + 1
         old == IF c.confirmed \/ confirmed \in {0, r} THEN 0 ELSE confirmed
         orphaned == IF old = 0 THEN {} ELSE recs[old].sessions
     IN IF ~c.confirmed /\ c.principal # thread[t].principal
          THEN Done(t) /\ UNCHANGED <<recs, byId, slot, clients, made, ghosts>>
        ELSE IF IsReplay(c, s)
          THEN /\ thread' = [thread EXCEPT ![t].pc = "replayed", ![t].session = c.cached]
               /\ UNCHANGED <<recs, byId, slot, clients, made, ghosts>>
        ELSE IF s # c.cs_sequence
          THEN Done(t) /\ UNCHANGED <<recs, byId, slot, clients, made, ghosts>>
        ELSE /\ n \in Session
             /\ IF old = 0 THEN UNCHANGED <<byId, clients>> ELSE Forget(old)
             /\ confirmed' = IF c.confirmed THEN confirmed ELSE r
             /\ unconfirmed' = IF c.confirmed THEN unconfirmed ELSE Without(r, unconfirmed)
             /\ recs' = [q \in DOMAIN recs |->
                          IF q = r THEN [c EXCEPT !.confirmed = TRUE, !.cs_sequence = s + 1, !.sessions = @ \cup {n}]
                          ELSE IF q = old THEN [recs[q] EXCEPT !.sessions = {}] ELSE recs[q]]
             /\ made' = [q \in DOMAIN made \cup {n} |-> IF q = n THEN [rec |-> r, seq |-> s] ELSE made[q]]
             /\ ghosts' = IF c.confirmed \/ r \in byId THEN ghosts ELSE ghosts \cup {r}
             /\ thread' = [thread EXCEPT ![t].pc = "insert", ![t].session = n, ![t].dead = orphaned]
  /\ UNCHANGED <<table, stable, late, settled, eraser, crashes>>

\* The session shard is another lock: the session becomes visible here.
CreateInsert(t) ==
  /\ thread[t].pc = "insert"
  /\ table' = table \cup {thread[t].session}
  /\ late' = IF thread[t].rec \in byId \/ thread[t].session \in Doomed THEN late ELSE late \cup {thread[t].session}
  /\ Goto(t, IF thread[t].dead = {} THEN "confirm" ELSE "orphans")
  /\ UNCHANGED <<recs, byId, slot, clients, made, stable, ghosts, settled, eraser, crashes>>

\* Faulty: the old incarnation's sessions stay.
DropNone(t) == UNCHANGED table

\* Sessions of a record that is gone leave the table.
Drop(t) == table' = table \ thread[t].dead

CreateOrphans(t) ==
  /\ thread[t].pc = "orphans"
  /\ Drop(t)
  /\ Goto(t, "confirm")
  /\ UNCHANGED <<recs, byId, slot, clients, made, stable, history, crashes>>

\* Faulty: only a record that is written already claims the write.
NeedsPersistNever(c) == c.persisted

\* The first confirmation of a record writes its owner to the stable list.
NeedsPersist(c) == ~c.persisted

Younger(n) == {q \in DOMAIN made : made[q].rec = made[n].rec /\ made[q].seq > made[n].seq}

\* confirm_create_session's section: the reply is cached once it is encoded, and the write
\* of the stable list is claimed.
Confirm(t) ==
  /\ thread[t].pc = "confirm"
  /\ LET r == thread[t].rec IN
       IF r \in byId
         THEN /\ recs' = [recs EXCEPT ![r].cached = thread[t].session, ![r].persisted = TRUE]
              /\ IF NeedsPersist(recs[r]) THEN Goto(t, "persist") ELSE Done(t)
              /\ settled' = (settled \ Younger(thread[t].session)) \cup {thread[t].session}
         ELSE Done(t) /\ UNCHANGED <<recs, settled>>
  /\ UNCHANGED <<byId, slot, clients, made, table, stable, ghosts, late, eraser, crashes>>

\* persist_client, outside the shard.
Persist(t) ==
  /\ thread[t].pc = "persist"
  /\ stable' = TRUE
  /\ Done(t)
  /\ UNCHANGED <<recs, byId, slot, clients, made, table, history, crashes>>

\* The replayed reply is on its way.
ReplySent(t) ==
  /\ thread[t].pc = "replayed" /\ Done(t)
  /\ UNCHANGED <<recs, byId, slot, clients, made, table, stable, history, crashes>>

----------------------------------------------------------------------------
(* Ways out. *)

\* destroy_session: the table first, the record's list under the client shard next.
DestroySession(t) ==
  /\ thread[t].pc = "idle"
  /\ \E n \in table :
       /\ table' = table \ {n}
       /\ thread' = [thread EXCEPT ![t] = [Idle EXCEPT !.pc = "unlist", !.session = n]]
  /\ UNCHANGED <<recs, byId, slot, clients, made, stable, history, crashes>>

DestroyUnlist(t) ==
  /\ thread[t].pc = "unlist"
  /\ recs' = [recs EXCEPT ![made[thread[t].session].rec].sessions = @ \ {thread[t].session}]
  /\ Done(t)
  /\ UNCHANGED <<byId, slot, clients, made, table, stable, history, crashes>>

\* A record leaves the tables with the owner's entry of the stable list, under the shard.
Remove(r) ==
  /\ Forget(r)
  /\ confirmed' = Without(r, confirmed) /\ unconfirmed' = Without(r, unconfirmed)
  /\ stable' = FALSE /\ eraser' = r
  /\ UNCHANGED <<recs, made, table, thread, ghosts, late, settled, crashes>>

DestroyClientid(r) ==
  /\ r \in byId /\ recs[r].sessions = {}
  /\ Remove(r)

\* scan_leases: an unconfirmed or idle record whose lease is over.
Lapse(r) ==
  /\ r \in byId
  /\ ~recs[r].confirmed \/ recs[r].sessions = {}
  /\ Remove(r)

\* expire_client_impl: a section under the client shard, then the sessions, then the list.
Expire(t) ==
  /\ thread[t].pc = "idle"
  /\ \E r \in byId :
       /\ Forget(r)
       /\ confirmed' = Without(r, confirmed) /\ unconfirmed' = Without(r, unconfirmed)
       /\ recs' = [recs EXCEPT ![r].sessions = {}]
       /\ thread' = [thread EXCEPT ![t] = [Idle EXCEPT !.pc = "reap", !.rec = r, !.dead = recs[r].sessions]]
  /\ UNCHANGED <<made, table, stable, history, crashes>>

ExpireSessions(t) ==
  /\ thread[t].pc = "reap"
  /\ Drop(t)
  /\ Goto(t, "unpersist")
  /\ UNCHANGED <<recs, byId, slot, clients, made, stable, history, crashes>>

ExpireUnpersist(t) ==
  /\ thread[t].pc = "unpersist"
  /\ stable' = FALSE /\ eraser' = thread[t].rec
  /\ Done(t)
  /\ UNCHANGED <<recs, byId, slot, clients, made, table, ghosts, late, settled, crashes>>

\* The process dies and starts again: the stable list is what is left.  Numbers go on, as a
\* new epoch's client ids differ from all old ones.
Crash ==
  /\ crashes < MaxCrash /\ crashes' = crashes + 1
  /\ byId' = {} /\ confirmed' = 0 /\ unconfirmed' = 0 /\ clients' = 0 /\ table' = {}
  /\ thread' = [t \in Thread |-> Idle]
  /\ ghosts' = {} /\ late' = {}
  /\ UNCHANGED <<recs, made, stable, settled, eraser>>

----------------------------------------------------------------------------

Next ==
  \/ \E v \in Verifier, p \in Principal : ExchangeId(v, p)
  \/ \E t \in Thread :
       \/ FindClient(t) \/ CreateSection(t) \/ CreateInsert(t) \/ CreateOrphans(t)
       \/ Confirm(t) \/ Persist(t) \/ ReplySent(t)
       \/ DestroySession(t) \/ DestroyUnlist(t)
       \/ Expire(t) \/ ExpireSessions(t) \/ ExpireUnpersist(t)
  \/ \E r \in Rec : DestroyClientid(r) \/ Lapse(r)
  \/ Crash

Spec == Init /\ [][Next]_vars

----------------------------------------------------------------------------
(* Properties. *)

\* The owner slot, by_id and client_count_ agree: whoever is in the slot can be found by its
\* client id and is counted once.
SlotIsIndexed ==
  /\ byId = {confirmed, unconfirmed} \ {0}
  /\ clients = Cardinality(byId)

\* The one way they come apart: create_session confirms a record that EXCHANGE_ID replaced, or
\* that lapsed or was expired, after create_session had found it.  Such a record is in the
\* slot but not in by_id, and is subtracted from client_count_ a second time when it leaves
\* the slot.  Nothing else, in any interleaving, puts a record in one place only.
SlotIsIndexedButGhosts ==
  /\ byId = {confirmed, unconfirmed} \ ({0} \cup ghosts)
  /\ clients = Cardinality(byId) - Cardinality(ghosts \ {confirmed})

\* The reclaim chain leaves no session behind: a session in the table is listed by a
\* registered record or some reclaim has yet to take it out.  The exception is a session
\* that create_session inserts, under the session shard, after the reclaim of its record
\* has passed: between the two sections or before the first.
SessionHasClient ==
  \A n \in table :
    \/ made[n].rec \in byId /\ n \in recs[made[n].rec].sessions
    \/ n \in Doomed \cup late

\* CREATE_SESSION sent again is answered with the reply of that same CREATE_SESSION, not with
\* an empty or an older one, from the moment confirm_create_session has cached it; unless a
\* CREATE_SESSION before it, still running, caches its own over it.
ReplayIsOwn ==
  [][\A t \in Thread : \A n \in settled :
       /\ thread[t].pc = "section" /\ thread'[t].pc = "replayed"
       /\ made[n] = [rec |-> thread[t].rec, seq |-> thread[t].seq]
       => thread'[t].session = n]_vars

\* A record whose first CREATE_SESSION is confirmed and written is on the stable list for as
\* long as it is the owner's confirmed one, so it may reclaim after a crash; unless the entry,
\* one for all records of the owner, was removed for another of them: the incarnation it
\* replaced, or a newer one that never got its session.
ConfirmedIsListed ==
  /\ confirmed # 0 /\ recs[confirmed].persisted /\ ~stable
  /\ \A t \in Thread : thread[t].pc # "persist" \/ thread[t].rec # confirmed
  => eraser \notin {0, confirmed}
=============================================================================
