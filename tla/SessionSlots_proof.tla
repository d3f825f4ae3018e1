------------------------ MODULE SessionSlots_proof ------------------------
(***************************************************************************)
(* Proofs about SessionSlots: for any number of slots, connections and     *)
(* requests, and any seqid modulus above 2, the operations of a request    *)
(* run at most once and a slot is in flight exactly while one compound     *)
(* owns it.                                                                *)
(***************************************************************************)
EXTENDS SessionSlots, Integers, TLAPS

\* A number is determined by its quotient and remainder: the only number in 0..(M-1) that
\* y leaves after a multiple of M is y % M.
LEMMA ModUnique ==
  ASSUME NEW M \in Nat \ {0}, NEW q \in Int, NEW r \in 0..(M-1), NEW y \in Int,
         y = M * q + r
  PROVE  y % M = r
<1> DEFINE k == y \div M
           l == y % M
           d == q - k
           e == l - r
<1>1. y = M * k + l /\ l \in 0..(M-1) /\ k \in Int
  OBVIOUS
<1>2. d \in Int /\ e \in Int /\ e < M /\ -e < M
  BY <1>1
<1>3. M * d = e
  BY <1>1
<1> HIDE DEF d, e
<1>4. e = 0
  BY <1>2, <1>3
<1>. QED BY <1>1, <1>4 DEF e

\* Taking the remainder before adding one changes nothing (NextSeqid).
LEMMA ModStep ==
  ASSUME NEW M \in Nat, M > 2, NEW x \in Nat
  PROVE  ((x % M) + 1) % M = (x + 1) % M
<1> DEFINE q == x \div M
           r == x % M
<1>1. x = M * q + r /\ r \in 0..(M-1) /\ q \in Int
  OBVIOUS
<1> HIDE DEF q, r
<1>2. CASE r = M - 1
  <2>1. x + 1 = M * (q + 1) + 0
    BY <1>1, <1>2
  <2>2. (x + 1) % M = 0
    BY <2>1, ModUnique, <1>1
  <2>3. (r + 1) % M = 0
    BY <1>2, ModUnique, M = M * 1 + 0
  <2>. QED BY <2>2, <2>3 DEF r
<1>3. CASE r < M - 1
  <2>1. (x + 1) % M = r + 1
    BY <1>1, <1>3, ModUnique, x + 1 = M * q + (r + 1)
  <2>2. (r + 1) % M = r + 1
    BY <1>1, <1>3, ModUnique, r + 1 = M * 0 + (r + 1)
  <2>. QED BY <2>1, <2>2 DEF r
<1>. QED BY <1>1, <1>2, <1>3

\* Two numbers less than M apart with the same remainder are equal: inside the window a
\* seqid names one request.
LEMMA ModSame ==
  ASSUME NEW M \in Nat, M > 2, NEW a \in Nat, NEW b \in Nat,
         a <= b, b - a < M, a % M = b % M
  PROVE  a = b
<1> DEFINE k == (b \div M) - (a \div M)
<1>1. a = M * (a \div M) + (a % M) /\ b = M * (b \div M) + (b % M)
  OBVIOUS
<1>2. k \in Int
  OBVIOUS
<1>3. b - a = M * k
  BY <1>1, <1>2
<1> HIDE DEF k
<1>4. k = 0
  BY <1>2, <1>3
<1>. QED BY <1>3, <1>4

\* The remainder is a seqid.
LEMMA SeqidType == \A t \in Tx : Seqid(t) \in 0..(SeqMod - 1)
BY SlotsAssumption DEF Tx, Seqid, Num
-----------------------------------------------------------------------------
\* Who owns a slot.
Owns(t, s) == SlotOf(t) = s /\ pc[t] \in {"exec", "error"}

\* The client is at most one request ahead of the slot, and the request a slot's owner
\* runs is the next one.
ClientInStep ==
  \A t \in Tx :
    /\ pc[t] # "unsent" => Num(t) <= last[SlotOf(t)] + 1
    /\ pc[t] \in Replies => Num(t) <= last[SlotOf(t)]
    /\ pc[t] \in {"exec", "error"} => Num(t) = last[SlotOf(t)] + 1

\* The last answered request of a slot was sent.
LastWasSent ==
  \A s \in Slots : last[s] > 0 =>
    \E t \in Tx : SlotOf(t) = s /\ Num(t) = last[s] /\ pc[t] # "unsent"

\* What InWindow establishes when a request is sent stays true.
Window ==
  \A t, u \in Tx :
    SlotOf(t) = SlotOf(u) /\ pc[t] # "unsent" /\ pc[u] \in Pending =>
      Num(t) <= Num(u) + (SeqMod - 2)

\* A slot has at most one owner, for good.
OneOwner == \A s \in Slots : \A t, u \in Tx : Owns(t, s) /\ Owns(u, s) => t = u

\* in_flight and seqid follow the owner and the last request while the session is there.
SlotInStep ==
  session = "live" =>
    \A s \in Slots : /\ slot[s].in_flight <=> \E t \in Tx : Owns(t, s)
                     /\ slot[s].seqid = last[s] % SeqMod

\* A request that is not answered yet has not run, unless it ended in an exception.
RunsInStep ==
  \A s \in Slots : \A n \in 1..MaxReq :
    /\ runs[s][n] <= 1
    /\ n > last[s] => runs[s][n] = 0 \/ \E t \in Tx : SlotOf(t) = s /\ pc[t] = "error"

\* The inductive invariant.
IInv ==
  /\ TypeOK
  /\ ClientInStep /\ LastWasSent /\ Window
  /\ OneOwner /\ SlotInStep /\ RunsInStep
-----------------------------------------------------------------------------
\* The parts of a transmission.
LEMMA TxParts ==
  \A t \in Tx : SlotOf(t) \in Slots /\ Num(t) \in 1..MaxReq /\ ConnOf(t) \in Conn
BY DEF Tx, SlotOf, Num, ConnOf

\* The transmission with given parts.
LEMMA TxMade ==
  \A s \in Slots, n \in 1..MaxReq, c \in Conn :
    <<s, n, c>> \in Tx /\ SlotOf(<<s, n, c>>) = s /\ Num(<<s, n, c>>) = n
BY DEF Tx, SlotOf, Num

\* What the properties of a transmission depend on.
SameClass(a, b) ==
  /\ a = "unsent" <=> b = "unsent"
  /\ a \in Pending <=> b \in Pending
  /\ a \in Replies <=> b \in Replies
  /\ a = "exec" <=> b = "exec"
  /\ a = "error" <=> b = "error"

\* Waking a slot's waiters leaves every transmission in its class.
LEMMA NotifiedClass ==
  ASSUME NEW p, NEW ss
  PROVE  \A t \in Tx : SameClass(Notified(p, ss)[t], p[t])
BY DEF Notified, SameClass, Pending, Replies

\* ... and keeps pc a function into its range.
LEMMA NotifiedType ==
  ASSUME NEW p \in [Tx -> {"unsent", "exec"} \cup Pending \cup Answers], NEW ss
  PROVE  Notified(p, ss) \in [Tx -> {"unsent", "exec"} \cup Pending \cup Answers]
BY DEF Notified, Pending

LEMMA InitIInv == Init => IInv
<1> SUFFICES ASSUME Init PROVE IInv
  OBVIOUS
<1> USE SlotsAssumption
<1>1. TypeOK
  <2>1. bound \subseteq Conn
    BY DEF Init
  <2>2. slot \in [Slots -> SlotRec]
    BY DEF Init, SlotRec
  <2>3. runs \in [Slots -> [1..MaxReq -> Nat]]
    BY DEF Init
  <2>4. last \in [Slots -> 0..MaxReq] /\ throws \in 0..MaxThrow
    BY DEF Init
  <2>5. pc \in [Tx -> {"unsent", "exec"} \cup Pending \cup Answers]
    BY DEF Init
  <2>. QED BY <2>1, <2>2, <2>3, <2>4, <2>5 DEF Init, TypeOK
<1>2. 0 % SeqMod = 0
  BY ModUnique, 0 = SeqMod * 0 + 0
<1>3. \A s \in Slots : last[s] = 0 /\ slot[s].seqid = 0 /\ ~slot[s].in_flight
  BY DEF Init
<1>4. \A t \in Tx : pc[t] = "unsent"
  BY DEF Init
<1>5. ClientInStep /\ LastWasSent /\ Window /\ OneOwner /\ SlotInStep
  BY <1>2, <1>3, <1>4 DEF ClientInStep, LastWasSent, Window, OneOwner, SlotInStep, Owns,
     Replies, Pending
<1>6. RunsInStep
  BY DEF Init, RunsInStep
<1>. QED BY <1>1, <1>5, <1>6 DEF IInv

\* A transmission enters the network.
LEMMA SendIInv == ASSUME IInv, NEW t \in Tx, Send(t) PROVE IInv'
<1> USE SlotsAssumption, TxParts
<1> USE DEF IInv
<1>1. TypeOK'
  BY DEF TypeOK, Send, Pending
<1>2. \A u \in Tx : u # t => pc'[u] = pc[u]
  BY DEF TypeOK, Send
<1>3. pc'[t] = "sent" /\ pc[t] = "unsent"
  BY DEF TypeOK, Send
<1>4. last' = last /\ slot' = slot /\ session' = session /\ runs' = runs
  BY DEF Send
<1>5. Num(t) <= last[SlotOf(t)] + 1
  <2>1. CASE Num(t) = 1
    BY <2>1 DEF TypeOK
  <2>2. CASE Num(t) > 1
    <3>1. Num(t) - 1 \in 1..MaxReq
      BY <2>2
    <3>2. PICK c \in Conn : pc[<<SlotOf(t), Num(t) - 1, c>>] \in Replies
      BY <2>2 DEF Send, Answered
    <3>3. Num(t) - 1 <= last[SlotOf(t)]
      BY <3>1, <3>2, TxMade DEF ClientInStep
    <3>. QED BY <3>3 DEF TypeOK
  <2>. QED BY <2>1, <2>2
<1>6. ClientInStep'
  BY <1>2, <1>3, <1>4, <1>5 DEF ClientInStep, Replies
<1>7. LastWasSent'
  BY <1>2, <1>3, <1>4 DEF LastWasSent
<1>8. Window'
  BY <1>2, <1>3 DEF Window, Send, InWindow, Pending
<1>9. OneOwner' /\ SlotInStep'
  BY <1>2, <1>3, <1>4 DEF OneOwner, SlotInStep, Owns
<1>10. RunsInStep'
  BY <1>2, <1>3, <1>4 DEF RunsInStep
<1>. QED BY <1>1, <1>6, <1>7, <1>8, <1>9, <1>10

\* A transmission that may still be classified is in the window of its slot.
LEMMA PendingWindow ==
  ASSUME IInv, NEW t \in Tx, pc[t] \in Pending
  PROVE  last[SlotOf(t)] <= Num(t) + (SeqMod - 2)
<1> USE SlotsAssumption, TxParts
<1>1. last[SlotOf(t)] \in Nat /\ Num(t) \in Nat
  BY DEF IInv, TypeOK
<1>2. CASE last[SlotOf(t)] = 0
  BY <1>1, <1>2
<1>3. CASE last[SlotOf(t)] > 0
  <2>1. PICK u \in Tx : SlotOf(u) = SlotOf(t) /\ Num(u) = last[SlotOf(t)] /\ pc[u] # "unsent"
    BY <1>3 DEF IInv, LastWasSent
  <2>. QED BY <2>1 DEF IInv, Window
<1>. QED BY <1>1, <1>2, <1>3

\* A transmission whose seqid is the slot's next one is the next request.
LEMMA ClaimIsNext ==
  ASSUME IInv, NEW t \in Tx, pc[t] \in Pending, session = "live",
         Seqid(t) = NextSeqid(slot[SlotOf(t)])
  PROVE  Num(t) = last[SlotOf(t)] + 1
<1> USE SlotsAssumption, TxParts
<1> DEFINE l == last[SlotOf(t)]
<1>1. l \in Nat /\ Num(t) \in Nat
  BY DEF IInv, TypeOK
<1>2. Num(t) <= l + 1
  BY DEF IInv, ClientInStep, Pending
<1>3. l <= Num(t) + (SeqMod - 2)
  BY PendingWindow
<1>4. Num(t) % SeqMod = ((l % SeqMod) + 1) % SeqMod
  BY DEF IInv, SlotInStep, Seqid, NextSeqid
<1> HIDE DEF l
<1>5. Num(t) % SeqMod = (l + 1) % SeqMod
  BY <1>1, <1>4, ModStep
<1>6. l + 1 \in Nat /\ (l + 1) - Num(t) < SeqMod
  BY <1>1, <1>3
<1>7. Num(t) = l + 1
  BY <1>1, <1>2, <1>5, <1>6, ModSame
<1>. QED BY <1>7 DEF l

\* A transmission whose seqid is the slot's last one is not a new request.
LEMMA ReplayIsOld ==
  ASSUME IInv, NEW t \in Tx, pc[t] \in Pending, session = "live",
         Seqid(t) = slot[SlotOf(t)].seqid
  PROVE  Num(t) <= last[SlotOf(t)]
<1> USE SlotsAssumption, TxParts
<1> DEFINE l == last[SlotOf(t)]
<1>1. l \in Nat /\ Num(t) \in Nat
  BY DEF IInv, TypeOK
<1>2. Num(t) <= l + 1
  BY DEF IInv, ClientInStep, Pending
<1>3. Num(t) % SeqMod = l % SeqMod
  BY DEF IInv, SlotInStep, Seqid
<1> HIDE DEF l
<1>4. ASSUME Num(t) = l + 1 PROVE FALSE
  <2>1. l + 1 \in Nat /\ l <= l + 1 /\ (l + 1) - l < SeqMod /\ l % SeqMod = (l + 1) % SeqMod
    BY <1>1, <1>3, <1>4
  <2>2. l = l + 1
    BY <1>1, <2>1, ModSame
  <2>. QED BY <1>1, <2>2
<1>. QED BY <1>1, <1>2, <1>4 DEF l

\* A transmission is classified.
LEMMA BeginIInv == ASSUME IInv, NEW t \in Tx, SequenceBegin(t) PROVE IInv'
<1> USE SlotsAssumption, TxParts
<1> USE DEF IInv
<1> DEFINE s == SlotOf(t)
           Frame == last' = last /\ session' = session /\ runs' = runs
                    /\ throws' = throws /\ expired' = expired
           Settled(x) == /\ pc' = [pc EXCEPT ![t] = x]
                         /\ \A r \in Slots : /\ slot'[r].in_flight = slot[r].in_flight
                                             /\ slot'[r].seqid = slot[r].seqid
<1>1. Frame /\ pc[t] \in Pending
  BY DEF SequenceBegin, Pending
<1>2. pc[t] \notin {"unsent", "exec", "error"} /\ pc[t] \notin Replies
  BY <1>1 DEF Pending, Replies
<1>3. ASSUME NEW x \in {"queued", "replay", "uncached", "misordered", "refused"},
             Settled(x), TypeOK', x \in Replies => Num(t) <= last[s]
      PROVE  IInv'
  <2>1. \A u \in Tx : u # t => pc'[u] = pc[u]
    BY <1>3 DEF TypeOK
  <2>2. pc'[t] = x /\ x \notin {"unsent", "exec", "error"}
    BY <1>3 DEF TypeOK
  <2>3. ClientInStep'
    BY <1>1, <1>2, <1>3, <2>1, <2>2 DEF ClientInStep
  <2>4. LastWasSent' /\ RunsInStep'
    BY <1>1, <1>2, <2>1, <2>2 DEF LastWasSent, RunsInStep
  <2>5. Window'
    BY <1>1, <1>2, <2>1, <2>2 DEF Window
  <2>6. OneOwner' /\ SlotInStep'
    BY <1>1, <1>2, <1>3, <2>1, <2>2 DEF OneOwner, SlotInStep, Owns
  <2>. QED BY <1>3, <2>3, <2>4, <2>5, <2>6
<1>4. CASE pc' = [pc EXCEPT ![t] = "refused"] /\ UNCHANGED slot
  <2>1. TypeOK'
    BY <1>1, <1>4 DEF TypeOK, SequenceBegin, Answers
  <2>. QED BY <1>3, <1>4, <2>1 DEF Replies
<1>5. CASE /\ session = "live"
           /\ pc' = [pc EXCEPT ![t] = Classified(slot[s], Seqid(t))]
           /\ slot' = [slot EXCEPT ![s].in_flight = @ \/ Classified(slot[s], Seqid(t)) = "exec"]
  <2> DEFINE to == Classified(slot[s], Seqid(t))
  <2>1. slot[s] \in SlotRec /\ s \in Slots
    BY DEF TypeOK
  <2>2. slot' \in [Slots -> SlotRec]
    <3>1. [slot[s] EXCEPT !.in_flight = @ \/ to = "exec"] \in SlotRec
      BY <2>1 DEF SlotRec
    <3>. QED BY <1>5, <2>1, <3>1 DEF TypeOK
  <2>3. /\ slot'[s].seqid = slot[s].seqid
        /\ slot'[s].in_flight = (slot[s].in_flight \/ to = "exec")
        /\ \A r \in Slots : r # s => slot'[r] = slot[r]
    BY <1>5, <2>1 DEF TypeOK, SlotRec
  <2>4. to \in {"exec", "queued", "replay", "uncached", "misordered"}
    BY DEF Classified
  <2>5. TypeOK'
    <3>1. pc' \in [Tx -> {"unsent", "exec"} \cup Pending \cup Answers]
      BY <1>5, <2>4 DEF TypeOK, Pending, Answers, Replies
    <3>2. bound' \subseteq Conn
      BY DEF SequenceBegin, TypeOK
    <3>. QED BY <1>1, <2>2, <3>1, <3>2 DEF TypeOK
  <2> HIDE DEF to
  <2>6. CASE to # "exec"
    <3>1. Settled(to)
      BY <1>5, <2>3, <2>6 DEF TypeOK, SlotRec, to
    <3>2. to \in Replies => Num(t) <= last[s]
      BY <1>1, <1>5, ReplayIsOld DEF to, Classified, MayReplay, Replies
    <3>. QED BY <1>3, <2>4, <2>5, <2>6, <3>1, <3>2
  <2>7. CASE to = "exec"
    <3>1. ~slot[s].in_flight /\ Seqid(t) = NextSeqid(slot[s])
      BY <2>7 DEF to, Classified, MayClaim
    <3>2. Num(t) = last[s] + 1
      BY <1>1, <1>5, <3>1, ClaimIsNext
    <3>3. pc'[t] = "exec" /\ \A u \in Tx : u # t => pc'[u] = pc[u]
      BY <1>5, <2>7 DEF to, TypeOK
    <3>4. \A u \in Tx : ~Owns(u, s)
      BY <1>5, <2>1, <3>1 DEF SlotInStep
    <3>5. ClientInStep'
      BY <1>1, <1>2, <3>2, <3>3 DEF ClientInStep, Replies, TypeOK
    <3>6. LastWasSent' /\ RunsInStep'
      BY <1>1, <1>2, <3>3 DEF LastWasSent, RunsInStep
    <3>7. Window'
      BY <1>1, <1>2, <3>3 DEF Window, Pending
    <3>8. OneOwner'
      BY <3>3, <3>4 DEF OneOwner, Owns
    <3>9. SlotInStep'
      BY <1>1, <2>1, <2>3, <2>7, <3>3, <3>4 DEF SlotInStep, Owns
    <3>. QED BY <2>5, <3>5, <3>6, <3>7, <3>8, <3>9
  <2>. QED BY <2>6, <2>7
<1>. QED BY <1>4, <1>5 DEF SequenceBegin

\* The owner of a slot is its only owner.
LEMMA SoleOwner ==
  ASSUME IInv, NEW t \in Tx, pc[t] = "exec", NEW u \in Tx, u # t, SlotOf(u) = SlotOf(t)
  PROVE  pc[u] \notin {"exec", "error"}
BY TxParts DEF IInv, OneOwner, Owns

\* The slot is given back unused.
LEMMA AbortIInv == ASSUME IInv, NEW t \in Tx, SequenceAbort(t) PROVE IInv'
<1> USE SlotsAssumption, TxParts
<1> USE DEF IInv
<1> DEFINE s == SlotOf(t)
           p == [pc EXCEPT ![t] = "refused"]
<1>1. /\ last' = last /\ session' = session /\ runs' = runs /\ throws' = throws
      /\ expired' = expired /\ bound' = bound /\ pc[t] = "exec"
  BY DEF SequenceAbort
<1>2. p[t] = "refused" /\ \A u \in Tx : u # t => p[u] = pc[u]
  BY DEF TypeOK
<1>3. p \in [Tx -> {"unsent", "exec"} \cup Pending \cup Answers]
  BY DEF TypeOK, Answers
<1> HIDE DEF p
<1>4. pc' = p \/ pc' = Notified(p, {s})
  BY DEF SequenceAbort, p
<1>5. \A u \in Tx : SameClass(pc'[u], p[u])
  BY <1>4, NotifiedClass DEF SameClass
<1>6. TypeOK'
  <2>1. pc' \in [Tx -> {"unsent", "exec"} \cup Pending \cup Answers]
    BY <1>3, <1>4, NotifiedType
  <2>2. slot' \in [Slots -> SlotRec]
    <3>1. slot[s] \in SlotRec /\ s \in Slots
      BY DEF TypeOK
    <3>2. [slot[s] EXCEPT !.in_flight = FALSE] \in SlotRec
      BY <3>1 DEF SlotRec
    <3>. QED BY <3>1, <3>2 DEF SequenceAbort, TypeOK
  <2>. QED BY <1>1, <2>1, <2>2 DEF TypeOK
<1>7. session = "live" => /\ ~slot'[s].in_flight /\ slot'[s].seqid = slot[s].seqid
                          /\ \A r \in Slots : r # s => slot'[r] = slot[r]
  BY DEF SequenceAbort, TypeOK, SlotRec
<1>8. \A u \in Tx : u # t => SameClass(pc'[u], pc[u])
  BY <1>2, <1>5
<1>9. /\ pc'[t] \notin {"unsent", "exec", "error"}
      /\ pc'[t] \notin Pending /\ pc'[t] \notin Replies
  BY <1>2, <1>5 DEF SameClass, Pending, Replies
<1>10. ClientInStep'
  BY <1>1, <1>8, <1>9 DEF ClientInStep, SameClass
<1>11. LastWasSent' /\ RunsInStep'
  BY <1>1, <1>8, <1>9 DEF LastWasSent, RunsInStep, SameClass
<1>12. Window'
  BY <1>1, <1>8, <1>9 DEF Window, SameClass
<1>13. OneOwner'
  BY <1>8, <1>9 DEF OneOwner, Owns, SameClass
<1>14. SlotInStep'
  BY <1>1, <1>7, <1>8, <1>9, SoleOwner DEF SlotInStep, Owns, SameClass
<1>. QED BY <1>6, <1>10, <1>11, <1>12, <1>13, <1>14

\* The operations ran and the reply is stored.
LEMMA CompleteIInv == ASSUME IInv, NEW t \in Tx, SequenceComplete(t) PROVE IInv'
<1> USE SlotsAssumption, TxParts
<1> USE DEF IInv
<1> DEFINE s == SlotOf(t)
           n == Num(t)
           p == [pc EXCEPT ![t] = "fresh"]
<1>1. /\ session' = session /\ throws' = throws /\ expired' = expired /\ bound' = bound
      /\ last' = [last EXCEPT ![s] = n]
      /\ runs' = [runs EXCEPT ![s][n] = @ + 1]
      /\ pc[t] = "exec"
  BY DEF SequenceComplete
<1>2. p[t] = "fresh" /\ \A u \in Tx : u # t => p[u] = pc[u]
  BY DEF TypeOK
<1>3. p \in [Tx -> {"unsent", "exec"} \cup Pending \cup Answers]
  BY DEF TypeOK, Answers, Replies
<1> HIDE DEF p
<1>4. pc' = p \/ pc' = Notified(p, {s})
  BY DEF SequenceComplete, p
<1>5. \A u \in Tx : SameClass(pc'[u], p[u])
  BY <1>4, NotifiedClass DEF SameClass
<1>6. s \in Slots /\ n \in 1..MaxReq /\ n = last[s] + 1
  BY <1>1 DEF ClientInStep
<1>7. last'[s] = n /\ \A r \in Slots : r # s => last'[r] = last[r]
  BY <1>1, <1>6 DEF TypeOK
<1>8. /\ runs'[s][n] = runs[s][n] + 1
      /\ \A m \in 1..MaxReq : m # n => runs'[s][m] = runs[s][m]
      /\ \A r \in Slots : r # s => runs'[r] = runs[r]
  BY <1>1, <1>6 DEF TypeOK
<1>9. TypeOK'
  <2>1. pc' \in [Tx -> {"unsent", "exec"} \cup Pending \cup Answers]
    BY <1>3, <1>4, NotifiedType
  <2>2. slot' \in [Slots -> SlotRec]
    <3>1. \A cache \in BOOLEAN : Completed(slot[s], t, cache) \in SlotRec
      BY <1>6, SeqidType DEF Completed, SlotRec
    <3>. QED BY <1>6, <3>1 DEF SequenceComplete, TypeOK
  <2>3. last' \in [Slots -> 0..MaxReq]
    BY <1>1, <1>6 DEF TypeOK
  <2>4. runs' \in [Slots -> [1..MaxReq -> Nat]]
    BY <1>1, <1>6 DEF TypeOK
  <2>. QED BY <1>1, <2>1, <2>2, <2>3, <2>4 DEF TypeOK
<1>10. \A u \in Tx : u # t => SameClass(pc'[u], pc[u])
  BY <1>2, <1>5
<1>11. /\ pc'[t] \notin {"unsent", "exec", "error"}
       /\ pc'[t] \notin Pending /\ pc'[t] \in Replies
  BY <1>2, <1>5 DEF SameClass, Pending, Replies
<1>12. \A u \in Tx : u # t /\ SlotOf(u) = s => pc[u] \notin {"exec", "error"}
  BY <1>1, SoleOwner
<1>13. last \in [Slots -> Nat]
  BY DEF TypeOK
<1>14. ClientInStep'
  BY <1>6, <1>7, <1>10, <1>11, <1>12, <1>13 DEF ClientInStep, SameClass
<1>15. LastWasSent'
  BY <1>1, <1>6, <1>7, <1>10, <1>11 DEF LastWasSent, SameClass
<1>16. Window'
  BY <1>1, <1>10, <1>11 DEF Window, SameClass
<1>17. OneOwner'
  BY <1>10, <1>11 DEF OneOwner, Owns, SameClass
<1>18. SlotInStep'
  <2>1. session = "live" => /\ ~slot'[s].in_flight /\ slot'[s].seqid = n % SeqMod
                            /\ \A r \in Slots : r # s => slot'[r] = slot[r]
    BY <1>6 DEF SequenceComplete, TypeOK, SlotRec, Completed, Seqid
  <2>. QED BY <1>1, <1>7, <1>10, <1>11, <1>12, <2>1 DEF SlotInStep, Owns, SameClass
<1>19. RunsInStep'
  <2>1. runs[s][n] = 0
    BY <1>6, <1>12, <1>1, <1>13 DEF RunsInStep
  <2>2. ASSUME NEW r \in Slots, NEW m \in 1..MaxReq
        PROVE  /\ runs'[r][m] <= 1
               /\ m > last'[r] =>
                    runs'[r][m] = 0 \/ \E u \in Tx : SlotOf(u) = r /\ pc'[u] = "error"
    <3>1. CASE r = s
      BY <1>6, <1>7, <1>8, <1>12, <1>13, <2>1, <3>1, <1>1 DEF RunsInStep
    <3>2. CASE r # s
      BY <1>1, <1>7, <1>8, <1>10, <3>2 DEF RunsInStep, SameClass
    <3>. QED BY <3>1, <3>2
  <2>. QED BY <2>2 DEF RunsInStep
<1>. QED BY <1>9, <1>14, <1>15, <1>16, <1>17, <1>18, <1>19

\* The operations ran and an exception left the slot as it was.
LEMMA ThrowIInv == ASSUME IInv, NEW t \in Tx, Throw(t) PROVE IInv'
<1> USE SlotsAssumption, TxParts
<1> USE DEF IInv
<1> DEFINE s == SlotOf(t)
           n == Num(t)
<1>1. /\ session' = session /\ expired' = expired /\ bound' = bound
      /\ last' = last /\ slot' = slot
      /\ runs' = [runs EXCEPT ![s][n] = @ + 1]
      /\ pc[t] = "exec"
  BY DEF Throw
<1>2. pc'[t] = "error" /\ \A u \in Tx : u # t => pc'[u] = pc[u]
  BY DEF Throw, TypeOK
<1>3. s \in Slots /\ n \in 1..MaxReq /\ n = last[s] + 1 /\ last[s] \in Nat
  BY <1>1 DEF ClientInStep, TypeOK
<1>4. TypeOK'
  <2>1. pc' \in [Tx -> {"unsent", "exec"} \cup Pending \cup Answers]
    BY DEF Throw, TypeOK, Answers
  <2>2. runs' \in [Slots -> [1..MaxReq -> Nat]]
    BY <1>1, <1>3 DEF TypeOK
  <2>3. throws' \in 0..MaxThrow
    BY DEF Throw, TypeOK
  <2>. QED BY <1>1, <2>1, <2>2, <2>3 DEF TypeOK
<1>5. ClientInStep' /\ LastWasSent' /\ Window'
  BY <1>1, <1>2 DEF ClientInStep, LastWasSent, Window, Replies, Pending
<1>6. OneOwner' /\ SlotInStep'
  BY <1>1, <1>2 DEF OneOwner, SlotInStep, Owns
<1>7. RunsInStep'
  <2>1. \A u \in Tx : SlotOf(u) = s => pc[u] # "error"
    BY <1>1, SoleOwner
  <2>2. runs[s][n] = 0
    BY <1>3, <2>1 DEF RunsInStep
  <2>3. /\ runs'[s][n] = 1
        /\ \A m \in 1..MaxReq : m # n => runs'[s][m] = runs[s][m]
        /\ \A r \in Slots : r # s => runs'[r] = runs[r]
    BY <1>1, <1>3, <2>2 DEF TypeOK
  <2>. QED BY <1>1, <1>2, <1>3, <2>3 DEF RunsInStep
<1>. QED BY <1>4, <1>5, <1>6, <1>7

\* The session leaves the table.
LEMMA DroppedIInv == ASSUME IInv, Dropped, UNCHANGED expired PROVE IInv'
<1> USE DEF IInv
<1>1. \A u \in Tx : SameClass(pc'[u], pc[u])
  BY NotifiedClass DEF Dropped
<1>2. TypeOK'
  BY NotifiedType DEF TypeOK, Dropped
<1>3. ClientInStep' /\ LastWasSent' /\ Window' /\ RunsInStep'
  BY <1>1 DEF Dropped, ClientInStep, LastWasSent, Window, RunsInStep, SameClass
<1>4. OneOwner' /\ SlotInStep'
  BY <1>1 DEF Dropped, OneOwner, SlotInStep, Owns, SameClass
<1>. QED BY <1>2, <1>3, <1>4

\* The steps that leave slots and transmissions alone.
LEMMA OtherIInv ==
  ASSUME IInv, UNCHANGED <<session, slot, pc, last, runs, throws>>,
         bound' \subseteq Conn, expired' \in BOOLEAN
  PROVE  IInv'
BY DEF IInv, TypeOK, ClientInStep, LastWasSent, Window, OneOwner, SlotInStep, RunsInStep, Owns

LEMMA NextIInv == IInv /\ [Next]_vars => IInv'
<1> SUFFICES ASSUME IInv, [Next]_vars PROVE IInv'
  OBVIOUS
<1>1. ASSUME NEW t \in Tx,
             Send(t) \/ SequenceBegin(t) \/ SequenceAbort(t) \/ SequenceComplete(t) \/ Throw(t)
      PROVE  IInv'
  BY <1>1, SendIInv, BeginIInv, AbortIInv, CompleteIInv, ThrowIInv
<1>2. ASSUME NEW c \in Conn, DestroySession(c) PROVE IInv'
  BY <1>2, DroppedIInv DEF DestroySession
<1>3. ASSUME NEW c \in Conn, BindConn(c) PROVE IInv'
  BY <1>3, OtherIInv DEF BindConn, IInv, TypeOK
<1>4. CASE Expire
  BY <1>4, OtherIInv DEF Expire, IInv, TypeOK
<1>5. CASE Reap
  BY <1>5, DroppedIInv DEF Reap
<1>6. CASE UNCHANGED vars
  BY <1>6, OtherIInv DEF vars, IInv, TypeOK
<1>. QED BY <1>1, <1>2, <1>3, <1>4, <1>5, <1>6 DEF Next

THEOREM Invariance == Spec => []IInv
BY InitIInv, NextIInv, PTL DEF Spec

\* The operations of a request run at most once, however often it is retransmitted
\* (sequence_begin's classification), for any seqid width.
THEOREM ExactlyOnceThm == Spec => []ExactlyOnce
<1>1. IInv => ExactlyOnce
  BY DEF IInv, RunsInStep, ExactlyOnce
<1>. QED BY <1>1, Invariance, PTL

\* A live slot is in flight exactly while a single compound owns it, so
\* sequence_complete and sequence_abort only end their own claim.
THEOREM InFlightOwnedThm == Spec => []InFlightOwned
<1>1. IInv => InFlightOwned
  <2> SUFFICES ASSUME IInv, session = "live", NEW s \in Slots
               PROVE  LET owners == {t \in Tx : SlotOf(t) = s /\ pc[t] \in {"exec", "error"}}
                      IN  /\ slot[s].in_flight <=> owners # {}
                          /\ \A t, u \in owners : t = u
    BY DEF InFlightOwned
  <2>. QED BY DEF IInv, SlotInStep, OneOwner, Owns
<1>. QED BY <1>1, Invariance, PTL
=============================================================================
