----------------------------- MODULE LockTable -----------------------------
(***************************************************************************)
(* The segment list GatewayLockMgr keeps for one file (state/lock_mgr.cpp) *)
(* under the ranges that the LOCK, LOCKT and LOCKU handlers let through    *)
(* (check_lock_range in nfsv4/engine.cpp).  Every operation runs under the *)
(* shard's mutex, so each is one step.                                     *)
(*                                                                         *)
(* UMax stands for UINT64_MAX: the largest offset, the length that means   *)
(* "to end of file" and the end a segment has when it reaches there.       *)
(***************************************************************************)
EXTENDS Integers, Sequences, SequencesExt

CONSTANTS
  Owner,      \* lock owners (LockOwnerId values)
  UMax,       \* UINT64_MAX
  LastOffset  \* the largest offset clients use, UMax or less

ASSUME LockTableAssumption ==
  /\ UMax \in Nat \ {0}
  /\ LastOffset \in 0..UMax

VARIABLES
  segs,    \* Shard::files[file], empty when the file has no entry
  total,   \* total_
  files,   \* files_
  answer   \* what the last operation answered

vars == <<segs, total, files, answer>>

Seg == [owner : Owner, start : 0..UMax, end : 0..UMax, exclusive : BOOLEAN]

\* The variables keep their types, and the two counters follow the list.
TypeOK ==
  /\ segs \in Seq(Seg)
  /\ total = Len(segs)
  /\ files = IF segs = <<>> THEN 0 ELSE 1
  /\ answer \in {"none", "granted", "denied"}

Init == segs = <<>> /\ total = 0 /\ files = 0 /\ answer = "none"
-----------------------------------------------------------------------------
\* check_lock_range: the ranges that reach the table.
Range4 == {<<offset, length>> \in (0..LastOffset) \X (1..UMax) :
             length # UMax => offset <= UMax - length}

range_end(offset, length) ==
  IF length = UMax \/ offset > UMax - length THEN UMax ELSE offset + length

overlaps(s, start, end) == s.start < end /\ start < s.end

\* Faulty: the end of a split segment is lost.
RemainderHead(s, o, start, end) ==
  IF s.owner # o \/ ~overlaps(s, start, end)
  THEN <<s>>
  ELSE IF s.start < start THEN <<[s EXCEPT !.end = start]>> ELSE <<>>

\* The part of one segment that survives the removal of o's coverage of [start, end).
Remainder(s, o, start, end) ==
  IF s.owner # o \/ ~overlaps(s, start, end)
  THEN <<s>>
  ELSE (IF s.start < start THEN <<[s EXCEPT !.end = start]>> ELSE <<>>)
       \o (IF s.end > end THEN <<[s EXCEPT !.start = end]>> ELSE <<>>)

carve(ss, o, start, end) ==
  FoldLeft(LAMBDA out, s : out \o Remainder(s, o, start, end), <<>>, ss)

ByStart(ss) == SortSeq(ss, LAMBDA a, b : a.start < b.start)

\* Faulty: segments that only touch are not fused.
FusesOverlapping(a, s) ==
  /\ a.owner = s.owner /\ a.exclusive = s.exclusive
  /\ a.end > s.start /\ s.end > a.start

Fuses(a, s) ==
  /\ a.owner = s.owner /\ a.exclusive = s.exclusive
  /\ a.end >= s.start /\ s.end >= a.start

LesserOf(m, n) == IF m < n THEN m ELSE n
GreaterOf(m, n) == IF m > n THEN m ELSE n

\* s joins the last segment of out that it touches, or goes to the end.
FuseInto(out, s) ==
  LET i == SelectLastInSeq(out, LAMBDA a : Fuses(a, s))
  IN  IF i = 0 THEN Append(out, s)
      ELSE [out EXCEPT ![i].start = LesserOf(@, s.start), ![i].end = GreaterOf(@, s.end)]

coalesce(ss) == ByStart(FoldLeft(FuseInto, <<>>, ByStart(ss)))

\* The segments of others that stand against a request.
Against(o, start, end, exclusive) ==
  {i \in 1..Len(segs) : /\ segs[i].owner # o
                        /\ overlaps(segs[i], start, end)
                        /\ exclusive \/ segs[i].exclusive}

\* Faulty: total_ is not given back when the list shrinks.
AccountGrowth(ss) ==
  /\ segs' = ss
  /\ total' = total + GreaterOf(0, Len(ss) - Len(segs))
  /\ files' = files + (IF segs = <<>> /\ ss # <<>> THEN 1 ELSE 0)
                    - (IF segs # <<>> /\ ss = <<>> THEN 1 ELSE 0)

\* The list changes and account keeps the counters: the file's entry goes with its last
\* segment (lock creates the entry when there was none).
Account(ss) ==
  /\ segs' = ss
  /\ total' = total + (Len(ss) - Len(segs))
  /\ files' = files + (IF segs = <<>> /\ ss # <<>> THEN 1 ELSE 0)
                    - (IF segs # <<>> /\ ss = <<>> THEN 1 ELSE 0)

lock(o, r, exclusive) ==
  LET start == r[1]
      end == range_end(r[1], r[2])
  IN  \/ /\ Against(o, start, end, exclusive) # {}
         /\ answer' = "denied"
         /\ UNCHANGED <<segs, total, files>>
      \/ /\ Against(o, start, end, exclusive) = {}
         /\ Account(coalesce(Append(carve(segs, o, start, end),
                      [owner |-> o, start |-> start, end |-> end, exclusive |-> exclusive])))
         /\ answer' = "granted"

unlock(o, r) ==
  /\ Account(carve(segs, o, r[1], range_end(r[1], r[2])))
  /\ answer' = "none"

test(o, r, exclusive) ==
  /\ answer' = IF Against(o, r[1], range_end(r[1], r[2]), exclusive) = {} THEN "none" ELSE "denied"
  /\ UNCHANGED <<segs, total, files>>

release_owner(o) ==
  /\ Account(SelectSeq(segs, LAMBDA s : s.owner # o))
  /\ answer' = "none"

count_owner(o) == Len(SelectSeq(segs, LAMBDA s : s.owner = o))

Next ==
  \E o \in Owner :
    \/ \E r \in Range4, exclusive \in BOOLEAN : lock(o, r, exclusive) \/ test(o, r, exclusive)
    \/ \E r \in Range4 : unlock(o, r)
    \/ release_owner(o)

Spec == Init /\ [][Next]_vars
-----------------------------------------------------------------------------
\* The lock owner o has on byte b.  A segment that ends at UMax reaches the end of file.
ModeAt(o, b) ==
  LET on == {i \in 1..Len(segs) : segs[i].owner = o /\ segs[i].start <= b /\ b < segs[i].end}
  IN  IF on = {} THEN "none"
      ELSE IF \E i \in on : segs[i].exclusive THEN "write" ELSE "read"

Abstract == INSTANCE LockCover WITH
  Byte <- 0..(UMax - 1),
  cover <- [o \in Owner |-> [b \in 0..(UMax - 1) |-> ModeAt(o, b)]]

\* Splitting and fusing segments does to every byte below UINT64_MAX what the promise
\* says, and a request is refused exactly when another owner's lock stands against it.
ImplementsCover == Abstract!Spec

\* carve and coalesce keep POSIX form: one owner's segments never overlap (a byte has one
\* lock type per owner) and two that touch differ in type, so a conflict report and the
\* per-owner segment cap count real locks.
Normal ==
  /\ \A i \in 1..Len(segs) : segs[i].start < segs[i].end
  /\ \A i, j \in 1..Len(segs) : i # j /\ segs[i].owner = segs[j].owner =>
       /\ segs[i].end <= segs[j].start \/ segs[j].end <= segs[i].start
       /\ segs[i].end = segs[j].start => segs[i].exclusive # segs[j].exclusive
=============================================================================
