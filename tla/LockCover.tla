----------------------------- MODULE LockCover -----------------------------
(***************************************************************************)
(* What the gateway's byte-range lock table promises for one file (design  *)
(* 07, section 7.6; lock_mgr.hpp): a map from bytes to the lock each owner *)
(* has there.  A request of one owner conflicts with the locks of the      *)
(* others where one side is exclusive; it is granted over its whole range  *)
(* or refused, and never waits.                                            *)
(***************************************************************************)
EXTENDS Naturals

CONSTANTS
  Owner,
  Byte    \* an interval of numbers

VARIABLES
  cover,   \* cover[o][b] : "none", "read" or "write"
  answer   \* what the last operation answered

Modes == {"read", "write"}

Conflicts(o, bs, mode) ==
  \E p \in Owner \ {o} : \E b \in bs :
    cover[p][b] = "write" \/ (cover[p][b] = "read" /\ mode = "write")

Init ==
  /\ cover = [o \in Owner |-> [b \in Byte |-> "none"]]
  /\ answer = "none"

Painted(o, bs, mode) ==
  [cover EXCEPT ![o] = [b \in Byte |-> IF b \in bs THEN mode ELSE @[b]]]

Lock(o, bs, mode) ==
  \/ answer' = "denied" /\ UNCHANGED cover /\ Conflicts(o, bs, mode)
  \/ answer' = "granted" /\ cover' = Painted(o, bs, mode) /\ ~Conflicts(o, bs, mode)

Unlock(o, bs) == answer' = "none" /\ cover' = Painted(o, bs, "none")

Test(o, bs, mode) ==
  /\ answer' \in {"none", "denied"}
  /\ UNCHANGED cover
  /\ answer' = "denied" <=> Conflicts(o, bs, mode)

\* A range is an interval of bytes; release_owner unlocks all of them.
Next ==
  \E o \in Owner, from, to \in Byte :
    \/ \E mode \in Modes : Lock(o, from..to, mode) \/ Test(o, from..to, mode)
    \/ Unlock(o, from..to)

Spec == Init /\ [][Next]_<<cover, answer>>
=============================================================================
