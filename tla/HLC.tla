-------------------------------- MODULE HLC --------------------------------
(***************************************************************************)
(* The hybrid logical clock of synapse/hlc.py: a pair of a physical part l *)
(* in milliseconds and a counter c.  Stored stamps are fixed-width text    *)
(* whose byte order is the order of the pairs; the widths bound what can   *)
(* be stored, not what the clock itself may hold.                          *)
(***************************************************************************)
EXTENDS Integers

CONSTANTS MaxL, MaxC   \* _MAX_L and _MAX_C, the largest values that fit

ASSUME WidthAssumption == MaxL \in Nat /\ MaxC \in Nat

Clock == [l : Nat, c : Nat]

\* The order of the pairs, and of their encodings.
Before(x, y) == x.l < y.l \/ (x.l = y.l /\ x.c < y.c)
NotAfter(x, y) == x = y \/ Before(x, y)

Larger(m, n) == IF m > n THEN m ELSE n

\* Mutant: the stamp follows the physical clock, backwards too.
LocalRuleWall(k, pt) == [l |-> pt, c |-> IF pt = k.l THEN k.c + 1 ELSE 0]

\* stamp: the clock k moves to the physical time pt if that is ahead.
LocalRule(k, pt) ==
  LET l == Larger(k.l, pt) IN [l |-> l, c |-> IF l = k.l THEN k.c + 1 ELSE 0]

\* Mutant: the counter of a remote clock that is ahead is dropped.
MergeRuleNoCounter(k, r) ==
  [l |-> Larger(k.l, r.l), c |-> IF k.l >= r.l THEN k.c + 1 ELSE 0]

\* observe: the clock k absorbs the remote stamp r.
MergeRule(k, r) ==
  [l |-> Larger(k.l, r.l),
   c |-> 1 + IF k.l = r.l THEN Larger(k.c, r.c)
             ELSE IF k.l > r.l THEN k.c ELSE r.c]

\* Mutant: a value too wide for the encoding is written all the same.
EncodableAlways(k) == TRUE

\* encode does not raise.
Encodable(k) == k.l <= MaxL /\ k.c <= MaxC
=============================================================================
