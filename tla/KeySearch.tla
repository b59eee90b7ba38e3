----------------------------- MODULE KeySearch -----------------------------
(***************************************************************************)
(* The binary search of bt_code.c for a key in the n sorted keys of a      *)
(* node.  findkindex narrows the range i .. i + a by the highest bit of a, *)
(* which _log2 looks up, and returns the last place whose key is at most   *)
(* the one searched for, or -1.  Places count from 0, as in the code.      *)
(***************************************************************************)
EXTENDS Integers, TLAPS

CONSTANTS
    Key,      \* the keys, integers
    MaxN,     \* the most keys a node holds (7 in the build)
    TopBit    \* TopBit[a] = 1 << _log2(a, nbits)

ASSUME KeySearchAssumption ==
    /\ Key \subseteq Int
    /\ MaxN \in Nat
    /\ TopBit \in [1..MaxN -> Nat]
    /\ \A a \in 1..MaxN : TopBit[a] \in 1..a

VARIABLES
    n, key,   \* the node: the number of keys, and the keys
    k,        \* the key searched for
    i, a,     \* the range still to search is i .. i + a
    r,        \* the last comparison, *rr
    pc

vars == <<n, key, k, i, a, r, pc>>

Sorted == \A j, l \in 0..n - 1 : j < l => key[j] < key[l]

Compare(x, y) == IF x < y THEN -1 ELSE IF x = y THEN 0 ELSE 1

(* The caller's r is -1; an empty node returns at once. *)
Init ==
    /\ n \in 0..MaxN
    /\ key \in [0..n - 1 -> Key]
    /\ Sorted
    /\ k \in Key
    /\ r = -1
    /\ a = n - 1
    /\ i = IF n = 0 THEN -1 ELSE 0
    /\ pc = IF n = 0 THEN "done" ELSE "loop"

(* Mutant of Narrow: the lower part keeps the slot just compared. *)
NarrowKeepsSlot ==
    /\ pc = "loop" /\ a > 0
    /\ LET slot == i + TopBit[a]
       IN  /\ r' = Compare(k, key[slot])
           /\ IF k < key[slot]
              THEN a' = TopBit[a] /\ i' = i
              ELSE a' = a - TopBit[a] /\ i' = i + TopBit[a]
    /\ UNCHANGED <<n, key, k, pc>>

(* One turn of the loop.  i |= 1 << b is an addition, see BitFree. *)
Narrow ==
    /\ pc = "loop" /\ a > 0
    /\ LET slot == i + TopBit[a]
       IN  /\ r' = Compare(k, key[slot])
           /\ IF k < key[slot]
              THEN a' = TopBit[a] - 1 /\ i' = i
              ELSE a' = a - TopBit[a] /\ i' = i + TopBit[a]
    /\ UNCHANGED <<n, key, k, pc>>

(* Mutant of Return: the last comparison does not move the place back. *)
ReturnAlways ==
    /\ pc = "loop" /\ a <= 0
    /\ r' = Compare(k, key[i])
    /\ i' = i
    /\ pc' = "done"
    /\ UNCHANGED <<n, key, k, a>>

(* The last comparison: the place before i when its key is greater. *)
Return ==
    /\ pc = "loop" /\ a <= 0
    /\ r' = Compare(k, key[i])
    /\ i' = IF k < key[i] THEN i - 1 ELSE i
    /\ pc' = "done"
    /\ UNCHANGED <<n, key, k, a>>

Next == Narrow \/ Return

Spec == Init /\ [][Next]_vars

FairSpec == Spec /\ WF_vars(Next)

----------------------------------------------------------------------------

TypeOK ==
    /\ n \in 0..MaxN /\ key \in [0..n - 1 -> Key] /\ k \in Key
    /\ i \in -1..MaxN /\ a \in -1..MaxN /\ r \in -1..1 /\ pc \in {"loop", "done"}

(* The search never leaves the node: KEYS is read at places of the node. *)
InNode == pc = "loop" => i \in 0..n - 1 /\ i + a \in i..n - 1

(* What every turn keeps: the keys up to i (but the first) are at most k,   *)
(* those behind i + a are greater.                                          *)
Bracket == pc = "loop" => /\ i > 0 => key[i] <= k
                          /\ \A j \in 0..n - 1 : j > i + a => k < key[j]

(* findkindex returns the last place whose key is at most k, or -1, and the *)
(* comparison is 0 exactly when that place holds k: on both rely every      *)
(* descent, insert and delete of the tree.                                  *)
Correct ==
    pc = "done" =>
        /\ i \in -1..n - 1
        /\ \A j \in 0..n - 1 : j <= i <=> key[j] <= k
        /\ r = 0 <=> \E j \in 0..n - 1 : key[j] = k

(* The loop ends. *)
Terminates == <>(pc = "done")

IndInv == TypeOK /\ Sorted /\ InNode /\ Bracket /\ Correct

-----------------------------------------------------------------------------
(* The nodes of the build (t = 4, n = 7, nbits = 4), for TLC.             *)

(* real_log2: a turn with b looks at the upper half of the bits that are   *)
(* left and decides the bit of weight b of the result; b is then halved.   *)
RealLog2[b \in 0..2] ==
    [x \in 0..15 |->
        IF b = 0 THEN 0
        ELSE IF x >= 2 ^ b THEN b + RealLog2[b \div 2][x \div 2 ^ b]
        ELSE RealLog2[b \div 2][x % 2 ^ b]]

NodeBits == 4
NodeTopBit == [x \in 1..MaxN |-> 2 ^ RealLog2[(NodeBits + 1) \div 2][x]]
NodeKeys == 1..8

-----------------------------------------------------------------------------
(***************************************************************************)
(* The search is correct for every node size and every key.                *)
(***************************************************************************)

(* Init puts the whole node between the brackets. *)
LEMMA SearchStarts == Init => IndInv
BY KeySearchAssumption DEF Init, IndInv, TypeOK, Sorted, InNode, Bracket, Correct

(* A turn of the loop compares with a key inside the range and keeps the    *)
(* brackets, and so does the return.                                        *)
LEMMA SearchStep == IndInv /\ [Next]_vars => IndInv'
<1> SUFFICES ASSUME IndInv, [Next]_vars PROVE IndInv'
  OBVIOUS
<1> USE KeySearchAssumption
<1>1. CASE Narrow
  <2>1. /\ n' = n /\ key' = key /\ k' = k /\ pc' = pc /\ pc = "loop"
    BY <1>1 DEF Narrow
  <2>2. /\ n \in Nat /\ i \in Nat /\ a \in Nat /\ a > 0 /\ i + a <= n - 1 /\ a <= MaxN
    BY <1>1 DEF Narrow, IndInv, TypeOK, InNode
  <2>3. TopBit[a] \in 1..a
    BY <2>2
  <2> DEFINE slot == i + TopBit[a]
  <2>4. slot \in 0..n - 1 /\ slot > i /\ slot <= i + a
    BY <2>2, <2>3
  <2>5. key[slot] \in Int /\ k \in Int
    BY <2>4 DEF IndInv, TypeOK
  <2>6. Sorted'
    BY <2>1 DEF IndInv, Sorted
  <2>7. Correct'
    BY <2>1 DEF Correct
  <2>8. r' \in -1..1
    BY <1>1, <2>5 DEF Narrow, Compare
  <2>9. CASE k < key[slot]
    <3>1. a' = TopBit[a] - 1 /\ i' = i
      BY <1>1, <2>9 DEF Narrow
    <3>2. \A j \in 0..n - 1 : j > i' + a' => k < key[j]
      <4> SUFFICES ASSUME NEW j \in 0..n - 1, j > i' + a' PROVE k < key[j]
        OBVIOUS
      <4>1. j = slot \/ j > slot
        BY <3>1, <2>2, <2>3, <2>4
      <4>2. key[j] \in Int
        BY DEF IndInv, TypeOK
      <4>3. j > slot => key[slot] < key[j]
        BY <2>4 DEF IndInv, Sorted
      <4> QED
        BY <4>1, <4>2, <4>3, <2>5, <2>9
    <3>3. Bracket'
      BY <3>1, <3>2, <2>1 DEF IndInv, Bracket
    <3>4. TypeOK' /\ InNode'
      BY <3>1, <2>1, <2>2, <2>3, <2>8 DEF IndInv, TypeOK, InNode
    <3> QED
      BY <3>3, <3>4, <2>6, <2>7 DEF IndInv
  <2>10. CASE ~(k < key[slot])
    <3>1. a' = a - TopBit[a] /\ i' = slot
      BY <1>1, <2>10 DEF Narrow
    <3>2. i' + a' = i + a
      BY <3>1, <2>2, <2>3
    <3>3. key[slot] <= k
      BY <2>5, <2>10
    <3>4. Bracket'
      BY <3>1, <3>2, <3>3, <2>1 DEF IndInv, Bracket
    <3>5. i' \in Nat /\ a' \in Nat /\ i' <= n - 1 /\ a' <= MaxN /\ i' <= MaxN
      <4> DEFINE b == TopBit[a]
      <4>1. n <= MaxN /\ MaxN \in Nat
        BY DEF IndInv, TypeOK
      <4>2. b \in Nat /\ 1 <= b /\ b <= a /\ a' = a - b /\ i' = i + b
        BY <3>1, <2>2, <2>3
      <4> HIDE DEF b
      <4> QED
        BY <4>1, <4>2, <2>2
    <3>6. InNode'
      <4>1. i' + a' <= n - 1
        BY <3>2, <2>2
      <4>2. \A x, y, m \in Nat : x <= m - 1 /\ x + y <= m - 1
                                   => x \in 0..m - 1 /\ x + y \in x..m - 1
        OBVIOUS
      <4>3. n \in Nat
        BY <2>2
      <4>4. i' \in 0..n - 1 /\ i' + a' \in i'..n - 1
        BY <4>1, <4>2, <4>3, <3>5
      <4> QED
        BY <4>4, <2>1 DEF InNode
    <3>7. TypeOK'
      BY <3>5, <2>1, <2>8 DEF IndInv, TypeOK
    <3> QED
      BY <3>4, <3>6, <3>7, <2>6, <2>7 DEF IndInv
  <2> QED
    BY <2>9, <2>10
<1>2. CASE Return
  <2>1. /\ n' = n /\ key' = key /\ k' = k /\ pc = "loop" /\ pc' = "done" /\ a' = a
    BY <1>2 DEF Return
  <2>2. n \in Nat /\ a = 0 /\ i \in 0..n - 1 /\ n <= MaxN
    BY <1>2 DEF Return, IndInv, TypeOK, InNode
  <2>3. key[i] \in Int /\ k \in Int
    BY <2>2 DEF IndInv, TypeOK
  <2>4. r' \in -1..1 /\ (r' = 0 <=> k = key[i])
    BY <1>2, <2>3 DEF Return, Compare
  <2>5. \A j \in 0..n - 1 : key[j] \in Int
    BY DEF IndInv, TypeOK
  <2>6. \A j \in 0..n - 1 : j < i => key[j] < key[i]
    BY <2>2 DEF IndInv, Sorted
  <2>7. \A j \in 0..n - 1 : j > i => k < key[j]
    BY <2>1, <2>2 DEF IndInv, Bracket
  <2>8. i > 0 => key[i] <= k
    BY <2>1 DEF IndInv, Bracket
  <2>9. CASE k < key[i]
    <3>1. i = 0 /\ i' = -1
      BY <1>2, <2>2, <2>3, <2>8, <2>9 DEF Return
    <3>2. \A j \in 0..n - 1 : k < key[j]
      BY <3>1, <2>2, <2>7, <2>9
    <3>3. Correct'
      BY <3>1, <3>2, <2>1, <2>2, <2>3, <2>4, <2>5, <2>9 DEF Correct
    <3> QED
      BY <3>1, <3>3, <2>1, <2>2, <2>4 DEF IndInv, TypeOK, Sorted, InNode, Bracket
  <2>10. CASE ~(k < key[i])
    <3>1. i' = i /\ key[i] <= k
      BY <1>2, <2>3, <2>10 DEF Return
    <3>2. \A j \in 0..n - 1 : j <= i <=> key[j] <= k
      <4> SUFFICES ASSUME NEW j \in 0..n - 1 PROVE j <= i <=> key[j] <= k
        OBVIOUS
      <4>1. j < i \/ j = i \/ j > i
        BY <2>2
      <4> QED
        BY <4>1, <3>1, <2>2, <2>3, <2>5, <2>6, <2>7
    <3>3. (\E j \in 0..n - 1 : key[j] = k) <=> key[i] = k
      <4>1. \A j \in 0..n - 1 : key[j] = k => j = i
        <5> SUFFICES ASSUME NEW j \in 0..n - 1, key[j] = k PROVE j = i
          OBVIOUS
        <5>1. ~(j > i)
          BY <2>3, <2>7
        <5>2. ~(j < i)
          BY <2>3, <2>6, <3>1
        <5> QED
          BY <5>1, <5>2, <2>2
      <4> QED
        BY <4>1, <2>2
    <3>4. Correct'
      BY <3>1, <3>2, <3>3, <2>1, <2>2, <2>4 DEF Correct
    <3> QED
      BY <3>1, <3>4, <2>1, <2>2, <2>4 DEF IndInv, TypeOK, Sorted, InNode, Bracket
  <2> QED
    BY <2>9, <2>10
<1>3. CASE UNCHANGED vars
  BY <1>3 DEF vars, IndInv, TypeOK, Sorted, InNode, Bracket, Correct
<1> QED
  BY <1>1, <1>2, <1>3 DEF Next

(* findkindex returns the right place and comparison for every sorted node, *)
(* whatever bit of a the table of logarithms answers.                       *)
THEOREM SearchCorrect == Spec => []IndInv
BY SearchStarts, SearchStep, PTL DEF Spec
=============================================================================
