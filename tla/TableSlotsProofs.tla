-------------------------- MODULE TableSlotsProofs --------------------------
(***************************************************************************)
(* Proofs about the table catalog, for any names, any initial array length *)
(* and any bound: IndInv is inductive, and the catalog implements the      *)
(* abstract registry.                                                      *)
(***************************************************************************)
EXTENDS TableSlots, SequenceTheorems, WellFoundedInduction, TLAPS

-----------------------------------------------------------------------------
(* What the slot operations preserve, for any names and any array.         *)
(* A nonempty set of naturals below a bound has a greatest element: what   *)
(* makes the Num_tbls that rdbLoadBT computes well defined.                *)
LEMMA HighestSlot ==
  ASSUME NEW S \in SUBSET Nat, S # {}, NEW n \in Nat, \A s \in S : s < n
  PROVE  \E m \in S : \A s \in S : s <= m
<1> DEFINE T == {t \in Nat : \E s \in S : t + s = n}
<1>1. \A s \in S : s \in Nat /\ n - s \in Nat /\ (n - s) + s = n
  OBVIOUS
<1>2. \A s \in S : n - s \in T
  BY <1>1
<1>3. T \subseteq Nat /\ T # {}
  BY <1>2
<1> HIDE DEF T
<1>4. PICK x \in T : \A y \in T : ~(<<y, x>> \in OpToRel(<, Nat))
  BY <1>3, NatLessThanWellFounded, WFMin
<1>5. \A y \in T : ~(y < x)
  BY <1>3, <1>4 DEF OpToRel
<1>6. PICK m \in S : x + m = n
  BY DEF T
<1>7. \A s \in S : s <= m
  <2>1. TAKE s \in S
  <2>2. /\ n - s \in T /\ n - s \in Nat /\ x \in Nat /\ m \in Nat /\ s \in Nat
        /\ ~(n - s < x)
    BY <1>1, <1>2, <1>3, <1>5
  <2> QED BY <1>6, <2>2
<1> QED BY <1>7

(* An empty array satisfies the invariant. *)
LEMMA NoSlotsInv ==
  ASSUME NEW h \in Nat
  PROVE  SlotsInv(NoSlots(h), Names)
BY EmptySeq DEF NoSlots, SlotsInv, SlotsType, SlotsInBounds, SlotsDropSound,
                SlotsDictAgrees, Live, Dropped

(* The slot handed out next is not live, is not left on the drop list, and *)
(* is inside the array once it has grown.                                  *)
LEMMA NextSlotFresh ==
  ASSUME NEW st, SlotsInv(st, Names)
  PROVE  /\ NextSlot(st) \in Nat
         /\ NextSlot(st) \notin Live(st)
         /\ st.drop = << >> => NextSlot(st) = st.num
         /\ st.drop # << >> => NextSlot(st) = st.drop[1] /\ NextSlot(st) < st.num
<1> USE DEF SlotsInv, SlotsType, SlotsInBounds, SlotsDropSound, NextSlot
<1>1. CASE st.drop = << >>
  BY <1>1
<1>2. CASE st.drop # << >>
  <2>1. 1 \in DOMAIN st.drop /\ Head(st.drop) = st.drop[1] /\ st.drop[1] \in Nat
    BY <1>2
  <2>2. st.drop[1] \in Dropped(st)
    BY <2>1 DEF Dropped
  <2> QED BY <1>2, <2>1, <2>2
<1> QED BY <1>1, <1>2

(* newTable, newIndex preserve the invariant when the name is new. *)
LEMMA NewSlotInv ==
  ASSUME NEW st, SlotsInv(st, Names), NEW n \in Names,
         n \notin DOMAIN st.dict
  PROVE  SlotsInv(NewSlot(st, n), Names)
<1> DEFINE s  == NextSlot(st)
           nw == NewSlot(st, n)
<1>1. /\ s \in Nat /\ s \notin Live(st)
      /\ st.drop = << >> => s = st.num
      /\ st.drop # << >> => s = st.drop[1] /\ s < st.num
  BY NextSlotFresh
<1> HIDE DEF s
<1>2. /\ nw.num  = IF st.drop # << >> THEN st.num ELSE st.num + 1
      /\ nw.drop = IF st.drop # << >> THEN Tail(st.drop) ELSE st.drop
      /\ nw.hw   = Grow(st)
      /\ nw.name = [x \in DOMAIN st.name \cup {s} |->
                      IF x = s THEN n ELSE st.name[x]]
      /\ nw.dict = [x \in DOMAIN st.dict \cup {n} |->
                      IF x = n THEN s ELSE st.dict[x]]
      /\ nw = [num  |-> nw.num, drop |-> nw.drop, hw |-> nw.hw,
               name |-> nw.name, dict |-> nw.dict]
  BY DEF NewSlot, s
<1> HIDE DEF nw
<1>3. Live(nw) = Live(st) \cup {s}
  BY <1>2 DEF Live
<1>4. /\ nw.drop \in Seq(Nat)
      /\ \A i \in DOMAIN nw.drop : nw.drop[i] \in Dropped(st) /\ nw.drop[i] # s
      /\ \A i, j \in DOMAIN nw.drop : nw.drop[i] = nw.drop[j] => i = j
  <2>1. CASE st.drop = << >>
    BY <1>2, <2>1 DEF SlotsInv, SlotsType
  <2>2. CASE st.drop # << >>
    <3>1. /\ Tail(st.drop) \in Seq(Nat)
          /\ \A i \in DOMAIN Tail(st.drop) :
                i + 1 \in DOMAIN st.drop /\ Tail(st.drop)[i] = st.drop[i + 1]
          /\ 1 \in DOMAIN st.drop
      BY <2>2, HeadTailProperties DEF SlotsInv, SlotsType
    <3>2. \A i \in DOMAIN Tail(st.drop) : i \in Nat \ {0}
      BY <3>1
    <3>3. nw.drop = Tail(st.drop) /\ s = st.drop[1]
      BY <1>1, <1>2, <2>2
    <3>4. \A i, j \in DOMAIN st.drop : st.drop[i] = st.drop[j] => i = j
      BY DEF SlotsInv, SlotsDropSound
    <3>5. \A i \in DOMAIN nw.drop : nw.drop[i] \in Dropped(st)
      BY <3>1, <3>3 DEF Dropped
    <3>6. \A i \in DOMAIN nw.drop : nw.drop[i] # s
      BY <3>1, <3>2, <3>3, <3>4
    <3>7. \A i, j \in DOMAIN nw.drop : nw.drop[i] = nw.drop[j] => i = j
      <4> SUFFICES ASSUME NEW i \in DOMAIN nw.drop, NEW j \in DOMAIN nw.drop,
                          nw.drop[i] = nw.drop[j]
                   PROVE  i = j
        OBVIOUS
      <4>1. i + 1 = j + 1
        BY <3>1, <3>3, <3>4
      <4> QED BY <4>1, <3>2, <3>3
    <3> QED BY <3>1, <3>3, <3>5, <3>6, <3>7
  <2> QED BY <2>1, <2>2
<1>5. SlotsType(nw, Names)
  <2>1. nw.num \in Nat /\ nw.hw \in Nat
    BY <1>2 DEF SlotsInv, SlotsType, Grow
  <2>2. nw.name \in [Live(nw) -> Names]
    BY <1>2, <1>3 DEF SlotsInv, SlotsType, Live
  <2>3. nw.dict \in [DOMAIN nw.dict -> Nat] /\ DOMAIN nw.dict \subseteq Names
    BY <1>1, <1>2 DEF SlotsInv, SlotsType
  <2> QED
    BY <1>1, <1>2, <1>3, <1>4, <2>1, <2>2, <2>3 DEF SlotsInv, SlotsType
<1>6. SlotsInBounds(nw)
  BY <1>1, <1>2, <1>3, <1>4
     DEF SlotsInv, SlotsType, SlotsInBounds, Dropped, Grow
<1>7. SlotsDropSound(nw)
  BY <1>3, <1>4 DEF SlotsInv, SlotsDropSound, Dropped
<1>8. SlotsDictAgrees(nw)
  BY <1>1, <1>2, <1>3 DEF SlotsInv, SlotsDictAgrees, Live
<1> QED BY <1>5, <1>6, <1>7, <1>8 DEF SlotsInv, nw

(* emptyTable, emptyIndex preserve the invariant on a live slot. *)
LEMMA EmptySlotInv ==
  ASSUME NEW st, SlotsInv(st, Names), NEW s \in Live(st)
  PROVE  SlotsInv(EmptySlot(st, s), Names)
<1> DEFINE em == EmptySlot(st, s)
<1>1. /\ em.num  = IF s = st.num - 1 THEN st.num - 1 ELSE st.num
      /\ em.drop = IF s = st.num - 1 THEN st.drop ELSE Append(st.drop, s)
      /\ em.hw   = st.hw
      /\ em.name = [x \in DOMAIN st.name \ {s} |-> st.name[x]]
      /\ em.dict = [x \in DOMAIN st.dict \ {st.name[s]} |-> st.dict[x]]
      /\ em = [num  |-> em.num, drop |-> em.drop, hw |-> em.hw,
               name |-> em.name, dict |-> em.dict]
  BY DEF EmptySlot
<1> HIDE DEF em
<1>2. s \in Nat /\ s < st.num /\ s \notin Dropped(st) /\ st.num \in Nat
      /\ st.drop \in Seq(Nat)
  BY DEF SlotsInv, SlotsType, SlotsInBounds, SlotsDropSound
<1>3. Live(em) = Live(st) \ {s}
  BY <1>1 DEF Live
<1>4. /\ em.drop \in Seq(Nat)
      /\ \A i \in DOMAIN em.drop :
            \/ em.drop[i] \in Dropped(st)
            \/ em.drop[i] = s /\ s # st.num - 1
      /\ \A i, j \in DOMAIN em.drop : em.drop[i] = em.drop[j] => i = j
  <2>1. CASE s = st.num - 1
    BY <1>1, <1>2, <2>1 DEF Dropped, SlotsInv, SlotsDropSound
  <2>2. CASE s # st.num - 1
    <3>1. /\ em.drop = Append(st.drop, s)
          /\ em.drop \in Seq(Nat)
          /\ Len(st.drop) \in Nat
          /\ DOMAIN st.drop = 1 .. Len(st.drop)
          /\ DOMAIN em.drop = 1 .. Len(st.drop) + 1
          /\ \A i \in DOMAIN st.drop : em.drop[i] = st.drop[i]
          /\ em.drop[Len(st.drop) + 1] = s
      BY <1>1, <1>2, <2>2
    <3>2. \A i \in DOMAIN st.drop : st.drop[i] \in Dropped(st)
      BY DEF Dropped
    <3>3. \A i, j \in DOMAIN st.drop : st.drop[i] = st.drop[j] => i = j
      BY DEF SlotsInv, SlotsDropSound
    <3>4. \A i \in DOMAIN em.drop : i \in DOMAIN st.drop \/ i = Len(st.drop) + 1
      BY <3>1
    <3>5. \A i \in DOMAIN em.drop : em.drop[i] \in Dropped(st) \/ em.drop[i] = s
      BY <3>1, <3>2, <3>4
    <3>6. \A i, j \in DOMAIN em.drop : em.drop[i] = em.drop[j] => i = j
      BY <1>2, <3>1, <3>2, <3>3, <3>4
    <3> QED BY <2>2, <3>1, <3>5, <3>6
  <2> QED BY <2>1, <2>2
<1>5. SlotsType(em, Names)
  <2>1. em.num \in Nat /\ em.hw \in Nat
    BY <1>1, <1>2 DEF SlotsInv, SlotsType
  <2>2. em.name \in [Live(em) -> Names] /\ Live(em) \subseteq Nat
    BY <1>1, <1>3 DEF SlotsInv, SlotsType, Live
  <2>3. em.dict \in [DOMAIN em.dict -> Nat] /\ DOMAIN em.dict \subseteq Names
    BY <1>1 DEF SlotsInv, SlotsType
  <2> QED BY <1>1, <1>4, <2>1, <2>2, <2>3 DEF SlotsType
<1>6. SlotsInBounds(em)
  <2>1. \A x \in Live(st) \cup Dropped(st) : x \in Nat /\ x < st.num
    BY <1>2 DEF SlotsInv, SlotsType, SlotsInBounds, Dropped
  <2>2. \A x \in Live(em) \cup Dropped(em) : x < em.num
    <3>1. \A x \in Live(em) : x \in Live(st) /\ x # s
      BY <1>3
    <3>2. \A x \in Dropped(em) :
             x \in Dropped(st) \/ (x = s /\ s # st.num - 1)
      BY <1>4 DEF Dropped
    <3>3. CASE s = st.num - 1
      <4>1. em.num = s /\ \A x \in Nat : x < st.num /\ x # s => x < s
        BY <1>1, <1>2, <3>3
      <4> QED BY <1>2, <2>1, <3>1, <3>2, <3>3, <4>1
    <3>4. CASE s # st.num - 1
      BY <1>1, <1>2, <2>1, <3>1, <3>2, <3>4
    <3> QED BY <3>3, <3>4
  <2> QED BY <1>1, <1>2, <2>2 DEF SlotsInv, SlotsType, SlotsInBounds
<1>7. SlotsDropSound(em)
  BY <1>3, <1>4 DEF SlotsInv, SlotsDropSound, Dropped
<1>8. SlotsDictAgrees(em)
  BY <1>1, <1>3 DEF SlotsInv, SlotsDictAgrees, Live
<1> QED BY <1>5, <1>6, <1>7, <1>8 DEF SlotsInv, em

(* A save and a load preserve the invariant. *)
LEMMA ReloadSlotsInv ==
  ASSUME NEW st, SlotsInv(st, Names)
  PROVE  SlotsInv(ReloadSlots(st), Names)
<1> DEFINE re == ReloadSlots(st)
           m  == TopSlot(st)
<1>1. /\ re.num  = IF Live(st) = {} THEN 0 ELSE 1 + m
      /\ re.drop = << >> /\ re.hw = st.num
      /\ re.name = st.name /\ re.dict = st.dict
      /\ re = [num  |-> re.num, drop |-> re.drop, hw |-> re.hw,
               name |-> re.name, dict |-> re.dict]
  BY DEF ReloadSlots, Live
<1>2. Live(st) # {} => m \in Live(st) /\ \A s \in Live(st) : s <= m
  BY HighestSlot DEF SlotsInv, SlotsType, SlotsInBounds, TopSlot, Live
<1> HIDE DEF re, m
<1>3. Live(re) = Live(st) /\ Dropped(re) = {}
  BY <1>1 DEF Live, Dropped
<1>4. SlotsType(re, Names)
  BY <1>1, <1>2, <1>3 DEF SlotsInv, SlotsType
<1>5. SlotsInBounds(re)
  BY <1>1, <1>2, <1>3 DEF SlotsInv, SlotsType, SlotsInBounds
<1>6. SlotsDropSound(re) /\ SlotsDictAgrees(re)
  BY <1>1, <1>3 DEF SlotsInv, SlotsDropSound, SlotsDictAgrees
<1> QED BY <1>4, <1>5, <1>6 DEF SlotsInv, re

-----------------------------------------------------------------------------

(* Every operation of ddl.c, FLUSHALL and a restart keep the catalog       *)
(* consistent.                                                             *)
LEMMA IndInvStep ==
  ASSUME IndInv, [Next]_tb
  PROVE  IndInv'
<1> USE TableSlotsAssumption DEF IndInv
<1>1. CASE FlushAll
  BY <1>1, NoSlotsInv DEF FlushAll
<1>2. CASE Restart
  BY <1>2, ReloadSlotsInv DEF Restart
<1>3. ASSUME NEW n \in Names, CreateTable(n)
      PROVE  IndInv'
  <2>1. n \notin DOMAIN tb.dict
    BY <1>3 DEF CreateTable, Lookup, SlotsInv, SlotsType
  <2> QED BY <1>3, <2>1, NewSlotInv DEF CreateTable
<1>4. ASSUME NEW n \in Names, DropTable(n)
      PROVE  IndInv'
  <2>1. Lookup(tb, n) \in Live(tb)
    BY <1>4 DEF DropTable, Lookup, SlotsInv, SlotsDictAgrees
  <2> QED BY <1>4, <2>1, EmptySlotInv DEF DropTable
<1>5. CASE UNCHANGED tb
  BY <1>5
<1> QED BY <1>1, <1>2, <1>3, <1>4, <1>5 DEF Next

(* The table catalog is consistent in every reachable state: slots inside  *)
(* the array, a sound drop list, dictionary and array in agreement.        *)
THEOREM CatalogSafe == Spec => [](TypeOK /\ SlotsSafe /\ DictAgrees)
<1>1. Init => IndInv
  BY NoSlotsInv, TableSlotsAssumption DEF Init, IndInv
<1>2. IndInv => TypeOK /\ SlotsSafe /\ DictAgrees
  BY DEF IndInv, SlotsInv, TypeOK, SlotsSafe, DictAgrees
<1> QED BY <1>1, <1>2, IndInvStep, PTL DEF Spec

(* The catalog implements the registry: CREATE TABLE binds its name to a   *)
(* slot no other table has, and no step moves or loses another table, a    *)
(* restart included.                                                       *)
THEOREM CatalogImplementsRegistry == Spec => Implements
<1>1. Init => Reg!Init
  BY DEF Init, NoSlots, Reg!Init
<1>2. Init => IndInv
  BY NoSlotsInv, TableSlotsAssumption DEF Init, IndInv
<1>3. ASSUME IndInv, [Next]_tb
      PROVE  [Reg!Next]_(tb.dict)
  <2>1. CASE FlushAll
    BY <2>1 DEF FlushAll, NoSlots, Reg!Flush, Reg!Next
  <2>2. CASE Restart
    BY <2>2 DEF Restart, ReloadSlots
  <2>3. ASSUME NEW n \in Names, CreateTable(n)
        PROVE  Reg!Create(n)
    <3> DEFINE s == NextSlot(tb)
    <3>1. n \notin DOMAIN tb.dict
      BY <1>3, <2>3 DEF CreateTable, Lookup, IndInv, SlotsInv, SlotsType
    <3>2. s \in 0..Bound /\ s \notin Live(tb)
      BY <1>3, <2>3, NextSlotFresh, TableSlotsAssumption DEF CreateTable, IndInv
    <3>3. \A m \in DOMAIN tb.dict : tb.dict[m] # s
      BY <1>3, <3>2 DEF IndInv, SlotsInv, SlotsDictAgrees
    <3>4. tb'.dict = [x \in DOMAIN tb.dict \cup {n} |->
                        IF x = n THEN s ELSE tb.dict[x]]
      BY <2>3 DEF CreateTable, NewSlot
    <3> HIDE DEF s
    <3> QED BY <3>1, <3>2, <3>3, <3>4 DEF Reg!Create
  <2>4. ASSUME NEW n \in Names, DropTable(n)
        PROVE  Reg!Drop(n)
    <3>1. n \in DOMAIN tb.dict
      BY <2>4 DEF DropTable, Lookup
    <3>2. tb.name[tb.dict[n]] = n
      BY <1>3, <3>1 DEF IndInv, SlotsInv, SlotsDictAgrees
    <3>3. tb'.dict = [x \in DOMAIN tb.dict \ {n} |-> tb.dict[x]]
      BY <2>4, <3>1, <3>2 DEF DropTable, EmptySlot, Lookup
    <3> QED BY <3>1, <3>3 DEF Reg!Drop
  <2>5. CASE UNCHANGED tb
    BY <2>5
  <2> QED BY <1>3, <2>1, <2>2, <2>3, <2>4, <2>5 DEF Next, Reg!Next
<1> QED BY <1>1, <1>2, <1>3, IndInvStep, PTL DEF Spec, Implements, Reg!Spec
=============================================================================
