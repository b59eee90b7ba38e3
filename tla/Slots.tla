------------------------------- MODULE Slots -------------------------------
(***************************************************************************)
(* Slot allocation for the two catalog arrays of the SQL layer, Tbl[] and  *)
(* Index[].  Both arrays work alike: an element is live while its name is  *)
(* set, a dictionary (TblD, IndD) maps the name of a live element to its   *)
(* slot, a drop list (DropT, DropI) holds the slots that wait to be taken  *)
(* again, Num_* counts the slots handed out and *_HW is the allocated      *)
(* length.  The state of one array is a record, the operations are         *)
(* functions of it:                                                        *)
(*   num   Num_tbls / Num_indx                                             *)
(*   drop  DropT / DropI, oldest first                                     *)
(*   hw    Tbl_HW / Ind_HW                                                 *)
(*   name  the names of the live slots                                     *)
(*   dict  TblD / IndD                                                     *)
(***************************************************************************)
EXTENDS Integers, Sequences

(* init_DXDB_PersistentStorageItems: an empty array of length h. *)
NoSlots(h) == [num  |-> 0, drop |-> << >>, hw |-> h,
               name |-> [s \in {} |-> s], dict |-> [n \in {} |-> n]]

(* find_table, match_partial_index_name: the slot of a name, -1 if unknown. *)
Lookup(st, n) == IF n \in DOMAIN st.dict THEN st.dict[n] ELSE -1

(* The slot the next element gets: the head of the drop list, else Num.    *)
NextSlot(st) == IF st.drop # << >> THEN Head(st.drop) ELSE st.num

(* addTable, addIndex: the array grows by one when it is full. *)
Grow(st) == IF st.drop = << >> /\ st.num >= st.hw THEN st.hw + 1 ELSE st.hw

(* Mutant of NewSlot: the slot is read from the drop list and left on it.  *)
NewSlotNoPop(st, n) ==
  LET s == NextSlot(st)
  IN  [st EXCEPT !.num  = IF st.drop # << >> THEN @ ELSE @ + 1,
                 !.hw   = Grow(st),
                 !.name = [x \in DOMAIN @ \cup {s} |-> IF x = s THEN n ELSE @[x]],
                 !.dict = [x \in DOMAIN @ \cup {n} |-> IF x = n THEN s ELSE @[x]]]

(* newTable, newIndex: take a slot, write the name, add it to the          *)
(* dictionary.                                                             *)
NewSlot(st, n) ==
  LET s == NextSlot(st)
  IN  [num  |-> IF st.drop # << >> THEN st.num ELSE st.num + 1,
       drop |-> IF st.drop # << >> THEN Tail(st.drop) ELSE st.drop,
       hw   |-> Grow(st),
       name |-> [x \in DOMAIN st.name \cup {s} |->
                   IF x = s THEN n ELSE st.name[x]],
       dict |-> [x \in DOMAIN st.dict \cup {n} |->
                   IF x = n THEN s ELSE st.dict[x]]]

(* Mutant of EmptySlot: the last slot also goes on the drop list. *)
EmptySlotTwice(st, s) ==
  [st EXCEPT !.num  = IF s = @ - 1 THEN @ - 1 ELSE @,
             !.drop = Append(@, s),
             !.name = [x \in DOMAIN @ \ {s} |-> @[x]],
             !.dict = [x \in DOMAIN @ \ {st.name[s]} |-> @[x]]]

(* Mutant of EmptySlot: the dictionary keeps the name. *)
EmptySlotKeepsName(st, s) ==
  [st EXCEPT !.num  = IF s = @ - 1 THEN @ - 1 ELSE @,
             !.drop = IF s = st.num - 1 THEN @ ELSE Append(@, s),
             !.name = [x \in DOMAIN @ \ {s} |-> @[x]]]

(* emptyTable, emptyIndex: forget the name; the last slot is given back to *)
(* Num, any other slot goes on the drop list.                              *)
EmptySlot(st, s) ==
  [num  |-> IF s = st.num - 1 THEN st.num - 1 ELSE st.num,
   drop |-> IF s = st.num - 1 THEN st.drop ELSE Append(st.drop, s),
   hw   |-> st.hw,
   name |-> [x \in DOMAIN st.name \ {s} |-> st.name[x]],
   dict |-> [x \in DOMAIN st.dict \ {st.name[s]} |-> st.dict[x]]]

(* DXDB_rdbSave, DXDB_rdbLoad: the array comes back with the saved Num as  *)
(* its length and every live element in its old slot; Num becomes one more *)
(* than the highest live slot, and the drop list is gone.                  *)
TopSlot(st) == CHOOSE m \in DOMAIN st.name : \A s \in DOMAIN st.name : s <= m

ReloadSlots(st) ==
  [num  |-> IF DOMAIN st.name = {} THEN 0 ELSE 1 + TopSlot(st),
   drop |-> << >>,
   hw   |-> st.num,
   name |-> st.name,
   dict |-> st.dict]

-----------------------------------------------------------------------------
Live(st)    == DOMAIN st.name
Dropped(st) == {st.drop[i] : i \in DOMAIN st.drop}

SlotsType(st, Names) ==
  /\ st = [num  |-> st.num, drop |-> st.drop, hw |-> st.hw,
           name |-> st.name, dict |-> st.dict]
  /\ st.num \in Nat /\ st.hw \in Nat
  /\ st.drop \in Seq(Nat)
  /\ Live(st) \subseteq Nat
  /\ st.name \in [Live(st) -> Names]
  /\ DOMAIN st.dict \subseteq Names
  /\ st.dict \in [DOMAIN st.dict -> Nat]

(* A slot that is live, or that waits on the drop list, is below Num, and  *)
(* Num never passes the allocated length.                                  *)
SlotsInBounds(st) == /\ \A s \in Live(st) \cup Dropped(st) : s < st.num
                     /\ st.num <= st.hw

(* A slot on the drop list holds no live element and is there once, so     *)
(* that no slot is handed out twice or over a live element.                *)
SlotsDropSound(st) == /\ Live(st) \cap Dropped(st) = {}
                      /\ \A i, j \in DOMAIN st.drop :
                           st.drop[i] = st.drop[j] => i = j

(* The dictionary and the array agree: a name leads to the slot that       *)
(* carries it, and every live slot is found under its name.                *)
SlotsDictAgrees(st) ==
  /\ \A n \in DOMAIN st.dict : /\ st.dict[n] \in Live(st)
                               /\ st.name[st.dict[n]] = n
  /\ \A s \in Live(st) : /\ st.name[s] \in DOMAIN st.dict
                         /\ st.dict[st.name[s]] = s

SlotsInv(st, Names) == /\ SlotsType(st, Names) /\ SlotsInBounds(st)
                       /\ SlotsDropSound(st)   /\ SlotsDictAgrees(st)
=============================================================================
