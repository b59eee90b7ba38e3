----------------------------- MODULE TableSlots -----------------------------
(***************************************************************************)
(* The life of the table catalog: CREATE TABLE, DROP TABLE, FLUSHALL and a *)
(* restart from the RDB file, as they act on Tbl[], TblD, DropT, Num_tbls  *)
(* and Tbl_HW.                                                             *)
(***************************************************************************)
EXTENDS Slots

CONSTANTS Names,      \* table names
          InitHW,     \* INIT_MAX_NUM_TABLES
          Bound       \* bound on Num_tbls, for model checking

ASSUME TableSlotsAssumption == InitHW \in Nat /\ Bound \in Nat

VARIABLE tb           \* the array of tables, a record of module Slots

Init == tb = NoSlots(InitHW)

(* createTable: a name that is already registered is refused. *)
CreateTable(n) == /\ Lookup(tb, n) = -1
                  /\ NextSlot(tb) < Bound
                  /\ tb' = NewSlot(tb, n)

(* dropTable: TABLE_CHECK_OR_REPLY, then emptyTable. *)
DropTable(n) == /\ Lookup(tb, n) # -1
                /\ tb' = EmptySlot(tb, Lookup(tb, n))

(* DXDB_emptyDb: empties every table, then starts from new arrays. *)
FlushAll == tb' = NoSlots(InitHW)

(* A restart: DXDB_rdbSave, then DXDB_rdbLoad in the new process. *)
Restart == tb' = ReloadSlots(tb)

Next == \/ FlushAll
        \/ Restart
        \/ \E n \in Names : CreateTable(n) \/ DropTable(n)

Spec == Init /\ [][Next]_tb

-----------------------------------------------------------------------------
TypeOK == SlotsType(tb, Names)

(* Tbl[] is never indexed past its end: every table's slot, and every slot *)
(* newTable may take from DropT, is below Num_tbls, and Num_tbls never     *)
(* passes the allocated length Tbl_HW, across drops that shrink Num_tbls   *)
(* and restarts that reallocate the array at its saved length.  And a slot *)
(* on DropT holds no live table and is on the list once, so that newTable  *)
(* never hands out a slot twice or over a live table.                      *)
SlotsSafe == SlotsInBounds(tb) /\ SlotsDropSound(tb)

(* TblD and Tbl[] agree: a name leads to the slot that carries it, and     *)
(* every live slot is found under its name.                                *)
DictAgrees == SlotsDictAgrees(tb)

IndInv == SlotsInv(tb, Names)

(* The dictionary implements the registry: CREATE gives a fresh slot, no   *)
(* operation on one table moves another.                                   *)
Reg == INSTANCE Registry WITH reg <- tb.dict, SlotIds <- 0..Bound
Implements == Reg!Spec
=============================================================================
