------------------------------ MODULE Catalog ------------------------------
(***************************************************************************)
(* The SQL catalog: the tables of Tbl[], the indexes of Index[], and the   *)
(* links between them (a table's ilist, fdict, vimatch, lrui, lfui and the *)
(* imatch of its columns), under CREATE and DROP of tables, indexes and    *)
(* Lua triggers, index cursors, FLUSHALL and a restart from the RDB file.  *)
(* A handler that works on several entries is a function of the whole      *)
(* catalog, so that every action is one call of the C handler:             *)
(*   tb, ix  the two arrays, records of module Slots                       *)
(*   tbl     r_tbl_t of every table slot in use                            *)
(*   ind     r_ind_t of every index slot in use                            *)
(*   fault   "none", or how the process ended: "assert" (a failed          *)
(*           ASSERT_OK), "null" (a NULL was dereferenced), "load" (the RDB *)
(*           file was refused)                                             *)
(***************************************************************************)
EXTENDS Slots, SequencesExt

CONSTANTS TNames,     \* table names
          FNames,     \* Lua functions that may be indexed
          NCols,      \* columns 1..NCols besides the primary key, column 0
          InitHW,     \* INIT_MAX_NUM_TABLES, INIT_MAX_NUM_INDICES
          TBound,     \* bound on the table slots, for model checking
          Uses        \* the ways to use the catalog, one per behaviour:
                      \*   names   index and trigger names that commands give
                      \*   shapes  column lists CREATE INDEX may name
                      \*   kinds   kinds of index in use
                      \*   indexes bound on the index slots
                      \*   listed  bound on the length of an ilist

AllKinds == {"norm", "uniq", "prtl", "func", "luat", "lru", "lfu", "load"}

ASSUME CatalogAssumption ==
  /\ NCols \in Nat /\ InitHW \in Nat /\ TBound \in Nat
  /\ \A u \in Uses : /\ u.indexes \in Nat /\ u.listed \in Nat
                     /\ u.shapes \subseteq Seq(1..NCols) \ {<< >>}
                     /\ u.kinds \subseteq AllKinds

VARIABLES cat,
          use     \* the member of Uses of this behaviour

NoFn    == << >>
LruCol  == NCols + 1
LfuCol  == NCols + 2
AllCols == 0..LfuCol

\* The names the server makes up: tbl_pk_index, lru_tbl, lfu_tbl.
PkName(t)  == <<"index", t>>
LruName(t) == <<"lru", t>>
LfuName(t) == <<"lfu", t>>

(* init_DXDB_PersistentStorageItems *)
NoCatalog(th, ih) == [tb  |-> NoSlots(th),    ix  |-> NoSlots(ih),
                      tbl |-> [t \in {} |-> t], ind |-> [i \in {} |-> i],
                      fault |-> "none"]

With(f, x, v) == [y \in DOMAIN f \cup {x} |-> IF y = x THEN v ELSE f[y]]
Without(f, x) == [y \in DOMAIN f \ {x} |-> f[y]]

Fail(c, how) == [c EXCEPT !.fault = IF @ = "none" THEN how ELSE @]

(* initTable and the columns of newTable: nothing is indexed yet. *)
NewTbl == [ilist |-> << >>, col |-> [x \in AllCols |-> -1],
           fdict |-> [f \in {} |-> f], nltrgr |-> 0, nmci |-> 0,
           vimatch |-> -1, lrui |-> -1, lfui |-> -1]

Index(t, kind, cols, uniq, done, fn) ==
  [tmatch |-> t, kind |-> kind, cols |-> cols, uniq |-> uniq, done |-> done,
   fn |-> fn]

\* A slot that is not in use was zeroed.
Entry(c, i) == IF i \in Live(c.ix) THEN c.ind[i]
               ELSE Index(-1, "none", << >>, FALSE, FALSE, NoFn)

IsMci(r) == Len(r.cols) > 1

(* MATCH_PARTIAL_INDICES: all of ilist.  MATCH_INDICES: the finished ones, *)
(* with the UNIQUE ones pushed to the front.                               *)
MatchPartialIndices(c, t) == c.tbl[t].ilist
MatchIndices(c, t) ==
  LET Uniq(i) == Entry(c, i).done /\ Entry(c, i).uniq
      Norm(i) == Entry(c, i).done /\ ~Entry(c, i).uniq
  IN  Reverse(SelectSeq(c.tbl[t].ilist, Uniq)) \o SelectSeq(c.tbl[t].ilist, Norm)

(* What newIndex and rdbLoadBT write into the table: ilist, the imatch of  *)
(* the first column, the counters, vimatch.                                *)
LinkIndex(rt, i, r) ==
  [rt EXCEPT !.ilist   = Append(@, i),
             !.col     = IF r.cols = << >> THEN @ ELSE [@ EXCEPT ![r.cols[1]] = i],
             !.nltrgr  = IF r.kind = "luat" THEN @ + 1 ELSE @,
             !.nmci    = IF IsMci(r) THEN @ + 1 ELSE @,
             !.vimatch = IF r.kind = "virt" THEN i ELSE @]

(* newIndex up to its first failure point: a slot, the entry, the links.   *)
NewIndexRaw(c, n, r) ==
  LET i == NextSlot(c.ix)
  IN  [c EXCEPT !.ix  = NewSlot(@, n),
                !.ind = With(@, i, r),
                !.tbl[r.tmatch] = LinkIndex(@, i, r)]

\* Mutant of UnlinkIndex: a column keeps its imatch.
UnlinkKeepsImatch(rt, i, r) ==
  [rt EXCEPT !.ilist = IF r.cols = << >> THEN @ ELSE RemoveFirst(@, i),
             !.nmci  = IF IsMci(r) THEN @ - 1 ELSE @]

(* What emptyIndex takes out of the table.  An entry without a column      *)
(* stays in ilist, and fdict keeps its function.                           *)
UnlinkIndex(rt, i, r) ==
  [rt EXCEPT !.ilist  = IF r.cols = << >> THEN @ ELSE RemoveFirst(@, i),
             !.col    = IF r.cols = << >> THEN @ ELSE [@ EXCEPT ![r.cols[1]] = -1],
             !.nltrgr = IF r.kind = "luat" THEN @ - 1 ELSE @,
             !.nmci   = IF IsMci(r) /\ @ > 0 THEN @ - 1 ELSE @]

(* emptyIndex: the entry leaves IndD and its table, and gives its slot     *)
(* back.  Without the table, or without the entry in its ilist, an entry   *)
(* with a column ends in a NULL dereference.                               *)
EmptyIndex(c, i) ==
  LET r == c.ind[i]
      t == r.tmatch
      linked == t \in DOMAIN c.tbl /\ Contains(c.tbl[t].ilist, i)
  IN  IF i \notin Live(c.ix) \/ c.fault # "none" THEN c
      ELSE IF r.cols # << >> /\ ~linked THEN Fail(c, "null")
      ELSE [c EXCEPT !.ix  = EmptySlot(@, i),
                     !.ind = Without(@, i),
                     !.tbl = IF t \in DOMAIN @
                             THEN [@ EXCEPT ![t] = UnlinkIndex(@, i, r)] ELSE @]

(* newIndex.  A function already in fdict is refused; a constructor or a   *)
(* build that fails (ok = FALSE) takes the new entry down again; a name    *)
(* that IndD already holds fails ASSERT_OK.                                *)
NewIndex(c, n, r, ok) ==
  LET i     == NextSlot(c.ix)
      raw   == NewIndexRaw(c, n, r)
      rpt   == r.kind = "func" /\ r.fn \in DOMAIN c.tbl[r.tmatch].fdict
      named == IF r.kind # "func" THEN raw
               ELSE [raw EXCEPT !.tbl[r.tmatch].fdict = With(@, r.fn, i)]
  IN  IF rpt THEN EmptyIndex(raw, i)
      ELSE IF r.kind = "func" /\ ~ok THEN EmptyIndex(named, i)
      ELSE IF n \in DOMAIN c.ix.dict THEN Fail(named, "assert")
      ELSE IF ~ok THEN EmptyIndex(named, i)
      ELSE named

(* newTable, for a name that createTable found to be new: the entry, then  *)
(* the virtual index of its primary key.                                   *)
NewTable(c, n) ==
  LET t == NextSlot(c.tb)
  IN  NewIndex([c EXCEPT !.tb = NewSlot(@, n), !.tbl = With(@, t, NewTbl)],
               PkName(n), Index(t, "virt", <<0>>, FALSE, TRUE, NoFn), TRUE)

(* emptyTable: the finished indexes of the table, then its slot. *)
EmptyTable(c, t) ==
  LET d == FoldLeft(EmptyIndex, c, MatchIndices(c, t))
  IN  IF d.fault # "none" THEN d
      ELSE [d EXCEPT !.tb = EmptySlot(@, t), !.tbl = Without(@, t)]

(* find_partial_index, for a column that is not a Lua object. *)
FindPartialIndex(c, t, cols) == c.tbl[t].col[cols[1]]

(* ICommit: the indexes that the "already indxd?" loops take for the one   *)
(* to be made.  A list of columns is compared by icol_cmp, which is zero   *)
(* for equal columns: the loop keeps match for a list that differs in      *)
(* every place.                                                            *)
AlreadyIndexed(c, t, cols) ==
  {i \in Live(c.ix) :
     LET r == c.ind[i]
     IN  /\ r.tmatch = t /\ r.cols # << >>
         /\ IF Len(cols) = 1 THEN r.cols[1] = cols[1]
            ELSE Len(r.cols) = Len(cols)
                 /\ \A k \in DOMAIN cols : r.cols[k] # cols[k]}

(* buildNewIndex of an index cursor: it may reach the last row. *)
BuildPartial(c, i, fin) ==
  IF i = -1 \/ c.fault # "none" THEN c
  ELSE [c EXCEPT !.ind[i].done = @ \/ fin]

(* match_index_name: no finished index has the name. *)
NameFree(c, n) == n \in DOMAIN c.ix.dict => ~Entry(c, c.ix.dict[n]).done

\* Mutant of CommitOK: the name is not looked up.
CommitOKAnyName(c, n, t, cols, uniq, prtl) ==
  /\ (uniq /\ Len(cols) > 1) => c.tbl[t].nmci = 0
  /\ AlreadyIndexed(c, t, cols) = {}

(* createIndex and ICommit, for CREATE [UNIQUE] INDEX n ON t (cols)        *)
(* [LIMIT ..]: the commands that pass all checks.                          *)
CommitOK(c, n, t, cols, uniq, prtl) ==
  /\ NameFree(c, n)
  /\ (uniq /\ Len(cols) > 1) => c.tbl[t].nmci = 0
  /\ \A i \in AlreadyIndexed(c, t, cols) :
       prtl /\ ~c.ind[i].done /\ c.ix.name[i] = n
ICommit(c, n, t, cols, uniq, prtl, ok, fin) ==
  LET r    == Index(t, IF uniq THEN "uniq" ELSE "norm", cols, uniq, ~prtl, NoFn)
      made == IF AlreadyIndexed(c, t, cols) # {} THEN c ELSE NewIndex(c, n, r, ok)
  IN  IF prtl THEN BuildPartial(made, FindPartialIndex(made, t, cols), fin)
      ELSE made
-----------------------------------------------------------------------------
(* DXDB_rdbSave, DXDB_rdbLoad: tables in slot order, each followed by its  *)
(* partial indices.  An entry without a btree is written as a virtual      *)
(* index, which the load skips.                                            *)
SlotsInOrder(S) == SetToSortSeq(S, <)
HasBtree(c, i)  == i \in Live(c.ix) /\ c.ind[i].kind \notin {"virt", "luat"}
IsTrigger(c, i) == i \in Live(c.ix) /\ c.ind[i].kind = "luat"

\* One entry read into its own slot: ASSERT_OK(dictAdd), then Num_*.
LoadAt(st, s, n) ==
  [st EXCEPT !.num  = IF @ < s + 1 THEN s + 1 ELSE @,
             !.name = With(@, s, n),
             !.dict = With(@, n, s)]

(* rdbLoadBT of a table: the entry, then the virtual index in its old      *)
(* slot, over whatever is there.                                           *)
LoadTable(c, t, n, vi) ==
  LET r == Index(t, "virt", <<0>>, FALSE, TRUE, NoFn)
      d == [c EXCEPT !.tb  = LoadAt(@, t, n),
                     !.ix  = LoadAt(@, vi, PkName(n)),
                     !.ind = With(@, vi, r),
                     !.tbl = With(@, t, LinkIndex(NewTbl, vi, r))]
  IN  IF n \in DOMAIN c.tb.dict \/ PkName(n) \in DOMAIN c.ix.dict
      THEN Fail(d, "assert") ELSE d

\* Mutant of LoadIndex: the index is made anew, in the next slot.
LoadIndexNextSlot(c, i, n, r) == NewIndex(c, n, r, TRUE)

(* rdbLoadBT of an index: the entry comes back finished, in its old slot.  *)
LoadIndex(c, i, n, r) ==
  LET lr == [r EXCEPT !.done = TRUE]
      rt == LinkIndex(c.tbl[r.tmatch], i, lr)
      d  == [c EXCEPT !.ix  = LoadAt(@, i, n),
                      !.ind = With(@, i, lr),
                      !.tbl[r.tmatch] =
                        [rt EXCEPT !.fdict = IF r.kind = "func" THEN With(@, r.fn, i)
                                             ELSE @,
                                   !.lrui  = IF r.kind = "lru" THEN i ELSE @,
                                   !.lfui  = IF r.kind = "lfu" THEN i ELSE @]]
  IN  IF r.tmatch \notin DOMAIN c.tbl THEN Fail(c, "null")
      ELSE IF r.kind = "func" /\ r.fn \in DOMAIN c.tbl[r.tmatch].fdict
           THEN Fail(c, "load")
      ELSE IF n \in DOMAIN c.ix.dict THEN Fail(d, "assert")
      ELSE d

(* What was saved of one entry of ilist, read back.  A trigger goes        *)
(* through newIndex, which gives it the next slot.                         *)
LoadItem(c, old, i) ==
  IF c.fault # "none" THEN c
  ELSE IF IsTrigger(old, i) THEN NewIndex(c, old.ix.name[i], old.ind[i], TRUE)
  ELSE IF HasBtree(old, i)  THEN LoadIndex(c, i, old.ix.name[i], old.ind[i])
  ELSE c

LoadAll(c, old, t) ==
  LET Item(d, i) == LoadItem(d, old, i)
  IN  IF c.fault # "none" THEN c
      ELSE FoldLeft(Item,
                    LoadTable(c, t, old.tb.name[t], old.tbl[t].vimatch),
                    MatchPartialIndices(old, t))

Reload(old) ==
  LET Tab(d, t) == LoadAll(d, old, t)
  IN  FoldLeft(Tab, NoCatalog(old.tb.num, old.ix.num), SlotsInOrder(Live(old.tb)))
-----------------------------------------------------------------------------
Init == use \in Uses /\ cat = NoCatalog(InitHW, InitHW)

Up    == cat.fault = "none"
Room  == /\ NextSlot(cat.ix) < use.indexes
         /\ \A t \in DOMAIN cat.tbl : Len(cat.tbl[t].ilist) < use.listed
Tab(n) == cat.tb.dict[n]
Known(n) == n \in DOMAIN cat.tb.dict

CreateTable(n) == /\ Up /\ Room /\ NextSlot(cat.tb) < TBound
                  /\ Lookup(cat.tb, n) = -1
                  /\ cat' = NewTable(cat, n)

DropTable(n) == /\ Up /\ Known(n)
                /\ cat' = EmptyTable(cat, Tab(n))

CreateIndex(n, tn, cols, uniq, prtl) ==
  /\ Up /\ Room /\ Known(tn)
  /\ (IF prtl THEN {"prtl"} ELSE {}) \cup (IF uniq THEN {"uniq"} ELSE {"norm"})
       \subseteq use.kinds
  /\ CommitOK(cat, n, Tab(tn), cols, uniq, prtl)
  /\ \E ok, fin \in BOOLEAN :
       /\ ok \/ uniq              \* only a UNIQUE build can fail
       /\ ~(uniq /\ prtl /\ ~ok)  \* a cursor does not build in newIndex
       /\ cat' = ICommit(cat, n, Tab(tn), cols, uniq, prtl, ok, fin)

(* createIndex of a function: the constructor may fail. *)
CreateFunctionIndex(n, tn, f) ==
  /\ Up /\ Room /\ Known(tn) /\ "func" \in use.kinds
  /\ NameFree(cat, n)
  /\ \E ok \in BOOLEAN :
       cat' = NewIndex(cat, n, Index(Tab(tn), "func", << >>, FALSE, TRUE, f), ok)

(* dropIndex: not on virtual, LRU and LFU indexes. *)
DropIndex(n) ==
  /\ Up /\ n \in DOMAIN cat.ix.dict
  /\ Entry(cat, cat.ix.dict[n]).kind \notin {"virt", "lru", "lfu"}
  /\ cat' = EmptyIndex(cat, cat.ix.dict[n])

(* createLuaTrigger: the first command of a trigger makes the entry; a     *)
(* name that is a finished index leads to the NULL luat of that index.     *)
CreateLuaTrigger(n, tn) ==
  /\ Up /\ Room /\ Known(tn) /\ "luat" \in use.kinds
  /\ IF NameFree(cat, n)
     THEN cat' = NewIndex(cat, n, Index(Tab(tn), "luat", << >>, FALSE, TRUE, NoFn),
                          TRUE)
     ELSE /\ cat.ind[cat.ix.dict[n]].kind # "luat"
          /\ cat' = Fail(cat, "null")

DropLuaTrigger(n) ==
  /\ Up /\ n \in DOMAIN cat.ix.dict
  /\ Entry(cat, cat.ix.dict[n]).kind = "luat"
  /\ cat' = EmptyIndex(cat, cat.ix.dict[n])

(* createLruIndex, createLfuIndex: once per table, on a column of its own. *)
CreateLruIndex(tn) ==
  LET i == NextSlot(cat.ix)
      d == NewIndex(cat, LruName(tn),
                    Index(Tab(tn), "lru", <<LruCol>>, FALSE, TRUE, NoFn), TRUE)
  IN  /\ Up /\ Room /\ Known(tn) /\ "lru" \in use.kinds
      /\ cat.tbl[Tab(tn)].lrui = -1
      /\ cat' = [d EXCEPT !.tbl[Tab(tn)].lrui = i]

CreateLfuIndex(tn) ==
  LET i == NextSlot(cat.ix)
      d == NewIndex(cat, LfuName(tn),
                    Index(Tab(tn), "lfu", <<LfuCol>>, FALSE, TRUE, NoFn), TRUE)
  IN  /\ Up /\ Room /\ Known(tn) /\ "lfu" \in use.kinds
      /\ cat.tbl[Tab(tn)].lfui = -1
      /\ cat' = [d EXCEPT !.tbl[Tab(tn)].lfui = i]

(* DXDB_emptyDb: every table is emptied, then the arrays start anew. *)
FlushAll ==
  LET d == FoldLeft(EmptyTable, cat, SlotsInOrder(Live(cat.tb)))
  IN  /\ Up
      /\ cat' = IF d.fault # "none" THEN d ELSE NoCatalog(InitHW, InitHW)

(* A restart: DXDB_rdbSave, then DXDB_rdbLoad in the new process. *)
Restart == Up /\ "load" \in use.kinds /\ cat' = Reload(cat)

(* A process that ended is started again, with no file to load. *)
Recover == ~Up /\ cat' = NoCatalog(InitHW, InitHW)

Next ==
  \/ FlushAll \/ Restart \/ Recover
  \/ \E tn \in TNames :
       \/ CreateTable(tn)    \/ DropTable(tn)
       \/ CreateLruIndex(tn) \/ CreateLfuIndex(tn)
       \/ \E n \in use.names : \/ CreateLuaTrigger(n, tn)
                            \/ \E f \in FNames : CreateFunctionIndex(n, tn, f)
                            \/ \E cols \in use.shapes, uniq, prtl \in BOOLEAN :
                                 CreateIndex(n, tn, cols, uniq, prtl)
  \/ \E n \in DOMAIN cat.ix.dict : DropIndex(n) \/ DropLuaTrigger(n)

Spec == Init /\ [][Next /\ UNCHANGED use]_<<cat, use>>
-----------------------------------------------------------------------------
IndexType == [tmatch : 0..TBound, kind : AllKinds \cup {"virt"},
              cols : use.shapes \cup {<< >>, <<0>>, <<LruCol>>, <<LfuCol>>},
              uniq : BOOLEAN, done : BOOLEAN, fn : FNames \cup {NoFn}]

(* Every entry has the fields of its C structure, in range. *)
TypeOK ==
  /\ cat.fault \in {"none", "assert", "null", "load"}
  /\ SlotsType(cat.tb, TNames)
  /\ DOMAIN cat.tbl = Live(cat.tb) /\ DOMAIN cat.ind = Live(cat.ix)
  /\ \A i \in DOMAIN cat.ind : cat.ind[i] \in IndexType
  /\ \A t \in DOMAIN cat.tbl :
       LET rt == cat.tbl[t]
       IN  /\ rt.ilist \in Seq(0..use.indexes)
           /\ rt.col \in [AllCols -> -1..use.indexes]
           /\ {rt.nmci, rt.nltrgr} \subseteq Nat
           /\ {rt.vimatch, rt.lrui, rt.lfui} \subseteq -1..use.indexes

(* The arrays of tables and indexes stay consistent through all of it: no  *)
(* slot is outside its array or handed out over a live entry.              *)
SlotsSound == /\ SlotsInBounds(cat.tb) /\ SlotsDropSound(cat.tb)
              /\ SlotsInBounds(cat.ix) /\ SlotsDropSound(cat.ix)

(* IndD and Index[] agree, TblD and Tbl[] agree. *)
DictsAgree == Up => SlotsDictAgrees(cat.tb) /\ SlotsDictAgrees(cat.ix)

IndexesOf(t) == {i \in Live(cat.ix) : cat.ind[i].tmatch = t}

(* ilist is "list of this table's imatch's" (query.h): every index of the  *)
(* table, once each, and nothing else.  INSERT, DELETE and UPDATE maintain *)
(* exactly the indexes of this list.                                       *)
IlistExact ==
  Up => \A t \in Live(cat.tb) :
          LET l == cat.tbl[t].ilist
          IN  ToSet(l) = IndexesOf(t) /\ Len(l) = Cardinality(ToSet(l))

(* No index outlives its table. *)
NoOrphans == Up => \A i \in Live(cat.ix) : cat.ind[i].tmatch \in Live(cat.tb)

(* A link from a table into Index[] never dangles: a column's imatch leads *)
(* to an index of this table on that column, vimatch, lrui and lfui to an  *)
(* index of that kind.                                                     *)
LinksSound ==
  Up => \A t \in Live(cat.tb) :
    LET rt == cat.tbl[t]
        IsOf(i, k) == i \in IndexesOf(t) /\ cat.ind[i].kind = k
    IN  /\ IsOf(rt.vimatch, "virt")
        /\ rt.lrui # -1 => IsOf(rt.lrui, "lru")
        /\ rt.lfui # -1 => IsOf(rt.lfui, "lfu")
        /\ \A x \in AllCols : rt.col[x] # -1 =>
             rt.col[x] \in IndexesOf(t) /\ cat.ind[rt.col[x]].cols[1] = x

(* nmci and nltrgr count the multi-column indexes and the triggers: the    *)
(* planner and UPDATE skip that work when they are zero.                   *)
CountsExact ==
  Up => \A t \in Live(cat.tb) :
    /\ cat.tbl[t].nmci = Cardinality({i \in IndexesOf(t) : IsMci(cat.ind[i])})
    /\ cat.tbl[t].nltrgr =
         Cardinality({i \in IndexesOf(t) : cat.ind[i].kind = "luat"})

(* All of these together, for the indexes that are not built step by step  *)
(* and do not run Lua code: what commands follow from a table to an index  *)
(* and back is exact.  A trigger or a cursor breaks it (RestartKeeps too). *)
(* And no command ends the process: no ASSERT_OK fails, no NULL list node  *)
(* or column array is used, no RDB file is refused.                        *)
Plain == use.kinds \cap {"prtl", "func", "luat"} = {}
LinksExact == /\ Plain => Up /\ DictsAgree /\ IlistExact /\ NoOrphans /\ LinksSound
              /\ CountsExact

(* A restart keeps every table and every index, in its slot: the indexes   *)
(* that were there, finished now, and no other.                            *)
RestartKeeps ==
  [][(Plain /\ Restart /\ cat'.fault = "none") =>
       /\ cat'.tb = ReloadSlots(cat.tb)
       /\ Live(cat'.ix) = Live(cat.ix)
       /\ \A i \in Live(cat.ix) :
            /\ cat'.ix.name[i] = cat.ix.name[i]
            /\ cat'.ind[i] = [cat.ind[i] EXCEPT !.done = TRUE]]_<<cat, use>>
=============================================================================
