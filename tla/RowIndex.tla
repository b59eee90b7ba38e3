------------------------------ MODULE RowIndex ------------------------------
(***************************************************************************)
(* The rows of one table and its secondary indexes under INSERT, REPLACE,  *)
(* UPDATE, DELETE, CREATE INDEX and DROP INDEX (alsosql.c, row.c,          *)
(* index.c).  The table is clean (nothing is evicted), its columns are     *)
(* INTs and so is its primary key.                                         *)
(*                                                                         *)
(* A command is one step: the server runs one at a time.  It takes the     *)
(* indexes of the table one after the other, and what it did to the first  *)
(* ones is taken back when a later one refuses the row.                    *)
(***************************************************************************)
EXTENDS Integers, Sequences, FiniteSets

CONSTANTS
    NPk,        \* primary keys are 1..NPk
    NCol,       \* columns, the primary key apart
    Val,        \* column values
    Empty,      \* a column without a value
    Indexes,    \* indexes and Lua triggers the table may have
    Def,        \* Def[x]: the columns of x, is it UNIQUE, is it a trigger
    Uses        \* the tables of the run and what is done to them:
                \*   pks    the primary keys that commands name
                \*   vals   what an INSERT may write into each column
                \*   sets   the sets of columns an UPDATE may write
                \*   inds   the indexes the table is created with
                \*   more   the indexes that CREATE INDEX may add
                \*   ops    the commands that happen

ASSUME RowIndexAssumption ==
    /\ NPk \in Nat /\ NCol \in Nat
    /\ Val \subseteq Nat /\ Empty \notin Val
    /\ Def \in [Indexes -> [cols : Seq(1..NCol), uniq : BOOLEAN, trig : BOOLEAN]]
    /\ \A x \in Indexes : Def[x].cols # <<>> /\ ~(Def[x].uniq /\ Def[x].trig)
    /\ \A u \in Uses : /\ u.pks \subseteq 1..NPk
                       /\ u.vals \in [1..NCol -> SUBSET (Val \cup {Empty})]
                       /\ u.sets \subseteq SUBSET (1..NCol)
                       /\ u.inds \in Seq(Indexes) /\ u.more \subseteq Indexes
                       /\ \A i, j \in DOMAIN u.inds : u.inds[i] = u.inds[j] => i = j

VARIABLES
    rows,       \* the rows of the table, by primary key
    inds,       \* its indexes, in the order of rt->ilist
    idx,        \* idx[x]: the trees of x, see EmptyIndex
    ainc,       \* rt->ainc, the largest primary key given out
    reply,      \* what the last command was answered
    fault,      \* a command went through a null tree or deleted a missing key
    use         \* the member of Uses of this behaviour

vars == <<rows, inds, idx, ainc, reply, fault, use>>

Pk == 1..NPk
Row == [1..NCol -> Val \cup {Empty}]

----------------------------------------------------------------------------
(* The trees of an index.  A plain index leads from the values of its       *)
(* columns, one tree per column, to a node with the primary keys.  In a     *)
(* UNIQUE index the tree of the last column holds the primary key itself.   *)
(* mids are the paths that lead to a tree below the first one, ent counts   *)
(* the entries, each a key (the values of all columns) and a primary key.   *)

Uniq(x) == Def[x].uniq
Trig(x) == Def[x].trig
Width(x) == Len(Def[x].cols)
Depth(x) == IF Uniq(x) THEN Width(x) - 1 ELSE Width(x)

Entry(x) == [1..Width(x) -> Val \cup {Empty}] \X Pk
NoEntries(x) == [e \in Entry(x) |-> 0]
EmptyIndex(x) == [mids |-> {}, ent |-> NoEntries(x)]

Key(x, row) == [i \in 1..Width(x) |-> row[Def[x].cols[i]]]
Path(k, n) == SubSeq(k, 1, n)
Under(q, p) == Len(p) <= Len(q) /\ Path(q, Len(p)) = p
Kids(mids, p) == {q \in mids : Len(q) = Len(p) + 1 /\ Under(q, p)}

(* getCol stops at the first of the leading columns that is empty. *)
Reach(x, k) ==
    CHOOSE n \in 0..Depth(x) : /\ \A i \in 1..n : k[i] # Empty
                               /\ n < Depth(x) => k[n + 1] = Empty

Filled(k) == \A i \in DOMAIN k : k[i] # Empty

(* createBTKey makes a null key of the INT 0 for the tree of a UNIQUE       *)
(* index, and nothing is stored, found or deleted under a null key.         *)
Keyable(x, k) == Uniq(x) => k[Width(x)] \notin {Empty, 0}

Owners(t, k) == {pk \in Pk : t.ent[<<k, pk>>] > 0}
Bump(t, k, pk, d) == [mids |-> t.mids, ent |-> [t.ent EXCEPT ![<<k, pk>>] = @ + d]]

(* The trees at the paths dead are taken out, with all that is in them. *)
Cut(t, dead) ==
    [mids |-> {q \in t.mids : \A p \in dead : ~Under(q, p)},
     ent |-> [e \in DOMAIN t.ent |-> IF \E p \in dead : Under(e[1], p) THEN 0 ELSE t.ent[e]]]

(* The destroy pass of _iAddMCI over the first n trees: one with a single   *)
(* key is taken to hold only what this call put there.                      *)
Undo(t, k, n) ==
    Cut(t, {Path(k, j + 1) : j \in {l \in 0..n - 1 : Cardinality(Kids(t.mids, Path(k, l))) = 1}})

(* _iAddMCI makes the trees on its way that are not there yet. *)
Made(x, t, k) ==
    [mids |-> t.mids \cup {Path(k, j) : j \in 1..Reach(x, k)}, ent |-> t.ent]

(* Mutant of AddKey: the check for another owner is missing. *)
AddKeyBlind(x, t, pk, k) ==
    IF Trig(x) THEN [ok |-> TRUE, t |-> Bump(t, k, pk, 1)]
    ELSE IF ~Filled(k) THEN [ok |-> TRUE, t |-> Undo(Made(x, t, k), k, Reach(x, k))]
    ELSE [ok |-> TRUE, t |-> IF Keyable(x, k) THEN Bump(Made(x, t, k), k, pk, 1) ELSE Made(x, t, k)]

(* iAdd and _iAddMCI: a UNIQUE index refuses a value that has an owner, and *)
(* a row with an empty column has no entry; both undo what was made.        *)
AddKey(x, t, pk, k) ==
    IF Trig(x) THEN [ok |-> TRUE, t |-> Bump(t, k, pk, 1)]
    ELSE IF ~Filled(k) THEN [ok |-> TRUE, t |-> Undo(Made(x, t, k), k, Reach(x, k))]
    ELSE IF Uniq(x) /\ Owners(t, k) # {}
         THEN [ok |-> FALSE, t |-> Undo(Made(x, t, k), k, Reach(x, k))]
    ELSE [ok |-> TRUE, t |-> IF Keyable(x, k) THEN Bump(Made(x, t, k), k, pk, 1) ELSE Made(x, t, k)]

AddToIndex(x, t, pk, row) == AddKey(x, t, pk, Key(x, row))

(* Trees that a deletion emptied are deleted from the tree above them. *)
TrickleUp(x, t, k) ==
    LET paths == {Path(k, j) : j \in 1..Depth(x)}
        gone == {p \in paths : /\ \A q \in t.mids : Under(q, p) => q \in paths
                               /\ \A e \in DOMAIN t.ent : Under(e[1], p) => t.ent[e] = 0}
    IN  [mids |-> t.mids \ gone, ent |-> t.ent]

(* A deletion may go through a tree that is not there, or delete a key that *)
(* is not there: the B-tree then takes the key before it, or one outside    *)
(* its node.                                                                *)
Walked(x, k, n) == {Path(k, j) : j \in 1..(IF n = Depth(x) THEN n ELSE n - 1)}
Victims(x, t, pk, k) == IF Uniq(x) THEN Owners(t, k) ELSE Owners(t, k) \cap {pk}

(* iRem and iRemMCI. *)
DelKey(x, t, pk, k) ==
    IF Trig(x) THEN [bad |-> FALSE, t |-> Bump(t, k, pk, -1)]
    ELSE IF ~(Walked(x, k, Reach(x, k)) \subseteq t.mids) THEN [bad |-> TRUE, t |-> t]
    ELSE IF Reach(x, k) # Depth(x) THEN [bad |-> FALSE, t |-> t]
    ELSE IF ~Keyable(x, k) THEN [bad |-> FALSE, t |-> TrickleUp(x, t, k)]
    ELSE IF Victims(x, t, pk, k) = {} THEN [bad |-> TRUE, t |-> t]
    ELSE [bad |-> FALSE,
          t |-> TrickleUp(x, Bump(t, k, CHOOSE p \in Victims(x, t, pk, k) : TRUE, -1), k)]

DelFromIndex(x, t, pk, row) == DelKey(x, t, pk, Key(x, row))

----------------------------------------------------------------------------
(* What the commands do to all the indexes of the table. *)

Mine == {inds[i] : i \in DOMAIN inds}

(* match_index: those that can refuse a row, the UNIQUE ones, come first;   *)
(* each of them is put before the ones found so far.                        *)
Pos(x) == CHOOSE i \in DOMAIN inds : inds[i] = x
Rank(x) == IF Uniq(x) THEN -Pos(x) ELSE Pos(x)

First(S) == CHOOSE x \in S : \A y \in S : Rank(x) <= Rank(y)
Before(r) == {x \in Mine : Rank(x) < Rank(r)}

Added(x, pk, row) == IF x \in Mine /\ ~Trig(x) THEN AddToIndex(x, idx[x], pk, row)
                     ELSE [ok |-> TRUE, t |-> idx[x]]
Refusing(pk, row) == {x \in Mine : ~Added(x, pk, row).ok}

(* Mutant of Rollback: what the earlier indexes took stays in them. *)
RollbackNothing(pk, row, r) ==
    [ok |-> FALSE, bad |-> FALSE,
     idx |-> [x \in Indexes |-> IF x \in Before(r) \cup {r} THEN Added(x, pk, row).t ELSE idx[x]]]

(* The index r refused the row, those before it give it back. *)
Rollback(pk, row, r) ==
    LET back(x) == DelFromIndex(x, Added(x, pk, row).t, pk, row)
    IN  [ok |-> FALSE,
         bad |-> \E x \in Before(r) : back(x).bad,
         idx |-> [x \in Indexes |-> IF x \in Before(r) THEN back(x).t
                                    ELSE IF x = r THEN Added(x, pk, row).t
                                    ELSE idx[x]]]

(* __runInsertIndexes without the triggers. *)
RunInsertIndexes(pk, row) ==
    IF Refusing(pk, row) # {} THEN Rollback(pk, row, First(Refusing(pk, row)))
    ELSE [ok |-> TRUE, bad |-> FALSE, idx |-> [x \in Indexes |-> Added(x, pk, row).t]]

(* Mutant of RunDeleteIndexes: only the first index is told. *)
RunDeleteIndexesFirst(ix, pk, row) ==
    LET del(x) == DelFromIndex(x, ix[x], pk, row)
    IN  [bad |-> \E x \in Mine : x = First(Mine) /\ del(x).bad,
         idx |-> [x \in Indexes |-> IF x \in Mine /\ x = First(Mine) THEN del(x).t ELSE ix[x]]]

RunDeleteIndexes(ix, pk, row) ==
    LET del(x) == DelFromIndex(x, ix[x], pk, row)
    IN  [bad |-> \E x \in Mine : del(x).bad,
         idx |-> [x \in Indexes |-> IF x \in Mine THEN del(x).t ELSE ix[x]]]

(* The triggers are told of a row that comes (1) or goes (-1).  A trigger   *)
(* has a function for each event: PREUPDATE is taken to drop the old row    *)
(* and POSTUPDATE to add the new one.                                       *)
RunTriggers(ix, pk, row, d) ==
    [x \in Indexes |-> IF x \in Mine /\ Trig(x) THEN Bump(ix[x], Key(x, row), pk, d) ELSE ix[x]]

(* An index none of whose columns is set is left alone. *)
Touched(x, chit) == x \in Mine /\ ~Trig(x) /\ \E i \in 1..Width(x) : Def[x].cols[i] \in chit

(* Mutant of Swapped: the old entry stays. *)
SwappedAddOnly(x, t, pk, old, new, chit) ==
    IF Touched(x, chit)
    THEN [bad |-> FALSE, t |-> AddToIndex(x, t, pk, new).t]
    ELSE [bad |-> FALSE, t |-> t]

(* An index with a column that is written gets the new entry and loses the  *)
(* old one, before the next index is looked at.                             *)
Swapped(x, t, pk, old, new, chit) ==
    IF Touched(x, chit)
    THEN DelFromIndex(x, AddToIndex(x, t, pk, new).t, pk, old)
    ELSE [bad |-> FALSE, t |-> t]

RefusingUpdate(ix, pk, new, chit) ==
    {x \in Mine : Touched(x, chit) /\ ~AddToIndex(x, ix[x], pk, new).ok}

(* The index r refused the new row: those before it have lost both.      *)
RollbackUpdate(ix, pk, old, new, chit, r) ==
    LET swap(x) == Swapped(x, ix[x], pk, old, new, chit)
        hit(x) == x \in Before(r) /\ Touched(x, chit)
        back(x) == DelFromIndex(x, swap(x).t, pk, new)
    IN  [ok |-> FALSE,
         bad |-> \E x \in Indexes : hit(x) /\ (swap(x).bad \/ back(x).bad),
         idx |-> [x \in Indexes |-> IF hit(x) THEN back(x).t
                                    ELSE IF x = r THEN AddToIndex(x, ix[x], pk, new).t
                                    ELSE ix[x]]]

(* upEffectedFailableIndexes *)
UpEffectedIndexes(ix, pk, old, new, chit) ==
    LET refusing == RefusingUpdate(ix, pk, new, chit)
        swap(x) == Swapped(x, ix[x], pk, old, new, chit)
    IN  IF refusing # {} THEN RollbackUpdate(ix, pk, old, new, chit, First(refusing))
        ELSE [ok |-> TRUE, bad |-> \E x \in Indexes : swap(x).bad,
              idx |-> [x \in Indexes |-> swap(x).t]]

WithRow(f, pk, row) == [p \in DOMAIN f \cup {pk} |-> IF p = pk THEN row ELSE f[p]]
WithoutRow(f, pk) == [p \in DOMAIN f \ {pk} |-> f[p]]
Larger(a, b) == IF a > b THEN a ELSE b

----------------------------------------------------------------------------
(* The commands. *)

Init ==
    /\ rows = <<>>
    /\ use \in Uses
    /\ inds = use.inds
    /\ idx = [x \in Indexes |-> EmptyIndex(x)]
    /\ ainc = 0
    /\ reply = <<>>
    /\ fault = FALSE

Refused(msg) ==
    /\ reply' = <<msg>>
    /\ UNCHANGED <<rows, inds, idx, ainc, fault>>

(* insertCommit for a row that an index refuses: what the loop over the     *)
(* indexes left is kept.                                                    *)
Rejected(ins) ==
    /\ reply' = <<"uviol">>
    /\ idx' = ins.idx
    /\ fault' = ins.bad
    /\ UNCHANGED <<rows, inds, ainc>>

(* insertCommit: a primary key that is taken is refused. *)
InsertTaken(pk) == pk \in DOMAIN rows /\ Refused("insert_ovrwrt")

InsertRow(pk, row, ins) ==
    \/ ~ins.ok /\ Rejected(ins)
    \/ /\ ins.ok
       /\ rows' = WithRow(rows, pk, row)
       /\ idx' = RunTriggers(ins.idx, pk, row, 1)
       /\ ainc' = Larger(ainc, pk)
       /\ reply' = <<"ok">>
       /\ fault' = ins.bad
       /\ UNCHANGED inds

Insert(pk, row) == pk \notin DOMAIN rows /\ InsertRow(pk, row, RunInsertIndexes(pk, row))

(* REPLACE: btReplace writes through the place of the old row. *)
ReplaceRow(pk, row, del) ==
    /\ rows' = WithRow(rows, pk, row)
    /\ idx' = del.idx
    /\ ainc' = Larger(ainc, pk)
    /\ reply' = <<"ok">>
    /\ fault' = del.bad
    /\ UNCHANGED inds

Replace(pk, row) ==
    LET ins == RunInsertIndexes(pk, row)
    IN  /\ pk \in DOMAIN rows
        /\ \/ ~ins.ok /\ Rejected(ins)
           \/ /\ ins.ok
              /\ ReplaceRow(pk, row,
                     RunDeleteIndexes(RunTriggers(ins.idx, pk, row, 1), pk, rows[pk]))

(* There is no old row: the place is a null pointer, and the process ends. *)
ReplaceNew(pk, row) ==
    LET ins == RunInsertIndexes(pk, row)
    IN  /\ pk \notin DOMAIN rows
        /\ \/ ~ins.ok /\ Rejected(ins)
           \/ /\ ins.ok
              /\ fault' = TRUE
              /\ UNCHANGED <<rows, inds, idx, ainc, reply>>

(* UPDATE and DELETE of a row that is not there answer 0 rows. *)
UpdateMissing(pk) == pk \notin DOMAIN rows /\ Refused("czero")

(* UPDATE of one row.  runUpdate does not look at what the indexes said,    *)
(* and a refusal is followed by the reply of an update that was done.       *)
Rewrites(chit, old, new) ==
    \A c \in 1..NCol : IF c \in chit THEN new[c] # Empty ELSE new[c] = old[c]

UpdateRow(pk, new, up) ==
    /\ rows' = WithRow(rows, pk, new)
    /\ idx' = RunTriggers(up.idx, pk, new, 1)
    /\ reply' = IF up.ok THEN <<"cone">> ELSE <<"uviol", "cone">>
    /\ fault' = up.bad
    /\ UNCHANGED <<inds, ainc>>

Update(pk, chit, new) ==
    /\ pk \in DOMAIN rows /\ Rewrites(chit, rows[pk], new)
    /\ UpdateRow(pk, new,
           UpEffectedIndexes(RunTriggers(idx, pk, rows[pk], -1), pk, rows[pk], new, chit))

(* updateRow: the new primary key must be free. *)
UpdatePkTaken(npk) == npk \in DOMAIN rows /\ Refused("update_pk_ovrw")

(* UPDATE of the primary key (and of other columns): all indexes get the    *)
(* new row, then all lose the old one.                                      *)
MoveRow(pk, npk, new, ins, del) ==
    /\ rows' = WithRow(WithoutRow(rows, pk), npk, new)
    /\ idx' = RunTriggers(RunTriggers(del.idx, pk, rows[pk], -1), npk, new, 1)
    /\ ainc' = Larger(ainc, npk)
    /\ reply' = IF ins.ok THEN <<"cone">> ELSE <<"uviol", "cone">>
    /\ fault' = (ins.bad \/ del.bad)
    /\ UNCHANGED inds

UpdatePk(pk, npk, chit, new) ==
    LET ins == RunInsertIndexes(npk, new)
    IN  /\ pk \in DOMAIN rows /\ npk \notin DOMAIN rows
        /\ Rewrites(chit, rows[pk], new)
        /\ MoveRow(pk, npk, new, ins, RunDeleteIndexes(ins.idx, pk, rows[pk]))

DeleteMissing(pk) == pk \notin DOMAIN rows /\ Refused("czero")

DeleteRow(pk, del) ==
    /\ rows' = WithoutRow(rows, pk)
    /\ idx' = del.idx
    /\ reply' = <<"cone">>
    /\ fault' = del.bad
    /\ UNCHANGED <<inds, ainc>>

Delete(pk) == pk \in DOMAIN rows /\ DeleteRow(pk, RunDeleteIndexes(idx, pk, rows[pk]))

(* ICommit and buildIndex: the rows enter in the order of their primary     *)
(* keys, and a row that is refused ends the build and the index.            *)
Indexed(x) ==
    \/ Width(x) = 1 /\ \E y \in Mine : ~Trig(y) /\ Def[y].cols[1] = Def[x].cols[1]
    \/ Width(x) > 1 /\ Uniq(x) /\ \E y \in Mine : ~Trig(y) /\ Width(y) > 1

BuildRow(x, sofar, p) ==
    IF p \in DOMAIN rows /\ sofar.ok THEN AddToIndex(x, sofar.t, p, rows[p]) ELSE sofar

BuildIndex(x) ==
    LET build[p \in 0..NPk] == IF p = 0 THEN [ok |-> TRUE, t |-> EmptyIndex(x)]
                               ELSE BuildRow(x, build[p - 1], p)
    IN  build[NPk]

CreateIndex(x) ==
    LET built == BuildIndex(x)
    IN  /\ x \notin Mine /\ ~Trig(x)
        /\ \/ Indexed(x) /\ Refused("indexedalready")
           \/ ~Indexed(x) /\ ~built.ok /\ Refused("uviol")
           \/ /\ ~Indexed(x) /\ built.ok
              /\ inds' = Append(inds, x)
              /\ idx' = [idx EXCEPT ![x] = built.t]
              /\ reply' = <<"ok">>
              /\ UNCHANGED <<rows, ainc, fault>>

DropIndex(x) ==
    /\ x \in Mine /\ ~Trig(x)
    /\ inds' = [i \in 1..Len(inds) - 1 |-> IF i < Pos(x) THEN inds[i] ELSE inds[i + 1]]
    /\ idx' = [idx EXCEPT ![x] = EmptyIndex(x)]
    /\ reply' = <<"cone">>
    /\ UNCHANGED <<rows, ainc, fault>>

NewRow == {row \in Row : \A c \in 1..NCol : row[c] \in use.vals[c]}

Next ==
    /\ ~fault
    /\ \/ /\ "insert" \in use.ops
          /\ \E pk \in use.pks : InsertTaken(pk) \/ \E row \in NewRow : Insert(pk, row)
       \/ "replace" \in use.ops /\ \E pk \in DOMAIN rows, row \in NewRow : Replace(pk, row)
       \/ "replacenew" \in use.ops /\ \E pk \in use.pks, row \in NewRow : ReplaceNew(pk, row)
       \/ /\ "update" \in use.ops
          /\ \E pk \in use.pks : \/ UpdateMissing(pk)
                            \/ \E chit \in use.sets \ {{}}, new \in Row : Update(pk, chit, new)
       \/ /\ "updatepk" \in use.ops
          /\ \E pk \in DOMAIN rows, npk \in use.pks :
                \/ UpdatePkTaken(npk)
                \/ \E chit \in use.sets, new \in Row : UpdatePk(pk, npk, chit, new)
       \/ "delete" \in use.ops /\ \E pk \in use.pks : DeleteMissing(pk) \/ Delete(pk)
       \/ "create" \in use.ops /\ \E x \in use.more : CreateIndex(x)
       \/ "drop" \in use.ops /\ \E x \in Mine : DropIndex(x)

Spec == Init /\ [][Next /\ UNCHANGED use]_vars

----------------------------------------------------------------------------

TypeOK ==
    /\ DOMAIN rows \subseteq Pk /\ \A pk \in DOMAIN rows : rows[pk] \in Row
    /\ Mine \subseteq Indexes
    /\ \A x \in Indexes : idx[x].ent \in [Entry(x) -> Int]
    /\ ainc \in 0..NPk /\ fault \in BOOLEAN

(* The entry a row has in an index: none when one of the columns is empty. *)
Shown(x, k, pk) ==
    pk \in DOMAIN rows /\ Key(x, rows[pk]) = k /\ Filled(k) /\ Keyable(x, k)

(* Every index holds exactly the rows of the table, each once: a query by   *)
(* index (range.c) returns what a scan of the table would.                  *)
IndexExact ==
    \A x \in Mine : ~Trig(x) =>
        \A e \in Entry(x) : idx[x].ent[e] = IF Shown(x, e[1], e[2]) THEN 1 ELSE 0

(* No tree of an index is left empty, and none is missing. *)
MidsExact ==
    \A x \in Mine : ~Trig(x) =>
        idx[x].mids = UNION {{Path(k, j) : j \in 1..Depth(x)} :
                             k \in {e[1] : e \in {f \in Entry(x) : idx[x].ent[f] > 0}}}

(* No two rows have the same values in the columns of a UNIQUE index. *)
UniqueHolds ==
    \A x \in Mine : Uniq(x) =>
        \A p, q \in DOMAIN rows :
            Key(x, rows[p]) = Key(x, rows[q]) /\ Filled(Key(x, rows[p])) => p = q

(* A trigger that mirrors the table by its events has exactly its rows. *)
TriggerExact ==
    \A x \in Mine : Trig(x) =>
        \A e \in Entry(x) :
            idx[x].ent[e] = IF e[2] \in DOMAIN rows /\ Key(x, rows[e[2]]) = e[1] THEN 1 ELSE 0

(* What the code asks of a table for its indexes to be kept up without a    *)
(* fault: a multi-column index has no empty columns, a UNIQUE index has one *)
(* column, which is never 0 and which no UPDATE writes, the primary key is  *)
(* not written where there are UNIQUE indexes or triggers, and REPLACE      *)
(* meets a row.  The README has what happens otherwise.                     *)
SoundUse(u) ==
    /\ "replacenew" \notin u.ops
    /\ \A x \in {u.inds[i] : i \in DOMAIN u.inds} \cup u.more :
          /\ Width(x) > 1 /\ ~Trig(x) =>
                ~Uniq(x) /\ \A i \in 1..Width(x) : Empty \notin u.vals[Def[x].cols[i]]
          /\ Uniq(x) => 0 \notin u.vals[Def[x].cols[1]]
                        /\ \A S \in u.sets : Def[x].cols[1] \notin S
          /\ Uniq(x) \/ Trig(x) => "updatepk" \notin u.ops

(* No command goes through a null tree or deletes a key that is missing,    *)
(* and INSERT without a primary key takes ainc + 1, which no row has.       *)
NoFault ==
    /\ SoundUse(use) => ~fault
    /\ \A pk \in DOMAIN rows : pk <= ainc

(* A query by index gives what a scan of the table would, the trees of a    *)
(* multi-column index are the ones its rows need, and nothing faults.       *)
TreesExact == TypeOK /\ IndexExact /\ MidsExact /\ NoFault

(* A command that is answered with a constraint violation changed nothing. *)
RefusedNoChange ==
    [][reply' # <<>> /\ reply'[1] = "uviol" => rows' = rows /\ idx' = idx]_vars
=============================================================================
