--------------------------- MODULE RowIndexProofs ---------------------------
(***************************************************************************)
(* The secondary indexes of a table hold exactly its rows after any series *)
(* of commands, for every number of columns, rows, values and indexes.     *)
(***************************************************************************)
EXTENDS IndexTreeProofs

(* What INSERT, REPLACE, UPDATE and DELETE do to all the indexes of a table: *)
(* they hold the rows again, and a row that one of them refuses is taken     *)
(* back from the others.                                                     *)

(* The inductive invariant. *)

Named(u) == {u.inds[i] : i \in DOMAIN u.inds} \cup u.more

(* A trigger that adds up its events holds the rows, whatever is in them. *)
Mirrors(x, t, R) ==
    /\ t \in Tree(x)
    /\ \A e \in Entry(x) : t.ent[e] = IF Listed(R, x, e) THEN 1 ELSE 0

(* A row that a command may write, or that the table may have. *)
Allowed(row) == row \in Row /\ \A x \in Named(use) : ~Trig(x) => FitRow(x, row)

ListSound ==
    /\ inds \in Seq(Indexes)
    /\ \A i, j \in DOMAIN inds : inds[i] = inds[j] => i = j
    /\ Mine \subseteq Named(use)

IndexesSound(R, ix) ==
    /\ Table(R) /\ \A pk \in DOMAIN R : Allowed(R[pk])
    /\ ix = [x \in Indexes |-> ix[x]] /\ \A x \in Indexes : ix[x] \in Tree(x)
    /\ \A x \in Mine : ~Trig(x) => Keeps(x, ix[x], R)
    /\ \A x \in Mine : Trig(x) => Mirrors(x, ix[x], R)

RowsInv ==
    /\ ListSound
    /\ IndexesSound(rows, idx)
    /\ ainc \in 0..NPk /\ \A pk \in DOMAIN rows : pk <= ainc
    /\ fault = FALSE

LEMMA UseFacts ==
  ASSUME use \in Uses, SoundUse(use)
  PROVE  /\ Named(use) \subseteq Indexes
         /\ use.pks \subseteq Pk
         /\ \A x \in Named(use) :
               /\ Width(x) > 1 /\ ~Trig(x) =>
                     ~Uniq(x) /\ \A i \in 1..Width(x) : Empty \notin use.vals[Def[x].cols[i]]
               /\ Uniq(x) => /\ 0 \notin use.vals[Def[x].cols[1]]
                             /\ \A S \in use.sets : Def[x].cols[1] \notin S
               /\ Uniq(x) \/ Trig(x) => "updatepk" \notin use.ops
         /\ "replacenew" \notin use.ops
<1>1. /\ use.pks \subseteq 1..NPk
      /\ use.inds \in Seq(Indexes) /\ use.more \subseteq Indexes
  BY RowIndexAssumption
<1>2. Named(use) \subseteq Indexes
  BY <1>1 DEF Named
<1> QED BY <1>1, <1>2 DEF SoundUse, Named, Pk

(* Every index of the table has a place in its list, and one comes first. *)
LEMMA RankFacts ==
  ASSUME ListSound
  PROVE  /\ Len(inds) \in Nat
         /\ \A x \in Mine : /\ Pos(x) \in 1..Len(inds) /\ inds[Pos(x)] = x
                            /\ Rank(x) \in Int /\ Rank(x) + Len(inds) \in Nat
                            /\ (Uniq(x) => Rank(x) < 0) /\ (~Uniq(x) => Rank(x) > 0)
<1>1. Len(inds) \in Nat /\ DOMAIN inds = 1..Len(inds)
  BY LenProperties DEF ListSound
<1>2. ASSUME NEW x \in Mine PROVE Pos(x) \in 1..Len(inds) /\ inds[Pos(x)] = x
  <2>1. \E i \in DOMAIN inds : inds[i] = x
    BY DEF Mine
  <2> QED BY <1>1, <2>1 DEF Pos
<1> QED BY <1>1, <1>2 DEF Rank

LEMMA FirstIs ==
  ASSUME ListSound, NEW S, S \subseteq Mine, S # {}
  PROVE  First(S) \in S /\ \A y \in S : Rank(First(S)) <= Rank(y)
<1> DEFINE T == {n \in Nat : \E x \in S : n = Rank(x) + Len(inds)}
<1>1. /\ Len(inds) \in Nat
      /\ \A x \in S : Rank(x) \in Int /\ Rank(x) + Len(inds) \in T
  BY RankFacts
<1>2. T \subseteq Nat /\ T # {}
  BY <1>1
<1> HIDE DEF T
<1>3. PICK n \in T : \A m \in T : n <= m
  BY <1>2, LeastNat
<1>4. n \in Nat
  BY <1>2
<1>5. PICK x \in S : n = Rank(x) + Len(inds)
  BY DEF T
<1>6. \A y \in S : Rank(x) <= Rank(y)
  BY <1>1, <1>3, <1>4, <1>5
<1> QED BY <1>5, <1>6 DEF First

(* A new row is taken by all indexes, or leaves no trace in any. *)
LEMMA InsertIndexes ==
  ASSUME use \in Uses, SoundUse(use), RowsInv, NEW pk \in Pk, NEW row, Allowed(row)
  PROVE  LET ins == RunInsertIndexes(pk, row)
         IN  /\ ins.bad = FALSE
             /\ ~ins.ok => ins.idx = idx
             /\ ins.ok => /\ ins.idx = [x \in Indexes |-> Added(x, pk, row).t]
                          /\ \A x \in Mine : Added(x, pk, row).ok
<1> DEFINE S == Refusing(pk, row)
           r == First(S)
<1>1. /\ Mine \subseteq Indexes /\ ListSound
      /\ \A x \in Mine : ~Trig(x) => Keeps(x, idx[x], rows) /\ Tight(x, idx[x]) /\ FitRow(x, row)
  BY UseFacts DEF RowsInv, IndexesSound, ListSound, Allowed, Keeps, Exact
<1>2. CASE S = {}
  <2>1. RunInsertIndexes(pk, row) =
           [ok |-> TRUE, bad |-> FALSE, idx |-> [x \in Indexes |-> Added(x, pk, row).t]]
    BY <1>2 DEF RunInsertIndexes
  <2>2. \A x \in Mine : Added(x, pk, row).ok
    BY <1>2 DEF Refusing
  <2> QED BY <2>1, <2>2
<1>3. CASE S # {}
  <2>1. S \subseteq Mine
    BY DEF Refusing
  <2>2. r \in S /\ r \in Mine /\ \A y \in S : Rank(r) <= Rank(y)
    BY <1>1, <1>3, <2>1, FirstIs
  <2>3. RunInsertIndexes(pk, row) = Rollback(pk, row, r)
    BY <1>3 DEF RunInsertIndexes
  <2>4. r \in Indexes /\ ~Trig(r) /\ ~AddToIndex(r, idx[r], pk, row).ok
        /\ Added(r, pk, row) = AddToIndex(r, idx[r], pk, row)
    BY <1>1, <2>2 DEF Refusing, Added
  <2>5. row \in Row
    BY DEF Allowed
  <2>6. Key(r, row) \in Keys(r) /\ Fit(r, Key(r, row)) /\ Tight(r, idx[r])
    <3>1. FitRow(r, row) /\ Tight(r, idx[r])
      BY <1>1, <2>2, <2>4
    <3>2. Key(r, row) \in Keys(r)
      BY <2>4, <2>5, KeyType
    <3> QED BY <3>1, <3>2 DEF FitRow
  <2>7. Uniq(r) /\ Added(r, pk, row).t = idx[r]
    BY <2>4, <2>6, AddTight DEF AddToIndex
  <2>8. ASSUME NEW x \in Before(r)
        PROVE  /\ x \in Mine /\ x \in Indexes
               /\ DelFromIndex(x, Added(x, pk, row).t, pk, row).bad = FALSE
               /\ DelFromIndex(x, Added(x, pk, row).t, pk, row).t = idx[x]
    <3>1. x \in Mine /\ x \in Indexes /\ Rank(x) < Rank(r)
      BY <1>1 DEF Before
    <3>2. Rank(x) \in Int /\ Rank(r) \in Int /\ Rank(r) < 0 /\ (~Uniq(x) => Rank(x) > 0)
      BY <1>1, <2>2, <2>7, <3>1, RankFacts
    <3>3. Uniq(x) /\ x \notin S
      BY <2>2, <3>1, <3>2
    <3>4. ~Trig(x)
      BY <3>1, <3>3, DefFacts
    <3>5. Added(x, pk, row) = AddToIndex(x, idx[x], pk, row) /\ Added(x, pk, row).ok
      BY <3>1, <3>3, <3>4 DEF Added, Refusing
    <3>6. Tight(x, idx[x]) /\ FitRow(x, row) /\ Accepts(x, idx[x], row)
      BY <1>1, <2>5, <3>1, <3>4, <3>5, AcceptsIs
    <3> DEFINE v == DelFromIndex(x, AddToIndex(x, idx[x], pk, row).t, pk, row)
    <3>7. v.bad = FALSE /\ Tight(x, v.t) /\ v.t.ent = idx[x].ent
      BY <2>5, <3>1, <3>6, AddThenDelete
    <3>8. v.t = idx[x]
      BY <3>6, <3>7, TightEqual
    <3> QED BY <3>1, <3>5, <3>7, <3>8
  <2>9. /\ Rollback(pk, row, r).ok = FALSE
        /\ Rollback(pk, row, r).bad = FALSE
        /\ Rollback(pk, row, r).idx = [x \in Indexes |-> idx[x]]
    BY <2>7, <2>8 DEF Rollback
  <2> QED BY <2>3, <2>9 DEF RowsInv, IndexesSound
<1> QED BY <1>2, <1>3

----------------------------------------------------------------------------
(* Triggers. *)

LEMMA MirrorAdd ==
  ASSUME NEW x \in Indexes, NEW t, NEW R, Table(R), Mirrors(x, t, R),
         NEW pk \in Pk, pk \notin DOMAIN R, NEW row \in Row
  PROVE  Mirrors(x, Bump(t, Key(x, row), pk, 1), WithRow(R, pk, row))
<1> DEFINE k == Key(x, row)
           u == Bump(t, k, pk, 1)
           S == WithRow(R, pk, row)
<1>1. k \in Keys(x) /\ t \in Tree(x) /\ t.ent \in [Entry(x) -> Int]
  BY KeyType DEF Mirrors, Tree
<1>2. /\ u = [mids |-> t.mids, ent |-> [t.ent EXCEPT ![<<k, pk>>] = @ + 1]]
      /\ u \in Tree(x) /\ <<k, pk>> \in Entry(x)
  BY <1>1, BumpIs
<1> HIDE DEF u
<1>3. /\ DOMAIN S = DOMAIN R \cup {pk}
      /\ \A p \in DOMAIN R \cup {pk} : S[p] = IF p = pk THEN row ELSE R[p]
  BY WithRowTable
<1> HIDE DEF S
<1>4. ASSUME NEW e \in Entry(x) PROVE u.ent[e] = IF Listed(S, x, e) THEN 1 ELSE 0
  <2>1. e = <<e[1], e[2]>> /\ t.ent[e] = IF Listed(R, x, e) THEN 1 ELSE 0
    BY DefFacts DEF Mirrors
  <2>2. u.ent[e] = IF e = <<k, pk>> THEN t.ent[e] + 1 ELSE t.ent[e]
    BY <1>1, <1>2
  <2>3. CASE e[2] # pk
    BY <1>3, <2>1, <2>2, <2>3 DEF Listed
  <2>4. CASE e[2] = pk
    <3>1. (Listed(S, x, e) <=> e = <<k, pk>>) /\ ~Listed(R, x, e)
      BY <1>3, <2>1, <2>4 DEF Listed
    <3> QED BY <2>1, <2>2, <3>1
  <2> QED BY <2>3, <2>4
<1> QED BY <1>2, <1>4 DEF Mirrors, u, S

LEMMA MirrorDelete ==
  ASSUME NEW x \in Indexes, NEW t, NEW R, Table(R), Mirrors(x, t, R), NEW pk \in DOMAIN R
  PROVE  Mirrors(x, Bump(t, Key(x, R[pk]), pk, -1), WithoutRow(R, pk))
<1> DEFINE k == Key(x, R[pk])
           u == Bump(t, k, pk, -1)
           S == WithoutRow(R, pk)
<1>1. /\ k \in Keys(x) /\ t \in Tree(x) /\ t.ent \in [Entry(x) -> Int] /\ pk \in Pk
  BY KeyType DEF Mirrors, Tree, Table
<1>2. /\ u = [mids |-> t.mids, ent |-> [t.ent EXCEPT ![<<k, pk>>] = @ + -1]]
      /\ u \in Tree(x) /\ <<k, pk>> \in Entry(x)
  BY <1>1, BumpIs
<1> HIDE DEF u
<1>3. /\ DOMAIN S = DOMAIN R \ {pk}
      /\ \A p \in DOMAIN R \ {pk} : S[p] = R[p]
  BY <1>1, WithoutRowTable
<1> HIDE DEF S
<1>4. ASSUME NEW e \in Entry(x) PROVE u.ent[e] = IF Listed(S, x, e) THEN 1 ELSE 0
  <2>1. e = <<e[1], e[2]>> /\ t.ent[e] = IF Listed(R, x, e) THEN 1 ELSE 0
    BY DefFacts DEF Mirrors
  <2>2. u.ent[e] = IF e = <<k, pk>> THEN t.ent[e] - 1 ELSE t.ent[e]
    BY <1>1, <1>2
  <2>3. CASE e[2] # pk
    BY <1>3, <2>1, <2>2, <2>3 DEF Listed
  <2>4. CASE e[2] = pk
    <3>1. (Listed(R, x, e) <=> e = <<k, pk>>) /\ ~Listed(S, x, e)
      BY <1>3, <2>1, <2>4 DEF Listed
    <3> QED BY <2>1, <2>2, <3>1
  <2> QED BY <2>3, <2>4
<1> QED BY <1>2, <1>4 DEF Mirrors, u, S

(* REPLACE tells a trigger of the new row first. *)
LEMMA MirrorSwap ==
  ASSUME NEW x \in Indexes, NEW t, NEW R, Table(R), Mirrors(x, t, R),
         NEW pk \in DOMAIN R, NEW row \in Row
  PROVE  Mirrors(x, Bump(Bump(t, Key(x, row), pk, 1), Key(x, R[pk]), pk, -1), WithRow(R, pk, row))
<1> DEFINE k == Key(x, row)
           l == Key(x, R[pk])
           u == Bump(t, k, pk, 1)
           v == Bump(u, l, pk, -1)
           S == WithRow(R, pk, row)
<1>1. /\ k \in Keys(x) /\ l \in Keys(x) /\ t \in Tree(x) /\ t.ent \in [Entry(x) -> Int] /\ pk \in Pk
  BY KeyType DEF Mirrors, Tree, Table
<1>2. /\ u = [mids |-> t.mids, ent |-> [t.ent EXCEPT ![<<k, pk>>] = @ + 1]]
      /\ u \in Tree(x) /\ <<k, pk>> \in Entry(x)
  BY <1>1, BumpIs
<1>7. u \in Tree(x) /\ k \in Keys(x) /\ l \in Keys(x) /\ pk \in Pk
  BY <1>1, <1>2
<1> HIDE DEF u, k, l
<1>3. /\ v = [mids |-> u.mids, ent |-> [u.ent EXCEPT ![<<l, pk>>] = @ + -1]]
      /\ v \in Tree(x) /\ <<l, pk>> \in Entry(x)
  BY <1>7, BumpIs
<1>6. u.ent \in [Entry(x) -> Int]
  BY <1>2, TreeRecord
<1> HIDE DEF v
<1>4. /\ DOMAIN S = DOMAIN R
      /\ \A p \in DOMAIN R : S[p] = IF p = pk THEN row ELSE R[p]
  BY OverRowTable
<1> HIDE DEF S
<1>5. ASSUME NEW e \in Entry(x) PROVE v.ent[e] = IF Listed(S, x, e) THEN 1 ELSE 0
  <2>1. e = <<e[1], e[2]>> /\ t.ent[e] = IF Listed(R, x, e) THEN 1 ELSE 0
    BY DefFacts DEF Mirrors
  <2>2. u.ent[e] = IF e = <<k, pk>> THEN t.ent[e] + 1 ELSE t.ent[e]
    BY <1>1, <1>2
  <2>3. v.ent[e] = IF e = <<l, pk>> THEN u.ent[e] - 1 ELSE u.ent[e]
    BY <1>3, <1>6
  <2>4. CASE e[2] # pk
    BY <1>4, <2>1, <2>2, <2>3, <2>4 DEF Listed
  <2>5. CASE e[2] = pk
    <3>1. (Listed(S, x, e) <=> e = <<k, pk>>) /\ (Listed(R, x, e) <=> e = <<l, pk>>)
      BY <1>4, <2>1, <2>5 DEF Listed, k, l
    <3> QED BY <2>1, <2>2, <2>3, <3>1
  <2> QED BY <2>4, <2>5
<1> QED BY <1>3, <1>5 DEF Mirrors, u, v, S, k, l

----------------------------------------------------------------------------
(* What each command does to all indexes. *)

LEMMA TriggerTree ==
  ASSUME NEW x \in Indexes, NEW t \in Tree(x), NEW pk \in Pk, NEW row \in Row, NEW d \in Int
  PROVE  Bump(t, Key(x, row), pk, d) \in Tree(x)
BY KeyType, BumpIs

LEMMA TightTree ==
  ASSUME NEW x, NEW t, NEW R, Keeps(x, t, R)
  PROVE  t \in Tree(x) /\ Tight(x, t)
BY DEF Keeps, Exact, Tight

(* INSERT *)
LEMMA InsertSound ==
  ASSUME use \in Uses, SoundUse(use), RowsInv,
         NEW pk \in Pk, pk \notin DOMAIN rows, NEW row, Allowed(row),
         RunInsertIndexes(pk, row).ok
  PROVE  IndexesSound(WithRow(rows, pk, row),
                      RunTriggers(RunInsertIndexes(pk, row).idx, pk, row, 1))
<1> DEFINE R == WithRow(rows, pk, row)
           ix == RunTriggers(RunInsertIndexes(pk, row).idx, pk, row, 1)
<1>1. /\ row \in Row /\ Table(rows) /\ Mine \subseteq Indexes
      /\ \A x \in Indexes : idx[x] \in Tree(x)
      /\ \A x \in Mine : ~Trig(x) => FitRow(x, row)
  BY UseFacts DEF RowsInv, IndexesSound, ListSound, Allowed
<1>2. /\ Table(R) /\ DOMAIN R = DOMAIN rows \cup {pk}
      /\ \A p \in DOMAIN rows \cup {pk} : R[p] = IF p = pk THEN row ELSE rows[p]
  BY <1>1, WithRowTable
<1> HIDE DEF R
<1>3. \A p \in DOMAIN R : Allowed(R[p])
  BY <1>2 DEF RowsInv, IndexesSound
<1>4. /\ RunInsertIndexes(pk, row).idx = [x \in Indexes |-> Added(x, pk, row).t]
      /\ \A x \in Mine : Added(x, pk, row).ok
  BY InsertIndexes
<1>5. ix = [x \in Indexes |-> IF x \in Mine /\ Trig(x) THEN Bump(Added(x, pk, row).t, Key(x, row), pk, 1)
                              ELSE Added(x, pk, row).t]
  BY <1>4 DEF RunTriggers
<1> HIDE DEF ix
<1>6. ASSUME NEW x \in Mine, ~Trig(x) PROVE Keeps(x, ix[x], R)
  <2>1. x \in Indexes /\ FitRow(x, row) /\ Keeps(x, idx[x], rows)
    BY <1>1, <1>6 DEF RowsInv, IndexesSound
  <2>2. ix[x] = AddToIndex(x, idx[x], pk, row).t /\ AddToIndex(x, idx[x], pk, row).ok
    BY <1>4, <1>5, <1>6, <2>1 DEF Added
  <2>3. Accepts(x, idx[x], row)
    BY <1>1, <2>1, <2>2, AcceptsIs, TightTree
  <2>4. Keeps(x, AddToIndex(x, idx[x], pk, row).t, WithRow(rows, pk, row))
    BY <1>1, <2>1, <2>3, AddRow
  <2> QED BY <2>2, <2>4 DEF R
<1>7. ASSUME NEW x \in Mine, Trig(x) PROVE Mirrors(x, ix[x], R)
  <2>1. x \in Indexes /\ Mirrors(x, idx[x], rows)
    BY <1>1, <1>7 DEF RowsInv, IndexesSound
  <2>2. ix[x] = Bump(idx[x], Key(x, row), pk, 1)
    BY <1>5, <1>7, <2>1 DEF Added
  <2>3. Mirrors(x, Bump(idx[x], Key(x, row), pk, 1), WithRow(rows, pk, row))
    BY <1>1, <2>1, MirrorAdd
  <2> QED BY <2>2, <2>3 DEF R
<1>8. ASSUME NEW x \in Indexes PROVE ix[x] \in Tree(x)
  <2>1. CASE x \in Mine /\ ~Trig(x)
    BY <1>6, <2>1, TightTree
  <2>2. CASE x \in Mine /\ Trig(x)
    BY <1>7, <2>2 DEF Mirrors
  <2>3. CASE x \notin Mine
    BY <1>1, <1>5, <2>3 DEF Added
  <2> QED BY <2>1, <2>2, <2>3
<1>9. ix = [x \in Indexes |-> ix[x]]
  BY <1>5
<1> QED BY <1>2, <1>3, <1>6, <1>7, <1>8, <1>9 DEF IndexesSound, R, ix

(* DELETE *)
LEMMA DeleteSound ==
  ASSUME use \in Uses, SoundUse(use), RowsInv, NEW pk \in DOMAIN rows
  PROVE  /\ RunDeleteIndexes(idx, pk, rows[pk]).bad = FALSE
         /\ IndexesSound(WithoutRow(rows, pk), RunDeleteIndexes(idx, pk, rows[pk]).idx)
<1> DEFINE R == WithoutRow(rows, pk)
           del == RunDeleteIndexes(idx, pk, rows[pk])
           ix == del.idx
<1>1. /\ Table(rows) /\ Mine \subseteq Indexes /\ pk \in Pk /\ rows[pk] \in Row
      /\ \A x \in Indexes : idx[x] \in Tree(x)
  BY UseFacts DEF RowsInv, IndexesSound, ListSound, Table
<1>2. /\ Table(R) /\ DOMAIN R = DOMAIN rows \ {pk}
      /\ \A p \in DOMAIN rows \ {pk} : R[p] = rows[p]
  BY <1>1, WithoutRowTable
<1> HIDE DEF R
<1>3. \A p \in DOMAIN R : Allowed(R[p])
  BY <1>2 DEF RowsInv, IndexesSound
<1>4. /\ del.bad <=> \E x \in Mine : DelFromIndex(x, idx[x], pk, rows[pk]).bad
      /\ del.bad \in BOOLEAN
      /\ ix = [x \in Indexes |-> IF x \in Mine THEN DelFromIndex(x, idx[x], pk, rows[pk]).t ELSE idx[x]]
  BY DEF RunDeleteIndexes
<1> HIDE DEF del
<1>6. ASSUME NEW x \in Mine, ~Trig(x)
      PROVE  Keeps(x, ix[x], R) /\ DelFromIndex(x, idx[x], pk, rows[pk]).bad = FALSE
  <2>1. x \in Indexes /\ Keeps(x, idx[x], rows)
    BY <1>1, <1>6 DEF RowsInv, IndexesSound
  <2>2. /\ DelFromIndex(x, idx[x], pk, rows[pk]).bad = FALSE
        /\ Keeps(x, DelFromIndex(x, idx[x], pk, rows[pk]).t, WithoutRow(rows, pk))
    BY <1>1, <2>1, DeleteRowOf
  <2>3. ix[x] = DelFromIndex(x, idx[x], pk, rows[pk]).t
    BY <1>4, <2>1
  <2> QED BY <2>2, <2>3 DEF R
<1>7. ASSUME NEW x \in Mine, Trig(x)
      PROVE  Mirrors(x, ix[x], R) /\ DelFromIndex(x, idx[x], pk, rows[pk]).bad = FALSE
  <2>1. x \in Indexes /\ Mirrors(x, idx[x], rows)
    BY <1>1, <1>7 DEF RowsInv, IndexesSound
  <2>2. DelFromIndex(x, idx[x], pk, rows[pk]) =
          [bad |-> FALSE, t |-> Bump(idx[x], Key(x, rows[pk]), pk, -1)]
    BY <1>7 DEF DelFromIndex, DelKey
  <2>3. Mirrors(x, Bump(idx[x], Key(x, rows[pk]), pk, -1), WithoutRow(rows, pk))
    BY <1>1, <2>1, MirrorDelete
  <2>4. ix[x] = DelFromIndex(x, idx[x], pk, rows[pk]).t
    BY <1>4, <2>1
  <2> QED BY <2>2, <2>3, <2>4 DEF R
<1>8. ASSUME NEW x \in Indexes PROVE ix[x] \in Tree(x)
  <2>1. CASE x \in Mine /\ ~Trig(x)
    BY <1>6, <2>1, TightTree
  <2>2. CASE x \in Mine /\ Trig(x)
    BY <1>7, <2>2 DEF Mirrors
  <2>3. CASE x \notin Mine
    BY <1>1, <1>4, <2>3
  <2> QED BY <2>1, <2>2, <2>3
<1>9. ix = [x \in Indexes |-> ix[x]]
  BY <1>4
<1>10. del.bad = FALSE
  BY <1>4, <1>6, <1>7
<1> QED BY <1>2, <1>3, <1>6, <1>7, <1>8, <1>9, <1>10 DEF IndexesSound, R, del

(* REPLACE *)
LEMMA ReplaceSound ==
  ASSUME use \in Uses, SoundUse(use), RowsInv,
         NEW pk \in DOMAIN rows, NEW row, Allowed(row), RunInsertIndexes(pk, row).ok,
         NEW jx, jx = RunTriggers(RunInsertIndexes(pk, row).idx, pk, row, 1)
  PROVE  /\ RunDeleteIndexes(jx, pk, rows[pk]).bad = FALSE
         /\ IndexesSound(WithRow(rows, pk, row), RunDeleteIndexes(jx, pk, rows[pk]).idx)
<1> DEFINE R == WithRow(rows, pk, row)
           del == RunDeleteIndexes(jx, pk, rows[pk])
           ix == del.idx
<1>1. /\ row \in Row /\ Table(rows) /\ Mine \subseteq Indexes /\ pk \in Pk /\ rows[pk] \in Row
      /\ \A x \in Indexes : idx[x] \in Tree(x)
      /\ \A x \in Mine : ~Trig(x) => FitRow(x, row)
  BY UseFacts DEF RowsInv, IndexesSound, ListSound, Table, Allowed
<1>2. /\ Table(R) /\ DOMAIN R = DOMAIN rows
      /\ \A p \in DOMAIN rows : R[p] = IF p = pk THEN row ELSE rows[p]
  BY <1>1, OverRowTable
<1> HIDE DEF R
<1>3. \A p \in DOMAIN R : Allowed(R[p])
  BY <1>2 DEF RowsInv, IndexesSound
<1>4. /\ RunInsertIndexes(pk, row).idx = [x \in Indexes |-> Added(x, pk, row).t]
      /\ \A x \in Mine : Added(x, pk, row).ok
  BY <1>1, InsertIndexes
<1>5. jx = [x \in Indexes |-> IF x \in Mine /\ Trig(x) THEN Bump(Added(x, pk, row).t, Key(x, row), pk, 1)
                              ELSE Added(x, pk, row).t]
  BY <1>4 DEF RunTriggers
<1>6. /\ del.bad <=> \E x \in Mine : DelFromIndex(x, jx[x], pk, rows[pk]).bad
      /\ del.bad \in BOOLEAN
      /\ ix = [x \in Indexes |-> IF x \in Mine THEN DelFromIndex(x, jx[x], pk, rows[pk]).t ELSE jx[x]]
  BY DEF RunDeleteIndexes
<1> HIDE DEF del
<1>7. ASSUME NEW x \in Mine, ~Trig(x)
      PROVE  Keeps(x, ix[x], R) /\ DelFromIndex(x, jx[x], pk, rows[pk]).bad = FALSE
  <2>1. x \in Indexes /\ FitRow(x, row) /\ Keeps(x, idx[x], rows)
    BY <1>1, <1>7 DEF RowsInv, IndexesSound
  <2>2. jx[x] = AddToIndex(x, idx[x], pk, row).t /\ AddToIndex(x, idx[x], pk, row).ok
    BY <1>4, <1>5, <1>7, <2>1 DEF Added
  <2>3. Accepts(x, idx[x], row)
    BY <1>1, <2>1, <2>2, AcceptsIs, TightTree
  <2>4. /\ DelFromIndex(x, AddToIndex(x, idx[x], pk, row).t, pk, rows[pk]).bad = FALSE
        /\ Keeps(x, DelFromIndex(x, AddToIndex(x, idx[x], pk, row).t, pk, rows[pk]).t, WithRow(rows, pk, row))
    BY <1>1, <2>1, <2>3, SwapRow
  <2>5. ix[x] = DelFromIndex(x, jx[x], pk, rows[pk]).t
    BY <1>6, <2>1
  <2> QED BY <2>2, <2>4, <2>5 DEF R
<1>8. ASSUME NEW x \in Mine, Trig(x)
      PROVE  Mirrors(x, ix[x], R) /\ DelFromIndex(x, jx[x], pk, rows[pk]).bad = FALSE
  <2>1. x \in Indexes /\ Mirrors(x, idx[x], rows)
    BY <1>1, <1>8 DEF RowsInv, IndexesSound
  <2>2. jx[x] = Bump(idx[x], Key(x, row), pk, 1)
    BY <1>5, <1>8, <2>1 DEF Added
  <2>3. DelFromIndex(x, jx[x], pk, rows[pk]) =
          [bad |-> FALSE, t |-> Bump(jx[x], Key(x, rows[pk]), pk, -1)]
    BY <1>8 DEF DelFromIndex, DelKey
  <2>4. Mirrors(x, Bump(Bump(idx[x], Key(x, row), pk, 1), Key(x, rows[pk]), pk, -1), WithRow(rows, pk, row))
    BY <1>1, <2>1, MirrorSwap
  <2>5. ix[x] = DelFromIndex(x, jx[x], pk, rows[pk]).t
    BY <1>6, <2>1
  <2> QED BY <2>2, <2>3, <2>4, <2>5 DEF R
<1>9. ASSUME NEW x \in Indexes PROVE ix[x] \in Tree(x)
  <2>1. CASE x \in Mine /\ ~Trig(x)
    BY <1>7, <2>1, TightTree
  <2>2. CASE x \in Mine /\ Trig(x)
    BY <1>8, <2>2 DEF Mirrors
  <2>3. CASE x \notin Mine
    BY <1>1, <1>5, <1>6, <2>3 DEF Added
  <2> QED BY <2>1, <2>2, <2>3
<1>10. ix = [x \in Indexes |-> ix[x]]
  BY <1>6
<1>11. del.bad = FALSE
  BY <1>6, <1>7, <1>8
<1> QED BY <1>2, <1>3, <1>7, <1>8, <1>9, <1>10, <1>11 DEF IndexesSound, R, del

(* UPDATE: the UNIQUE indexes are not touched, so that none refuses. *)
LEMMA UpdateSound ==
  ASSUME use \in Uses, SoundUse(use), RowsInv,
         NEW pk \in DOMAIN rows, NEW chit \in use.sets, NEW new, Allowed(new),
         Rewrites(chit, rows[pk], new), NEW up
  PROVE  up = UpEffectedIndexes(RunTriggers(idx, pk, rows[pk], -1), pk, rows[pk], new, chit) =>
         /\ up.ok = TRUE /\ up.bad = FALSE
         /\ IndexesSound(WithRow(rows, pk, new), RunTriggers(up.idx, pk, new, 1))
<1> DEFINE R == WithRow(rows, pk, new)
           jx == RunTriggers(idx, pk, rows[pk], -1)
           swap(x) == Swapped(x, jx[x], pk, rows[pk], new, chit)
           ix == RunTriggers(up.idx, pk, new, 1)
<1>1. /\ new \in Row /\ Table(rows) /\ Mine \subseteq Indexes /\ pk \in Pk /\ rows[pk] \in Row
      /\ \A x \in Indexes : idx[x] \in Tree(x)
      /\ \A x \in Mine : ~Trig(x) => FitRow(x, new)
      /\ Mine \subseteq Named(use)
  BY UseFacts DEF RowsInv, IndexesSound, ListSound, Table, Allowed
<1>2. /\ Table(R) /\ DOMAIN R = DOMAIN rows
      /\ \A p \in DOMAIN rows : R[p] = IF p = pk THEN new ELSE rows[p]
  BY <1>1, OverRowTable
<1> HIDE DEF R
<1>3. \A p \in DOMAIN R : Allowed(R[p])
  BY <1>2 DEF RowsInv, IndexesSound
<1>4. jx = [x \in Indexes |-> IF x \in Mine /\ Trig(x) THEN Bump(idx[x], Key(x, rows[pk]), pk, -1)
                              ELSE idx[x]]
  BY DEF RunTriggers
<1> HIDE DEF jx
<1>5. ASSUME NEW x \in Mine, Touched(x, chit)
      PROVE  /\ x \in Indexes /\ ~Trig(x) /\ jx[x] = idx[x] /\ ~Uniq(x)
             /\ Accepts(x, idx[x], new)
             /\ AddToIndex(x, jx[x], pk, new).ok
  <2>1. x \in Indexes /\ ~Trig(x)
    BY <1>1, <1>5 DEF Touched
  <2>2. ~Uniq(x)
    <3>1. SUFFICES ASSUME Uniq(x) PROVE FALSE
      OBVIOUS
    <3>2. Width(x) \in Nat /\ ~(Width(x) > 1)
      BY <1>1, <2>1, <3>1, UseFacts, DefFacts
    <3>3. Def[x].cols[1] \notin chit
      BY <1>1, <3>1, UseFacts
    <3>4. PICK i \in 1..Width(x) : Def[x].cols[i] \in chit
      BY <1>5 DEF Touched
    <3>5. i = 1
      BY <3>2
    <3> QED BY <3>3, <3>4, <3>5
  <2>3. jx[x] = idx[x] /\ Accepts(x, idx[x], new)
    BY <1>4, <2>1, <2>2 DEF Accepts
  <2>4. Keeps(x, idx[x], rows) /\ FitRow(x, new)
    BY <1>1, <2>1 DEF RowsInv, IndexesSound
  <2>5. AddToIndex(x, idx[x], pk, new).ok
    BY <1>1, <2>1, <2>3, <2>4, AcceptsIs, TightTree
  <2> QED BY <2>1, <2>2, <2>3, <2>5
<1>6. RefusingUpdate(jx, pk, new, chit) = {}
  BY <1>5 DEF RefusingUpdate
<1>9. ASSUME NEW x \in Mine, ~Trig(x)
      PROVE  Keeps(x, swap(x).t, R) /\ swap(x).bad = FALSE
  <2>1. x \in Indexes /\ FitRow(x, new) /\ Keeps(x, idx[x], rows) /\ jx[x] = idx[x]
    BY <1>1, <1>4, <1>9 DEF RowsInv, IndexesSound
  <2>2. CASE Touched(x, chit)
    <3>1. swap(x) = DelFromIndex(x, AddToIndex(x, idx[x], pk, new).t, pk, rows[pk])
      BY <2>1, <2>2 DEF Swapped
    <3>2. /\ DelFromIndex(x, AddToIndex(x, idx[x], pk, new).t, pk, rows[pk]).bad = FALSE
          /\ Keeps(x, DelFromIndex(x, AddToIndex(x, idx[x], pk, new).t, pk, rows[pk]).t, WithRow(rows, pk, new))
      BY <1>1, <1>5, <2>1, <2>2, SwapRow
    <3> QED BY <3>1, <3>2 DEF R
  <2>3. CASE ~Touched(x, chit)
    <3>1. swap(x) = [bad |-> FALSE, t |-> idx[x]]
      BY <2>1, <2>3 DEF Swapped
    <3>2. \A i \in 1..Width(x) : Def[x].cols[i] \notin chit /\ Def[x].cols[i] \in 1..NCol
      BY <1>9, <2>1, <2>3, DefFacts DEF Touched
    <3>3. Key(x, new) = Key(x, rows[pk])
      BY <3>2 DEF Key, Rewrites
    <3>4. Keeps(x, idx[x], WithRow(rows, pk, new))
      BY <1>1, <2>1, <3>3, SameKeyRow
    <3> QED BY <3>1, <3>4 DEF R
  <2> QED BY <2>2, <2>3
<1>10. ASSUME NEW x \in Mine, Trig(x)
       PROVE  Mirrors(x, Bump(swap(x).t, Key(x, new), pk, 1), R) /\ swap(x).bad = FALSE
  <2>1. x \in Indexes /\ Mirrors(x, idx[x], rows)
    BY <1>1, <1>10 DEF RowsInv, IndexesSound
  <2>2. swap(x) = [bad |-> FALSE, t |-> Bump(idx[x], Key(x, rows[pk]), pk, -1)]
    BY <1>4, <1>10, <2>1 DEF Swapped, Touched
  <2>3. Mirrors(x, Bump(idx[x], Key(x, rows[pk]), pk, -1), WithoutRow(rows, pk))
    BY <1>1, <2>1, MirrorDelete
  <2>4. Table(WithoutRow(rows, pk)) /\ pk \notin DOMAIN WithoutRow(rows, pk)
    BY <1>1, WithoutRowTable
  <2>5. Mirrors(x, Bump(Bump(idx[x], Key(x, rows[pk]), pk, -1), Key(x, new), pk, 1),
                WithRow(WithoutRow(rows, pk), pk, new))
    BY <1>1, <2>1, <2>3, <2>4, MirrorAdd
  <2>6. WithRow(WithoutRow(rows, pk), pk, new) = WithRow(rows, pk, new)
    BY DEF WithRow, WithoutRow
  <2> QED BY <2>2, <2>5, <2>6 DEF R
<1>11. ASSUME NEW x \in Indexes, x \notin Mine
       PROVE  swap(x).t = idx[x] /\ swap(x).bad = FALSE
  BY <1>4, <1>11 DEF Swapped, Touched
<1> HAVE up = UpEffectedIndexes(RunTriggers(idx, pk, rows[pk], -1), pk, rows[pk], new, chit)
<1>7. up = [ok |-> TRUE, bad |-> \E x \in Indexes : swap(x).bad, idx |-> [x \in Indexes |-> swap(x).t]]
  BY <1>6 DEF UpEffectedIndexes, jx
<1> HIDE DEF swap
<1>16. up.idx = [x \in Indexes |-> swap(x).t]
  BY <1>7
<1>8. ix = [x \in Indexes |-> IF x \in Mine /\ Trig(x) THEN Bump(swap(x).t, Key(x, new), pk, 1)
                              ELSE swap(x).t]
  BY <1>16 DEF RunTriggers
<1> HIDE DEF ix
<1>12. ASSUME NEW x \in Indexes PROVE ix[x] \in Tree(x)
  <2>1. CASE x \in Mine /\ ~Trig(x)
    BY <1>8, <1>9, <2>1, TightTree
  <2>2. CASE x \in Mine /\ Trig(x)
    BY <1>8, <1>10, <2>2 DEF Mirrors
  <2>3. CASE x \notin Mine
    BY <1>1, <1>8, <1>11, <2>3
  <2> QED BY <2>1, <2>2, <2>3
<1>13. ix = [x \in Indexes |-> ix[x]]
  BY <1>8
<1>14. \A x \in Mine : (~Trig(x) => Keeps(x, ix[x], R)) /\ (Trig(x) => Mirrors(x, ix[x], R))
  BY <1>1, <1>8, <1>9, <1>10
<1>15. up.ok = TRUE /\ up.bad = FALSE
  <2>1. \A x \in Indexes : ~swap(x).bad
    BY <1>9, <1>10, <1>11
  <2> DEFINE some == \E x \in Indexes : swap(x).bad
  <2>2. some = FALSE
    BY <2>1
  <2>3. up = [ok |-> TRUE, bad |-> some, idx |-> [x \in Indexes |-> swap(x).t]]
    BY <1>7
  <2> HIDE DEF some
  <2> QED BY <2>2, <2>3
<1> QED BY <1>2, <1>3, <1>12, <1>13, <1>14, <1>15 DEF IndexesSound, R, ix

(* UPDATE of the primary key, of a table with plain indexes only. *)
LEMMA MoveSound ==
  ASSUME use \in Uses, SoundUse(use), RowsInv, "updatepk" \in use.ops,
         NEW pk \in DOMAIN rows, NEW npk \in Pk, npk \notin DOMAIN rows, NEW new, Allowed(new),
         NEW ins, NEW del
  PROVE  ins = RunInsertIndexes(npk, new) /\ del = RunDeleteIndexes(ins.idx, pk, rows[pk]) =>
         /\ ins.ok = TRUE /\ ins.bad = FALSE /\ del.bad = FALSE
         /\ IndexesSound(WithRow(WithoutRow(rows, pk), npk, new),
                         RunTriggers(RunTriggers(del.idx, pk, rows[pk], -1), npk, new, 1))
<1> DEFINE R == WithRow(rows, npk, new)
           S == WithRow(WithoutRow(rows, pk), npk, new)
           ix == RunTriggers(RunTriggers(del.idx, pk, rows[pk], -1), npk, new, 1)
<1>1. /\ new \in Row /\ Table(rows) /\ Mine \subseteq Indexes /\ pk \in Pk /\ rows[pk] \in Row
      /\ \A x \in Indexes : idx[x] \in Tree(x)
      /\ \A x \in Mine : ~Trig(x) /\ ~Uniq(x) /\ FitRow(x, new) /\ Keeps(x, idx[x], rows)
  BY UseFacts DEF RowsInv, IndexesSound, ListSound, Table, Allowed
<1>2. /\ Table(R) /\ DOMAIN R = DOMAIN rows \cup {npk}
      /\ \A p \in DOMAIN rows \cup {npk} : R[p] = IF p = npk THEN new ELSE rows[p]
  BY <1>1, WithRowTable
<1>3. /\ Table(WithoutRow(R, pk)) /\ DOMAIN WithoutRow(R, pk) = DOMAIN R \ {pk}
      /\ \A p \in DOMAIN R \ {pk} : WithoutRow(R, pk)[p] = R[p]
  BY <1>1, <1>2, WithoutRowTable
<1>4. S = WithoutRow(R, pk)
  BY DEF WithRow, WithoutRow
<1> HIDE DEF R, S
<1>5. \A p \in DOMAIN S : Allowed(S[p])
  BY <1>2, <1>3, <1>4 DEF RowsInv, IndexesSound
<1>6. ASSUME NEW x \in Mine
      PROVE  /\ AddToIndex(x, idx[x], npk, new).ok
             /\ Keeps(x, AddToIndex(x, idx[x], npk, new).t, R)
             /\ Added(x, npk, new) = AddToIndex(x, idx[x], npk, new)
  <2>1. x \in Indexes /\ ~Trig(x) /\ Accepts(x, idx[x], new) /\ Tight(x, idx[x])
    BY <1>1, TightTree DEF Accepts
  <2>2. AddToIndex(x, idx[x], npk, new).ok
    BY <1>1, <2>1, AcceptsIs
  <2>3. Keeps(x, AddToIndex(x, idx[x], npk, new).t, WithRow(rows, npk, new))
    BY <1>1, <2>1, AddRow
  <2> QED BY <2>1, <2>2, <2>3 DEF Added, R
<1> HAVE ins = RunInsertIndexes(npk, new) /\ del = RunDeleteIndexes(ins.idx, pk, rows[pk])
<1>7. Refusing(npk, new) = {}
  BY <1>6 DEF Refusing
<1>8. ins = [ok |-> TRUE, bad |-> FALSE, idx |-> [x \in Indexes |-> Added(x, npk, new).t]]
  BY <1>7 DEF RunInsertIndexes
<1>9. /\ del.bad <=> \E x \in Mine : DelFromIndex(x, ins.idx[x], pk, rows[pk]).bad
      /\ del.bad \in BOOLEAN
      /\ del.idx = [x \in Indexes |-> IF x \in Mine THEN DelFromIndex(x, ins.idx[x], pk, rows[pk]).t
                                      ELSE ins.idx[x]]
  BY DEF RunDeleteIndexes
<1>10. ix = del.idx
  BY <1>1, <1>9 DEF RunTriggers
<1> HIDE DEF ix
<1>11. ASSUME NEW x \in Mine
       PROVE  Keeps(x, del.idx[x], S) /\ ~DelFromIndex(x, ins.idx[x], pk, rows[pk]).bad
  <2>1. ins.idx[x] = AddToIndex(x, idx[x], npk, new).t
    BY <1>1, <1>6, <1>8
  <2>2. R[pk] = rows[pk] /\ pk \in DOMAIN R
    BY <1>2
  <2>3. /\ DelFromIndex(x, ins.idx[x], pk, R[pk]).bad = FALSE
        /\ Keeps(x, DelFromIndex(x, ins.idx[x], pk, R[pk]).t, WithoutRow(R, pk))
    BY <1>1, <1>2, <1>6, <2>1, <2>2, DeleteRowOf
  <2> QED BY <1>1, <1>4, <1>9, <2>2, <2>3
<1>12. ASSUME NEW x \in Indexes PROVE del.idx[x] \in Tree(x)
  <2>1. CASE x \in Mine
    BY <1>11, <2>1, TightTree
  <2>2. CASE x \notin Mine
    <3>1. del.idx[x] = ins.idx[x]
      BY <1>9, <2>2
    <3>2. ins.idx[x] = Added(x, npk, new).t
      BY <1>8
    <3>3. Added(x, npk, new) = [ok |-> TRUE, t |-> idx[x]]
      BY <2>2 DEF Added
    <3> QED BY <1>1, <3>1, <3>2, <3>3
  <2> QED BY <2>1, <2>2
<1>13. del.bad = FALSE /\ ins.ok = TRUE /\ ins.bad = FALSE
  BY <1>8, <1>9, <1>11
<1>14. ix = [x \in Indexes |-> ix[x]]
  BY <1>9, <1>10
<1> QED BY <1>1, <1>3, <1>4, <1>5, <1>10, <1>11, <1>12, <1>13, <1>14 DEF IndexesSound, S, ix

(* The rows that a command may write. *)
LEMMA NewRowAllowed ==
  ASSUME use \in Uses, SoundUse(use), NEW row \in NewRow
  PROVE  Allowed(row)
<1>1. row \in Row /\ \A c \in 1..NCol : row[c] \in use.vals[c]
  BY DEF NewRow
<1>2. ASSUME NEW x \in Named(use), ~Trig(x) PROVE FitRow(x, row)
  <2>1. /\ x \in Indexes /\ Width(x) \in Nat \ {0}
        /\ \A i \in 1..Width(x) : Def[x].cols[i] \in 1..NCol
        /\ \A i \in 1..Width(x) : Key(x, row)[i] = row[Def[x].cols[i]]
        /\ DOMAIN Key(x, row) = 1..Width(x)
    BY UseFacts, DefFacts DEF Key
  <2>2. Width(x) > 1 => ~Uniq(x) /\ Filled(Key(x, row))
    BY <1>1, <1>2, <2>1, UseFacts DEF Filled
  <2>3. Uniq(x) => Key(x, row)[1] # 0
    BY <1>1, <2>1, UseFacts
  <2> QED BY <1>2, <2>2, <2>3 DEF FitRow, Fit
<1> QED BY <1>1, <1>2 DEF Allowed

LEMMA RewrittenAllowed ==
  ASSUME use \in Uses, SoundUse(use), NEW old, Allowed(old), NEW new \in Row,
         NEW chit \in use.sets, Rewrites(chit, old, new)
  PROVE  Allowed(new)
<1>1. ASSUME NEW x \in Named(use), ~Trig(x) PROVE FitRow(x, new)
  <2>1. /\ x \in Indexes /\ Width(x) \in Nat \ {0}
        /\ \A i \in 1..Width(x) : Def[x].cols[i] \in 1..NCol
        /\ \A i \in 1..Width(x) : /\ Key(x, old)[i] = old[Def[x].cols[i]]
                                   /\ Key(x, new)[i] = new[Def[x].cols[i]]
        /\ DOMAIN Key(x, old) = 1..Width(x) /\ DOMAIN Key(x, new) = 1..Width(x)
    BY UseFacts, DefFacts DEF Key
  <2>2. FitRow(x, old)
    BY <1>1 DEF Allowed
  <2>3. Width(x) > 1 => ~Uniq(x) /\ Filled(Key(x, old))
    BY <2>2 DEF FitRow, Fit
  <2>4. Filled(Key(x, old)) => Filled(Key(x, new))
    BY <2>1 DEF Filled, Rewrites
  <2>5. Uniq(x) => Key(x, new)[1] # 0
    <3>1. SUFFICES ASSUME Uniq(x) PROVE Key(x, new)[1] # 0
      OBVIOUS
    <3>2. Def[x].cols[1] \notin chit /\ Def[x].cols[1] \in 1..NCol
      BY <2>1, <3>1, UseFacts
    <3>3. Key(x, new)[1] = Key(x, old)[1]
      BY <2>1, <3>2 DEF Rewrites
    <3> QED BY <2>2, <3>1, <3>3 DEF FitRow
  <2> QED BY <1>1, <2>3, <2>4, <2>5 DEF FitRow, Fit
<1> QED BY <1>1 DEF Allowed

(* CREATE INDEX enters the rows one by one.  The function that BuildIndex   *)
(* defines by recursion over the primary keys exists: a part of it for the  *)
(* keys up to n gives one for the keys up to n + 1.                         *)

Builds(x, n, g) ==
    g = [p \in 0..n |-> IF p = 0 THEN [ok |-> TRUE, t |-> EmptyIndex(x)]
                        ELSE BuildRow(x, g[p - 1], p)]
Upto(n) == [p \in DOMAIN rows \cap 1..n |-> rows[p]]

LEMMA BuildExists ==
  ASSUME NEW x
  PROVE  \E g : Builds(x, NPk, g)
<1> DEFINE T == {n \in Nat : ~\E g : Builds(x, n, g)}
<1>1. SUFFICES ASSUME T # {} PROVE FALSE
  BY RowIndexAssumption
<1>2. PICK n \in T : \A m \in T : n <= m
  BY <1>1, LeastNat
<1>3. n # 0
  <2>1. Builds(x, 0, [p \in 0..0 |-> [ok |-> TRUE, t |-> EmptyIndex(x)]])
    BY DEF Builds
  <2> QED BY <1>2, <2>1
<1>4. n \in Nat /\ n - 1 \in Nat /\ n - 1 \notin T
  BY <1>2, <1>3
<1>5. PICK g : Builds(x, n - 1, g)
  BY <1>4
<1> DEFINE h == [p \in 0..n |-> IF p = n THEN BuildRow(x, g[n - 1], n) ELSE g[p]]
<1>6. \A p \in 0..n : h[p] = IF p = 0 THEN [ok |-> TRUE, t |-> EmptyIndex(x)]
                              ELSE BuildRow(x, h[p - 1], p)
  <2>1. \A p \in 0..n - 1 : g[p] = IF p = 0 THEN [ok |-> TRUE, t |-> EmptyIndex(x)]
                                    ELSE BuildRow(x, g[p - 1], p)
    BY <1>5 DEF Builds
  <2>2. \A p \in 0..n - 1 : h[p] = g[p]
    BY <1>4
  <2>3. h[n] = BuildRow(x, g[n - 1], n) /\ h[n - 1] = g[n - 1]
    BY <1>3, <1>4
  <2>4. \A p \in 0..n : p # 0 /\ p # n => p - 1 \in 0..n - 1 /\ p \in 0..n - 1
    BY <1>4
  <2>5. 0 \in 0..n - 1
    BY <1>4
  <2> HIDE DEF h
  <2> QED BY <1>3, <2>1, <2>2, <2>3, <2>4, <2>5
<1>7. Builds(x, n, h)
  BY <1>6 DEF Builds
<1> QED BY <1>2, <1>7

LEMMA BuildKeeps ==
  ASSUME use \in Uses, SoundUse(use), RowsInv, NEW x \in use.more, ~Trig(x), BuildIndex(x).ok
  PROVE  Keeps(x, BuildIndex(x).t, rows)
<1> DEFINE g == CHOOSE h : Builds(x, NPk, h)
           ok(p) == g[p].ok => Keeps(x, g[p].t, Upto(p))
           T == {p \in 0..NPk : ~ok(p)}
<1>0. NPk \in Nat /\ 0 \in 0..NPk /\ NPk \in 0..NPk
  BY RowIndexAssumption
<1>1. BuildIndex(x) = g[NPk]
  BY DEF BuildIndex, Builds
<1>2. Builds(x, NPk, g)
  BY BuildExists
<1> HIDE DEF g
<1>3. /\ g[0] = [ok |-> TRUE, t |-> EmptyIndex(x)]
      /\ \A p \in 1..NPk : g[p] = BuildRow(x, g[p - 1], p)
  <2>1. \A p \in 0..NPk : g[p] = IF p = 0 THEN [ok |-> TRUE, t |-> EmptyIndex(x)]
                                  ELSE BuildRow(x, g[p - 1], p)
    BY <1>2 DEF Builds
  <2>2. \A p \in 1..NPk : p \in 0..NPk /\ p # 0
    BY <1>0
  <2> QED BY <1>0, <2>1, <2>2
<1>4. /\ x \in Indexes /\ x \in Named(use) /\ Table(rows)
      /\ \A p \in DOMAIN rows : FitRow(x, rows[p]) /\ rows[p] \in Row /\ p \in Pk
  BY UseFacts DEF Named, RowsInv, IndexesSound, Allowed, Table
<1>5. ASSUME NEW n \in 0..NPk
      PROVE  /\ Table(Upto(n)) /\ DOMAIN Upto(n) = DOMAIN rows \cap 1..n
             /\ \A p \in DOMAIN rows \cap 1..n : Upto(n)[p] = rows[p]
  BY <1>4 DEF Table, Upto
<1>6. ok(0)
  <2>1. DOMAIN Upto(0) = {}
    <3>1. 1..0 = {}
      OBVIOUS
    <3> QED BY <1>0, <1>5, <3>1
  <2>2. EmptyIndex(x) \in Tree(x) /\ EmptyIndex(x).mids = {}
        /\ \A e \in Entry(x) : EmptyIndex(x).ent[e] = 0
    BY DEF EmptyIndex, NoEntries, Tree
  <2>3. Ways(x, EmptyIndex(x).ent) = {}
    BY <2>2 DEF Ways
  <2>4. Exact(x, EmptyIndex(x), Upto(0))
    BY <2>1, <2>2, <2>3 DEF Exact, Tight, Listed
  <2> QED BY <1>3, <2>1, <2>4 DEF Keeps, Distinct
<1>7. ASSUME NEW p \in 1..NPk, ok(p - 1) PROVE ok(p)
  <2>1. p - 1 \in 0..NPk /\ p \in 0..NPk /\ NPk \in Nat /\ p \notin 1..(p - 1)
        /\ 1..p = 1..(p - 1) \cup {p}
    BY <1>0
  <2>2. g[p] = BuildRow(x, g[p - 1], p)
    BY <1>3
  <2>3. CASE p \notin DOMAIN rows
    <3>1. DOMAIN rows \cap 1..p = DOMAIN rows \cap 1..(p - 1)
      BY <1>4, <2>1, <2>3
    <3>2. Upto(p) = Upto(p - 1)
      BY <3>1 DEF Upto
    <3>3. g[p] = g[p - 1]
      BY <2>2, <2>3 DEF BuildRow
    <3> QED BY <1>7, <3>2, <3>3
  <2>4. CASE p \in DOMAIN rows /\ ~g[p - 1].ok
    BY <2>2, <2>4 DEF BuildRow
  <2>5. CASE p \in DOMAIN rows /\ g[p - 1].ok
    <3> DEFINE t == g[p - 1].t
               R == Upto(p - 1)
    <3>1. g[p] = AddToIndex(x, t, p, rows[p])
      BY <2>2, <2>5 DEF BuildRow
    <3>0. /\ Table(R) /\ DOMAIN R = DOMAIN rows \cap 1..(p - 1)
          /\ \A q \in DOMAIN rows \cap 1..(p - 1) : R[q] = rows[q]
      BY <1>5, <2>1
    <3>2. Keeps(x, t, R) /\ Table(R) /\ p \notin DOMAIN R /\ p \in Pk
      <4>1. Keeps(x, t, R)
        BY <1>7, <2>5
      <4> HIDE DEF R, t
      <4> QED BY <1>4, <2>1, <2>5, <3>0, <4>1
    <3>3. WithRow(R, p, rows[p]) = Upto(p)
      <4>1. DOMAIN R \cup {p} = DOMAIN rows \cap 1..p
        BY <2>1, <2>5, <3>0
      <4>2. \A q \in DOMAIN rows \cap 1..p : (IF q = p THEN rows[p] ELSE R[q]) = rows[q]
        BY <2>1, <3>0
      <4> HIDE DEF R
      <4> QED BY <4>1, <4>2 DEF WithRow, Upto
    <3> HIDE DEF t, R
    <3>4. SUFFICES ASSUME AddToIndex(x, t, p, rows[p]).ok
                   PROVE  Keeps(x, AddToIndex(x, t, p, rows[p]).t, Upto(p))
      BY <3>1
    <3>5. Accepts(x, t, rows[p])
      BY <1>4, <2>5, <3>2, <3>4, AcceptsIs, TightTree
    <3>6. Keeps(x, AddToIndex(x, t, p, rows[p]).t, WithRow(R, p, rows[p]))
      BY <1>4, <2>5, <3>2, <3>5, AddRow
    <3> QED BY <3>3, <3>6
  <2> QED BY <2>3, <2>4, <2>5
<1> HIDE DEF ok
<1>8. T = {}
  <2>1. SUFFICES ASSUME T # {} PROVE FALSE
    OBVIOUS
  <2>2. T \subseteq Nat
    BY RowIndexAssumption
  <2>3. PICK p \in T : \A q \in T : p <= q
    BY <2>1, <2>2, LeastNat
  <2>4. p \in 1..NPk /\ p - 1 \in 0..NPk /\ p - 1 \notin T
    BY <1>6, <2>3, RowIndexAssumption
  <2> QED BY <1>7, <2>3, <2>4
<1>9. g[NPk].ok => Keeps(x, g[NPk].t, Upto(NPk))
  BY <1>0, <1>8 DEF ok
<1>10. Upto(NPk) = rows
  <2>1. DOMAIN rows \cap 1..NPk = DOMAIN rows
    BY <1>4 DEF Pk
  <2> QED BY <1>4, <2>1 DEF Upto, Table
<1> QED BY <1>1, <1>9, <1>10

----------------------------------------------------------------------------
(* Every command keeps the indexes sound, and one that is refused changes   *)
(* neither the rows nor the indexes.                                        *)

Unharmed == reply' # <<>> /\ reply'[1] = "uviol" => rows' = rows /\ idx' = idx
Kept == RowsInv' /\ Unharmed

LEMMA SameIndexes ==
  ASSUME RowsInv, use' = use, inds' = inds, IndexesSound(rows', idx'),
         ainc' \in 0..NPk, \A pk \in DOMAIN rows' : pk <= ainc', fault' = FALSE
  PROVE  RowsInv'
<1>1. Mine' = Mine /\ Named(use)' = Named(use)
  BY DEF Mine, Named
<1>2. \A row : Allowed(row)' <=> Allowed(row)
  BY <1>1 DEF Allowed
<1>3. IndexesSound(rows, idx)'
  BY <1>1, <1>2 DEF IndexesSound
<1>4. ListSound'
  BY <1>1 DEF RowsInv, ListSound
<1> QED BY <1>3, <1>4 DEF RowsInv

LEMMA LargerIs ==
  ASSUME RowsInv, NEW pk \in Pk
  PROVE  /\ Larger(ainc, pk) \in 0..NPk /\ pk <= Larger(ainc, pk)
         /\ \A p \in DOMAIN rows : p <= Larger(ainc, pk)
<1>1. /\ ainc \in 0..NPk /\ NPk \in Nat
      /\ \A p \in DOMAIN rows : p <= ainc /\ p \in Pk
  BY RowIndexAssumption DEF RowsInv, IndexesSound, Table
<1> QED BY <1>1 DEF Larger, Pk

LEMMA RefusedKept ==
  ASSUME RowsInv, use' = use, NEW msg, Refused(msg)
  PROVE  Kept
<1>1. /\ rows' = rows /\ inds' = inds /\ idx' = idx /\ ainc' = ainc /\ fault' = fault
  BY DEF Refused
<1>2. RowsInv'
  BY <1>1, SameIndexes DEF RowsInv
<1> QED BY <1>1, <1>2 DEF Kept, Unharmed

LEMMA InsertKept ==
  ASSUME use \in Uses, SoundUse(use), RowsInv, use' = use,
         NEW pk \in use.pks, NEW row \in NewRow, Insert(pk, row)
  PROVE  Kept
<1> DEFINE ins == RunInsertIndexes(pk, row)
<1>1. pk \in Pk /\ pk \notin DOMAIN rows /\ Allowed(row) /\ row \in Row /\ Table(rows)
  BY UseFacts, NewRowAllowed DEF Insert, Allowed, RowsInv, IndexesSound
<1>2. ins.bad = FALSE /\ (~ins.ok => ins.idx = idx)
  BY <1>1, InsertIndexes
<1>3. CASE ~ins.ok
  <2>1. rows' = rows /\ inds' = inds /\ idx' = idx /\ ainc' = ainc /\ fault' = FALSE
    BY <1>2, <1>3 DEF Insert, InsertRow, Rejected
  <2>2. RowsInv'
    BY <2>1, SameIndexes DEF RowsInv
  <2> QED BY <2>1, <2>2 DEF Kept, Unharmed
<1>4. CASE ins.ok
  <2>1. /\ rows' = WithRow(rows, pk, row) /\ idx' = RunTriggers(ins.idx, pk, row, 1)
        /\ ainc' = Larger(ainc, pk) /\ reply' = <<"ok">> /\ fault' = FALSE /\ inds' = inds
    BY <1>2, <1>4 DEF Insert, InsertRow
  <2>2. IndexesSound(rows', idx')
    BY <1>1, <1>4, <2>1, InsertSound
  <2>3. DOMAIN rows' = DOMAIN rows \cup {pk}
    BY <1>1, <2>1, WithRowTable
  <2>4. ainc' \in 0..NPk /\ \A p \in DOMAIN rows' : p <= ainc'
    BY <1>1, <2>1, <2>3, LargerIs
  <2>5. RowsInv'
    BY <2>1, <2>2, <2>4, SameIndexes
  <2>6. reply'[1] # "uviol"
    BY <2>1
  <2> QED BY <2>5, <2>6 DEF Kept, Unharmed
<1> QED BY <1>3, <1>4

LEMMA ReplaceKept ==
  ASSUME use \in Uses, SoundUse(use), RowsInv, use' = use,
         NEW pk \in DOMAIN rows, NEW row \in NewRow, Replace(pk, row)
  PROVE  Kept
<1> DEFINE ins == RunInsertIndexes(pk, row)
           jx == RunTriggers(ins.idx, pk, row, 1)
           del == RunDeleteIndexes(jx, pk, rows[pk])
<1>1. pk \in Pk /\ Allowed(row) /\ row \in Row /\ Table(rows)
  BY NewRowAllowed DEF Allowed, RowsInv, IndexesSound, Table
<1>2. ins.bad = FALSE /\ (~ins.ok => ins.idx = idx)
  BY <1>1, InsertIndexes
<1>3. CASE ~ins.ok
  <2>1. rows' = rows /\ inds' = inds /\ idx' = idx /\ ainc' = ainc /\ fault' = FALSE
    BY <1>2, <1>3 DEF Replace, Rejected
  <2>2. RowsInv'
    BY <2>1, SameIndexes DEF RowsInv
  <2> QED BY <2>1, <2>2 DEF Kept, Unharmed
<1>4. CASE ins.ok
  <2>1. ReplaceRow(pk, row, del)
    BY <1>4 DEF Replace
  <2>2. del.bad = FALSE /\ IndexesSound(WithRow(rows, pk, row), del.idx)
    BY <1>1, <1>4, ReplaceSound
  <2> HIDE DEF del
  <2>3. /\ rows' = WithRow(rows, pk, row) /\ idx' = del.idx
        /\ ainc' = Larger(ainc, pk) /\ reply' = <<"ok">> /\ fault' = FALSE /\ inds' = inds
    BY <2>1, <2>2 DEF ReplaceRow
  <2>4. DOMAIN rows' = DOMAIN rows
    BY <1>1, <2>3, OverRowTable
  <2>5. ainc' \in 0..NPk /\ \A p \in DOMAIN rows' : p <= ainc'
    BY <1>1, <2>3, <2>4, LargerIs
  <2>6. RowsInv'
    BY <2>2, <2>3, <2>5, SameIndexes
  <2>7. reply'[1] # "uviol"
    BY <2>3
  <2> QED BY <2>6, <2>7 DEF Kept, Unharmed
<1> QED BY <1>3, <1>4

LEMMA UpdateKept ==
  ASSUME use \in Uses, SoundUse(use), RowsInv, use' = use,
         NEW pk, NEW chit \in use.sets, NEW new \in Row, Update(pk, chit, new)
  PROVE  Kept
<1> DEFINE up == UpEffectedIndexes(RunTriggers(idx, pk, rows[pk], -1), pk, rows[pk], new, chit)
<1>1. pk \in DOMAIN rows /\ Rewrites(chit, rows[pk], new) /\ UpdateRow(pk, new, up)
  BY DEF Update
<1>2. Allowed(rows[pk]) /\ Table(rows)
  BY <1>1 DEF RowsInv, IndexesSound
<1>3. Allowed(new)
  BY <1>1, <1>2, RewrittenAllowed
<1>4. /\ up.ok = TRUE /\ up.bad = FALSE
      /\ IndexesSound(WithRow(rows, pk, new), RunTriggers(up.idx, pk, new, 1))
  BY <1>1, <1>3, UpdateSound
<1> HIDE DEF up
<1>5. /\ rows' = WithRow(rows, pk, new) /\ idx' = RunTriggers(up.idx, pk, new, 1)
      /\ ainc' = ainc /\ reply' = <<"cone">> /\ fault' = FALSE /\ inds' = inds
  BY <1>1, <1>4 DEF UpdateRow
<1>6. DOMAIN rows' = DOMAIN rows
  BY <1>1, <1>2, <1>5, OverRowTable
<1>7. RowsInv'
  <2>1. ainc' \in 0..NPk /\ \A p \in DOMAIN rows' : p <= ainc'
    BY <1>5, <1>6 DEF RowsInv
  <2> QED BY <1>4, <1>5, <2>1, SameIndexes
<1>8. reply'[1] # "uviol"
  BY <1>5
<1> QED BY <1>7, <1>8 DEF Kept, Unharmed

LEMMA MoveKept ==
  ASSUME use \in Uses, SoundUse(use), RowsInv, use' = use, "updatepk" \in use.ops,
         NEW pk \in DOMAIN rows, NEW npk \in use.pks, NEW chit \in use.sets, NEW new \in Row,
         UpdatePk(pk, npk, chit, new)
  PROVE  Kept
<1> DEFINE ins == RunInsertIndexes(npk, new)
           del == RunDeleteIndexes(ins.idx, pk, rows[pk])
           ix == RunTriggers(RunTriggers(del.idx, pk, rows[pk], -1), npk, new, 1)
           S == WithRow(WithoutRow(rows, pk), npk, new)
<1>1. npk \notin DOMAIN rows /\ Rewrites(chit, rows[pk], new) /\ MoveRow(pk, npk, new, ins, del)
  BY DEF UpdatePk
<1>2. Allowed(rows[pk]) /\ Table(rows) /\ npk \in Pk /\ pk \in Pk
  BY UseFacts DEF RowsInv, IndexesSound, Table
<1>3. Allowed(new)
  BY <1>2, <1>1, RewrittenAllowed
<1>4. /\ ins.ok = TRUE /\ ins.bad = FALSE /\ del.bad = FALSE
      /\ IndexesSound(S, ix)
  BY <1>1, <1>2, <1>3, MoveSound
<1>5. DOMAIN S = (DOMAIN rows \ {pk}) \cup {npk}
  BY DEF WithRow, WithoutRow
<1>6. /\ rows' = S /\ idx' = ix /\ ainc' = Larger(ainc, npk) /\ inds' = inds
      /\ reply' = (IF ins.ok THEN <<"cone">> ELSE <<"uviol", "cone">>)
      /\ fault' = (ins.bad \/ del.bad)
  BY <1>1 DEF MoveRow
<1> HIDE DEF ins, del, ix, S
<1>7. reply' = <<"cone">> /\ fault' = FALSE
  BY <1>4, <1>6
<1>8. ainc' \in 0..NPk /\ \A p \in DOMAIN rows' : p <= ainc'
  BY <1>2, <1>5, <1>6, LargerIs
<1>9. RowsInv'
  BY <1>4, <1>6, <1>7, <1>8, SameIndexes
<1>10. reply'[1] # "uviol"
  BY <1>7
<1> QED BY <1>9, <1>10 DEF Kept, Unharmed

LEMMA DeleteKept ==
  ASSUME use \in Uses, SoundUse(use), RowsInv, use' = use, NEW pk, Delete(pk)
  PROVE  Kept
<1> DEFINE del == RunDeleteIndexes(idx, pk, rows[pk])
<1>1. pk \in DOMAIN rows /\ DeleteRow(pk, del)
  BY DEF Delete
<1>2. del.bad = FALSE /\ IndexesSound(WithoutRow(rows, pk), del.idx)
  BY <1>1, DeleteSound
<1> HIDE DEF del
<1>3. /\ rows' = WithoutRow(rows, pk) /\ idx' = del.idx
      /\ ainc' = ainc /\ reply' = <<"cone">> /\ fault' = FALSE /\ inds' = inds
  BY <1>1, <1>2 DEF DeleteRow
<1>4. DOMAIN rows' = DOMAIN rows \ {pk}
  BY <1>3 DEF WithoutRow
<1>5. ainc' \in 0..NPk /\ \A p \in DOMAIN rows' : p <= ainc'
  BY <1>3, <1>4 DEF RowsInv
<1>6. RowsInv'
  BY <1>2, <1>3, <1>5, SameIndexes
<1>7. reply'[1] # "uviol"
  BY <1>3
<1> QED BY <1>6, <1>7 DEF Kept, Unharmed

LEMMA CreateKept ==
  ASSUME use \in Uses, SoundUse(use), RowsInv, use' = use, NEW x \in use.more, CreateIndex(x)
  PROVE  Kept
<1>1. CASE \E msg \in {"indexedalready", "uviol"} : Refused(msg)
  BY <1>1, RefusedKept
<1>2. CASE ~\E msg \in {"indexedalready", "uviol"} : Refused(msg)
  <2>1. /\ x \notin Mine /\ ~Trig(x) /\ BuildIndex(x).ok
        /\ inds' = Append(inds, x) /\ idx' = [idx EXCEPT ![x] = BuildIndex(x).t]
        /\ reply' = <<"ok">> /\ rows' = rows /\ ainc' = ainc /\ fault' = fault
    BY <1>2 DEF CreateIndex
  <2>2. Keeps(x, BuildIndex(x).t, rows)
    BY <2>1, BuildKeeps
  <2>3. x \in Named(use) /\ x \in Indexes /\ BuildIndex(x).t \in Tree(x)
    BY <2>2, UseFacts, TightTree DEF Named
  <2>4. inds \in Seq(Indexes) /\ Len(inds) \in Nat /\ DOMAIN inds = 1..Len(inds)
    BY LenProperties DEF RowsInv, ListSound
  <2>5. /\ inds' \in Seq(Indexes) /\ DOMAIN inds' = 1..Len(inds) + 1
        /\ \A i \in 1..Len(inds) + 1 : inds'[i] = IF i = Len(inds) + 1 THEN x ELSE inds[i]
    BY <2>1, <2>3, <2>4, AppendProperties
  <2>6. Mine' = Mine \cup {x} /\ Named(use)' = Named(use)
    <3>1. DOMAIN inds' = DOMAIN inds \cup {Len(inds) + 1}
      BY <2>4, <2>5
    <3>2. /\ \A i \in DOMAIN inds : inds'[i] = inds[i]
          /\ inds'[Len(inds) + 1] = x
      BY <2>4, <2>5
    <3> QED BY <3>1, <3>2 DEF Mine, Named
  <2>7. \A i, j \in DOMAIN inds' : inds'[i] = inds'[j] => i = j
    <3>1. \A i \in 1..Len(inds) : inds[i] # x
      BY <2>1, <2>4 DEF Mine
    <3>2. \A i, j \in 1..Len(inds) : inds[i] = inds[j] => i = j
      BY <2>4 DEF RowsInv, ListSound
    <3> QED BY <2>4, <2>5, <3>1, <3>2
  <2>8. ListSound'
    BY <2>3, <2>5, <2>6, <2>7 DEF RowsInv, ListSound
  <2>10. /\ idx' = [y \in Indexes |-> idx'[y]]
         /\ \A y \in Indexes : idx'[y] = IF y = x THEN BuildIndex(x).t ELSE idx[y]
    BY <2>1, <2>3 DEF RowsInv, IndexesSound
  <2>11. /\ \A y \in Indexes : idx[y] \in Tree(y)
         /\ \A y \in Mine : ~Trig(y) => Keeps(y, idx[y], rows)
         /\ \A y \in Mine : Trig(y) => Mirrors(y, idx[y], rows)
         /\ Mine \subseteq Indexes
         /\ Table(rows) /\ \A pk \in DOMAIN rows : Allowed(rows[pk])
    BY UseFacts DEF RowsInv, IndexesSound, ListSound
  <2>12. IndexesSound(rows, idx)'
    <3>1. (Table(rows) /\ \A pk \in DOMAIN rows : Allowed(rows[pk]))'
      BY <2>1, <2>6, <2>11 DEF Allowed
    <3>2. \A y \in Indexes : idx'[y] \in Tree(y)
      BY <2>3, <2>10, <2>11
    <3>3. \A y \in Mine' : ~Trig(y) => Keeps(y, idx'[y], rows')
      BY <2>1, <2>2, <2>3, <2>6, <2>10, <2>11
    <3>4. \A y \in Mine' : Trig(y) => Mirrors(y, idx'[y], rows')
      BY <2>1, <2>6, <2>10, <2>11
    <3> QED BY <2>10, <3>1, <3>2, <3>3, <3>4 DEF IndexesSound
  <2>13. RowsInv'
    BY <2>1, <2>8, <2>12 DEF RowsInv
  <2>14. reply'[1] # "uviol"
    BY <2>1
  <2> QED BY <2>13, <2>14 DEF Kept, Unharmed
<1> QED BY <1>1, <1>2

LEMMA DropKept ==
  ASSUME use \in Uses, SoundUse(use), RowsInv, use' = use, NEW x \in Mine, DropIndex(x)
  PROVE  Kept
<1> DEFINE n == Len(inds)
           p == Pos(x)
<1>1. /\ ~Trig(x)
      /\ inds' = [i \in 1..n - 1 |-> IF i < p THEN inds[i] ELSE inds[i + 1]]
      /\ idx' = [idx EXCEPT ![x] = EmptyIndex(x)]
      /\ reply' = <<"cone">> /\ rows' = rows /\ ainc' = ainc /\ fault' = fault
  BY DEF DropIndex
<1>2. /\ inds \in Seq(Indexes) /\ n \in Nat /\ DOMAIN inds = 1..n /\ p \in 1..n /\ inds[p] = x
      /\ \A i \in 1..n : inds[i] \in Indexes
      /\ \A i, j \in 1..n : inds[i] = inds[j] => i = j
      /\ Mine \subseteq Indexes /\ x \in Indexes
  <2>1. ListSound
    BY DEF RowsInv
  <2>2. inds \in Seq(Indexes) /\ n \in Nat /\ DOMAIN inds = 1..n /\ \A i \in 1..n : inds[i] \in Indexes
    BY <2>1, LenProperties, ElementOfSeq DEF ListSound
  <2>3. p \in 1..n /\ inds[p] = x
    BY <2>1, RankFacts
  <2> QED BY <2>1, <2>2, <2>3, UseFacts DEF ListSound
<1> HIDE DEF p, n
<1>3. /\ DOMAIN inds' = 1..n - 1
      /\ \A i \in 1..n - 1 : inds'[i] = IF i < p THEN inds[i] ELSE inds[i + 1]
      /\ \A i \in 1..n - 1 : i \in 1..n /\ i + 1 \in 1..n /\ i \in Int
      /\ n - 1 \in Nat /\ p \in Int
  BY <1>1, <1>2
<1>4. inds' \in Seq(Indexes)
  <2>1. inds' \in [1..n - 1 -> Indexes]
    BY <1>1, <1>2, <1>3
  <2> QED BY <1>3, <2>1, SeqDef
<1>5. \A i, j \in DOMAIN inds' : inds'[i] = inds'[j] => i = j
  <2> SUFFICES ASSUME NEW i \in 1..n - 1, NEW j \in 1..n - 1, inds'[i] = inds'[j]
               PROVE  i = j
    BY <1>3
  <2> DEFINE a == IF i < p THEN i ELSE i + 1
             b == IF j < p THEN j ELSE j + 1
  <2>1. a \in 1..n /\ b \in 1..n /\ inds'[i] = inds[a] /\ inds'[j] = inds[b]
    BY <1>3
  <2>2. a = b
    BY <1>2, <2>1
  <2> QED BY <1>3, <2>2
<1>6. Mine' \subseteq Mine \ {x} /\ Named(use)' = Named(use)
  <2>1. ASSUME NEW i \in 1..n - 1 PROVE inds'[i] \in Mine \ {x}
    <3> DEFINE a == IF i < p THEN i ELSE i + 1
    <3>1. a \in 1..n /\ a # p /\ inds'[i] = inds[a]
      BY <1>3
    <3> QED BY <1>2, <3>1 DEF Mine
  <2> QED BY <1>3, <2>1 DEF Mine, Named
<1>7. ListSound'
  BY <1>4, <1>5, <1>6 DEF RowsInv, ListSound
<1>9. /\ idx' = [y \in Indexes |-> idx'[y]]
      /\ \A y \in Indexes : idx'[y] = IF y = x THEN EmptyIndex(x) ELSE idx[y]
  BY <1>1, <1>2 DEF RowsInv, IndexesSound
<1>10. EmptyIndex(x) \in Tree(x)
  BY DEF EmptyIndex, NoEntries, Tree
<1>11. /\ \A y \in Indexes : idx[y] \in Tree(y)
       /\ \A y \in Mine : ~Trig(y) => Keeps(y, idx[y], rows)
       /\ \A y \in Mine : Trig(y) => Mirrors(y, idx[y], rows)
       /\ Table(rows) /\ \A pk \in DOMAIN rows : Allowed(rows[pk])
  BY DEF RowsInv, IndexesSound
<1>12. IndexesSound(rows, idx)'
  <2>1. (Table(rows) /\ \A pk \in DOMAIN rows : Allowed(rows[pk]))'
    BY <1>1, <1>6, <1>11 DEF Allowed
  <2>2. \A y \in Indexes : idx'[y] \in Tree(y)
    BY <1>9, <1>10, <1>11
  <2>3. \A y \in Mine' : ~Trig(y) => Keeps(y, idx'[y], rows')
    BY <1>1, <1>2, <1>6, <1>9, <1>11
  <2>4. \A y \in Mine' : Trig(y) => Mirrors(y, idx'[y], rows')
    BY <1>1, <1>2, <1>6, <1>9, <1>11
  <2> QED BY <1>9, <2>1, <2>2, <2>3, <2>4 DEF IndexesSound
<1>13. RowsInv'
  BY <1>1, <1>7, <1>12 DEF RowsInv
<1>14. reply'[1] # "uviol"
  BY <1>1
<1> QED BY <1>13, <1>14 DEF Kept, Unharmed

(* One step of the table. *)
LEMMA NextKept ==
  ASSUME use \in Uses, SoundUse(use), RowsInv, Next, use' = use
  PROVE  Kept
<1>1. CASE \E pk \in use.pks : InsertTaken(pk)
  BY <1>1, RefusedKept DEF InsertTaken
<1>2. CASE \E pk \in use.pks, row \in NewRow : Insert(pk, row)
  BY <1>2, InsertKept
<1>3. CASE \E pk \in DOMAIN rows, row \in NewRow : Replace(pk, row)
  BY <1>3, ReplaceKept
<1>4. CASE \E pk \in use.pks : UpdateMissing(pk) \/ DeleteMissing(pk)
  BY <1>4, RefusedKept DEF UpdateMissing, DeleteMissing
<1>5. CASE \E pk \in use.pks, chit \in use.sets, new \in Row : Update(pk, chit, new)
  BY <1>5, UpdateKept
<1>6. CASE \E npk \in use.pks : UpdatePkTaken(npk)
  BY <1>6, RefusedKept DEF UpdatePkTaken
<1>7. CASE "updatepk" \in use.ops /\ \E pk \in DOMAIN rows, npk \in use.pks, chit \in use.sets, new \in Row :
               UpdatePk(pk, npk, chit, new)
  BY <1>7, MoveKept
<1>8. CASE \E pk \in use.pks : Delete(pk)
  BY <1>8, DeleteKept
<1>9. CASE \E x \in use.more : CreateIndex(x)
  BY <1>9, CreateKept
<1>10. CASE \E x \in Mine : DropIndex(x)
  BY <1>10, DropKept
<1>11. "replacenew" \notin use.ops
  BY UseFacts
<1> QED BY <1>1, <1>2, <1>3, <1>4, <1>5, <1>6, <1>7, <1>8, <1>9, <1>10, <1>11 DEF Next

LEMMA InitSound ==
  ASSUME Init
  PROVE  RowsInv
<1>1. rows = <<>> /\ DOMAIN rows = {} /\ Table(rows)
  BY DEF Init, Table
<1>2. inds = use.inds /\ use \in Uses /\ idx = [x \in Indexes |-> EmptyIndex(x)]
      /\ ainc = 0 /\ fault = FALSE
  BY DEF Init
<1>3. /\ inds \in Seq(Indexes)
      /\ \A i, j \in DOMAIN inds : inds[i] = inds[j] => i = j
  BY <1>2, RowIndexAssumption
<1>4. Mine \subseteq Named(use) /\ Mine \subseteq Indexes
  <2>1. Mine \subseteq Named(use)
    BY <1>2 DEF Mine, Named
  <2>2. \A i \in DOMAIN inds : inds[i] \in Indexes
    BY <1>3, ElementOfSeq, LenProperties
  <2> QED BY <2>1, <2>2 DEF Mine
<1>5. ASSUME NEW x \in Indexes
      PROVE  /\ EmptyIndex(x) \in Tree(x)
             /\ Keeps(x, EmptyIndex(x), rows)
             /\ Mirrors(x, EmptyIndex(x), rows)
  <2>1. EmptyIndex(x) \in Tree(x) /\ EmptyIndex(x).mids = {}
        /\ \A e \in Entry(x) : EmptyIndex(x).ent[e] = 0
    BY DEF EmptyIndex, NoEntries, Tree
  <2>2. Ways(x, EmptyIndex(x).ent) = {}
    BY <2>1 DEF Ways
  <2>3. Exact(x, EmptyIndex(x), rows) /\ Mirrors(x, EmptyIndex(x), rows)
    BY <1>1, <2>1, <2>2 DEF Exact, Tight, Listed, Mirrors
  <2> QED BY <1>1, <2>1, <2>3 DEF Keeps, Distinct
<1>6. IndexesSound(rows, idx)
  BY <1>1, <1>2, <1>4, <1>5 DEF IndexesSound
<1>7. 0 \in 0..NPk
  BY RowIndexAssumption
<1> QED BY <1>1, <1>2, <1>3, <1>4, <1>6, <1>7 DEF RowsInv, ListSound

(* What RowsInv says in the words of the properties. *)
LEMMA SoundExact ==
  ASSUME use \in Uses, SoundUse(use), RowsInv
  PROVE  TreesExact /\ UniqueHolds /\ TriggerExact
<1>1. /\ Mine \subseteq Indexes /\ Table(rows)
      /\ \A x \in Mine : ~Trig(x) => Keeps(x, idx[x], rows)
      /\ \A x \in Mine : Trig(x) => Mirrors(x, idx[x], rows)
  BY UseFacts DEF RowsInv, IndexesSound, ListSound
<1>2. TypeOK
  <2>1. \A x \in Indexes : idx[x].ent \in [Entry(x) -> Int]
    BY TreeRecord DEF RowsInv, IndexesSound
  <2> QED BY <1>1, <2>1 DEF TypeOK, RowsInv, Table
<1>3. ASSUME NEW x \in Mine, ~Trig(x)
      PROVE  /\ \A e \in Entry(x) : idx[x].ent[e] = IF Shown(x, e[1], e[2]) THEN 1 ELSE 0
             /\ idx[x].mids = Ways(x, idx[x].ent)
             /\ Distinct(x, rows)
  <2>1. Exact(x, idx[x], rows) /\ Distinct(x, rows)
    BY <1>1, <1>3 DEF Keeps
  <2>2. ASSUME NEW e \in Entry(x)
        PROVE  Shown(x, e[1], e[2]) <=> Listed(rows, x, e) /\ Has(x, e[1])
    BY DEF Shown, Listed, Has
  <2>3. \A e \in Entry(x) : idx[x].ent[e] = IF Listed(rows, x, e) /\ Has(x, e[1]) THEN 1 ELSE 0
    BY <2>1 DEF Exact
  <2>4. idx[x].mids = Ways(x, idx[x].ent)
    BY <2>1 DEF Exact, Tight
  <2> QED BY <2>1, <2>2, <2>3, <2>4
<1>4. IndexExact
  BY <1>3 DEF IndexExact
<1>5. MidsExact
  <2>1. SUFFICES ASSUME NEW x \in Mine, ~Trig(x)
                 PROVE  idx[x].mids = UNION {{Path(k, j) : j \in 1..Depth(x)} :
                                             k \in {e[1] : e \in {f \in Entry(x) : idx[x].ent[f] > 0}}}
    BY DEF MidsExact
  <2>2. Ways(x, idx[x].ent) = UNION {{Path(k, j) : j \in 1..Depth(x)} :
                                     k \in {e[1] : e \in {f \in Entry(x) : idx[x].ent[f] > 0}}}
    BY DEF Ways
  <2> QED BY <1>3, <2>1, <2>2
<1>6. UniqueHolds
  <2>1. \A x \in Mine : Uniq(x) => ~Trig(x)
    BY <1>1, DefFacts
  <2> QED BY <1>3, <2>1 DEF UniqueHolds, Distinct
<1>7. TriggerExact
  BY <1>1 DEF TriggerExact, Mirrors, Listed
<1>8. NoFault
  BY DEF NoFault, RowsInv
<1> QED BY <1>2, <1>4, <1>5, <1>6, <1>7, <1>8 DEF TreesExact

(* The inductive invariant: a table whose use is sound has sound indexes. *)
RowsSound == use \in Uses /\ (SoundUse(use) => RowsInv)

LEMMA RowsSoundStep ==
  ASSUME RowsSound, [Next /\ UNCHANGED use]_vars
  PROVE  RowsSound' /\ (SoundUse(use) => [Unharmed]_vars)
<1>1. CASE UNCHANGED vars
  <2>1. /\ rows' = rows /\ inds' = inds /\ idx' = idx /\ ainc' = ainc /\ fault' = fault /\ use' = use
    BY <1>1 DEF vars
  <2>2. ASSUME SoundUse(use) PROVE RowsInv'
    BY <2>1, <2>2, SameIndexes DEF RowsSound, RowsInv
  <2>3. SoundUse(use)' => SoundUse(use)
    BY <2>1 DEF SoundUse
  <2> QED BY <1>1, <2>1, <2>2, <2>3 DEF RowsSound
<1>2. CASE Next /\ use' = use
  <2>1. ASSUME SoundUse(use) PROVE Kept
    BY <1>2, <2>1, NextKept DEF RowsSound
  <2>2. SoundUse(use)' => SoundUse(use)
    BY <1>2 DEF SoundUse
  <2> QED BY <1>2, <2>1, <2>2 DEF RowsSound, Kept
<1> QED BY <1>1, <1>2

(* The commands of alsosql.c, row.c and index.c keep the invariant. *)
THEOREM RowsAlwaysSound == Spec => []RowsSound
<1>1. Init => RowsSound
  BY InitSound DEF RowsSound, Init
<1>2. RowsSound /\ [Next /\ UNCHANGED use]_vars => RowsSound'
  BY RowsSoundStep
<1> QED BY <1>1, <1>2, PTL DEF Spec

(* insertCommit, updateRow, deleteRow and buildIndex keep every index of a  *)
(* table equal to its rows: each row has exactly one entry under its key, a *)
(* multi-column index has just the trees its entries need, and no deletion  *)
(* goes through a tree that is not there.  It holds for every number of     *)
(* columns, rows, values and indexes, for tables used as SoundUse says.     *)
THEOREM IndexesAgree == Spec => [](SoundUse(use) => TreesExact)
<1>1. RowsSound => (SoundUse(use) => TreesExact)
  BY SoundExact DEF RowsSound
<1> QED BY <1>1, RowsAlwaysSound, PTL

(* iAddUniq lets no two rows of such a table share a UNIQUE value. *)
THEOREM UniqueKept == Spec => [](SoundUse(use) => UniqueHolds)
<1>1. RowsSound => (SoundUse(use) => UniqueHolds)
  BY SoundExact DEF RowsSound
<1> QED BY <1>1, RowsAlwaysSound, PTL

(* A Lua trigger that adds up the events it is told of has just the rows. *)
THEOREM TriggersAgree == Spec => [](SoundUse(use) => TriggerExact)
<1>1. RowsSound => (SoundUse(use) => TriggerExact)
  BY SoundExact DEF RowsSound
<1> QED BY <1>1, RowsAlwaysSound, PTL

(* A command that is answered with a constraint violation has taken back    *)
(* all that it had done to the indexes (the rollback of insertCommit).      *)
THEOREM RefusedLeavesAll ==
  ASSUME \A u \in Uses : SoundUse(u)
  PROVE  Spec => RefusedNoChange
<1>1. Init => RowsSound
  BY InitSound DEF RowsSound, Init
<1>2. RowsSound /\ [Next /\ UNCHANGED use]_vars =>
        RowsSound' /\ [reply' # <<>> /\ reply'[1] = "uviol" => rows' = rows /\ idx' = idx]_vars
  BY RowsSoundStep DEF RowsSound, Unharmed
<1> QED BY <1>1, <1>2, PTL DEF Spec, RefusedNoChange
=============================================================================
