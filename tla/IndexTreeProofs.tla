-------------------------- MODULE IndexTreeProofs ---------------------------
(***************************************************************************)
(* The trees of one index: what an addition and a deletion do to them, and *)
(* that they hold exactly the rows of a table when a row comes, goes or is *)
(* written over.                                                           *)
(***************************************************************************)
EXTENDS RowIndex, SequenceTheorems, WellFoundedInduction, TLAPS

Vals == Val \cup {Empty}
Keys(x) == [1..Width(x) -> Vals]

(* A nonempty set of naturals has a least element. *)
LEMMA LeastNat ==
  ASSUME NEW T, T \subseteq Nat, T # {}
  PROVE  \E n \in T : \A m \in T : n <= m
<1>1. PICK n \in T : \A m \in T : ~(<<m, n>> \in OpToRel(<, Nat))
  BY NatLessThanWellFounded, WFMin
<1>2. \A m \in T : ~(m < n)
  BY <1>1 DEF OpToRel
<1>3. n \in Nat /\ \A m \in T : m \in Nat
  OBVIOUS
<1> QED BY <1>2, <1>3

(* What is known of an index. *)
LEMMA DefFacts ==
  ASSUME NEW x \in Indexes
  PROVE  /\ Uniq(x) \in BOOLEAN /\ Trig(x) \in BOOLEAN
         /\ Width(x) \in Nat \ {0}
         /\ Depth(x) \in 0..Width(x)
         /\ ~Uniq(x) => Depth(x) = Width(x)
         /\ ~(Uniq(x) /\ Trig(x))
         /\ \A i \in 1..Width(x) : Def[x].cols[i] \in 1..NCol
         /\ Entry(x) = Keys(x) \X Pk
<1>1. Def[x] \in [cols : Seq(1..NCol), uniq : BOOLEAN, trig : BOOLEAN]
  BY RowIndexAssumption
<1>2. Def[x].cols \in Seq(1..NCol) /\ Def[x].cols # <<>> /\ ~(Def[x].uniq /\ Def[x].trig)
  BY <1>1, RowIndexAssumption
<1>3. Len(Def[x].cols) \in Nat \ {0} /\ \A i \in 1..Len(Def[x].cols) : Def[x].cols[i] \in 1..NCol
  BY <1>2, EmptySeq, LenProperties
<1> QED BY <1>1, <1>2, <1>3 DEF Uniq, Trig, Width, Depth, Entry, Keys, Vals

(* The key of a row. *)
LEMMA KeyType ==
  ASSUME NEW x \in Indexes, NEW row \in Row
  PROVE  Key(x, row) \in Keys(x)
BY DefFacts DEF Key, Row, Keys, Vals

(* The way to a key leads through its prefixes. *)
LEMMA PathFacts ==
  ASSUME NEW x \in Indexes, NEW k \in Keys(x)
  PROVE  /\ k \in Seq(Vals) /\ Len(k) = Width(x)
         /\ \A n \in 0..Width(x) :
               /\ Path(k, n) \in Seq(Vals)
               /\ Len(Path(k, n)) = n
               /\ \A i \in 1..n : Path(k, n)[i] = k[i]
         /\ \A n \in 0..Width(x) : \A m \in 0..n : Path(Path(k, n), m) = Path(k, m)
<1>1. k \in Seq(Vals) /\ Len(k) = Width(x)
  BY DefFacts DEF Keys
<1>2. ASSUME NEW n \in 0..Width(x)
      PROVE  /\ Path(k, n) \in Seq(Vals)
             /\ Len(Path(k, n)) = n
             /\ \A i \in 1..n : Path(k, n)[i] = k[i]
  <2>1. \A i \in 1..n : k[i] \in Vals
    BY DefFacts DEF Keys
  <2>2. n \in Int /\ 1 \in Int
    BY DefFacts
  <2> QED BY <2>1, <2>2, SubSeqProperties DEF Path
<1>3. ASSUME NEW n \in 0..Width(x), NEW m \in 0..n
      PROVE  Path(Path(k, n), m) = Path(k, m)
  <2>1. m \in 0..Width(x) /\ m \in Int /\ 1 \in Int /\ n \in Int
    BY DefFacts
  <2>2. \A i \in 1..m : Path(k, n)[i] = k[i] /\ Path(k, n)[i] \in Vals
    BY <1>2, <2>1 DEF Keys
  <2>3. /\ Path(Path(k, n), m) \in Seq(Vals)
        /\ Len(Path(Path(k, n), m)) = m
        /\ \A i \in 1..m : Path(Path(k, n), m)[i] = Path(k, n)[i]
    BY <2>1, <2>2, SubSeqProperties DEF Path
  <2>4. /\ Path(k, m) \in Seq(Vals)
        /\ Len(Path(k, m)) = m
        /\ \A i \in 1..m : Path(k, m)[i] = k[i]
    BY <1>2, <2>1
  <2> QED BY <2>2, <2>3, <2>4, SeqEqual
<1> QED BY <1>1, <1>2, <1>3

----------------------------------------------------------------------------
(* Trees that are exactly the ones their entries need. *)

Tree(x) == [mids : SUBSET Seq(Vals), ent : [Entry(x) -> Int]]
Ways(x, ent) == {Path(e[1], j) : e \in {f \in Entry(x) : ent[f] > 0}, j \in 1..Depth(x)}
Way(x, k) == {Path(k, j) : j \in 1..Depth(x)}

Tight(x, t) ==
    /\ t \in Tree(x)
    /\ \A e \in Entry(x) : t.ent[e] >= 0
    /\ t.mids = Ways(x, t.ent)

(* A key has an entry, and a key that the trees of the index can hold. *)
Has(x, k) == Filled(k) /\ Keyable(x, k)
Fit(x, k) == /\ ~Trig(x)
             /\ Width(x) > 1 => Filled(k) /\ ~Uniq(x)

LEMMA TreeRecord ==
  ASSUME NEW x, NEW t \in Tree(x)
  PROVE  /\ t = [mids |-> t.mids, ent |-> t.ent]
         /\ t.mids \in SUBSET Seq(Vals) /\ t.ent \in [Entry(x) -> Int]
BY DEF Tree

LEMMA BumpIs ==
  ASSUME NEW x \in Indexes, NEW t \in Tree(x), NEW k \in Keys(x), NEW pk \in Pk, NEW d \in Int
  PROVE  /\ Bump(t, k, pk, d) = [mids |-> t.mids, ent |-> [t.ent EXCEPT ![<<k, pk>>] = @ + d]]
         /\ Bump(t, k, pk, d) \in Tree(x)
         /\ <<k, pk>> \in Entry(x)
<1>1. <<k, pk>> \in Entry(x)
  BY DefFacts
<1>2. t = [mids |-> t.mids, ent |-> t.ent] /\ t.mids \in SUBSET Seq(Vals) /\ t.ent \in [Entry(x) -> Int]
  BY TreeRecord
<1>3. Bump(t, k, pk, d) = [mids |-> t.mids, ent |-> [t.ent EXCEPT ![<<k, pk>>] = @ + d]]
  BY <1>2 DEF Bump
<1>4. [t.ent EXCEPT ![<<k, pk>>] = @ + d] \in [Entry(x) -> Int]
  BY <1>1, <1>2
<1> QED BY <1>1, <1>2, <1>3, <1>4 DEF Tree

(* One path is below another when the key of the one starts with the other. *)
LEMMA UnderPath ==
  ASSUME NEW x \in Indexes, NEW k \in Keys(x), NEW l \in Keys(x), NEW j \in 0..Width(x)
  PROVE  /\ Under(l, Path(k, j)) <=> Path(l, j) = Path(k, j)
         /\ \A m \in 0..Width(x) :
               Under(Path(l, m), Path(k, j)) <=> j <= m /\ Path(l, j) = Path(k, j)
<1>1. Len(Path(k, j)) = j /\ Len(l) = Width(x)
  BY PathFacts
<1>2. Under(l, Path(k, j)) <=> Path(l, j) = Path(k, j)
  BY <1>1, DefFacts DEF Under
<1>3. ASSUME NEW m \in 0..Width(x)
      PROVE  Under(Path(l, m), Path(k, j)) <=> j <= m /\ Path(l, j) = Path(k, j)
  <2>1. Len(Path(l, m)) = m
    BY PathFacts
  <2>2. j <= m => Path(Path(l, m), j) = Path(l, j)
    BY PathFacts, DefFacts
  <2> QED BY <1>1, <2>1, <2>2 DEF Under
<1> QED BY <1>2, <1>3

(* The trees a deletion emptied, and no others, are taken away. *)
LEMMA TrickleTight ==
  ASSUME NEW x \in Indexes, NEW t \in Tree(x), NEW k \in Keys(x),
         \A e \in Entry(x) : t.ent[e] >= 0,
         t.mids \subseteq Ways(x, t.ent) \cup Way(x, k),
         Ways(x, t.ent) \subseteq t.mids
  PROVE  Tight(x, TrickleUp(x, t, k)) /\ TrickleUp(x, t, k).ent = t.ent
<1> DEFINE gone == {p \in Way(x, k) : /\ \A q \in t.mids : Under(q, p) => q \in Way(x, k)
                                      /\ \A e \in DOMAIN t.ent : Under(e[1], p) => t.ent[e] = 0}
           u == TrickleUp(x, t, k)
<1>1. /\ t = [mids |-> t.mids, ent |-> t.ent]
      /\ t.mids \in SUBSET Seq(Vals) /\ t.ent \in [Entry(x) -> Int] /\ DOMAIN t.ent = Entry(x)
  BY TreeRecord
<1>2. u = [mids |-> t.mids \ gone, ent |-> t.ent]
  BY <1>1 DEF TrickleUp, Way
<1>3. \A e \in Entry(x) : e[1] \in Keys(x)
  BY DefFacts
<1>4. 1..Depth(x) \subseteq 0..Width(x)
  BY DefFacts
<1>5. ASSUME NEW q \in t.mids \ gone
      PROVE  q \in Ways(x, t.ent)
  <2>1. SUFFICES ASSUME q \in Way(x, k) PROVE q \in Ways(x, t.ent)
    OBVIOUS
  <2>2. PICK j \in 1..Depth(x) : q = Path(k, j)
    BY <2>1 DEF Way
  <2>3. CASE \E p \in t.mids : Under(p, q) /\ p \notin Way(x, k)
    <3>1. PICK p \in t.mids : Under(p, q) /\ p \notin Way(x, k)
      BY <2>3
    <3>2. PICK e \in Entry(x), m \in 1..Depth(x) : t.ent[e] > 0 /\ p = Path(e[1], m)
      BY <3>1 DEF Ways
    <3>3. Path(e[1], j) = Path(k, j)
      BY <1>3, <1>4, <2>2, <3>1, <3>2, UnderPath
    <3> QED BY <2>2, <3>2, <3>3 DEF Ways
  <2>4. CASE \E e \in DOMAIN t.ent : Under(e[1], q) /\ t.ent[e] # 0
    <3>1. PICK e \in Entry(x) : Under(e[1], q) /\ t.ent[e] # 0
      BY <1>1, <2>4
    <3>2. t.ent[e] > 0
      BY <1>1, <3>1
    <3>3. Path(e[1], j) = Path(k, j)
      BY <1>3, <1>4, <2>2, <3>1, UnderPath
    <3> QED BY <2>2, <3>2, <3>3 DEF Ways
  <2> QED BY <2>1, <2>3, <2>4
<1>6. ASSUME NEW q \in Ways(x, t.ent)
      PROVE  q \in t.mids \ gone
  <2>1. PICK e \in Entry(x), j \in 1..Depth(x) : t.ent[e] > 0 /\ q = Path(e[1], j)
    BY DEF Ways
  <2>2. Under(e[1], q)
    BY <1>3, <1>4, <2>1, UnderPath
  <2>3. q \notin gone
    BY <1>1, <2>1, <2>2
  <2> QED BY <2>3
<1>7. u.mids = Ways(x, t.ent) /\ u.ent = t.ent /\ u \in Tree(x)
  BY <1>1, <1>2, <1>5, <1>6 DEF Tree
<1> QED BY <1>7 DEF Tight

(* How far getCol gets in a key that fits. *)
LEMMA ReachIs ==
  ASSUME NEW x \in Indexes, NEW k \in Keys(x), Fit(x, k)
  PROVE  /\ Filled(k) => Reach(x, k) = Depth(x)
         /\ ~Filled(k) => Width(x) = 1 /\ Reach(x, k) = 0
<1>1. DOMAIN k = 1..Width(x) /\ Width(x) \in Nat \ {0} /\ Depth(x) \in 0..Width(x)
  BY DefFacts DEF Keys
<1>2. ASSUME Filled(k) PROVE Reach(x, k) = Depth(x)
  <2>1. \A i \in 1..Width(x) : k[i] # Empty
    BY <1>1, <1>2 DEF Filled
  <2>2. \A n \in 0..Depth(x) : (/\ \A i \in 1..n : k[i] # Empty
                                /\ n < Depth(x) => k[n + 1] = Empty) <=> n = Depth(x)
    BY <1>1, <2>1
  <2>3. Depth(x) \in 0..Depth(x)
    BY <1>1
  <2> QED BY <2>2, <2>3 DEF Reach
<1>3. ASSUME ~Filled(k) PROVE Width(x) = 1 /\ Reach(x, k) = 0
  <2>1. Width(x) = 1
    BY <1>1, <1>3 DEF Fit
  <2>2. k[1] = Empty
    BY <1>1, <1>3, <2>1 DEF Filled
  <2>3. \A n \in 0..Depth(x) : (/\ \A i \in 1..n : k[i] # Empty
                                /\ n < Depth(x) => k[n + 1] = Empty) <=> n = 0
    BY <1>1, <2>1, <2>2
  <2>4. 0 \in 0..Depth(x)
    BY <1>1
  <2> QED BY <2>1, <2>3, <2>4 DEF Reach
<1> QED BY <1>2, <1>3

(* Nothing is undone where nothing was made. *)
LEMMA UndoNothing ==
  ASSUME NEW x \in Indexes, NEW t \in Tree(x), NEW k \in Keys(x), Reach(x, k) = 0
  PROVE  Made(x, t, k) = t /\ Undo(Made(x, t, k), k, Reach(x, k)) = t
<1>1. /\ t = [mids |-> t.mids, ent |-> t.ent]
      /\ t.mids \in SUBSET Seq(Vals) /\ t.ent \in [Entry(x) -> Int]
  BY TreeRecord
<1>2. Made(x, t, k) = t
  BY <1>1 DEF Made
<1>3. {l \in 0..0 - 1 : Cardinality(Kids(t.mids, Path(k, l))) = 1} = {}
  OBVIOUS
<1>4. Undo(t, k, 0) = Cut(t, {})
  BY <1>3 DEF Undo
<1>5. Cut(t, {}) = [mids |-> t.mids, ent |-> t.ent]
  BY <1>1 DEF Cut
<1> QED BY <1>1, <1>2, <1>4, <1>5

(* iAdd: a key that fits gets its entry, unless a UNIQUE index refuses it,  *)
(* and then nothing has changed.                                            *)
LEMMA AddTight ==
  ASSUME NEW x \in Indexes, NEW t, Tight(x, t), NEW k \in Keys(x), NEW pk \in Pk, Fit(x, k)
  PROVE  /\ AddKey(x, t, pk, k).ok <=> ~(Uniq(x) /\ Filled(k) /\ Owners(t, k) # {})
         /\ ~AddKey(x, t, pk, k).ok => AddKey(x, t, pk, k).t = t
         /\ AddKey(x, t, pk, k).ok =>
               /\ Tight(x, AddKey(x, t, pk, k).t)
               /\ AddKey(x, t, pk, k).t.ent =
                     IF Has(x, k) THEN [t.ent EXCEPT ![<<k, pk>>] = @ + 1] ELSE t.ent
<1> DEFINE r == AddKey(x, t, pk, k)
<1>0. t \in Tree(x) /\ ~Trig(x) /\ Width(x) \in Nat \ {0} /\ (Uniq(x) => Width(x) = 1 /\ Depth(x) = 0)
  BY DefFacts DEF Tight, Fit, Depth
<1>1. CASE ~Filled(k)
  <2>1. Reach(x, k) = 0
    BY <1>1, ReachIs
  <2>2. r = [ok |-> TRUE, t |-> t]
    BY <1>0, <1>1, <2>1, UndoNothing DEF AddKey
  <2> QED BY <1>1, <2>2 DEF Has
<1>2. CASE Filled(k) /\ Uniq(x) /\ Owners(t, k) # {}
  <2>1. Reach(x, k) = 0
    BY <1>0, <1>2, ReachIs
  <2>2. r = [ok |-> FALSE, t |-> t]
    BY <1>0, <1>2, <2>1, UndoNothing DEF AddKey
  <2> QED BY <1>2, <2>2
<1>3. CASE Filled(k) /\ ~(Uniq(x) /\ Owners(t, k) # {}) /\ ~Keyable(x, k)
  <2>1. Reach(x, k) = 0
    BY <1>0, <1>3, ReachIs DEF Keyable
  <2>2. r = [ok |-> TRUE, t |-> t]
    BY <1>0, <1>3, <2>1, UndoNothing DEF AddKey
  <2> QED BY <1>3, <2>2 DEF Has
<1>4. CASE Filled(k) /\ ~(Uniq(x) /\ Owners(t, k) # {}) /\ Keyable(x, k)
  <2> DEFINE m == Made(x, t, k)
             u == Bump(m, k, pk, 1)
  <2>1. /\ t = [mids |-> t.mids, ent |-> t.ent]
        /\ t.mids \in SUBSET Seq(Vals) /\ t.ent \in [Entry(x) -> Int]
    BY <1>0, TreeRecord
  <2>2. m = [mids |-> t.mids \cup Way(x, k), ent |-> t.ent]
    BY <1>4, ReachIs DEF Made, Way
  <2>3. Way(x, k) \subseteq Seq(Vals)
    BY PathFacts, DefFacts DEF Way
  <2>4. m \in Tree(x)
    BY <2>1, <2>2, <2>3 DEF Tree
  <2> HIDE DEF m
  <2>5. /\ u = [mids |-> m.mids, ent |-> [m.ent EXCEPT ![<<k, pk>>] = @ + 1]]
        /\ u \in Tree(x)
        /\ <<k, pk>> \in Entry(x)
    BY <2>4, BumpIs
  <2> HIDE DEF u
  <2>6. /\ u.mids = t.mids \cup Way(x, k) /\ u.ent = [t.ent EXCEPT ![<<k, pk>>] = @ + 1]
    BY <2>2, <2>5
  <2>7. \A e \in Entry(x) : t.ent[e] \in Int /\ t.ent[e] >= 0
                            /\ u.ent[e] = IF e = <<k, pk>> THEN t.ent[e] + 1 ELSE t.ent[e]
    BY <2>1, <2>5, <2>6 DEF Tight
  <2>8. u.mids = Ways(x, u.ent)
    <3>1. \A e \in Entry(x) : u.ent[e] > 0 <=> t.ent[e] > 0 \/ e = <<k, pk>>
      BY <2>7
    <3>2. Ways(x, u.ent) = Ways(x, t.ent) \cup Way(x, k)
      BY <2>5, <3>1 DEF Ways, Way
    <3> QED BY <2>6, <3>2 DEF Tight
  <2>9. Tight(x, u)
    BY <2>5, <2>7, <2>8 DEF Tight
  <2>10. r = [ok |-> TRUE, t |-> u]
    BY <1>0, <1>4 DEF AddKey, u, m
  <2> QED BY <1>4, <2>6, <2>9, <2>10 DEF Has
<1> QED BY <1>1, <1>2, <1>3, <1>4

(* iRem: a key that fits and is there loses its entry, with no fault. *)
LEMMA DelTight ==
  ASSUME NEW x \in Indexes, NEW t, Tight(x, t), NEW k \in Keys(x), NEW pk \in Pk, Fit(x, k),
         Has(x, k) => /\ t.ent[<<k, pk>>] > 0
                      /\ Uniq(x) => \A p \in Pk : t.ent[<<k, p>>] > 0 => p = pk
  PROVE  /\ DelKey(x, t, pk, k).bad = FALSE
         /\ Tight(x, DelKey(x, t, pk, k).t)
         /\ DelKey(x, t, pk, k).t.ent =
               IF Has(x, k) THEN [t.ent EXCEPT ![<<k, pk>>] = @ - 1] ELSE t.ent
<1> DEFINE r == DelKey(x, t, pk, k)
<1>0. /\ t \in Tree(x) /\ ~Trig(x) /\ Width(x) \in Nat \ {0}
      /\ Uniq(x) => Width(x) = 1 /\ Depth(x) = 0
      /\ ~Uniq(x) => Depth(x) = Width(x)
  BY DefFacts DEF Tight, Fit, Depth
<1>1. /\ t = [mids |-> t.mids, ent |-> t.ent]
      /\ t.mids \in SUBSET Seq(Vals) /\ t.ent \in [Entry(x) -> Int]
  BY <1>0, TreeRecord
<1>2. CASE ~Filled(k)
  <2>1. Reach(x, k) = 0 /\ Width(x) = 1
    BY <1>2, ReachIs
  <2>2. Walked(x, k, Reach(x, k)) = {}
    BY <1>0, <2>1 DEF Walked
  <2>3. CASE ~Uniq(x)
    <3>1. r = [bad |-> FALSE, t |-> t]
      BY <1>0, <2>1, <2>2, <2>3 DEF DelKey
    <3> QED BY <1>2, <3>1 DEF Has
  <2>4. CASE Uniq(x)
    <3>1. ~Keyable(x, k)
      BY <1>2, <2>1, <2>4 DEF Keyable, Filled, Keys
    <3>2. r = [bad |-> FALSE, t |-> TrickleUp(x, t, k)]
      BY <1>0, <2>1, <2>2, <2>4, <3>1 DEF DelKey
    <3>3. Tight(x, TrickleUp(x, t, k)) /\ TrickleUp(x, t, k).ent = t.ent
      BY <1>0, TrickleTight DEF Tight
    <3> QED BY <1>2, <3>2, <3>3 DEF Has
  <2> QED BY <2>3, <2>4, DefFacts
<1>3. CASE Filled(k) /\ ~Keyable(x, k)
  <2>1. Reach(x, k) = 0 /\ Depth(x) = 0
    BY <1>0, <1>3, ReachIs DEF Keyable
  <2>2. Walked(x, k, Reach(x, k)) = {}
    BY <2>1 DEF Walked
  <2>3. r = [bad |-> FALSE, t |-> TrickleUp(x, t, k)]
    BY <1>0, <1>3, <2>1, <2>2 DEF DelKey
  <2>4. Tight(x, TrickleUp(x, t, k)) /\ TrickleUp(x, t, k).ent = t.ent
    BY <1>0, TrickleTight DEF Tight
  <2> QED BY <1>3, <2>3, <2>4 DEF Has
<1>4. CASE Has(x, k)
  <2> DEFINE u == Bump(t, k, pk, -1)
  <2>1. Reach(x, k) = Depth(x)
    BY <1>4, ReachIs DEF Has
  <2>2. <<k, pk>> \in Entry(x) /\ t.ent[<<k, pk>>] > 0
    BY <1>4, DefFacts
  <2>3. Walked(x, k, Reach(x, k)) = Way(x, k)
    BY <2>1 DEF Walked, Way
  <2>4. Way(x, k) \subseteq t.mids
    BY <2>2 DEF Tight, Ways, Way
  <2>5. Victims(x, t, pk, k) = {pk}
    BY <1>4, <2>2 DEF Victims, Owners
  <2>6. r = [bad |-> FALSE, t |-> TrickleUp(x, u, k)]
    <3>1. (CHOOSE p \in Victims(x, t, pk, k) : TRUE) = pk
      BY <2>5
    <3>2. Victims(x, t, pk, k) # {}
      BY <2>5
    <3> QED BY <1>0, <1>4, <2>1, <2>3, <2>4, <3>1, <3>2 DEF DelKey, Has
  <2>7. /\ u = [mids |-> t.mids, ent |-> [t.ent EXCEPT ![<<k, pk>>] = @ + -1]]
        /\ u \in Tree(x)
    BY <1>0, BumpIs
  <2> HIDE DEF u
  <2>8. /\ u.mids = t.mids
        /\ \A e \in Entry(x) : t.ent[e] \in Int /\ t.ent[e] >= 0
                            /\ u.ent[e] = IF e = <<k, pk>> THEN t.ent[e] - 1 ELSE t.ent[e]
    BY <1>1, <2>2, <2>7 DEF Tight
  <2>9. \A e \in Entry(x) : u.ent[e] >= 0 /\ (u.ent[e] > 0 => t.ent[e] > 0)
                            /\ (t.ent[e] > 0 => u.ent[e] > 0 \/ e = <<k, pk>>)
    BY <2>2, <2>8
  <2>10. t.mids \subseteq Ways(x, u.ent) \cup Way(x, k)
    BY <2>9 DEF Tight, Ways, Way
  <2>11. Ways(x, u.ent) \subseteq t.mids
    BY <2>9 DEF Tight, Ways
  <2>12. Tight(x, TrickleUp(x, u, k)) /\ TrickleUp(x, u, k).ent = u.ent
    BY <2>7, <2>8, <2>9, <2>10, <2>11, TrickleTight
  <2>13. u.ent = [t.ent EXCEPT ![<<k, pk>>] = @ - 1]
    BY <1>1, <2>2, <2>7
  <2> QED BY <1>4, <2>6, <2>12, <2>13
<1> QED BY <1>2, <1>3, <1>4 DEF Has

(* The entries of an index determine its trees. *)
LEMMA TightEqual ==
  ASSUME NEW x, NEW t, NEW u, Tight(x, t), Tight(x, u), t.ent = u.ent
  PROVE  t = u
BY TreeRecord DEF Tight

----------------------------------------------------------------------------
(* An index and the rows of a table. *)

Table(R) == /\ R = [p \in DOMAIN R |-> R[p]]
            /\ DOMAIN R \subseteq Pk
            /\ \A p \in DOMAIN R : R[p] \in Row

(* A row whose key fits: what SoundUse makes sure of. *)
FitRow(x, row) == Fit(x, Key(x, row)) /\ (Uniq(x) => Key(x, row)[1] # 0)

Listed(R, x, e) == e[2] \in DOMAIN R /\ Key(x, R[e[2]]) = e[1]

Exact(x, t, R) ==
    /\ Tight(x, t)
    /\ \A e \in Entry(x) : t.ent[e] = IF Listed(R, x, e) /\ Has(x, e[1]) THEN 1 ELSE 0

Distinct(x, R) ==
    Uniq(x) => \A p, q \in DOMAIN R : Key(x, R[p]) = Key(x, R[q]) /\ Filled(Key(x, R[p])) => p = q

(* What a UNIQUE index asks of a new row. *)
Accepts(x, t, row) ==
    ~(Uniq(x) /\ Filled(Key(x, row)) /\ Owners(t, Key(x, row)) # {})

Keeps(x, t, R) ==
    /\ Exact(x, t, R) /\ Distinct(x, R)
    /\ \A p \in DOMAIN R : FitRow(x, R[p])

LEMMA WithRowTable ==
  ASSUME NEW R, Table(R), NEW pk \in Pk, NEW row \in Row
  PROVE  /\ Table(WithRow(R, pk, row))
         /\ DOMAIN WithRow(R, pk, row) = DOMAIN R \cup {pk}
         /\ \A p \in DOMAIN R \cup {pk} : WithRow(R, pk, row)[p] = IF p = pk THEN row ELSE R[p]
BY DEF Table, WithRow

LEMMA OverRowTable ==
  ASSUME NEW R, Table(R), NEW pk \in DOMAIN R, NEW row \in Row
  PROVE  /\ pk \in Pk
         /\ Table(WithRow(R, pk, row))
         /\ DOMAIN WithRow(R, pk, row) = DOMAIN R
         /\ \A p \in DOMAIN R : WithRow(R, pk, row)[p] = IF p = pk THEN row ELSE R[p]
<1>1. pk \in Pk /\ DOMAIN R \cup {pk} = DOMAIN R
  BY DEF Table
<1> QED BY <1>1, WithRowTable

LEMMA WithoutRowTable ==
  ASSUME NEW R, Table(R), NEW pk \in Pk
  PROVE  /\ Table(WithoutRow(R, pk))
         /\ DOMAIN WithoutRow(R, pk) = DOMAIN R \ {pk}
         /\ \A p \in DOMAIN R \ {pk} : WithoutRow(R, pk)[p] = R[p]
BY DEF Table, WithoutRow

(* A UNIQUE index of one column can hold every value but 0. *)
LEMMA FilledHas ==
  ASSUME NEW x \in Indexes, NEW row \in Row, FitRow(x, row), Filled(Key(x, row))
  PROVE  Has(x, Key(x, row))
<1>1. Key(x, row) \in Keys(x) /\ Width(x) \in Nat \ {0}
  BY KeyType, DefFacts
<1>2. Uniq(x) => Width(x) = 1
  BY <1>1 DEF FitRow, Fit
<1>3. Uniq(x) => Key(x, row)[1] # Empty
  BY <1>1, <1>2 DEF Filled, Keys
<1> QED BY <1>2, <1>3 DEF FitRow, Has, Keyable

LEMMA AcceptsIs ==
  ASSUME NEW x \in Indexes, NEW t, Tight(x, t), NEW pk \in Pk, NEW row \in Row, FitRow(x, row)
  PROVE  AddToIndex(x, t, pk, row).ok <=> Accepts(x, t, row)
<1>1. Key(x, row) \in Keys(x) /\ Fit(x, Key(x, row))
  BY KeyType DEF FitRow
<1> QED BY <1>1, AddTight DEF AddToIndex, Accepts

(* The tree that took a row has one entry more. *)
LEMMA AddEntry ==
  ASSUME NEW x \in Indexes, NEW t, Tight(x, t), NEW pk \in Pk, NEW row \in Row, FitRow(x, row),
         Accepts(x, t, row)
  PROVE  LET k == Key(x, row)
             u == AddToIndex(x, t, pk, row).t
         IN  /\ Tight(x, u)
             /\ u.ent = IF Has(x, k) THEN [t.ent EXCEPT ![<<k, pk>>] = @ + 1] ELSE t.ent
             /\ ~(Uniq(x) /\ Filled(k) /\ Owners(t, k) # {})
<1> DEFINE k == Key(x, row)
<1>1. k \in Keys(x) /\ Fit(x, k)
  BY KeyType DEF FitRow
<1>2. ~(Uniq(x) /\ Filled(k) /\ Owners(t, k) # {})
  BY DEF Accepts
<1>3. AddToIndex(x, t, pk, row) = AddKey(x, t, pk, k)
  BY DEF AddToIndex
<1> HIDE DEF k
<1>4. /\ Tight(x, AddKey(x, t, pk, k).t)
      /\ AddKey(x, t, pk, k).t.ent = IF Has(x, k) THEN [t.ent EXCEPT ![<<k, pk>>] = @ + 1] ELSE t.ent
  BY <1>1, <1>2, AddTight
<1> QED BY <1>2, <1>3, <1>4 DEF k

(* A new row that an index takes. *)
LEMMA AddRow ==
  ASSUME NEW x \in Indexes, NEW t, NEW R, Table(R), Keeps(x, t, R),
         NEW pk \in Pk, pk \notin DOMAIN R, NEW row \in Row, FitRow(x, row),
         Accepts(x, t, row)
  PROVE  Keeps(x, AddToIndex(x, t, pk, row).t, WithRow(R, pk, row))
<1> DEFINE k == Key(x, row)
           u == AddToIndex(x, t, pk, row).t
           S == WithRow(R, pk, row)
<1>1. k \in Keys(x) /\ <<k, pk>> \in Entry(x)
  BY KeyType, DefFacts
<1>2. Tight(x, t) /\ t.ent \in [Entry(x) -> Int]
  BY DEF Keeps, Exact, Tight, Tree
<1>3. /\ Tight(x, u)
      /\ u.ent = IF Has(x, k) THEN [t.ent EXCEPT ![<<k, pk>>] = @ + 1] ELSE t.ent
      /\ ~(Uniq(x) /\ Filled(k) /\ Owners(t, k) # {})
  BY <1>2, AddEntry
<1> HIDE DEF u
<1>4. /\ DOMAIN S = DOMAIN R \cup {pk}
      /\ \A p \in DOMAIN R \cup {pk} : S[p] = IF p = pk THEN row ELSE R[p]
  BY WithRowTable
<1> HIDE DEF S
<1>5. ASSUME NEW e \in Entry(x)
      PROVE  u.ent[e] = IF Listed(S, x, e) /\ Has(x, e[1]) THEN 1 ELSE 0
  <2>1. e = <<e[1], e[2]>> /\ e[2] \in Pk
    BY DefFacts
  <2>2. t.ent[e] = IF Listed(R, x, e) /\ Has(x, e[1]) THEN 1 ELSE 0
    BY DEF Keeps, Exact
  <2>3. CASE e[2] # pk
    <3>1. u.ent[e] = t.ent[e]
      BY <1>1, <1>2, <1>3, <2>3
    <3>2. Listed(S, x, e) <=> Listed(R, x, e)
      BY <1>4, <2>3 DEF Listed
    <3> QED BY <2>2, <3>1, <3>2
  <2>4. CASE e[2] = pk
    <3>1. t.ent[e] = 0
      BY <2>2, <2>4 DEF Listed
    <3>2. Listed(S, x, e) <=> e = <<k, pk>>
      BY <1>4, <2>1, <2>4 DEF Listed
    <3>3. u.ent[e] = IF e = <<k, pk>> /\ Has(x, k) THEN 1 ELSE 0
      BY <1>1, <1>2, <1>3, <3>1
    <3> QED BY <3>2, <3>3
  <2> QED BY <2>3, <2>4
<1>6. Distinct(x, S)
  <2>1. SUFFICES ASSUME Uniq(x), NEW q \in DOMAIN R, Key(x, R[q]) = k, Filled(k)
                 PROVE  FALSE
    BY <1>4 DEF Distinct, Keeps
  <2>2. Has(x, k)
    BY <2>1, FilledHas
  <2>3. <<k, q>> \in Entry(x) /\ q \in Pk
    BY <1>1, DefFacts DEF Table
  <2>4. t.ent[<<k, q>>] = 1
    BY <2>1, <2>2, <2>3 DEF Keeps, Exact, Listed
  <2> QED BY <1>3, <2>1, <2>3, <2>4 DEF Owners
<1>7. \A p \in DOMAIN S : FitRow(x, S[p])
  BY <1>4 DEF Keeps
<1> QED BY <1>3, <1>5, <1>6, <1>7 DEF Keeps, Exact, u, S

(* A row that goes. *)
LEMMA DeleteRowOf ==
  ASSUME NEW x \in Indexes, NEW t, NEW R, Table(R), Keeps(x, t, R), NEW pk \in DOMAIN R
  PROVE  /\ DelFromIndex(x, t, pk, R[pk]).bad = FALSE
         /\ Keeps(x, DelFromIndex(x, t, pk, R[pk]).t, WithoutRow(R, pk))
<1> DEFINE k == Key(x, R[pk])
           u == DelFromIndex(x, t, pk, R[pk]).t
           S == WithoutRow(R, pk)
<1>1. k \in Keys(x) /\ <<k, pk>> \in Entry(x) /\ pk \in Pk /\ R[pk] \in Row
  BY KeyType, DefFacts DEF Table
<1>2. Tight(x, t) /\ t.ent \in [Entry(x) -> Int]
  BY DEF Keeps, Exact, Tight, Tree
<1>3. ASSUME Has(x, k)
      PROVE  /\ t.ent[<<k, pk>>] > 0
             /\ Uniq(x) => \A p \in Pk : t.ent[<<k, p>>] > 0 => p = pk
  <2>1. t.ent[<<k, pk>>] = 1
    BY <1>1, <1>3 DEF Keeps, Exact, Listed
  <2>2. ASSUME Uniq(x), NEW p \in Pk, t.ent[<<k, p>>] > 0 PROVE p = pk
    <3>1. <<k, p>> \in Entry(x)
      BY <1>1, DefFacts
    <3>2. p \in DOMAIN R /\ Key(x, R[p]) = k
      BY <2>2, <3>1 DEF Keeps, Exact, Listed
    <3> QED BY <1>3, <2>2, <3>2 DEF Keeps, Distinct, Has
  <2> QED BY <2>1, <2>2
<1>4. Fit(x, k)
  BY DEF Keeps, FitRow
<1>5. /\ DelFromIndex(x, t, pk, R[pk]).bad = FALSE
      /\ Tight(x, u)
      /\ u.ent = IF Has(x, k) THEN [t.ent EXCEPT ![<<k, pk>>] = @ - 1] ELSE t.ent
  BY <1>1, <1>2, <1>3, <1>4, DelTight DEF DelFromIndex
<1> HIDE DEF u
<1>6. /\ DOMAIN S = DOMAIN R \ {pk}
      /\ \A p \in DOMAIN R \ {pk} : S[p] = R[p]
  BY <1>1, WithoutRowTable
<1> HIDE DEF S
<1>7. ASSUME NEW e \in Entry(x)
      PROVE  u.ent[e] = IF Listed(S, x, e) /\ Has(x, e[1]) THEN 1 ELSE 0
  <2>1. e = <<e[1], e[2]>> /\ e[2] \in Pk
    BY DefFacts
  <2>2. t.ent[e] = IF Listed(R, x, e) /\ Has(x, e[1]) THEN 1 ELSE 0
    BY DEF Keeps, Exact
  <2>3. CASE e[2] # pk
    <3>1. u.ent[e] = t.ent[e]
      BY <1>1, <1>2, <1>5, <2>3
    <3>2. Listed(S, x, e) <=> Listed(R, x, e)
      BY <1>6, <2>3 DEF Listed
    <3> QED BY <2>2, <3>1, <3>2
  <2>4. CASE e[2] = pk
    <3>1. ~Listed(S, x, e)
      BY <1>6, <2>4 DEF Listed
    <3>2. Listed(R, x, e) <=> e = <<k, pk>>
      BY <2>1, <2>4 DEF Listed
    <3>3. u.ent[e] = 0
      BY <1>1, <1>2, <1>5, <2>2, <3>2
    <3> QED BY <3>1, <3>3
  <2> QED BY <2>3, <2>4
<1>8. Distinct(x, S) /\ \A p \in DOMAIN S : FitRow(x, S[p])
  BY <1>6 DEF Keeps, Distinct
<1> QED BY <1>5, <1>7, <1>8 DEF Keeps, Exact, u, S

(* What a row that is added and taken back leaves. *)
LEMMA AddThenDelete ==
  ASSUME NEW x \in Indexes, NEW t, Tight(x, t), NEW pk \in Pk, NEW row \in Row, FitRow(x, row),
         Accepts(x, t, row)
  PROVE  /\ DelFromIndex(x, AddToIndex(x, t, pk, row).t, pk, row).bad = FALSE
         /\ Tight(x, DelFromIndex(x, AddToIndex(x, t, pk, row).t, pk, row).t)
         /\ DelFromIndex(x, AddToIndex(x, t, pk, row).t, pk, row).t.ent = t.ent
<1> DEFINE k == Key(x, row)
           u == AddToIndex(x, t, pk, row).t
           v == DelFromIndex(x, u, pk, row).t
<1>1. k \in Keys(x) /\ <<k, pk>> \in Entry(x) /\ Fit(x, k)
  BY KeyType, DefFacts DEF FitRow
<1>2. t.ent \in [Entry(x) -> Int] /\ \A e \in Entry(x) : t.ent[e] >= 0
  BY DEF Tight, Tree
<1>3. /\ Tight(x, u)
      /\ u.ent = IF Has(x, k) THEN [t.ent EXCEPT ![<<k, pk>>] = @ + 1] ELSE t.ent
      /\ ~(Uniq(x) /\ Filled(k) /\ Owners(t, k) # {})
  BY AddEntry
<1> HIDE DEF u
<1>4. ASSUME Has(x, k)
      PROVE  /\ u.ent[<<k, pk>>] > 0
             /\ Uniq(x) => \A p \in Pk : u.ent[<<k, p>>] > 0 => p = pk
  <2>1. u.ent[<<k, pk>>] = t.ent[<<k, pk>>] + 1 /\ t.ent[<<k, pk>>] \in Int /\ t.ent[<<k, pk>>] >= 0
    BY <1>1, <1>2, <1>3, <1>4
  <2>2. ASSUME Uniq(x), NEW p \in Pk, u.ent[<<k, p>>] > 0, p # pk PROVE FALSE
    <3>1. <<k, p>> \in Entry(x)
      BY <1>1, DefFacts
    <3>2. t.ent[<<k, p>>] > 0
      BY <1>1, <1>2, <1>3, <1>4, <2>2, <3>1
    <3> QED BY <1>3, <1>4, <2>2, <3>2 DEF Owners, Has
  <2> QED BY <2>1, <2>2
<1>5. /\ DelFromIndex(x, u, pk, row).bad = FALSE
      /\ Tight(x, v)
      /\ v.ent = IF Has(x, k) THEN [u.ent EXCEPT ![<<k, pk>>] = @ - 1] ELSE u.ent
  BY <1>1, <1>3, <1>4, DelTight DEF DelFromIndex
<1> HIDE DEF v
<1>6. v.ent = t.ent
  <2>1. v.ent \in [Entry(x) -> Int]
    BY <1>5 DEF Tight, Tree
  <2>2. \A e \in Entry(x) : v.ent[e] = t.ent[e]
    BY <1>1, <1>2, <1>3, <1>5
  <2> QED BY <1>2, <2>1, <2>2
<1> QED BY <1>5, <1>6 DEF u, v

(* A row that is written over: the new entry is added, then the old goes.   *)
LEMMA SwapRow ==
  ASSUME NEW x \in Indexes, NEW t, NEW R, Table(R), Keeps(x, t, R),
         NEW pk \in DOMAIN R, NEW row \in Row, FitRow(x, row),
         Accepts(x, t, row)
  PROVE  /\ DelFromIndex(x, AddToIndex(x, t, pk, row).t, pk, R[pk]).bad = FALSE
         /\ Keeps(x, DelFromIndex(x, AddToIndex(x, t, pk, row).t, pk, R[pk]).t,
                  WithRow(R, pk, row))
<1> DEFINE k == Key(x, row)
           l == Key(x, R[pk])
           u == AddToIndex(x, t, pk, row).t
           v == DelFromIndex(x, u, pk, R[pk]).t
           S == WithRow(R, pk, row)
<1>1. /\ pk \in Pk /\ R[pk] \in Row
      /\ k \in Keys(x) /\ <<k, pk>> \in Entry(x) /\ Fit(x, k)
      /\ l \in Keys(x) /\ <<l, pk>> \in Entry(x) /\ Fit(x, l)
  BY KeyType, DefFacts DEF FitRow, Table, Keeps
<1>2. Tight(x, t) /\ t.ent \in [Entry(x) -> Int] /\ \A e \in Entry(x) : t.ent[e] >= 0
  BY DEF Keeps, Exact, Tight, Tree
<1>3. /\ Tight(x, u)
      /\ u.ent = IF Has(x, k) THEN [t.ent EXCEPT ![<<k, pk>>] = @ + 1] ELSE t.ent
      /\ ~(Uniq(x) /\ Filled(k) /\ Owners(t, k) # {})
  BY <1>1, <1>2, AddEntry
<1> HIDE DEF u
<1>4. \A e \in Entry(x) : t.ent[e] = IF Listed(R, x, e) /\ Has(x, e[1]) THEN 1 ELSE 0
  BY DEF Keeps, Exact
<1>5. /\ u.ent \in [Entry(x) -> Int]
      /\ \A e \in Entry(x) : u.ent[e] = IF Has(x, k) /\ e = <<k, pk>> THEN t.ent[e] + 1 ELSE t.ent[e]
  BY <1>1, <1>2, <1>3 DEF Tight, Tree
<1>6. ASSUME Has(x, l)
      PROVE  /\ u.ent[<<l, pk>>] > 0
             /\ Uniq(x) => \A p \in Pk : u.ent[<<l, p>>] > 0 => p = pk
  <2>1. t.ent[<<l, pk>>] = 1
    BY <1>1, <1>4, <1>6 DEF Listed
  <2>2. u.ent[<<l, pk>>] > 0
    BY <1>1, <1>5, <2>1
  <2>3. ASSUME Uniq(x), NEW p \in Pk, u.ent[<<l, p>>] > 0, p # pk PROVE FALSE
    <3>1. <<l, p>> \in Entry(x)
      BY <1>1, DefFacts
    <3>2. t.ent[<<l, p>>] > 0
      BY <1>5, <2>3, <3>1
    <3>3. p \in DOMAIN R /\ Key(x, R[p]) = l
      BY <1>4, <3>1, <3>2 DEF Listed
    <3> QED BY <1>6, <2>3, <3>3 DEF Keeps, Distinct, Has
  <2> QED BY <2>2, <2>3
<1>7. /\ DelFromIndex(x, u, pk, R[pk]).bad = FALSE
      /\ Tight(x, v)
      /\ v.ent = IF Has(x, l) THEN [u.ent EXCEPT ![<<l, pk>>] = @ - 1] ELSE u.ent
  BY <1>1, <1>3, <1>6, DelTight DEF DelFromIndex
<1> HIDE DEF v
<1>8. /\ DOMAIN S = DOMAIN R
      /\ \A p \in DOMAIN R : S[p] = IF p = pk THEN row ELSE R[p]
  BY OverRowTable
<1> HIDE DEF S
<1>9. ASSUME NEW e \in Entry(x)
      PROVE  v.ent[e] = IF Listed(S, x, e) /\ Has(x, e[1]) THEN 1 ELSE 0
  <2>1. e = <<e[1], e[2]>> /\ e[2] \in Pk
    BY DefFacts
  <2>2. v.ent[e] = IF Has(x, l) /\ e = <<l, pk>> THEN u.ent[e] - 1 ELSE u.ent[e]
    BY <1>1, <1>5, <1>7
  <2>3. CASE e[2] # pk
    <3>1. v.ent[e] = t.ent[e]
      BY <1>5, <2>2, <2>3
    <3>2. Listed(S, x, e) <=> Listed(R, x, e)
      BY <1>8, <2>3 DEF Listed
    <3> QED BY <1>4, <3>1, <3>2
  <2>4. CASE e[2] = pk
    <3>1. Listed(S, x, e) <=> e = <<k, pk>>
      BY <1>8, <2>1, <2>4 DEF Listed
    <3>2. Listed(R, x, e) <=> e = <<l, pk>>
      BY <2>1, <2>4 DEF Listed
    <3>3. v.ent[e] = IF e = <<k, pk>> /\ Has(x, k) THEN 1 ELSE 0
      BY <1>4, <1>5, <2>2, <3>2
    <3> QED BY <3>1, <3>3
  <2> QED BY <2>3, <2>4
<1>10. Distinct(x, S)
  <2>1. SUFFICES ASSUME Uniq(x), NEW q \in DOMAIN R, q # pk, Key(x, R[q]) = k, Filled(k)
                 PROVE  FALSE
    BY <1>8 DEF Distinct, Keeps
  <2>2. Has(x, k)
    BY <2>1, FilledHas
  <2>3. <<k, q>> \in Entry(x) /\ q \in Pk
    BY <1>1, DefFacts DEF Table
  <2>4. t.ent[<<k, q>>] = 1
    BY <1>4, <2>1, <2>2, <2>3 DEF Listed
  <2> QED BY <1>3, <2>1, <2>3, <2>4 DEF Owners
<1>11. \A p \in DOMAIN S : FitRow(x, S[p])
  BY <1>8 DEF Keeps
<1> QED BY <1>7, <1>9, <1>10, <1>11 DEF Keeps, Exact, u, v, S

(* A row that changes in other columns than those of the index. *)
LEMMA SameKeyRow ==
  ASSUME NEW x \in Indexes, NEW t, NEW R, Table(R), Keeps(x, t, R),
         NEW pk \in DOMAIN R, NEW row \in Row, Key(x, row) = Key(x, R[pk])
  PROVE  Keeps(x, t, WithRow(R, pk, row))
<1> DEFINE S == WithRow(R, pk, row)
<1>1. /\ DOMAIN S = DOMAIN R
      /\ \A p \in DOMAIN R : S[p] = IF p = pk THEN row ELSE R[p]
  BY OverRowTable
<1> HIDE DEF S
<1>2. \A p \in DOMAIN R : Key(x, S[p]) = Key(x, R[p])
  BY <1>1
<1>3. \A e \in Entry(x) : Listed(S, x, e) <=> Listed(R, x, e)
  BY <1>1, <1>2 DEF Listed
<1>4. Distinct(x, S) /\ \A p \in DOMAIN S : FitRow(x, S[p])
  BY <1>1, <1>2 DEF Keeps, Distinct, FitRow
<1> QED BY <1>3, <1>4 DEF Keeps, Exact, S
=============================================================================
