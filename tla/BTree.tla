------------------------------- MODULE BTree -------------------------------
(***************************************************************************)
(* The B-tree of bt_code.c with its dirty ranges.  Rows of a DIRTY table   *)
(* may be evicted: the key leaves the tree and the key before it counts    *)
(* one more evicted row on its right (its DR).  Every node also keeps a    *)
(* scion, the number of rows at and below it, which OFFSET queries use.    *)
(*                                                                         *)
(* A node is a record: leaf, its keys, its dirty stream dr (one slot for   *)
(* each of the 2t places of the array, those behind the last key included, *)
(* because the code leaves values there), its kids and its scion.  Indices *)
(* count from 1.  A stream is allocated exactly when one of its slots is   *)
(* not 0 (release_dirty_stream), so the model keeps no flag for it.        *)
(* The operators are recursive: this module is for TLC.                    *)
(***************************************************************************)
EXTENDS Integers, SequencesExt, FiniteSetsExt

CONSTANTS
    T,        \* minimum degree, btr->t (4 in the build: bt_create, TRANS_ONE)
    Inode,    \* the tree is an index node (INODE), else a table's data
    Tables    \* the tables the run starts from, records with the fields
              \*   maxKey   bound: primary keys are 1 .. maxKey
              \*   load     bound: the rows 1 .. load are there at the start
              \*   autoInc  INSERT takes the next key (all a DIRTY table allows)
              \*   ops      the operations tried on it, a subset of AllOps

AllOps == {"insert", "delete", "evict"}

ASSUME BTreeAssumption ==
    /\ T \in Nat \ {0, 1} /\ Inode \in BOOLEAN
    /\ \A m \in Tables : /\ m.maxKey \in Nat /\ m.load \in 0..m.maxKey
                         /\ m.autoInc \in BOOLEAN /\ m.ops \subseteq AllOps

VARIABLES
    bt,       \* the tree: root, dirtyLeft, numkeys, ghosts, fault
    live,     \* history: the rows that were inserted and neither deleted nor evicted
    evicted,  \* history: the rows that were evicted
    ainc,     \* the last auto-increment key
    table     \* the member of Tables this behaviour is about

vars == <<bt, live, evicted, ainc, table>>

----------------------------------------------------------------------------
(* Nodes and dirty streams *)

NoDR == [i \in 1..2 * T |-> 0]
NewNode(leaf) == [leaf |-> leaf, key |-> <<>>, dr |-> NoDR, kid |-> <<>>, sc |-> 0]
N(x) == Len(x.key)
Dirty(x) == \E i \in 1..2 * T : x.dr[i] # 0
DrSum(s) == FoldLeft(LAMBDA a, b : a + b, 0, s)
ScionRange(x) == N(x) + DrSum(SubSeq(x.dr, 1, N(x)))
KidScions(kids) == FoldLeft(LAMBDA a, b : a + b.sc, 0, kids)

SetDR(x, i, d) == IF d = 0 THEN x ELSE [x EXCEPT !.dr[i] = d]
ZeroDR(x, i) == [x EXCEPT !.dr[i] = 0]
OverwriteDR(x, i, d) == [x EXCEPT !.dr[i] = d]
IncrDR(x, i, d) == [x EXCEPT !.dr[i] = @ + d]

(* The place of k: the number of keys that are at most k (findkindex + 1). *)
FindKIndex(x, k) == Cardinality({i \in 1..N(x) : x.key[i] <= k})
Hit(x, k) == FindKIndex(x, k) > 0 /\ x.key[FindKIndex(x, k)] = k

(* Key and dirty range i leave the arrays, what is behind them moves down.  *)
(* The range of a key that was the last one stays where it is, behind the   *)
(* keys: mvXKeys has nothing to move, and trimBTN clears the next slot.     *)
DropKey(x, i, drt) ==
    LET n == N(x)
        moved == IF i = n THEN x.dr
                 ELSE SubSeq(x.dr, 1, i - 1) \o SubSeq(x.dr, i + 1, n)
                      \o <<0>> \o SubSeq(x.dr, n + 1, 2 * T)
    IN  [x EXCEPT !.key = RemoveAt(x.key, i),
                  !.dr = IF drt THEN [moved EXCEPT ![n + 1] = 0] ELSE moved]

(* k and its range d enter at place i. *)
PutKey(x, i, k, d) ==
    [x EXCEPT !.key = InsertAt(@, i, k),
              !.dr = SubSeq(@, 1, i - 1) \o <<d>> \o SubSeq(@, i, N(x))
                     \o SubSeq(@, N(x) + 2, 2 * T)]

(* setBTKey with a new last key: an evict (drt) carries the range d along,  *)
(* a delete does not and leaves whatever the slot held.                     *)
AppendKey(x, k, d, drt) ==
    [x EXCEPT !.key = Append(@, k), !.dr[N(x) + 1] = IF drt THEN d ELSE @]

(* The keys, ranges and kids of z behind those of y. *)
AppendNode(y, z) ==
    [y EXCEPT !.key = @ \o z.key,
              !.dr = SubSeq(@, 1, N(y)) \o SubSeq(z.dr, 1, N(z))
                     \o SubSeq(@, N(y) + N(z) + 1, 2 * T),
              !.kid = @ \o z.kid,
              !.sc = @ + ScionRange(z) + KidScions(z.kid)]

----------------------------------------------------------------------------
(* INSERT *)

(* btreesplitchild divides the full kid i of x.  Each half may need a new   *)
(* dirty stream, and addDStoBTN then moves the node and stores its address  *)
(* in the parent it was given.  It is given the wrong one in two cases:     *)
(*  - the stream of the new node z is released when the first key it gets   *)
(*    has no range, a later key asks for it again, and the address of z     *)
(*    overwrites that of kid i;                                             *)
(*  - x has no stream and the median brings a range: x is passed as its own *)
(*    parent, is freed, and bt_insertnonfull goes on with the old address.  *)
(* The new root of bt_insert inherits a stream, so only the first applies.  *)
(* From there on the program works on freed or lost memory: the model stops *)
(* with a fault.                                                            *)
SplitFault(x, y, isNewRoot) ==
    LET moved == SubSeq(y.dr, T + 1, 2 * T - 1)
    IN  \/ Len(moved) > 1 /\ moved[1] = 0 /\ DrSum(moved) > 0
        \/ ~isNewRoot /\ ~Dirty(x) /\ y.dr[T] > 0

SplitChild(x, i) ==
    LET y  == x.kid[i]
        z0 == [NewNode(y.leaf) EXCEPT
                 !.key = SubSeq(y.key, T + 1, 2 * T - 1),
                 !.dr  = SubSeq(y.dr, T + 1, 2 * T - 1) \o SubSeq(NoDR, T, 2 * T),
                 !.kid = IF y.leaf THEN <<>> ELSE SubSeq(y.kid, T + 1, 2 * T)]
        z  == [z0 EXCEPT !.sc = ScionRange(z0) + KidScions(z0.kid)]
        y1 == [y EXCEPT !.key = SubSeq(@, 1, T - 1),
                        !.dr  = SubSeq(@, 1, T - 1) \o SubSeq(NoDR, T, 2 * T),
                        !.kid = IF y.leaf THEN <<>> ELSE SubSeq(@, 1, T),
                        !.sc  = @ - z.sc - (1 + y.dr[T])]
    IN  [PutKey(x, i, y.key[T], y.dr[T]) EXCEPT
           !.kid = InsertAt([@ EXCEPT ![i] = y1], i + 1, z)]

RECURSIVE InsertNonFull(_, _)
InsertNonFull(x, k) ==
    IF x.leaf
    THEN [node |-> [PutKey(x, FindKIndex(x, k) + 1, k, 0) EXCEPT !.sc = @ + 1],
          fault |-> FALSE]
    ELSE LET i0   == FindKIndex(x, k) + 1
             full == N(x.kid[i0]) = 2 * T - 1
             x1   == IF full THEN SplitChild(x, i0) ELSE x
             i    == IF full /\ k > x1.key[i0] THEN i0 + 1 ELSE i0
             r    == InsertNonFull(x1.kid[i], k)
         IN  [node  |-> [x1 EXCEPT !.kid[i] = r.node, !.sc = @ + 1],
              fault |-> r.fault \/ (full /\ SplitFault(x, x.kid[i0], FALSE))]

BtInsert(b, k) ==
    LET grow == N(b.root) = 2 * T - 1
        s    == [NewNode(FALSE) EXCEPT !.kid = <<b.root>>, !.sc = b.root.sc]
        r    == InsertNonFull(IF grow THEN SplitChild(s, 1) ELSE b.root, k)
    IN  [b EXCEPT !.root = r.node, !.numkeys = @ + 1,
                  !.fault = r.fault \/ (grow /\ SplitFault(s, b.root, TRUE))]

----------------------------------------------------------------------------
(* DELETE (drt FALSE) and EVICT (drt TRUE) *)

None == "none"    \* DK_NONE: remove the key k
Largest == "2A"      \* DK_2A: remove the largest key below x
Smallest == "2B"      \* DK_2B: remove the smallest key below x

(* What a removal returns: the node, the key and the range that left it, the *)
(* range still to be added to the key before the leaf (carry), the keys that *)
(* became ghosts, and whether the code followed a null list of ancestors.    *)
Removed(x, k, d) ==
    [node |-> x, k |-> k, dr |-> d, carry |-> 0, ghost |-> {}, fault |-> FALSE]

(* incrPrevDR walks to the nearest ancestor entered behind one of its keys. *)
(* bt_delete keeps no list of ancestors (plist is NULL).                    *)
Absorb(r, x, i, drt) ==
    LET x1 == [x EXCEPT !.kid[i] = r.node]
    IN  IF r.carry = 0 \/ i = 1 THEN [r EXCEPT !.node = x1]
        ELSE [r EXCEPT !.node = IncrDR(x1, i - 1, r.carry), !.carry = 0,
                       !.fault = @ \/ ~drt]

(* Case 1: the key leaves a leaf. *)
RemoveFromLeaf(x, i, s, drt) ==
    LET d     == x.dr[i]
        more  == IF drt THEN d + 1 ELSE IF Inode THEN d ELSE 0
        prev  == IF s = None /\ more > 0 THEN more ELSE 0
        x1    == IF i > 1 THEN IncrDR(x, i - 1, prev) ELSE x
        cut   == IF s = None THEN 0 ELSE IF drt THEN 1 + d ELSE d
    IN  IF s = None /\ ~drt /\ d > 0 /\ ~Inode
        THEN [Removed(x, x.key[i], d) EXCEPT !.ghost = {x.key[i]}]
        ELSE [Removed([DropKey(x1, i, drt) EXCEPT !.sc = @ - cut], x.key[i], d)
                EXCEPT !.carry = IF i = 1 THEN prev ELSE 0]

(* The largest leaf below x gets the range of the evicted key of an ancestor *)
(* (incrCase2B), its scion with it.                                          *)
RECURSIVE IncrLast(_, _)
IncrLast(x, d) ==
    IF x.leaf THEN [IncrDR(x, N(x), d) EXCEPT !.sc = @ + d]
    ELSE [x EXCEPT !.kid[Len(x.kid)] = IncrLast(@, d)]

(* Kid i of x, too small to lose a key, borrows one from the left sibling *)
(* (case 3a1) or from the right one (case 3a2) through the key of x       *)
(* between them, ...                                                      *)
BorrowLeft(x, i, drt) ==
    LET xp == x.kid[i]  y == x.kid[i - 1]  d == x.dr[i - 1]  yn == N(y)
        xp1 == [PutKey(xp, 1, x.key[i - 1], IF drt THEN d ELSE 0) EXCEPT
                  !.sc = @ + 1 + d + (IF xp.leaf THEN 0 ELSE y.kid[yn + 1].sc),
                  !.kid = IF xp.leaf THEN @ ELSE <<y.kid[yn + 1]>> \o @]
        y1  == [ZeroDR(y, yn) EXCEPT
                  !.sc = @ - (1 + y.dr[yn]) - (IF y.leaf THEN 0 ELSE y.kid[yn + 1].sc),
                  !.kid = IF y.leaf THEN @ ELSE Front(@)]
    IN  [x EXCEPT !.key[i - 1] = y.key[yn],
                  !.dr[i - 1] = IF drt THEN y.dr[yn] ELSE 0,
                  !.kid[i] = xp1, !.kid[i - 1] = DropKey(y1, yn, drt)]

BorrowRight(x, i, drt) ==
    LET xp == x.kid[i]  y == x.kid[i + 1]  d == x.dr[i]
        xp1 == [AppendKey(xp, x.key[i], d, drt) EXCEPT
                  !.sc = @ + 1 + d + (IF xp.leaf THEN 0 ELSE y.kid[1].sc),
                  !.kid = IF xp.leaf THEN @ ELSE Append(@, y.kid[1])]
        y1  == [ZeroDR(y, 1) EXCEPT
                  !.sc = @ - (1 + y.dr[1]) - (IF y.leaf THEN 0 ELSE y.kid[1].sc),
                  !.kid = IF y.leaf THEN @ ELSE Tail(@)]
    IN  [x EXCEPT !.key[i] = y.key[1], !.dr[i] = IF drt THEN y.dr[1] ELSE 0,
                  !.kid[i] = xp1, !.kid[i + 1] = DropKey(y1, 1, drt)]

(* ... or, when the siblings are as small, is merged with one of them and   *)
(* the key j of x between them (cases 3b1, 3b2).                            *)
MergeKeepsKey(x, j, drt) ==
    LET y == AppendKey(x.kid[j], x.key[j], x.dr[j], drt)
    IN  [x EXCEPT !.kid = [RemoveAt(@, j + 1) EXCEPT ![j] = AppendNode(y, x.kid[j + 1])]]

Merge(x, j, drt) ==
    LET y0 == AppendKey(x.kid[j], x.key[j], x.dr[j], drt)
        y  == [y0 EXCEPT !.sc = @ + 1 + x.dr[j]]
        x1 == DropKey(ZeroDR(x, j), j, drt)
    IN  [x1 EXCEPT !.kid = [RemoveAt(@, j + 1) EXCEPT ![j] = AppendNode(y, x.kid[j + 1])]]

(* Case 2c merges the two kids around the key to remove, with setDR: a range *)
(* of 0 does not clear what the slot held, and the range of x stays behind.  *)
MergeAround(x, j, drt) ==
    LET y0 == [SetDR(x.kid[j], N(x.kid[j]) + 1, x.dr[j]) EXCEPT
                 !.key = Append(@, x.key[j]), !.sc = @ + 1 + x.dr[j]]
        x1 == DropKey(x, j, drt)
    IN  [x1 EXCEPT !.kid = [RemoveAt(@, j + 1) EXCEPT ![j] = AppendNode(y0, x.kid[j + 1])]]

(* deletekey: remove k (s = None), or the largest or smallest key below x.  *)
RECURSIVE DeleteKey(_, _, _, _)
DeleteKey(x0, k, s, drt) ==
    LET x   == IF drt THEN x0 ELSE [x0 EXCEPT !.sc = @ - 1]
        pos == CASE s = Largest -> N(x) [] s = Smallest -> 0 [] OTHER -> FindKIndex(x, k)
        below(x1, i, m) == Absorb(DeleteKey(x1.kid[i], k, m, drt), x1, i, drt)
    IN
    CASE x.leaf -> RemoveFromLeaf(x, IF s = Smallest THEN 1 ELSE pos, s, drt)
      [] ~x.leaf /\ s = None /\ Hit(x, k) ->
            IF ~drt /\ x.dr[pos] > 0                       \* replaceKeyWithGhost
            THEN [Removed(x, k, x.dr[pos]) EXCEPT !.ghost = {k}]
            ELSE IF N(x.kid[pos]) >= T                     \* case 2a
            THEN LET r == below(x, pos, Largest)
                 IN  [r EXCEPT !.k = k, !.node =
                        [IF drt THEN IncrDR(@, pos, r.dr + 1) ELSE SetDR(@, pos, r.dr)
                           EXCEPT !.key[pos] = r.k]]
            ELSE IF N(x.kid[pos + 1]) >= T                 \* case 2b
            THEN LET r  == below(x, pos + 1, Smallest)
                     x1 == IF drt THEN [r.node EXCEPT
                                    !.kid[pos] = IncrLast(@, x.dr[pos] + 1)]
                           ELSE r.node
                 IN  [r EXCEPT !.k = k, !.node =
                        [OverwriteDR(x1, pos, r.dr) EXCEPT !.key[pos] = r.k]]
            ELSE below(MergeAround(x, pos, drt), pos, s)   \* case 2c
      [] OTHER ->
            LET i     == pos + 1
                small == N(x.kid[i]) = T - 1
                left  == i > 1 /\ N(x.kid[i - 1]) >= T
                right == i <= N(x) /\ N(x.kid[i + 1]) >= T
                r == IF ~small THEN below(x, i, s)
                     ELSE IF left  THEN below(BorrowLeft(x, i, drt), i, s)
                     ELSE IF right THEN below(BorrowRight(x, i, drt), i, s)
                     ELSE IF i > 1 THEN below(Merge(x, i - 1, drt), i - 1, s)
                     ELSE below(Merge(x, i, drt), i, s)
                cut == IF s = None THEN 0 ELSE IF drt THEN 1 + r.dr ELSE r.dr
            IN  [r EXCEPT !.node.sc = @ - cut]

(* remove_key: what no ancestor absorbed was evicted left of the first key;  *)
(* an empty root gives way to its only kid.                                  *)
RemoveKey(b, k, drt) ==
    LET r == DeleteKey(b.root, k, None, drt)
    IN  [b EXCEPT !.root = IF N(r.node) = 0 /\ ~r.node.leaf THEN r.node.kid[1] ELSE r.node,
                  !.dirtyLeft = @ + r.carry, !.numkeys = @ - 1,
                  !.ghosts = (@ \ {k}) \cup r.ghost, !.fault = @ \/ r.fault]

----------------------------------------------------------------------------
(* LOOKUP *)

(* key_covers_miss: the query lies in the span of evicted rows of a key. *)
CoversMiss(x, k) ==
    LET i == IF FindKIndex(x, k) = 0 THEN 1 ELSE FindKIndex(x, k)
    IN  /\ i <= N(x) /\ x.key[i] # 0 /\ x.dr[i] > 0
        /\ k >= x.key[i] /\ k <= x.key[i] + x.dr[i]

(* findnodekey: whether k is in the tree, and whether a key on the way down *)
(* says that it was evicted.                                                *)
RECURSIVE FindNodeKey(_, _)
FindNodeKeyLeft(x, k) ==
    IF Hit(x, k) THEN [hit |-> TRUE, miss |-> FALSE]
    ELSE IF x.leaf THEN [hit |-> FALSE, miss |-> FALSE]
    ELSE FindNodeKey(x.kid[IF FindKIndex(x, k) = 0 THEN 1 ELSE FindKIndex(x, k)], k)

FindNodeKey(x, k) ==
    IF Hit(x, k) THEN [hit |-> TRUE, miss |-> FALSE]
    ELSE LET m == CoversMiss(x, k)
             r == IF x.leaf THEN [hit |-> FALSE, miss |-> FALSE]
                  ELSE FindNodeKey(x.kid[FindKIndex(x, k) + 1], k)
         IN  [r EXCEPT !.miss = @ \/ m]

(* The dirty range btGetDR reads: at the key, or where the search saw a miss. *)
RECURSIVE GetDR(_, _)
GetDR(x, k) == IF Hit(x, k) THEN x.dr[FindKIndex(x, k)]
               ELSE IF x.leaf THEN 0 ELSE GetDR(x.kid[FindKIndex(x, k) + 1], k)

BtFindD(b, k) == FindNodeKey(b.root, k)

----------------------------------------------------------------------------
(* The operations on the rows of one table *)

Keys == 1..table.maxKey

NoTree == [root |-> NewNode(TRUE), dirtyLeft |-> 0, numkeys |-> 0,
           ghosts |-> {}, fault |-> FALSE]

Init ==
    /\ table \in Tables
    /\ bt = FoldLeft(BtInsert, NoTree, [i \in 1..table.load |-> i])
    /\ live = 1..table.load /\ evicted = {} /\ ainc = table.load

(* INSERT of a row that is not there. *)
Insert(k) ==
    /\ "insert" \in table.ops /\ ~bt.fault
    /\ table.autoInc => k = ainc + 1
    /\ ~BtFindD(bt, k).hit /\ ~BtFindD(bt, k).miss
    /\ bt' = BtInsert(bt, k)
    /\ live' = live \cup {k}
    /\ ainc' = IF k > ainc THEN k ELSE ainc
    /\ UNCHANGED <<evicted, table>>

(* DELETE of a row, or of a ghost that has lost its range (deleteRow). *)
Delete(k) ==
    /\ "delete" \in table.ops /\ ~bt.fault
    /\ BtFindD(bt, k).hit /\ ~BtFindD(bt, k).miss
    /\ ~(k \in bt.ghosts /\ GetDR(bt.root, k) > 0)
    /\ bt' = RemoveKey(bt, k, FALSE)
    /\ live' = live \ {k}
    /\ UNCHANGED <<evicted, ainc, table>>

(* EVICT of a row that is there (evictCommand). *)
Evict(k) ==
    /\ "evict" \in table.ops /\ ~bt.fault
    /\ BtFindD(bt, k).hit /\ ~BtFindD(bt, k).miss /\ k \notin bt.ghosts
    /\ bt' = RemoveKey(bt, k, TRUE)
    /\ live' = live \ {k}
    /\ evicted' = evicted \cup {k}
    /\ UNCHANGED <<ainc, table>>

Next == \E k \in Keys : Insert(k) \/ Delete(k) \/ Evict(k)

Spec == Init /\ [][Next]_vars

----------------------------------------------------------------------------
(* Properties *)

RECURSIVE KeysBelow(_)
KeysBelow(x) ==
    IF x.leaf THEN x.key
    ELSE FoldLeft(\o, <<>>, [i \in 1..N(x) |-> Append(KeysBelow(x.kid[i]), x.key[i])])
         \o KeysBelow(x.kid[N(x) + 1])

RECURSIVE NodesBelow(_)
NodesBelow(x) == {x} \cup UNION {NodesBelow(x.kid[i]) : i \in 1..Len(x.kid)}

RECURSIVE Height(_)
Height(x) == IF x.leaf THEN 0 ELSE 1 + Height(x.kid[1])

RECURSIVE RowsBelow(_)
RowsBelow(x) == ScionRange(x) + DrSum([i \in 1..Len(x.kid) |-> RowsBelow(x.kid[i])])

TypeOK ==
    /\ bt.dirtyLeft \in Nat /\ bt.numkeys \in Int /\ bt.fault \in BOOLEAN
    /\ bt.ghosts \subseteq Keys /\ live \subseteq Keys /\ evicted \subseteq Keys
    /\ ainc \in Keys \cup {0}

(* Every node but the root holds t - 1 to 2t - 1 keys, an internal node one *)
(* kid more than keys, and all leaves are equally deep: the shape the cases *)
(* of deletekey and btreesplitchild rely on.                                *)
Balanced ==
    /\ TypeOK
    /\ ~bt.fault => \A x \in NodesBelow(bt.root) :
        /\ N(x) <= 2 * T - 1 /\ (x # bt.root => N(x) >= T - 1)
        /\ IF x.leaf THEN x.kid = <<>>
           ELSE /\ Len(x.kid) = N(x) + 1
                /\ \A i, j \in 1..Len(x.kid) : Height(x.kid[i]) = Height(x.kid[j])

(* The keys, read from left to right, are the live rows and the ghosts in   *)
(* increasing order: inserts, deletes, evicts, splits, rotations and merges *)
(* lose no row and keep none twice.                                         *)
RowsExact ==
    ~bt.fault => LET ks == KeysBelow(bt.root)
                 IN  /\ ToSet(ks) = live \cup bt.ghosts
                     /\ \A i \in 2..Len(ks) : ks[i - 1] < ks[i]

(* As long as no row was evicted, the scion of a node is the number of keys *)
(* at and below it, which OFFSET counts with (btScionFind), and numkeys is  *)
(* the number of rows: every scan and the AOF rewrite stop when it is 0.    *)
ScionExact ==
    ~bt.fault /\ evicted = {} =>
        /\ bt.numkeys = Cardinality(live)
        /\ \A x \in NodesBelow(bt.root) : x.sc = RowsBelow(x)

(* A lookup finds a live row and does not call it evicted, as long as the  *)
(* tree has no dirty range.                                                *)
CleanFound ==
    ~bt.fault /\ evicted = {} => \A k \in live :
        BtFindD(bt, k) = [hit |-> TRUE, miss |-> FALSE]

(* As long as nothing was deleted, a lookup of an evicted row behind the    *)
(* first key answers MISS, so that the client fetches it, and not that the  *)
(* row does not exist.                                                      *)
EvictedMissed ==
    ~bt.fault /\ live \cup evicted = 1..ainc => \A k \in evicted :
        (\E j \in live : j < k) => BtFindD(bt, k) = [hit |-> FALSE, miss |-> TRUE]

(* The tree keeps its shape and exactly its rows, whatever insert, delete   *)
(* and evict do to its nodes (bt_insert, deletekey), and the counts that    *)
(* OFFSET, scans and the AOF rewrite go by are those of its rows.           *)
TreeSound == Balanced /\ RowsExact /\ ScionExact

(* A lookup (bt_find_d) tells rows in memory, rows that were evicted and    *)
(* rows that do not exist apart, where CleanFound and EvictedMissed say so. *)
LookupExact == CleanFound /\ EvictedMissed
=============================================================================
