----------------------------- MODULE Iterators -----------------------------
(***************************************************************************)
(* The range iterators of bt_iterator.c on the trees of BTree.             *)
(*                                                                         *)
(* An iterator is a record: path, the chain of btIterator.nodes from the   *)
(* root to bln, each with a node x and the positions ik (key) and in (kid) *)
(* counted from 0 as in the code; fin, nim, missed, empty and scan as in   *)
(* btSIter; high, the key at which the walk ends.  nil stands for the NULL *)
(* that btGetRangeIter returns after it has taken a slot of BT_Iterators.  *)
(* An operator suffixed Rev is the descending version.                     *)
(* The operators are recursive: this module is for TLC.                    *)
(***************************************************************************)
EXTENDS BTree

nil == [nil |-> TRUE]
IsNil(it) == "nil" \in DOMAIN it

Frame(x, ik, in) == [x |-> x, ik |-> ik, in |-> in]
Bln(it) == Last(it.path)
CurrKey(it) == Bln(it).x.key[Bln(it).ik + 1]
CurrDR(it) == Bln(it).x.dr[Bln(it).ik + 1]
KidAt(f, in) == f.x.kid[in + 1]
SetBln(it, f) == [it EXCEPT !.path = Append(Front(@), f)]
Push(it, f) == [it EXCEPT !.path = Append(@, f)]

----------------------------------------------------------------------------
(* Steps to the next key in ascending order *)

(* A leaf is used up: back to the first ancestor with a key behind it. *)
RECURSIVE ToParentRecurse(_)
ToParentRecurse(it) ==
    IF Len(it.path) = 1 THEN [it EXCEPT !.fin = TRUE]
    ELSE LET up == [it EXCEPT !.path = Front(@)]
             p  == Bln(up)
             p1 == [p EXCEPT !.ik = IF @ + 1 < N(p.x) THEN @ + 1 ELSE @]
         IN  IF CurrKey(it) <= CurrKey(up) THEN up
             ELSE IF p.in + 1 < N(p.x) THEN SetBln(up, [p1 EXCEPT !.in = @ + 1])
             ELSE ToParentRecurse(SetBln(up, p1))

IterLeaf(it) ==
    IF Bln(it).ik + 1 < N(Bln(it).x) THEN SetBln(it, [Bln(it) EXCEPT !.ik = @ + 1])
    ELSE ToParentRecurse(it)

(* to_child and tochildrecurse: down to the first key below x. *)
RECURSIVE ToChildRecurse(_, _)
ToChildRecurse(it, x) ==
    LET down == Push(it, Frame(x, 0, 0))
    IN  IF x.leaf THEN down ELSE ToChildRecurse(down, x.kid[1])

IterNode(it) ==
    LET f == Bln(it)
        g == [f EXCEPT !.ik = IF @ + 1 < N(f.x) THEN @ + 1 ELSE @,
                       !.in = IF @ + 1 <= N(f.x) THEN @ + 1 ELSE @]
    IN  ToChildRecurse(SetBln(it, g), KidAt(g, g.in))

----------------------------------------------------------------------------
(* ... and in descending order *)

RECURSIVE ToParentRecurseRev(_)
ToParentRecurseRev(it) ==
    IF Len(it.path) = 1 THEN [it EXCEPT !.fin = TRUE]
    ELSE LET up  == [it EXCEPT !.path = Front(@)]
             p   == Bln(up)
             p1  == [p EXCEPT !.ik = IF @ > 0 THEN @ - 1 ELSE @]
             res == IF CurrKey(it) >= CurrKey(up) THEN up
                    ELSE IF p.in > 0 THEN SetBln(up, [p1 EXCEPT !.in = @ - 1])
                    ELSE ToParentRecurseRev(SetBln(up, p1))
         IN  SetBln(res, [Bln(res) EXCEPT
                            !.in = IF @ = N(Bln(res).x) THEN @ - 1 ELSE @])

IterLeafRev(it) ==
    IF Bln(it).ik > 0 THEN SetBln(it, [Bln(it) EXCEPT !.ik = @ - 1])
    ELSE ToParentRecurseRev(it)

(* to_child_rev and tochildrecurserev: down to the last key below x. *)
RECURSIVE ToChildRecurseRev(_, _)
ToChildRecurseRev(it, x) ==
    LET down == Push(it, Frame(x, N(x) - 1, N(x)))
    IN  IF x.leaf THEN down ELSE ToChildRecurseRev(down, x.kid[N(x) + 1])

IterNodeRev(it) == ToChildRecurseRev(it, KidAt(Bln(it), Bln(it).in))

----------------------------------------------------------------------------
(* btNext *)

(* What btNext returns: whether there was a key, the key with its range, and *)
(* the iterator, which already stands on the key after it.                   *)
BtNext(it, asc) ==
    IF it.fin
    THEN [got |-> FALSE, it |-> IF it.scan THEN [it EXCEPT !.missed = it.nim] ELSE it]
    ELSE LET seen == [it EXCEPT !.missed = IF asc THEN it.nim ELSE @,
                                !.nim = CurrDR(it) > 0]
             step == IF Bln(it).x.leaf
                     THEN IF asc THEN IterLeaf(seen) ELSE IterLeafRev(seen)
                     ELSE IF asc THEN IterNode(seen) ELSE IterNodeRev(seen)
         IN  [got |-> TRUE, key |-> CurrKey(it), dr |-> CurrDR(it), it |-> step]

(* streamToBTEntry: a ghost counts as a row that is missing. *)
ToEntry(b, it, key) ==
    IF key \in b.ghosts THEN [it EXCEPT !.missed = TRUE, !.nim = FALSE] ELSE it

----------------------------------------------------------------------------
(* Where an iterator starts *)

(* bt_init_iterator: down to k, with what it met on the way.  findkindex    *)
(* leaves the position of the last key that is not above k in ik and in.    *)
RECURSIVE Descend(_, _, _, _)
Descend(it, x, k, onlyRight) ==
    LET i    == FindKIndex(x, k) - 1
        here == SetBln(it, Frame(x, IF i > 0 THEN i ELSE 0, IF i > 0 THEN i ELSE 0))
        only == onlyRight /\ i = N(x) - 1
    IN  IF N(x) = 0 THEN [it |-> here, ret |-> "II_FAIL"]
        ELSE IF Hit(x, k) THEN [it |-> here, ret |-> "II_OK"]
        ELSE IF CoversMiss(x, k) THEN [it |-> here, ret |-> "II_MISS"]
        ELSE IF x.leaf
        THEN [it |-> here, ret |-> IF only THEN "II_ONLY_RIGHT" ELSE "II_LEAF_EXIT"]
        ELSE Descend(Push(here, Frame(x.kid[i + 2], 0, 0)), x.kid[i + 2], k, only)

BtMin(b) == KeysBelow(b.root)[1]
BtMax(b) == Last(KeysBelow(b.root))

(* check_min_miss, the end of bt_init_iterator *)
CheckMinMiss(b, d, k) ==
    IF d.ret = "II_OK" /\ b.dirtyLeft > 0 /\ k = BtMin(b)
    THEN [d EXCEPT !.ret = "II_L_MISS"] ELSE d

InitIterator(b, it, k) == CheckMinMiss(b, Descend(it, b.root, k, TRUE), k)

CreateIterator(b, high) ==
    [path |-> <<Frame(b.root, 0, 0)>>, fin |-> FALSE, nim |-> FALSE,
     missed |-> FALSE, empty |-> TRUE, scan |-> FALSE, high |-> high]

(* setIter.  A key between two others is left behind at once (btNext), one  *)
(* behind the last key gives no iterator at all: both are said of an        *)
(* ascending walk and done in a descending one as well.                     *)
StartFrom(d, k, asc) ==
    LET open == [d.it EXCEPT !.empty = FALSE]
        gone == [open EXCEPT !.nim = TRUE, !.missed = TRUE]
        far  == d.ret \in {"II_LEAF_EXIT", "II_ONLY_RIGHT"} /\ k > CurrKey(d.it)
    IN  CASE d.ret = "II_FAIL"   -> [got |-> FALSE, it |-> d.it]
          [] d.ret = "II_L_MISS" -> [got |-> FALSE, it |-> gone]
          [] d.ret = "II_MISS"   -> [got |-> TRUE, key |-> CurrKey(gone), it |-> gone]
          [] far /\ d.ret = "II_ONLY_RIGHT" -> [got |-> FALSE, it |-> d.it]
          [] far /\ d.ret # "II_ONLY_RIGHT" -> BtNext(open, asc)
          [] OTHER -> [got |-> TRUE, key |-> CurrKey(open), it |-> open]

SetIter(b, it, k, asc) == StartFrom(InitIterator(b, it, k), k, asc)

----------------------------------------------------------------------------
(* The iterators the statements use *)

EmptyTree(b) == b.numkeys = 0

(* btGetRangeIter *)
RangeStart(b, s) == IF s.got THEN ToEntry(b, s.it, s.key) ELSE nil

GetRangeIter(b, low, high, asc) ==
    IF EmptyTree(b) THEN nil
    ELSE RangeStart(b, SetIter(b, CreateIterator(b, IF asc THEN high ELSE low),
                               IF asc THEN low ELSE high, asc))

(* btGetFullRangeIter *)
FullStart(b, s) ==
    IF s.got THEN [ToEntry(b, s.it, s.key) EXCEPT !.missed = @ \/ b.dirtyLeft > 0]
    ELSE IF s.it.missed THEN s.it ELSE nil

GetFullRangeIter(b, asc) ==
    IF EmptyTree(b) THEN nil
    ELSE FullStart(b, SetIter(b, [CreateIterator(b, IF asc THEN BtMax(b) ELSE BtMin(b))
                                    EXCEPT !.scan = TRUE],
                              IF asc THEN BtMin(b) ELSE BtMax(b), asc))

(* Mutant of RangeStep: at the end the range behind the last row is not told. *)
RangeStepSilent(b, it, r, asc) ==
    LET e == [ToEntry(b, r.it, r.key) EXCEPT !.fin = @ \/ r.key = it.high]
    IN  IF ~r.got THEN [got |-> FALSE, it |-> r.it]
        ELSE IF IF asc THEN r.key > it.high ELSE r.key < it.high
        THEN [got |-> FALSE, it |-> [e EXCEPT !.missed = FALSE]]
        ELSE [got |-> TRUE, key |-> r.key, dr |-> r.dr, it |-> e]

(* btRangeNext for a numeric key; r is what btNext gave. *)
RangeStep(b, it, r, asc) ==
    LET e == [ToEntry(b, r.it, r.key) EXCEPT !.fin = @ \/ r.key = it.high]
    IN  IF ~r.got THEN [got |-> FALSE, it |-> r.it]
        ELSE IF IF asc THEN r.key > it.high ELSE r.key + r.dr < it.high
        THEN [got |-> FALSE, it |-> [e EXCEPT !.missed = @ \/ e.nim]]
        ELSE [got |-> TRUE, key |-> r.key, dr |-> r.dr, it |-> e]

RangeNext(b, it, asc) ==
    IF it.empty THEN [got |-> FALSE, it |-> it] ELSE RangeStep(b, it, BtNext(it, asc), asc)

----------------------------------------------------------------------------
(* OFFSET in a clean tree: the scions say how many rows a kid holds *)

(* The counts of XthIterFind: cnt rows passed, ofst asked for, diff left,   *)
(* over the place in the block once it is found (-1 before).                *)
Counts(ofst) == [cnt |-> 0, ofst |-> ofst, diff |-> 0, over |-> -1]
Passed(fl, n) == [fl EXCEPT !.cnt = @ + n, !.diff = fl.ofst - (fl.cnt + n)]
Found(fl) == IF fl.diff <= 0 THEN [fl EXCEPT !.over = 0] ELSE fl

(* Mutant of LeafScion: the key the iterator stands on is not counted. *)
LeafScionShort(it, fl) ==
    LET cnt == N(Bln(it).x) - Bln(it).ik - 1
    IN  IF fl.cnt + cnt >= fl.ofst
        THEN [it |-> it, fl |-> [fl EXCEPT !.over = fl.ofst - fl.cnt]]
        ELSE [it |-> ToParentRecurse(SetBln(it, Frame(Bln(it).x, N(Bln(it).x) - 1,
                                                      N(Bln(it).x)))),
              fl |-> Passed(fl, cnt)]

(* iter_leaf_scion *)
LeafScion(it, fl) ==
    LET cnt == N(Bln(it).x) - Bln(it).ik
    IN  IF fl.cnt + cnt >= fl.ofst
        THEN [it |-> it, fl |-> [fl EXCEPT !.over = fl.ofst - fl.cnt]]
        ELSE [it |-> ToParentRecurse(SetBln(it, Frame(Bln(it).x, N(Bln(it).x) - 1,
                                                      N(Bln(it).x)))),
              fl |-> Passed(fl, cnt)]

(* iter_node_scion: over the key and, if it is small enough, the kid behind. *)
NodeScion(it, fl) ==
    LET f       == Bln(it)
        kid     == KidAt(f, IF f.in = N(f.x) THEN f.in ELSE f.in + 1)
        scioned == fl.diff > kid.sc
        fl1     == Passed(fl, IF scioned THEN kid.sc + 1 ELSE 1)
        g       == [f EXCEPT !.ik = IF @ + 1 < N(f.x) THEN @ + 1 ELSE @]
    IN  IF fl1.diff < 0 THEN [it |-> it, fl |-> Found(fl1)]
        ELSE IF ~scioned
        THEN [it |-> ToChildRecurse(SetBln(it, [g EXCEPT !.in = @ + 1]), KidAt(f, f.in + 1)),
              fl |-> Found(fl1)]
        ELSE [it |-> IF f.in + 1 < N(f.x) THEN SetBln(it, [g EXCEPT !.in = @ + 1])
                     ELSE ToParentRecurse(SetBln(it, g)),
              fl |-> Found(fl1)]

(* iter_leaf_scion_rev, iter_node_scion_rev *)
LeafScionRev(it, fl) ==
    LET cnt == Bln(it).ik + 1
    IN  IF fl.cnt + cnt >= fl.ofst
        THEN [it |-> it, fl |-> [fl EXCEPT !.over = fl.ofst - fl.cnt]]
        ELSE [it |-> ToParentRecurseRev(SetBln(it, Frame(Bln(it).x, 0, 0))),
              fl |-> Passed(fl, cnt)]

NodeScionRev(it, fl) ==
    LET f       == Bln(it)
        kid     == KidAt(f, f.in)
        scioned == fl.diff > kid.sc
        fl1     == Passed(fl, IF scioned THEN kid.sc + 1 ELSE 1)
        g       == [f EXCEPT !.ik = IF @ > 0 THEN @ - 1 ELSE @]
    IN  IF fl1.diff < 0 THEN [it |-> it, fl |-> Found(fl1)]
        ELSE IF ~scioned THEN [it |-> ToChildRecurseRev(it, kid), fl |-> Found(fl1)]
        ELSE [it |-> IF f.in > 0 THEN SetBln(it, [g EXCEPT !.in = @ - 1])
                     ELSE ToParentRecurseRev(SetBln(it, g)),
              fl |-> Found(fl1)]

(* The end of XthIterFind: into the block, or on when it is behind it. *)
XthPlace(it, f, to, asc) ==
    IF asc /\ to = N(f.x) THEN ToParentRecurse(SetBln(it, [f EXCEPT !.ik = to - 1]))
    ELSE IF to < 0 THEN ToParentRecurseRev(SetBln(it, Frame(f.x, 0, 0)))
    ELSE SetBln(it, [f EXCEPT !.ik = to])

(* XthIterFind on the iterator it: on until the place is found. *)
RECURSIVE XthLoop(_, _, _)
XthStep(r, asc) ==
    IF r.fl.over = -1 THEN XthLoop(r.it, r.fl, asc)
    ELSE XthPlace(r.it, Bln(r.it),
                  Bln(r.it).ik + (IF asc THEN r.fl.over ELSE - r.fl.over), asc)
XthLoop(it, fl, asc) ==
    IF it.fin THEN it
    ELSE XthStep(IF Bln(it).x.leaf
                 THEN IF asc THEN LeafScion(it, fl) ELSE LeafScionRev(it, fl)
                 ELSE IF asc THEN NodeScion(it, fl) ELSE NodeScionRev(it, fl), asc)

(* btGetXthIter: an iterator in every case, empty when nothing was found. *)
XthStart(s, ofst, asc) ==
    IF ~s.got THEN s.it
    ELSE [XthLoop(s.it, Counts(ofst), asc) EXCEPT !.nim = FALSE, !.missed = FALSE,
                                                  !.empty = FALSE]

GetXthIter(b, low, high, ofst, asc) ==
    IF EmptyTree(b) THEN nil
    ELSE XthStart(SetIter(b, CreateIterator(b, IF asc THEN high ELSE low),
                          IF asc THEN low ELSE high, asc), ofst, asc)

(* btScionFind, first loop: over the kids that OFFSET passes.  The result    *)
(* says what is left of ofst and whether the place was a key of this node.   *)
RECURSIVE ScionKids(_, _, _, _)
ScionKids(it, i, ofst, asc) ==
    LET f  == Bln(it)
        at == Frame(f.x, IF i = N(f.x) THEN i - 1 ELSE i, i)
    IN  IF i = (IF asc THEN N(f.x) + 1 ELSE -1)
        THEN [it |-> it, ofst |-> ofst, done |-> FALSE, down |-> FALSE]
        ELSE IF KidAt(f, i).sc < ofst
        THEN ScionKids(it, IF asc THEN i + 1 ELSE i - 1, ofst - (KidAt(f, i).sc + 1), asc)
        ELSE IF KidAt(f, i).sc = ofst
        THEN [it |-> SetBln(it, IF asc THEN at ELSE Frame(f.x, i - 1, i - 1)),
              ofst |-> 0, done |-> TRUE, down |-> FALSE]
        ELSE [it |-> Push(SetBln(it, at), Frame(KidAt(f, i), 0, 0)),
              ofst |-> ofst, done |-> FALSE, down |-> TRUE]

(* Second loop: along the keys of the block x with their dirty ranges. *)
RECURSIVE ScionKeys(_, _, _, _, _, _)
ScionKey(b, x, i, cnt, ofst, asc) ==
    IF cnt >= ofst THEN [i |-> i, cnt |-> cnt, dr |-> x.dr[i + 1], fin |-> FALSE]
    ELSE ScionKeys(b, x, IF asc THEN i + 1 ELSE i - 1, cnt + 1, x.dr[i + 1], [ofst |-> ofst, asc |-> asc])
ScionKeys(b, x, i, cnt, dr, q) ==
    IF i = (IF ~q.asc THEN -1 ELSE IF q.ofst < N(x) THEN q.ofst ELSE N(x))
    THEN [i |-> i, cnt |-> cnt, dr |-> dr, fin |-> TRUE]
    ELSE ScionKey(b, x, i, cnt + x.dr[i + 1]
                           + (IF i = 0 /\ x.key[1] = BtMin(b) THEN b.dirtyLeft ELSE 0),
                  q.ofst, q.asc)

(* Its end: OFFSET too big, or the place, which the code takes although it  *)
(* may lie behind the last key (wild).                                      *)
ScionEnd(b, it, r, ofst, asc) ==
    LET x    == Bln(it).x
        last == r.fin /\ r.i = (IF asc THEN N(x) - 1 ELSE 0)
        gone == IF asc THEN ofst + r.dr # r.cnt
                ELSE ofst # r.cnt - (IF r.i = 0 /\ x.key[1] = BtMin(b)
                                     THEN b.dirtyLeft ELSE 0)
        wild == r.i \notin 0..(N(x) - 1)
    IN  [ok |-> IF last THEN r.cnt < x.sc ELSE r.cnt >= ofst, wild |-> wild,
         it |-> IF wild THEN it
                ELSE [SetBln(it, [Bln(it) EXCEPT !.ik = r.i])
                        EXCEPT !.missed = @ \/ gone]]

RECURSIVE ScionFind(_, _, _, _)
ScionBlock(b, k, asc) ==
    IF k.done THEN [ok |-> TRUE, it |-> k.it, wild |-> Bln(k.it).in < 0]
    ELSE IF k.down /\ ~Bln(k.it).x.leaf
    THEN [ScionFind(b, k.it, k.ofst, asc) EXCEPT !.ok = TRUE]
    ELSE ScionEnd(b, k.it, ScionKeys(b, Bln(k.it).x,
                                     IF asc THEN 0 ELSE N(Bln(k.it).x) - 1, 0, 0,
                                     [ofst |-> k.ofst, asc |-> asc]), k.ofst, asc)
ScionFind(b, it, ofst, asc) ==
    ScionBlock(b, IF Bln(it).x.leaf
                  THEN [it |-> it, ofst |-> ofst, done |-> FALSE, down |-> FALSE]
                  ELSE ScionKids(it, IF asc THEN 0 ELSE N(Bln(it).x), ofst, asc), asc)

(* btGetFullXthIter *)
GetFullXthIter(b, ofst, asc) ==
    LET open(s) == [s.it EXCEPT !.empty = ~s.ok \/ s.wild]
    IN  IF EmptyTree(b) THEN nil
        ELSE open(ScionFind(b, CreateIterator(b, IF asc THEN BtMax(b) ELSE BtMin(b)),
                            ofst, asc))

----------------------------------------------------------------------------
(* rangeOpPK's use of an iterator: the rows it hands on, or MISS *)

MISS == <<-1>>

RECURSIVE Walk(_, _, _, _)
WalkStep(b, r, asc, rows) ==
    IF r.it.missed THEN MISS
    ELSE IF r.got THEN Walk(b, r.it, asc, Append(rows, r.key)) ELSE rows
Walk(b, it, asc, rows) == WalkStep(b, RangeNext(b, it, asc), asc, rows)

Scan(b, it, asc) ==
    IF IsNil(it) \/ it.empty THEN <<>>
    ELSE IF it.missed THEN MISS
    ELSE Walk(b, it, asc, <<>>)

(* The rows asked for: those of S within the bounds, in the order asked for. *)
Wanted(S, low, high, asc) ==
    LET up == SelectSeq([i \in Keys |-> i], LAMBDA k : k \in S /\ low <= k /\ k <= high)
    IN  IF asc THEN up ELSE Reverse(up)
Skip(s, n) == SubSeq(s, n + 1, Len(s))

----------------------------------------------------------------------------
(* Properties *)

(* The bounds for which a scan starts where it should: a descending one only *)
(* from a key that is there, an ascending one not on the first key of a tree *)
(* that has lost rows to its left.                                           *)
Startable(b, low, high, asc) ==
    IF asc THEN ~(b.dirtyLeft > 0 /\ low = BtMin(b)) ELSE high \in live

(* In a table that never lost a row, a range query (bt_iterator.c             *)
(* btGetRangeIter, btRangeNext) gives exactly the rows within its bounds in   *)
(* order, a scan all of them, and OFFSET, which skips whole blocks by their   *)
(* scions (btGetXthIter, btGetFullXthIter), exactly the rows behind the ones  *)
(* skipped, whatever splits and merges made of the tree.                      *)
ScanComplete ==
    table.load = 0 /\ live # {} =>
    \A asc \in BOOLEAN :
      /\ Scan(bt, GetFullRangeIter(bt, asc), asc) = Wanted(live, 1, table.maxKey, asc)
      /\ \A n \in 1..(Cardinality(live) - 1) :
           Scan(bt, GetFullXthIter(bt, n, asc), asc)
             = Skip(Wanted(live, 1, table.maxKey, asc), n)
      /\ \A lo, hi \in Keys : lo <= hi /\ Startable(bt, lo, hi, asc) =>
           /\ Scan(bt, GetRangeIter(bt, lo, hi, asc), asc) = Wanted(live, lo, hi, asc)
           /\ {lo, hi} \subseteq live =>
                \A n \in 0..(Cardinality(live) + 1) :
                  Scan(bt, GetXthIter(bt, lo, hi, n, asc), asc)
                    = Skip(Wanted(live, lo, hi, asc), n)

(* In a table with evicted rows and no deletions, an ascending range query is *)
(* never silently incomplete between two rows that are in memory: it answers  *)
(* MISS when a row within its bounds has been evicted, and otherwise MISS or  *)
(* exactly the rows there are (range.c rangeOpPK, the missed and nim flags).  *)
ScanMisses ==
    table.ops = {"insert", "evict"} /\ live # {} /\ ~bt.fault =>
    \A lo, hi \in Keys : lo <= hi /\ Startable(bt, lo, hi, TRUE) =>
      LET s == Scan(bt, GetRangeIter(bt, lo, hi, TRUE), TRUE)
      IN  /\ s \in {MISS, Wanted(live, lo, hi, TRUE)}
          /\ (\E k \in evicted : lo <= k /\ k <= hi)
             /\ (\E k \in live : k < lo) /\ (\E k \in live : k > hi) => s = MISS

(* A range query, a scan or an OFFSET gives the rows there are (ScanComplete), *)
(* and where rows were evicted it says so rather than leave them out.         *)
ScanExact == ScanComplete /\ ScanMisses

-----------------------------------------------------------------------------
(* The tables of the run. *)

Clean == [maxKey |-> 9, load |-> 0, autoInc |-> FALSE, ops |-> {"insert", "delete"}]
Evicting == [maxKey |-> 7, load |-> 6, autoInc |-> TRUE, ops |-> AllOps]
EvictOnly == [maxKey |-> 8, load |-> 7, autoInc |-> TRUE, ops |-> {"insert", "evict"}]

CleanAndDirty == {Clean, Evicting, EvictOnly}
=============================================================================
