----------------------------- MODULE RangeOps -----------------------------
(***************************************************************************)
(* How a planned statement visits its rows (range.c), and how the ones it  *)
(* found are sorted (orderby.c).  A tree gives the keys between two bounds  *)
(* in order, what BTree and Iterators show of it; the bounds they do not    *)
(* speak for, and the other cases in which a statement does not give what   *)
(* it asks for, are named in Promised.  No row is evicted, the columns are  *)
(* INTs, and no index has an ORDER BY of its own.                           *)
(***************************************************************************)
EXTENDS Planner

Asc(S) ==
    IF S = {} THEN <<>>
    ELSE SelectSeq([i \in 1..(Max(S) + 1) |-> i - 1], LAMBDA x : x \in S)
Ordered(S, asc) == IF asc THEN Asc(S) ELSE Reverse(Asc(S))

----------------------------------------------------------------------------
(* setRangeQueued, setInQueued: may the rows go out as they come, or must   *)
(* they be collected and sorted (qed)?  lim: the LIMIT ends the visit; lo:  *)
(* OFFSET is counted on the way; xth: the tree itself skips the first rows. *)

Is(wb, i, c) == i \in DOMAIN wb.obc /\ wb.obc[i] = c
Desc(wb, i, c) == Is(wb, i, c) /\ ~wb.asc[i]

(* mci_fk_queued; the columns of the index as far as ORDER BY follows them *)
MciPrefix(wb) ==
    CHOOSE n \in 0..Len(MciCols) :
        /\ n <= Len(wb.obc)
        /\ \A i \in 1..n : wb.obc[i] = MciCols[i]
        /\ (n < Len(MciCols) /\ n < Len(wb.obc)) => wb.obc[n + 1] # MciCols[n + 1]
MciFkQueued(wb) == MciPrefix(wb) # Len(wb.obc)

(* setRangeQueued, its part for indexes other than the primary key *)
FkQueued(p, s, wb) ==
    LET c == p.w.col
        nob == Len(wb.obc)
    IN  IF p.wtype = "SINGLE_FK"
        THEN IF IsMci(s, c) THEN MciFkQueued(wb)
             ELSE \/ nob > 2
                  \/ nob = 1 /\ ~Is(wb, 1, c) /\ ~Is(wb, 1, 0)
                  \/ nob = 2 /\ ~(Is(wb, 1, c) /\ Is(wb, 2, 0))
                             /\ ~(Is(wb, 2, c) /\ Is(wb, 1, 0))
        ELSE \/ nob > 2
             \/ nob = 1 /\ ~Is(wb, 1, c)
             \/ nob = 2 /\ ~(Is(wb, 1, c) /\ Is(wb, 2, 0))

Queued(p, s, wb) ==
    IF s[p.w.col] = "virt" THEN Len(wb.obc) > 1 \/ (Len(wb.obc) = 1 /\ ~Is(wb, 1, 0))
    ELSE FkQueued(p, s, wb)
PkDesc(p, wb) ==
    \/ Len(wb.obc) = 1 /\ Desc(wb, 1, 0)
    \/ Len(wb.obc) > 1 /\ Is(wb, 1, p.w.col) /\ Desc(wb, 2, 0)
Directions(p, s, wb, qed, lo) ==
    [qed |-> qed, lim |-> ~qed /\ wb.lim # -1, lo |-> lo /\ p.w.op # "IN",
     xth |-> lo /\ p.flist = <<>>,
     desc |-> Desc(wb, 1, p.w.col),
     inr |-> s[p.w.col] # "virt" /\ PkDesc(p, wb)]
QueuedLim(p, s, wb, qed) == Directions(p, s, wb, qed, ~qed /\ wb.lim # -1 /\ wb.ofst # -1)
SetQueued(p, s, wb) == QueuedLim(p, s, wb, Queued(p, s, wb))

----------------------------------------------------------------------------
(* The visit of one row.  v: rows taken (out, card), rows met (loops),      *)
(* the offset still to skip, the break.                                     *)

StartVisit(wb) == [out |-> <<>>, card |-> 0, loops |-> -1, ofst |-> wb.ofst, brkr |-> FALSE]

(* select_op, dellist_op, update_op: the filters, then the row is taken *)
RowOp(g, v, r) ==
    IF PassFilts(g.p.flist, r)
    THEN [v EXCEPT !.card = @ + 1, !.out = IF g.cstar THEN @ ELSE Append(@, r)]
    ELSE v

AtLimit(g, v) == [v EXCEPT !.brkr = g.q.lim /\ g.wb.lim = v.card]

(* pk_op_l *)
Loop(v) == [v EXCEPT !.loops = @ + 1]
PkOpL(g, v, r) ==
    IF g.q.lim /\ ~g.q.lo /\ g.wb.ofst # -1 /\ v.loops + 1 < g.wb.ofst THEN Loop(v)
    ELSE AtLimit(g, RowOp(g, Loop(v), r))

Visit(g, v, rs, Op(_, _, _)) ==
    FoldLeft(LAMBDA a, r : IF a.brkr THEN a ELSE Op(g, a, r), v, rs)

(* rangeOpPK *)
RowsAt(S, keys) == [i \in DOMAIN keys |-> CHOOSE r \in S : Col(r, 0) = keys[i]]
RowsByPk(S, asc) == RowsAt(S, Ordered({Col(r, 0) : r \in S}, asc))
InRange(g) == {r \in g.rows : g.p.w.low <= Col(r, g.p.w.col) /\ Col(r, g.p.w.col) <= g.p.w.high}
SkipXth(skips, ofst, rs) == IF skips /\ ofst > 0 THEN From(rs, ofst + 1) ELSE rs
RangeOpPK(g) ==
    Visit(g, StartVisit(g.wb), SkipXth(g.q.xth, g.wb.ofst, RowsByPk(InRange(g), ~g.q.desc)), PkOpL)

(* inOpPK *)
InOpPK(g) ==
    Visit(g, StartVisit(g.wb),
          RowsAt(g.rows, SelectSeq(g.p.w.inl, LAMBDA k : With(g.rows, 0, k) # {})), PkOpL)

----------------------------------------------------------------------------
(* Nodes of an index *)

(* uBT_Op: one row of a UNIQUE index; COUNT asks no filter. *)
UBtOp(g, v, r) ==
    IF g.cstar THEN [Loop(v) EXCEPT !.card = @ + 1]
    ELSE IF g.q.lim /\ g.q.lo /\ v.loops + 1 < v.ofst THEN Loop(v)
    ELSE IF g.q.lim /\ g.wb.lim = v.card THEN [Loop(v) EXCEPT !.brkr = TRUE]
    ELSE RowOp(g, Loop(v), r)

(* nBT_ROp *)
NBtROp(g, v, r) ==
    IF g.q.lim /\ ~g.q.lo /\ v.loops + 1 < v.ofst THEN Loop(v)
    ELSE AtLimit(g, RowOp(g, Loop(v), r))

(* nBT_Op: the rows of one node, S, in the order of their primary keys; a   *)
(* node with no more rows than the OFFSET is skipped by its scion.          *)
NodeDone(g, w) == AtLimit(g, IF g.q.lo THEN [w EXCEPT !.ofst = 0] ELSE w)
NodeRows(g, v, S) ==
    NodeDone(g, Visit(g, v, SkipXth(g.q.xth, v.ofst, RowsByPk(S, ~g.q.inr)), NBtROp))
NBtOp(g, v, S) ==
    IF g.cstar /\ g.p.flist = <<>> THEN [v EXCEPT !.card = @ + Cardinality(S)]
    ELSE IF g.q.lo /\ g.p.wtype # "SINGLE_FK" /\ Cardinality(S) <= v.ofst
    THEN [v EXCEPT !.ofst = @ - Cardinality(S)]
    ELSE NodeRows(g, v, S)

(* btMCIFindVal and runOnNode: the nodes below the value k of the first     *)
(* column, each a set of rows.  A filter of klist picks one by its key,     *)
(* whatever its operator.                                                   *)
Second == MciCols[2]
NodesOf(g, S, order) == [i \in DOMAIN order |-> With(S, Second, order[i])]
NodesIn(g, S) ==
    IF S = {} THEN <<>>
    ELSE IF ~IsMci(g.s, g.p.w.col) THEN <<S>>
    ELSE IF g.p.klist # <<>>
    THEN SelectSeq(<<With(S, Second, g.p.klist[1].key)>>, LAMBDA n : n # {})
    ELSE NodesOf(g, S, Ordered({Col(r, Second) : r \in S}, ~g.q.inr))
NodesBelow(g, k) == NodesIn(g, With(g.rows, g.p.w.col, k))

NodeOp(g, v, S) ==
    IF IsUniq(g.s, g.p.w.col) THEN UBtOp(g, v, CHOOSE r \in S : TRUE) ELSE NBtOp(g, v, S)

VisitKeys(g, v, ks) ==
    FoldLeft(LAMBDA a, k : IF a.brkr THEN a ELSE Visit(g, a, NodesBelow(g, k), NodeOp), v, ks)

(* rangeOpFK; a simple UNIQUE index lets the tree skip the OFFSET. *)
Smplo(g) == g.s[g.p.w.col] = "uniq" /\ g.q.xth
RangeOpFK(g) ==
    VisitKeys(g, IF Smplo(g) THEN [StartVisit(g.wb) EXCEPT !.ofst = -1] ELSE StartVisit(g.wb),
              SkipXth(Smplo(g), g.wb.ofst, Ordered({Col(r, g.p.w.col) : r \in InRange(g)}, ~g.q.desc)))

(* singleOpFK: a simple UNIQUE index answers -1 for a key it does not have. *)
SingleOpFK(g) ==
    IF g.s[g.p.w.col] = "uniq" /\ With(g.rows, g.p.w.col, g.p.w.key) = {}
    THEN [StartVisit(g.wb) EXCEPT !.card = -1]
    ELSE VisitKeys(g, StartVisit(g.wb), <<g.p.w.key>>)

(* inOpFK *)
InOpFK(g) == VisitKeys(g, StartVisit(g.wb), g.p.w.inl)

(* Op, keyOp, rangeOp, inOp *)
Virt(g) == g.s[g.p.w.col] = "virt"
DoOp(g) ==
    CASE g.p.wtype = "IN" -> IF Virt(g) THEN InOpPK(g) ELSE InOpFK(g)
      [] g.p.wtype = "SINGLE_FK" -> SingleOpFK(g)
      [] OTHER -> IF Virt(g) THEN RangeOpPK(g) ELSE RangeOpFK(g)

----------------------------------------------------------------------------
(* sortOB2Vector with genOBsort: by the columns of ORDER BY, DESC reversed *)

RECURSIVE Before(_, _, _, _)
Before(wb, i, r, t) ==
    IF i > Len(wb.obc) THEN FALSE
    ELSE IF Col(r, wb.obc[i]) = Col(t, wb.obc[i]) THEN Before(wb, i + 1, r, t)
    ELSE (Col(r, wb.obc[i]) < Col(t, wb.obc[i])) = wb.asc[i]
Precedes(wb, rs, i, j) ==
    Before(wb, 1, rs[i], rs[j]) \/ (~Before(wb, 1, rs[j], rs[i]) /\ i < j)
ByPlace(rs, place) == [k \in DOMAIN rs |-> rs[CHOOSE i \in DOMAIN rs : place[i] = k]]
SortOB(wb, rs) ==
    ByPlace(rs, [i \in DOMAIN rs |-> 1 + Cardinality({j \in DOMAIN rs : Precedes(wb, rs, j, i)})])

(* The loop of opSelectSort, opUpdateSort: skip OFFSET rows, take LIMIT *)
AtMost(lim, rs) == IF lim = -1 \/ Len(rs) <= lim THEN rs ELSE SubSeq(rs, 1, lim)
Window(wb, rs) == AtMost(wb.lim, SkipXth(TRUE, wb.ofst, rs))

(* init_range *)
RangeOf(rows, s, p, wb, cstar) ==
    [rows |-> rows, s |-> s, p |-> p, wb |-> wb, cstar |-> cstar, q |-> SetQueued(p, s, wb)]

----------------------------------------------------------------------------
(* The statements that give what they ask for.  The others are known        *)
(* differences between this code and the usual meaning of SQL.              *)

(* The first rows that an OFFSET skips inside a tree have to be there. *)
FirstNode(ns) == IF ns = <<>> THEN {} ELSE ns[1]
Reachable(g) ==
    (g.q.xth /\ g.wb.ofst > 0) =>
        CASE g.p.wtype = "RANGE" ->
                 g.s[g.p.w.col] \in {"virt", "uniq"} => g.wb.ofst < Cardinality(InRange(g))
          [] g.p.wtype = "SINGLE_FK" ->
                 ~IsUniq(g.s, g.p.w.col) /\ NodesBelow(g, g.p.w.key) # <<>> =>
                     g.wb.ofst < Cardinality(FirstNode(NodesBelow(g, g.p.w.key)))
          [] OTHER -> TRUE

Promised(g) ==
    LET c == g.p.w.col
        skips == g.wb.lim # -1 /\ g.wb.ofst > 0
    IN  /\ ~g.p.refused /\ ~g.p.wild
        /\ g.wb.lim # 0
        (* One primary key knows no OFFSET. *)
        /\ g.p.wtype = "SINGLE" => g.wb.ofst <= 0
        /\ \A i \in DOMAIN g.p.klist : g.p.klist[i].op = "EQ"
        (* OFFSET counts rows before the filters. *)
        /\ (skips /\ g.p.flist # <<>>) => g.q.qed
        (* An IN list is visited in its own order. *)
        /\ g.p.w.op = "IN" => /\ IsInjective(g.p.w.inl)
                              /\ g.s[c] # "uniq"
                              /\ (skips \/ g.wb.obc # <<>>) => g.q.qed
        (* A descending range starts at a key that is there. *)
        /\ (g.p.w.op = "RQ" /\ g.q.desc) => With(g.rows, c, g.p.w.high) # {}
        /\ Reachable(g)
        /\ (g.s[c] = "uniq" /\ g.p.w.op = "EQ") => With(g.rows, c, g.p.w.key) # {}
        (* Below a compound index rows come by its second column. *)
        /\ (IsMci(g.s, c) /\ ~g.q.qed /\ Len(g.wb.obc) = 2) =>
               g.p.wtype = "SINGLE_FK" /\ g.wb.asc[2]
        /\ (~g.q.qed /\ Len(g.wb.obc) = 2 /\ g.wb.obc[1] = 0) => g.wb.asc[1]
        (* COUNT *)
        /\ g.cstar => /\ g.p.wtype # "SINGLE" /\ g.wb.lim = -1
                      /\ IsUniq(g.s, c) => g.p.flist = <<>>
=============================================================================
