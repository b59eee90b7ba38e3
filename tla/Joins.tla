------------------------------- MODULE Joins -------------------------------
(***************************************************************************)
(* SELECT on several tables: the conditions become a chain of join pairs,  *)
(* the filters go to the tables of the chain, the cheaper end is the head  *)
(* (qo.c), and the chain is walked as nested loops over indexes (join.c).  *)
(*                                                                         *)
(* A table of the FROM list is a jan, its place in that list; D.tab is the *)
(* table of a jan, D.rows the rows and D.s the schema of a table.  Tables  *)
(* with compound indexes are left out: no pair has a klist.                *)
(***************************************************************************)
EXTENDS RangeOps

CONSTANT BoolRange      \* values of bool, an unsigned char

ASSUME JoinsAssumption == BoolRange \in Nat \ {0, 1}

Side(jan, col) == [jan |-> jan, col |-> col]
NoSide == Side(0, 0)
NoRows == 1000          \* UINT_MAX

(* addIndexes2Join: a pair of columns, or a filter, which has no right side *)
Pair(l, r) == [lhs |-> l, rhs |-> r, f |-> NoFilter, flist |-> <<>>, nrows |-> NoRows]
JoinFilter(jan, f) == [Pair(Side(jan, f.col), NoSide) EXCEPT !.f = f]
IsFilter(ij) == ij.rhs = NoSide

(* switchIJ *)
SwitchIJ(ij) == [ij EXCEPT !.lhs = ij.rhs, !.rhs = ij.lhs]
Index(D, side) == IF D.s[D.tab[side.jan]][side.col] = "none" THEN <<>>
                  ELSE <<D.tab[side.jan], side.col>>

----------------------------------------------------------------------------
(* sortJoinPlan: the lower table to the left, the pairs by their left jans. *)

LowerLeft(D, ij) ==
    IF ~IsFilter(ij) /\ (\/ D.tab[ij.rhs.jan] < D.tab[ij.lhs.jan]
                         \/ D.tab[ij.rhs.jan] = D.tab[ij.lhs.jan] /\ ij.rhs.jan < ij.lhs.jan)
    THEN SwitchIJ(ij) ELSE ij
ByLeftJan(D, ijs) ==
    FoldLeft(LAMBDA a, jan : a \o SelectSeq(ijs, LAMBDA ij : ij.lhs.jan = jan),
             <<>>, [i \in DOMAIN D.tab |-> i])
SortJoinPlan(D, ijs) ==
    ByLeftJan(D, [i \in DOMAIN ijs |-> LowerLeft(D, ijs[i])])

----------------------------------------------------------------------------
(* buildJoinChain *)

(* One pass through the list: take what touches the end j0 of the chain *)
Touch(a, ij) ==
    IF ij.lhs.jan = a.j0 THEN [a EXCEPT !.j0 = ij.rhs.jan, !.taken = Append(@, ij)]
    ELSE IF ij.rhs.jan = a.j0 THEN [a EXCEPT !.j0 = ij.lhs.jan, !.taken = Append(@, ij)]
    ELSE [a EXCEPT !.kept = Append(@, ij)]
Pass(j0, cl) == FoldLeft(Touch, [j0 |-> j0, taken |-> <<>>, kept |-> <<>>], cl)

(* The lists leftl and rightl put in front of what is left over *)
Prepend(head, l, r) ==
    IF l.taken # <<>> THEN r.taken \o Reverse(Append(l.taken, head)) \o r.kept
    ELSE <<head>> \o r.taken \o r.kept

(* The loop ends when nothing is left over, or when its counter is over.    *)
RECURSIVE Chain(_, _)
ChainAgain(cl, left, loop) ==
    IF left = <<>> \/ (loop + 1) % BoolRange = 0 THEN cl ELSE Chain(cl, loop + 1)
ChainRight(head, l, r, loop) == ChainAgain(Prepend(head, l, r), r.kept, loop)
ChainLeft(head, l, loop) == ChainRight(head, l, Pass(head.rhs.jan, l.kept), loop)
Chain(cl, loop) == ChainLeft(Head(cl), Pass(Head(cl).lhs.jan, Tail(cl)), loop)

(* alignChainToJans: switch the pairs until they meet, three tests in turn *)
SwitchIf(b, ij) == IF b THEN SwitchIJ(ij) ELSE ij
AlignBoth(a, b) == <<SwitchIf(a.lhs.jan = b.rhs.jan, a), SwitchIf(a.lhs.jan = b.rhs.jan, b)>>
AlignRight(a, b) == AlignBoth(a, SwitchIf(a.rhs.jan = b.rhs.jan, b))
AlignLeft(a, b) == AlignRight(SwitchIf(a.lhs.jan = b.lhs.jan, a), b)
AlignTwo(a, b) == IF a.rhs.jan = b.lhs.jan THEN <<a, b>> ELSE AlignLeft(a, b)
AlignAt(ch, j) ==
    SubSeq(ch, 1, j - 1) \o AlignTwo(ch[j], ch[j + 1]) \o From(ch, j + 2)
AlignChainToJans(ch) == FoldLeft(AlignAt, ch, [j \in 1..(Len(ch) - 1) |-> j])

RevChain(ch) == [i \in DOMAIN ch |-> SwitchIJ(ch[Len(ch) + 1 - i])]

(* onFilterlessHeadRevChain *)
FiltersOf(fs, jan) == SelectSeq(fs, LAMBDA ij : ij.lhs.jan = jan)
Filterless(ch, fs) ==
    FiltersOf(fs, ch[1].lhs.jan) = <<>> /\ FiltersOf(fs, ch[Len(ch)].rhs.jan) # <<>>

----------------------------------------------------------------------------
(* assignFiltersToJoinPairs: a filter goes to the first pair with its table *)
(* on the left, or behind the last pair.                                    *)

(* sortFLCheap for a join: only filters on the joined column are counted.   *)
JoinCost(D, jan, col, f) ==
    IF f.col = col THEN Cost(D.rows[D.tab[jan]], D.s[D.tab[jan]], f) ELSE NoCount
Cheap(fl, cost) ==
    IF Cheapest(cost) = {} THEN [fl |-> fl, nrows |-> NoRows]
    ELSE [fl |-> ToHead(fl, First(Cheapest(cost))), nrows |-> cost[First(Cheapest(cost))]]
SortFL(D, jan, col, fl) == Cheap(fl, [i \in DOMAIN fl |-> JoinCost(D, jan, col, fl[i])])

FiltersAt(ch, fs, j) ==
    IF \E i \in 1..(j - 1) : ch[i].lhs.jan = ch[j].lhs.jan THEN <<>>
    ELSE FiltersOf(fs, ch[j].lhs.jan)
FiltersBehind(ch, fs) ==
    SelectSeq(fs, LAMBDA ij : /\ \A j \in DOMAIN ch : ch[j].lhs.jan # ij.lhs.jan
                              /\ ch[Len(ch)].rhs.jan = ij.lhs.jan)
Dangling(ch, fs) ==
    \E i \in DOMAIN fs : \A j \in DOMAIN ch :
        fs[i].lhs.jan # ch[j].lhs.jan /\ fs[i].lhs.jan # ch[Len(ch)].rhs.jan
Fs(ijs) == [i \in DOMAIN ijs |-> ijs[i].f]

(* A plan: the chain with its filters, the ones behind it, and whether the  *)
(* statement was refused.                                                   *)
Plan(ch, fflist, fnrows, err) == [ch |-> ch, fflist |-> fflist, fnrows |-> fnrows, err |-> err]
WithFilters(ij, x) == [ij EXCEPT !.flist = x.fl, !.nrows = x.nrows]
Behind(ch, x, err) == Plan(ch, x.fl, x.nrows, err)
AssignFilters(D, ch, fs) ==
    Behind([j \in DOMAIN ch |->
               WithFilters(ch[j], SortFL(D, ch[j].lhs.jan, ch[j].lhs.col, Fs(FiltersAt(ch, fs, j))))],
           SortFL(D, ch[Len(ch)].rhs.jan, ch[Len(ch)].rhs.col, Fs(FiltersBehind(ch, fs))),
           Dangling(ch, fs))

(* determineChainHead *)
DetermineChainHeadKeep(D, p, fs) ==
    IF ~p.err /\ p.ch[1].nrows > p.fnrows THEN [p EXCEPT !.ch = RevChain(p.ch)] ELSE p
DetermineChainHead(D, p, fs) ==
    IF ~p.err /\ p.ch[1].nrows > p.fnrows THEN AssignFilters(D, RevChain(p.ch), fs) ELSE p

(* smallestSelfJoin: the steps of a table that is joined with itself on one *)
(* index exchange their filters.                                            *)
Equiv(D, ch) ==
    CHOOSE n \in 1..Len(ch) :
        /\ \A j \in 2..n : Index(D, ch[j].lhs) = Index(D, ch[1].lhs)
                           /\ Index(D, ch[j].lhs) = Index(D, ch[1].rhs)
        /\ n < Len(ch) => \/ Index(D, ch[n + 1].lhs) # Index(D, ch[1].lhs)
                          \/ Index(D, ch[n + 1].lhs) # Index(D, ch[1].rhs)
Rank(ch, n, j) ==
    Cardinality({i \in 1..n : ch[i].nrows < ch[j].nrows \/ (ch[i].nrows = ch[j].nrows /\ i <= j)})
Exchanged(ch, n) ==
    [j \in DOMAIN ch |->
        IF j > n THEN ch[j]
        ELSE LET k == CHOOSE i \in 1..n : Rank(ch, n, i) = j
             IN  [ch[j] EXCEPT !.flist = ch[k].flist, !.nrows = ch[k].nrows]]
SmallestSelfJoin(D, p) == [p EXCEPT !.ch = Exchanged(@, Equiv(D, @))]

(* validateChain *)
ValidChain(D, ch) ==
    /\ \A j \in 1..(Len(ch) - 1) : ch[j].rhs.jan = ch[j + 1].lhs.jan
    /\ \A j \in DOMAIN ch : Index(D, ch[j].lhs) # <<>> /\ Index(D, ch[j].rhs) # <<>>
ValidateChain(D, p) == [p EXCEPT !.err = @ \/ ~ValidChain(D, p.ch)]

(* optimiseJoinPlan; without a filter the statement is refused, and two     *)
(* filters may come out of the sort in any order.                           *)
HeadOf(D, ch, fs) ==
    IF Filterless(ch, fs) THEN AssignFilters(D, RevChain(ch), fs)
    ELSE DetermineChainHead(D, AssignFilters(D, ch, fs), fs)
PlanChain(D, ijs, fs) ==
    ValidateChain(D, SmallestSelfJoin(D, HeadOf(D, AlignChainToJans(Chain(ijs, 1)), fs)))
Either(rev, s) == IF rev THEN Reverse(s) ELSE s
PlanSorted(D, ijs, rev) ==
    IF SelectSeq(ijs, IsFilter) = <<>> \/ SelectSeq(ijs, LAMBDA ij : ~IsFilter(ij)) = <<>>
    THEN Plan(<<>>, <<>>, 0, TRUE)
    ELSE PlanChain(D, SelectSeq(ijs, LAMBDA ij : ~IsFilter(ij)),
                   Either(rev, SelectSeq(ijs, IsFilter)))
OptimiseJoinPlan(D, conds, rev) == PlanSorted(D, SortJoinPlan(D, conds), rev)

----------------------------------------------------------------------------
(* join_op: the rows of one step, and below each of them the next one.  A   *)
(* joined row maps jans to rows; miss is JoinMiss.                          *)

Joined(miss, out) == [miss |-> miss, out |-> out]
Both(a, b) == Joined(a.miss \/ b.miss, a.out \o b.out)

(* keyOp with the key of the row above.  A UNIQUE index answers a key it    *)
(* does not have with an error.                                             *)
KeyRows(D, side, k) == RowsByPk(With(D.rows[D.tab[side.jan]], side.col, k), TRUE)
KeyMiss(D, side, k) ==
    D.s[D.tab[side.jan]][side.col] = "uniq" /\ With(D.rows[D.tab[side.jan]], side.col, k) = {}

RECURSIVE JoinOp(_, _, _, _, _)
StepDown(D, p, lvl, jr, k) ==
    IF KeyMiss(D, p.ch[lvl].rhs, k) THEN Joined(TRUE, <<>>)
    ELSE FoldLeft(LAMBDA a, r : Both(a, JoinOp(D, p, lvl + 1, p.ch[lvl].rhs.jan, [jr EXCEPT ![p.ch[lvl].rhs.jan] = r])),
                  Joined(FALSE, <<>>), KeyRows(D, p.ch[lvl].rhs, k))
JoinOp(D, p, lvl, jan, jr) ==
    IF lvl > Len(p.ch)
    THEN Joined(FALSE, IF PassFilts(p.fflist, jr[jan]) THEN <<jr>> ELSE <<>>)
    ELSE IF ~PassFilts(p.ch[lvl].flist, jr[jan]) THEN Joined(FALSE, <<>>)
    ELSE StepDown(D, p, lvl, jr, Col(jr[jan], p.ch[lvl].lhs.col))

(* setupFirstJoinStep: the first filter of the head is the lookup. *)
FirstStep(D, p) ==
    [w |-> p.ch[1].flist[1], klist |-> <<>>, flist |-> <<>>,
     wtype |-> WType(D.s[D.tab[p.ch[1].lhs.jan]], p.ch[1].flist[1]), refused |-> FALSE, wild |-> FALSE]
HeadIndexed(D, p) ==
    /\ ~p.err /\ p.ch[1].flist # <<>>
    /\ Index(D, Side(p.ch[1].lhs.jan, p.ch[1].flist[1].col)) # <<>>

(* The rows of the head; an OFFSET skips rows of the head as well as joined *)
(* rows.  A LIMIT that setQueued takes for this table ends the visit when   *)
(* as many joined rows were found, also when they are sorted afterwards.    *)
HeadVisit(g) ==
    IF g.p.wtype = "SINGLE" THEN [StartVisit(g.wb) EXCEPT !.out = RowsByPk(With(g.rows, 0, g.p.w.key), TRUE)]
    ELSE DoOp([g EXCEPT !.wb.lim = IF @ = -1 THEN @ ELSE NoRows])
HeadRange(D, p, wb) ==
    RangeOf(D.rows[D.tab[p.ch[1].lhs.jan]], D.s[D.tab[p.ch[1].lhs.jan]], FirstStep(D, p), wb, FALSE)
Empty(D) == FoldLeft(LAMBDA jr, tm : Append(jr, <<>>), <<>>, D.tab)
BelowHead(D, p, r) ==
    JoinOp(D, p, 1, p.ch[1].lhs.jan, [Empty(D) EXCEPT ![p.ch[1].lhs.jan] = r])
AllBelow(a, each) == FoldLeft(Both, a, each)
CutsAt(g, each) ==
    {n \in DOMAIN each : g.q.lim /\ Len(AllBelow(Joined(FALSE, <<>>), SubSeq(each, 1, n)).out) = g.wb.lim}
UpToLimit(each, cuts) == IF cuts = {} THEN each ELSE SubSeq(each, 1, First(cuts))
JoinEach(g, miss, each) == AllBelow(Joined(miss, <<>>), UpToLimit(each, CutsAt(g, each)))
JoinHead(D, p, g, v) == JoinEach(g, v.card = -1, [i \in DOMAIN v.out |-> BelowHead(D, p, v.out[i])])

(* JoinQed: sorted afterwards unless ORDER BY follows the head *)
JoinQed(D, p, g, obt) == g.q.qed \/ \E i \in DOMAIN obt : obt[i] # D.tab[p.ch[1].lhs.jan]

(* assignObKey: the key of a table is the one of its deepest step. *)
JansOf(p) == <<p.ch[1].lhs.jan>> \o [j \in DOMAIN p.ch |-> p.ch[j].rhs.jan]
Deepest(D, p, tm) ==
    LET at == {j \in DOMAIN JansOf(p) : D.tab[JansOf(p)[j]] = tm} IN JansOf(p)[Max(at)]
ObKeys(D, p, q, jr) == [i \in DOMAIN q.obt |-> Col(jr[Deepest(D, p, q.obt[i])], q.wb.obc[i])]

(* joinGeneric: LIMIT and OFFSET on the joined rows, sorted or as they come *)
KeyWob(wb) == [wb EXCEPT !.obc = [i \in DOMAIN wb.obc |-> i - 1]]
Unkeyed(rs, n) == [i \in DOMAIN rs |-> rs[i][n]]
SortJoined(D, p, q, out) ==
    Unkeyed(SortOB(KeyWob(q.wb), [k \in DOMAIN out |-> Append(ObKeys(D, p, q, out[k]), out[k])]),
            Len(q.obt) + 1)
JoinReply(D, p, q, qed, v) ==
    [err |-> v.miss, out |-> Window(q.wb, IF qed /\ q.obt # <<>> THEN SortJoined(D, p, q, v.out) ELSE v.out)]
JoinSteps(D, p, q, g) == JoinReply(D, p, q, JoinQed(D, p, g, q.obt), JoinHead(D, p, g, HeadVisit(g)))
JoinGeneric(D, p, q) ==
    IF HeadIndexed(D, p) THEN JoinSteps(D, p, q, HeadRange(D, p, q.wb)) ELSE [err |-> TRUE, out |-> <<>>]

----------------------------------------------------------------------------
(* The joins that give what they ask for *)

JoinPromised(D, p, q, g) ==
    /\ Promised(g) /\ g.p.w.op \in {"EQ", "RQ", "IN"}
    (* OFFSET skips rows of the head too, and a LIMIT that is taken for the  *)
    (* order of the head ends the visit before the rows are sorted.          *)
    /\ (q.wb.lim # -1 /\ JoinQed(D, p, g, q.obt)) => g.q.qed
    /\ q.wb.ofst > 0 => g.q.qed
    (* Aliases of one table: the filters change places, ORDER BY sees one.   *)
    /\ Equiv(D, p.ch) > 1 => \A j \in DOMAIN p.ch : p.ch[j].flist = <<>> \/ j = 1
    /\ q.obt # <<>> => IsInjective(D.tab)
    (* A UNIQUE index answers a key it does not have with an error.          *)
    /\ \A j \in DOMAIN p.ch : D.s[D.tab[p.ch[j].rhs.jan]][p.ch[j].rhs.col] # "uniq"

(* The joined rows that satisfy every condition *)
JoinHolds(ij, jr) ==
    IF IsFilter(ij) THEN Holds(ij.f, jr[ij.lhs.jan])
    ELSE Col(jr[ij.lhs.jan], ij.lhs.col) = Col(jr[ij.rhs.jan], ij.rhs.col)
Combinations(D) ==
    FoldLeft(LAMBDA S, tm : {Append(x, r) : x \in S, r \in D.rows[tm]}, {<<>>}, D.tab)
JoinWanted(D, q) ==
    {jr \in Combinations(D) : \A i \in DOMAIN q.conds : JoinHolds(q.conds[i], jr)}
=============================================================================
