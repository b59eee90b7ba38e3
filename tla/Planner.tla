---------------------------- MODULE Planner ----------------------------
(***************************************************************************)
(* The WHERE clause of SELECT, DELETE and UPDATE: from its words to a list *)
(* of filters, an ORDER BY, a LIMIT and an OFFSET (wc.c), and what a       *)
(* filter says of a row (filter.c, range.c passFilts).                     *)
(*                                                                         *)
(* A clause is a sequence of tokens [t, v]: a keyword, an operator, a      *)
(* column or a number.  Columns are numbered from 0, the primary key; a    *)
(* row is the tuple of its columns.                                        *)
(***************************************************************************)
EXTENDS Integers, Sequences, FiniteSets, SequencesExt

Tok(t) == [t |-> t, v |-> 0]
ColTok(c) == [t |-> "col", v |-> c]
NumTok(n) == [t |-> "num", v |-> n]

Operators == {"EQ", "NE", "GT", "GE", "LT", "LE"}

(* newEmptyFilter: a filter holds a key, a range or a list of keys. *)
EmptyFilter(c, op) ==
    [col |-> c, op |-> op, key |-> 0, low |-> 0, high |-> 0, inl |-> <<>>]
KeyFilter(c, op, k) == [EmptyFilter(c, op) EXCEPT !.key = k]
RangeFilter(c, lo, hi) == [EmptyFilter(c, "RQ") EXCEPT !.low = lo, !.high = hi]
InFilter(c, ks) == [EmptyFilter(c, "IN") EXCEPT !.inl = ks]

(* init_wob *)
NoWob == [obc |-> <<>>, asc |-> <<>>, lim |-> -1, ofst |-> -1, ovar |-> FALSE]

----------------------------------------------------------------------------
(* Places in a clause *)

FirstAt(s, t, from) ==
    LET at == {i \in from..Len(s) : s[i].t = t}
    IN  IF at = {} THEN 0 ELSE CHOOSE i \in at : \A j \in at : i <= j
From(s, i) == SubSeq(s, i, Len(s))
IsTok(s, i, t) == i \in DOMAIN s /\ s[i].t = t

(* setOffsetReply: the value of a Redis variable, 0 when it does not exist  *)
(* (wb->ofst then stays at -1), or a number.                                *)
SetOffset(wb, tok, cursor) ==
    IF tok.t = "var" THEN [wb EXCEPT !.ovar = TRUE, !.ofst = cursor]
    ELSE [wb EXCEPT !.ofst = tok.v]

(* parseLimit; what it could not read is left over. *)
ParseLimit(s, wb, cursor) ==
    IF ~IsTok(s, 1, "LIMIT") THEN [ok |-> TRUE, wb |-> wb, lvr |-> s]
    ELSE IF Len(s) = 1 THEN [ok |-> FALSE, wb |-> wb, lvr |-> <<>>]
    ELSE LET lim == [wb EXCEPT !.lim = s[2].v]
         IN  IF ~IsTok(s, 3, "OFFSET") THEN [ok |-> TRUE, wb |-> lim, lvr |-> From(s, 3)]
             ELSE IF Len(s) = 3 THEN [ok |-> FALSE, wb |-> lim, lvr |-> <<>>]
             ELSE [ok |-> TRUE, wb |-> SetOffset(lim, s[4], cursor), lvr |-> From(s, 5)]

(* parseOBYcol, in the loop of parseOrderBy: columns with DESC or without,  *)
(* up to a LIMIT.                                                           *)
RECURSIVE ParseOrderBy(_, _)
ParseOrderBy(s, wb) ==
    IF ~IsTok(s, 1, "col") THEN [ok |-> FALSE, wb |-> wb, lvr |-> <<>>]
    ELSE LET desc == IsTok(s, 2, "DESC")
             rest == From(s, IF desc THEN 3 ELSE 2)
             wb2 == [wb EXCEPT !.obc = Append(@, s[1].v), !.asc = Append(@, ~desc)]
         IN  IF IsTok(rest, 1, ",") THEN ParseOrderBy(From(rest, 2), wb2)
             ELSE [ok |-> TRUE, wb |-> wb2, lvr |-> rest]

(* parseWCEnd: ORDER BY, then LIMIT; the rest is an error of the statement. *)
ParseWCEnd(s, wb, cursor) ==
    LET o == IF IsTok(s, 1, "ORDER") /\ IsTok(s, 2, "BY")
             THEN (IF IsTok(s, 3, "LIMIT") THEN [ok |-> TRUE, wb |-> wb, lvr |-> From(s, 3)]
                   ELSE ParseOrderBy(From(s, 3), wb))
             ELSE [ok |-> ~IsTok(s, 1, "ORDER"), wb |-> wb, lvr |-> s]
    IN  IF o.ok THEN ParseLimit(o.lvr, o.wb, cursor) ELSE o

----------------------------------------------------------------------------
(* One condition.  f is the filter, fin what follows it in the token. *)

NoFilter == EmptyFilter(-1, "NONE")
Refused == [ok |-> FALSE, f |-> NoFilter, fin |-> <<>>]

(* pWC_IN: the numbers up to the closing parenthesis *)
PWcIn(s) ==
    LET end == FirstAt(s, ")", 4)
        nums == SelectSeq(SubSeq(s, 4, end - 1), LAMBDA x : x.t = "num")
    IN  IF end = 0 \/ ~IsTok(s, 3, "(") THEN Refused
        ELSE [ok |-> TRUE, f |-> InFilter(s[1].v, [i \in DOMAIN nums |-> nums[i].v]),
              fin |-> From(s, end + 1)]

(* pRangeReply *)
PRange(s) ==
    IF ~(IsTok(s, 3, "num") /\ IsTok(s, 4, "AND") /\ IsTok(s, 5, "num")) THEN Refused
    ELSE [ok |-> TRUE, f |-> RangeFilter(s[1].v, s[3].v, s[5].v), fin |-> From(s, 6)]

(* parseWCTokRelation; a column nobody knows ends here as well. *)
ParseTokRelation(s, ttype) ==
    IF ~IsTok(s, 1, "col") THEN Refused
    ELSE IF ttype = "KEY"
    THEN IF IsTok(s, 3, "num") /\ s[2].t \in Operators
         THEN [ok |-> TRUE, f |-> KeyFilter(s[1].v, s[2].t, s[3].v), fin |-> From(s, 4)]
         ELSE Refused
    ELSE IF IsTok(s, 2, "IN") THEN PWcIn(s)
    ELSE IF IsTok(s, 2, "BETWEEN") THEN PRange(s)
    ELSE Refused

(* The end of the condition that starts the line, as parseWC looks for it:  *)
(* the next AND, but not one inside the list of an IN nor the one of a      *)
(* BETWEEN.                                                                 *)
CutAtFirstAnd(s) ==
    LET in == FirstAt(s, "IN", 1)
        and == FirstAt(s, "AND", 1)
    IN  [ttype |-> IF in # 0 /\ (and = 0 \/ in < and) THEN "IN"
                   ELSE IF FirstAt(s, "BETWEEN", 1) # 0 THEN "RANGE" ELSE "KEY",
         and |-> and]
Cut(s) ==
    LET in == FirstAt(s, "IN", 1)
        and == FirstAt(s, "AND", 1)
        btwn == FirstAt(s, "BETWEEN", 1)
    IN  IF and # 0 /\ in # 0 /\ in < and
        THEN [ttype |-> "IN", and |-> FirstAt(s, "AND", FirstAt(s, ")", in))]
        ELSE IF and # 0 /\ btwn # 0 /\ btwn < and
        THEN [ttype |-> "RANGE", and |-> FirstAt(s, "AND", and + 1)]
        ELSE [ttype |-> IF in # 0 /\ and = 0 THEN "IN" ELSE "KEY", and |-> and]
(* parseWC: the filters in the order of the clause.  What stands between a  *)
(* condition and the AND behind it is skipped.                              *)
RECURSIVE ParseConds(_, _, _)
ClauseEnd(fl, e) == [ok |-> e.ok /\ e.lvr = <<>>, flist |-> fl, wb |-> e.wb]
WCEnd(fin, cursor) ==
    IF fin = <<>> THEN [ok |-> TRUE, wb |-> NoWob, lvr |-> <<>>] ELSE ParseWCEnd(fin, NoWob, cursor)
Condition(s, and, r, fl, cursor) ==
    IF ~r.ok THEN [ok |-> FALSE, flist |-> fl, wb |-> NoWob]
    ELSE IF and # 0 /\ and < Len(s) THEN ParseConds(From(s, and + 1), Append(fl, r.f), cursor)
    ELSE ClauseEnd(Append(fl, r.f), WCEnd(r.fin, cursor))
CutCondition(s, cut, fl, cursor) ==
    Condition(s, cut.and,
              ParseTokRelation(IF cut.and = 0 THEN s ELSE SubSeq(s, 1, cut.and - 1), cut.ttype),
              fl, cursor)
ParseConds(s, fl, cursor) == CutCondition(s, Cut(s), fl, cursor)
ParseWC(s, cursor) == ParseConds(s, <<>>, cursor)

----------------------------------------------------------------------------
(* What a filter says of a row *)

Col(r, c) == r[c + 1]

(* OP_CMP: the comparison of the column with the key of the filter *)
Compare(op, k, x) ==
    CASE op = "EQ" -> x = k [] op = "NE" -> x # k
      [] op = "GT" -> x > k [] op = "GE" -> x >= k
      [] op = "LT" -> x < k [] op = "LE" -> x <= k

Holds(f, r) ==
    CASE f.op = "IN" -> \E i \in DOMAIN f.inl : f.inl[i] = Col(r, f.col)
      [] f.op = "RQ" -> f.low <= Col(r, f.col) /\ Col(r, f.col) <= f.high
      [] OTHER       -> Compare(f.op, f.key, Col(r, f.col))

(* passFilts *)
PassFilts(fl, r) == \A i \in DOMAIN fl : Holds(fl[i], r)

-----------------------------------------------------------------------------
(***************************************************************************)
(* The plan of a statement on one table (qo.c): which filter becomes the   *)
(* lookup, which ones lead further down a compound index (an MCI), which   *)
(* ones are left to be tried on every row.                                 *)
(*                                                                         *)
(* A schema maps a column to the index that starts with it: "virt" the     *)
(* primary key, "fk" a plain index, "uniq" a UNIQUE one, "mci" and "umci"  *)
(* a plain and a UNIQUE index on the columns of Clist, "none" no index.    *)
(* No column has more than one EQ filter: two of them overflow the int     *)
(* that mciHitSort returns.                                                *)
(***************************************************************************)

CONSTANT QopMax         \* QOP_MAX_NUM_CHECK: longer ranges are not counted

ASSUME PlannerAssumption == QopMax \in Nat

MciCols == <<1, 3>>     \* the columns of a compound index

IsMci(s, c) == s[c] \in {"mci", "umci"}
IsUniq(s, c) == s[c] \in {"uniq", "umci"}
Clist(s, c) == IF IsMci(s, c) THEN MciCols ELSE <<>>
HasMci(s) == \E c \in DOMAIN s : IsMci(s, c)
With(rows, c, k) == {r \in rows : Col(r, c) = k}

----------------------------------------------------------------------------
(* The cost of a filter.  CntIndxd stands for an index whose cost is not    *)
(* known, NoCount for a filter that cannot be the lookup, and WILD for the  *)
(* count that takes a primary key out of a UNIQUE tree for the address of a *)
(* tree.                                                                    *)

CntIndxd == 100
NoCount == 101
WILD == -1

SumOver(S, Op(_)) == FoldSet(LAMBDA x, n : n + Op(x), 0, S)
NumKeys(rows, s, c, ks) ==
    IF s[c] = "uniq" /\ \E k \in ks : With(rows, c, k) # {} THEN WILD
    ELSE SumOver(ks, LAMBDA k : Cardinality(With(rows, c, k)))

(* numRows4Key *)
NumRows4Key(rows, s, f) ==
    IF s[f.col] = "virt" \/ IsUniq(s, f.col) THEN 1
    ELSE Cardinality(With(rows, f.col, f.key))

(* numRows4Range *)
NumRows4Range(rows, s, f) ==
    IF s[f.col] = "virt" THEN f.high - f.low
    ELSE IF f.high - f.low > QopMax THEN CntIndxd
    ELSE NumKeys(rows, s, f.col, f.low..f.high)

(* numRows4INL; a key that stands twice in the list counts twice. *)
SumCounts(each) ==
    IF WILD \in ToSet(each) THEN WILD ELSE SumOver(DOMAIN each, LAMBDA i : each[i])
NumRows4INL(rows, s, f) ==
    IF s[f.col] = "virt" THEN Len(f.inl)
    ELSE IF Len(f.inl) > QopMax THEN CntIndxd
    ELSE SumCounts([i \in DOMAIN f.inl |-> NumKeys(rows, s, f.col, {f.inl[i]})])

(* getNumRow4Filter, with the conditions of sortFLCheap *)
Cost(rows, s, f) ==
    IF s[f.col] = "none" \/ IsMci(s, f.col) THEN NoCount
    ELSE CASE f.op = "EQ" -> NumRows4Key(rows, s, f)
           [] f.op = "RQ" -> NumRows4Range(rows, s, f)
           [] f.op = "IN" -> NumRows4INL(rows, s, f)
           [] OTHER       -> NoCount

ToHead(fl, i) == <<fl[i]>> \o SubSeq(fl, 1, i - 1) \o SubSeq(fl, i + 1, Len(fl))

(* The loop of sortFLCheap: the first of the cheapest filters to the head *)
First(S) == CHOOSE i \in S : \A j \in S : i <= j
Cheapest(cost) ==
    {i \in DOMAIN cost : cost[i] # NoCount /\ \A j \in DOMAIN cost : cost[i] <= cost[j]}
CheapFirst(fl, cost) ==
    [wild |-> \E i \in DOMAIN fl : cost[i] = WILD,
     flist |-> IF Cheapest(cost) = {} THEN fl ELSE ToHead(fl, First(Cheapest(cost)))]
SortFLCheap(rows, s, fl) == CheapFirst(fl, [i \in DOMAIN fl |-> Cost(rows, s, fl[i])])

----------------------------------------------------------------------------
(* Compound indexes *)

FiltersOn(fl, c) == {i \in DOMAIN fl : fl[i].col = c}
EqOn(fl, c) == {i \in FiltersOn(fl, c) : fl[i].op = "EQ"}

(* The hitmap of matchCheapestMCI: the first columns weigh most. *)
Hit(fl, cl) == SumOver(DOMAIN cl, LAMBDA i : 2 ^ (Len(cl) - i) * Cardinality(EqOn(fl, cl[i])))
Clen(fl, cl) == SumOver(DOMAIN cl, LAMBDA i : Cardinality(EqOn(fl, cl[i])))

(* mciHitSort: most hits first.  The filters on the column that starts the  *)
(* only compound index have the same hits, all others none.                 *)
Hits(s, fl) == {f \in ToSet(fl) : Hit(fl, Clist(s, f.col)) > 0}
HitsFirst(fl, hits) ==
    SelectSeq(fl, LAMBDA f : f \in hits) \o SelectSeq(fl, LAMBDA f : f \notin hits)
MciHitSort(s, fl) == HitsFirst(fl, Hits(s, fl))

(* sortFlist2Clist: the first filter on each column of the index to the     *)
(* head, in the order of the index                                          *)
RECURSIVE SortFlist2Clist(_, _)
SortFlist2Clist(fl, cl) ==
    IF cl = <<>> THEN fl
    ELSE SortFlist2Clist(IF FiltersOn(fl, Last(cl)) = {} THEN fl
                         ELSE ToHead(fl, First(FiltersOn(fl, Last(cl)))),
                         Front(cl))

(* createKList: the filters that stand at the place of their column *)
KLen(fl, cl) ==
    Cardinality({i \in DOMAIN fl \cap DOMAIN cl : fl[i].col = cl[i]})

(* matchCheapestMCI.  klist is the part of the filters that the index       *)
(* itself answers; stop says that nothing is left to choose.                *)
Expected(s, c) == IF IsUniq(s, c) THEN Len(MciCols) - 1 ELSE Len(MciCols)
SplitKList(rows, s, sorted, n) ==
    [klist |-> SubSeq(sorted, 1, n), flist |-> From(sorted, n + 1),
     stop |-> /\ Clen(sorted, MciCols) = Expected(s, MciCols[1])
              /\ With(rows, MciCols[1], sorted[1].key) # {}]
AlongClist(rows, s, sorted) == SplitKList(rows, s, sorted, KLen(sorted, MciCols))
MatchHits(rows, s, hits) ==
    IF IsMci(s, hits[1].col) THEN AlongClist(rows, s, SortFlist2Clist(hits, MciCols))
    ELSE [klist |-> <<>>, flist |-> hits, stop |-> FALSE]
MatchCheapestMCI(rows, s, fl) ==
    IF HasMci(s) /\ \E i \in DOMAIN fl : IsMci(s, fl[i].col)
    THEN MatchHits(rows, s, MciHitSort(s, fl))
    ELSE [klist |-> <<>>, flist |-> fl, stop |-> FALSE]

----------------------------------------------------------------------------
(* promoteKLorFLtoW and optimiseRangeQueryPlan: the first filter becomes    *)
(* the lookup w.  A plan that is refused still has its lookup when the      *)
(* column has an index: parseWCplusQO drops the answer of the planner.      *)

WType(s, f) ==
    CASE f.op = "RQ" -> "RANGE" [] f.op = "IN" -> "IN"
      [] OTHER -> IF s[f.col] = "virt" THEN "SINGLE" ELSE "SINGLE_FK"

Lookup(s, w, klist, flist, wild) ==
    [w |-> w, klist |-> klist, flist |-> flist, wild |-> wild,
     wtype |-> IF s[w.col] = "none" THEN "ERR" ELSE WType(s, w),
     refused |-> s[w.col] = "none" \/ w.op \notin {"EQ", "RQ", "IN"}]
Promote(s, klist, c) ==
    IF klist # <<>> THEN Lookup(s, klist[1], Tail(klist), c.flist, c.wild)
    ELSE Lookup(s, c.flist[1], <<>>, Tail(c.flist), c.wild)

Sorted(rows, s, m) ==
    Promote(s, m.klist, IF m.stop \/ m.flist = <<>> THEN [flist |-> m.flist, wild |-> FALSE]
                        ELSE SortFLCheap(rows, s, m.flist))

PlanOf(rows, s, flist) == Sorted(rows, s, MatchCheapestMCI(rows, s, flist))
=============================================================================
