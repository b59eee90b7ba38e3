---------------------------- MODULE Statements ----------------------------
(***************************************************************************)
(* SELECT, SCAN, DELETE and UPDATE on one table (alsosql.c, range.c,       *)
(* scan.c): the WHERE clause is parsed, planned, its rows visited, and     *)
(* then sent, deleted or changed.  A walk through a table with a cursor,   *)
(* LIMIT n OFFSET var, is a series of SELECTs.                             *)
(***************************************************************************)
EXTENDS Joins

CONSTANTS
    Pks, Avals, Bvals,  \* primary keys, values of the columns a (1) and b (3)
    WideFrom,           \* INTs from here on take more bytes in a row
    OtherSchema, OtherRows,  \* a second table, for joins
    Uses                \* the tables of the run, by name, and what is asked of them:
                        \*   schema   column to index, see Planner
                        \*   selects  clauses of SELECT, with COUNT or without
                        \*   scans    clauses of SCAN, after a WHERE or not
                        \*   joins    joins with the second table
                        \*   walks    clauses with a cursor
                        \*   deletes  clauses of DELETE
                        \*   updates  clauses of UPDATE and what is set

ASSUME StatementsAssumption ==
    /\ Pks \subseteq Nat /\ Avals \subseteq Nat /\ Bvals \subseteq Nat
    /\ WideFrom \in Nat

VARIABLES
    rows,       \* the rows of the table
    cursor,     \* the Redis variable of the cursor, -1 when there is none
    walk,       \* what the walk with the cursor has seen
    queue,      \* c->UpdateQueue
    reply,      \* "ok" or "err"
    fault,      \* freed memory was used
    use         \* the table of this behaviour, a name of Uses

vars == <<rows, cursor, walk, queue, reply, fault, use>>

Uof(pk) == 2 * pk       \* the column u (2) of a row: no two rows share it
RowOf(pk, a, b) == <<pk, a, Uof(pk), b>>
AllRows == {RowOf(pk, a, b) : pk \in Pks, a \in Avals, b \in Bvals}
U == Uses[use]
s0 == U.schema

(* Two rows that a UNIQUE index on MciCols does not take together *)
Clash(sch, r, t) ==
    \E c \in DOMAIN sch : sch[c] = "umci" /\ \A i \in DOMAIN MciCols : Col(r, MciCols[i]) = Col(t, MciCols[i])

NoQuery == [conds |-> <<>>, wb |-> NoWob, count |-> FALSE]
NoWalk == [q |-> NoQuery, seen |-> <<>>, done |-> FALSE]

Init ==
    /\ rows = {} /\ cursor = -1 /\ walk = NoWalk /\ queue = <<>>
    /\ reply = "ok" /\ fault = FALSE /\ use \in DOMAIN Uses

----------------------------------------------------------------------------
(* A statement of a client is [conds, wb]; PrintWC is how it writes it. *)

PrintFilter(f) ==
    CASE f.op = "IN" -> <<ColTok(f.col), Tok("IN"), Tok("(")>>
                        \o [i \in DOMAIN f.inl |-> NumTok(f.inl[i])] \o <<Tok(")")>>
      [] f.op = "RQ" -> <<ColTok(f.col), Tok("BETWEEN"), NumTok(f.low), Tok("AND"), NumTok(f.high)>>
      [] OTHER -> <<ColTok(f.col), Tok(f.op), NumTok(f.key)>>

Glue(parts, sep) ==
    FoldLeft(LAMBDA a, p : IF a = <<>> THEN p ELSE a \o <<sep>> \o p, <<>>, parts)

PrintWC(q) ==
    Glue([i \in DOMAIN q.conds |-> PrintFilter(q.conds[i])], Tok("AND"))
    \o (IF q.wb.obc = <<>> THEN <<>>
        ELSE <<Tok("ORDER"), Tok("BY")>>
             \o Glue([i \in DOMAIN q.wb.obc |->
                         <<ColTok(q.wb.obc[i])>> \o IF q.wb.asc[i] THEN <<>> ELSE <<Tok("DESC")>>],
                      Tok(",")))
    \o (IF q.wb.lim = -1 THEN <<>> ELSE <<Tok("LIMIT"), NumTok(q.wb.lim)>>)
    \o (IF q.wb.ovar THEN <<Tok("OFFSET"), Tok("var")>>
        ELSE IF q.wb.ofst = -1 THEN <<>> ELSE <<Tok("OFFSET"), NumTok(q.wb.ofst)>>)

----------------------------------------------------------------------------
(* SELECT *)

Answer(err, out, card) == [err |-> err, out |-> out, card |-> card]

(* iselectAction *)
Sent(g, v) == IF g.q.qed THEN Window(g.wb, SortOB(g.wb, v.out)) ELSE v.out
Counted(g, v, sent) ==
    IF v.card = -1 THEN Answer(TRUE, <<>>, -1)
    ELSE Answer(FALSE, sent, IF g.cstar THEN v.card ELSE Len(sent))
SendRows(g, v) == Counted(g, v, Sent(g, v))
ISelect(g) == SendRows(g, DoOp(g))

(* sqlSelectBinary, the lookup of one primary key *)
Found(out) == Answer(FALSE, out, Len(out))
SelectSingle(g) ==
    IF g.cstar THEN Answer(FALSE, <<>>, 1)
    ELSE Found(SelectSeq(RowsByPk(With(g.rows, 0, g.p.w.key), TRUE),
                         LAMBDA r : PassFilts(g.p.flist, r)))

(* sqlSelectInnards, sqlSelectBinary *)
Select(g) ==
    IF g.p.wtype = "ERR" \/ (g.cstar /\ g.wb.obc # <<>>) THEN Answer(TRUE, <<>>, -1)
    ELSE IF g.p.wtype = "SINGLE" THEN SelectSingle(g) ELSE ISelect(g)

SelectOf(S, sch, c, cstar) == RangeOf(S, sch, PlanOf(S, sch, c.flist), c.wb, cstar)

(* tscanCommand: all filters are left, the lookup is the primary key from   *)
(* the first to the last row.                                               *)
PkRange(pks, flist) ==
    [w |-> RangeFilter(0, Min(pks), Max(pks)), klist |-> <<>>, flist |-> flist,
     wtype |-> "RANGE", refused |-> FALSE, wild |-> FALSE]
ScanPlan(S, flist) == PkRange({Col(r, 0) : r \in S}, flist)
ScanOf(S, sch, c) == RangeOf(S, sch, ScanPlan(S, c.flist), c.wb, FALSE)

IncrOffsetVar(wb, card) ==
    IF wb.lim > card THEN -1 ELSE IF wb.ofst = -1 THEN card ELSE wb.ofst + card

(* One page of a walk: SELECT ... LIMIT n OFFSET var *)
PageOf(q, wb, a) ==
    /\ cursor' = IncrOffsetVar(wb, a.card)
    /\ walk' = [q |-> q, seen |-> walk.seen \o a.out, done |-> cursor' = -1]
PageRows(q, g) == Promised(g) /\ PageOf(q, g.wb, Select(g))
Page(q) ==
    /\ walk.q \in {NoQuery, q} /\ ~walk.done
    /\ PageRows(q, SelectOf(rows, s0, ParseWC(PrintWC(q), cursor), FALSE))
    /\ reply' = "ok"
    /\ UNCHANGED <<rows, queue, fault, use>>

----------------------------------------------------------------------------
(* INSERT; what it does to the indexes is RowIndex.  Rows come in the order *)
(* of their keys: the trees do not remember another one.                    *)

Write == cursor = -1 /\ walk' = NoWalk /\ UNCHANGED <<cursor, use>>

Insert(r) ==
    /\ ~fault /\ Write
    /\ \A t \in rows : Col(t, 0) < Col(r, 0) /\ ~Clash(s0, r, t)
    /\ rows' = rows \cup {r}
    /\ reply' = "ok"
    /\ UNCHANGED <<queue, fault>>

----------------------------------------------------------------------------
(* DELETE *)

(* ideleteAction; opDeleteSort takes the sorted rows from the end. *)
DeletedOf(g, v) == IF g.q.qed THEN Window(g.wb, Reverse(SortOB(g.wb, v.out))) ELSE v.out
DeletedSeq(g) ==
    IF g.p.wtype = "SINGLE" THEN RowsByPk(With(g.rows, 0, g.p.w.key), TRUE)
    ELSE DeletedOf(g, DoOp(g))

(* deleteInnards *)
DeleteRows(g) ==
    /\ ~g.p.wild
    /\ rows' = IF g.p.wtype = "ERR" THEN rows ELSE rows \ ToSet(DeletedSeq(g))
    /\ reply' = IF g.p.refused THEN "err" ELSE "ok"
DeleteWhere(c) ==
    IF c.ok THEN DeleteRows(SelectOf(rows, s0, c, FALSE)) ELSE rows' = rows /\ reply' = "err"
Delete(q) ==
    /\ ~fault /\ Write
    /\ DeleteWhere(ParseWC(PrintWC(q), -1))
    /\ UNCHANGED <<queue, fault>>

----------------------------------------------------------------------------
(* UPDATE *)

(* evalExpr of col - n, or the value itself *)
NewVal(set, r) == IF set.op = "minus" THEN Col(r, set.col) - set.val ELSE set.val
Fails(set, r) == NewVal(set, r) < 0
NewRow(set, r) == [r EXCEPT ![set.col + 1] = NewVal(set, r)]

Indexed(sch, c) == sch[c] # "none" \/ (HasMci(sch) /\ c \in ToSet(MciCols))
Wide(n) == n >= WideFrom

(* updateRow's choice: a column without index whose value keeps its size is *)
(* written into the row at once, anything else makes a new row.             *)
Overwrites(sch, set, r) ==
    ~Indexed(sch, set.col) /\ Wide(Col(r, set.col)) = Wide(NewVal(set, r))

Replace(S, r, t) == (S \ {r}) \cup {t}

(* updateRow for each of the rows of a range: u holds the rows as they are, *)
(* the queue of new rows, and whether one of them failed.                   *)
UpdateRow(sch, set, u, r) ==
    IF u.fail \/ Fails(set, r) THEN [u EXCEPT !.fail = TRUE]
    ELSE IF Overwrites(sch, set, r)
    THEN [u EXCEPT !.rows = Replace(@, r, NewRow(set, r))]
    ELSE [u EXCEPT !.queue = Append(@, <<r, NewRow(set, r)>>)]

(* runUpdateQueue *)
RunUpdateQueueShort(S, q) ==
    FoldLeft(LAMBDA a, e : Replace(a, e[1], e[2]), S, SubSeq(q, 1, Len(q) - 1))
RunUpdateQueue(S, q) == FoldLeft(LAMBDA a, e : Replace(a, e[1], e[2]), S, q)

(* iupdateAction.  When a sorted update fails, the queue keeps the rows     *)
(* whose keys were freed with the sorted list.                              *)
Updated(qed, old, u, none) ==
    IF u.fail
    THEN [rows |-> u.rows, queue |-> IF qed THEN old \o u.queue ELSE <<>>,
          err |-> TRUE, fault |-> old # <<>> /\ ~qed]
    ELSE [rows |-> RunUpdateQueue(u.rows, u.queue), queue |-> <<>>,
          err |-> FALSE, fault |-> old # <<>> /\ ~none]
UpdateRows(g, set, old, rs) ==
    Updated(g.q.qed, old,
            FoldLeft(LAMBDA a, r : UpdateRow(g.s, set, a, r),
                     [rows |-> g.rows, queue |-> <<>>, fail |-> FALSE], rs),
            rs = <<>>)
IUpdate(g, set, old) == UpdateRows(g, set, old, Sent(g, DoOp(g)))

(* updateInnards, the update of one row by its primary key *)
Same(g, old, err) == [rows |-> g.rows, queue |-> old, err |-> err, fault |-> FALSE]
UpdateOne(g, set, old, r) ==
    IF Fails(set, r) \/ \E t \in g.rows \ {r} : Clash(g.s, NewRow(set, r), t) THEN Same(g, old, TRUE)
    ELSE [Same(g, old, FALSE) EXCEPT !.rows = Replace(g.rows, r, NewRow(set, r))]
SingleUpdate(g, set, old) ==
    IF With(g.rows, 0, g.p.w.key) = {} THEN Same(g, old, FALSE)
    ELSE UpdateOne(g, set, old, CHOOSE r \in With(g.rows, 0, g.p.w.key) : TRUE)

(* isUpdatingIndex: a range may not set a column of a UNIQUE index. *)
UniqueUp(sch, c) == sch[c] = "uniq" \/ (c \in ToSet(MciCols) /\ \E d \in DOMAIN sch : sch[d] = "umci")

(* updateInnards *)
UpdateResult(g, set, old) ==
    IF g.p.wtype = "ERR" \/ (g.p.wtype # "SINGLE" /\ UniqueUp(g.s, set.col)) THEN Same(g, old, TRUE)
    ELSE [IF g.p.wtype = "SINGLE" THEN SingleUpdate(g, set, old) ELSE IUpdate(g, set, old)
             EXCEPT !.err = @ \/ g.p.refused]

UpdateTo(u) ==
    /\ rows' = u.rows /\ queue' = u.queue
    /\ fault' = (fault \/ u.fault)
    /\ reply' = IF u.err THEN "err" ELSE "ok"
UpdateWhere(g, set) == ~g.p.wild /\ UpdateTo(UpdateResult(g, set, queue))
UpdateClause(c, set) ==
    IF c.ok THEN UpdateWhere(SelectOf(rows, s0, c, FALSE), set)
    ELSE reply' = "err" /\ UNCHANGED <<rows, queue, fault>>
Update(q, set) ==
    /\ ~fault /\ Write
    /\ UpdateClause(ParseWC(PrintWC(q), -1), set)

----------------------------------------------------------------------------

Next ==
    \/ \E r \in AllRows : Insert(r)
    \/ \E t \in U.walks : Page(t)
    \/ \E t \in U.deletes : Delete(t)
    \/ \E t \in U.updates : Update(t.q, t.set)

Spec == Init /\ [][Next]_vars

----------------------------------------------------------------------------
(* What the statements promise *)

(* The statements are tried once on every content of the table. *)
Fresh == walk = NoWalk /\ reply = "ok" /\ queue = <<>>

(* The clauses of the run as the parser reads them *)
Asked == UNION {Uses[u].selects \cup Uses[u].scans \cup Uses[u].deletes
                \cup {t.q : t \in Uses[u].updates} : u \in DOMAIN Uses}
Parsed == [q \in Asked |-> ParseWC(PrintWC(q), -1)]

Wanted(S, q) == {r \in S : \A i \in DOMAIN q.conds : Holds(q.conds[i], r)}

(* out is what is left of the wanted rows, in an order that ORDER BY        *)
(* allows, without the first OFFSET ones and with at most LIMIT of them.    *)
Pos(n) == IF n > 0 THEN n ELSE 0
IsWindow(W, wb, out) ==
    /\ IsInjective(out) /\ ToSet(out) \subseteq W
    /\ Len(out) = Min({Pos(Cardinality(W) - Pos(wb.ofst))} \cup ({wb.lim} \ {-1}))
    /\ \A i \in DOMAIN out :
           /\ Cardinality({r \in W : Before(wb, 1, r, out[i])}) < Pos(wb.ofst) + i
           /\ Pos(wb.ofst) + i <= Cardinality({r \in W : ~Before(wb, 1, out[i], r)})
IsSlice(S, q, out) == IsWindow(Wanted(S, q), q.wb, out)

(* A SELECT or SCAN, from its words, answers exactly the rows that satisfy  *)
(* all of its conditions, in the order and the window it asks for, whatever *)
(* index the planner chose and whether the rows were sorted afterwards;     *)
(* COUNT answers their number (sqlSelectInnards, tscanCommand).             *)
SelectMeans(q, g) ==
    Promised(g) =>
        \E a \in {Select(g)} :
            ~a.err /\ IF g.cstar THEN a.card = Cardinality(Wanted(g.rows, q))
                      ELSE IsSlice(g.rows, q, a.out)
ScanMeans(q, g) == Promised(g) => IsSlice(g.rows, q, ISelect(g).out)
SelectExact ==
    Fresh =>
    /\ \A q \in U.selects : \A cstar \in {FALSE, q.count} :
           Parsed[q].ok /\ SelectMeans(q, SelectOf(rows, s0, Parsed[q], cstar))
    /\ \A q \in U.scans :
           rows # {} => Parsed[q].ok /\ ScanMeans(q, ScanOf(rows, s0, Parsed[q]))

(* A join answers exactly the combinations of rows that satisfy all of its  *)
(* conditions, in the order and the window it asks for, from whichever end  *)
(* of the chain it starts and whatever filters go to which step (doJoin).   *)
Both2(j) == [tab |-> j.tab, rows |-> <<rows, OtherRows>>, s |-> <<s0, OtherSchema>>]
Keyed(D, q, jr) ==
    Append([i \in DOMAIN q.obt |-> Col(jr[First({j \in DOMAIN D.tab : D.tab[j] = q.obt[i]})], q.wb.obc[i])], jr)
JoinAnswer(D, p, q, a) ==
    ~a.err /\ IsWindow({Keyed(D, q, jr) : jr \in JoinWanted(D, q)}, KeyWob(q.wb),
                       [i \in DOMAIN a.out |-> Keyed(D, q, a.out[i])])
JoinMeans(D, p, q) ==
    HeadIndexed(D, p) /\ JoinPromised(D, p, q, HeadRange(D, p, q.wb)) =>
        JoinAnswer(D, p, q, JoinGeneric(D, p, q))
JoinExact ==
    Fresh => \A j \in U.joins : \A rev \in BOOLEAN :
                 JoinMeans(Both2(j), OptimiseJoinPlan(Both2(j), j.conds, rev), j)

(* What DELETE and UPDATE do not promise over SELECT: by primary key they   *)
(* do not look at the other conditions; a sorted DELETE takes the last rows *)
(* first.                                                                   *)
ChangePromised(g) == Promised(g) /\ (g.p.wtype = "SINGLE" => g.p.flist = <<>>)

(* A DELETE removes exactly the rows it selects, and an UPDATE that answers *)
(* a count changes each row it selects once and no other, also when it      *)
(* changes the column whose index it walks (ideleteAction, iupdateAction).  *)
DeleteMeans(q, g) ==
    ChangePromised(g) /\ ~(g.q.qed /\ q.wb.lim # -1) =>
        IsSlice(g.rows, [q EXCEPT !.wb.obc = <<>>], DeletedSeq(g))
UpdateMeans(t, g) ==
    ChangePromised(g) /\ t.q.wb.lim = -1 =>
        \E u \in {UpdateResult(g, t.set, <<>>)} :
            ~u.err => u.rows = {IF r \in Wanted(g.rows, t.q) THEN NewRow(t.set, r) ELSE r : r \in g.rows}
ChangeExact ==
    Fresh =>
    /\ \A q \in U.deletes : Parsed[q].ok => DeleteMeans(q, SelectOf(rows, s0, Parsed[q], FALSE))
    /\ \A t \in U.updates : UpdateMeans(t, SelectOf(rows, s0, Parsed[t.q], FALSE))

(* The pages of a cursor put together are the answer without LIMIT: no row  *)
(* twice, none left out (incrOffsetVar).                                    *)
Whole(q) == [q EXCEPT !.wb.lim = -1, !.wb.ovar = FALSE]

(* A statement that answers an error changes nothing (row.c, "apply when    *)
(* ALL have passed").                                                       *)
RefusedNoChange == [][reply' = "err" => rows' = rows]_vars
=============================================================================
