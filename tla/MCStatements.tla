--------------------------- MODULE MCStatements ---------------------------
EXTENDS Statements

(* Columns: 0 pk, 1 a, 2 u, 3 b *)
Eq(c, k) == KeyFilter(c, "EQ", k)
Gt(c, k) == KeyFilter(c, "GT", k)
Ne(c, k) == KeyFilter(c, "NE", k)
Btw(c, lo, hi) == RangeFilter(c, lo, hi)
In(c, ks) == InFilter(c, ks)

By(cols) == [NoWob EXCEPT !.obc = cols, !.asc = [i \in DOMAIN cols |-> TRUE]]
ByDesc(cols, asc) == [NoWob EXCEPT !.obc = cols, !.asc = asc]
Lim(wb, n, m) == [wb EXCEPT !.lim = n, !.ofst = m]
Cursor(wb, n) == [wb EXCEPT !.lim = n, !.ovar = TRUE]

Ask(fs, wb) == [conds |-> fs, wb |-> wb, count |-> wb.obc = <<>>]

PkConds == {
    <<Eq(0, 2)>>, <<Btw(0, 1, 3)>>, <<In(0, <<3, 1, 9>>)>>, <<Gt(0, 2)>>,
    <<Eq(3, 0), Btw(0, 2, 4)>>}
AConds == {
    <<Eq(1, 1)>>, <<Btw(1, 1, 2)>>, <<In(1, <<2, 1>>)>>,
    <<Eq(3, 1), Eq(1, 1)>>, <<In(1, <<1, 2>>), Btw(0, 1, 4), Ne(3, 0)>>}
UConds == {
    <<Eq(2, 4)>>, <<Btw(2, 1, 6)>>, <<Btw(2, 2, 6), Eq(1, 2), Eq(3, 1)>>}
PkWobs == {
    NoWob, Lim(NoWob, 1, 1), By(<<3>>), ByDesc(<<0>>, <<FALSE>>), Lim(By(<<3, 0>>), 2, 1)}
AWobs == {
    Lim(NoWob, 2, 2), By(<<1, 0>>), By(<<0>>),
    Lim(ByDesc(<<1>>, <<FALSE>>), 1, 1), Lim(By(<<1, 3>>), 2, 1), Lim(ByDesc(<<3, 0>>, <<FALSE, TRUE>>), 2, 1)}
Asks(C, W) == {Ask(c, w) : c \in C, w \in W}

Scans == Asks({<<Eq(3, 1)>>, <<Gt(0, 1), Ne(1, 2)>>, <<Btw(2, 4, 6)>>},
              {NoWob, Lim(By(<<3, 0>>), 2, 1)})
Walk(c, n) == Ask(<<c>>, Cursor(NoWob, n))
Sorted2(c) == Ask(<<c>>, Cursor(By(<<3, 0>>), 2))
Deletes == {Ask(<<Eq(0, 1)>>, NoWob), Ask(<<Eq(0, 1)>>, [NoWob EXCEPT !.ofst = 1]), Ask(<<Btw(0, 1, 3), Eq(3, 1)>>, NoWob),
            Ask(<<Eq(1, 1)>>, Lim(NoWob, 1, 1)), Ask(<<In(1, <<1, 2>>), Eq(3, 0)>>, By(<<3>>))}
Set(c, op, n) == [col |-> c, op |-> op, val |-> n]
Updates == {[q |-> Ask(c, NoWob), set |-> t] :
                c \in {<<Eq(0, 1)>>, <<Btw(0, 1, 4)>>, <<Eq(1, 1)>>, <<Btw(1, 1, 2)>>},
                t \in {Set(1, "=", 2), Set(3, "minus", 1), Set(3, "=", 1)}}

Schema(i1, i2) == (0 :> "virt" @@ 1 :> i1 @@ 2 :> i2 @@ 3 :> "none")
(* Joins: table 1 is the table of the run, table 2 the second one *)
J(l, r) == Pair(l, r)
F(jan, f) == JoinFilter(jan, f)
JoinOf(tab, conds, wb, obt) == [tab |-> tab, conds |-> conds, wb |-> wb, obt |-> obt]
Two == <<1, 2>>
TwoConds == {
    <<J(Side(1, 1), Side(2, 1)), F(1, Btw(1, 1, 2))>>,
    <<J(Side(1, 1), Side(2, 1)), F(2, Eq(1, 1)), F(2, Gt(3, 0))>>,
    <<F(1, Eq(1, 2)), F(1, Ne(3, 0)), J(Side(2, 1), Side(1, 1)), F(2, Btw(1, 1, 2))>>,
    <<J(Side(1, 0), Side(2, 1)), F(1, Btw(0, 1, 3)), F(2, Btw(1, 1, 2))>>}
TwoWobs == {<<Lim(NoWob, 2, -1), <<>>>>, <<Lim(By(<<0, 3, 0>>), 2, 1), <<1, 2, 2>>>>}
Joins2 == {JoinOf(Two, c, w[1], w[2]) : c \in TwoConds, w \in TwoWobs}
Joins3 == {
    JoinOf(<<1, 2, 1>>, <<J(Side(1, 1), Side(2, 1)), J(Side(2, 0), Side(3, 0)), F(1, Eq(1, 1)), F(3, Ne(3, 1))>>, NoWob, <<>>),
    JoinOf(<<1, 2, 2>>, <<J(Side(2, 0), Side(3, 1)), J(Side(1, 1), Side(2, 1)), F(3, Btw(1, 1, 2))>>, NoWob, <<>>),
    JoinOf(<<1, 1, 1>>, <<J(Side(1, 0), Side(2, 0)), J(Side(2, 0), Side(3, 0)), F(1, Btw(0, 1, 3)), F(3, Gt(0, 1))>>, NoWob, <<>>)}
MCOtherRows == {<<1, 1, 0, 0>>, <<2, 1, 0, 1>>, <<3, 2, 0, 1>>}
MCOtherSchema == Schema("fk", "none")

UseOf(sch, asks, scans, walks, joins) ==
    [schema |-> sch, selects |-> asks, scans |-> scans, walks |-> walks, joins |-> joins,
     deletes |-> Deletes, updates |-> Updates]
MCUses ==
    "fk" :> UseOf(Schema("fk", "uniq"), Asks(AConds \cup UConds, AWobs), {}, {Walk(Eq(1, 1), 1)}, Joins2 \cup Joins3)
    @@ "mci" :> UseOf(Schema("mci", "none"), Asks(AConds, AWobs), {}, {Walk(Btw(1, 1, 2), 2)}, {})
    @@ "plain" :> UseOf(Schema("none", "fk"), Asks(PkConds \cup UConds, PkWobs), Scans,
                        {Walk(Btw(0, 1, 4), 2), Sorted2(Btw(0, 1, 4))}, {})
    @@ "umci" :> UseOf(Schema("umci", "none"), Asks(AConds, AWobs), {}, {Sorted2(Btw(1, 1, 2))}, {})
=============================================================================
