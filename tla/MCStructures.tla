---------------------------- MODULE MCStructures ----------------------------
(* Small instances of the data structures for TLC.                             *)
EXTENDS Structures

SeqOver(S, m, n) == UNION {[1 .. k -> S] : k \in m .. n}
MCElements == 1 .. 4
MCScores == 1 .. 2
MCRanges == {[kind |-> "range", min |-> a, max |-> b, minex |-> x, maxex |-> y] :
               a \in 0 .. 2, b \in 1 .. 3, x \in BOOLEAN, y \in BOOLEAN}
MCWidths == <<1, 2, 4>>
MCIntBits == <<6, 8, 10, 12, 14>>
MCFds == 0 .. 2

Edges == {0, 1, 63, 64, 65, 253, 254, 255, 256, 16383, 16384, 16385, 65535, 65536, 2 ^ 24, 2147483647}
Whole == {-128, -129, -127, 127, 128, 32767, 32768, -32768, -32769, 0, -1, 255, 256, 65536,
          2147483647, -2147483647}
Star == [kind |-> "star", not |-> FALSE, set |-> {}]
AnyOne == [kind |-> "any", not |-> FALSE, set |-> {}]
Class(neg) == [kind |-> "one", not |-> neg, set |-> {"a"}]

(* Texts, values and datasets of the files.                                    *)
Rep(a, n) == [i \in 1 .. n |-> a[((i - 1) % Len(a)) + 1]]
Long == {Rep(a, n) : a \in SeqOver({97, 98}, 1, 3) \cup {<<97, 98, 97, 97, 99>>, <<97, 98, 99, 100, 101, 102, 103>>},
                     n \in {1, 5, 9, 12, 13, 19, 22, 24, 26, 40, 45}}
          \cup {<<99>> \o Rep(<<97, 98>>, 290), [i \in 1 .. 40 |-> i], [i \in 1 .. 80 |-> i % 36]}
Num(n) == Decimal(n)
Ab == <<97, 98>>
TooLong == <<97, 98, 99, 97, 98>>
Str(o) == [type |-> "string", enc |-> o.enc, val |-> o.val]
Val(type, enc, val) == [type |-> type, enc |-> enc, val |-> val]
Objects ==
  {Str(TryObjectEncoding(t)) : t \in {<<>>, Ab, Num(-7), Num(300), Num(-70000), Rep(Ab, 30)}}
    \cup {Str([enc |-> "raw", val |-> Num(12)])}
    \cup {Val("list", e, l) : e \in {"packed", "plain"}, l \in {<<Ab, Num(3)>>, <<Ab, Ab, Num(200)>>}}
    \cup {Val("list", "plain", <<TooLong>>), Val("set", "plain", {TooLong, Num(5)}), Val("set", "plain", {Ab, Num(5), <<>>})}
    \cup {Val("set", e, s) : e \in {"packed", "plain"}, s \in {{Num(1), Num(-2)}, {Num(1), Num(2), Num(3)}}}
    \cup {Val("zset", e, z) : e \in {"packed", "plain"}, z \in {Ab :> 4, (Ab :> -1) @@ (Num(9) :> 700)}}
    \cup {Val("zset", "plain", (Ab :> NegInf) @@ (TooLong :> PosInf))}
    \cup {Val("hash", e, h) : e \in {"packed", "plain"}, h \in {Ab :> Num(4), (Ab :> Ab) @@ (Num(1) :> <<>>),
                                                                 (Num(1) :> Ab) @@ (Num(2) :> Ab) @@ (Num(3) :> Ab)}}
Entry(o, e) == [obj |-> o, exp |-> e]
Ones == {Entry(o, e) : o \in Objects, e \in {Never, Now - 1, Now, 70000}}
Few == {Entry(Str(TryObjectEncoding(Num(2))), Never), Entry(Val("set", "packed", {Num(1), Num(-2)}), Now - 1),
        Entry(Val("list", "packed", <<Ab, Num(3)>>), Now + 1)}
Datasets == {<<<<>>, <<>>>>} \cup {<<<<>>, Ab :> x>> : x \in Ones}
              \cup {<<(Ab :> x) @@ (Num(1) :> y), Rep(Ab, 30) :> z>> : x \in Few, y \in Few, z \in Few}
Commands == {<<W.set, Ab, <<>>>>, <<W.multi>>, <<W.exec>>}
Ix(luat, unique, del) == [name |-> Ab, cols |-> Ab, luat |-> luat, unique |-> unique,
                          add |-> IF luat THEN <<Ab>> ELSE <<>>, del |-> del, preup |-> <<>>, postup |-> <<>>]
SqlTables == {<<[name |-> Ab, cols |-> TooLong, rows |-> r, indexes |-> x]>> :
                r \in {<<>>, <<Ab, TooLong>>},
                x \in SeqOver({Ix(FALSE, FALSE, <<>>), Ix(FALSE, TRUE, <<>>), Ix(TRUE, FALSE, <<>>), Ix(TRUE, FALSE, <<Ab>>)}, 0, 2)}

(* Rows: tables of a few columns of all types, and sparse ones of 150 columns; *)
(* texts that six bits hold or not, that LZF makes shorter or longer; sizes    *)
(* around those at which the offsets grow.                                     *)
Six(n) == [i \in 1 .. n |-> (i % 60) + 1]
Odd(n) == [i \in 1 .. n |-> 64 + ((i * 7) % 59)]
Table(type, lruc, lfuc, zip) == [type |-> type, lruc |-> lruc, lfuc |-> lfuc, now |-> 77, zip |-> zip]
Mixed == <<"I", "S", "L", "S">>
Rare == <<"X", "F", "S", "O", "I", "L">>
FewRows ==
  {<<Table(Mixed, 0, 0, z), <<i, t, l, u>> >> :
     z \in BOOLEAN, i \in {<<>>, <<0>>, <<127>>, <<128>>, <<Unparsable>>}, l \in {<<>>, <<16383>>, <<16384>>, <<2 ^ 20>>},
     t \in {<<>>, <<<<>>>>, <<Six(3)>>, <<Six(4)>>, <<Odd(2)>>, <<Rep(<<7, 9>>, 60)>>},
     u \in {<<>>, <<<<>>>>, <<Six(21)>>, <<Odd(21)>>, <<Rep(<<65>>, 30)>>}}
    \cup {<<Table(Rare, a[1], a[2], TRUE), <<x, <<9>>, t, <<>>, i, <<>> >> >> :
             a \in {<<0, 0>>, <<5, 0>>, <<0, 6>>, <<5, 6>>}, x \in {<<>>, <<70000>>},
             t \in {<<>>, <<Six(5)>>}, i \in {<<>>, <<300>>}}
    \cup {<<Table(<<"I", "S", "S", "S", "S", "S">>, 0, 0, FALSE),
            <<<<1>>, <<Odd(a)>>, <<Odd(100)>>, <<Odd(100)>>, <<Odd(100)>>, <<Odd(b)>> >> >> : a \in {40, 46, 47, 48, 49, 90}, b \in {1, 2}}
    \cup {<<Table(<<"I", "S", "S", "S">>, 0, 0, FALSE), <<<<1>>, <<Odd(n)>>, <<Odd(100)>>, <<Odd(9)>> >> >> : n \in 140 .. 148}
Sparse(n, zip, t) == <<Table([i \in 1 .. 150 |-> IF i % 3 = 0 THEN "S" ELSE "I"], 0, 0, zip),
                       [i \in 1 .. 150 |-> IF i \in {2, n} THEN <<i>> ELSE IF i = 30 THEN t ELSE <<>>]>>
SparseRows == {Sparse(n, zip, t) : n \in {97, 98, 100, 127, 128, 130, 148}, zip \in BOOLEAN,
                                   t \in {<<>>, <<Six(9)>>, <<Odd(240)>>, <<Odd(360)>>}}
Rows == FewRows \cup SparseRows
SomeRow == CreateRow(Table(<<"I", "S">>, 0, 0, TRUE), <<<<5>>, <<Six(9)>> >>)
Keyed == [I |-> {0, 127, 128, 16383, 16384, 70000}, L |-> {0, 128, 16384}, X |-> {0, 70000}, F |-> {0, 1, 70000},
          S |-> SeqOver({1, 2}, 0, 2) \cup {Six(127), Six(128), Six(200)}]
KeyTypes == DOMAIN Keyed
Leaf(ks, row) == [streams |-> [i \in DOMAIN ks |-> CreateStream("I", "table", ks[i], row)], nodes |-> <<>>]
Trees(row) == {Leaf(<<>>, row), Leaf(<<3, 9>>, row),
               [Leaf(<<9>>, row) EXCEPT !.nodes = <<Leaf(<<3, 4>>, row), Leaf(<<128, 300>>, row)>>]}
InTrees(row) ==
  ({"rows"} \X ({"I"} \X Trees(row)))
    \cup ({"stream"} \X UNION {({k} \X {"table"} \X Keyed[k] \X {row}) \cup ({k} \X {"index"} \X Keyed[k] \X {77}) : k \in KeyTypes})

MCInputs ==
  ({"len"} \X Edges) \cup ({"int"} \X Whole)
    \cup ({"text"} \X (SeqOver({-1, 0, 1, 2, 5, 8}, 0, 3) \cup {<<-1, 1, 2, 8>>, <<-1, 1, 2, 9>>, <<2, 5, 6, 0>>}))
    \cup ({"col"} \X (0 .. 1023)) \cup ({"uu"} \X ((0 .. 3) \X {0, 1, 6, UIntMax - 2, UIntMax - 1}))
    \cup ({"six"} \X SeqOver({1, 18, 63}, 1, 5))
    \cup ({"sort"} \X SeqOver(1 .. 3, 1, 6))
    \cup ({"match"} \X (SeqOver({Star, AnyOne, Class(TRUE), Class(FALSE)}, 0, 3) \X SeqOver({"a", "b"}, 1, 3)))
    \cup ({"split"} \X (SeqOver({"a", "b"}, 0, 5) \X {<<"a">>, <<"a", "b">>, <<"a", "a">>}))
    \cup ({"quote"} \X SeqOver({"a", "n", "sp", "nl", "bs", "qt", "x"}, 0, 2))
    \cup ({"lzf"} \X (Long \X {0, 1, 2, 5})) \cup ({"score"} \X {NaN, PosInf, NegInf, 0, -12, 345})
    \cup ({"dump", "rewrite"} \X Datasets) \cup ({"aof"} \X SeqOver(Commands, 1, 4)) \cup ({"sqlaof"} \X SqlTables)
    \cup ({"row"} \X Rows) \cup InTrees(SomeRow)
    \cup ({"order"} \X UNION {{k} \X Keyed[k] \X Keyed[k] : k \in KeyTypes})
    \cup ({"obt"} \X (OtherKinds \X {0, 1, 500, 520, 1022} \X {0, 1022} \X {0, 1, 511, 520, 1022}))
    \cup ({"icol"} \X {[cmatch |-> c, lo |-> lo] : c \in {-1, 0, 63, 70}, lo \in {<<>>, <<Ab, Num(4)>>}})
    \cup ({"value"} \X ({<<Num(n), c>> : n \in {0, 7, 1023}, c \in {"I", "L", "S", "O"}}
                           \cup ({<<>>, Ab, Words.true, Words.false} \X {"S", "O"})))
=============================================================================
