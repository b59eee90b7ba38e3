----------------------------- MODULE MCRowIndex -----------------------------
(* Tables with two or three columns and the kinds of index of the system. *)
EXTENDS RowIndex

Plain(cols) == [cols |-> cols, uniq |-> FALSE, trig |-> FALSE]
Unique(cols) == [cols |-> cols, uniq |-> TRUE, trig |-> FALSE]
Trigger == [cols |-> [i \in 1..NCol |-> i], uniq |-> FALSE, trig |-> TRUE]

AllDef == [x \in Indexes |->
              CASE x = "a" -> Plain(<<1>>)
                [] x = "c" -> Plain(<<3>>)
                [] x = "ab" -> Plain(<<1, 2>>)
                [] x = "ua" -> Unique(<<1>>)
                [] x = "ub" -> Unique(<<2>>)
                [] x = "uab" -> Unique(<<1, 2>>)
                [] OTHER -> Trigger]

PlainUse == [pks |-> 1..3, vals |-> <<Val, Val, {1}>>, inds |-> <<>>,
             more |-> {"a", "ab"}, sets |-> {{}, {1}, {2}, {1, 2}},
             ops |-> {"insert", "replace", "update", "updatepk", "delete", "create", "drop"}]
UniqueUse == [pks |-> 1..2, vals |-> [c \in 1..3 |-> {1, Empty}], inds |-> <<"t", "ua", "ub">>,
              more |-> {"ua", "ub"}, sets |-> {{3}},
              ops |-> {"insert", "replace", "update", "delete", "create", "drop"}]
NewUse == [UniqueUse EXCEPT !.ops = {"insert", "replacenew"}]
UpdateUse == [pks |-> 1..2, vals |-> <<Val, {1}, {1}>>, inds |-> <<"ua">>,
              more |-> {}, sets |-> {{1}}, ops |-> {"insert", "update"}]

PlainAndUnique == {PlainUse, UniqueUse, NewUse}
OnlyUpdate == {UpdateUse}
=============================================================================
