----------------------------- MODULE MCCatalog -----------------------------
(***************************************************************************)
(* Small instances of Catalog for TLC.  A name a command gives is a pair,  *)
(* like the names the server makes up.                                     *)
(***************************************************************************)
EXTENDS Catalog

LuaFunctions == {<<"lua", "f1">>}

User(n) == <<"user", n>>

Ordinary == [names |-> {User("i1"), User("i2")}, shapes |-> {<<1>>, <<1, 2>>},
             kinds |-> {"norm", "uniq", "lru", "lfu", "load"},
             indexes |-> 4, listed |-> 5]
Scripted == [names |-> {User("i1")}, shapes |-> {<<1>>},
             kinds |-> {"norm", "prtl", "func", "luat"},
             indexes |-> 3, listed |-> 3]

AllUses == {Ordinary, Scripted}
=============================================================================
