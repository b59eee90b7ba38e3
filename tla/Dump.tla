-------------------------------- MODULE Dump --------------------------------
(* The files the dataset is written to, byte by byte: the dump of both server  *)
(* trees (rdb.c, lzf_c.c, lzf_d.c), the rewritten append only file (aof.c,     *)
(* aof_alsosql.c, syncio.c), and the tools that examine a dump and an append   *)
(* only file (redis-check-dump.c, redis-check-aof.c).                          *)
(*                                                                             *)
(* A text is a sequence of bytes. A value is [type, enc, val]: a text, a       *)
(* sequence of texts, a set of texts, a function from texts to texts or one    *)
(* from texts to scores, kept packed or not ("raw" and "int" of a text). A     *)
(* database is a function from keys to [obj, exp], exp the time it expires or  *)
(* Never. A score is a whole number or one of NaN, PosInf and NegInf.          *)
EXTENDS Codecs
CONSTANTS Now,                        \* the time of the save and of the load
          LzfMin,                     \* no shorter text is compressed
          MaxPacked, MaxPackedValue   \* the limits of the packed encodings

Never == -1
NaN == 1000001
PosInf == 1000002
NegInf == 1000003

(********************************** texts ************************************)
Ascii(t) == [i \in DOMAIN t |-> IF t[i] = Minus THEN 45 ELSE 48 + t[i]]
Decimal(v) == Ascii(Ll2String(v))
(* strtoll of a text that is a number of at most nine digits and no more.      *)
IsNumber(t) ==
  LET from == IF t # <<>> /\ t[1] = 45 THEN 2 ELSE 1
  IN Len(t) \in from .. 8 + from /\ \A i \in from .. Len(t) : t[i] \in 48 .. 57
StrToLL(t) ==
  LET Value(d) == FoldLeft(LAMBDA n, c : 10 * n + c - 48, 0, d)
  IN IF t[1] = 45 THEN -Value(Tail(t)) ELSE Value(t)
(* tryObjectEncoding: a number that reads the same when it is written again.   *)
IsInteger(t) == IsNumber(t) /\ Decimal(StrToLL(t)) = t
TryObjectEncoding(t) ==
  IF IsInteger(t) THEN [enc |-> "int", val |-> StrToLL(t)] ELSE [enc |-> "raw", val |-> t]
GetDecodedObject(o) == IF o.enc = "int" THEN Decimal(o.val) ELSE o.val

RdbTryIntegerEncoding(t) == IF IsInteger(t) THEN RdbEncodeInteger(StrToLL(t)) ELSE <<>>
LzfText(t, c) == IF c = <<>> THEN <<>> ELSE <<195>> \o RdbSaveLen(Len(c)) \o RdbSaveLen(Len(t)) \o c
RdbSaveLzf(t) == LzfText(t, LzfCompress(t, Len(t) - 4, 0))
FirstOf(int, lzf, raw) == IF int # <<>> THEN int ELSE IF lzf # <<>> THEN lzf ELSE raw
RdbSaveRawString(t) ==
  FirstOf(IF Len(t) <= 11 THEN RdbTryIntegerEncoding(t) ELSE <<>>,
          IF Len(t) > LzfMin THEN RdbSaveLzf(t) ELSE <<>>,
          RdbSaveLen(Len(t)) \o t)
RdbSaveLongLong(v) == RdbEncodeInteger(v)
RdbSaveStringObject(o) == IF o.enc = "int" THEN RdbSaveLongLong(o.val) ELSE RdbSaveRawString(o.val)
SaveElement(t) == RdbSaveStringObject(TryObjectEncoding(t))
RdbSaveDoubleValue(s) ==
  CASE s = NaN    -> <<253>>
    [] s = PosInf -> <<254>>
    [] s = NegInf -> <<255>>
    [] OTHER      -> <<Len(Decimal(s))>> \o Decimal(s)

(********************************** values ***********************************)
Types == [string |-> 0, list |-> 1, set |-> 2, zset |-> 3, hash |-> 4]
PackedTypes == [hash |-> 9, list |-> 10, set |-> 11, zset |-> 12]
(* The elements in the order the file has them; that of a hash table is any.   *)
ItemsOf(o) == IF o.type = "list" THEN o.val ELSE SetToSeq(IF o.type = "set" THEN o.val ELSE DOMAIN o.val)
(* The block of a packed encoding: a size that is no digit, and the elements.  *)
Field(o, x) == CASE o.type \in {"list", "set"} -> <<>>
                 [] o.type = "hash" -> <<o.val[x]>>
                 [] o.type = "zset" -> <<Decimal(o.val[x])>>
Flat(o, xs) == FlattenSeq([i \in DOMAIN xs |-> <<xs[i]>> \o Field(o, xs[i])])
Blocks(flat) == <<Len(flat)>> \o FlattenSeq([i \in DOMAIN flat |-> <<Len(flat[i])>> \o flat[i]]) \o <<255>>
Blob(o) == Blocks(Flat(o, ItemsOf(o)))
RECURSIVE Unblob(_, _)
Unblob(b, n) == IF n = 0 THEN <<>> ELSE <<SubSeq(b, 2, b[1] + 1)>> \o Unblob(SubSeq(b, b[1] + 2, Len(b)), n - 1)
Pairs(flat) == [i \in 1 .. Len(flat) \div 2 |-> <<flat[2 * i - 1], flat[2 * i]>>]
FromPairs(ps) == [x \in {ps[i][1] : i \in DOMAIN ps} |-> ps[CHOOSE i \in DOMAIN ps : ps[i][1] = x][2]]
Unpacked(type, flat) ==
  CASE type = "list" -> flat
    [] type = "set"  -> ToSet(flat)
    [] type = "hash" -> FromPairs(Pairs(flat))
    [] type = "zset" -> LET f == FromPairs(Pairs(flat)) IN [x \in DOMAIN f |-> StrToLL(f[x])]

SaveField(o, x) == CASE o.type \in {"list", "set"} -> <<>>
                     [] o.type = "hash" -> SaveElement(o.val[x])
                     [] o.type = "zset" -> RdbSaveDoubleValue(o.val[x])
SaveItems(o, xs) ==
  RdbSaveLen(Len(xs)) \o FlattenSeq([i \in DOMAIN xs |-> SaveElement(xs[i]) \o SaveField(o, xs[i])])
SaveElements(o) == SaveItems(o, ItemsOf(o))
(* Version 2 writes the block of a packed value as one text, version 1 its     *)
(* elements one by one.                                                        *)
AsBlock(ver, o) == ver = 2 /\ o.enc = "packed"
RdbSaveObject(ver, o) ==
  IF o.type = "string" THEN RdbSaveStringObject([enc |-> o.enc, val |-> o.val])
  ELSE IF AsBlock(ver, o) THEN RdbSaveRawString(Blob(o)) ELSE SaveElements(o)
RdbSaveTime(t) == <<Byte(t, 0), Byte(t, 1), Byte(t, 2), Byte(t, 3)>>
RdbSaveKeyValuePair(ver, k, e) ==
  IF e.exp # Never /\ e.exp < Now THEN <<>>
  ELSE (IF e.exp = Never THEN <<>> ELSE <<253>> \o RdbSaveTime(e.exp))
         \o <<IF AsBlock(ver, e.obj) THEN PackedTypes[e.obj.type] ELSE Types[e.obj.type]>>
         \o RdbSaveRawString(k) \o RdbSaveObject(ver, e.obj)

(*********************************** the file ********************************)
(* Version 2 starts with what DXDB_rdbSave writes: here, of no table and no    *)
(* index (Catalog models the others).                                          *)
Signature(ver) == <<82, 69, 68, 73, 83, 48, 48, 48, 48 + ver>>
SqlPart(ver) == IF ver = 2 THEN RdbSaveLen(0) \o RdbSaveLen(0) \o <<255>> ELSE <<>>
SaveDb(ver, dbs, j) ==
  LET keys == SetToSeq(DOMAIN dbs[j])
  IN IF keys = <<>> THEN <<>>
     ELSE <<254>> \o RdbSaveLen(j - 1)
            \o FlattenSeq([i \in DOMAIN keys |-> RdbSaveKeyValuePair(ver, keys[i], dbs[j][keys[i]])])
RdbSave(ver, dbs) ==
  Signature(ver) \o SqlPart(ver) \o FlattenSeq([j \in DOMAIN dbs |-> SaveDb(ver, dbs, j)]) \o <<255>>

(********************************* reading ***********************************)
(* A reader takes the bytes that are left and gives the value and the bytes    *)
(* after it, or Short where the file ends too soon; Bind goes on behind it.    *)
Short == [ok |-> FALSE]
Got(v, rest) == [ok |-> TRUE, val |-> v, rest |-> rest]
Bind(r, F(_, _)) == IF r.ok THEN F(r.val, r.rest) ELSE Short
Drop(b, n) == SubSeq(b, n + 1, Len(b))
Read(b, n) == IF Len(b) < n THEN Short ELSE Got(SubSeq(b, 1, n), Drop(b, n))
LenSize(b) == CASE b[1] \div 64 = 1 -> 2 [] b[1] \div 64 = 2 -> 5 [] OTHER -> 1
LoadLen(b) ==
  IF b = <<>> THEN Short
  ELSE IF Len(b) < LenSize(b) THEN Short ELSE Got(RdbLoadLen(b), Drop(b, LenSize(b)))
LoadInteger(b, type) ==
  IF Len(b) < 2 ^ type THEN Short ELSE Got(Decimal(RdbLoadIntegerObject(b, type)), Drop(b, 2 ^ type))
Inflated(t, rest) == IF t = <<>> THEN Short ELSE Got(t, rest)
LoadLzfSwapped(b) ==
  Bind(LoadLen(b), LAMBDA slen, b1 : Bind(LoadLen(b1), LAMBDA clen, b2 :
    Bind(Read(b2, clen.val), LAMBDA c, rest : Got(LzfDecompress(c, slen.val), rest))))
LoadLzf(b) ==
  Bind(LoadLen(b), LAMBDA clen, b1 : Bind(LoadLen(b1), LAMBDA slen, b2 :
    Bind(Read(b2, clen.val), LAMBDA c, rest : Inflated(LzfDecompress(c, slen.val), rest))))
LoadString(b) ==
  Bind(LoadLen(b), LAMBDA h, rest :
    IF ~h.enc THEN Read(rest, h.val)
    ELSE IF h.val \in 0 .. 2 THEN LoadInteger(rest, h.val)
    ELSE IF h.val = 3 THEN LoadLzf(rest) ELSE Short)
LoadDouble(b) ==
  LET n == b[1]
      t == Read(Tail(b), n)
  IN IF b = <<>> THEN Short
     ELSE CASE n = 255 -> Got(NegInf, Tail(b))
            [] n = 254 -> Got(PosInf, Tail(b))
            [] n = 253 -> Got(NaN, Tail(b))
            [] OTHER   -> IF t.ok THEN Got(StrToLL(t.val), t.rest) ELSE Short
LoadField(b, type) ==
  CASE type = 3 -> LoadDouble(b) [] type = 4 -> LoadString(b) [] OTHER -> Got(<<>>, b)
RECURSIVE LoadItems(_, _, _, _)
LoadItems(b, type, n, got) ==
  IF n = 0 THEN Got(got, b)
  ELSE Bind(LoadString(b), LAMBDA x, b1 : Bind(LoadField(b1, type), LAMBDA y, rest :
         LoadItems(rest, type, n - 1, Append(got, <<x, y>>))))
LoadBody(b, type) == Bind(LoadLen(b), LAMBDA n, rest : LoadItems(rest, type, n.val, <<>>))

(* Which encoding a value has that is put together from its items: a text that *)
(* is a number is never too long.                                              *)
FitsPacked(t) == IsInteger(t) \/ Len(t) <= MaxPackedValue
PackedItems(ver, type, items) ==
  /\ Len(items) <= MaxPacked
  /\ CASE type = 1 -> \A i \in DOMAIN items : FitsPacked(items[i][1])
       [] type = 2 -> \A i \in DOMAIN items : IsInteger(items[i][1])
       [] type = 3 -> ver = 2 /\ \A i \in DOMAIN items : FitsPacked(items[i][1])
       [] type = 4 -> \A i \in DOMAIN items : FitsPacked(items[i][1]) /\ FitsPacked(items[i][2])
FromItems(type, items) ==
  CASE type = 1 -> [i \in DOMAIN items |-> items[i][1]]
    [] type = 2 -> {items[i][1] : i \in DOMAIN items}
    [] OTHER    -> FromPairs(items)
TypeName(types, n) == CHOOSE x \in DOMAIN types : types[x] = n
Encoding(packed) == IF packed THEN "packed" ELSE "plain"
(* A block is unpacked when it has too many elements by now.                   *)
LoadBlock(type, t) ==
  LET flat == Unblob(Tail(t), t[1])
      n == IF type \in {"hash", "zset"} THEN Len(flat) \div 2 ELSE Len(flat)
  IN [type |-> type, enc |-> Encoding(n <= MaxPacked), val |-> Unpacked(type, flat)]
StringObject(o) == [type |-> "string", enc |-> o.enc, val |-> o.val]
RdbLoadObject(ver, b, type) ==
  IF type \in 1 .. 4
  THEN Bind(LoadBody(b, type), LAMBDA items, rest :
         Got([type |-> TypeName(Types, type), enc |-> Encoding(PackedItems(ver, type, items)),
              val |-> FromItems(type, items)], rest))
  ELSE Bind(LoadString(b), LAMBDA t, rest :
         Got(IF type = 0 THEN StringObject(TryObjectEncoding(t)) ELSE LoadBlock(TypeName(PackedTypes, type), t), rest))

(* rdbLoad from the first entry on. A time comes before the type of its key.   *)
LoadTime(b) ==
  Bind(Read(b, 4), LAMBDA t, rest : Got(((t[4] * 256 + t[3]) * 256 + t[2]) * 256 + t[1], rest))
RECURSIVE LoadEntries(_, _, _, _)
LoadEntries(ver, b, dbs, db) ==
  IF b = <<>> THEN Short
  ELSE Bind(IF b[1] = 253 THEN LoadTime(Tail(b)) ELSE Got(Never, b), LAMBDA exp, c :
    IF c = <<>> THEN Short
    ELSE IF c[1] = 255 THEN Got(dbs, Tail(c))
    ELSE IF c[1] = 254
    THEN Bind(LoadLen(Tail(c)), LAMBDA n, rest :
           IF n.val >= Len(dbs) THEN Short ELSE LoadEntries(ver, rest, dbs, n.val + 1))
    ELSE Bind(LoadString(Tail(c)), LAMBDA k, c1 : Bind(RdbLoadObject(ver, c1, c[1]), LAMBDA o, rest :
           LoadEntries(ver, rest,
                       IF exp # Never /\ exp < Now THEN dbs
                       ELSE [dbs EXCEPT ![db] = (k :> [obj |-> o, exp |-> exp]) @@ @],
                       db))))
LoadSql(b) ==
  Bind(LoadLen(b), LAMBDA ntbl, b1 : Bind(LoadLen(b1), LAMBDA nindx, b2 :
    IF b2 = <<>> THEN Short ELSE Got(0, Tail(b2))))
RdbLoad(ver, b, dbnum) ==
  Bind(Read(b, 9), LAMBDA h, b1 :
    IF \A v \in 1 .. ver : h # Signature(v) THEN Short
    ELSE Bind(IF ver = 2 THEN LoadSql(b1) ELSE Got(0, b1), LAMBDA sql, rest :
           LoadEntries(ver, rest, [j \in 1 .. dbnum |-> <<>>], 1)))

(******************************* redis-check-dump ****************************)
(* One entry: whether it is good, its type (-1: none), and the bytes after it. *)
KnownType(t) == t <= 4 \/ t >= 253
Bad(type, rest) == [ok |-> FALSE, type |-> type, rest |-> rest]
LoadPair(b, type) ==
  IF type > 4 THEN Short
  ELSE Bind(LoadString(b), LAMBDA k, rest : IF type = 0 THEN LoadString(rest) ELSE LoadBody(rest, type))
Followed(type, rest) ==
  [ok |-> rest # <<>> /\ KnownType(rest[1]), type |-> type, rest |-> rest]
SelectEntry(b, n) ==
  IF ~n.ok THEN Bad(254, b) ELSE IF n.val.val > 63 THEN Bad(254, n.rest) ELSE Followed(254, n.rest)
PairEntry(c, p) == IF ~p.ok THEN Bad(c[1], Tail(c)) ELSE Followed(c[1], p.rest)
KeyEntry(c) ==
  IF c = <<>> THEN Bad(253, c)
  ELSE IF ~KnownType(c[1]) THEN Bad(253, Tail(c)) ELSE PairEntry(c, LoadPair(Tail(c), c[1]))
LoadEntry(b) ==
  IF b = <<>> THEN Bad(-1, b)
  ELSE IF ~KnownType(b[1]) THEN Bad(-1, Tail(b))
  ELSE IF b[1] = 254 THEN SelectEntry(b, LoadLen(Tail(b)))
  ELSE IF b[1] = 255 THEN [ok |-> Tail(b) = <<>>, type |-> 255, rest |-> Tail(b)]
  ELSE IF b[1] = 253 /\ Len(b) < 5 THEN Bad(253, Tail(b))
  ELSE KeyEntry(IF b[1] = 253 THEN Drop(b, 5) ELSE b)
(* Where to go on after a bad entry: at the next three good ones in a row.     *)
RECURSIVE GoodEntries(_, _), NextGood(_, _)
GoodEntries(b, n) == NextGood(LoadEntry(b), n)
NextGood(e, n) == IF ~e.ok \/ n = 1 THEN e ELSE GoodEntries(e.rest, n - 1)
RECURSIVE Resume(_, _), ResumeAt(_, _)
Resume(b, e) == IF b = <<>> THEN [rest |-> b, type |-> e.type] ELSE ResumeAt(b, GoodEntries(b, 3))
ResumeAt(b, f) == IF f.ok THEN [rest |-> b, type |-> f.type] ELSE Resume(Tail(b), f)
(* The number of errors process() reports of the entries. The type it looks at *)
(* in the end is uninitialised when there is no entry at all.                  *)
RECURSIVE CheckEntries(_, _, _), CheckEntry(_, _, _)
CheckEntries(b, type, errors) ==
  IF b = <<>> THEN errors + (IF type = 255 THEN 0 ELSE 1) ELSE CheckEntry(b, LoadEntry(b), errors)
CheckEntry(b, e, errors) ==
  LET r == IF e.ok THEN e ELSE Resume(Tail(b), e)
  IN CheckEntries(r.rest, r.type, errors + (IF e.ok THEN 0 ELSE 1))
CheckDump(b, junk) ==
  LET h == Read(b, 9)
  IN IF ~h.ok THEN 1 ELSE IF h.val # Signature(1) THEN 1 ELSE CheckEntries(h.rest, junk, 0)

(*************************** the append only file ****************************)
CrLf == <<13, 10>>
BulkCount(prefix, n) == <<prefix>> \o Decimal(n) \o CrLf
BulkString(t) == BulkCount(36, Len(t)) \o t \o CrLf
GenericCommand(argv) == BulkCount(42, Len(argv)) \o FlattenSeq([i \in DOMAIN argv |-> BulkString(argv[i])])
(* The words of the commands, cut short.                                       *)
W == [create |-> <<67>>, table |-> <<84>>, insert |-> <<73>>, into |-> <<79>>, values |-> <<86>>,
      index |-> <<88>>, unique |-> <<85>>, luatrigger |-> <<76>>, on |-> <<78>>,
      select |-> <<83, 69, 76>>, set |-> <<83, 69, 84>>, rpush |-> <<82, 80>>, sadd |-> <<83, 65>>,
      zadd |-> <<90, 65>>, hset |-> <<72, 83>>, expireat |-> <<69, 88, 80>>,
      multi |-> <<77, 85>>, exec |-> <<69, 88, 69>>]
ScoreText(s) == CASE s = PosInf -> <<105, 110, 102>> [] s = NegInf -> <<45, 105, 110, 102>> [] OTHER -> Decimal(s)
Text(o) == GetDecodedObject([enc |-> o.enc, val |-> o.val])
RewriteValue(k, o) ==
  LET xs == ItemsOf(o)
      Each(F(_)) == [i \in DOMAIN xs |-> F(xs[i])]
  IN CASE o.type = "string" -> <<<<W.set, k, Text(o)>>>>
       [] o.type = "list"   -> Each(LAMBDA x : <<W.rpush, k, x>>)
       [] o.type = "set"    -> Each(LAMBDA x : <<W.sadd, k, x>>)
       [] o.type = "zset"   -> Each(LAMBDA x : <<W.zadd, k, ScoreText(o.val[x]), x>>)
       [] o.type = "hash"   -> Each(LAMBDA x : <<W.hset, k, x, o.val[x]>>)
(* A key that is expired by now is written without its time.                   *)
RewriteKey(k, e) ==
  RewriteValue(k, e.obj) \o IF e.exp = Never \/ e.exp < Now THEN <<>> ELSE <<<<W.expireat, k, Decimal(e.exp)>>>>
RewriteDb(dbs, j) ==
  LET keys == SetToSeq(DOMAIN dbs[j])
  IN IF keys = <<>> THEN <<>>
     ELSE <<<<W.select, Decimal(j - 1)>>>>
            \o FlattenSeq([i \in DOMAIN keys |-> RewriteKey(keys[i], dbs[j][keys[i]])])
RewriteCommands(dbs) == FlattenSeq([j \in DOMAIN dbs |-> RewriteDb(dbs, j)])
AofBytes(cmds) == FlattenSeq([i \in DOMAIN cmds |-> GenericCommand(cmds[i])])
(* The SQL tables before them: the definition and the rows of each, and then   *)
(* its indexes. The counts of arguments are literals of the code. A trigger on *)
(* update is written behind them, but not counted.                             *)
Counted(n, argv) == BulkCount(42, n) \o FlattenSeq([i \in DOMAIN argv |-> BulkString(argv[i])])
DumpTable(t) ==
  Counted(4, <<W.create, W.table, t.name, t.cols>>)
    \o FlattenSeq([i \in DOMAIN t.rows |-> Counted(5, <<W.insert, W.into, t.name, W.values, t.rows[i]>>)])
DumpIndex(t, x) ==
  LET lists == x.add \o x.del \o x.preup \o x.postup
  IN IF x.luat
     THEN Counted(IF x.del # <<>> THEN 7 ELSE 6,
                  <<W.create, W.luatrigger, x.name, W.on, t.name>> \o lists)
     ELSE IF x.unique
     THEN Counted(7, <<W.create, W.unique, W.index, x.name, W.on, t.name, x.cols>>)
     ELSE Counted(6, <<W.create, W.index, x.name, W.on, t.name, x.cols>>)
RewriteSql(tables) ==
  FlattenSeq([i \in DOMAIN tables |-> DumpTable(tables[i])
    \o FlattenSeq([j \in DOMAIN tables[i].indexes |-> DumpIndex(tables[i], tables[i].indexes[j])])])

(* Reading it: a number with its prefix up to the end of the line, a text of a *)
(* length, the arguments of a command.                                         *)
ReadLong(b, prefix) ==
  LET digits == {i \in 1 .. Len(b) : \A k \in 2 .. i : b[k] \in 48 .. 57}
      n == CHOOSE i \in digits : \A k \in digits : k <= i
  IN IF b = <<>> THEN Short
     ELSE IF b[1] # prefix \/ Len(b) < n + 2 THEN Short
     ELSE IF SubSeq(b, n + 1, n + 2) # CrLf THEN Short
     ELSE Got(FoldLeft(LAMBDA v, c : 10 * v + c - 48, 0, SubSeq(b, 2, n)), Drop(b, n + 2))
ReadString(b) ==
  Bind(ReadLong(b, 36), LAMBDA len, b1 : Bind(Read(b1, len + 2), LAMBDA t, rest :
    IF Drop(t, len) # CrLf THEN Short ELSE Got(SubSeq(t, 1, len), rest)))
RECURSIVE ReadArgs(_, _, _)
ReadArgs(b, argc, argv) ==
  IF argc = 0 THEN Got(argv, b)
  ELSE Bind(ReadString(b), LAMBDA t, rest : ReadArgs(rest, argc - 1, Append(argv, t)))
ReadCommand(b) == Bind(ReadLong(b, 42), LAMBDA n, rest : ReadArgs(rest, n, <<>>))
RECURSIVE LoadCommands(_)
LoadCommands(b) ==
  IF b = <<>> THEN Got(<<>>, b)
  ELSE Bind(ReadCommand(b), LAMBDA c, b1 : Bind(LoadCommands(b1), LAMBDA more, rest : Got(<<c>> \o more, rest)))

(* redis-check-aof: the place up to which the file is good, which is where a   *)
(* MULTI without its EXEC begins.                                              *)
Depth(c, multi) == CASE c[1] = W.multi -> multi + 1 [] c[1] = W.exec -> multi - 1 [] OTHER -> multi
Unexpected(m, multi) == (m > multi /\ multi # 0) \/ (m < multi /\ m # 0)
RECURSIVE CheckCommands(_, _, _, _)
CheckCommands(b, size, multi, pos) ==
  LET p == IF multi = 0 THEN size - Len(b) ELSE pos
      c == ReadCommand(b)
  IN IF ~c.ok THEN p
     ELSE IF Unexpected(Depth(c.val, multi), multi) THEN p
     ELSE CheckCommands(c.rest, size, Depth(c.val, multi), p)
CheckAof(b) == CheckCommands(b, Len(b), 0, 0)

(* The commands executed again, one by one, from an empty dataset.             *)
Added(db, k, type, none, F(_)) ==
  LET v == IF k \in DOMAIN db THEN db[k].obj.val ELSE none
  IN (k :> [obj |-> [type |-> type, val |-> F(v)], exp |-> IF k \in DOMAIN db THEN db[k].exp ELSE Never]) @@ db
Score(t) == IF t = ScoreText(PosInf) THEN PosInf ELSE IF t = ScoreText(NegInf) THEN NegInf ELSE StrToLL(t)
ExecuteOn(db, c) ==
  CASE c[1] = W.set      -> (c[2] :> [obj |-> [type |-> "string", val |-> c[3]], exp |-> Never]) @@ db
    [] c[1] = W.rpush    -> Added(db, c[2], "list", <<>>, LAMBDA v : Append(v, c[3]))
    [] c[1] = W.sadd     -> Added(db, c[2], "set", {}, LAMBDA v : v \cup {c[3]})
    [] c[1] = W.zadd     -> Added(db, c[2], "zset", <<>>, LAMBDA v : (c[4] :> Score(c[3])) @@ v)
    [] c[1] = W.hset     -> Added(db, c[2], "hash", <<>>, LAMBDA v : (c[3] :> c[4]) @@ v)
    [] c[1] = W.expireat -> [db EXCEPT ![c[2]].exp = StrToLL(c[3])]
Execute(s, c) ==
  IF c[1] = W.select THEN [s EXCEPT !.db = StrToLL(c[2]) + 1]
  ELSE [s EXCEPT !.dbs[s.db] = ExecuteOn(@, c)]
ReplayAll(cmds, dbnum) ==
  FoldLeft(Execute, [db |-> 1, dbs |-> [j \in 1 .. dbnum |-> <<>>]], cmds).dbs

(***************************** what they must do *****************************)
(* What a dataset holds, encodings left aside; its keys that are not expired.  *)
Meaning(o) == [type |-> o.type, val |-> IF o.type = "string" /\ "enc" \in DOMAIN o THEN Text(o) ELSE o.val]
Live(db) == {k \in DOMAIN db : db[k].exp = Never \/ db[k].exp >= Now}
Means(db, keys) == [k \in keys |-> [obj |-> Meaning(db[k].obj), exp |-> db[k].exp]]
Size(o) == IF o.type \in {"list", "set"} THEN Len(ItemsOf(o)) ELSE Cardinality(DOMAIN o.val)

(* A dump gives the dataset back without the keys that are expired, a packed   *)
(* value packed where the limit allows it; no part of a dump is taken for one. *)
LoadedAs(ver, dbs, l) ==
  /\ l.ok /\ l.rest = <<>>
  /\ \A j \in DOMAIN dbs :
       /\ Means(l.val[j], DOMAIN l.val[j]) = Means(dbs[j], Live(dbs[j]))
       /\ \A k \in Live(dbs[j]) :
            LET o == dbs[j][k].obj
            IN o.type # "string" /\ ver = 2 /\ o.enc = "packed" =>
                 (l.val[j][k].obj.enc = "packed" <=> Size(o) <= MaxPacked)
DumpLoads(ver, dbs, b) ==
  /\ LoadedAs(ver, dbs, RdbLoad(ver, b, Len(dbs)))
  /\ \A n \in 0 .. Len(b) - 1 : ~RdbLoad(ver, SubSeq(b, 1, n), Len(dbs)).ok
DumpRoundTrip(ver, dbs) == DumpLoads(ver, dbs, RdbSave(ver, dbs))
(* redis-check-dump finds nothing wrong with a dump and something with every   *)
(* part of one that has an entry.                                              *)
DumpPasses(b) ==
  /\ CheckDump(b, 0) = 0
  /\ \A n \in 10 .. Len(b) - 1 : CheckDump(SubSeq(b, 1, n), 255) > 0
CheckDumpExact(dbs) == DumpPasses(RdbSave(1, dbs))
(* A rewritten file makes the same dataset out of nothing.                     *)
SameData(dbs, r) ==
  \A j \in DOMAIN dbs : DOMAIN r[j] = DOMAIN dbs[j] /\ Means(r[j], Live(dbs[j])) = Means(dbs[j], Live(dbs[j]))
ReplaysTo(dbs, l) == l.ok /\ SameData(dbs, ReplayAll(l.val, Len(dbs)))
RewriteExact(dbs) == ReplaysTo(dbs, LoadCommands(AofBytes(RewriteCommands(dbs))))
(* redis-check-aof keeps the whole commands and no part of a transaction.      *)
Closed(cmds) ==
  0 = FoldLeft(LAMBDA m, c : CASE c[1] = W.multi /\ m = 0 -> 1
                               [] c[1] = W.exec /\ m = 1  -> 0
                               [] c[1] \in {W.multi, W.exec} -> -1
                               [] OTHER -> m, 0, cmds)
KeepsWhole(cmds, b, Upto(_)) ==
  \A n \in 0 .. Len(b) :
    LET good == {k \in 0 .. Len(cmds) : Upto(k) <= n /\ Closed(SubSeq(cmds, 1, k))}
    IN CheckAof(SubSeq(b, 1, n)) = Upto(CHOOSE k \in good : \A i \in good : i <= k)
CheckAofExact(cmds) == KeepsWhole(cmds, AofBytes(cmds), LAMBDA k : Len(AofBytes(SubSeq(cmds, 1, k))))
(* The commands that rebuild tables and indexes are as long as they say.       *)
WholeFile(b) == CheckAof(b) = Len(b)
SqlRewriteExact(tables) == WholeFile(RewriteSql(tables))
=============================================================================
