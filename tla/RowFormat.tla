----------------------------- MODULE RowFormat -----------------------------
(***************************************************************************)
(* How the SQL side lays out its data: the hash table of sparse rows       *)
(* (hash.c), rows of columns with packed integers and compressed texts     *)
(* (row.c), the streams of key and row that the trees hold and compare     *)
(* (stream.c), their lines in the dump (rdb_alsosql.c), and the values of  *)
(* columns as text and as replies (aobj.c). Characters are the numbers     *)
(* of sixbit.c, 1 .. 63, or greater ones that it does not know.            *)
(***************************************************************************)
EXTENDS Dump

CONSTANTS MaxCollisions,  \* MAX_COLLISIONS
          UcharMax,       \* rows up to here have offsets of one byte,
          UshrtMax,       \* up to here of two
          MinHashCols     \* MIN_NUM_COLS_FOR_HASH_ROW

ASSUME RowFormatAssumption == MaxCollisions > 1 /\ UcharMax < UshrtMax /\ UshrtMax < UIntMax

(********************************* hash.c ************************************)
(* alc_hash32 and its copy alc_hash16: open addressing; an entry keeps how far *)
(* the keys that collided with it went. Key 0 is a free entry. A rehash counts *)
(* the keys in valid once more; nothing reads it.                              *)
FreeEntry == [far |-> 0, key |-> 0, val |-> 0]
HashMake(n) == [max |-> MaxCollisions, valid |-> 0, e |-> [i \in 0 .. n - 1 |-> FreeEntry]]
Entries(ht) == Cardinality(DOMAIN ht.e)
SlotAt(ht, key, d) == (key + d) % Entries(ht)
(* The least number of steps from home, or none.                               *)
Nearest(steps) == IF steps = {} THEN <<>> ELSE <<Min(steps)>>
LookupEntry(ht, key) ==
  Nearest({d \in 0 .. ht.e[SlotAt(ht, key, 0)].far : ht.e[SlotAt(ht, key, d)].key = key})
HashFetch(ht, key) ==
  LET d == LookupEntry(ht, key)
  IN IF key = 0 \/ d = <<>> THEN 0 ELSE ht.e[SlotAt(ht, key, d[1])].val
(* An insert looks at most max steps ahead and at most once around.            *)
LookupInsertEntry(ht, key) ==
  LET n == Entries(ht)
  IN Nearest({d \in 0 .. Min({ht.max, 2 * n - 1 - (key % n)}) : ht.e[SlotAt(ht, key, d)].key \in {key, 0}})
HashSet(ht, key, val, d) ==
  LET at == SlotAt(ht, key, d)
  IN [ht EXCEPT !.valid = @ + (IF ht.e[at].key = key THEN 0 ELSE 1),
                !.e = [i \in DOMAIN @ |->
                         [far |-> IF i = SlotAt(ht, key, 0) THEN Max({@[i].far, d}) ELSE @[i].far,
                          key |-> IF i = at THEN key ELSE @[i].key,
                          val |-> IF i = at THEN val ELSE @[i].val]]]
RECURSIVE Expanded(_, _)
Expanded(ht, key) ==
  IF ht.max = Entries(ht) \/ LookupInsertEntry(ht, key) # <<>> THEN ht
  ELSE Expanded([ht EXCEPT !.max = Min({@ + @ \div 2, Entries(ht)})], key)
RECURSIVE HashInsert(_, _, _, _), Reinsert(_, _, _, _)
HashInsert(ht, key, val, lvl) ==
  LET d == LookupInsertEntry(ht, key)
      x == IF lvl > 1 THEN Expanded(ht, key) ELSE ht
      n == Entries(ht)
  IN IF d # <<>> THEN HashSet(ht, key, val, d[1])
     ELSE HashInsert(Reinsert([HashMake(n + Max({2, n \div 4})) EXCEPT !.max = x.max, !.valid = ht.valid], ht, 0, lvl + 1),
                     key, val, lvl)
Reinsert(ht, old, i, lvl) ==
  IF i = Entries(old) THEN ht
  ELSE IF old.e[i].key = 0 THEN Reinsert(ht, old, i + 1, lvl)
  ELSE Reinsert(HashInsert(ht, old.e[i].key, old.e[i].val, lvl), old, i + 1, lvl)

(********************************** rows *************************************)
Bytes(n, k) == [i \in 1 .. k |-> IF i > 4 THEN 0 ELSE Byte(n, i - 1)]
Number(b, at, k) ==
  LET part(i) == IF i > k THEN 0 ELSE b[at + i] * 256 ^ (i - 1) IN part(1) + part(2) + part(3) + part(4)
(* Packed integers: the lowest bits tell the size. The largest forms are       *)
(* CIcol's of Codecs; LFU columns always have 8 bytes, LRU columns 4.          *)
GetCSize(l) == CASE l < 128 -> 1 [] l \in 128 .. 16383 -> 2 [] l > 16383 -> 4
IntCol(l) == CASE GetCSize(l) = 1 -> Bytes(l * 2 + 1, 1)
               [] GetCSize(l) = 2 -> Bytes(l * 4 + 2, 2)
               [] GetCSize(l) = 4 -> Bytes(l * 8 + 4, 4)
StreamInt(b, at) ==
  LET b1 == b[at + 1]
  IN CASE b1 % 2 = 1 -> [val |-> (Number(b, at, 1) - 1) \div 2, len |-> 1]
       [] b1 % 4 = 2 -> [val |-> (Number(b, at, 2) - 2) \div 4, len |-> 2]
       [] b1 % 8 = 4 -> [val |-> (Number(b, at, 4) - 4) \div 8, len |-> 4]
       [] b1 % 32 = 16 -> [val |-> (Number(b, at, 8) - 16) \div 32, len |-> 8]

(* A table: the types of its columns behind the key, and which of them holds   *)
(* the time (lruc) or the count (lfuc) of its last use, or 0; zip is the       *)
(* server's GlobalZipSwitch. Values: <<>> for a column that is not given,      *)
(* <<Unparsable>> for a text that is no number.                                *)
Unparsable == -1
NoRow == <<>>
CLruCol(t) == Bytes(t * 8 + 4, 4)
CLfuCol(n) == Bytes(n * 32 + 16, 8)
Stored(tbl, vals) == Max({i \in DOMAIN vals : vals[i] # <<>>} \cup {0, tbl.lruc, tbl.lfuc})
OwnColumn(tbl, i) == i \in {tbl.lruc, tbl.lfuc}
PlainCol(tbl, vals, i) ==
  CASE i = tbl.lruc -> CLruCol(tbl.now)
    [] i = tbl.lfuc /\ i # tbl.lruc -> CLfuCol(1)
    [] ~OwnColumn(tbl, i) /\ vals[i] = <<>> -> <<>>
    [] ~OwnColumn(tbl, i) /\ vals[i] # <<>> ->
         CASE tbl.type[i] \in {"I", "L"} -> IntCol(vals[i][1])
           [] tbl.type[i] = "X" -> Bytes(vals[i][1], 16)
           [] tbl.type[i] = "F" -> Bytes(vals[i][1], 4)
           [] tbl.type[i] = "S" -> vals[i][1]
           [] tbl.type[i] = "O" -> <<>>
(* zipCol: LZF when a text is long, unless the texts together get no smaller;  *)
(* else six bits when all characters have them. An LZF column is preceded by   *)
(* its length. The loop over the columns ends at the first that LZF cannot     *)
(* write in their length and 4 more, and those from there on are never         *)
(* compressed: see Compressible.                                               *)
TextCols(tbl, n) == {i \in 1 .. n : tbl.type[i] = "S"}
LzfCol(t) == LzfCompress(t, Len(t) + 4, 0)
ZipType(tbl, vals, n) ==
  LET texts == TextCols(tbl, n)
      col(i) == PlainCol(tbl, vals, i)
      bad == {i \in texts : LzfCol(col(i)) = <<>>}
      upto == {i \in texts : \A j \in bad : i <= j}
      ok == upto \ bad
      long == \E i \in texts : Len(col(i)) > 20
      tlen == FoldSet(LAMBDA i, k : k + Len(col(i)), 0, upto)
      mtlen == FoldSet(LAMBDA i, k : k + GetCSize(Len(col(i))) + Len(LzfCol(col(i))), 0, ok)
  IN IF texts = {} \/ ~tbl.zip THEN "none"
     ELSE IF long /\ mtlen < tlen THEN "lzf"
     ELSE IF \A i \in texts : \A c \in Range(col(i)) : c < 64 THEN "six" ELSE "none"
Compressible(tbl, vals) ==
  LET n == Stored(tbl, vals)
  IN ZipType(tbl, vals, n) = "lzf" => \A i \in TextCols(tbl, n) : LzfCol(PlainCol(tbl, vals, i)) # <<>>
ZipCol(t, ztype) ==
  CASE ztype = "six" -> IF t = <<>> THEN <<>> ELSE CreateSixBit(t, 0, <<0>>)
    [] ztype = "lzf" -> IntCol(Len(t)) \o LzfCol(t)
    [] ztype = "none" -> t

(* createRow and writeRow. The columns behind the last one given are not       *)
(* stored; offsets are those of the ends of the columns.                       *)
Refused(tbl, vals) ==
  \E i \in DOMAIN vals : ~OwnColumn(tbl, i) /\ tbl.type[i] \in {"I", "X", "F"} /\ vals[i] = <<Unparsable>>
RECURSIVE Together(_, _, _), Ends(_, _, _, _)
Together(cells, i, j) ==
  IF i > j THEN <<>>
  ELSE IF i = j THEN cells[i]
  ELSE LET m == (i + j) \div 2 IN Together(cells, i, m) \o Together(cells, m + 1, j)
Ends(cells, i, j, from) ==
  IF i > j THEN <<>>
  ELSE IF i = j THEN <<from + Len(cells[i])>>
  ELSE LET m == (i + j) \div 2
           left == Ends(cells, i, m, from)
       IN left \o Ends(cells, m + 1, j, Last(left))
EndOf(ends, i) == IF i = 0 THEN 0 ELSE ends[i]
SizeFlag(rlen) == IF rlen < UcharMax THEN 1 ELSE IF rlen < UshrtMax THEN 2 ELSE 4
ZipFlag(ztype) == CASE ztype = "six" -> 8 [] ztype = "lzf" -> 16 [] ztype = "none" -> 0
Base(use16) == IF use16 THEN UshrtMax ELSE UIntMax
HashFlag(use16) == IF use16 THEN 32 ELSE 64
HashBytes(ht, use16) == 24 + Entries(ht) * (IF use16 THEN 7 ELSE 16)
RowTable(given, ends, use16) ==
  FoldLeft(LAMBDA ht, i : HashInsert(ht, i, EndOf(ends, i - 1) * Base(use16) + ends[i], 0),
           HashMake(2), SetToSortSeq(given, <))
(* The table takes its bytes in the row; it is kept in the first of them.      *)
CreateHashRow(given, cnt, n, ends, flag) ==
  LET size == flag % 8
      use16 == size # 4
      ht == RowTable(given, ends, use16)
  IN IF n + 1 < MinHashCols \/ n + 1 < 4 * cnt THEN <<>>
     ELSE IF 5 * (n + 1) * size <= 6 * HashBytes(ht, use16) THEN <<>>
     ELSE <<flag + HashFlag(use16)>> \o IntCol(EndOf(ends, n)) \o IntCol(n)
            \o [i \in 1 .. HashBytes(ht, use16) |-> IF i = 1 THEN ht ELSE 0]
CreateRowBlob(n, ends, flag) ==
  <<flag>> \o IntCol(n) \o Together([i \in 1 .. n |-> Bytes(ends[i], flag % 8)], 1, n)
RowCell(tbl, vals, ztype, i) ==
  IF tbl.type[i] = "S" THEN ZipCol(PlainCol(tbl, vals, i), ztype) ELSE PlainCol(tbl, vals, i)
RowHead(hashed, blob) == IF hashed = <<>> THEN blob ELSE hashed
WriteRow(n, given, own, ends, flag) ==
  RowHead(CreateHashRow(given \cup own, Cardinality(given \ own), n, ends, flag), CreateRowBlob(n, ends, flag))
PutTogether(tbl, vals, n, cells, ends, zflag) ==
  WriteRow(n, {i \in 1 .. n : vals[i] # <<>>}, {i \in 1 .. n : OwnColumn(tbl, i)}, ends, SizeFlag(EndOf(ends, n)) + zflag)
    \o Together(cells, 1, n)
ZippedRow(tbl, vals, n, ztype) ==
  LET cells == [i \in 1 .. n |-> RowCell(tbl, vals, ztype, i)]
  IN PutTogether(tbl, vals, n, cells, Ends(cells, 1, n, 0), ZipFlag(ztype))
StoredRow(tbl, vals, n) == ZippedRow(tbl, vals, n, ZipType(tbl, vals, n))
CreateRow(tbl, vals) == IF Refused(tbl, vals) THEN NoRow ELSE StoredRow(tbl, vals, Stored(tbl, vals))

(* getRowPayload: the flag, the columns, where the data begins and the size.   *)
(* Without columns the last byte of their number is taken for an offset.       *)
IsHashRow(flag) == flag \div 32 # 0
GetHashFromRow(row) == LET rlen == StreamInt(row, 1) IN 1 + rlen.len + StreamInt(row, 1 + rlen.len).len
HashPayload(row, flag, rlen, at) ==
  LET data == at + HashBytes(row[at + 1], flag \div 32 = 1)
  IN [flag |-> flag, n |-> StreamInt(row, 1 + rlen.len).val, data |-> data, size |-> data + rlen.val]
PlainPayload(row, flag, n) ==
  LET data == 1 + n.len + n.val * (flag % 8)
  IN [flag |-> flag, n |-> n.val, data |-> data, size |-> data + Number(row, data - (flag % 8), flag % 8)]
GetRowPayload(row) ==
  IF IsHashRow(row[1]) THEN HashPayload(row, row[1], StreamInt(row, 1), GetHashFromRow(row))
  ELSE PlainPayload(row, row[1], StreamInt(row, 1))
(* getColData. The offsets are looked for behind a number of columns that is   *)
(* as long as the number before it: see OddCount.                              *)
ColOffsets(row, c, n, size) ==
  LET cofst == 1 + GetCSize(n - 1)
  IN [start |-> IF c = 1 THEN 0 ELSE Number(row, cofst + (c - 2) * size, size),
      next |-> Number(row, cofst + (c - 1) * size, size)]
OddCount(n) == n > 0 /\ GetCSize(n - 1) # GetCSize(n)
SplitOffsets(val, base) == [start |-> val \div base, next |-> val % base]
HashOffsets(row, c, use16) == SplitOffsets(HashFetch(row[GetHashFromRow(row) + 1], c), Base(use16))
CutCol(row, at, o) == SubSeq(row, at + o.start + 1, at + o.next)
ColAt(row, c, p) ==
  IF c > p.n THEN <<>>
  ELSE CutCol(row, p.data, IF IsHashRow(p.flag) THEN HashOffsets(row, c, p.flag \div 32 = 1)
                           ELSE ColOffsets(row, c, p.n, p.flag % 8))
GetColData(row, c) == ColAt(row, c, GetRowPayload(row))
StreamLzfText(b) == LET len == StreamInt(b, 0) IN LzfDecompress(Drop(b, len.len), len.val)
UnzipCol(data, zip) == CASE zip = 0 -> data [] zip = 1 -> UnpackSixBit(data) [] zip = 2 -> StreamLzfText(data)
ReadCol(type, zip, data) ==
  IF data = <<>> THEN <<>>
  ELSE CASE type \in {"I", "L"} -> <<StreamInt(data, 0).val>>
         [] type = "X" -> <<Number(data, 0, 16)>>
         [] type = "F" -> <<Number(data, 0, 4)>>
         [] type = "S" -> <<UnzipCol(data, zip)>>
GetRawCol(tbl, row, c) == ReadCol(tbl.type[c], (row[1] \div 8) % 4, GetColData(row, c))

(********************************* streams ***********************************)
(* A tree holds streams: the key and behind it the row (a table) or a pointer  *)
(* of 8 bytes (an index). Short texts have their length in one odd byte, others*)
(* in four with an even first one.                                             *)
PointerSize == 8
CreateBTKey(ktype, k) ==
  CASE ktype \in {"I", "L"} -> IntCol(k)
    [] ktype = "X" -> Bytes(k, 16)
    [] ktype = "F" -> Bytes(k, 4)
    [] ktype = "S" -> (IF Len(k) < 128 THEN Bytes(Len(k) * 2 + 1, 1) ELSE Bytes(Len(k) * 2, 4)) \o k
CreateStream(ktype, btype, k, val) ==
  CreateBTKey(ktype, k) \o (IF btype = "table" THEN val ELSE Bytes(val, PointerSize))
TextAt(b) == IF b[1] % 2 = 1 THEN [at |-> 1, len |-> b[1] \div 2] ELSE [at |-> 4, len |-> Number(b, 0, 4) \div 2]
SkipToVal(ktype, b) ==
  CASE ktype \in {"I", "L"} -> StreamInt(b, 0).len
    [] ktype = "X" -> 16
    [] ktype = "F" -> 4
    [] ktype = "S" -> TextAt(b).at + TextAt(b).len
ParseStream(ktype, btype, b) ==
  LET val == Drop(b, SkipToVal(ktype, b)) IN IF btype = "table" THEN val ELSE Number(val, 0, PointerSize)
ConvertStream2Key(ktype, b) ==
  CASE ktype \in {"I", "L"} -> StreamInt(b, 0).val
    [] ktype = "X" -> Number(b, 0, 16)
    [] ktype = "F" -> Number(b, 0, 4)
    [] ktype = "S" -> SubSeq(b, TextAt(b).at + 1, TextAt(b).at + TextAt(b).len)
GetStreamRowSize(ktype, btype, b) ==
  SkipToVal(ktype, b) + IF btype = "table" THEN GetRowPayload(Drop(b, SkipToVal(ktype, b))).size ELSE PointerSize
Compared(a, b) == IF a = b THEN 0 ELSE IF a > b THEN 1 ELSE -1
RECURSIVE StrnCmp(_, _, _)
StrnCmp(s, t, n) == IF n = 0 THEN 0 ELSE IF s[1] # t[1] THEN Compared(s[1], t[1]) ELSE StrnCmp(Tail(s), Tail(t), n - 1)
BtTextCmp(s, t) ==
  LET r == StrnCmp(s, t, Min({Len(s), Len(t)})) IN IF r # 0 \/ Len(s) = Len(t) THEN r ELSE Compared(Len(s), Len(t))
StreamCmp(ktype, a, b) ==
  LET k == ConvertStream2Key(ktype, a)
      l == ConvertStream2Key(ktype, b)
  IN IF ktype = "S" THEN BtTextCmp(k, l) ELSE Compared(k, l)

(* Tables of two numbers have no rows (OTHER_BT): the stream is the pair of    *)
(* the key and the other column, or for two INTs one number (UUPack of Codecs).*)
(* uuCmp cuts the difference of the keys to an int: see FarApart.              *)
OtherKinds == {"UU", "UL", "LU", "LL", "UX", "XU", "LX", "XL", "XX"}
ObtCreateStream(kind, k, v) == IF kind = "UU" THEN UUPack(k, 0) + v ELSE [key |-> k, val |-> v]
ObtKey(kind, s) == IF kind = "UU" THEN UUKey(s) ELSE s.key
ObtCol(kind, s, c) == IF c = 0 THEN ObtKey(kind, s) ELSE IF kind = "UU" THEN UUVal(s) ELSE s.val
IntCast(d) == LET w == UIntMax + 1 IN IF d % w < w \div 2 THEN d % w ELSE (d % w) - w
ObtCmp(kind, s, t) ==
  IF kind = "UU" THEN Compared(IntCast(UUKey(s) - UUKey(t)), 0) ELSE Compared(s.key, t.key)
FarApart(a, b) == LET w == UIntMax + 1 IN a - b >= w \div 2 \/ a - b < -(w \div 2)

(* rdbSaveAllRows: the streams of a node with their sizes, then its children;  *)
(* rdbLoadRow puts each into the new tree by its key.                          *)
RECURSIVE RdbSaveAllRows(_), RdbLoadRows(_, _, _, _)
RdbSaveAllRows(x) ==
  FlattenSeq([i \in DOMAIN x.streams |-> RdbSaveLen(Len(x.streams[i])) \o x.streams[i]])
    \o FlattenSeq([i \in DOMAIN x.nodes |-> RdbSaveAllRows(x.nodes[i])])
RdbLoadRows(ktype, b, n, tree) ==
  IF n = 0 THEN Got(tree, b)
  ELSE Bind(LoadLen(b), LAMBDA size, b1 : Bind(Read(b1, size.val), LAMBDA row, rest :
         RdbLoadRows(ktype, rest, n - 1, (ConvertStream2Key(ktype, row) :> row) @@ tree)))
(* A column of an index, -1 for none, and the names of a nested element.       *)
RdbSaveIcol(ic) == RdbSaveLen(ic.cmatch + 1) \o RdbSaveLen(Len(ic.lo)) \o FlattenSeq([i \in DOMAIN ic.lo |-> RdbSaveRawString(ic.lo[i])])
RECURSIVE LoadNames(_, _, _)
LoadNames(b, n, lo) ==
  IF n = 0 THEN Got(lo, b) ELSE Bind(LoadString(b), LAMBDA t, rest : LoadNames(rest, n - 1, Append(lo, t)))
RdbLoadIcol(b) ==
  Bind(LoadLen(b), LAMBDA c, b1 : Bind(LoadLen(b1), LAMBDA nlo, b2 :
    Bind(LoadNames(b2, nlo.val, <<>>), LAMBDA lo, rest : Got([cmatch |-> c.val - 1, lo |-> lo], rest))))

(********************************** values ***********************************)
(* aobj.c: the value of a column from its text, its text and its reply. A      *)
(* LUATABLE value has the type its text looks like; of one that is only a text *)
(* the copy is freed before it is used, and nothing is kept. Numbers here are  *)
(* not negative and floats are left out.                                       *)
Words == [true |-> <<116, 114, 117, 101>>, false |-> <<102, 97, 108, 115, 101>>]
ConvertSdsToAobj(t, ctype) ==
  [type |-> ctype, v |-> CASE ctype = "S" -> t [] ctype = "L" -> StrToLL(t) [] ctype = "I" -> StrToLL(t) % (UIntMax + 1)]
DetermineType(t) ==
  CASE t = <<>> -> [type |-> "L", v |-> 0]
    [] IsNumber(t) -> [type |-> "L", v |-> StrToLL(t)]
    [] t = Words.true -> [type |-> "B", v |-> 1]
    [] t = Words.false -> [type |-> "B", v |-> 0]
    [] OTHER -> [type |-> "O", v |-> <<>>]
InitAobjFromStr(t, ctype) == IF ctype = "O" THEN DetermineType(t) ELSE ConvertSdsToAobj(t, ctype)
CreateSDSFromAobj(a) ==
  CASE a.type = "S" -> a.v
    [] a.type \in {"I", "L"} -> Decimal(a.v)
    [] a.type = "B" -> IF a.v = 1 THEN Words.true ELSE Words.false
OutputAobj(a) ==
  CASE a.type \in {"I", "L", "B"} -> <<58>> \o Decimal(a.v) \o CrLf
    [] a.type = "S" -> BulkString(a.v)
    [] a.type = "N" -> <<58, 45, 49>> \o CrLf

(***************************** what they must do *****************************)
HashExact(ht, map) ==
  /\ \A k \in DOMAIN map : HashFetch(ht, k) = map[k]
  /\ \A i \in DOMAIN ht.e : ht.e[i].key \in DOMAIN map \cup {0}
(* Every column reads as it was given, and the row knows its size.             *)
Given(tbl, vals, c) ==
  IF c = tbl.lruc THEN <<tbl.now>> ELSE IF c = tbl.lfuc THEN <<1>>
  ELSE IF tbl.type[c] = "O" THEN <<>>
  ELSE IF tbl.type[c] = "S" /\ vals[c] = <<<<>>>> THEN <<>> ELSE vals[c]
ReadsAs(tbl, vals, row, n) ==
  row # NoRow /\ (OddCount(n) => IsHashRow(row[1])) =>
    /\ \A c \in DOMAIN vals : GetRawCol(tbl, row, c) = Given(tbl, vals, c)
    /\ n > 0 => GetRowPayload(row).size = Len(row)
RowExact(tbl, vals) ==
  Compressible(tbl, vals) => ReadsAs(tbl, vals, CreateRow(tbl, vals), Stored(tbl, vals))
StreamExact(ktype, btype, k, val) ==
  LET b == CreateStream(ktype, btype, k, val)
  IN /\ ConvertStream2Key(ktype, b) = k
     /\ ParseStream(ktype, btype, b) = val
     /\ GetStreamRowSize(ktype, btype, b) = Len(b)
(* The trees are in the order of the keys: numbers, or texts as in a lexicon.  *)
Before(ktype, k, l) ==
  IF ktype # "S" THEN k < l
  ELSE \E i \in 1 .. Len(l) : /\ \A j \in 1 .. i - 1 : j \in DOMAIN k /\ k[j] = l[j]
                              /\ i \in DOMAIN k => k[i] < l[i]
OrderExact(ktype, k, l, val) ==
  LET r == StreamCmp(ktype, CreateStream(ktype, "index", k, val), CreateStream(ktype, "index", l, val))
  IN r = IF k = l THEN 0 ELSE IF Before(ktype, k, l) THEN -1 ELSE 1
ObtExact(kind, k, v, l) ==
  LET s == ObtCreateStream(kind, k, v)
  IN /\ ObtCol(kind, s, 0) = k /\ ObtCol(kind, s, 1) = v
     /\ (kind = "UU" /\ FarApart(k, l)) \/ ObtCmp(kind, s, ObtCreateStream(kind, l, v)) = Compared(k, l)
(* A dumped tree comes back with the same rows, and nothing is left over.      *)
RECURSIVE Streams(_)
Streams(x) == x.streams \o FlattenSeq([i \in DOMAIN x.nodes |-> Streams(x.nodes[i])])
RowsDumpExact(ktype, x) ==
  LET n == Len(Streams(x))
      r == RdbLoadRows(ktype, RdbSaveAllRows(x), n, <<>>)
  IN r.ok /\ r.rest = <<>> /\ {r.val[k] : k \in DOMAIN r.val} = Range(Streams(x))
IcolExact(ic) == RdbLoadIcol(RdbSaveIcol(ic)) = Got(ic, <<>>)
(* The text of a value gives the value again; its reply carries its text.      *)
ValueExact(t, ctype) ==
  LET a == InitAobjFromStr(t, ctype)
      out == OutputAobj(a)
  IN a.type # "O" =>
     /\ InitAobjFromStr(CreateSDSFromAobj(a), ctype) = a
     /\ a.type = "S" => ReadString(out) = Got(CreateSDSFromAobj(a), <<>>)
     /\ a.type \in {"I", "L"} /\ a.v >= 0 => ReadLong(out, 58) = Got(a.v, <<>>)
=============================================================================
