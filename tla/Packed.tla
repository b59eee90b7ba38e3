------------------------------- MODULE Packed -------------------------------
(* The encodings that keep a small list, map or set in one block of memory, the *)
(* linked list, and the values that move from the one to the other.            *)
EXTENDS Integers, Sequences, FiniteSets, SequencesExt, TLC

-----------------------------------------------------------------------------
(* The ziplist (ziplist.c) by the sizes of its fields. An entry is             *)
(*   ps, pl   the size of its prevlen field (1 or Wide) and the length in it   *)
(*   len      the bytes of its header and payload behind that field            *)
(*   val      what it stores                                                   *)
(* and a ziplist is [ent, tail, count, bytes]: its entries, the offset of the  *)
(* last one, the saturating count and the size as its header has them. Offsets *)
(* are from the first entry. torn: the last byte was cut off before the move.  *)
CONSTANTS BigLen, Wide, MaxCount

ZiplistNew == [ent |-> <<>>, tail |-> 0, count |-> 0, bytes |-> 0, torn |-> FALSE]
Raw(e) == e.ps + e.len
PrevEncodeLength(n) == IF n < BigLen THEN 1 ELSE Wide
SumRaw(s) == FoldLeft(LAMBDA n, e : n + Raw(e), 0, s)
Offset(z, i) == SumRaw(SubSeq(z.ent, 1, i - 1))
IncrLength(z, n) == IF z.count < MaxCount THEN [z EXCEPT !.count = @ + n] ELSE z

(* A cascade that stops at the first entry it changes, as a mistake would.     *)
CascadeOnce(z, i) ==
  IF i >= Len(z.ent) THEN z
  ELSE [z EXCEPT !.ent[i + 1].ps = PrevEncodeLength(Raw(z.ent[i])), !.ent[i + 1].pl = Raw(z.ent[i]),
                 !.bytes = @ + PrevEncodeLength(Raw(z.ent[i])) - z.ent[i + 1].ps]
(* __ziplistCascadeUpdate from the entry i: its length goes into the prevlen   *)
(* field of the next one, which may grow, and so on. A field never shrinks.    *)
RECURSIVE CascadeUpdate(_, _)
CascadeUpdate(z, i) ==
  IF i >= Len(z.ent) THEN z
  ELSE LET raw == Raw(z.ent[i])
           need == PrevEncodeLength(raw)
           next == z.ent[i + 1]
           grown == [z EXCEPT !.ent[i + 1].ps = need, !.ent[i + 1].pl = raw,
                              !.bytes = @ + need - next.ps,
                              !.tail = IF z.tail # Offset(z, i + 1) THEN @ + need - next.ps ELSE @]
       IN IF next.pl = raw THEN z
          ELSE IF next.ps < need THEN CascadeUpdate(grown, i + 1)
          ELSE [z EXCEPT !.ent[i + 1].pl = raw]

(* __ziplistInsert before the entry i (behind the last one when i is one more  *)
(* than their number). The next entry gets a prevlen field of the size it      *)
(* needs. When its field shrinks by more than the new entry takes, the block   *)
(* is made smaller before its end is moved.                                    *)
Grown(z, i, e, diff) ==
  LET next == [z.ent[i] EXCEPT !.ps = @ + diff, !.pl = Raw(e)]
  IN [z EXCEPT !.ent = SubSeq(@, 1, i - 1) \o <<e, next>> \o SubSeq(@, i + 1, Len(@)),
               !.bytes = @ + Raw(e) + diff,
               !.tail = @ + Raw(e) + IF i < Len(z.ent) THEN diff ELSE 0,
               !.torn = @ \/ Raw(e) + diff < 0]
ZiplistInsert(z, i, len, val) ==
  LET prev == IF i <= Len(z.ent) THEN z.ent[i].pl
              ELSE IF z.ent = <<>> THEN 0 ELSE Raw(z.ent[Len(z.ent)])
      e == [ps |-> PrevEncodeLength(prev), pl |-> prev, len |-> len, val |-> val]
      diff == IF i > Len(z.ent) THEN 0 ELSE PrevEncodeLength(Raw(e)) - z.ent[i].ps
      placed == IF i > Len(z.ent)
                THEN [z EXCEPT !.ent = Append(@, e), !.bytes = @ + Raw(e), !.tail = z.bytes]
                ELSE Grown(z, i, e, diff)
  IN IncrLength(IF diff = 0 THEN placed ELSE CascadeUpdate(placed, i + 1), 1)

(* __ziplistDelete of num entries from i on: the entry behind them takes over  *)
(* the prevlen of the first one.                                               *)
ZiplistDelete(z, i, num) ==
  LET last == IF i + num - 1 > Len(z.ent) THEN Len(z.ent) ELSE i + num - 1
      first == z.ent[i]
      gone == SubSeq(z.ent, i, last)
      diff == PrevEncodeLength(first.pl) - z.ent[last + 1].ps
      next == [z.ent[last + 1] EXCEPT !.ps = @ + diff, !.pl = first.pl]
      shifted == [z EXCEPT
                    !.ent = SubSeq(@, 1, i - 1) \o <<next>> \o SubSeq(@, last + 2, Len(@)),
                    !.tail = @ - SumRaw(gone) + IF last + 1 < Len(z.ent) THEN diff ELSE 0,
                    !.bytes = @ - SumRaw(gone) + diff]
      cut == [z EXCEPT !.ent = SubSeq(@, 1, i - 1), !.tail = Offset(z, i) - first.pl,
                       !.bytes = @ - SumRaw(gone)]
  IN IF last = Len(z.ent) THEN IncrLength(cut, -Len(gone))
     ELSE LET u == IncrLength(shifted, -Len(gone))
          IN IF diff = 0 THEN u ELSE CascadeUpdate(u, i)

(* ziplistLen counts when the header cannot know, and stores what it counted.  *)
ZiplistLen(z) == IF z.count < MaxCount THEN z.count ELSE Len(z.ent)
ZiplistLenStore(z) == IF z.count = MaxCount /\ Len(z.ent) < MaxCount
                      THEN [z EXCEPT !.count = Len(z.ent)] ELSE z

(* ziplistIndex from the end follows tail and the prevlen fields.              *)
Starts(z) == {Offset(z, i) : i \in DOMAIN z.ent}
RECURSIVE Back(_, _, _)
Back(z, o, n) ==
  LET e == z.ent[CHOOSE i \in DOMAIN z.ent : Offset(z, i) = o]
  IN IF o \notin Starts(z) THEN <<>>
     ELSE IF n = 0 THEN <<e.val>>
     ELSE IF e.pl = 0 THEN <<>> ELSE Back(z, o - e.pl, n - 1)
ZiplistIndex(z, n) ==
  IF n < 0 THEN IF z.ent = <<>> THEN <<>> ELSE Back(z, z.tail, -n - 1)
  ELSE IF n < Len(z.ent) THEN <<z.ent[n + 1].val>> ELSE <<>>

(******************************* what it must be *****************************)
(* Both directions give the same list; the header tells the truth.             *)
ZiplistSound(z, list) ==
  /\ ~z.torn
  /\ [i \in DOMAIN z.ent |-> z.ent[i].val] = list
  /\ \A n \in 0 .. Len(list) : /\ ZiplistIndex(z, n) = IF n < Len(list) THEN <<list[n + 1]>> ELSE <<>>
                               /\ n < Len(list) => ZiplistIndex(z, -n - 1) = <<list[Len(list) - n]>>
  /\ \A i \in DOMAIN z.ent : /\ z.ent[i].pl = IF i = 1 THEN 0 ELSE Raw(z.ent[i - 1])
                             /\ z.ent[i].ps >= PrevEncodeLength(z.ent[i].pl)
  /\ z.bytes = SumRaw(z.ent)
  /\ ZiplistLen(z) = Len(list)

-----------------------------------------------------------------------------
(* The zipmap (zipmap.c): pairs one behind the other in one block. An entry is *)
(* [key, vlen, val, free, room]: the length and bytes of its value, the spare  *)
(* bytes behind it as the entry's header has them, and the bytes the entry was *)
(* given. A reader steps from entry to entry by the lengths it reads, so the   *)
(* two must agree. zm is [ent, count]. Keys are one byte long.                 *)
CONSTANTS ZipmapBigLen, WideLen, MaxFree

ZipmapNew == [ent |-> <<>>, count |-> 0]
LenBytes(n) == IF n < ZipmapBigLen THEN 1 ELSE WideLen
RequiredLength(vlen) == 1 + vlen + 3 + IF vlen >= ZipmapBigLen THEN WideLen - 1 ELSE 0
RawEntryLength(e) == LenBytes(1) + 1 + LenBytes(e.vlen) + e.free + 1 + e.vlen
LookupRaw(zm, k) == SelectInSeq(zm.ent, LAMBDA e : e.key = k)

(* zipmapSet: an entry that is too short grows, one with MaxFree bytes too     *)
(* many is cut, fewer become its spare bytes.                                  *)
VEmpty(empty) == IF empty >= MaxFree THEN 0 ELSE empty
ZipmapSet(zm, k, vlen, val) ==
  LET i == LookupRaw(zm, k)
      req == RequiredLength(vlen)
      len == IF i = 0 THEN req ELSE RawEntryLength(zm.ent[i])
      room == IF len < req THEN req ELSE len
      e == [key |-> k, vlen |-> vlen, val |-> val, free |-> VEmpty(room - req),
            room |-> IF room - req >= MaxFree THEN req ELSE room]
  IN IF i = 0 THEN [ent |-> Append(zm.ent, e),
                    count |-> IF zm.count < ZipmapBigLen THEN zm.count + 1 ELSE zm.count]
     ELSE [zm EXCEPT !.ent[i] = e]
ZipmapDel(zm, k) ==
  LET i == LookupRaw(zm, k)
  IN IF i = 0 THEN zm
     ELSE [ent |-> RemoveAt(zm.ent, i), count |-> IF zm.count < ZipmapBigLen THEN zm.count - 1 ELSE zm.count]
ZipmapGet(zm, k) == LET i == LookupRaw(zm, k) IN IF i = 0 THEN <<>> ELSE <<zm.ent[i].val>>
ZipmapNext(zm) == [i \in DOMAIN zm.ent |-> <<zm.ent[i].key, zm.ent[i].val>>]
ZipmapLen(zm) == IF zm.count < ZipmapBigLen THEN zm.count ELSE Len(zm.ent)
(* zipmapLen stores the count again once it fits.                              *)
ZipmapLenStore(zm) == IF zm.count >= ZipmapBigLen /\ Len(zm.ent) < ZipmapBigLen
                      THEN [zm EXCEPT !.count = Len(zm.ent)] ELSE zm
ZipmapBlobLen(zm) == 2 + FoldLeft(LAMBDA n, e : n + RawEntryLength(e), 0, zm.ent)

(* A walk by the stored lengths meets every entry where it is, and gives the   *)
(* pairs that were set.                                                        *)
ZipmapSound(zm, map) ==
  /\ \A i \in DOMAIN zm.ent : zm.ent[i].room = RawEntryLength(zm.ent[i])
  /\ ZipmapBlobLen(zm) = 2 + FoldLeft(LAMBDA n, e : n + e.room, 0, zm.ent)
  /\ Range(ZipmapNext(zm)) = {<<k, map[k]>> : k \in DOMAIN map} /\ IsInjective(ZipmapNext(zm))
  /\ \A k \in DOMAIN map : ZipmapGet(zm, k) = <<map[k]>>
  /\ ZipmapLen(zm) = Len(zm.ent)

-----------------------------------------------------------------------------
(* The intset (intset.c): a sorted array of integers that all have the width   *)
(* the widest one ever added needed. Widths[1..3] stand for 2^15, 2^31, 2^63.  *)
CONSTANT Widths

IntsetNew == [enc |-> 1, con |-> <<>>]
Fits(v, e) == -Widths[e] <= v /\ v < Widths[e]
ValueEncoding(v) == CHOOSE e \in 1 .. 3 : Fits(v, e) /\ \A f \in 1 .. e - 1 : ~Fits(v, f)
(* A value read or written through an element of width e.                      *)
AsStored(v, e) == ((v + Widths[e]) % (2 * Widths[e])) - Widths[e]

(* intsetSearch: [hit, pos], positions from 0.                                 *)
RECURSIVE Halve(_, _, _, _)
Halve(con, v, min, max) ==
  LET mid == (min + max) \div 2
      cur == con[mid + 1]
  IN IF max < min THEN [hit |-> FALSE, pos |-> min]
     ELSE IF v > cur THEN Halve(con, v, mid + 1, max)
     ELSE IF v < cur THEN Halve(con, v, min, mid - 1)
     ELSE [hit |-> TRUE, pos |-> mid]
IntsetSearch(is, v) ==
  IF is.con = <<>> THEN [hit |-> FALSE, pos |-> 0]
  ELSE IF v > is.con[Len(is.con)] THEN [hit |-> FALSE, pos |-> Len(is.con)]
  ELSE IF v < is.con[1] THEN [hit |-> FALSE, pos |-> 0]
  ELSE Halve(is.con, v, 0, Len(is.con) - 1)

UpgradeAndAdd(is, v) ==
  [enc |-> ValueEncoding(v), con |-> IF v < 0 THEN <<v>> \o is.con ELSE Append(is.con, v)]
IntsetAdd(is, v) ==
  LET at == IntsetSearch(is, v)
  IN IF ValueEncoding(v) > is.enc THEN UpgradeAndAdd(is, v)
     ELSE IF at.hit THEN is
     ELSE [is EXCEPT !.con = InsertAt(@, at.pos + 1, AsStored(v, is.enc))]
IntsetRemove(is, v) ==
  LET at == IntsetSearch(is, v)
  IN IF ValueEncoding(v) <= is.enc /\ at.hit THEN [is EXCEPT !.con = RemoveAt(@, at.pos + 1)] ELSE is
IntsetFind(is, v) == ValueEncoding(v) <= is.enc /\ IntsetSearch(is, v).hit

(* The array is sorted, wide enough, and answers for exactly the set.          *)
IntsetSound(is, set, values) ==
  /\ Range(is.con) = set
  /\ \A i \in 1 .. Len(is.con) - 1 : is.con[i] < is.con[i + 1]
  /\ \A v \in set : Fits(v, is.enc)
  /\ \A v \in values : IntsetFind(is, v) <=> v \in set

-----------------------------------------------------------------------------
(* The linked list (adlist.c): [head, tail, len, node], node a function from   *)
(* the nodes that are allocated to their links and values; NoNode is no node.    *)
NoNode == 0
ListCreate == [head |-> NoNode, tail |-> NoNode, len |-> 0, node |-> <<>>]
NewNode(l) == CHOOSE n \in 1 .. l.len + 1 : n \notin DOMAIN l.node /\ \A m \in 1 .. n - 1 : m \in DOMAIN l.node
Link(prev, next, v) == [prev |-> prev, next |-> next, val |-> v]
ListAddNodeHead(l, v) ==
  LET n == NewNode(l)
  IN IF l.len = 0 THEN [head |-> n, tail |-> n, len |-> 1, node |-> n :> Link(NoNode, NoNode, v)]
     ELSE [l EXCEPT !.head = n, !.len = @ + 1,
                    !.node = (n :> Link(NoNode, l.head, v)) @@ [@ EXCEPT ![l.head].prev = n]]
ListAddNodeTail(l, v) ==
  LET n == NewNode(l)
  IN IF l.len = 0 THEN [head |-> n, tail |-> n, len |-> 1, node |-> n :> Link(NoNode, NoNode, v)]
     ELSE [l EXCEPT !.tail = n, !.len = @ + 1,
                    !.node = (n :> Link(l.tail, NoNode, v)) @@ [@ EXCEPT ![l.tail].next = n]]
ListInsertNode(l, old, v, after) ==
  LET n == NewNode(l)
      new == IF after THEN Link(old, l.node[old].next, v) ELSE Link(l.node[old].prev, old, v)
      tied == [m \in DOMAIN l.node |-> [l.node[m] EXCEPT !.next = IF m = new.prev THEN n ELSE @,
                                                         !.prev = IF m = new.next THEN n ELSE @]]
  IN [head |-> IF ~after /\ l.head = old THEN n ELSE l.head,
      tail |-> IF after /\ l.tail = old THEN n ELSE l.tail,
      len |-> l.len + 1, node |-> (n :> new) @@ tied]
ListDelNode(l, n) ==
  LET x == l.node[n]
  IN [head |-> IF x.prev = NoNode THEN x.next ELSE l.head,
      tail |-> IF x.next = NoNode THEN x.prev ELSE l.tail,
      len |-> l.len - 1,
      node |-> [m \in DOMAIN l.node \ {n} |-> [l.node[m] EXCEPT !.next = IF m = x.prev THEN x.next ELSE @,
                                                                !.prev = IF m = x.next THEN x.prev ELSE @]]]
ListNext(l, n, dir) == IF dir = "tail" THEN l.node[n].next ELSE l.node[n].prev
RECURSIVE Steps(_, _, _, _)
Steps(l, n, i, dir) == IF i = 0 \/ n = NoNode THEN n ELSE Steps(l, ListNext(l, n, dir), i - 1, dir)
ListIndex(l, i) == IF i < 0 THEN Steps(l, l.tail, -i - 1, "head") ELSE Steps(l, l.head, i, "tail")
(* An iterator from the node n on: listDup copies what it gives, listSearchKey *)
(* stops at the first match.                                                   *)
RECURSIVE Walk(_, _, _)
Walk(l, n, dir) == IF n = NoNode THEN <<>> ELSE <<n>> \o Walk(l, ListNext(l, n, dir), dir)
ListDup(l) ==
  LET w == Walk(l, l.head, "tail")
  IN FoldLeft(LAMBDA copy, n : ListAddNodeTail(copy, l.node[n].val), ListCreate, w)
ListSearchKey(l, v) ==
  LET w == Walk(l, l.head, "tail")
      i == SelectInSeq(w, LAMBDA n : l.node[n].val = v)
  IN IF i = 0 THEN NoNode ELSE w[i]

(* Both directions give the list, a copy is equal, the first match is found.   *)
Contents(l, nodes) == [i \in DOMAIN nodes |-> l.node[nodes[i]].val]
LinkedSound(l, list) ==
  LET w == Walk(l, l.head, "tail")
      copy == ListDup(l)
  IN /\ Contents(l, w) = list /\ Walk(l, l.tail, "head") = Reverse(w)
     /\ l.len = Len(list) /\ DOMAIN l.node = Range(w)
     /\ Contents(copy, Walk(copy, copy.head, "tail")) = list
     /\ \A i \in DOMAIN list : /\ ListIndex(l, i - 1) = w[i] /\ ListIndex(l, i - 1 - Len(list)) = w[i]
                               /\ ListSearchKey(l, list[i]) = w[SelectInSeq(list, LAMBDA v : v = list[i])]
     /\ ListIndex(l, Len(list)) = NoNode

-----------------------------------------------------------------------------
(* Values of either form, [enc, val] (t_set.c, t_hash.c, t_list.c): packed     *)
(* until they have too many entries or one that is too long, then for good a   *)
(* table or a linked list. Dicts are the sets and functions they stand for.    *)
CONSTANTS MaxPackedEntries,   \* set_max_intset_entries and the others like it
          MaxPackedLen        \* hash_max_zipmap_value, list_max_ziplist_value
As(enc, val) == [enc |-> enc, val |-> val]

(* Sets. A member is <<"int", v>> or <<"text", t>>.                            *)
IsLongLong(m) == m[1] = "int"
SetTypeCreate(m) == IF IsLongLong(m) THEN As("intset", IntsetNew) ELSE As("ht", {})
SetTypeConvert(o) == As("ht", {<<"int", v>> : v \in Range(o.val.con)})
SetTypeAdd(o, m) ==
  LET is == IntsetAdd(o.val, m[2])
  IN IF o.enc = "ht" THEN As("ht", o.val \cup {m})
     ELSE IF ~IsLongLong(m) THEN As("ht", SetTypeConvert(o).val \cup {m})
     ELSE IF is # o.val /\ Len(is.con) > MaxPackedEntries THEN SetTypeConvert(As("intset", is))
     ELSE As("intset", is)
SetTypeRemove(o, m) ==
  IF o.enc = "ht" THEN As("ht", o.val \ {m})
  ELSE IF IsLongLong(m) THEN As("intset", IntsetRemove(o.val, m[2])) ELSE o
SetTypeIsMember(o, m) == IF o.enc = "ht" THEN m \in o.val ELSE IsLongLong(m) /\ IntsetFind(o.val, m[2])
SetTypeSize(o) == IF o.enc = "ht" THEN Cardinality(o.val) ELSE Len(o.val.con)
SetTypeElements(o) == IF o.enc = "ht" THEN o.val ELSE {<<"int", o.val.con[i]>> : i \in DOMAIN o.val.con}
SetObjSound(o, set, members) ==
  /\ SetTypeElements(o) = set /\ SetTypeSize(o) = Cardinality(set)
  /\ \A m \in members : SetTypeIsMember(o, m) <=> m \in set

(* Hashes. The length of a value goes with it.                                 *)
HashTypeNew == As("zipmap", ZipmapNew)
ConvertToRealHash(o) ==
  LET ps == ZipmapNext(o.val)
  IN As("ht", [k \in {ps[i][1] : i \in DOMAIN ps} |-> ps[CHOOSE i \in DOMAIN ps : ps[i][1] = k][2]])
HashTypeTryConversion(o, vlen) == IF o.enc = "zipmap" /\ vlen > MaxPackedLen THEN ConvertToRealHash(o) ELSE o
HashTypeSet(o, k, vlen, v) ==
  LET zm == ZipmapSet(o.val, k, vlen, v)
      kept == As("zipmap", ZipmapLenStore(zm))
  IN IF o.enc = "ht" THEN As("ht", (k :> v) @@ o.val)
     ELSE IF ZipmapLen(zm) > MaxPackedEntries THEN ConvertToRealHash(kept) ELSE kept
HashTypeDelete(o, k) ==
  IF o.enc = "ht" THEN As("ht", [x \in DOMAIN o.val \ {k} |-> o.val[x]]) ELSE As("zipmap", ZipmapDel(o.val, k))
HashTypeGet(o, k) ==
  IF o.enc = "zipmap" THEN ZipmapGet(o.val, k) ELSE IF k \in DOMAIN o.val THEN <<o.val[k]>> ELSE <<>>
HashTypeLength(o) == IF o.enc = "zipmap" THEN ZipmapLen(o.val) ELSE Cardinality(DOMAIN o.val)
HashTypePairs(o) == IF o.enc = "zipmap" THEN Range(ZipmapNext(o.val)) ELSE {<<k, o.val[k]>> : k \in DOMAIN o.val}
HashObjSound(o, map, keys) ==
  /\ HashTypePairs(o) = {<<k, map[k]>> : k \in DOMAIN map} /\ HashTypeLength(o) = Cardinality(DOMAIN map)
  /\ \A k \in keys : HashTypeGet(o, k) = IF k \in DOMAIN map THEN <<map[k]>> ELSE <<>>

(* Lists. A place in a ziplist is the number of an entry, one more than their  *)
(* number for its end, which a deletion may leave an iterator at.              *)
ListTypeNew == As("ziplist", ZiplistNew)
EntryAt(z, o) == CHOOSE i \in DOMAIN z.ent : Offset(z, i) = o
ZiplistNext(z, i) == IF i >= Len(z.ent) THEN NoNode ELSE i + 1
ZiplistPrev(z, i) ==
  IF i > Len(z.ent) THEN IF z.ent = <<>> THEN NoNode ELSE EntryAt(z, z.tail)
  ELSE IF i = 1 THEN NoNode ELSE EntryAt(z, Offset(z, i) - z.ent[i].pl)
ListTypeInitIterator(o, index) ==
  IF o.enc = "linked" THEN ListIndex(o.val, index)
  ELSE IF o.val.ent = <<>> THEN NoNode ELSE IF index = 0 THEN 1 ELSE EntryAt(o.val, o.val.tail)
ListTypeNext(o, p, dir) ==
  IF o.enc = "linked" THEN ListNext(o.val, p, dir)
  ELSE IF dir = "tail" THEN ZiplistNext(o.val, p) ELSE ZiplistPrev(o.val, p)
ListTypeGet(o, p) == IF o.enc = "linked" THEN o.val.node[p].val ELSE o.val.ent[p].val
ListTypeEqual(o, p, v) == (o.enc = "ziplist" => p <= Len(o.val.ent)) /\ ListTypeGet(o, p) = v
ListTypeLength(o) == IF o.enc = "linked" THEN o.val.len ELSE ZiplistLen(o.val)
ListTypeConvert(o) ==
  As("linked", FoldLeft(LAMBDA l, e : ListAddNodeTail(l, e.val), ListCreate, o.val.ent))
ListTypeTryConversion(o, v) == IF o.enc = "ziplist" /\ v > MaxPackedLen THEN ListTypeConvert(o) ELSE o
ListTypeFull(o, n) ==
  IF o.enc = "linked" THEN o
  ELSE IF ZiplistLen(o.val) >= n THEN ListTypeConvert(o) ELSE As("ziplist", ZiplistLenStore(o.val))
PushOn(o, v, where) ==
  IF o.enc = "ziplist" THEN As("ziplist", ZiplistInsert(o.val, IF where = "head" THEN 1 ELSE Len(o.val.ent) + 1, v, v))
  ELSE As("linked", IF where = "head" THEN ListAddNodeHead(o.val, v) ELSE ListAddNodeTail(o.val, v))
ListTypePush(o, v, where) == PushOn(ListTypeFull(ListTypeTryConversion(o, v), MaxPackedEntries), v, where)
(* A deletion that leaves the iterator where the entry was, as a mistake would.*)
ListTypeDeleteStays(o, p, dir) ==
  IF o.enc = "linked" THEN [o |-> As("linked", ListDelNode(o.val, p)), next |-> ListNext(o.val, p, dir)]
  ELSE [o |-> As("ziplist", ZiplistDelete(o.val, p, 1)), next |-> ZiplistNext(o.val, p)]
(* A deletion gives the place the iterator goes on from.                       *)
ListTypeDelete(o, p, dir) ==
  LET z == ZiplistDelete(o.val, p, 1)
  IN IF o.enc = "linked" THEN [o |-> As("linked", ListDelNode(o.val, p)), next |-> ListNext(o.val, p, dir)]
     ELSE [o |-> As("ziplist", z), next |-> IF dir = "tail" THEN p ELSE ZiplistPrev(z, p)]
ListTypePop(o, where) ==
  LET p == ListTypeInitIterator(o, IF where = "head" THEN 0 ELSE -1)
  IN IF p = NoNode THEN [o |-> o, v |-> <<>>]
     ELSE [o |-> ListTypeDelete(o, p, "tail").o, v |-> <<ListTypeGet(o, p)>>]
ListTypeInsert(o, p, v, where) ==
  IF o.enc = "linked" THEN As("linked", ListInsertNode(o.val, p, v, where = "tail"))
  ELSE As("ziplist", ZiplistInsert(o.val, IF where = "tail" THEN p + 1 ELSE p, v, v))
(* LINSERT next to the first entry that equals pivot; LREM of at most n of     *)
(* those that equal v (0: all), from the place p on.                           *)
RECURSIVE InsertFrom(_, _, _, _, _), RemoveFrom(_, _, _, _, _)
InsertFrom(o, p, pivot, v, where) ==
  IF p = NoNode THEN o
  ELSE IF ListTypeEqual(o, p, pivot) THEN ListTypeFull(ListTypeInsert(o, p, v, where), MaxPackedEntries + 1)
  ELSE InsertFrom(o, ListTypeNext(o, p, "tail"), pivot, v, where)
ListInsert(o, pivot, v, where) ==
  LET c == ListTypeTryConversion(o, v) IN InsertFrom(c, ListTypeInitIterator(c, 0), pivot, v, where)
RemoveFrom(o, p, v, n, dir) ==
  IF p = NoNode THEN o
  ELSE IF ~ListTypeEqual(o, p, v) THEN RemoveFrom(o, ListTypeNext(o, p, dir), v, n, dir)
  ELSE LET d == ListTypeDelete(o, p, dir) IN IF n = 1 THEN d.o ELSE RemoveFrom(d.o, d.next, v, n - 1, dir)
ListRemove(o, v, n) ==
  IF n < 0 THEN RemoveFrom(o, ListTypeInitIterator(o, -1), v, -n, "head")
  ELSE RemoveFrom(o, ListTypeInitIterator(o, 0), v, n, "tail")
ListObjSound(o, list) ==
  /\ ListTypeLength(o) = Len(list)
  /\ list # <<>> => ListTypePop(o, "head").v = <<Head(list)>> /\ ListTypePop(o, "tail").v = <<Last(list)>>
  /\ IF o.enc = "linked" THEN LinkedSound(o.val, list) ELSE ZiplistSound(o.val, list)
=============================================================================
