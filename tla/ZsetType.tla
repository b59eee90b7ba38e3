------------------------------ MODULE ZsetType ------------------------------
(* The sorted sets (t_zset.c) and SORT (sort.c). A sorted set is a function    *)
(* from elements to scores; ziplist and skip list behave alike. Elements are   *)
(* numbers in the order compareStringObjects gives the strings; scores are     *)
(* integers, Inf and -Inf the infinities, NaN what has no value.               *)
EXTENDS BasicTypes

Inf == 1000
NaN == Inf + 1
Finite(x) == IF x > Inf THEN Inf ELSE IF x < -Inf THEN -Inf ELSE x
Plus(a, b) == IF {a, b} = {Inf, -Inf} THEN NaN
              ELSE IF Inf \in {a, b} THEN Inf
              ELSE IF -Inf \in {a, b} THEN -Inf ELSE a + b
Times(w, x) == IF w = 0 /\ x \in {Inf, -Inf} THEN NaN ELSE Finite(w * x)

Zset(z) == <<"zset", z>>
Precedes(z, a, b) == z[a] < z[b] \/ (z[a] = z[b] /\ a < b)
Ranked(z) == SetToSortSeq(DOMAIN z, LAMBDA a, b : Precedes(z, a, b))
WithScore(s, k, e, x) == Changed(Store(s, k, (e :> x) @@ Content(s, k)), k)
Less(s, k, gone) ==
  LET z == [e \in DOMAIN Content(s, k) \ gone |-> Content(s, k)[e]]
      Kept(u) == IF DOMAIN z = {} THEN DbDelete(u, k) ELSE Store(u, k, z)
  IN Dirty(IF gone = {} THEN Kept(s) ELSE SignalModifiedKey(Kept(s), k), Cardinality(gone))

(* ZADD with pairs <<score, element>>, ZINCRBY with one. A score that does not *)
(* change is no modification; NaN is refused.                                  *)
ZAddGeneric(s, k, pairs, incr) ==
  LET Old(u, e) == Content(u, k)[e]
      Has1(u, e) == e \in DOMAIN Content(u, k)
      New(u, p) == IF incr /\ Has1(u, p[2]) THEN Plus(p[1], Old(u, p[2])) ELSE p[1]
      One(u, p) == IF New(u, p) = NaN THEN Say(u, "nan")
                   ELSE IF Has1(u, p[2]) /\ Old(u, p[2]) = New(u, p) THEN u
                   ELSE WithScore(u, k, p[2], New(u, p))
  IN LookupOrCreate(s, k, "zset", <<>>, LAMBDA u : Each(Say(u, "ok"), pairs, One))

ZRem(s, k, elems) ==
  LookupKey(s, k, "zset", 0,
            LAMBDA u : IF Range(elems) \cap DOMAIN Content(u, k) = {} THEN Say(u, 0)
                       ELSE Less(Say(u, "ok"), k, Range(elems) \cap DOMAIN Content(u, k)))

(* A range of scores is [min, max, minex, maxex].                              *)
ScoreIn(x, r) == /\ IF r.minex THEN x > r.min ELSE x >= r.min
                 /\ IF r.maxex THEN x < r.max ELSE x <= r.max
InScores(z, r) == SelectSeq(Ranked(z), LAMBDA e : ScoreIn(z[e], r))
ZRemRangeByScore(s, k, r) ==
  LookupKey(s, k, "zset", 0, LAMBDA u : Less(Say(u, "ok"), k, Range(InScores(Content(u, k), r))))

InRanks(z, start, end) == Slice(Ranked(z), Range0(start, end, Cardinality(DOMAIN z)))
ZRemRangeByRank(s, k, start, end) ==
  LET Go(u, gone) == IF gone = {} THEN Say(u, 0) ELSE Less(Say(u, "ok"), k, gone)
  IN LookupKey(s, k, "zset", 0, LAMBDA u : Go(u, Range(InRanks(Content(u, k), start, end))))

(* The score of a member of a set is 1. The inputs are taken from the smallest *)
(* to the largest; the result replaces dst, which may be one of them.          *)
Scored(s, k) == IF ~Has(s, k) THEN <<>>
                ELSE IF TypeOf(s, k) = "set" THEN [e \in Content(s, k) |-> 1]
                ELSE Content(s, k)
Aggregate(op, a, b) ==
  CASE op = "sum" -> IF NaN \in {a, b, Plus(a, b)} THEN 0 ELSE Plus(a, b)
    [] NaN \in {a, b} -> a
    [] op = "min" -> IF b < a THEN b ELSE a
    [] OTHER -> IF b > a THEN b ELSE a
UnionInter(src, op, inter) ==
  LET Of(e) == SelectSeq(src, LAMBDA x : e \in DOMAIN x.z)
      elems == IF inter THEN {e \in DOMAIN src[1].z : Len(Of(e)) = Len(src)}
               ELSE UNION {DOMAIN src[i].z : i \in DOMAIN src}
      Sum(h, e) == FoldLeft(LAMBDA a, x : Aggregate(op, a, Times(x.w, x.z[e])),
                            Times(h[1].w, h[1].z[e]), Tail(h))
  IN [e \in elems |-> Sum(Of(e), e)]
ZUnionInter(s, dst, keys, weights, op, inter) ==
  LET Src(u) == [i \in DOMAIN keys |-> [z |-> Scored(u, keys[i]), w |-> weights[i]]]
      Card(x) == Cardinality(DOMAIN x.z)
      Sources(src) == SortSeq(src, LAMBDA a, b : Card(a) < Card(b))
      Clear(u) == IF Has(u, dst) THEN Changed(DbDelete(u, dst), dst) ELSE u
      Fill(u, z) == IF DOMAIN z = {} THEN Say(u, 0)
                    ELSE Changed(DbAdd(Say(u, "ok"), dst, Zset(z)), dst)
      Go(u) == IF \E i \in DOMAIN keys : Has(u, keys[i]) /\ TypeOf(u, keys[i]) \notin {"set", "zset"}
               THEN Say(u, "wrongtype")
               ELSE Fill(Clear(u), UnionInter(Sources(Src(u)), op, inter))
  IN Go(Lookups(s, keys))

Order(l, reverse) == IF reverse THEN Reverse(l) ELSE l
ZRangeGeneric(s, k, start, end, reverse) ==
  LookupKey(s, k, "zset", <<>>,
            LAMBDA u : LET l == Order(Ranked(Content(u, k)), reverse)
                       IN Say(u, Slice(l, Range0(start, end, Len(l)))))
(* ZRANGEBYSCORE, ZREVRANGEBYSCORE with LIMIT (count < 0: all), and ZCOUNT.    *)
ZRangeByScore(s, k, r, reverse, offset, count, justcount) ==
  LET Show(l) == IF justcount THEN Len(l) ELSE l
      Stop(n) == IF count < 0 \/ offset + count > n THEN n ELSE offset + count
      Cut(l) == IF offset >= Len(l) THEN <<>> ELSE SubSeq(l, offset + 1, Stop(Len(l)))
  IN LookupKey(s, k, "zset", IF justcount THEN 0 ELSE <<>>,
               LAMBDA u : Say(u, Show(Cut(Order(InScores(Content(u, k), r), reverse)))))
ZCard(s, k) == LookupKey(s, k, "zset", 0, LAMBDA u : Say(u, Cardinality(DOMAIN Content(u, k))))
ZScore(s, k, e) ==
  LookupKey(s, k, "zset", "nil",
            LAMBDA u : Say(u, IF e \in DOMAIN Content(u, k) THEN Content(u, k)[e] ELSE "nil"))
ZRank(s, k, e, reverse) ==
  LookupKey(s, k, "zset", "nil",
            LAMBDA u : Say(u, IF e \notin DOMAIN Content(u, k) THEN "nil"
                              ELSE SelectInSeq(Order(Ranked(Content(u, k)), reverse),
                                               LAMBDA x : x = e) - 1))

(************************************ SORT ***********************************)
(* A pattern maps an element to the key (and hash field, or NoKey) it names;   *)
(* "#" is the element itself, a pattern without a star sorts nothing.          *)
ByPattern(s, p, e) ==
  LET k == p.key[e]
      u == ExpireIfNeeded(s, k)
      Field(f) == IF p.field \in DOMAIN f THEN <<f[p.field]>> ELSE <<>>
  IN [s |-> u, v |-> IF ~Has(u, k) THEN <<>>
                     ELSE IF p.field # NoKey
                     THEN IF TypeOf(u, k) = "hash" THEN Field(Content(u, k)) ELSE <<>>
                     ELSE IF TypeOf(u, k) = "string" THEN <<Content(u, k)>> ELSE <<>>]
Weight(v) == IF v = <<>> \/ ~LongLong(v[1]).ok THEN 0 ELSE LongLong(v[1]).n

(* o: desc, by (a pattern, "self" or "nosort"), start, count, get, store.      *)
SortKey(s, o, e) == IF o.by.kind = "self" THEN e ELSE Weight(ByPattern(s, o.by, e).v)
Sorted(s, o, l) ==
  IF o.by.kind = "nosort" THEN l
  ELSE SortSeq(l, LAMBDA a, b : IF o.desc THEN SortKey(s, o, a) > SortKey(s, o, b)
                                ELSE SortKey(s, o, a) < SortKey(s, o, b))
Window(o, l) ==
  LET start == IF o.start < 0 THEN 0 ELSE o.start
      end == IF o.count < 0 THEN Len(l) - 1 ELSE start + o.count - 1
  IN IF start >= Len(l) THEN <<>>
     ELSE SubSeq(l, start + 1, IF end >= Len(l) THEN Len(l) ELSE end + 1)
(* Looking up a pattern may expire the keys it names.                          *)
SeenBy(s, p, l) == IF p.kind # "pattern" THEN s
                   ELSE Each(s, l, LAMBDA w, e : ByPattern(w, p, e).s)
Got(s, p, e) == IF p.kind = "self" THEN e
                ELSE LET v == ByPattern(s, p, e).v IN IF v = <<>> THEN <<>> ELSE v[1]
SortOut(s, o, l) ==
  LET out == [i \in DOMAIN l |-> Got(s, o.get, l[i])]
      Go(u) == IF o.store = NoKey THEN Say(u, out)
               ELSE Dirty(SetKey(Say(u, Len(l)), o.store, List(out)), 1 + Len(l))
  IN Go(SeenBy(s, o.get, l))
Sort(s, k, o) ==
  LET Elems(u) == CASE TypeOf(u, k) = "list" -> Content(u, k)
                    [] TypeOf(u, k) = "set" -> SetToSeq(Content(u, k))
                    [] OTHER -> SetToSeq(DOMAIN Content(u, k))
      Second(u, l) == SortOut(u, o, Window(o, Sorted(u, o, l)))
      Go(u) == IF ~Has(u, k) THEN Say(u, <<>>)
               ELSE IF TypeOf(u, k) \notin {"set", "list", "zset"} THEN Say(u, "wrongtype")
               ELSE Second(SeenBy(u, o.by, Elems(u)), Elems(u))
  IN Go(ExpireIfNeeded(s, k))
=============================================================================
