----------------------------- MODULE BasicTypes -----------------------------
(* The commands on strings, hashes, sets and lists.                            *)
EXTENDS Keyspace

-----------------------------------------------------------------------------
(* The string commands (t_string.c). A string is a sequence of bytes; whether  *)
(* it is kept as text or as an integer is not visible, because every command   *)
(* decodes it first. IntBits is the width of a long long and MaxString the     *)
(* limit of 512 MB, both small here so that they are reached.                  *)
CONSTANTS IntBits, MaxString

Nul == 0
Minus == 45
Digit(b) == b \in 48..57
Bytes(v) == <<"string", v>>
LongMax == 2 ^ (IntBits - 1) - 1
Wrap(x) == ((x + 2 ^ (IntBits - 1)) % 2 ^ IntBits) - 2 ^ (IntBits - 1)

Digits[n \in Nat] ==
  IF n < 10 THEN <<48 + n>> ELSE Digits[n \div 10] \o <<48 + (n % 10)>>
(* ll2string *)
Text(n) == IF n < 0 THEN <<Minus>> \o Digits[-n] ELSE Digits[n]

(* strtoll followed by the test that it stopped at a NUL byte, which is also   *)
(* true when it read nothing at all of a string that is empty or starts so.    *)
LongLong(b) ==
  LET sign == IF b # <<>> /\ b[1] = Minus THEN 1 ELSE 0
      stop == CHOOSE i \in sign + 1 .. Len(b) + 1 :
                /\ i > Len(b) \/ ~Digit(b[i])
                /\ \A j \in sign + 1 .. i - 1 : Digit(b[j])
      abs == FoldLeft(LAMBDA a, d : 10 * a + d - 48, 0, SubSeq(b, sign + 1, stop - 1))
      value == IF sign = 1 THEN -abs ELSE abs
      nothing == stop = sign + 1
  IN [ok |-> /\ IF nothing THEN b = <<>> \/ b[1] = Nul
                ELSE stop > Len(b) \/ b[stop] = Nul
             /\ value \in -LongMax - 1 .. LongMax,
      n |-> value]

SetGeneric(s, nx, k, v, ttl) ==
  LET Live(u) == IF ttl = <<>> THEN u ELSE SetExpire(u, k, u.now + ttl[1])
      Go(u) == IF Has(u, k) /\ nx THEN Say(u, 0)
               ELSE Say(Live(Dirty(SetKey(u, k, Bytes(v)), 1)), "ok")
  IN IF ttl # <<>> /\ ttl[1] <= 0 THEN Say(s, "invalidexpire")
     ELSE Go(ExpireIfNeeded(s, k))

Get(s, k) == LookupKey(s, k, "string", "nil", LAMBDA u : Say(u, Content(u, k)))

GetSet(s, k, v) ==
  LET Go(u) == IF Has(u, k) /\ TypeOf(u, k) # "string" THEN u
               ELSE Dirty(SetKey(u, k, Bytes(v)), 1)
  IN Go(Get(s, k))

GrowZero(b, n) == IF Len(b) >= n THEN b ELSE b \o [i \in 1 .. n - Len(b) |-> Nul]
Changed(s, k) == Dirty(SignalModifiedKey(s, k), 1)

BitOf(b, off) ==
  IF off \div 8 >= Len(b) THEN 0 ELSE (b[off \div 8 + 1] \div 2 ^ (7 - (off % 8))) % 2
SetBit(s, k, off, on) ==
  LET Flip(b) == [b EXCEPT ![off \div 8 + 1] = @ + (on - BitOf(b, off)) * 2 ^ (7 - (off % 8))]
      Go(u) == Changed(Say(Store(u, k, Flip(GrowZero(Content(u, k), off \div 8 + 1))),
                           BitOf(Content(u, k), off)), k)
  IN IF off < 0 \/ off \div 8 >= MaxString \/ on \notin {0, 1} THEN Say(s, "badbit")
     ELSE LookupOrCreate(s, k, "string", <<>>, Go)
GetBit(s, k, off) ==
  IF off < 0 \/ off \div 8 >= MaxString THEN Say(s, "badbit")
  ELSE LookupKey(s, k, "string", 0, LAMBDA u : Say(u, BitOf(Content(u, k), off)))

(* Setting nothing changes nothing and creates no key.                         *)
SetRange(s, k, off, v) ==
  LET Over(b) == [i \in 1 .. Len(b) |->
                    IF i \in off + 1 .. off + Len(v) THEN v[i - off] ELSE b[i]]
      Go(u) == Changed(Store(u, k, Over(GrowZero(Content(u, k), off + Len(v)))), k)
      First(u) ==
        IF Has(u, k) /\ TypeOf(u, k) # "string" THEN Say(u, "wrongtype")
        ELSE IF v = <<>> THEN Say(u, IF Has(u, k) THEN Len(Content(u, k)) ELSE 0)
        ELSE IF off + Len(v) > MaxString THEN Say(u, "toolong")
        ELSE Go(IF Has(u, k) THEN u ELSE DbAdd(u, k, Bytes(<<>>)))
  IN IF off < 0 THEN Say(s, "outofrange") ELSE First(ExpireIfNeeded(s, k))

(* A negative index counts from the end.                                       *)
From(i, n) == IF i < 0 THEN n + i ELSE i
GetRange(s, k, start, end) ==
  LET Lo(n) == IF From(start, n) < 0 THEN 0 ELSE From(start, n)
      Hi(n) == IF From(end, n) < 0 THEN 0 ELSE From(end, n)
      Stop(n) == IF Hi(n) >= n THEN n - 1 ELSE Hi(n)
      Cut(b) == SubSeq(b, Lo(Len(b)) + 1, Stop(Len(b)) + 1)
  IN LookupKey(s, k, "string", <<>>, LAMBDA u : Say(u, Cut(Content(u, k))))

MGet(s, keys) ==
  Each(Say(s, <<>>), keys,
       LAMBDA u, k : LET Go(w) == Say(w, Append(u.reply, IF IsType(w, k, "string")
                                       THEN Content(w, k) ELSE "nil"))
                     IN Go(ExpireIfNeeded(u, k)))

(* MSETNX sets all the keys or none; pairs is a sequence of <<key, value>>.    *)
MSetGeneric(s, nx, pairs) ==
  LET Look(u, p) == ExpireIfNeeded(u, p[1])
      All(u) == Dirty(Say(Each(u, pairs, LAMBDA w, p : SetKey(w, p[1], Bytes(p[2]))),
                          "ok"), Len(pairs))
      Go(u) == IF \E i \in DOMAIN pairs : Has(u, pairs[i][1]) THEN Say(u, 0) ELSE All(u)
  IN IF nx THEN Go(Each(s, pairs, Look)) ELSE All(s)

(* The sum is computed in IntBits bits; an overflow shows in its order.        *)
IncrDecr(s, k, incr) ==
  LET Old(u) == IF Has(u, k) THEN LongLong(Content(u, k)) ELSE [ok |-> TRUE, n |-> 0]
      Add(u, old, new) ==
        IF (incr < 0 /\ new > old) \/ (incr > 0 /\ new < old) THEN Say(u, "overflow")
        ELSE Changed(Say(Put(u, k, Bytes(Text(new))), new), k)
      Go(u) == IF Has(u, k) /\ TypeOf(u, k) # "string" THEN Say(u, "wrongtype")
               ELSE IF ~Old(u).ok THEN Say(u, "notinteger")
               ELSE Add(u, Old(u).n, Wrap(Old(u).n + incr))
  IN Go(ExpireIfNeeded(s, k))

AppendTo(s, k, v) ==
  LET Go(u) ==
        IF ~Has(u, k) THEN Changed(Say(DbAdd(u, k, Bytes(v)), Len(v)), k)
        ELSE IF TypeOf(u, k) # "string" THEN Say(u, "wrongtype")
        ELSE IF Len(Content(u, k)) + Len(v) > MaxString THEN Say(u, "toolong")
        ELSE Changed(Store(u, k, Content(u, k) \o v), k)
  IN Go(ExpireIfNeeded(s, k))

StrLen(s, k) == LookupKey(s, k, "string", 0, LAMBDA u : Say(u, Len(Content(u, k))))

-----------------------------------------------------------------------------
(* The hash commands (t_hash.c). A hash is a function on its fields; zipmap    *)
(* and hash table behave alike. Values are strings as in StringType.           *)

SetField(f, x, v) == (x :> v) @@ f
WithFields(s, k, f) == Changed(Store(s, k, f), k)

HSet(s, k, x, v) ==
  LookupOrCreate(s, k, "hash", <<>>,
                 LAMBDA u : WithFields(Say(u, IF x \in DOMAIN Content(u, k) THEN 0 ELSE 1),
                                       k, SetField(Content(u, k), x, v)))
HSetNx(s, k, x, v) ==
  LookupOrCreate(s, k, "hash", <<>>,
                 LAMBDA u : IF x \in DOMAIN Content(u, k) THEN Say(u, 0)
                            ELSE WithFields(Say(u, 1), k, SetField(Content(u, k), x, v)))
HMSet(s, k, pairs) ==
  LookupOrCreate(s, k, "hash", <<>>,
                 LAMBDA u : WithFields(Say(u, "ok"), k,
                   FoldLeft(LAMBDA f, p : SetField(f, p[1], p[2]), Content(u, k), pairs)))

(* HINCRBY has no test for overflow: the sum wraps. A key created for a field  *)
(* that is not there gets the field, so no empty hash is left.                 *)
HIncrBy(s, k, x, incr) ==
  LET Old(u) == IF x \in DOMAIN Content(u, k) THEN LongLong(Content(u, k)[x])
                ELSE [ok |-> TRUE, n |-> 0]
      Go(u) == IF ~Old(u).ok THEN Say(u, "notinteger")
               ELSE WithFields(Say(u, "ok"), k,
                      SetField(Content(u, k), x, Text(Wrap(Old(u).n + incr))))
  IN LookupOrCreate(s, k, "hash", <<>>, Go)

HGet(s, k, x) ==
  LookupKey(s, k, "hash", "nil",
            LAMBDA u : Say(u, IF x \in DOMAIN Content(u, k) THEN Content(u, k)[x] ELSE "nil"))
HMGet(s, k, xs) ==
  LET One(u, x) == IF Has(u, k) /\ x \in DOMAIN Content(u, k) THEN Content(u, k)[x] ELSE "nil"
      Go(u) == IF Has(u, k) /\ TypeOf(u, k) # "hash" THEN Say(u, "wrongtype")
               ELSE Say(u, [i \in DOMAIN xs |-> One(u, xs[i])])
  IN Go(ExpireIfNeeded(s, k))

(* The loop goes on after the last field is gone and the hash is freed: the    *)
(* next field is then looked up in freed memory.                               *)
HDel(s, k, xs) ==
  LET Gone(u, n) == {xs[i] : i \in 1 .. n} \cap DOMAIN Content(u, k)
      Freed(u) == \E n \in 1 .. Len(xs) - 1 : Gone(u, n) = DOMAIN Content(u, k)
      Left(u, gone) == [x \in DOMAIN Content(u, k) \ gone |-> Content(u, k)[x]]
      Go(u) == IF Freed(u) THEN Abort(u, "hdel")
               ELSE IF Gone(u, Len(xs)) = {} THEN Say(u, 0)
               ELSE Dirty(SignalModifiedKey(
                      IF Gone(u, Len(xs)) = DOMAIN Content(u, k) THEN DbDelete(u, k)
                      ELSE Store(u, k, Left(u, Gone(u, Len(xs)))), k),
                      Cardinality(Gone(u, Len(xs))))
  IN LookupKey(s, k, "hash", 0, Go)

HLen(s, k) == LookupKey(s, k, "hash", 0, LAMBDA u : Say(u, Cardinality(DOMAIN Content(u, k))))
HGetAll(s, k, what) ==
  LET Pick(f) == CASE what = "keys" -> DOMAIN f
                   [] what = "values" -> {f[x] : x \in DOMAIN f}
                   [] OTHER -> {<<x, f[x]>> : x \in DOMAIN f}
  IN LookupKey(s, k, "hash", {}, LAMBDA u : Say(u, Pick(Content(u, k))))
HExists(s, k, x) == LookupKey(s, k, "hash", 0, LAMBDA u : Say(u, x \in DOMAIN Content(u, k)))

-----------------------------------------------------------------------------
(* The set commands (t_set.c). A set is a set; the intset and the hash table   *)
(* behave alike. keys is a sequence of keys, dst the key of the STORE forms or *)
(* NoKey.                                                                      *)

Members(m) == <<"set", m>>
Drop0(s, k) == IF Content(s, k) = {} THEN DbDelete(s, k) ELSE s

SAdd(s, k, elems) ==
  LET Go(u) == LET new == Range(elems) \ Content(u, k)
               IN Dirty(Say(Store(IF new = {} THEN u ELSE SignalModifiedKey(u, k),
                                  k, Content(u, k) \cup new), "ok"), Cardinality(new))
  IN LookupOrCreate(s, k, "set", {}, Go)

SRem(s, k, elems) ==
  LET Go(u) == LET old == Range(elems) \cap Content(u, k)
               IN IF old = {} THEN Say(u, 0)
                  ELSE Dirty(SignalModifiedKey(
                         Drop0(Store(Say(u, "ok"), k, Content(u, k) \ old), k), k),
                         Cardinality(old))
  IN LookupKey(s, k, "set", 0, Go)

(* The element leaves src before it enters dst; src may be deleted between.    *)
SMove(s, src, dst, e) ==
  LET Enter(u) == Dirty(Store(u, dst, Content(u, dst) \cup {e}),
                        IF e \in Content(u, dst) THEN 0 ELSE 1)
      Leave(u) == Dirty(SignalModifiedKey(SignalModifiedKey(
                    Drop0(Store(u, src, Content(u, src) \ {e}), src), src), dst), 1)
      Create(u) == IF Has(u, dst) THEN u ELSE DbAdd(u, dst, Members({}))
      Go(u) == IF ~Has(u, src) THEN Say(u, 0)
               ELSE IF TypeOf(u, src) # "set" \/ (Has(u, dst) /\ TypeOf(u, dst) # "set")
               THEN Say(u, "wrongtype")
               ELSE IF src = dst THEN Say(u, 1)
               ELSE IF e \notin Content(u, src) THEN Say(u, 0)
               ELSE Say(Enter(Create(Leave(u))), 1)
  IN Go(ExpireIfNeeded(ExpireIfNeeded(s, src), dst))

SIsMember(s, k, e) == LookupKey(s, k, "set", 0, LAMBDA u : Say(u, e \in Content(u, k)))
SCard(s, k) == LookupKey(s, k, "set", 0, LAMBDA u : Say(u, Cardinality(Content(u, k))))

(* SPOP takes a random element: e, if it is there. It goes to the log as SREM. *)
SPop(s, k, e) ==
  LET Go(u) == IF e \notin Content(u, k) THEN Say(u, "nil")
               ELSE Dirty(SignalModifiedKey(Drop0(Store(
                      Rewrite(Say(u, e), <<"SREM", k, <<e>>>>), k, Content(u, k) \ {e}), k), k), 1)
  IN LookupKey(s, k, "set", "nil", Go)
SRandMember(s, k, e) ==
  LookupKey(s, k, "set", "nil", LAMBDA u : Say(u, IF e \in Content(u, k) THEN e ELSE "nil"))

(* dbDelete of dst, then dbAdd when the result is not empty.                   *)
StoreSetOver(s, dst, m) ==
  IF m = {} THEN s ELSE Dirty(SignalModifiedKey(DbAdd(s, dst, Members(m)), dst), 1)
StoreSet(s, dst, m) ==
  LET Clear(u) == DbDelete(u, dst)
      Fill(u) == IF m = {} THEN u ELSE DbAdd(u, dst, Members(m))
  IN Dirty(SignalModifiedKey(Say(Fill(Clear(s)), Cardinality(m)), dst), 1)

Lookups(s, keys) == Each(s, keys, ExpireIfNeeded)
Missing(s, keys) == {i \in DOMAIN keys : ~Has(s, keys[i])}
Wrong(s, keys) == {i \in DOMAIN keys : Has(s, keys[i]) /\ TypeOf(s, keys[i]) # "set"}

(* SINTER and SINTERSTORE stop at the first key that is missing or of another  *)
(* type; the keys behind it are not looked up.                                 *)
SInterGeneric(s, keys, dst) ==
  LET Bad(u) == Missing(u, keys) \cup Wrong(u, keys)
      Stop(u) == IF Bad(u) = {} THEN Len(keys) ELSE CHOOSE i \in Bad(u) : \A j \in Bad(u) : i <= j
      Empty(u) == IF dst # NoKey /\ Has(u, dst)
                  THEN Dirty(SignalModifiedKey(DbDelete(u, dst), dst), 1) ELSE u
      Result(u) == {e \in Content(u, keys[1]) : \A i \in DOMAIN keys : e \in Content(u, keys[i])}
      Go(u) == IF Bad(u) # {}
               THEN IF Stop(u) \in Wrong(u, keys) THEN Say(u, "wrongtype")
                    ELSE Say(Empty(u), 0)
               ELSE IF dst = NoKey THEN Say(u, Result(u)) ELSE StoreSet(u, dst, Result(u))
      Seen(u) == Lookups(s, SubSeq(keys, 1, Stop(u)))
  IN Go(Seen(Lookups(s, keys)))

SUnionDiffGeneric(s, keys, dst, op) ==
  LET Of(u, i) == IF Has(u, keys[i]) THEN Content(u, keys[i]) ELSE {}
      Others(u) == UNION {Of(u, i) : i \in DOMAIN keys \ {1}}
      Result(u) == IF op = "SUNION" THEN Of(u, 1) \cup Others(u) ELSE Of(u, 1) \ Others(u)
      Go(u) == IF Wrong(u, keys) # {} THEN Say(u, "wrongtype")
               ELSE IF dst = NoKey THEN Say(u, Result(u)) ELSE StoreSet(u, dst, Result(u))
  IN Go(Lookups(s, keys))
-----------------------------------------------------------------------------
(* The list commands and the clients that block on them (t_list.c). A list is  *)
(* a sequence; the ziplist and the linked list behave alike. The fields of the *)
(* record that belong to this module:                                          *)
(*   blk   per database and key, the queue of clients blocked on it            *)
(*   wait  of each blocked client: db, keys, and the target of BRPOPLPUSH      *)
(*   out   the elements that left the lists for a client, in this step         *)
(*   inn   how many elements this step was given to push                       *)
(*   left  idle clients whose command vector was rewritten behind their back   *)
List(l) == <<"list", l>>
ListTypePush(l, v, where) == IF where = "head" THEN <<v>> \o l ELSE Append(l, v)
ListTypeTop(l, where) == IF where = "head" THEN Head(l) ELSE l[Len(l)]
ListTypeRest(l, where) == IF where = "head" THEN Tail(l) ELSE Front(l)
Push(s, k, v, where) == Store(s, k, ListTypePush(Content(s, k), v, where))
DropEmpty(s, k) == IF Content(s, k) = <<>> THEN DbDelete(s, k) ELSE s
Give(s, c, v) == [s EXCEPT !.out = Append(@, <<c, v>>)]

(* blockForKeys, unblockClientWaitingData                                      *)
Queue(s, k) == IF k \in DOMAIN s.blk[s.cur] THEN s.blk[s.cur][k] ELSE <<>>
BlockForKeys(s, keys, target) ==
  [s EXCEPT
     !.wait = (s.me :> [db |-> s.cur, keys |-> keys, target |-> target]) @@ @,
     !.blk[s.cur] = [k \in DOMAIN @ \cup Range(keys) |->
                       Queue(s, k) \o [i \in 1 .. Cardinality({j \in DOMAIN keys : keys[j] = k})
                                        |-> s.me]]]
Unblock(s, c) ==
  LET w == s.wait[c]
      Rest(q) == SelectSeq(q, LAMBDA x : x # c)
  IN [s EXCEPT
        !.wait = Without(@, c),
        !.blk[w.db] = [k \in {x \in DOMAIN @ : Rest(@[x]) # <<>>} |-> Rest(@[k])]]

(* handleClientsWaitingListPush and rpoplpushHandlePush call each other: the   *)
(* client that pushes gives its element to the first client in the queue of    *)
(* the key, which may itself push it to the target of its BRPOPLPUSH. orig is  *)
(* the client whose command vector is rewritten, c the one that pops.          *)
RewriteOf(s, orig, v) ==
  IF orig = s.me THEN Rewrite(s, v) ELSE [s EXCEPT !.left = @ \cup {orig}]

RECURSIVE HandlePush(_, _, _, _, _)
RECURSIVE HandleWaiting(_, _, _, _, _)
HandleWaiting(s, pusher, k, ele, n) ==
  IF n = 0 \/ Queue(s, k) = <<>> THEN [served |-> FALSE, s |-> s]
  ELSE LET c == Head(Queue(s, k))
           target == s.wait[c].target
           u == IF target = NoKey THEN Unblock(s, c)
                ELSE ExpireIfNeeded(Unblock(s, c), target)
       IN IF target = NoKey THEN [served |-> TRUE, s |-> Give(u, c, ele)]
          ELSE IF Has(u, target) /\ TypeOf(u, target) # "list"
               THEN HandleWaiting(u, pusher, k, ele, n - 1)
               ELSE [served |-> TRUE, s |-> HandlePush(u, pusher, c, target, ele)]
HandlePush(s, orig, c, dst, ele) ==
  LET w == HandleWaiting(s, c, dst, ele, Len(Queue(s, dst)))
      u == IF Has(s, dst) THEN SignalModifiedKey(w.s, dst)
           ELSE DbAdd(w.s, dst, List(<<>>))
      vector == IF c # orig THEN <<"LPUSH", dst, <<ele>>>>
                ELSE <<"RPOPLPUSH", s.argv[2], s.argv[3]>>
  IN IF w.served THEN w.s
     ELSE Dirty(RewriteOf(Push(u, dst, ele, "head"), orig, vector), 1)

(* LPUSH and RPUSH: as long as the key does not exist and clients wait for it, *)
(* elements go to them. Serving a BRPOPLPUSH replaces the command vector by    *)
(* one with a single element, which ends the loop over the arguments. lobj:    *)
(* the list was found, or created by this command.                             *)
RECURSIVE PushLoop(_, _, _, _, _, _, _)
PushLoop(s, k, elems, where, waiting, lobj, pushed) ==
  IF elems = <<>> THEN Say(IF pushed = 0 THEN s
                           ELSE Dirty(SignalModifiedKey(s, k), pushed), "pushed")
  ELSE LET ele == Head(elems)
           w == HandleWaiting(s, s.me, k, ele, Len(Queue(s, k)))
           u == IF waiting THEN w.s ELSE s
           t == IF lobj THEN u ELSE DbAdd(u, k, List(<<>>))
       IN IF waiting /\ w.served
          THEN PushLoop(w.s, k, IF w.s.argv = s.argv THEN Tail(elems) ELSE <<>>,
                        where, TRUE, lobj, pushed)
          ELSE PushLoop(Push(t, k, ele, where), k, Tail(elems), where, FALSE, TRUE, pushed + 1)
PushServesNobody(s, k, elems, where) ==
  LET Go(u) == IF Has(u, k) /\ TypeOf(u, k) # "list" THEN Say(u, "wrongtype")
               ELSE PushLoop([u EXCEPT !.inn = @ + Len(elems)], k, elems, where,
                             FALSE, Has(u, k), 0)
  IN Go(ExpireIfNeeded(s, k))
PushGeneric(s, k, elems, where) ==
  LET Go(u) == IF Has(u, k) /\ TypeOf(u, k) # "list" THEN Say(u, "wrongtype")
               ELSE PushLoop([u EXCEPT !.inn = @ + Len(elems)], k, elems, where,
                             ~Has(u, k), Has(u, k), 0)
  IN Go(ExpireIfNeeded(s, k))

(* LPUSHX and RPUSHX push only to a list that is there; LINSERT puts v next to *)
(* the first element equal to ref.                                             *)
Modified(s, k, l) == Dirty(SignalModifiedKey(Store(s, k, l), k), 1)
PushX(s, k, v, where) ==
  LookupKey(s, k, "list", 0,
            LAMBDA u : Modified(Say(u, "pushed"), k, ListTypePush(Content(u, k), v, where)))
LInsert(s, k, where, ref, v) ==
  LET At(l) == SelectInSeq(l, LAMBDA x : x = ref)
      Put1(l, i) == InsertAt(l, IF where = "tail" THEN i + 1 ELSE i, v)
      Go(u) == IF At(Content(u, k)) = 0 THEN Say(u, -1)
               ELSE Modified(Say(u, "pushed"), k, Put1(Content(u, k), At(Content(u, k))))
  IN LookupKey(s, k, "list", 0, Go)

LLen(s, k) == LookupKey(s, k, "list", 0, LAMBDA u : Say(u, Len(Content(u, k))))
At0(i, n) == IF i < 0 THEN n + i ELSE i
InList(l, i) == At0(i, Len(l)) \in 0 .. Len(l) - 1
LIndex(s, k, i) ==
  LookupKey(s, k, "list", "nil",
            LAMBDA u : Say(u, IF InList(Content(u, k), i)
                              THEN Content(u, k)[At0(i, Len(Content(u, k))) + 1] ELSE "nil"))
LSet(s, k, i, v) ==
  LookupKey(s, k, "list", "nokey",
            LAMBDA u : IF ~InList(Content(u, k), i) THEN Say(u, "outofrange")
                       ELSE Modified(Say(u, "ok"), k,
                              [Content(u, k) EXCEPT ![At0(i, Len(Content(u, k))) + 1] = v]))

PopGeneric(s, k, where) ==
  LET Go(u) == IF Content(u, k) = <<>> THEN Say(u, "nil")
               ELSE Dirty(SignalModifiedKey(
                      DropEmpty(Store(Give(Say(u, "ok"), u.me, ListTypeTop(Content(u, k), where)),
                                      k, ListTypeRest(Content(u, k), where)), k), k), 1)
  IN LookupKey(s, k, "list", "nil", Go)

(* The range start..end of a list of n elements, as 1-based bounds.            *)
Low(start, n) == IF At0(start, n) < 0 THEN 0 ELSE At0(start, n)
Range0(start, end, n) ==
  IF Low(start, n) > At0(end, n) \/ Low(start, n) >= n THEN <<1, 0>>
  ELSE <<Low(start, n) + 1, IF At0(end, n) >= n THEN n ELSE At0(end, n) + 1>>
Slice(l, r) == SubSeq(l, r[1], r[2])
LRange(s, k, start, end) ==
  LookupKey(s, k, "list", <<>>,
            LAMBDA u : Say(u, Slice(Content(u, k), Range0(start, end, Len(Content(u, k))))))
LTrim(s, k, start, end) ==
  LookupKey(s, k, "list", "ok",
            LAMBDA u : Dirty(SignalModifiedKey(DropEmpty(Store(Say(u, "ok"), k,
                Slice(Content(u, k), Range0(start, end, Len(Content(u, k))))), k), k), 1))

(* LREM removes n elements equal to v from the head (n > 0), from the tail     *)
(* (n < 0), or all of them.                                                    *)
LRem(s, k, n, v) ==
  LET Hits(l) == {i \in DOMAIN l : l[i] = v}
      Before(l, i) == Cardinality({j \in Hits(l) : j < i})
      After(l, i) == Cardinality({j \in Hits(l) : j > i})
      Gone(l) == {i \in Hits(l) : \/ n = 0
                                  \/ n > 0 /\ Before(l, i) < n
                                  \/ n < 0 /\ After(l, i) < -n}
      Keep(l, gone) == [i \in 1 .. Len(l) - Cardinality(gone) |->
                          l[CHOOSE j \in DOMAIN l \ gone :
                              Cardinality((1 .. j) \ gone) = i]]
      Go(u, gone) == Dirty(DropEmpty(Store(
                       IF gone = {} THEN u ELSE SignalModifiedKey(u, k),
                       k, Keep(Content(u, k), gone)), k), Cardinality(gone))
  IN LookupKey(s, k, "list", 0, LAMBDA u : Go(Say(u, "ok"), Gone(Content(u, k))))

RPopLPush(s, src, dst, blocking) ==
  LET Popped(u) == Store(u, src, Front(Content(u, src)))
      End(u) == Dirty(SignalModifiedKey(DropEmpty(u, src), src), 1)
      Second(u) ==
        IF Has(u, dst) /\ TypeOf(u, dst) # "list" THEN Say(u, "wrongtype")
        ELSE End(HandlePush(Popped(u), u.me, u.me, dst, ListTypeTop(Content(u, src), "tail")))
      First(u) ==
        IF ~Has(u, src)
        THEN IF blocking /\ ~u.multi THEN BlockForKeys(u, <<src>>, dst) ELSE Say(u, "nil")
        ELSE IF TypeOf(u, src) # "list" THEN Say(u, "wrongtype")
        ELSE IF Content(u, src) = <<>>
        THEN IF blocking THEN Abort(u, "brpoplpush") ELSE Say(u, "nil")
        ELSE Second(ExpireIfNeeded(u, dst))
  IN First(ExpireIfNeeded(s, src))

(* BLPOP and BRPOP look at their keys in turn and block on all of them. In a   *)
(* MULTI an empty list is answered like a timeout.                             *)
RECURSIVE PopFirst(_, _, _, _)
PopFirst(s, rest, keys, where) ==
  IF rest = <<>>
  THEN IF s.multi THEN Say(s, "nil") ELSE BlockForKeys(Say(s, NoReply), keys, NoKey)
  ELSE LET k == Head(rest)
           u == ExpireIfNeeded(s, k)
       IN IF ~Has(u, k) THEN PopFirst(u, Tail(rest), keys, where)
          ELSE IF TypeOf(u, k) # "list" THEN Say(u, "wrongtype")
          ELSE IF Content(u, k) # <<>> THEN PopGeneric(u, k, where)
          ELSE PopFirst(u, Tail(rest), keys, where)
BlockingPop(s, keys, where) == PopFirst(s, keys, keys, where)
=============================================================================
