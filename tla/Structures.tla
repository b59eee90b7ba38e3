----------------------------- MODULE Structures -----------------------------
(* The data structures of the server under series of their operations, each    *)
(* next to what it stands for. part names the structure; st is its state, ref  *)
(* what the operations so far make of it: a set, a map, a list or a string.    *)
EXTENDS SkipList, Dict, Packed, Strings, RowFormat
CONSTANTS Parts,             \* the structures of this run
          Elements, Scores, Ranges, MaxElements,
          Keys, Lens, MaxEntries,
          MapKeys, ValueLens, Values,
          MaxClients, Horizon, Periods, MaxTimers,
          RowKeys,
          Inputs             \* pairs of the name of a pure function and its input
VARIABLES part, st, ref
vars == <<part, st, ref>>

Without(f, x) == [y \in DOMAIN f \ {x} |-> f[y]]
To(s, r) == st' = s /\ ref' = r /\ UNCHANGED part

(******************************** sorted sets ********************************)
ZslAdd == part = "skiplist" /\ st.len < MaxElements /\
  \E e \in Elements \ DOMAIN ref, s \in Scores, l \in 1 .. MaxLevel :
    To(ZslInsert(st, e, s, l), (e :> s) @@ ref)
ZslRem == part = "skiplist" /\ \E e \in DOMAIN ref, s \in Scores :
  To(ZslDelete(st, e, s), IF ref[e] = s THEN Without(ref, e) ELSE ref)
ZslRemByScore == part = "skiplist" /\ \E r \in Ranges :
  To(ZslDeleteRangeByScore(st, r),
     [e \in {x \in DOMAIN ref : ~(GteMin(ref[x], r) /\ LteMax(ref[x], r))} |-> ref[e]])
ZslRemByRank == part = "skiplist" /\ \E i \in 1 .. st.len : \E j \in i .. st.len :
  To(ZslDeleteRangeByRank(st, i, j),
     [e \in DOMAIN ref \ Range(SubSeq(Ranking(st), i, j)) |-> ref[e]])

(*********************************** dicts ***********************************)
(* st is [d, it, on, must, seen, twice]: the dict and an iterator that is on   *)
(* or not, with the keys that are there since it began, those it gave, and     *)
(* whether it gave one twice. While a safe iterator is on, keys are added and  *)
(* looked up and the one it stands on may be deleted; otherwise the dict is    *)
(* only read by the iterator.                                                  *)
Idle == st.on = "off"
Using == part = "dict" /\ st.on # "unsafe"
DictTo(d, keys) == To([st EXCEPT !.d = d, !.must = @ \cap keys, !.seen = @ \cap keys], keys)
Add == Using /\ \E k \in Keys : DictTo(DictAdd(st.d, k), ref \cup {k})
Replace == Using /\ \E k \in Keys : DictTo(DictReplace(st.d, k), ref \cup {k})
Delete == Using /\ \E k \in Keys :
  (Idle \/ st.it.entry = k) /\ DictTo(DictDelete(st.d, k), ref \ {k})
Find == Using /\ DictTo(DictFind(st.d), ref)
RandomKey == part = "dict" /\ Idle /\ DictTo(DictGetRandomKey(st.d), ref)
Empty == part = "dict" /\ Idle /\ DictTo(DictEmpty(st.d), {})
(* The cron: a table that is mostly empty is made smaller, and moves on.       *)
Cron == part = "dict" /\ Idle /\
  DictTo(DictRehash(IF HtNeedsResize(st.d) THEN DictResize(st.d) ELSE st.d), ref)
(* A background save forbids resizing while it lasts.                          *)
Policy == part = "dict" /\ Idle /\ DictTo([st.d EXCEPT !.can = ~@], ref)
Begin == part = "dict" /\ Idle /\ \E safe \in BOOLEAN :
  To([st EXCEPT !.it = DictGetIterator(safe), !.on = IF safe THEN "safe" ELSE "unsafe",
                !.must = ref, !.seen = {}, !.twice = FALSE], ref)
Advance == part = "dict" /\ ~Idle /\
  LET n == DictNext(st.d, st.it)
  IN To(IF n.done
        THEN [st EXCEPT !.d = DictReleaseIterator(n.d, n.it), !.it = n.it, !.on = "off",
                        !.twice = @ \/ ~(st.must \subseteq st.seen), !.must = {}, !.seen = {}]
        ELSE [st EXCEPT !.d = n.d, !.it = n.it, !.seen = @ \cup {n.it.entry},
                        !.twice = @ \/ n.it.entry \in st.seen], ref)
Release == part = "dict" /\ ~Idle /\
  To([st EXCEPT !.d = DictReleaseIterator(st.d, st.it), !.on = "off", !.must = {}, !.seen = {}], ref)

(**************************** packed containers ******************************)
ZipInsert == part = "ziplist" /\ Len(ref) < MaxEntries /\
  \E i \in 1 .. Len(ref) + 1, n \in Lens :
    LET z == ZiplistInsert(st, i, n, n)
    IN ~z.torn /\ To(z, InsertAt(ref, i, n))
ZipDelete == part = "ziplist" /\ \E i \in DOMAIN ref, num \in 1 .. 2 :
  To(ZiplistDelete(st, i, num), SubSeq(ref, 1, i - 1) \o SubSeq(ref, i + num, Len(ref)))
ZipLen == part = "ziplist" /\ To(ZiplistLenStore(st), ref)
MapSet == part = "zipmap" /\ \E k \in MapKeys, n \in ValueLens, v \in Values :
  To(ZipmapSet(st, k, n, v), (k :> v) @@ ref)
MapDel == part = "zipmap" /\ \E k \in MapKeys : To(ZipmapDel(st, k), Without(ref, k))
MapLen == part = "zipmap" /\ To(ZipmapLenStore(st), ref)
SetValues == -Widths[3] .. Widths[3] - 1
SetAdd == part = "intset" /\ Cardinality(ref) < MaxElements /\
  \E v \in SetValues : To(IntsetAdd(st, v), ref \cup {v})
SetRem == part = "intset" /\ \E v \in SetValues : To(IntsetRemove(st, v), ref \ {v})

(*************************** values of either form ***************************)
(* A key whose value becomes empty is deleted: the next one starts anew.       *)
Members == ({"int"} \X SetValues) \cup ({"text"} \X {"a", "b"})
SetObjAdd == part = "setobj" /\ Cardinality(ref) < MaxElements /\
  \E m \in Members : To(SetTypeAdd(IF SetTypeSize(st) = 0 THEN SetTypeCreate(m) ELSE st, m), ref \cup {m})
SetObjRem == part = "setobj" /\ SetTypeSize(st) > 0 /\ \E m \in Members : To(SetTypeRemove(st, m), ref \ {m})
Filled(o) == IF HashTypeLength(o) = 0 THEN HashTypeNew ELSE o
HashObjSet == part = "hashobj" /\ \E k \in MapKeys, n \in ValueLens :
  To(HashTypeSet(HashTypeTryConversion(st, n), k, n, n), (k :> n) @@ ref)
HashObjSetNx == part = "hashobj" /\ \E k \in MapKeys, n \in ValueLens :
  IF HashTypeGet(st, k) # <<>> THEN To(HashTypeTryConversion(st, n), ref)
  ELSE To(HashTypeSet(HashTypeTryConversion(st, n), k, n, n), (k :> n) @@ ref)
HashObjDel == part = "hashobj" /\ \E k \in MapKeys : To(Filled(HashTypeDelete(st, k)), Without(ref, k))
Untorn(o) == o.enc = "ziplist" => ~o.val.torn
ListTo(o, list) == Untorn(o) /\ To(IF ListTypeLength(o) = 0 THEN ListTypeNew ELSE o, list)
ListObjPush == part = "listobj" /\ Len(ref) < MaxEntries /\ \E n \in Lens, where \in {"head", "tail"} :
  ListTo(ListTypePush(st, n, where), IF where = "head" THEN <<n>> \o ref ELSE Append(ref, n))
ListObjPop == part = "listobj" /\ ref # <<>> /\ \E where \in {"head", "tail"} :
  ListTo(ListTypePop(st, where).o, IF where = "head" THEN Tail(ref) ELSE Front(ref))
ListObjInsert == part = "listobj" /\ Len(ref) \in 1 .. MaxEntries - 1 /\
  \E pivot \in Lens, n \in Lens, where \in {"head", "tail"} :
    LET i == SelectInSeq(ref, LAMBDA v : v = pivot)
    IN ListTo(ListInsert(st, pivot, n, where),
              IF i = 0 THEN ref ELSE InsertAt(ref, IF where = "tail" THEN i + 1 ELSE i, n))
(* The places of the first n or the last -n of the entries v; all for 0.       *)
Chosen(v, n) ==
  LET at == {i \in DOMAIN ref : ref[i] = v}
  IN {i \in at : \/ n = 0
                 \/ n > 0 /\ Cardinality({j \in at : j < i}) < n
                 \/ n < 0 /\ Cardinality({j \in at : j > i}) < -n}
ListObjRem == part = "listobj" /\ ref # <<>> /\ \E v \in Lens, n \in -2 .. 2 :
  ListTo(ListRemove(st, v, n), LET keep == SetToSortSeq(DOMAIN ref \ Chosen(v, n), <)
                               IN [i \in DOMAIN keep |-> ref[keep[i]]])

(********************************* strings ***********************************)
Texts == UNION {[1 .. n -> {"a", "b"}] : n \in 0 .. 2}
Cat == part = "sds" /\ \E t \in Texts : Len(ref) + Len(t) <= MaxEntries /\ To(SdsCatLen(st, t), ref \o t)
Cpy == part = "sds" /\ \E t \in Texts : To(SdsCpyLen(st, t), t)
Trim == part = "sds" /\
  LET keep == {i \in DOMAIN ref : ref[i] # "a"}
      from == {i \in DOMAIN ref : \E j \in keep : j <= i}
      both == {i \in from : \E j \in keep : i <= j}
  IN To(SdsTrim(st, {"a"}),
     [k \in 1 .. Cardinality(both) |-> ref[k + Len(ref) - Cardinality(from)]])
Grow == part = "sds" /\ \E n \in 1 .. MaxEntries : n > Len(ref) /\
  To(SdsGrowZero(st, n, "a"), [i \in 1 .. n |-> IF i <= Len(ref) THEN ref[i] ELSE "a"])
Cut == part = "sds" /\ \E i \in -3 .. 3, j \in -3 .. 3 : To(SdsRange(st, i, j), Slice(ref, i, j))

(******************************** event loop *********************************)
(* The event loop (ae.c). el is                                                *)
(*   mask, data   per descriptor the events that are registered and the client *)
(*                they were registered for                                     *)
(*   maxfd        the largest descriptor with an event, or -1                  *)
(*   fired        what the last poll returned and has not been processed:      *)
(*                pairs of a descriptor and the events that came               *)
(*   timers       time events [id, when], the newest first; next the next id   *)
(*   limit        maxId of a pass over the timers, or None outside of one      *)
CONSTANT Fds

NoPass == -1
AeCreateEventLoop == [mask |-> [f \in Fds |-> {}], data |-> [f \in Fds |-> 0], maxfd |-> -1,
                      fired |-> <<>>, timers |-> <<>>, next |-> 0, limit |-> NoPass]
AeCreateFileEvent(el, fd, ev, client) ==
  [el EXCEPT !.mask[fd] = @ \cup {ev}, !.data[fd] = client, !.maxfd = IF fd > @ THEN fd ELSE @]
AeDeleteFileEvent(el, fd, ev) ==
  LET left == [el.mask EXCEPT ![fd] = @ \ {ev}]
      used == {f \in Fds : f < el.maxfd /\ left[f] # {}}
  IN IF el.mask[fd] = {} THEN el
     ELSE [el EXCEPT !.mask = left,
                     !.maxfd = IF fd = @ /\ left[fd] = {}
                               THEN IF used = {} THEN -1 ELSE CHOOSE f \in used : \A g \in used : g <= f
                               ELSE @]
AeCreateTimeEvent(el, when) ==
  [el EXCEPT !.timers = <<[id |-> el.next, when |-> when]>> \o @, !.next = @ + 1]
AeDeleteTimeEvent(el, id) == [el EXCEPT !.timers = SelectSeq(@, LAMBDA t : t.id # id)]

(* A pass over the timers starts at the head again after each one it ran, and  *)
(* leaves out the ones that were made since it began.                          *)
DueTimer(el, now) == SelectInSeq(el.timers, LAMBDA t : t.id <= el.limit /\ now >= t.when)
(* The events of a descriptor that are called: they fired, and are registered  *)
(* still.                                                                      *)
ValidOnce(el, fd, mask, ev) == ev \in mask
Valid(el, fd, mask, ev) == ev \in mask /\ ev \in el.mask[fd]

(* st is [el, live, now, late, stale]: the loop, the descriptor of each client *)
(* that is connected, the time, the timers made during this pass, and whether  *)
(* a handler was called for a client that is gone or a timer too soon.         *)
Listening == 0
FreeFds == {f \in Fds \ {Listening} : \A c \in DOMAIN st.live : st.live[c] # f}
Free(el, live, c) ==
  [el |-> AeDeleteFileEvent(AeDeleteFileEvent(el, live[c], "r"), live[c], "w"),
   live |-> Without(live, c)]
Poll == part = "events" /\ st.el.fired = <<>> /\ st.el.limit = NoPass /\
  \E some \in SUBSET {f \in Fds : f <= st.el.maxfd /\ st.el.mask[f] # {}} :
    /\ some # {}
    /\ \E order \in {q \in [1 .. Cardinality(some) -> some] : Range(q) = some},
          m \in {x \in [some -> SUBSET {"r", "w"}] :
                   \A f \in some : x[f] # {} /\ x[f] \subseteq st.el.mask[f]} :
         To([st EXCEPT !.el.fired = [i \in DOMAIN order |-> <<order[i], m[order[i]]>>]], ref)
(* What a read handler may do: accept a client, reply to one, free one.        *)
ReadEffects(el, live, fd) ==
  {[el |-> el, live |-> live]}
    \cup (IF fd # Listening \/ ref = MaxClients THEN {}
          ELSE {[el |-> AeCreateFileEvent(el, f, "r", ref + 1), live |-> ((ref + 1) :> f) @@ live]
                : f \in FreeFds})
    \cup {[el |-> AeCreateFileEvent(el, live[c], "w", c), live |-> live] : c \in DOMAIN live}
    \cup {Free(el, live, c) : c \in DOMAIN live}
(* A write handler sends all it has, or the client is lost.                    *)
WriteEffects(el, live, fd) ==
  {[el |-> AeDeleteFileEvent(el, fd, "w"), live |-> live]}
    \cup {Free(el, live, c) : c \in {x \in DOMAIN live : live[x] = fd}}
Process == part = "events" /\ st.el.fired # <<>> /\
  LET fd == st.el.fired[1][1]
      mask == st.el.fired[1][2]
      el == [st.el EXCEPT !.fired = Tail(@)]
      Dead(e, live) == fd # Listening /\ e.data[fd] \notin DOMAIN live
      reads == Valid(el, fd, mask, "r")
  IN \E r \in IF reads THEN ReadEffects(el, st.live, fd) ELSE {[el |-> el, live |-> st.live]} :
       LET writes == Valid(r.el, fd, mask, "w")
       IN \E w \in IF writes THEN WriteEffects(r.el, r.live, fd) ELSE {r} :
            To([st EXCEPT !.el = w.el, !.live = w.live,
                          !.stale = @ \/ (reads /\ Dead(el, st.live)) \/ (writes /\ Dead(r.el, r.live))],
               IF \E c \in DOMAIN r.live : c > ref THEN ref + 1 ELSE ref)
StartTimers == part = "events" /\ st.el.fired = <<>> /\ st.el.limit = NoPass /\
  To([st EXCEPT !.el.limit = st.el.next - 1], ref)
(* One timer runs; it may make another, and ends or comes again later.         *)
RunTimer == part = "events" /\ st.el.limit # NoPass /\
  LET i == DueTimer(st.el, st.now)
      id == st.el.timers[i].id
  IN IF i = 0 THEN To([st EXCEPT !.el.limit = NoPass, !.late = {}], ref)
     ELSE \E p \in Periods \cup {0}, more \in BOOLEAN :
            LET made == IF more /\ st.el.next < MaxTimers THEN AeCreateTimeEvent(st.el, st.now) ELSE st.el
                el == IF p = 0 THEN AeDeleteTimeEvent(made, id)
                      ELSE [made EXCEPT !.timers = [k \in DOMAIN @ |-> IF @[k].id = id
                              THEN [id |-> id, when |-> st.now + p] ELSE @[k]]]
            IN To([st EXCEPT !.el = el, !.stale = @ \/ id \in st.late,
                             !.late = @ \cup (st.el.next .. el.next - 1)], ref)
MakeTimer == part = "events" /\ st.el.limit = NoPass /\ st.el.fired = <<>> /\ st.el.next < MaxTimers /\
  \E p \in Periods : To([st EXCEPT !.el = AeCreateTimeEvent(@, st.now + p)], ref)
Clock == part = "events" /\ st.el.limit = NoPass /\ st.now < Horizon /\ To([st EXCEPT !.now = @ + 1], ref)

(**************************** tables of sparse rows **************************)
PutColumn == part = "ahash" /\ \E k \in RowKeys, v \in 1 .. 2 :
  To(HashInsert(st, k, v, 0), (k :> v) @@ ref)

(****************************** pure functions *******************************)
NoInput == <<>>
Pick == part = "pure" /\ st = NoInput /\ \E x \in Inputs : To(x, ref)
Done == part = "pure" /\ st # NoInput /\ To(NoInput, ref)

Start ==
  [skiplist |-> [st |-> ZslCreate, ref |-> <<>>],
   dict |-> [st |-> [d |-> DictCreate, it |-> DictGetIterator(TRUE), on |-> "off",
                     must |-> {}, seen |-> {}, twice |-> FALSE], ref |-> {}],
   ziplist |-> [st |-> ZiplistNew, ref |-> <<>>],
   zipmap |-> [st |-> ZipmapNew, ref |-> <<>>],
   intset |-> [st |-> IntsetNew, ref |-> {}],
   setobj |-> [st |-> As("ht", {}), ref |-> {}],
   hashobj |-> [st |-> HashTypeNew, ref |-> <<>>],
   listobj |-> [st |-> ListTypeNew, ref |-> <<>>],
   sds |-> [st |-> SdsNew(<<>>), ref |-> <<>>],
   events |-> [st |-> [el |-> AeCreateFileEvent(AeCreateEventLoop, Listening, "r", 0),
                       live |-> <<>>, now |-> 0, late |-> {}, stale |-> FALSE], ref |-> 0],
   ahash |-> [st |-> HashMake(2), ref |-> <<>>],
   pure |-> [st |-> NoInput, ref |-> 0]]
Init == \E p \in Parts : part = p /\ st = Start[p].st /\ ref = Start[p].ref
Next == \/ ZslAdd \/ ZslRem \/ ZslRemByScore \/ ZslRemByRank
        \/ Add \/ Replace \/ Delete \/ Find \/ RandomKey \/ Empty \/ Cron \/ Policy
        \/ Begin \/ Advance \/ Release
        \/ ZipInsert \/ ZipDelete \/ ZipLen \/ MapSet \/ MapDel \/ MapLen \/ SetAdd \/ SetRem
        \/ SetObjAdd \/ SetObjRem \/ HashObjSet \/ HashObjSetNx \/ HashObjDel
        \/ ListObjPush \/ ListObjPop \/ ListObjInsert \/ ListObjRem
        \/ Cat \/ Cpy \/ Trim \/ Grow \/ Cut
        \/ Poll \/ Process \/ StartTimers \/ RunTimer \/ MakeTimer \/ Clock
        \/ PutColumn \/ Pick \/ Done
Spec == Init /\ [][Next]_vars

(******************************** properties *********************************)
(* After any series of operations a container holds what they put there, and   *)
(* its own bookkeeping (counts, spans, offsets, lengths, room) is right. Ranks *)
(* and ranges by score are what a sorted list of the members gives, over links *)
(* of every height; an iterator gives each key once, and every key that stays, *)
(* although the dict grows, and a safe one although keys come and go. A value  *)
(* keeps its contents when it leaves its packed form, also in the middle of an *)
(* iteration that deletes (LREM) or inserts (LINSERT). In the                  *)
(* event loop no handler runs for a client that was freed after its event      *)
(* fired, and no timer in the pass in which it was made (ae.c: "note the       *)
(* fe->mask & mask & ... code").                                               *)
ContainerExact ==
  /\ part = "skiplist" => st.score = ref /\ SkipListSound(st) /\ SkipListAnswers(st, Ranges)
  /\ part = "dict" => DictSound(st.d, ref) /\ ~st.twice
  /\ part = "ziplist" => ZiplistSound(st, ref)
  /\ part = "zipmap" => ZipmapSound(st, ref)
  /\ part = "intset" => IntsetSound(st, ref, SetValues)
  /\ part = "setobj" => SetObjSound(st, ref, Members)
  /\ part = "hashobj" => HashObjSound(st, ref, MapKeys)
  /\ part = "listobj" => ListObjSound(st, ref)
  /\ part = "sds" => SdsSound(st, ref)
  /\ part = "events" => ~st.stale
  /\ part = "ahash" => HashExact(st, ref)
=============================================================================
