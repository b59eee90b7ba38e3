------------------------------ MODULE Clients -------------------------------
(* What the server keeps per client, and how it runs a command: MULTI, EXEC    *)
(* and WATCH (multi.c), publish and subscribe (pubsub.c), the execution and    *)
(* propagation of a command (redis.c), and the end of a client (networking.c). *)
(* Fields of the record that belong to this module:                            *)
(*   cl        per client: live, db, multi, q (queued commands), cas (the      *)
(*             DIRTY_CAS flag), watch, chans, pats, and seen, the values its   *)
(*             watched keys had when it watched them                           *)
(*   watchers  the clients that watch a <<db, key>>, as the server has them    *)
(*   chanl, patl  the subscribers of each channel; the list of <<client,       *)
(*             pattern>>                                                       *)
EXTENDS ZsetType

Fresh == [live |-> TRUE, db |-> 0, multi |-> FALSE, q |-> <<>>, cas |-> FALSE,
          watch |-> {}, seen |-> <<>>, chans |-> {}, pats |-> {}]
ValueOf(s, w) == IF w[2] \in DOMAIN s.val[w[1]] THEN <<s.val[w[1]][w[2]]>> ELSE <<>>
ListOf(f, x) == IF x \in DOMAIN f THEN f[x] ELSE <<>>
Leave(f, x, c) ==
  LET rest == SelectSeq(f[x], LAMBDA y : y # c)
  IN IF rest = <<>> THEN Without(f, x) ELSE (x :> rest) @@ f

(******************************** MULTI, WATCH *******************************)
WatchForKey(s, k) ==
  LET w == <<s.cur, k>>
  IN IF w \in s.cl[s.me].watch THEN s
     ELSE [s EXCEPT !.watchers = (w :> Append(ListOf(@, w), s.me)) @@ @,
                    !.cl[s.me].watch = @ \cup {w},
                    !.cl[s.me].seen = (w :> ValueOf(s, w)) @@ @]
Watch(s, keys) == IF s.cl[s.me].multi THEN Say(s, "nested") ELSE Each(s, keys, WatchForKey)
UnwatchAllKeys(s, c) ==
  [s EXCEPT !.watchers = FoldSet(LAMBDA w, f : Leave(f, w, c), @, s.cl[c].watch),
            !.cl[c].watch = {}, !.cl[c].seen = <<>>]
Unwatch(s) == [UnwatchAllKeys(s, s.me) EXCEPT !.cl[s.me].cas = FALSE]
(* touchWatchedKey for every key the command signalled.                        *)
TouchWatchedKey(s) ==
  [s EXCEPT !.touched = {},
            !.cl = [c \in DOMAIN @ |->
                      IF \E w \in s.touched : c \in Range(ListOf(s.watchers, w))
                      THEN [@[c] EXCEPT !.cas = TRUE] ELSE @[c]]]

Multi(s) == IF s.cl[s.me].multi THEN Say(s, "nested") ELSE [s EXCEPT !.cl[s.me].multi = TRUE]
(* DISCARD leaves the DIRTY_CAS flag: the next EXEC of the client may fail     *)
(* without need.                                                               *)
Discard(s) ==
  IF ~s.cl[s.me].multi THEN Say(s, "nomulti")
  ELSE UnwatchAllKeys([s EXCEPT !.cl[s.me].q = <<>>, !.cl[s.me].multi = FALSE], s.me)

(***************************** publish, subscribe ****************************)
Subscribe(s, chans) ==
  Each(s, chans, LAMBDA u, x :
         IF x \in u.cl[u.me].chans THEN u
         ELSE [u EXCEPT !.cl[u.me].chans = @ \cup {x},
                        !.chanl = (x :> Append(ListOf(@, x), u.me)) @@ @])
UnsubscribeChannel(s, c, x) ==
  IF x \notin s.cl[c].chans THEN s
  ELSE IF c \notin Range(ListOf(s.chanl, x)) THEN Abort(s, "unsubscribe")
  ELSE [s EXCEPT !.cl[c].chans = @ \ {x}, !.chanl = Leave(@, x, c)]
PSubscribe(s, pats) ==
  Each(s, pats, LAMBDA u, p :
         IF p \in u.cl[u.me].pats THEN u
         ELSE [u EXCEPT !.cl[u.me].pats = @ \cup {p}, !.patl = Append(@, <<u.me, p>>)])
UnsubscribePattern(s, c, p) ==
  IF p \notin s.cl[c].pats THEN s
  ELSE [s EXCEPT !.cl[c].pats = @ \ {p},
                 !.patl = SelectSeq(@, LAMBDA y : y # <<c, p>>)]
UnsubscribeAllChannels(s, c) ==
  FoldSet(LAMBDA x, u : UnsubscribeChannel(u, c, x), s, s.cl[c].chans)
UnsubscribeAll(s, c) ==
  FoldSet(LAMBDA p, u : UnsubscribePattern(u, c, p),
          FoldSet(LAMBDA x, u : UnsubscribeChannel(u, c, x), s, s.cl[c].chans),
          s.cl[c].pats)
(* The message goes to the subscribers of the channel, then to those of every  *)
(* pattern that matches it. A pattern is the set of channels it matches.       *)
Publish(s, x) ==
  Say(s, ListOf(s.chanl, x) \o [i \in DOMAIN SelectSeq(s.patl, LAMBDA y : x \in y[2]) |->
                                  SelectSeq(s.patl, LAMBDA y : x \in y[2])[i][1]])

(********************************** freeClient *******************************)
FreeClient(s, c) ==
  LET u == IF c \in DOMAIN s.wait THEN Unblock(s, c) ELSE s
  IN [UnsubscribeAll(UnwatchAllKeys(u, c), c) EXCEPT
        !.cl[c] = [Fresh EXCEPT !.live = FALSE], !.left = @ \ {c}]

(***************************** the command table *****************************)
RunString(s, a) ==
  CASE a[1] \in {"SET", "SETNX"} -> SetGeneric(s, a[1] = "SETNX", a[2], a[3], <<>>)
    [] a[1] = "SETEX" -> SetGeneric(s, FALSE, a[2], a[4], <<a[3]>>)
    [] a[1] = "GET" -> Get(s, a[2])
    [] a[1] = "GETSET" -> GetSet(s, a[2], a[3])
    [] a[1] = "SETBIT" -> SetBit(s, a[2], a[3], a[4])
    [] a[1] = "GETBIT" -> GetBit(s, a[2], a[3])
    [] a[1] = "SETRANGE" -> SetRange(s, a[2], a[3], a[4])
    [] a[1] = "GETRANGE" -> GetRange(s, a[2], a[3], a[4])
    [] a[1] = "MGET" -> MGet(s, a[2])
    [] a[1] \in {"MSET", "MSETNX"} -> MSetGeneric(s, a[1] = "MSETNX", a[2])
    [] a[1] = "INCRBY" -> IncrDecr(s, a[2], a[3])
    [] a[1] = "APPEND" -> AppendTo(s, a[2], a[3])
    [] a[1] = "STRLEN" -> StrLen(s, a[2])
RunKey(s, a) ==
  CASE a[1] = "DEL" -> Del(s, a[2])
    [] a[1] = "EXISTS" -> Exists(s, a[2])
    [] a[1] = "FLUSHDB" -> FlushDb(s)
    [] a[1] = "FLUSHALL" -> FlushAll(s)
    [] a[1] \in {"RENAME", "RENAMENX"} -> RenameGeneric(s, a[1] = "RENAMENX", a[2], a[3])
    [] a[1] = "MOVE" -> Move(s, a[2], a[3])
    [] a[1] \in {"EXPIRE", "EXPIREAT"} ->
         ExpireGeneric(s, a[2], a[3], IF a[1] = "EXPIRE" THEN 0 ELSE s.now)
    [] a[1] = "TTL" -> Ttl(s, a[2])
    [] a[1] = "PERSIST" -> Persist(s, a[2])
    [] a[1] = "SELECT" -> SelectDb(s, a[2])
    [] a[1] = "UNWATCH" -> Unwatch(s)
    [] a[1] = "SORT" -> Sort(s, a[2], a[3])
Where(name) == IF name \in {"LPUSH", "LPUSHX", "LPOP", "BLPOP"} THEN "head" ELSE "tail"
RunList(s, a) ==
  CASE a[1] \in {"LPUSH", "RPUSH"} -> PushGeneric(s, a[2], a[3], Where(a[1]))
    [] a[1] \in {"LPUSHX", "RPUSHX"} -> PushX(s, a[2], a[3], Where(a[1]))
    [] a[1] = "LINSERT" -> LInsert(s, a[2], a[3], a[4], a[5])
    [] a[1] = "LLEN" -> LLen(s, a[2])
    [] a[1] = "LINDEX" -> LIndex(s, a[2], a[3])
    [] a[1] = "LSET" -> LSet(s, a[2], a[3], a[4])
    [] a[1] \in {"LPOP", "RPOP"} -> PopGeneric(s, a[2], Where(a[1]))
    [] a[1] = "LRANGE" -> LRange(s, a[2], a[3], a[4])
    [] a[1] = "LTRIM" -> LTrim(s, a[2], a[3], a[4])
    [] a[1] = "LREM" -> LRem(s, a[2], a[3], a[4])
    [] a[1] \in {"BLPOP", "BRPOP"} -> BlockingPop(s, a[2], Where(a[1]))
    [] a[1] \in {"RPOPLPUSH", "BRPOPLPUSH"} -> RPopLPush(s, a[2], a[3], a[1] = "BRPOPLPUSH")
RunSet(s, a) ==
  CASE a[1] = "SADD" -> SAdd(s, a[2], a[3])
    [] a[1] = "SREM" -> SRem(s, a[2], a[3])
    [] a[1] = "SMOVE" -> SMove(s, a[2], a[3], a[4])
    [] a[1] = "SISMEMBER" -> SIsMember(s, a[2], a[3])
    [] a[1] = "SCARD" -> SCard(s, a[2])
    [] a[1] = "SPOP" -> SPop(s, a[2], a[3])
    [] a[1] = "SRANDMEMBER" -> SRandMember(s, a[2], a[3])
    [] a[1] = "SINTER" -> SInterGeneric(s, a[2], a[3])
    [] a[1] \in {"SUNION", "SDIFF"} -> SUnionDiffGeneric(s, a[2], a[3], a[1])
RunHash(s, a) ==
  CASE a[1] = "HSET" -> HSet(s, a[2], a[3], a[4])
    [] a[1] = "HSETNX" -> HSetNx(s, a[2], a[3], a[4])
    [] a[1] = "HMSET" -> HMSet(s, a[2], a[3])
    [] a[1] = "HINCRBY" -> HIncrBy(s, a[2], a[3], a[4])
    [] a[1] = "HGET" -> HGet(s, a[2], a[3])
    [] a[1] = "HMGET" -> HMGet(s, a[2], a[3])
    [] a[1] = "HDEL" -> HDel(s, a[2], a[3])
    [] a[1] = "HLEN" -> HLen(s, a[2])
    [] a[1] = "HGETALL" -> HGetAll(s, a[2], a[3])
    [] a[1] = "HEXISTS" -> HExists(s, a[2], a[3])
RunZset(s, a) ==
  CASE a[1] \in {"ZADD", "ZINCRBY"} -> ZAddGeneric(s, a[2], a[3], a[1] = "ZINCRBY")
    [] a[1] = "ZREM" -> ZRem(s, a[2], a[3])
    [] a[1] = "ZREMRANGEBYSCORE" -> ZRemRangeByScore(s, a[2], a[3])
    [] a[1] = "ZREMRANGEBYRANK" -> ZRemRangeByRank(s, a[2], a[3], a[4])
    [] a[1] \in {"ZUNIONSTORE", "ZINTERSTORE"} ->
         ZUnionInter(s, a[2], a[3], a[4], a[5], a[1] = "ZINTERSTORE")
    [] a[1] \in {"ZRANGE", "ZREVRANGE"} -> ZRangeGeneric(s, a[2], a[3], a[4], a[1] = "ZREVRANGE")
    [] a[1] \in {"ZRANGEBYSCORE", "ZREVRANGEBYSCORE", "ZCOUNT"} ->
         ZRangeByScore(s, a[2], a[3], a[1] = "ZREVRANGEBYSCORE", a[4], a[5], a[1] = "ZCOUNT")
    [] a[1] = "ZCARD" -> ZCard(s, a[2])
    [] a[1] = "ZSCORE" -> ZScore(s, a[2], a[3])
    [] a[1] \in {"ZRANK", "ZREVRANK"} -> ZRank(s, a[2], a[3], a[1] = "ZREVRANK")
RunPubsub(s, a) ==
  CASE a[1] = "SUBSCRIBE" -> Subscribe(s, a[2])
    [] a[1] = "UNSUBSCRIBE" -> Each(s, a[2], LAMBDA u, x : UnsubscribeChannel(u, u.me, x))
    [] a[1] = "PSUBSCRIBE" -> PSubscribe(s, a[2])
    [] a[1] = "PUNSUBSCRIBE" -> Each(s, a[2], LAMBDA u, p : UnsubscribePattern(u, u.me, p))
    [] a[1] = "PUBLISH" -> Publish(s, a[2])

(* redisCommandTable: a name leads to the file that has the command.           *)
StringCommands == {"SET", "SETNX", "SETEX", "GET", "GETSET", "SETBIT", "GETBIT", "SETRANGE",
                   "GETRANGE", "MGET", "MSET", "MSETNX", "INCRBY", "APPEND", "STRLEN"}
ListCommands == {"LPUSH", "RPUSH", "LPUSHX", "RPUSHX", "LINSERT", "LLEN", "LINDEX", "LSET",
                 "LPOP", "RPOP", "LRANGE", "LTRIM", "LREM", "RPOPLPUSH", "BLPOP", "BRPOP",
                 "BRPOPLPUSH"}
SetCommands == {"SADD", "SREM", "SMOVE", "SISMEMBER", "SCARD", "SPOP", "SRANDMEMBER", "SINTER",
                "SUNION", "SDIFF"}
HashCommands == {"HSET", "HSETNX", "HMSET", "HINCRBY", "HGET", "HMGET", "HDEL", "HLEN",
                 "HGETALL", "HEXISTS"}
ZsetCommands == {"ZADD", "ZINCRBY", "ZREM", "ZREMRANGEBYSCORE", "ZREMRANGEBYRANK",
                 "ZUNIONSTORE", "ZINTERSTORE", "ZRANGE", "ZREVRANGE", "ZRANGEBYSCORE",
                 "ZREVRANGEBYSCORE", "ZCOUNT", "ZCARD", "ZSCORE", "ZRANK", "ZREVRANK"}
PubsubCommands == {"SUBSCRIBE", "UNSUBSCRIBE", "PSUBSCRIBE", "PUNSUBSCRIBE", "PUBLISH"}
Proc(s, a) ==
  CASE a[1] \in StringCommands -> RunString(s, a)
    [] a[1] \in ListCommands -> RunList(s, a)
    [] a[1] \in SetCommands -> RunSet(s, a)
    [] a[1] \in HashCommands -> RunHash(s, a)
    [] a[1] \in ZsetCommands -> RunZset(s, a)
    [] a[1] \in PubsubCommands -> RunPubsub(s, a)
    [] OTHER -> RunKey(s, a)

(* call: what made the data dirty goes to the log and to the slaves, in the    *)
(* form the command left its vector in.                                        *)
Feed(s, d, a) == [s EXCEPT !.fed = Append(@, [db |-> d, argv |-> a])]
Call(s, a) ==
  LET Propagate(u) == IF u.dirty > s.dirty THEN Feed(u, u.cur, u.argv) ELSE u
  IN TouchWatchedKey(Propagate(Proc(Rewrite(s, a), a)))
RECURSIVE CallAll(_, _)
CallAll(s, queue) == IF queue = <<>> THEN s ELSE CallAll(Call(s, Head(queue)), Tail(queue))

(* EXEC gives up when a watched key was touched; otherwise it runs the queue   *)
(* as one block, which the log and the slaves get with MULTI and EXEC.         *)
ExecReset(s) == [s EXCEPT !.cl[s.me].q = <<>>, !.cl[s.me].multi = FALSE,
                          !.cl[s.me].cas = FALSE, !.multi = FALSE]
ExecAborts(s) == s.cl[s.me].multi /\ s.cl[s.me].cas
ExecBegin(s) == UnwatchAllKeys(Feed([s EXCEPT !.multi = TRUE], s.cur, <<"MULTI">>), s.me)
ExecEnd(s) == ExecReset(Feed(s, s.cur, <<"EXEC">>))

(* processCommand for a command that is known and has the right arity.         *)
ProcessCommand(s, a) ==
  LET me == s.cl[s.me]
      exec == a[1] = "EXEC"
      Around(u) == IF exec THEN ExecEnd(u) ELSE u
  IN IF s.me \in s.left THEN Abort(s, "argc")
     ELSE IF (me.chans # {} \/ me.pats # {}) /\ a[1] \notin PubsubCommands \ {"PUBLISH"}
     THEN Say(s, "subscribed")
     ELSE IF me.multi /\ a[1] \notin {"EXEC", "DISCARD", "MULTI", "WATCH"}
     THEN [s EXCEPT !.cl[s.me].q = Append(@, a)]
     ELSE IF a[1] = "MULTI" THEN Multi(s)
     ELSE IF a[1] = "DISCARD" THEN Discard(s)
     ELSE IF a[1] = "WATCH" THEN Watch(s, a[2])
     ELSE IF exec /\ ~me.multi THEN Say(s, "nomulti")
     ELSE IF exec /\ ExecAborts(s) THEN UnwatchAllKeys(ExecReset(s), s.me)
     ELSE Around(CallAll(IF exec THEN ExecBegin(s) ELSE s, IF exec THEN me.q ELSE <<a>>))
=============================================================================
