------------------------------ MODULE MCServer ------------------------------
(* The commands of each family, over the keys a and b (and w1, w2 as weights   *)
(* of SORT), with the arguments that reach the edges: an empty string, the     *)
(* largest and smallest number, indexes past both ends, a key as its own       *)
(* destination, a key of another type.                                         *)
EXTENDS Server

K == {"a", "b"}
S(x) == <<x>>
Seven == <<55>>
Weights == [kind |-> "pattern", key |-> [e \in {1, 2} |-> IF e = 1 THEN "w1" ELSE "w2"],
            field |-> NoKey]
Fields == [Weights EXCEPT !.field = "f"]
Self == [kind |-> "self"]
NoSort == [kind |-> "nosort"]
SortBy(by, desc, start, count, get, store) ==
  [by |-> by, desc |-> desc, start |-> start, count |-> count, get |-> get, store |-> store]
Scores(lo, hi, lox, hix) == [min |-> lo, max |-> hi, minex |-> lox, maxex |-> hix]

MCCommands(f) ==
  CASE f = "string" ->
       {<<"SET", "a", v>> : v \in {<<>>, Seven}} \cup {<<"SETNX", "a", <<48>>>>, <<"GET", "a">>,
        <<"GETSET", "a", <<Minus, 56>>>>, <<"STRLEN", "a">>, <<"MGET", <<"a", "b">>>>,
        <<"MSET", <<<<"a", <<49>>>>, <<"b", Seven>>>>>>, <<"MSETNX", <<<<"b", <<>>>>, <<"b", <<49>>>>>>>>,
        <<"APPEND", "a", <<48>>>>, <<"SETRANGE", "a", 1, <<49>>>>, <<"SETRANGE", "b", 0, <<>>>>,
        <<"GETRANGE", "a", -1, 5>>, <<"SETBIT", "a", 7, 1>>, <<"SETBIT", "a", 7, 0>>,
        <<"GETBIT", "a", 9>>, <<"DEL", <<"a", "b", "a">>>>, <<"RENAME", "a", "b">>}
        \cup {<<"INCRBY", "a", n>> : n \in {1, -1, 5, -5}}
    [] f = "list" ->
       {<<"RPUSH", "a", <<1, 2>>>>, <<"LPUSH", "b", <<1>>>>, <<"LPUSHX", "a", 2>>, <<"RPUSHX", "b", 1>>,
        <<"LINSERT", "a", "head", 2, 1>>, <<"LINSERT", "a", "tail", 1, 2>>, <<"LLEN", "a">>,
        <<"LINDEX", "a", -1>>, <<"LSET", "a", -2, 1>>, <<"LPOP", "a">>, <<"RPOP", "b">>,
        <<"LRANGE", "a", 0, -1>>, <<"LTRIM", "a", 1, -1>>, <<"LTRIM", "a", 5, 7>>,
        <<"RPOPLPUSH", "a", "b">>, <<"RPOPLPUSH", "b", "b">>, <<"BLPOP", <<"b", "a">>>>,
        <<"BRPOP", <<"a">>>>, <<"BRPOPLPUSH", "a", "b">>, <<"DEL", <<"a">>>>,
        <<"SORT", "a", SortBy(Self, TRUE, 0, -1, Self, "b")>>,
        <<"SET", "b", Seven>>, <<"MULTI">>, <<"EXEC">>} \cup {<<"LREM", "a", n, 1>> : n \in {0, 1, -1}}
    [] f = "set" ->
       {<<"SADD", "a", <<1, 2>>>>, <<"SADD", "b", <<2, 3>>>>, <<"SREM", "a", <<1, 3>>>>,
        <<"SREM", "b", <<2>>>>, <<"SMOVE", "a", "b", 1>>, <<"SMOVE", "b", "a", 2>>, <<"SMOVE", "a", "a", 1>>,
        <<"SISMEMBER", "a", 1>>, <<"SCARD", "a">>, <<"SRANDMEMBER", "a", 1>>,
        <<"SINTER", <<"a", "b">>, NoKey>>, <<"SINTER", <<"a", "b">>, "a">>, <<"SUNION", <<"a", "b">>, "b">>,
        <<"SDIFF", <<"a", "b">>, "a">>, <<"SDIFF", <<"a">>, NoKey>>, <<"DEL", <<"a">>>>,
        <<"ZUNIONSTORE", "b", <<"a", "b">>, <<1, 2>>, "sum">>, <<"SET", "b", Seven>>,
        <<"SORT", "a", SortBy(NoSort, FALSE, 0, 1, Self, NoKey)>>}
        \cup {<<"SPOP", "a", e>> : e \in 1..3}
    [] f = "hash" ->
       {<<"HSET", "a", "f", <<>>>>, <<"HSETNX", "a", "g", <<49>>>>, <<"HMSET", "b", <<<<"f", Seven>>, <<"f", <<49>>>>>>>>,
        <<"HINCRBY", "a", "f", 3>>, <<"HINCRBY", "b", "g", -5>>, <<"HGET", "a", "f">>,
        <<"HMGET", "b", <<"f", "g">>>>, <<"HDEL", "a", <<"f">>>>, <<"HDEL", "a", <<"g">>>>,
        <<"HDEL", "b", <<"f">>>>, <<"HLEN", "a">>, <<"HGETALL", "a", "all">>, <<"HGETALL", "a", "keys">>,
        <<"HGETALL", "a", "values">>, <<"HEXISTS", "a", "f">>, <<"SET", "b", <<>>>>, <<"DEL", <<"b">>>>}
    [] f = "zset" ->
       {<<"ZADD", "a", <<<<1, 1>>, <<0, 2>>>>>>, <<"ZADD", "b", <<<<Inf, 1>>, <<-Inf, 2>>>>>>,
        <<"ZINCRBY", "a", <<<<1, 2>>>>>>, <<"ZINCRBY", "b", <<<<-Inf, 1>>>>>>, <<"ZREM", "a", <<1, 3>>>>,
        <<"ZREM", "b", <<2>>>>, <<"ZREMRANGEBYSCORE", "a", Scores(0, 1, TRUE, FALSE)>>,
        <<"ZREMRANGEBYRANK", "a", -1, 5>>, <<"ZUNIONSTORE", "b", <<"a", "b">>, <<1, -1>>, "sum">>,
        <<"ZINTERSTORE", "a", <<"a", "b">>, <<1, 1>>, "min">>, <<"ZUNIONSTORE", "a", <<"a">>, <<1>>, "max">>,
        <<"ZRANGE", "a", 0, -1>>, <<"ZREVRANGE", "a", 0, 0>>,
        <<"ZRANGEBYSCORE", "a", Scores(-Inf, Inf, FALSE, FALSE), 1, 1>>,
        <<"ZREVRANGEBYSCORE", "a", Scores(0, 1, FALSE, TRUE), 0, -1>>, <<"ZCOUNT", "a", Scores(0, 1, FALSE, FALSE), 0, -1>>,
        <<"ZCARD", "a">>, <<"ZSCORE", "a", 1>>, <<"ZRANK", "a", 2>>, <<"ZREVRANK", "a", 2>>, <<"DEL", <<"b">>>>}
    [] f = "sort" ->
       {<<"RPUSH", "a", <<1, 2>>>>, <<"SET", "w1", Seven>>, <<"SET", "w2", <<49>>>>, <<"APPEND", "w1", <<Nul>>>>,
        <<"HSET", "w1", "f", Seven>>, <<"DEL", <<"w1">>>>, <<"LREM", "a", 1, 2>>,
        <<"SORT", "a", SortBy(Weights, FALSE, 0, 1, Self, "b")>>, <<"SORT", "a", SortBy(Fields, TRUE, 0, 2, Self, "b")>>,
        <<"SORT", "a", SortBy(Self, TRUE, 0, -1, Weights, NoKey)>>}
    [] f = "expire" ->
       {<<"SET", "a", Seven>>, <<"SETEX", "b", 1, Seven>>, <<"SETEX", "b", 0, Seven>>, <<"EXISTS", "b">>,
        <<"GET", "b">>, <<"DEL", <<"b">>>>, <<"SETNX", "b", <<48>>>>, <<"RENAMENX", "a", "b">>,
        <<"MSETNX", <<<<"a", <<49>>>>, <<"b", <<49>>>>>>>>}
    [] f = "refresh" ->
       {<<"SET", "a", Seven>>, <<"SETEX", "a", 1, Seven>>, <<"EXPIRE", "a", 1>>, <<"EXPIRE", "a", 0>>,
        <<"TTL", "a">>, <<"PERSIST", "a">>, <<"APPEND", "a", <<48>>>>, <<"RENAME", "a", "b">>}
    [] f = "watch" ->
       {<<"WATCH", <<"a">>>>, <<"UNWATCH">>, <<"MULTI">>, <<"EXEC">>, <<"DISCARD">>,
        <<"SET", "a", Seven>>, <<"SETNX", "a", <<49>>>>, <<"DEL", <<"a">>>>,
        <<"RENAME", "a", "b">>, <<"RENAME", "b", "a">>, <<"FLUSHDB">>}
    [] f = "moves" ->
       {<<"SET", "a", Seven>>, <<"MOVE", "a", 1>>, <<"MOVE", "a", 0>>, <<"SELECT", 1>>, <<"SELECT", 0>>, <<"FLUSHDB">>,
        <<"FLUSHALL">>, <<"SELECT", 2>>,
        <<"MULTI">>, <<"EXEC">>}
    [] f = "block" ->
       {<<"LPUSH", "a", <<1>>>>, <<"RPUSH", "b", <<2>>>>, <<"LPOP", "a">>, <<"LPOP", "b">>, <<"BLPOP", <<"a", "c">>>>,
        <<"BRPOPLPUSH", "a", "b">>, <<"LPUSH", "c", <<1>>>>}
    [] f = "pubsub" ->
       {<<"SUBSCRIBE", <<"x", "y">>>>, <<"UNSUBSCRIBE", <<"x">>>>, <<"PSUBSCRIBE", <<{"x", "y"}>>>>,
        <<"PUNSUBSCRIBE", <<{"x", "y"}>>>>, <<"PUBLISH", "x">>, <<"MULTI">>, <<"EXEC">>}

MCQueue(f) == IF f = "moves" THEN 3 ELSE 1
MCUsers(f) == IF f \in {"watch", "pubsub"} THEN {"c1", "c2"}
              ELSE IF f = "block" THEN Client ELSE {"c1"}
=============================================================================
