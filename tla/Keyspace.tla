------------------------------ MODULE Keyspace ------------------------------
(* The keys of the Redis server that hosts the SQL layer (db.c), as a record   *)
(* that every command takes and gives back:                                    *)
(*   val, exp   per database: the value and the expire time of its keys        *)
(*   cur        the database of the client whose command runs                  *)
(*   now, slave the clock, and whether the server has a master                 *)
(*   dirty, touched, fed, argv                                                 *)
(*              what the command did to server.dirty, which keys it signalled  *)
(*              to WATCHers, the DELs of expired keys it sent to the log, and  *)
(*              its own command vector, which a command may rewrite            *)
(*   me, multi, wait, blk, out, inn, left                                      *)
(*              the client, its MULTI flag, and the blocked clients (lists)    *)
(*   reply, fault  the answer, and the assertion that ended the process        *)
(* A value is <<type, content>>; an operator that reads or writes a key works  *)
(* in the database cur.                                                        *)
EXTENDS Integers, Sequences, FiniteSets, SequencesExt

NoKey == "none"
NoReply == "none"

Has(s, k) == k \in DOMAIN s.val[s.cur]
TypeOf(s, k) == s.val[s.cur][k][1]
Content(s, k) == s.val[s.cur][k][2]
IsType(s, k, t) == Has(s, k) /\ TypeOf(s, k) = t
Without(f, k) == [x \in DOMAIN f \ {k} |-> f[x]]

Say(s, r) == [s EXCEPT !.reply = r]
Abort(s, what) == [s EXCEPT !.fault = IF @ = "no" THEN what ELSE @]
Dirty(s, n) == [s EXCEPT !.dirty = @ + n]
SignalModifiedKey(s, k) == [s EXCEPT !.touched = @ \cup {<<s.cur, k>>}]
Rewrite(s, v) == [s EXCEPT !.argv = v]

Put(s, k, v) == [s EXCEPT !.val[s.cur] = (k :> v) @@ @]
DbAdd(s, k, v) == IF Has(s, k) THEN Abort(s, "dbAdd") ELSE Put(s, k, v)
DbOverwrite(s, k, v) == IF Has(s, k) THEN Put(s, k, v) ELSE Abort(s, "dbOverwrite")
DbDelete(s, k) == [s EXCEPT !.val[s.cur] = Without(@, k),
                            !.exp[s.cur] = Without(@, k)]

RemoveExpire(s, k) ==
  IF Has(s, k) THEN [s EXCEPT !.exp[s.cur] = Without(@, k)]
  ELSE Abort(s, "removeExpire")
SetExpire(s, k, when) ==
  IF Has(s, k) THEN [s EXCEPT !.exp[s.cur] = (k :> when) @@ @]
  ELSE Abort(s, "setExpire")

Propagated(s, k) ==
  [DbDelete(s, k) EXCEPT !.fed = Append(@, [db |-> s.cur, argv |-> <<"DEL", <<k>>>>])]

(* An expired key goes when it is looked up; the DEL goes to the log and to    *)
(* the slaves. A slave keeps the key until its master says so.                 *)
Expired(s, k) == k \in DOMAIN s.exp[s.cur] /\ s.now > s.exp[s.cur][k]
ExpireIfNeeded(s, k) ==
  IF Expired(s, k) /\ ~s.slave THEN Propagated(s, k) ELSE s

(* lookupKeyWriteOrReply and checkType: Do runs on the state after the lookup. *)
Denied(s, k, miss) == Say(s, IF Has(s, k) THEN "wrongtype" ELSE miss)
Typed(s, k, t, miss, Do(_)) == IF IsType(s, k, t) THEN Do(s) ELSE Denied(s, k, miss)
LookupKey(s, k, t, miss, Do(_)) == Typed(ExpireIfNeeded(s, k), k, t, miss, Do)
(* The form of the commands that create the key when it is missing.            *)
LookupOrCreate(s, k, t, empty, Do(_)) ==
  LET Go(u) == IF ~Has(u, k) THEN Do(DbAdd(u, k, <<t, empty>>))
               ELSE IF TypeOf(u, k) # t THEN Say(u, "wrongtype") ELSE Do(u)
  IN Go(ExpireIfNeeded(s, k))
Store(s, k, x) == [s EXCEPT !.val[s.cur][k][2] = x]

SetKey(s, k, v) ==
  LET Go(u) == IF Has(u, k) THEN DbOverwrite(u, k, v) ELSE DbAdd(u, k, v)
  IN SignalModifiedKey(RemoveExpire(Go(ExpireIfNeeded(s, k)), k), k)

(* Do for every argument in turn, from the first to the last.                  *)
Each(s, args, Do(_, _)) == FoldLeft(Do, s, args)

(***************************** keyspace commands *****************************)
Del(s, keys) ==
  Each(Say(s, "ok"), keys,
       LAMBDA u, k : IF Has(u, k) THEN Dirty(SignalModifiedKey(DbDelete(u, k), k), 1)
                     ELSE u)

Exists(s, k) == LET Go(u) == Say(u, Has(u, k)) IN Go(ExpireIfNeeded(s, k))

(* A key that WATCHers look at is signalled by a flush when it is there.       *)
SizeOf(s, d) == Cardinality(DOMAIN s.val[d])
Keys(s, d) == {<<d, k>> : k \in DOMAIN s.val[d]}
FlushDb(s) ==
  [Dirty(Say(s, "ok"), SizeOf(s, s.cur)) EXCEPT
     !.touched = @ \cup Keys(s, s.cur),
     !.val[s.cur] = <<>>, !.exp[s.cur] = <<>>]
FlushAll(s) ==
  [s EXCEPT !.touched = @ \cup UNION {Keys(s, d) : d \in DOMAIN s.val},
            !.dirty = @ + Cardinality(UNION {Keys(s, d) : d \in DOMAIN s.val}) + 1,
            !.val = [d \in DOMAIN @ |-> <<>>], !.exp = [d \in DOMAIN @ |-> <<>>],
            !.reply = "ok"]

RenameGeneric(s, nx, src, dst) ==
  LET Moved(u) == Dirty(SignalModifiedKey(SignalModifiedKey(
                    DbDelete(IF Has(u, dst) THEN DbOverwrite(u, dst, u.val[u.cur][src])
                             ELSE DbAdd(u, dst, u.val[u.cur][src]), src), src), dst), 1)
      Second(u) == IF Has(u, dst) /\ nx THEN Say(u, 0) ELSE Say(Moved(u), "ok")
      First(u) == IF ~Has(u, src) THEN Say(u, "nokey")
                  ELSE Second(ExpireIfNeeded(u, dst))
  IN IF src = dst THEN Say(s, "sameobject") ELSE First(ExpireIfNeeded(s, src))

In(s, d) == [s EXCEPT !.cur = d]
SelectDb(s, d) == IF d \in DOMAIN s.val THEN In(s, d) ELSE Say(s, "invaliddb")
Move(s, k, d) ==
  LET Moved(u) == Dirty(DbDelete(In(DbAdd(In(u, d), k, u.val[s.cur][k]), s.cur), k), 1)
      Second(u) == IF Has(u, k) THEN Say(In(u, s.cur), 0)
                   ELSE Say(Moved(In(u, s.cur)), 1)
      First(u) == IF ~Has(u, k) THEN Say(u, 0)
                  ELSE Second(ExpireIfNeeded(In(u, d), k))
  IN IF d \notin DOMAIN s.val THEN Say(s, "outofrange")
     ELSE IF d = s.cur THEN Say(s, "sameobject") ELSE First(ExpireIfNeeded(s, k))

(* EXPIRE (offset 0) and EXPIREAT (offset now): a key that would expire at     *)
(* once is deleted.                                                            *)
ExpireGeneric(s, k, param, offset) ==
  IF ~Has(s, k) THEN Say(s, 0)
  ELSE IF param - offset <= 0
       THEN SignalModifiedKey(Dirty(Say(DbDelete(s, k), 1), 1), k)
       ELSE Dirty(SignalModifiedKey(
              Say(SetExpire(s, k, s.now + param - offset), 1), k), 1)

Ttl(s, k) ==
  Say(s, IF k \in DOMAIN s.exp[s.cur] /\ s.exp[s.cur][k] >= s.now
         THEN s.exp[s.cur][k] - s.now ELSE -1)

Persist(s, k) ==
  IF k \in DOMAIN s.exp[s.cur] THEN Dirty(Say(RemoveExpire(s, k), 1), 1) ELSE Say(s, 0)

(* serverCron, activeExpireCycle: some expired keys go without being asked for. *)
ActiveExpire(s, d, k) == In(ExpireIfNeeded(In(s, d), k), s.cur)

(* freeMemoryIfNeeded: one round takes a key of each database that has one to  *)
(* give, those with an expire time only or all of them, by policy.             *)
Candidates(s, d, volatile) == IF volatile THEN DOMAIN s.exp[d] ELSE DOMAIN s.val[d]
FreeMemory(s, victim) ==
  LET dbs == SetToSeq({d \in DOMAIN s.val : victim[d] # NoKey})
  IN In(Each(s, dbs, LAMBDA u, d : Propagated(In(u, d), victim[d])), s.cur)
=============================================================================
