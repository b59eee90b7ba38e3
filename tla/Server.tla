------------------------------- MODULE Server -------------------------------
(* The Redis server that hosts the SQL layer, with its clients, a slave and an *)
(* append-only file. One step is one command of one client, one expiry, one    *)
(* timeout, one client that comes or goes, one crash and restart.              *)
(*   srv   the record of Keyspace, BasicTypes and Clients                      *)
(*   sent  commands the server has fed and nobody has received yet             *)
(*   copy  the keys and expire times of a slave that has applied all it got    *)
(*         (Slave), and those that loading the append-only file gives, per     *)
(*         time of the load                                                    *)
(*   due   the earliest expire time the file names (Never: none)               *)
(*   fam   the commands the clients of this behaviour use                      *)
EXTENDS Clients
CONSTANTS Client, Dbs, MaxNow, MaxQueue(_), MaxLen, MaxScore, Family, Commands(_), Users(_),
          Clocked, Lasting, Scarce

VARIABLES srv, sent, copy, due, fam
vars == <<srv, sent, copy, due, fam>>

Slave == -1
Never == MaxNow + 100

NoData == [val |-> [d \in Dbs |-> <<>>], exp |-> [d \in Dbs |-> <<>>]]
Init ==
  /\ fam \in Family
  /\ srv = [val |-> NoData.val, exp |-> NoData.exp, cur |-> 0, now |-> 0, slave |-> FALSE,
            dirty |-> 0, touched |-> {}, fed |-> <<>>, argv |-> <<>>, me |-> NoKey,
            multi |-> FALSE, wait |-> <<>>, blk |-> [d \in Dbs |-> <<>>], out |-> <<>>,
            inn |-> 0, left |-> {}, reply |-> NoReply, fault |-> "no",
            cl |-> [c \in Client |-> Fresh], watchers |-> <<>>, chanl |-> <<>>, patl |-> <<>>]
  /\ sent = <<>>
  /\ copy = [t \in {Slave} \cup 0 .. MaxNow |-> NoData]
  /\ due = Never

(* A server that only replays a stream: one client, nobody blocked. A slave    *)
(* keeps what has expired until its master says so; the load of the file is    *)
(* over before anything expires.                                               *)
Replayer(x) ==
  [srv EXCEPT !.val = copy[x].val, !.exp = copy[x].exp, !.slave = x = Slave, !.fed = <<>>,
              !.now = IF x = Slave THEN @ ELSE x, !.dirty = 0, !.touched = {}, !.wait = <<>>,
              !.blk = [d \in Dbs |-> <<>>], !.left = {}, !.watchers = <<>>, !.out = <<>>,
              !.inn = 0]
Applied(s) == [val |-> s.val, exp |-> s.exp]
RECURSIVE Replay(_, _)
Replay(s, log) ==
  IF log = <<>> THEN s
  ELSE Replay(IF Head(log).argv[1] \in {"MULTI", "EXEC"} THEN s
              ELSE Proc(Rewrite(In(s, Head(log).db), Head(log).argv), Head(log).argv),
              Tail(log))

(* feedAppendOnlyFile: expire times become absolute.                           *)
LogForm(e, now) ==
  LET at(n) == [e EXCEPT !.argv = <<"EXPIREAT", e.argv[2], now + n>>]
  IN IF e.argv[1] = "EXPIRE" THEN <<at(e.argv[3])>>
     ELSE IF e.argv[1] = "SETEX"
     THEN <<[e EXCEPT !.argv = <<"SET", e.argv[2], e.argv[4]>>], at(e.argv[3])>>
     ELSE <<e>>
Logged(fed, now) == FlattenSeq([i \in DOMAIN fed |-> LogForm(fed[i], now)])
Deadlines(log) == {log[i].argv[3] : i \in {j \in DOMAIN log : log[j].argv[1] = "EXPIREAT"}}

(* Bounds: no list, set or hash grows past MaxLen, no finite score past        *)
(* MaxScore.                                                                   *)
Size(v) == CASE v[1] = "set" -> Cardinality(v[2])
             [] v[1] \in {"hash", "zset"} -> Cardinality(DOMAIN v[2])
             [] OTHER -> Len(v[2])
LowScores(v) == \A e \in DOMAIN v[2] : v[2][e] \in -MaxScore .. MaxScore \cup {Inf, -Inf}
Small(s) == \A d \in Dbs : \A k \in DOMAIN s.val[d] :
              Size(s.val[d][k]) <= MaxLen /\ (s.val[d][k][1] = "zset" => LowScores(s.val[d][k]))

(* The end of every step: what was fed is on its way.                          *)
Done(s) ==
  /\ Small(s)
  /\ srv' = [s EXCEPT !.dirty = 0, !.touched = {}, !.fed = <<>>, !.argv = <<>>, !.me = NoKey,
                      !.cur = 0, !.reply = NoReply, !.multi = FALSE]
  /\ sent' = s.fed
  /\ UNCHANGED <<copy, due, fam>>

(* The slave and the file get what was fed before the server reads on: the     *)
(* file is written in beforeSleep.                                             *)
Deliver ==
  /\ sent # <<>>
  /\ copy' = [x \in DOMAIN copy |->
                Applied(Replay(Replayer(x), IF x = Slave THEN sent ELSE Logged(sent, srv.now)))]
  /\ due' = Min(Deadlines(Logged(sent, srv.now)) \cup {due})
  /\ sent' = <<>>
  /\ srv' = [srv EXCEPT !.out = <<>>, !.inn = 0]
  /\ UNCHANGED fam

Ready == srv.fault = "no" /\ sent = <<>>
Begin == [srv EXCEPT !.out = <<>>, !.inn = 0]
Command(c, a) ==
  LET Keep(s) == [s EXCEPT !.cl[c].db = s.cur]
  IN /\ Ready /\ srv.cl[c].live /\ c \notin DOMAIN srv.wait
     /\ Len(srv.cl[c].q) < MaxQueue(fam) \/ a[1] \in {"EXEC", "DISCARD"}
     /\ Done(Keep(ProcessCommand([Begin EXCEPT !.me = c, !.cur = srv.cl[c].db], a)))

Expire(d, k) ==
  /\ Ready /\ k \in DOMAIN srv.exp[d] /\ srv.now > srv.exp[d][k]
  /\ Done(ActiveExpire(Begin, d, k))

(* Memory is over its limit when a command comes: keys go, and the command is  *)
(* refused (REDIS_CMD_DENYOOM) or run in the next step.                        *)
Evict(victim, volatile) ==
  /\ Ready /\ fam \in Scarce
  /\ \A d \in Dbs : IF Candidates(srv, d, volatile) = {} THEN victim[d] = NoKey
                    ELSE victim[d] \in Candidates(srv, d, volatile)
  /\ Done(FreeMemory(Begin, victim))

Timeout(c) == Ready /\ c \in DOMAIN srv.wait /\ Done(Unblock(Begin, c))
Disconnect(c) == Ready /\ srv.cl[c].live /\ Done(FreeClient(Begin, c))
Connect(c) == Ready /\ ~srv.cl[c].live /\ Done([Begin EXCEPT !.cl[c] = Fresh])

Tick == /\ Ready /\ fam \in Clocked /\ srv.now < MaxNow
        /\ srv' = [Begin EXCEPT !.now = @ + 1]
        /\ copy' = [t \in {Slave} \cup srv.now + 1 .. MaxNow |-> copy[t]]
        /\ UNCHANGED <<sent, due, fam>>

(* A crash, perhaps before the file was written, the load of the append-only   *)
(* file, and a slave that synchronizes.                                        *)
Restart ==
  /\ fam \in Clocked
  /\ srv' = [Begin EXCEPT !.val = copy[srv.now].val, !.exp = copy[srv.now].exp,
                          !.wait = <<>>, !.blk = [d \in Dbs |-> <<>>], !.left = {},
                          !.cl = [c \in Client |-> [Fresh EXCEPT !.live = FALSE]],
                          !.watchers = <<>>, !.chanl = <<>>, !.patl = <<>>, !.fault = "no"]
  /\ copy' = [copy EXCEPT ![Slave] = copy[srv.now]]
  /\ sent' = <<>>
  /\ UNCHANGED <<due, fam>>

Next == \/ \E c \in Users(fam) : \E a \in Commands(fam) : Command(c, a)
        \/ \E d \in Dbs : \E k \in DOMAIN srv.exp[d] : Expire(d, k)
        \/ \E victim \in [Dbs -> UNION {DOMAIN srv.val[d] : d \in Dbs} \cup {NoKey}] :
             \E volatile \in BOOLEAN : Evict(victim, volatile)
        \/ \E c \in Users(fam) : Timeout(c)
        \/ \E c \in Users(fam) : Disconnect(c)
        \/ \E c \in Users(fam) : Connect(c)
        \/ Deliver
        \/ Tick
        \/ Restart
Spec == Init /\ [][Next]_vars

(********************************* properties ********************************)
(* No list, set, hash or sorted set is ever empty: the command that takes its  *)
(* last element deletes the key.                                               *)
NoEmptyKey ==
  \A d \in Dbs : \A k \in DOMAIN srv.val[d] :
    srv.val[d][k][1] # "string" => Size(srv.val[d][k]) > 0

(* No assertion of the server fails (redisAssert in dbAdd, removeExpire,       *)
(* brpoplpushCommand, processMultibulkBuffer, pubsubUnsubscribeChannel), and   *)
(* no freed object is used.                                                    *)
NoFault == srv.fault = "no"

(* A slave that has applied the stream holds the keys and expire times of its  *)
(* master: whatever changes the data is propagated, in a form that has the     *)
(* same effect there (call, rewriteClientCommandVector, propagateExpire).      *)
ReplicaAgrees == sent = <<>> => copy[Slave] = Applied(srv)

(* Loading the append-only file now gives the keys that are not yet due, with  *)
(* the values and expire times they have (feedAppendOnlyFile). It holds as     *)
(* long as no expire time in the file has passed, and always where an expire   *)
(* time, once set, is left alone (Lasting).                                    *)
Alive(data, now) ==
  [d \in Dbs |-> [k \in {x \in DOMAIN data.val[d] :
                           x \notin DOMAIN data.exp[d] \/ now < data.exp[d][x]} |->
                    <<data.val[d][k], IF k \in DOMAIN data.exp[d] THEN data.exp[d][k] ELSE Never>>]]
LoadGivesBack == Alive(copy[srv.now], srv.now) = Alive(Applied(srv), srv.now)
RestartKeeps == sent = <<>> /\ (fam \in Lasting \/ srv.now < due) => LoadGivesBack


(* No client waits for a list that is there (pushGenericCommand serves the     *)
(* clients before it creates the list; blockingPopGenericCommand blocks only   *)
(* on lists that are missing).                                                 *)
NoLostWakeup ==
  \A c \in DOMAIN srv.wait : \A k \in Range(srv.wait[c].keys) :
    LET v == ListOf(srv.val[srv.wait[c].db], k) IN v = <<>> \/ v[1] # "list"


(* An element that is pushed is then in a list or with the client that popped  *)
(* it: none is lost and none comes twice, whoever is served on the way.        *)
Elements(s) ==
  FoldSet(LAMBDA x, n : n + Len(x[2]), 0,
          {<<<<d, k>>, s.val[d][k][2]>> :
             <<d, k>> \in {y \in Dbs \X UNION {DOMAIN s.val[e] : e \in Dbs} :
                             y[2] \in DOMAIN s.val[y[1]] /\ s.val[y[1]][y[2]][1] = "list"}})
=============================================================================
