---------------------------- MODULE Replication ----------------------------
(* A master and its replicas (replication.c, the output buffers of            *)
(* networking.c, and PURGE and DIRTY of xdb_hooks.c). A replica connects,      *)
(* sends SYNC, receives the file of a background save and then the commands    *)
(* that came since. Connections may break, children may fail, a socket may     *)
(* take only part of a buffer, and an operator may say SLAVEOF at any time.    *)
(*   ms     the master: its data (the number of writes in each database),      *)
(*          stat_num_dirty_commands, the list of slaves, the saving child with *)
(*          the data it forked with, and whether it is inside PURGE            *)
(*   conn   the connections: both ends, the output buffers (buf is c->buf, rep *)
(*          is c->reply), the write handler, and what is on the wire           *)
(*   rs     the replicas: replstate, masterhost, the socket of the transfer,   *)
(*          the connection to the master, data and the selected database       *)
(*   mix    the operations and the replicas of this behaviour                  *)
(* Ghosts: taint (the slave took over a buffer that is not all of the          *)
(* difference), stuck (a buffer half sent whose handler is gone), orphan (a    *)
(* slave waits for a save that nobody runs), stray (SLAVEOF came while a       *)
(* connect was pending, whose handler fires later).                            *)
EXTENDS Integers, Sequences, FiniteSets, SequencesExt, TLC
CONSTANTS Db,          \* the databases, 0 among them
          ConnId,      \* places for connections, 1 .. n
          BufCap,      \* commands that fit c->buf
          Mixes        \* the operations and replicas that are tried together, the number of writes, and
                       \* of faults: broken connections, failed children, part writes, timeouts
VARIABLES ms, conn, rs, mix

Replica == UNION {x.replicas : x \in Mixes}
NoData  == [d \in Db |-> 0]
NoSave  == [on |-> FALSE, data |-> NoData]
Item(t, v) == [t |-> t, v |-> v, d |-> NoData]
Chunk(d)   == [t |-> "chunk", v |-> 0, d |-> d]
Closed  == [own |-> "", s |-> "closed", m |-> "gone", req |-> FALSE, sel |-> 0, buf |-> <<>>, rep |-> <<>>,
            h |-> "none", snap |-> NoData, wire |-> <<>>, cut |-> FALSE, taint |-> FALSE, stuck |-> FALSE]
Faulty  == ms.faults < mix.faults
Free(c) == conn[c].s = "closed" /\ conn[c].m = "gone"
Ops(x)  == x \in mix.ops

-----------------------------------------------------------------------------
(* The master's output buffers.                                              *)

InstallWriteEvent(c) ==
    IF c.buf = <<>> /\ c.rep = <<>> /\ c.m \in {"new", "online"} THEN [c EXCEPT !.h = "reply"] ELSE c
AddReply(c0, it) ==
    LET c == InstallWriteEvent(c0)
    IN  IF c.rep = <<>> /\ Len(c.buf) < BufCap THEN [c EXCEPT !.buf = Append(@, it)]
                                               ELSE [c EXCEPT !.rep = Append(@, it)]

ReplicationFeed(c, d) ==
    LET sel == IF c.sel # d THEN [AddReply(c, Item("select", d)) EXCEPT !.sel = d] ELSE c
    IN  IF c.m = "wait_start" THEN c ELSE AddReply(sel, Item("write", 0))
FeedSlaves(cs, d) == [c \in ConnId |-> IF c \in Range(ms.slaves) THEN ReplicationFeed(cs[c], d) ELSE cs[c]]

Without(sl, S) == SelectSeq(sl, LAMBDA x : x \notin S)
Gone(c) == [c EXCEPT !.m = "gone", !.buf = <<>>, !.rep = <<>>, !.h = "none", !.req = FALSE]

Serving == ~ms.purging /\ ~ms.down

Write(d) ==
    /\ Serving /\ Ops("write") /\ ms.dirty < mix.writes
    /\ ms' = [ms EXCEPT !.data[d] = @ + 1, !.dirty = @ + 1]
    /\ conn' = FeedSlaves(conn, d)
    /\ UNCHANGED <<rs, mix>>

(* The socket takes everything: buffer, then list.                           *)
SendReply(c) ==
    /\ Serving /\ conn[c].h = "reply"
    /\ conn' = [conn EXCEPT ![c].wire = IF conn[c].cut THEN @ ELSE @ \o conn[c].buf \o conn[c].rep,
                            ![c].buf = <<>>, ![c].rep = <<>>, ![c].h = "none"]
    /\ UNCHANGED <<ms, rs, mix>>

(* The socket takes k commands and part of the next. With an empty list the  *)
(* handler goes although the buffer is not empty, and what is left stays.    *)
SendPart(c, k) ==
    LET q == conn[c].buf \o conn[c].rep
        b == Len(conn[c].buf)
    IN  /\ Serving /\ Ops("part") /\ Faulty /\ conn[c].h = "reply" /\ ~conn[c].cut /\ k < Len(q)
        /\ ms' = [ms EXCEPT !.faults = @ + 1]
        /\ conn' = IF conn[c].rep = <<>>
                   THEN [conn EXCEPT ![c].wire = @ \o SubSeq(q, 1, k), ![c].h = "none", ![c].stuck = TRUE]
                   ELSE [conn EXCEPT ![c].wire = @ \o SubSeq(q, 1, k),
                                     ![c].buf = SubSeq(q, k + 1, b),
                                     ![c].rep = SubSeq(q, IF k < b THEN b + 1 ELSE k + 1, Len(q))]
        /\ UNCHANGED <<rs, mix>>

-----------------------------------------------------------------------------
(* SYNC on the master, the saving child and the transfer.                    *)

SyncDirty(c) == AddReply(c, Item("dirty", ms.dirty))
NewSlave(c, m) == SyncDirty([c EXCEPT !.m = m, !.sel = 0, !.req = FALSE])
WaitingEnd == SelectSeq(ms.slaves, LAMBDA x : conn[x].m = "wait_end")
(* Whether the copy is all of the difference: c->buf is not copied, and the  *)
(* database that is selected after it is not kept.                           *)
CopyTaints(x) == conn[x].taint \/ conn[x].sel # 0 \/ SelectSeq(conn[x].buf, LAMBDA it : it.t # "dirty") # <<>>
CopyBuffer(c, x) == [conn[c] EXCEPT !.rep = conn[x].rep, !.taint = CopyTaints(x)]

(* Mutant of SyncAnswer: a slave joins a save that began without it. *)
SyncAnswerNow(c, forked) ==
    IF ms.child.on
    THEN <<NewSlave(conn[c], "wait_end"), ms.child>>
    ELSE <<NewSlave(conn[c], "wait_end"), [on |-> TRUE, data |-> ms.data]>>

SyncAnswer(c, forked) ==
    IF ms.child.on
    THEN IF WaitingEnd # <<>>
         THEN <<NewSlave(CopyBuffer(c, WaitingEnd[1]), "wait_end"), ms.child>>
         ELSE <<NewSlave(conn[c], "wait_start"), ms.child>>
    ELSE <<NewSlave(conn[c], "wait_end"), [on |-> TRUE, data |-> ms.data]>>
SyncCommand(c, forked) ==
    /\ Serving /\ conn[c].req /\ conn[c].m = "new"
    /\ LET a == SyncAnswer(c, forked) IN
       IF ms.child.on \/ forked
       THEN /\ conn' = [conn EXCEPT ![c] = a[1]]
            /\ ms' = [ms EXCEPT !.slaves = Append(@, c), !.child = a[2]]
       ELSE /\ Faulty /\ Ops("fail")
            /\ conn' = [conn EXCEPT ![c] = [AddReply(conn[c], Item("err", 0)) EXCEPT !.req = FALSE]]
            /\ ms' = [ms EXCEPT !.faults = @ + 1]
    /\ UNCHANGED <<rs, mix>>

Bgsave ==
    /\ Serving /\ Ops("bgsave") /\ ~ms.child.on
    /\ ms' = [ms EXCEPT !.child = [on |-> TRUE, data |-> ms.data]]
    /\ UNCHANGED <<conn, rs, mix>>

(* Mutant of UpdateSlave: a save that failed frees nobody. *)
UpdateSlaveForgets(c, ok) ==
    IF c.m = "wait_start" THEN [c EXCEPT !.m = "wait_end"]
    ELSE IF c.m # "wait_end" THEN c
    ELSE IF ok THEN [c EXCEPT !.m = "send_bulk", !.snap = ms.child.data, !.h = "bulk"]
    ELSE c

(* The child ended: who waited for it gets the file, who waited for the next *)
(* one is now waiting for its end; if that fork fails, nobody tells them.    *)
UpdateSlave(c, ok) ==
    IF c.m = "wait_start" THEN [c EXCEPT !.m = "wait_end"]
    ELSE IF c.m # "wait_end" THEN c
    ELSE IF ok THEN [c EXCEPT !.m = "send_bulk", !.snap = ms.child.data, !.h = "bulk"]
    ELSE Gone(c)
ChildDone(ok, forked) ==
    LET start == \E i \in 1 .. Len(ms.slaves) : conn[ms.slaves[i]].m = "wait_start"
        freed == {c \in Range(ms.slaves) : ~ok /\ conn[c].m = "wait_end"}
        cost  == (IF ok THEN 0 ELSE 1) + (IF start /\ ~forked THEN 1 ELSE 0)
    IN  /\ Serving /\ ms.child.on /\ (forked \/ start)
        /\ cost > 0 => Ops("fail") /\ ms.faults + cost <= mix.faults
        /\ ms' = [ms EXCEPT !.slaves = Without(@, freed), !.faults = @ + cost,
                            !.orphan = @ \/ (start /\ ~forked),
                            !.child = IF start /\ forked THEN [on |-> TRUE, data |-> ms.data] ELSE NoSave]
        /\ conn' = [c \in ConnId |-> IF c \in Range(ms.slaves) THEN UpdateSlave(conn[c], ok) ELSE conn[c]]
        /\ UNCHANGED <<rs, mix>>

SendBulkToSlave(c) ==
    /\ Serving /\ conn[c].h = "bulk"
    /\ conn' = [conn EXCEPT ![c].wire = IF conn[c].cut THEN @ ELSE @ \o <<Item("len", 0), Chunk(conn[c].snap)>>,
                            ![c].m = "online", ![c].h = "reply"]
    /\ UNCHANGED <<ms, rs, mix>>

(* replicationCron pings the slaves: a command once they are online, a bare  *)
(* newline on the socket while they wait, nothing during the transfer.       *)
Ping ==
    /\ Serving /\ Ops("ping") /\ ~ms.pinged
    /\ ms' = [ms EXCEPT !.pinged = TRUE]
    /\ conn' = [c \in ConnId |->
                  IF c \notin Range(ms.slaves) \/ conn[c].m = "send_bulk" THEN conn[c]
                  ELSE IF conn[c].m = "online" THEN AddReply(conn[c], Item("ping", 0))
                  ELSE IF conn[c].cut THEN conn[c] ELSE [conn[c] EXCEPT !.wire = Append(@, Item("newline", 0))]]
    /\ UNCHANGED <<rs, mix>>

(* Reading from a connection that the other side left: freeClient.           *)
FreeSlave(c) ==
    /\ Serving /\ conn[c].m # "gone" /\ (conn[c].s = "closed" \/ conn[c].cut)
    /\ ms' = [ms EXCEPT !.slaves = Without(@, {c})]
    /\ conn' = [conn EXCEPT ![c] = IF conn[c].s = "closed" THEN Closed ELSE Gone(@)]
    /\ UNCHANGED <<rs, mix>>

-----------------------------------------------------------------------------
(* PURGE: the master asks every slave for its count until all of them agree, *)
(* and shuts down. It serves nobody meanwhile.                               *)


CheckPurge == \A i \in 1 .. Len(ms.slaves) : rs[conn[ms.slaves[i]].own].dirty = ms.dirty
PurgeCommand ==
    /\ Serving /\ Ops("purge")
    /\ ms' = [ms EXCEPT !.purging = TRUE]
    /\ UNCHANGED <<conn, rs, mix>>
PurgeExit ==
    /\ ms.purging /\ CheckPurge
    /\ ms' = [ms EXCEPT !.purging = FALSE, !.down = TRUE]
    /\ UNCHANGED <<conn, rs, mix>>

-----------------------------------------------------------------------------
(* The replica.                                                              *)

Hang(cs, c) == [cs EXCEPT ![c] = IF @.m = "gone" THEN Closed ELSE [@ EXCEPT !.s = "closed", !.wire = <<>>]]
Eof(c)      == conn[c].wire = <<>> /\ (conn[c].cut \/ conn[c].m = "gone")
Next1(cs, c) == [cs EXCEPT ![c].wire = Tail(@)]

ConnectWithMaster(r) ==
    LET free == {c \in ConnId : Free(c)}
        c    == CHOOSE x \in free : \A y \in free : x <= y
    IN  /\ ~ms.down /\ rs[r].state = "connect" /\ free # {}
        /\ rs' = [rs EXCEPT ![r].state = "connecting", ![r].sock = c]
        /\ conn' = [conn EXCEPT ![c] = [Closed EXCEPT !.own = r, !.s = "connecting", !.m = "new"]]
        /\ UNCHANGED <<ms, mix>>

SyncWithMaster(c) ==
    LET r == conn[c].own IN
    /\ conn[c].s = "connecting"
    /\ IF conn[c].cut
       THEN /\ conn' = Hang(conn, c)
            /\ rs' = [rs EXCEPT ![r].state = "connect"]
       ELSE /\ conn' = [conn EXCEPT ![c].s = "payload", ![c].req = TRUE]
            /\ rs' = [rs EXCEPT ![r].state = "transfer", ![r].left = -1]
    /\ UNCHANGED <<ms, mix>>

(* replicationAbortSyncTransfer asserts the state, and closes the socket of  *)
(* the last connect, which need not be the one that was read from.           *)
AbortTransfer(r, cs) ==
    IF rs[r].state # "transfer"
    THEN /\ rs' = [rs EXCEPT ![r].state = "crashed"] /\ conn' = cs
    ELSE /\ rs' = [rs EXCEPT ![r].state = "connect"] /\ conn' = Hang(cs, rs[r].sock)

ReadSyncBulkPayload(c) ==
    LET r == conn[c].own
        it == Head(conn[c].wire)
    IN  /\ conn[c].s = "payload" /\ rs[r].state # "crashed"
        /\ (conn[c].wire # <<>> \/ Eof(c) \/ rs[r].left = 0)
        /\ IF conn[c].wire = <<>> \/ rs[r].left = 0 THEN AbortTransfer(r, conn)
           ELSE IF rs[r].left = -1
           THEN IF it.t = "newline" THEN conn' = Next1(conn, c) /\ UNCHANGED rs
                ELSE IF it.t = "len" THEN conn' = Next1(conn, c) /\ rs' = [rs EXCEPT ![r].left = 1]
                ELSE AbortTransfer(r, Next1(conn, c))
           ELSE IF it.t = "chunk"
           THEN /\ conn' = [Next1(conn, c) EXCEPT ![rs[r].sock].s = "master"]
                /\ rs' = [rs EXCEPT ![r].state = "connected", ![r].link = rs[r].sock, ![r].left = 0,
                                    ![r].data = it.d, ![r].sel = 0]
           ELSE AbortTransfer(r, Next1(conn, c))
        /\ UNCHANGED <<ms, mix>>

(* The master's commands, as those of any client.                            *)
Execute(x, it) ==
    CASE it.t = "select" -> [x EXCEPT !.sel = it.v]
      [] it.t = "write"  -> [x EXCEPT !.data[x.sel] = @ + 1, !.dirty = @ + 1]
      [] it.t = "dirty"  -> [x EXCEPT !.dirty = it.v]
      [] OTHER -> x
FreeMaster(r, state) == [rs EXCEPT ![r].state = state, ![r].link = 0]
ReadFromMaster(r) ==
    LET c == rs[r].link IN
    /\ rs[r].state = "connected"
    /\ IF Eof(c) THEN conn' = Hang(conn, c) /\ rs' = FreeMaster(r, "connect")
       ELSE /\ conn[c].wire # <<>>
            /\ conn' = [conn EXCEPT ![c].wire = <<>>]
            /\ rs' = [rs EXCEPT ![r] = FoldLeft(Execute, @, conn[c].wire)]
    /\ UNCHANGED <<ms, mix>>

(* SLAVEOF knows of a master and of a transfer, not of a pending connect.    *)
Slaveof(r, host) ==
    LET c == CASE rs[r].state = "connected" -> rs[r].link
               [] rs[r].state = "transfer"  -> rs[r].sock
               [] OTHER -> 0
    IN  /\ Ops("slaveof") /\ ms.commands < 1 /\ rs[r].state # "crashed"
        /\ (host \/ rs[r].host)
        /\ ms' = [ms EXCEPT !.commands = @ + 1]
        /\ conn' = IF c = 0 THEN conn ELSE Hang(conn, c)
        /\ rs' = [rs EXCEPT ![r].host = host, ![r].link = 0,
                            ![r].state = IF host THEN "connect" ELSE "none",
                            ![r].stray = @ \/ rs[r].state = "connecting"]
        /\ UNCHANGED mix

(* Sixty seconds without a byte: the line is stuck, the master is inside     *)
(* PURGE, or the network is slow.                                            *)
Timeout(r) ==
    LET c      == IF rs[r].state = "connected" THEN rs[r].link ELSE rs[r].sock
        silent == ms.purging \/ conn[c].stuck
    IN  /\ rs[r].host /\ rs[r].state \in {"transfer", "connected"} /\ conn[c].wire = <<>>
        /\ (silent \/ (Ops("timeout") /\ Faulty))
        /\ ms' = IF silent THEN ms ELSE [ms EXCEPT !.faults = @ + 1]
        /\ conn' = Hang(conn, c)
        /\ rs' = FreeMaster(r, "connect")
        /\ UNCHANGED mix

Lose(c) ==
    /\ Ops("lose") /\ Faulty /\ ~Free(c) /\ ~conn[c].cut
    /\ ms' = [ms EXCEPT !.faults = @ + 1]
    /\ conn' = [conn EXCEPT ![c].cut = TRUE, ![c].wire = <<>>, ![c].req = FALSE]
    /\ UNCHANGED <<rs, mix>>

-----------------------------------------------------------------------------
RInit(m) ==
    /\ mix = m
    /\ ms = [data |-> NoData, dirty |-> 0, slaves |-> <<>>, child |-> NoSave, orphan |-> FALSE, faults |-> 0,
             commands |-> 0, pinged |-> FALSE, purging |-> FALSE, down |-> FALSE]
    /\ conn = [c \in ConnId |-> Closed]
    /\ rs = [r \in Replica |-> [state |-> IF r \in mix.replicas THEN "connect" ELSE "none", host |-> r \in mix.replicas,
                                sock |-> 0, link |-> 0, data |-> NoData, sel |-> 0, dirty |-> 0, left |-> -1,
                                stray |-> FALSE]]
RNext ==
    \/ \E d \in Db : Write(d)
    \/ Bgsave \/ Ping \/ PurgeCommand \/ PurgeExit
    \/ \E ok, forked \in BOOLEAN : ChildDone(ok, forked)
    \/ \E c \in ConnId : \/ SendReply(c) \/ SendBulkToSlave(c) \/ FreeSlave(c) \/ SyncWithMaster(c)
                         \/ ReadSyncBulkPayload(c) \/ Lose(c)
                         \/ \E k \in 0 .. 2 : SendPart(c, k)
                         \/ \E forked \in BOOLEAN : SyncCommand(c, forked)
    \/ \E r \in Replica : \/ ConnectWithMaster(r) \/ ReadFromMaster(r) \/ Timeout(r)
                          \/ \E host \in BOOLEAN : Slaveof(r, host)

(* What no process does: stay for ever at a step that it can take.           *)
RFair ==
    /\ []<>(~ms.child.on \/ ~Serving)
    /\ \A c \in ConnId :
         /\ []<>(conn[c].h = "none" \/ ~Serving)
         /\ []<>(~conn[c].req \/ ~Serving)
         /\ []<>(conn[c].s # "connecting")
         /\ []<>(conn[c].s # "payload" \/ (conn[c].wire = <<>> /\ ~Eof(c)) \/ rs[conn[c].own].state = "crashed")
         /\ []<>(conn[c].m = "gone" \/ ~(conn[c].s = "closed" \/ conn[c].cut) \/ ~Serving)
    /\ \A r \in Replica :
         /\ []<>(rs[r].state # "connect" \/ ms.down)
         /\ []<>(rs[r].link = 0 \/ (conn[rs[r].link].wire = <<>> /\ ~Eof(rs[r].link) /\ ~conn[rs[r].link].stuck))
         /\ []<>~(rs[r].state = "transfer" /\ conn[rs[r].sock].stuck)
    /\ []<>~(ms.purging /\ CheckPurge)

-----------------------------------------------------------------------------
Catchup(x, items) == FoldLeft(Execute, x, items)
Base(c) ==
    LET r  == conn[c].own
        ch == SelectSeq(conn[c].wire, LAMBDA it : it.t = "chunk")
        x(d) == [rs[r] EXCEPT !.data = d, !.sel = 0]
    IN  IF ch # <<>> THEN x(ch[1].d)
        ELSE IF conn[c].m = "online" THEN rs[r]
        ELSE IF conn[c].m = "send_bulk" THEN x(conn[c].snap)
        ELSE x(ms.child.data)
Unsent(c) == IF conn[c].stuck THEN <<>> ELSE conn[c].buf \o conn[c].rep

(* Whatever the order of SYNCs, saves, writes and lost connections: what a   *)
(* registered slave has (the file that is being saved or sent, or its data)  *)
(* with the commands on the wire and in its output buffer on top is exactly  *)
(* the master's data, database by database; if its line is stuck it is a     *)
(* part of it.                                                               *)
SyncExact ==
    \A c \in Range(ms.slaves) :
      (conn[c].m # "wait_start" /\ ~conn[c].cut /\ conn[c].s \in {"payload", "master"} /\ ~conn[c].taint
         /\ ~ms.orphan /\ ~rs[conn[c].own].stray) =>
        LET got == Catchup(Base(c), conn[c].wire \o Unsent(c)).data
        IN  IF conn[c].stuck THEN \A d \in Db : got[d] <= ms.data[d] ELSE got = ms.data


(* A server that is told to follow a master gets there, whatever broke on    *)
(* the way, as long as the master serves.                                    *)
Linked ==
    \A r \in Replica :
      (rs[r].host /\ rs[r].state # "connected") ~>
        (rs[r].state = "connected" \/ ~rs[r].host \/ rs[r].stray \/ ms.orphan \/ ms.purging \/ ms.down)
=============================================================================
