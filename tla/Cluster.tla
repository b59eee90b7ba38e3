------------------------------ MODULE Cluster ------------------------------
(***************************************************************************)
(* Redis Cluster (cluster.c): servers that know each other by name, learn   *)
(* of others through MEET, PING, PONG and gossip, agree on failures, share  *)
(* the hash slots, keep all of this in a file, redirect clients, and move   *)
(* keys with MIGRATE and RESTORE.                                           *)
(*                                                                          *)
(* srv[n] is the process at address n.  Its entry srv[n].nodes[x] is the    *)
(* clusterNode called x; the link of an entry is the connection this server *)
(* opened, with the packets on their way out and the PONGs on their way     *)
(* back.  A name is <<a, i>>: i = 0 is the name of the server at a, i > 0   *)
(* the random name of a handshake with a, and <<a, -1>> the name the server *)
(* at a takes when it starts without its file.                              *)
(***************************************************************************)
EXTENDS Integers, Sequences, FiniteSets, Functions

CONSTANTS Node, NSlots, Key, SlotOf, NodeTimeout, MaxNow, MaxHs, Mixes

Slot == 0 .. NSlots - 1
Name == Node \X Int
NoName == <<"", 0>>
Value == [v : Int, exp : Int, packed : BOOLEAN]
NoKey == [v |-> 0, exp |-> 0, packed |-> FALSE]

\* What a mix of operations says: who starts with whom and with which slots and
\* key, and which operations are tried, how often.
Mix ==
  [timed : BOOLEAN, lose : BOOLEAN, timeouts : BOOLEAN, cmds : Int,
   known : SUBSET Node, silent : SUBSET Node, crons : SUBSET Node, about : SUBSET Node, crash : SUBSET Node,
   pings : SUBSET (Node \X Node), meets : SUBSET (Node \X Node), must : SUBSET (Node \X Node),
   slots : SUBSET (Node \X Slot),
   setslot : SUBSET (Node \X Slot \X {"migrating", "importing", "stable"} \X Name),
   keys : SUBSET Key, owner : [Slot -> Node], value : Value]

ASSUME NodeAssumption == "" \notin Node
ASSUME SlotAssumption == NSlots \in Nat \ {0} /\ SlotOf \in [Key -> Slot]
ASSUME BoundAssumption == MaxHs \in Nat
ASSUME MixAssumption == Mixes \subseteq Mix

VARIABLES
  srv,    \* the servers, and what each has in its file
  now,    \* time(NULL), the same on every host
  late,   \* RESTOREs whose MIGRATE gave up waiting
  last,   \* per key the value of the last write a client was told of
  broke,  \* some MIGRATE ended in a timeout after it had sent the key
  mix     \* the operations tried together

vars == <<srv, now, late, last, broke, mix>>

\* createClusterNode; slaveof and slaves are left out, as nothing but an
\* edited file ever sets them.
CreateClusterNode(flags, addr) ==
  [flags |-> flags, slots |-> {}, addr |-> addr, ping |-> 0, pong |-> 0,
   link |-> "none", out |-> <<>>, back |-> <<>>]

\* clusterAddNode
AddNode(s, x, e) ==
  [s EXCEPT !.nodes = [y \in DOMAIN @ \cup {x} |-> IF y = x THEN e ELSE @[y]]]

\* freeClusterNode: out of the table, and its link with it.
FreeClusterNode(s, x) ==
  [s EXCEPT !.nodes = [y \in DOMAIN @ \ {x} |-> @[y]]]

\* freeClusterLink
FreeClusterLink(s, x) ==
  [s EXCEPT !.nodes[x] = [@ EXCEPT !.link = "none", !.out = <<>>, !.back = <<>>]]

\* clusterRenameNode
RenameNode(s, x, y) == AddNode(FreeClusterNode(s, x), y, s.nodes[x])

FreeNames(s, a) == {<<a, i>> : i \in 1 .. MaxHs} \ DOMAIN s.nodes

\* A node with a random name, to be fixed by its first PONG.
AddHandshake(s, flags, a) ==
  AddNode(s, CHOOSE x \in FreeNames(s, a) : TRUE,
          CreateClusterNode({"handshake"} \cup flags, a))

(***************************************************************************)
(* Slots, state and file                                                    *)
(***************************************************************************)
\* clusterUpdateState
UpdateState(s) ==
  LET ok == \A j \in Slot : /\ s.owner[j] # NoName
                            /\ "fail" \notin s.nodes[s.owner[j]].flags
  IN [s EXCEPT !.state = IF ok THEN "ok" ELSE "fail"]

\* clusterAddSlot, on a slot whose bit is clear.
AddSlot(s, x, j) ==
  [s EXCEPT !.nodes[x].slots = @ \cup {j}, !.owner[j] = x]

\* clusterDelSlot asserts that the owner's bit was set.
DelSlot(s, j) ==
  LET x == s.owner[j]
  IN [s EXCEPT !.fault = @ \/ j \notin s.nodes[x].slots,
               !.nodes[x].slots = @ \ {j}, !.owner[j] = NoName]

\* The ranges written for a node: a range still open at the last slot is
\* closed there, whether the node serves the last slot or not.
WrittenSlots(S) ==
  S \cup (IF NSlots - 2 \in S THEN {NSlots - 1} ELSE {})

\* clusterGenNodesDescription: no word for MEET, and a slot both migrating and
\* importing is written as migrating.
GenNodesDescription(s) ==
  [name |-> s.name, mig |-> s.mig,
   imp |-> [j \in Slot |-> IF s.mig[j] # NoName THEN NoName ELSE s.imp[j]],
   nodes |-> [x \in DOMAIN s.nodes |->
                LET e == s.nodes[x]
                IN [flags |-> e.flags \ {"meet"}, addr |-> e.addr,
                    pinged |-> e.ping # 0, ponged |-> e.pong # 0,
                    slots |-> WrittenSlots(e.slots)]]]

\* clusterSaveConfig
SaveConfig(s) == [s EXCEPT !.file = GenNodesDescription(s)]

\* clusterLoadConfig.  A slot that two lines claim goes to the later line; the
\* lines have the order of a hash table, and line[x] is the place of x in it.
LoadConfig(s, line) ==
  LET f == s.file
      claims(x, j) == j \in f.nodes[x].slots
      wins(x, j) == claims(x, j) /\ \A y \in DOMAIN f.nodes \ {x} : claims(y, j) => line[y] < line[x]
  IN UpdateState([s EXCEPT
       !.name = f.name, !.mig = f.mig, !.imp = f.imp,
       !.owner = [j \in Slot |-> IF \E x \in DOMAIN f.nodes : wins(x, j)
                               THEN CHOOSE x \in DOMAIN f.nodes : wins(x, j) ELSE NoName],
       !.up = TRUE, !.state = "fail",
       !.clash = @ \cup {j \in Slot : \E x, y \in DOMAIN f.nodes : x # y /\ claims(x, j) /\ claims(y, j)},
       !.nodes = [x \in DOMAIN f.nodes |->
         LET e == f.nodes[x]
         IN [CreateClusterNode(e.flags, e.addr) EXCEPT
               !.slots = e.slots,
               !.ping = IF e.pinged THEN now ELSE 0,
               !.pong = IF e.ponged THEN now ELSE 0]]])

\* clusterInit without a file: alone under a new name, which is saved.
InitAlone(s, n) ==
  LET x == <<n, -1>>
  IN SaveConfig([s EXCEPT
       !.name = x, !.nodes = [y \in {x} |-> CreateClusterNode({"myself"}, n)],
       !.owner = [j \in Slot |-> NoName], !.mig = [j \in Slot |-> NoName],
       !.imp = [j \in Slot |-> NoName], !.state = "fail", !.up = TRUE])

(***************************************************************************)
(* Packets                                                                  *)
(***************************************************************************)
\* clusterSendMessage, on an entry that has a link: a broken link takes the
\* packet and loses it.
Send(e, m) == IF e.link = "up" THEN [e EXCEPT !.out = Append(@, m)] ELSE e

\* clusterBuildMessageHdr and the gossip section of clusterSendPing.  g is the
\* random choice: no node (draws spent on itself or on handshakes) or one.
BuildMessage(s, type, g) ==
  [type |-> type, from |-> s.name, slots |-> s.nodes[s.name].slots,
   about |-> g,
   gossip |-> IF g = NoName THEN {}
              ELSE LET e == s.nodes[g]
                   IN {[name |-> g, addr |-> e.addr, pong |-> e.pong,
                        fails |-> e.flags \cap {"fail", "pfail"} # {},
                        noaddr |-> "noaddr" \in e.flags]}]

\* dictSize(nodes) - 2 draws, so none at all with two nodes in the table; a mix
\* bounds whom the gossip is about.
Draws(s) ==
  {NoName} \cup
  (IF Cardinality(DOMAIN s.nodes) <= 2 THEN {}
   ELSE {x \in DOMAIN s.nodes : x[1] \in mix.about /\ s.nodes[x].flags \cap {"myself", "handshake"} = {}})

\* clusterSendPing on the link of entry x; only a PING sets ping_sent.
Pinged(e, m) == [Send(e, m) EXCEPT !.ping = IF m.type = "ping" THEN now ELSE @]
SendPing(s, x, type, g) ==
  [s EXCEPT !.nodes[x] = Pinged(@, BuildMessage(s, type, g))]

\* clusterSendFail through clusterBroadcastMessage
SendFail(s, x) ==
  LET m == [BuildMessage(s, "fail", NoName) EXCEPT !.about = x]
  IN [s EXCEPT !.nodes = [y \in DOMAIN @ |->
        IF @[y].flags \cap {"myself", "noaddr"} = {} THEN Send(@[y], m) ELSE @[y]]]

\* A node thought to be failing, confirmed by another: FAIL.
MarkFail(s, x) ==
  LET f == [s EXCEPT !.nodes[x].flags = (@ \ {"pfail"}) \cup {"fail"}]
  IN SaveConfig(UpdateState(SendFail(f, x)))

\* clusterProcessGossipSection for the one node it speaks of.
ProcessGossipSection(s, m, known) ==
  IF m.gossip = {} THEN s
  ELSE LET g == CHOOSE g \in m.gossip : TRUE
       IN IF g.name \in DOMAIN s.nodes
          THEN LET u == [s EXCEPT !.nodes[g.name].pong = IF @ < g.pong THEN g.pong ELSE @]
               IN IF "pfail" \in u.nodes[g.name].flags /\ g.fails
                  THEN MarkFail(u, g.name) ELSE u
          ELSE IF known /\ ~g.noaddr THEN AddHandshake(s, {}, g.addr) ELSE s

\* The handshakes a packet may start are bounded by MaxHs per address.
RoomFor(s, m, from) ==
  /\ \A g \in m.gossip : g.name \in DOMAIN s.nodes \/ FreeNames(s, g.addr) # {}
  /\ m.type = "meet" /\ m.from \notin DOMAIN s.nodes => FreeNames(s, from) # {}

\* A FAIL packet from a node that is known.
ProcessFailNoState(s, m) ==
  IF /\ {m.from, m.about} \subseteq DOMAIN s.nodes
     /\ s.nodes[m.about].flags \cap {"fail", "myself"} = {}
  THEN SaveConfig([s EXCEPT !.nodes[m.about].flags = (@ \ {"pfail"}) \cup {"fail"}])
  ELSE s
ProcessFail(s, m) ==
  IF /\ {m.from, m.about} \subseteq DOMAIN s.nodes
     /\ s.nodes[m.about].flags \cap {"fail", "myself"} = {}
  THEN SaveConfig(UpdateState(
         [s EXCEPT !.nodes[m.about].flags = (@ \ {"pfail"}) \cup {"fail"}]))
  ELSE s

ProcessPingForgets(s, m, a) == ProcessGossipSection(s, m, m.from \in DOMAIN s.nodes)

\* A PING or MEET that came from address a; the answer is sent by the caller.
ProcessPing(s, m, a) ==
  LET new == m.type = "meet" /\ m.from \notin DOMAIN s.nodes
      t == ProcessGossipSection(IF new THEN AddHandshake(s, {}, a) ELSE s,
                                m, m.from \in DOMAIN s.nodes)
  IN IF new THEN SaveConfig(t) ELSE t

\* The slots a PONG claims: the bits are copied, and free slots and those of
\* failed nodes change hands, but only when the bits differ from before.
ClaimSlots(s, x, S) ==
  LET won == {j \in S : /\ S # s.nodes[x].slots
                        /\ s.owner[j] # x
                        /\ \/ s.owner[j] = NoName
                           \/ "fail" \in s.nodes[s.owner[j]].flags}
      t == [s EXCEPT !.nodes[x].slots = S,
                     !.owner = [j \in Slot |-> IF j \in won THEN x ELSE @[j]]]
  IN [st |-> t, won |-> won # {}]

\* A node that answers under its name is no longer a handshake.
Answered(s, y) ==
  [s EXCEPT !.nodes[y].flags = @ \ {"handshake"}, !.nodes[y].pong = now]

\* A PONG on the link of entry x.
ProcessPong(s, x, m) ==
  LET known == m.from \in DOMAIN s.nodes
      hs == "handshake" \in s.nodes[x].flags
  IN IF hs /\ known   \* nodeUpdateAddress does nothing
     THEN FreeClusterNode(s, x)
     ELSE IF ~hs /\ x # m.from   \* another server lives at that address
     THEN FreeClusterLink([s EXCEPT !.nodes[x].flags = @ \cup {"noaddr"}], x)
     ELSE LET t0 == IF hs THEN RenameNode(s, x, m.from) ELSE s
              t1 == Answered(t0, m.from)
              c == IF known THEN ClaimSlots(t1, m.from, m.slots)
                   ELSE [st |-> t1, won |-> FALSE]
              t2 == ProcessGossipSection(c.st, m, TRUE)
              t3 == IF c.won THEN UpdateState(t2) ELSE t2
          IN IF hs \/ c.won THEN SaveConfig(t3) ELSE t3

(***************************************************************************)
(* The steps of a server                                                    *)
(***************************************************************************)
\* clusterProcessPacket of a packet that came from address a.
ProcessPacket(s, m, a) ==
  IF m.type = "fail" THEN ProcessFail(s, m) ELSE ProcessPing(s, m, a)

\* The packet is taken from the link, and its PONG put on the way back.
Taken(a, x) == [srv EXCEPT ![a].nodes[x].out = Tail(@)]
Replied(all, a, x, type, pong) ==
  IF type = "fail" THEN all ELSE [all EXCEPT ![a].nodes[x].back = Append(@, pong)]

\* clusterReadHandler at the other end of the link of entry x of server a.
ReadPing(a, x, g) ==
  LET e == srv[a].nodes[x]
      m == Head(e.out)
      t == ProcessPacket(Taken(a, x)[e.addr], m, a)
  IN /\ e.link = "up" /\ e.out # <<>>
     /\ RoomFor(srv[e.addr], m, a)
     /\ g \in IF m.type = "fail" THEN {NoName} ELSE Draws(t)
     /\ srv' = Replied([Taken(a, x) EXCEPT ![e.addr] = t], a, x, m.type, BuildMessage(t, "pong", g))
     /\ UNCHANGED <<now, late, last, broke, mix>>

\* clusterReadHandler on a link of its own: a PONG.
ReadPong(a, x) ==
  LET e == srv[a].nodes[x]
      s == [srv[a] EXCEPT !.nodes[x].back = Tail(@)]
  IN /\ e.link = "up" /\ e.back # <<>>
     /\ RoomFor(s, Head(e.back), a)
     /\ srv' = [srv EXCEPT ![a] = ProcessPong(s, x, Head(e.back))]
     /\ UNCHANGED <<now, late, last, broke, mix>>

\* handleLinkIOError: the read or the write on a broken link fails.
LinkError(a, x) ==
  /\ srv[a].nodes[x].link = "dead"
  /\ srv' = [srv EXCEPT ![a] = FreeClusterLink(@, x)]
  /\ UNCHANGED <<now, late, last, broke, mix>>

\* The first loop of clusterCron: a connection and a first packet for every
\* node that has none.  A connect to a server that is down fails later.
Reconnect(s, g) ==
  LET lost(e) == e.flags \cap {"myself", "noaddr"} = {} /\ e.link = "none"
      type(e) == IF "meet" \in e.flags THEN "meet" ELSE "ping"
      call(e) == [e EXCEPT !.link = IF srv[e.addr].up THEN "up" ELSE "dead",
                           !.flags = @ \ {"meet"}]
  IN [s EXCEPT !.nodes = [x \in DOMAIN @ |->
       IF lost(@[x]) THEN Pinged(call(@[x]), BuildMessage(s, type(@[x]), g)) ELSE @[x]]]

\* The last loop of clusterCron: a ping without an answer makes PFAIL after
\* node_timeout; before that PFAIL and FAIL are taken back.
FlagFailing(s) ==
  LET overdue(e) == /\ e.flags \cap {"myself", "noaddr", "handshake"} = {}
                    /\ e.ping # 0 /\ e.ping > e.pong
      soon(e) == now - e.pong < NodeTimeout
      flag(e) == IF ~overdue(e) THEN e.flags
                 ELSE IF soon(e) THEN e.flags \ {"pfail", "fail"}
                 ELSE IF "fail" \in e.flags THEN e.flags ELSE e.flags \cup {"pfail"}
      t == [s EXCEPT !.nodes = [x \in DOMAIN @ |-> [@[x] EXCEPT !.flags = flag(s.nodes[x])]]]
  IN IF \E x \in DOMAIN s.nodes : "fail" \in s.nodes[x].flags \ t.nodes[x].flags
     THEN UpdateState(t) ELSE t
\* clusterCron, once a second: g is the gossip of all its packets, p the node
\* that the five random draws chose to ping.  No second PING is queued behind
\* an unread one and a mix says who pings whom, bounds of the model.
Cron(n, p, g) ==
  LET s == [srv[n] EXCEPT !.cron = now]
      t == Reconnect(s, g)
      can == {x \in DOMAIN t.nodes :
                /\ t.nodes[x].link # "none" /\ t.nodes[x].out = <<>> /\ t.nodes[x].back = <<>>
                /\ <<n, x[1]>> \in mix.pings
                /\ t.nodes[x].flags \cap {"myself", "handshake"} = {}}
      u == FlagFailing(IF p = NoName THEN t ELSE SendPing(t, p, "ping", g))
  IN /\ s.up /\ n \in mix.crons /\ (mix.timed => srv[n].cron < now)
     /\ g \in Draws(s)
     /\ p \in can \cup {NoName}
     /\ u # srv[n]
     /\ srv' = [srv EXCEPT ![n] = u]
     /\ UNCHANGED <<now, late, last, broke, mix>>

\* A second passes.
Tick ==
  /\ mix.timed /\ now < MaxNow
  /\ now' = now + 1
  /\ UNCHANGED <<srv, late, last, broke, mix>>

\* A crash: the links of the process are gone, those to it break.
Crash(n) ==
  /\ n \in mix.crash /\ srv[n].up
  /\ srv' = [a \in Node |->
       IF a = n THEN [srv[n] EXCEPT !.up = FALSE, !.nodes = [x \in {} |-> @[x]]]
       ELSE [srv[a] EXCEPT !.nodes = [x \in DOMAIN @ |->
              IF @[x].link = "up" /\ @[x].addr = n
              THEN [@[x] EXCEPT !.link = "dead", !.out = <<>>, !.back = <<>>]
              ELSE @[x]]]]
  /\ mix' = [mix EXCEPT !.crash = @ \ {n}]
  /\ UNCHANGED <<now, late, last, broke>>

\* clusterInit with the file the server had
Restart(n) ==
  /\ ~srv[n].up
  /\ \E line \in LET names == DOMAIN srv[n].file.nodes IN Injection(names, 1 .. Cardinality(names)) :
       srv' = [srv EXCEPT ![n] = LoadConfig(@, line)]
  /\ UNCHANGED <<now, late, last, broke, mix>>

\* clusterInit after the file was lost
RestartAlone(n) ==
  /\ ~srv[n].up /\ mix.lose
  /\ srv' = [srv EXCEPT ![n] = InitAlone(@, n)]
  /\ UNCHANGED <<now, late, last, broke, mix>>

(***************************************************************************)
(* CLUSTER commands                                                         *)
(***************************************************************************)
Meet(n, a) ==
  /\ srv[n].up /\ <<n, a>> \in mix.meets
  /\ FreeNames(srv[n], a) # {}
  /\ srv' = [srv EXCEPT ![n] = AddHandshake(@, {"meet"}, a)]
  /\ mix' = [mix EXCEPT !.meets = @ \ {<<n, a>>}]
  /\ UNCHANGED <<now, late, last, broke>>

\* ADDSLOTS and DELSLOTS of one slot; a slot that is busy (or, for DELSLOTS,
\* free) is refused and nothing changes.  mix.cmds bounds their number.
AddSlots(n, j) ==
  LET s == [srv[n] EXCEPT !.imp[j] = NoName]
  IN /\ srv[n].up /\ mix.cmds > 0 /\ <<n, j>> \in mix.slots /\ srv[n].owner[j] = NoName
     /\ srv' = [srv EXCEPT ![n] = SaveConfig(UpdateState(AddSlot(s, s.name, j)))]
     /\ mix' = [mix EXCEPT !.cmds = @ - 1]
     /\ UNCHANGED <<now, late, last, broke>>
DelSlots(n, j) ==
  LET s == [srv[n] EXCEPT !.imp[j] = NoName]
  IN /\ srv[n].up /\ mix.cmds > 0 /\ <<n, j>> \in mix.slots /\ srv[n].owner[j] # NoName
     /\ srv' = [srv EXCEPT ![n] = SaveConfig(UpdateState(DelSlot(s, j)))]
     /\ mix' = [mix EXCEPT !.cmds = @ - 1]
     /\ UNCHANGED <<now, late, last, broke>>

\* SETSLOT MIGRATING, IMPORTING, STABLE.  SETSLOT NODE never passes: it is
\* compared with four arguments and has five.
SetSlot(n, j, what, x) ==
  LET s == srv[n]
  IN /\ s.up
     /\ what # "stable" => x \in DOMAIN s.nodes
     /\ what = "migrating" => s.owner[j] = s.name
     /\ what = "importing" => s.owner[j] # s.name
     /\ srv' = [srv EXCEPT ![n] = SaveConfig(
          [s EXCEPT !.mig[j] = CASE what = "migrating" -> x [] what = "stable" -> NoName [] OTHER -> @,
                    !.imp[j] = CASE what = "importing" -> x [] what = "stable" -> NoName [] OTHER -> @])]
     /\ UNCHANGED <<now, late, last, broke, mix>>

(***************************************************************************)
(* Clients and keys                                                         *)
(***************************************************************************)
GetNodeByQueryNoAsk(s, k) ==
  [name |-> IF s.imp[SlotOf[k]] # NoName THEN s.name ELSE s.owner[SlotOf[k]], ask |-> FALSE]

\* getNodeByQuery for a command on one key: who shall serve it.
GetNodeByQuery(s, k) ==
  LET j == SlotOf[k]
  IN IF s.owner[j] = s.name /\ s.mig[j] # NoName /\ s.keys[k] = NoKey
     THEN [name |-> s.mig[j], ask |-> TRUE]
     ELSE [name |-> IF s.imp[j] # NoName THEN s.name ELSE s.owner[j], ask |-> FALSE]

\* processCommand refuses while the cluster is down.
Serves(s, k) == s.up /\ s.state = "ok" /\ GetNodeByQuery(s, k).name = s.name

\* Where a client that asks the owner first ends up: there, or where ASK sends it.
Owners(k) == {n \in Node : srv[n].up /\ srv[n].owner[SlotOf[k]] = srv[n].name}
Reached(n, k) ==
  LET q == GetNodeByQuery(srv[n], k)
  IN IF ~q.ask THEN n ELSE srv[n].nodes[q.name].addr

\* SET and DEL of a client that follows the redirections.
Write(n, k, v) ==
  LET t == Reached(n, k)
  IN /\ k \in mix.keys /\ n \in Owners(k) /\ srv[n].state = "ok"
     /\ Serves(srv[t], k)
     /\ srv' = [srv EXCEPT ![t].keys[k] = IF v = 0 THEN NoKey
                                          ELSE [v |-> v, exp |-> 0, packed |-> FALSE]]
     /\ last' = [last EXCEPT ![k] = v]
     /\ UNCHANGED <<now, late, broke, mix>>

\* restoreCommand behind processCommand.  The type byte MIGRATE sends does not
\* say that a value is packed, and such a payload is refused.
RestoreOk(t, k, o) == Serves(t, k) /\ t.keys[k] = NoKey /\ ~o.packed
Restore(t, k, o) == [t EXCEPT !.keys[k] = o]

\* migrateCommand between SELECT/RESTORE and their answer: the target gets the
\* time of expiry and adds its own clock to it.  "answer" is the whole
\* exchange; in "silence" the source gives up and the request is still on its
\* way.  The operator migrates keys to the node the slot is MIGRATING to, as the
\* procedure has it: the code does not ask for it.
Migrate(n, k, t, how) ==
  LET s == srv[n]
      o == [s.keys[k] EXCEPT !.exp = IF @ = 0 THEN 0 ELSE now + @]
  IN /\ k \in mix.keys /\ n # t /\ s.up /\ srv[t].up
     /\ Serves(s, k) /\ s.keys[k] # NoKey
     /\ s.mig[SlotOf[k]] = <<t, 0>>
     /\ \/ /\ how = "answer" /\ RestoreOk(srv[t], k, o)
           /\ srv' = [srv EXCEPT ![t] = Restore(@, k, o), ![n].keys[k] = NoKey]
           /\ UNCHANGED <<late, broke>>
        \/ /\ how = "silence" /\ mix.timeouts /\ late = {}
           /\ late' = {<<t, k, o>>} /\ broke' = TRUE
           /\ UNCHANGED srv
     /\ UNCHANGED <<now, last, mix>>
\* The target reads a RESTORE nobody waits for, or the connection loses it.
RestoreLate(r) ==
  /\ late' = late \ {r}
  /\ \/ /\ RestoreOk(srv[r[1]], r[2], r[3])
        /\ srv' = [srv EXCEPT ![r[1]] = Restore(@, r[2], r[3])]
     \/ UNCHANGED srv
  /\ UNCHANGED <<now, last, broke, mix>>

(***************************************************************************)
(* The specification                                                        *)
(***************************************************************************)
Owned(n) == {j \in Slot : mix.owner[j] = n}

\* A server that knows the nodes of its mix and is connected to them, in its
\* third second; the silent ones have not answered since the first.
Start(n) ==
  LET known == {a \in Node : a = n \/ (n \in mix.known /\ a \in mix.known)}
      base == [name |-> <<n, 0>>, up |-> TRUE, fault |-> FALSE, clash |-> {}, cron |-> 2, file |-> <<>>,
               state |-> "fail",
               owner |-> [j \in Slot |-> IF mix.owner[j] \in known THEN <<mix.owner[j], 0>> ELSE NoName],
               mig |-> [j \in Slot |-> NoName], imp |-> [j \in Slot |-> NoName],
               nodes |-> [x \in {<<a, 0>> : a \in known} |->
                 [CreateClusterNode(IF x[1] = n THEN {"myself"} ELSE {}, x[1])
                    EXCEPT !.slots = Owned(x[1]),
                           !.link = IF x[1] # n THEN "up" ELSE "none",
                           !.ping = IF x[1] \in mix.silent THEN 2 ELSE 0,
                           !.pong = IF x[1] \in mix.silent THEN 1 ELSE IF x[1] = n THEN 0 ELSE 3]],
               keys |-> [k \in Key |-> IF mix.owner[SlotOf[k]] = n THEN mix.value ELSE NoKey]]
  IN SaveConfig(UpdateState(base))

Init ==
  /\ mix \in Mixes
  /\ now = 3
  /\ srv = [n \in Node |-> Start(n)]
  /\ late = {} /\ broke = FALSE
  /\ last = [k \in Key |-> mix.value.v]

Entries(n) == DOMAIN srv[n].nodes

Next ==
  \/ \E a \in Node : \E x \in Entries(a) : \/ ReadPong(a, x) \/ LinkError(a, x)
  \/ \E a \in Node : \E x \in Entries(a) :
       srv[a].nodes[x].out # <<>> /\
       \E g \in {NoName} \cup Entries(srv[a].nodes[x].addr) : ReadPing(a, x, g)
  \/ \E n \in Node : \E p, g \in {NoName} \cup Entries(n) : Cron(n, p, g)
  \/ Tick
  \/ \E n \in Node : Crash(n) \/ Restart(n) \/ RestartAlone(n)
  \/ \E n, a \in Node : Meet(n, a)
  \/ \E n \in Node, j \in Slot : AddSlots(n, j) \/ DelSlots(n, j)
  \/ \E c \in mix.setslot : SetSlot(c[1], c[2], c[3], c[4])
  \/ \E n \in Node, k \in Key, v \in 0 .. 2 : Write(n, k, v)
  \/ \E n, t \in Node, k \in Key, how \in {"answer", "silence"} : Migrate(n, k, t, how)
  \/ \E r \in late : RestoreLate(r)

\* The cron timer of every server runs, so that no node stays without a link,
\* and the event loops read what has arrived.
Connected == \A n \in Node : \A x \in Entries(n) :
  srv[n].nodes[x].flags \cap {"myself", "noaddr"} = {} => srv[n].nodes[x].link # "none"
PingsRead == \A n \in Node : \A x \in Entries(n) : srv[n].nodes[x].out = <<>>
PongsRead == \A n \in Node : \A x \in Entries(n) : srv[n].nodes[x].back = <<>>
Fairness == []<>Connected /\ []<>PingsRead /\ []<>PongsRead

Spec == Init /\ [][Next]_vars /\ Fairness

(***************************************************************************)
(* Properties                                                               *)
(***************************************************************************)
\* What a server says of the cluster is what its tables say: it serves clients
\* (state "ok") exactly when every slot has an owner that is not marked FAIL,
\* so that getNodeByQuery's assertion holds, wherever the flags changed -- by
\* cron, gossip, a FAIL packet, a PONG or a restart.
StateExact ==
  \A n \in Node : srv[n].up => srv[n].state = UpdateState(srv[n]).state

\* The slots it announces in its packets are the slots it serves: the bits of
\* myself and server.cluster.slots[] never part, whatever the others claim,
\* except on a slot that two lines of the file claimed at a restart.
OwnBits ==
  \A n \in Node : srv[n].up =>
    \A j \in Slot \ srv[n].clash :
      j \in srv[n].nodes[srv[n].name].slots <=> srv[n].owner[j] = srv[n].name

\* A handshake ends: a server is in the table of another under its real name
\* at most once, and never still as a handshake under that name.
NamesExact ==
  \A n \in Node : srv[n].up =>
    \A x \in DOMAIN srv[n].nodes :
      LET e == srv[n].nodes[x]
      IN /\ "handshake" \in e.flags <=> x[2] > 0
         /\ e.addr = x[1]
         /\ "myself" \in e.flags <=> x = srv[n].name

\* The three together: what a server believes of the cluster fits together.
ClusterSound == StateExact /\ OwnBits /\ NamesExact

\* Keys that move are found.  While a slot is migrated, a client that asks the
\* owner and follows ASK reads the last value written, even if a MIGRATE timed
\* out; a key that was deleted stays away unless one did (getNodeByQuery,
\* migrateCommand, restoreCommand).
RouteExact ==
  \A k \in Key : \A n \in Owners(k) :
    LET v == srv[Reached(n, k)].keys[k].v
    IN (last[k] # 0 \/ ~broke) => v = last[k]

\* CLUSTER MEET makes two servers know each other under their real names when
\* no link breaks: the MEET, the handshake it starts at the other end and the
\* PONGs that end both (clusterCron, clusterProcessPacket).
Met ==
  \A n, a \in Node :
    (<<n, a>> \in mix.must \ mix.meets) ~> [](<<a, 0>> \in Entries(n) /\ <<n, 0>> \in Entries(a))
=============================================================================
