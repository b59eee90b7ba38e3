--------------------------- MODULE ClusterProofs ---------------------------
(***************************************************************************)
(* Every other step of every server keeps the invariant ClusterInv of       *)
(* ClusterTableProofs, one lemma for each handler and command, and the      *)
(* invariant says that what a server believes fits together (ClusterSound). *)
(* The steps of the network also leave the slots and the keys of every      *)
(* server alone (Calm), from which follows that keys that move are found    *)
(* (RouteExact) when slots are moved by the procedure stated below.         *)
(***************************************************************************)
EXTENDS ClusterTableProofs

\* handleLinkIOError
LEMMA LinkErrorKeeps ==
  ASSUME ClusterInv, NEW a \in Node, NEW x \in Entries(a), LinkError(a, x)
  PROVE  ClusterInv' /\ Calm
<1>1. x \in DOMAIN srv[a].nodes /\ srv[a].up /\ Good(srv[a], a, Alive)
  BY InvFacts DEF Entries
<1>2. PICK s : s = srv[a]
  BY Zenon
<1>3. PICK d, e : d = s.nodes[x] /\ e = [d EXCEPT !.link = "none", !.out = <<>>, !.back = <<>>]
  BY Zenon
<1>4. Sound(d, x, s.name, Alive) /\ d \in Entry
  BY <1>1, <1>2, <1>3, EntryOf DEF Good, Sound
<1>5. /\ e \in Entry /\ e.flags = d.flags /\ e.slots = d.slots /\ e.addr = d.addr
      /\ e.link = "none" /\ e.back = <<>>
  <2>1. <<>> \in Seq(Message)
    OBVIOUS
  <2> QED BY <1>3, <1>4, <2>1 DEF Entry
<1>6. Sound(e, x, s.name, Alive)
  BY <1>4, <1>5 DEF Sound, Fits, LinkSound
<1>7. PICK t : t = [s EXCEPT !.nodes = [@ EXCEPT ![x] = e]]
  BY Zenon
<1>8. Good(t, a, Alive) /\ Kept(srv[a], t)
  <2>1. e.slots = s.nodes[x].slots /\ ("fail" \in e.flags <=> "fail" \in s.nodes[x].flags)
    BY <1>3, <1>5
  <2> QED BY <1>1, <1>2, <1>6, <1>7, <2>1, SetEntry DEF Good
<1>9. srv' = [srv EXCEPT ![a] = t] /\ Rest
  BY <1>2, <1>3, <1>7 DEF LinkError, FreeClusterLink, ClusterInv, Rest
<1> QED BY <1>1, <1>8, <1>9, OneStep

LEMMA CronKeeps ==
  ASSUME ClusterInv, NEW n \in Node, NEW p, NEW g, Cron(n, p, g)
  PROVE  ClusterInv' /\ Calm
<1>1. PICK s : s = [srv[n] EXCEPT !.cron = now]
  BY Zenon
<1>2. PICK t : t = Reconnect(s, g)
  BY Zenon
<1>3. PICK v : v = IF p = NoName THEN t ELSE SendPing(t, p, "ping", g)
  BY Zenon
<1>4. PICK u : u = FlagFailing(v)
  BY Zenon
<1>5. s.up /\ g \in Draws(s) /\ (p = NoName \/ p \in DOMAIN t.nodes)
  BY <1>1, <1>2 DEF Cron
<1>6. srv' = [srv EXCEPT ![n] = u] /\ Rest
  BY <1>1, <1>2, <1>3, <1>4 DEF Cron, ClusterInv, Rest
<1>7. now \in Int /\ srv[n] \in Server
  BY InvFacts DEF ClusterInv
<1>8. s \in Server /\ Minor(srv[n], s)
  BY <1>1, <1>7 DEF Server, Minor
<1>9. srv[n].up /\ Good(srv[n], n, Alive)
  BY <1>5, <1>8, InvFacts DEF Minor
<1>10. Good(s, n, Alive) /\ Kept(srv[n], s)
  <2>1. Kept(srv[n], s)
    BY <1>1, <1>7 DEF Server, Kept
  <2> QED BY <1>8, <1>9, <2>1, MinorKeeps DEF Good
<1>11. g \in (DOMAIN s.nodes \cap RealName) \cup {NoName}
  <2>1. g = NoName \/ (g \in DOMAIN s.nodes /\ s.nodes[g].flags \cap {"myself", "handshake"} = {})
    BY <1>5 DEF Draws
  <2>2. ASSUME g \in DOMAIN s.nodes, s.nodes[g].flags \cap {"myself", "handshake"} = {}
        PROVE  g \in RealName
    <3>1. Fits(s.nodes[g], g, s.name) /\ g \in Name
      BY <1>10, <2>2, EntryOf DEF Good, Sound
    <3> QED BY <2>2, <3>1 DEF Fits, RealName, Name
  <2> QED BY <2>1, <2>2
<1>12. Good(t, n, Alive) /\ Kept(s, t) /\ DOMAIN t.nodes = DOMAIN s.nodes
  BY <1>2, <1>7, <1>10, <1>11, ReconnectKeeps
<1>13. Good(v, n, Alive) /\ (v = t \/ Kept(t, v))
  <2>1. CASE p = NoName
    BY <1>3, <1>12, <2>1
  <2>2. CASE p # NoName
    <3>1. v = SendPing(t, p, "ping", g) /\ p \in DOMAIN t.nodes
      BY <1>3, <1>5, <2>2
    <3>2. g \in (DOMAIN t.nodes \cap RealName) \cup {NoName}
      BY <1>11, <1>12
    <3> QED BY <1>7, <1>12, <3>1, <3>2, SendPingKeeps
  <2> QED BY <2>1, <2>2
<1>14. Good(u, n, Alive) /\ Kept(v, u)
  BY <1>4, <1>13, FlagFailingKeeps
<1>15. Kept(srv[n], u)
  <2>1. Kept(srv[n], t)
    BY <1>10, <1>12, KeptOn
  <2>2. Kept(srv[n], v)
    BY <1>13, <2>1, KeptOn
  <2> QED BY <1>14, <2>2, KeptOn
<1> QED BY <1>6, <1>9, <1>14, <1>15, OneStep

\* A crash breaks the links to the server, and only those.
LEMMA CrashKeeps ==
  ASSUME ClusterInv, NEW n \in Node, Crash(n)
  PROVE  ClusterInv'
<1> DEFINE cut(e) == IF e.link = "up" /\ e.addr = n
                     THEN [e EXCEPT !.link = "dead", !.out = <<>>, !.back = <<>>] ELSE e
           none == [x \in {} |-> srv[n].nodes[x]]
           left == Alive \ {n}
<1>1. /\ srv[n].up /\ srv' = [c \in Node |-> srv'[c]]
      /\ srv'[n] = [srv[n] EXCEPT !.up = FALSE, !.nodes = none]
      /\ \A c \in Node \ {n} : srv'[c] = [srv[c] EXCEPT !.nodes = [x \in DOMAIN srv[c].nodes |-> cut(srv[c].nodes[x])]]
  BY DEF Crash
<1>2. Rest
  <2>1. mix' = [mix EXCEPT !.crash = mix.crash \ {n}] /\ now' = now /\ late' = late
    BY DEF Crash
  <2>2. mix' \in Mix
    BY <2>1 DEF ClusterInv, Mix
  <2> QED BY <2>1, <2>2 DEF ClusterInv, Rest
<1>3. Stopped(srv'[n], n)
  <2>1. none \in Table(Entry) /\ DOMAIN none = {}
    <3>1. none \in [{} -> Entry]
      OBVIOUS
    <3> QED BY <3>1, TableIntro
  <2>2. srv[n] \in Server /\ FileSound(srv[n].file, n)
    BY InvFacts
  <2>3. PICK s, N, t : s = srv[n] /\ N = none /\ t = [s EXCEPT !.up = FALSE, !.nodes = N]
    BY Zenon
  <2>4. srv'[n] = t /\ s \in Server /\ N \in Table(Entry) /\ DOMAIN N = {} /\ FileSound(s.file, n)
    BY <1>1, <2>1, <2>2, <2>3
  <2>5. t \in Server /\ ~t.up /\ t.nodes = N /\ t.file = s.file
    BY <2>3, <2>4 DEF Server
  <2> QED BY <2>4, <2>5 DEF Stopped
<1>4. ASSUME NEW c \in Node \ {n}, srv[c].up PROVE Good(srv'[c], c, left)
  <2>1. PICK s : s = srv[c]
    BY Zenon
  <2>2. Good(s, c, Alive)
    BY <1>4, <2>1, InvFacts
  <2> DEFINE N == [x \in DOMAIN s.nodes |-> cut(s.nodes[x])]
  <2>3. ASSUME NEW x \in DOMAIN s.nodes
        PROVE  /\ Sound(N[x], x, s.name, left) /\ N[x].slots = s.nodes[x].slots
               /\ N[x].flags = s.nodes[x].flags
    <3>1. PICK d, e : d = s.nodes[x] /\ e = cut(d)
      BY Zenon
    <3>2. Sound(d, x, s.name, Alive) /\ d \in Entry
      BY <2>2, <3>1, EntryOf DEF Good, Sound
    <3>3. CASE ~(d.link = "up" /\ d.addr = n)
      <4>1. N[x] = d
        BY <3>1, <3>3
      <4>2. Sound(d, x, s.name, left)
        BY <3>2, <3>3 DEF Sound, LinkSound
      <4> HIDE DEF N
      <4> QED BY <3>1, <4>1, <4>2
    <3>4. CASE d.link = "up" /\ d.addr = n
      <4>1. e = [d EXCEPT !.link = "dead", !.out = <<>>, !.back = <<>>]
        BY <3>1, <3>4
      <4>2. /\ e \in Entry /\ e.flags = d.flags /\ e.slots = d.slots /\ e.addr = d.addr
            /\ e.link = "dead" /\ e.back = <<>>
        <5>1. <<>> \in Seq(Message)
          OBVIOUS
        <5> QED BY <3>2, <4>1, <5>1 DEF Entry
      <4>3. Sound(e, x, s.name, left)
        BY <3>2, <3>4, <4>2 DEF Sound, Fits, LinkSound
      <4>4. N[x] = e
        BY <3>1
      <4> HIDE DEF N
      <4> QED BY <3>1, <4>2, <4>3, <4>4
    <3> QED BY <3>3, <3>4
  <2>4. N = [x \in DOMAIN s.nodes |-> N[x]] /\ srv'[c] = [s EXCEPT !.nodes = N]
    BY <1>1, <2>1
  <2> HIDE DEF N, left
  <2>5. PICK t : t = [s EXCEPT !.nodes = N]
    BY Zenon
  <2>6. Running(t, c, left) /\ Exact(t)
    BY <2>2, <2>3, <2>4, <2>5, EntriesKeep DEF Good
  <2> QED BY <2>4, <2>5, <2>6 DEF Good
<1>5. ASSUME NEW c \in Node \ {n}, ~srv[c].up PROVE Stopped(srv'[c], c)
  <2>1. PICK s : s = srv[c]
    BY Zenon
  <2>2. Stopped(s, c)
    BY <1>5, <2>1, InvFacts
  <2> DEFINE N == [x \in DOMAIN s.nodes |-> cut(s.nodes[x])]
  <2> HIDE DEF cut, none
  <2>3. srv'[c] = [s EXCEPT !.nodes = N]
    BY <1>1, <2>1
  <2>4. N \in Table(Entry) /\ DOMAIN N = {}
    <3>1. DOMAIN s.nodes = {}
      BY <2>2 DEF Stopped
    <3>2. N \in [{} -> Entry]
      BY <3>1
    <3> QED BY <3>2, TableIntro
  <2> HIDE DEF N
  <2>5. PICK t : t = [s EXCEPT !.nodes = N]
    BY Zenon
  <2>6. t \in Server /\ t.nodes = N /\ t.up = s.up /\ t.file = s.file
    BY <2>2, <2>4, <2>5, SetNodes DEF Stopped
  <2> QED BY <2>2, <2>3, <2>4, <2>5, <2>6 DEF Stopped
<1> HIDE DEF none, cut
<1>6. Alive' = left
  <2>1. \A c \in Node : srv'[c].up <=> c \in left
    BY <1>3, <1>4, <1>5 DEF Stopped, Good, Running, Alive
  <2> QED BY <2>1 DEF Alive
<1>7. ASSUME NEW c \in Node
      PROVE  IF srv'[c].up THEN Running(srv'[c], c, Alive') /\ Exact(srv'[c]) ELSE Stopped(srv'[c], c)
  <2> HIDE DEF left
  <2> QED BY <1>3, <1>4, <1>5, <1>6 DEF Good, Stopped, Running
<1>8. \A c \in Node : srv'[c] \in Server
  BY <1>7 DEF Running, Stopped
<1>9. srv' \in [Node -> Server]
  BY <1>1, <1>8
<1> QED BY <1>2, <1>7, <1>9 DEF ClusterInv, Rest

LEMMA RestartsKeep ==
  ASSUME ClusterInv, NEW n \in Node, Restart(n) \/ RestartAlone(n)
  PROVE  ClusterInv'
<1>1. ~srv[n].up /\ Rest /\ srv[n] \in Server /\ FileSound(srv[n].file, n) /\ now \in Int
  BY InvFacts DEF Restart, RestartAlone, ClusterInv, Rest
<1>2. CASE Restart(n)
  <2>1. PICK line : srv' = [srv EXCEPT ![n] = LoadConfig(srv[n], line)]
    BY <1>2 DEF Restart
  <2> QED BY <1>1, <2>1, LoadConfigKeeps, StartStep
<1>3. CASE RestartAlone(n)
  <2>1. srv' = [srv EXCEPT ![n] = InitAlone(srv[n], n)]
    BY <1>3 DEF RestartAlone
  <2> QED BY <1>1, <2>1, InitAloneKeeps, StartStep
<1> QED BY <1>2, <1>3

LEMMA MeetKeeps ==
  ASSUME ClusterInv, NEW n \in Node, NEW a \in Node, Meet(n, a)
  PROVE  ClusterInv' /\ Calm
<1>1. srv[n].up /\ FreeNames(srv[n], a) # {} /\ srv' = [srv EXCEPT ![n] = AddHandshake(srv[n], {"meet"}, a)]
  BY DEF Meet
<1>2. Rest
  <2>1. mix' = [mix EXCEPT !.meets = mix.meets \ {<<n, a>>}] /\ now' = now /\ late' = late
    BY DEF Meet
  <2>2. mix' \in Mix
    BY <2>1 DEF ClusterInv, Mix
  <2> QED BY <2>1, <2>2 DEF ClusterInv, Rest
<1>3. PICK t : t = AddHandshake(srv[n], {"meet"}, a)
  BY Zenon
<1>4. PICK F : F = {"meet"}
  BY Zenon
<1>5. F \subseteq {"meet"} /\ t = AddHandshake(srv[n], F, a)
  BY <1>3, <1>4
<1>6. Good(t, n, Alive) /\ Kept(srv[n], t)
  BY <1>1, <1>5, InvFacts, AddHandshakeKeeps DEF Good, Grown
<1> QED BY <1>1, <1>2, <1>3, <1>6, OneStep

LEMMA SlotsKeep ==
  ASSUME ClusterInv, NEW n \in Node, NEW j \in Slot, AddSlots(n, j) \/ DelSlots(n, j)
  PROVE  ClusterInv'
<1>1. srv[n].up /\ Good(srv[n], n, Alive)
  BY InvFacts DEF AddSlots, DelSlots
<1>2. Rest
  <2>1. mix' = [mix EXCEPT !.cmds = mix.cmds - 1] /\ now' = now /\ late' = late
    BY DEF AddSlots, DelSlots
  <2>2. mix' \in Mix
    <3>1. mix \in Mix
      BY DEF ClusterInv
    <3>2. mix.cmds - 1 \in Int
      BY <3>1 DEF Mix
    <3> QED BY <2>1, <3>1, <3>2 DEF Mix
  <2> QED BY <2>1, <2>2 DEF ClusterInv, Rest
<1>3. PICK s : s = [srv[n] EXCEPT !.imp[j] = NoName]
  BY Zenon
<1>4. CASE AddSlots(n, j)
  <2>1. PICK t : t = SaveConfig(UpdateState(AddSlot(s, s.name, j)))
    BY Zenon
  <2>2. srv[n].owner[j] = NoName /\ srv' = [srv EXCEPT ![n] = t]
    BY <1>3, <1>4, <2>1 DEF AddSlots
  <2>3. Good(t, n, Alive)
    BY <1>1, <1>3, <2>1, <2>2, SlotCommandsKeep
  <2> QED BY <1>1, <1>2, <2>2, <2>3, OneStep
<1>5. CASE DelSlots(n, j)
  <2>1. PICK t : t = SaveConfig(UpdateState(DelSlot(s, j)))
    BY Zenon
  <2>2. srv[n].owner[j] # NoName /\ srv' = [srv EXCEPT ![n] = t]
    BY <1>3, <1>5, <2>1 DEF DelSlots
  <2>3. Good(t, n, Alive)
    BY <1>1, <1>3, <2>1, <2>2, SlotCommandsKeep
  <2> QED BY <1>1, <1>2, <2>2, <2>3, OneStep
<1> QED BY <1>4, <1>5

LEMMA SetSlotKeeps ==
  ASSUME ClusterInv, NEW n \in Node, NEW j \in Slot, NEW what \in {"migrating", "importing", "stable"},
         NEW x \in Name, SetSlot(n, j, what, x)
  PROVE  ClusterInv'
<1>1. srv[n].up /\ Good(srv[n], n, Alive) /\ Rest
  BY InvFacts DEF SetSlot, ClusterInv, Rest
<1>2. PICK s : s = srv[n]
  BY Zenon
<1>3. s \in Server /\ s.mig \in [Slot -> MaybeName] /\ s.imp \in [Slot -> MaybeName]
  BY <1>1, <1>2, ServerFields DEF Good, Running
<1>4. PICK M : M = CASE what = "migrating" -> x [] what = "stable" -> NoName [] OTHER -> s.mig[j]
  BY Zenon
<1>5. PICK I : I = CASE what = "importing" -> x [] what = "stable" -> NoName [] OTHER -> s.imp[j]
  BY Zenon
<1>6. M \in MaybeName /\ I \in MaybeName
  BY <1>3, <1>4, <1>5 DEF MaybeName
<1>7. PICK u : u = [s EXCEPT !.mig[j] = M, !.imp[j] = I]
  BY Zenon
<1>8. srv' = [srv EXCEPT ![n] = SaveConfig(u)]
  <2>1. [s EXCEPT !.mig[j] = M].imp[j] = s.imp[j]
    BY <1>3 DEF Server
  <2> QED BY <1>2, <1>4, <1>5, <1>7, <2>1 DEF SetSlot
<1>9. u \in Server /\ Minor(s, u)
  BY <1>3, <1>6, <1>7 DEF Server, Minor
<1>10. Running(u, n, Alive) /\ Exact(u)
  BY <1>1, <1>2, <1>9, MinorKeeps DEF Good
<1>11. PICK t : t = SaveConfig(u)
  BY Zenon
<1>12. Good(t, n, Alive)
  BY <1>10, <1>11, SaveConfigKeeps DEF Good
<1> QED BY <1>1, <1>8, <1>11, <1>12, OneStep

\* A key is written.
LEMMA KeyKeeps ==
  ASSUME NEW s, NEW n, NEW alive, Good(s, n, alive), NEW k \in Key, NEW o \in Value
  PROVE  Good([s EXCEPT !.keys[k] = o], n, alive)
<1>1. PICK t : t = [s EXCEPT !.keys[k] = o]
  BY Zenon
<1>2. s \in Server /\ s.keys \in [Key -> Value]
  BY ServerFields DEF Good, Running
<1>3. t \in Server /\ Minor(s, t)
  BY <1>1, <1>2 DEF Server, Minor
<1> QED BY <1>1, <1>3, MinorKeeps DEF Good

LEMMA WriteKeeps ==
  ASSUME ClusterInv, NEW n \in Node, NEW k \in Key, NEW v \in 0 .. 2, Write(n, k, v)
  PROVE  ClusterInv'
<1>1. PICK t, o : t = Reached(n, k) /\ o = IF v = 0 THEN NoKey ELSE [v |-> v, exp |-> 0, packed |-> FALSE]
  BY Zenon
<1>2. o \in Value
  BY <1>1 DEF Value, NoKey
<1>3. srv[t].up /\ srv' = [srv EXCEPT ![t].keys[k] = o] /\ Rest
  BY <1>1 DEF Write, Serves, ClusterInv, Rest
<1>4. CASE t \in Node
  BY <1>2, <1>3, <1>4, InvFacts, KeyKeeps, OneStep
<1>5. CASE t \notin Node
  <2>1. srv' = srv
    BY <1>3, <1>5 DEF ClusterInv
  <2> QED BY <1>3, <2>1, RunningStep DEF ClusterInv
<1> QED BY <1>4, <1>5

LEMMA MigrateKeeps ==
  ASSUME ClusterInv, NEW n \in Node, NEW t \in Node, NEW k \in Key, NEW how, Migrate(n, k, t, how)
  PROVE  ClusterInv'
<1>1. PICK o : o = [srv[n].keys[k] EXCEPT !.exp = IF @ = 0 THEN 0 ELSE now + @]
  BY Zenon
<1>2. o \in Value /\ NoKey \in Value
  <2>1. srv[n].keys[k] \in Value /\ now \in Int
    <3>1. srv[n] \in Server /\ now \in Int
      BY DEF ClusterInv
    <3> QED BY <3>1, ServerFields
  <2> QED BY <1>1, <2>1 DEF Value, NoKey
<1>3. /\ n # t /\ srv[n].up /\ srv[t].up /\ now' = now /\ mix' = mix
      /\ \/ srv' = [srv EXCEPT ![t] = Restore(@, k, o), ![n].keys[k] = NoKey] /\ late' = late
         \/ late' = {<<t, k, o>>} /\ srv' = srv
  BY <1>1 DEF Migrate
<1>4. Rest
  BY <1>2, <1>3 DEF ClusterInv, Rest
<1>5. CASE srv' = [srv EXCEPT ![t] = Restore(@, k, o), ![n].keys[k] = NoKey]
  <2>1. PICK a, b : a = [srv[t] EXCEPT !.keys[k] = o] /\ b = [srv[n] EXCEPT !.keys[k] = NoKey]
    BY Zenon
  <2>2. Good(a, t, Alive) /\ Good(b, n, Alive)
    BY <1>2, <1>3, <2>1, InvFacts, KeyKeeps
  <2>3. DOMAIN srv = Node
    BY DEF ClusterInv
  <2>4. /\ srv' = [c \in Node |-> srv'[c]] /\ srv'[t] = a /\ srv'[n] = b
        /\ \A c \in Node \ {n, t} : srv'[c] = srv[c]
    BY <1>3, <1>5, <2>1, <2>3 DEF Restore
  <2> QED BY <1>3, <1>4, <2>2, <2>4, RunningStep
<1>6. CASE srv' = srv
  BY <1>4, <1>6, RunningStep DEF ClusterInv
<1> QED BY <1>3, <1>5, <1>6

LEMMA RestoreLateKeeps ==
  ASSUME ClusterInv, NEW r \in late, RestoreLate(r)
  PROVE  ClusterInv'
<1>1. r[1] \in Node /\ r[2] \in Key /\ r[3] \in Value /\ Rest
  BY DEF RestoreLate, ClusterInv, Rest
<1>2. CASE srv' = srv
  BY <1>1, <1>2, RunningStep DEF ClusterInv
<1>3. CASE srv' # srv
  <2>1. srv[r[1]].up /\ srv' = [srv EXCEPT ![r[1]] = [srv[r[1]] EXCEPT !.keys[r[2]] = r[3]]]
    BY <1>3 DEF RestoreLate, RestoreOk, Serves, Restore
  <2>2. PICK a, k, o : a = r[1] /\ k = r[2] /\ o = r[3]
    BY Zenon
  <2>3. PICK t : t = [srv[a] EXCEPT !.keys[k] = o]
    BY Zenon
  <2>4. a \in Node /\ srv[a].up /\ srv' = [srv EXCEPT ![a] = t]
    BY <1>1, <2>1, <2>2, <2>3
  <2>5. Good(t, a, Alive)
    BY <1>1, <2>2, <2>3, <2>4, InvFacts, KeyKeeps
  <2> QED BY <1>1, <2>4, <2>5, OneStep
<1> QED BY <1>2, <1>3

\* A server at the start of a mix
LEMMA StartGood ==
  ASSUME mix \in Mix, NEW n \in Node
  PROVE  LET t == Start(n)
         IN /\ Good(t, n, Node) /\ t.nodes[t.name].slots = Owned(n) /\ t.clash = {}
            /\ t.mig = [j \in Slot |-> NoName]
            /\ t.keys = [k \in Key |-> IF mix.owner[SlotOf[k]] = n THEN mix.value ELSE NoKey]
<1>1. /\ mix.known \subseteq Node /\ mix.owner \in [Slot -> Node] /\ mix.value \in Value
  BY DEF Mix
<1> DEFINE known == {a \in Node : a = n \/ (n \in mix.known /\ a \in mix.known)}
           D == {<<a, 0>> : a \in known}
           O == [j \in Slot |-> IF mix.owner[j] \in known THEN <<mix.owner[j], 0>> ELSE NoName]
           z == [j \in Slot |-> NoName]
           K == [k \in Key |-> IF mix.owner[SlotOf[k]] = n THEN mix.value ELSE NoKey]
           entry(x) == [CreateClusterNode(IF x[1] = n THEN {"myself"} ELSE {}, x[1])
                    EXCEPT !.slots = Owned(x[1]),
                           !.link = IF x[1] # n THEN "up" ELSE "none",
                           !.ping = IF x[1] \in mix.silent THEN 2 ELSE 0,
                           !.pong = IF x[1] \in mix.silent THEN 1 ELSE IF x[1] = n THEN 0 ELSE 3]
           N == [x \in D |-> entry(x)]
           base == [name |-> <<n, 0>>, up |-> TRUE, fault |-> FALSE, clash |-> {}, cron |-> 2, file |-> <<>>,
                    state |-> "fail", owner |-> O, mig |-> z, imp |-> z, nodes |-> N, keys |-> K]
<1>2. Start(n) = SaveConfig(UpdateState(base))
  BY DEF Start
<1>3. /\ D \subseteq Name /\ <<n, 0>> \in D
      /\ \A x \in D : x[1] \in Node /\ x[2] = 0 /\ x = <<x[1], 0>>
  BY DEF Name
<1>4. ASSUME NEW x \in D
      PROVE  Sound(N[x], x, <<n, 0>>, Node) /\ N[x].slots = Owned(x[1])
  <2>1. PICK e, F, l, p, q : /\ e = entry(x)
                             /\ F = (IF x[1] = n THEN {"myself"} ELSE {})
                             /\ l = (IF x[1] # n THEN "up" ELSE "none")
                             /\ p = (IF x[1] \in mix.silent THEN 2 ELSE 0)
                             /\ q = (IF x[1] \in mix.silent THEN 1 ELSE IF x[1] = n THEN 0 ELSE 3)
    BY Zenon
  <2>2. e = [flags |-> F, slots |-> Owned(x[1]), addr |-> x[1], ping |-> p, pong |-> q,
             link |-> l, out |-> <<>>, back |-> <<>>]
    BY <2>1 DEF CreateClusterNode
  <2>3. e \in Entry
    <3>1. <<>> \in Seq(Message) /\ p \in Int /\ q \in Int /\ F \subseteq Flag /\ l \in {"none", "up", "dead"}
      BY <2>1 DEF Flag
    <3>2. Owned(x[1]) \subseteq Slot /\ x[1] \in Node
      BY <1>3 DEF Owned
    <3> QED BY <2>2, <3>1, <3>2 DEF Entry
  <2>4. x[1] = n <=> x = <<n, 0>>
    BY <1>3
  <2>5. Fits(e, x, <<n, 0>>)
    <3>1. x[2] = 0 /\ ~(x[2] > 0)
      BY <1>3
    <3>2. e.addr = x[1] /\ e.flags = F
      BY <2>2
    <3>3. "handshake" \notin F
      BY <2>1
    <3>4. ("myself" \in F <=> x[1] = n) /\ (x[1] = n => F = {"myself"})
      BY <2>1
    <3> QED BY <2>4, <3>1, <3>2, <3>3, <3>4 DEF Fits
  <2>6. LinkSound(e, x, <<n, 0>>, Node)
    <3>1. e.link = l /\ e.out = <<>> /\ e.back = <<>> /\ e.addr = x[1] /\ x[1] \in Node
      BY <1>3, <2>2
    <3>2. l = (IF x = <<n, 0>> THEN "none" ELSE "up")
      BY <2>1, <2>4
    <3> QED BY <3>1, <3>2 DEF LinkSound
  <2>7. N[x] = e /\ e.slots = Owned(x[1])
    BY <2>1, <2>2
  <2> HIDE DEF N
  <2> QED BY <2>3, <2>5, <2>6, <2>7 DEF Sound
<1>5. N = [x \in D |-> N[x]]
  OBVIOUS
<1>6. \A j \in Slot : O[j] = NoName \/ O[j] \in D
  OBVIOUS
<1>7. \A j \in Slot : O[j] = <<n, 0>> <=> j \in Owned(n)
  <2>1. NoName # <<n, 0>> /\ n \in known
    BY NodeAssumption DEF NoName
  <2> QED BY <1>1, <2>1 DEF Owned
<1>8. K \in [Key -> Value] /\ z \in [Slot -> MaybeName]
  BY <1>1 DEF Value, NoKey, MaybeName
<1>9. O \in [Slot -> MaybeName]
  BY <1>3, <1>6 DEF MaybeName
<1>10. /\ base.name = <<n, 0>> /\ base.up /\ base.clash = {} /\ base.owner = O /\ base.nodes = N
       /\ base.fault = FALSE /\ base.cron = 2 /\ base.mig = z /\ base.imp = z /\ base.keys = K
  OBVIOUS
<1> HIDE DEF N, O, D, K, z, entry
<1>11. TableSound(N, <<n, 0>>, Node) /\ DOMAIN N = D
  BY <1>3, <1>4, <1>5, TableOf
<1>12. OwnersSound(O, N, <<n, 0>>, {})
  <2>1. N[<<n, 0>>].slots = Owned(n)
    BY <1>3, <1>4
  <2>2. \A x \in D : x[2] <= 0
    BY <1>3
  <2> QED BY <1>6, <1>7, <1>11, <2>1, <2>2 DEF OwnersSound
\* The first file is written from a table that is sound, over no file at all.
<1>13. PICK f : f = [name |-> <<n, 0>>, mig |-> z, imp |-> z,
                     nodes |-> [x \in {<<n, 0>>} |-> [flags |-> {"myself"}, addr |-> n, pinged |-> FALSE,
                                                     ponged |-> FALSE, slots |-> {}]]]
  BY Zenon
<1>14. f \in File /\ FileSound(f, n)
  <2>1. PICK x, l : x = <<n, 0>> /\ l = [flags |-> {"myself"}, addr |-> n, pinged |-> FALSE,
                                         ponged |-> FALSE, slots |-> {}]
    BY Zenon
  <2>2. l \in Line /\ x \in Name /\ x[1] = n /\ x[2] = 0
    BY <2>1 DEF Line, Flag, Name
  <2>3. PICK L : L = [y \in {x} |-> l]
    BY Zenon
  <2>4. L \in [{x} -> Line] /\ L[x] = l
    BY <2>2, <2>3
  <2>5. L \in Table(Line) /\ DOMAIN L = {x}
    BY <2>2, <2>4, TableIntro
  <2>6. f = [name |-> x, mig |-> z, imp |-> z, nodes |-> L]
    BY <1>13, <2>1, <2>3
  <2>7. f \in File /\ f.name = x /\ f.nodes = L
    BY <1>8, <2>2, <2>5, <2>6 DEF File
  <2>8. Fits(l, x, x)
    BY <2>1, <2>2 DEF Fits
  <2> QED BY <2>2, <2>4, <2>5, <2>7, <2>8 DEF FileSound
<1>15. PICK s : s = [base EXCEPT !.file = f]
  BY Zenon
<1>16. /\ s.mig = z /\ s.keys = K
       /\ s \in Server /\ s.name = <<n, 0>> /\ s.up /\ s.clash = {} /\ s.owner = O /\ s.nodes = N /\ s.file = f
  <2>1. s = [name |-> <<n, 0>>, up |-> TRUE, fault |-> FALSE, clash |-> {}, cron |-> 2, file |-> f,
             state |-> "fail", owner |-> O, mig |-> z, imp |-> z, nodes |-> N, keys |-> K]
    BY <1>15
  <2>2. N \in Table(Entry) /\ <<n, 0>> \in Name
    BY <1>3, <1>11 DEF TableSound
  <2>3. s \in Server
    BY <1>8, <1>9, <1>14, <2>1, <2>2 DEF Server
  <2> QED BY <2>1, <2>3
<1>17. Running(s, n, Node)
  BY <1>11, <1>12, <1>14, <1>16 DEF Running
<1>18. SaveConfig(UpdateState(s)) = SaveConfig(UpdateState(base))
  <2>1. PICK w : w = IF Healthy(O, N) THEN "ok" ELSE "fail"
    BY Zenon
  <2>2. UpdateState(base) = [base EXCEPT !.state = w] /\ UpdateState(s) = [s EXCEPT !.state = w]
    BY <1>10, <1>16, <2>1 DEF UpdateState, Healthy
  <2>3. PICK h : h = GenNodesDescription(UpdateState(base))
    BY Zenon
  <2>4. h = GenNodesDescription(UpdateState(s))
    <3>1. PICK b, t : b = UpdateState(base) /\ t = UpdateState(s)
      BY Zenon
    <3>2. b.name = t.name /\ b.nodes = t.nodes /\ b.mig = t.mig /\ b.imp = t.imp
      <4>1. b = [base EXCEPT !.state = w] /\ t = [[base EXCEPT !.file = f] EXCEPT !.state = w]
        BY <1>15, <2>2, <3>1
      <4> QED BY <4>1
    <3>3. GenNodesDescription(b) = GenNodesDescription(t)
      BY <3>2 DEF GenNodesDescription
    <3> QED BY <2>3, <3>1, <3>3
  <2>5. [[base EXCEPT !.state = w] EXCEPT !.file = h] = [[s EXCEPT !.state = w] EXCEPT !.file = h]
    BY <1>15
  <2> QED BY <2>2, <2>3, <2>4, <2>5 DEF SaveConfig
<1>19. PICK t : t = Start(n)
  BY Zenon
<1>20. Good(t, n, Node) /\ Kept(s, t)
  BY <1>2, <1>17, <1>18, <1>19, CommandEnds
<1>21. N[<<n, 0>>].slots = Owned(n)
  BY <1>3, <1>4
<1>22. t.nodes[t.name].slots = Owned(n) /\ t.clash = {} /\ t.mig = z /\ t.keys = K
  BY <1>16, <1>20, <1>21 DEF Kept
<1> QED BY <1>19, <1>20, <1>22 DEF K, z

LEMMA InitInv == Init => ClusterInv
<1> SUFFICES ASSUME Init PROVE ClusterInv
  OBVIOUS
<1>1. mix \in Mix /\ now = 3 /\ late = {} /\ srv = [n \in Node |-> Start(n)]
  BY MixAssumption DEF Init
<1>2. \A n \in Node : Good(srv[n], n, Node)
  BY <1>1, StartGood
<1>3. Alive = Node
  BY <1>2 DEF Alive, Good, Running
<1>4. srv \in [Node -> Server]
  BY <1>1, <1>2 DEF Good, Running
<1>5. \A n \in Node : srv[n].up /\ Running(srv[n], n, Alive) /\ Exact(srv[n])
  BY <1>2, <1>3 DEF Good, Running
<1> QED BY <1>1, <1>4, <1>5 DEF ClusterInv

LEMMA NextKeepsInv == ClusterInv /\ [Next]_vars => ClusterInv'
<1> SUFFICES ASSUME ClusterInv, [Next]_vars PROVE ClusterInv'
  OBVIOUS
<1>1. CASE \E a \in Node : \E x \in Entries(a) : ReadPong(a, x) \/ LinkError(a, x)
  BY <1>1, ReadPongKeeps, LinkErrorKeeps
<1>2. CASE \E a \in Node : \E x \in Entries(a) :
             srv[a].nodes[x].out # <<>> /\
             \E g \in {NoName} \cup Entries(srv[a].nodes[x].addr) : ReadPing(a, x, g)
  BY <1>2, ReadPingKeeps
<1>3. CASE \E n \in Node : \E p, g \in {NoName} \cup Entries(n) : Cron(n, p, g)
  BY <1>3, CronKeeps
<1>4. CASE Tick
  BY <1>4, RunningStep DEF Tick, Rest, ClusterInv
<1>5. CASE \E n \in Node : Crash(n) \/ Restart(n) \/ RestartAlone(n)
  BY <1>5, CrashKeeps, RestartsKeep
<1>6. CASE \E n, a \in Node : Meet(n, a)
  BY <1>6, MeetKeeps
<1>7. CASE \E n \in Node, j \in Slot : AddSlots(n, j) \/ DelSlots(n, j)
  BY <1>7, SlotsKeep
<1>8. CASE \E c \in mix.setslot : SetSlot(c[1], c[2], c[3], c[4])
  <2>1. PICK c \in mix.setslot : SetSlot(c[1], c[2], c[3], c[4])
    BY <1>8
  <2>2. mix.setslot \subseteq Node \X Slot \X {"migrating", "importing", "stable"} \X Name
    BY DEF ClusterInv, Mix
  <2>3. c[1] \in Node /\ c[2] \in Slot /\ c[3] \in {"migrating", "importing", "stable"} /\ c[4] \in Name
    BY <2>2
  <2> QED BY <2>1, <2>3, SetSlotKeeps
<1>9. CASE \E n \in Node, k \in Key, v \in 0 .. 2 : Write(n, k, v)
  BY <1>9, WriteKeeps
<1>10. CASE \E n, t \in Node, k \in Key, how \in {"answer", "silence"} : Migrate(n, k, t, how)
  BY <1>10, MigrateKeeps
<1>11. CASE \E r \in late : RestoreLate(r)
  BY <1>11, RestoreLateKeeps
<1>12. CASE UNCHANGED vars
  BY <1>12, RunningStep DEF vars, Rest, ClusterInv
<1> QED BY <1>1, <1>2, <1>3, <1>4, <1>5, <1>6, <1>7, <1>8, <1>9, <1>10, <1>11, <1>12 DEF Next

LEMMA InvImpliesSound == ClusterInv => ClusterSound
<1> SUFFICES ASSUME ClusterInv PROVE ClusterSound
  OBVIOUS
<1>1. ASSUME NEW n \in Node, srv[n].up PROVE Running(srv[n], n, Alive) /\ Exact(srv[n])
  BY <1>1, InvFacts DEF Good
<1>2. StateExact
  <2> SUFFICES ASSUME NEW n \in Node, srv[n].up PROVE srv[n].state = UpdateState(srv[n]).state
    BY DEF StateExact
  <2>1. PICK t : t = UpdateState(srv[n])
    BY Zenon
  <2>2. Exact(srv[n]) /\ Exact(t) /\ t.nodes = srv[n].nodes /\ t.owner = srv[n].owner
    BY <1>1, <2>1, UpdateStateKeeps
  <2> QED BY <2>1, <2>2 DEF Exact
<1>3. OwnBits
  BY <1>1 DEF OwnBits, Running, OwnersSound
<1>4. NamesExact
  BY <1>1 DEF NamesExact, Running, TableSound, Fits
<1> QED BY <1>2, <1>3, <1>4 DEF ClusterSound

\* For any servers, slots, bounds and mixes of operations: the state a server
\* announces is that of its tables, the slots it announces are those it serves
\* (but for a slot that two lines of its file claimed), and every entry of its
\* table is what its name says (clusterUpdateState, clusterProcessPacket,
\* clusterCron, clusterLoadConfig, clusterCommand).
THEOREM ClusterFits == Spec => []ClusterSound
<1>1. Init => ClusterInv
  BY InitInv
<1>2. ClusterInv /\ [Next]_vars => ClusterInv'
  BY NextKeepsInv
<1>3. ClusterInv => ClusterSound
  BY InvImpliesSound
<1> QED BY <1>1, <1>2, <1>3, PTL DEF Spec

(***************************************************************************)
(* Keys that move                                                           *)
(***************************************************************************)
\* The procedure of an operator who moves slots: no server is stopped and no
\* slot is given away meanwhile, and a slot goes from its owner to one target,
\* with no STABLE on the way.  Any number of slots may move at once, servers
\* may meet, ping and time each other out, and MIGRATE may time out.
Procedure(m) ==
  /\ m.crash = {} /\ m.slots = {}
  /\ m.value = NoKey \/ m.value.v # 0
  /\ \A c \in m.setslot : c[3] # "stable" /\ (c[3] = "migrating" => c[4][2] = 0 /\ c[4][1] # c[1])
  /\ \A c, d \in m.setslot : c[3] = "migrating" /\ d[3] = "migrating" /\ c[2] = d[2] => c[4] = d[4]

\* A server serves the slots it began with, and moves only slots it serves.
Steady(n) ==
  /\ srv[n].up /\ srv[n].clash = {} /\ srv[n].nodes[srv[n].name].slots = Owned(n)
  /\ \A j \in Slot : srv[n].mig[j] # NoName =>
       /\ mix.owner[j] = n /\ srv[n].mig[j] \in DOMAIN srv[n].nodes
       /\ <<n, j, "migrating", srv[n].mig[j]>> \in mix.setslot

\* Where the last value of key k is: h is what its server n holds, g where its
\* slot goes.  Before a MIGRATE has timed out no other server holds the key
\* until it has left n.
HeldAt(k, n, h, g) ==
  /\ h # NoKey => h.v = last[k] /\ h.v # 0
  /\ h = NoKey /\ g = NoName => last[k] = 0
  /\ h = NoKey /\ g # NoName => srv[g[1]].keys[k].v = last[k] \/ (broke /\ last[k] = 0)
  /\ ~broke /\ (h # NoKey \/ g = NoName) => \A c \in Node \ {n} : srv[c].keys[k] = NoKey
Home(k) == mix.owner[SlotOf[k]]
Held(k) == HeldAt(k, Home(k), srv[Home(k)].keys[k], srv[Home(k)].mig[SlotOf[k]])

KeysInv ==
  /\ ClusterInv /\ Procedure(mix) /\ DOMAIN last = Key
  /\ \A n \in Node : Steady(n)
  /\ \A k \in Key : Held(k)
  /\ \A r \in late : broke /\ r[1] # Home(r[2])

SameMix == /\ mix'.crash = mix.crash /\ mix'.slots = mix.slots /\ mix'.value = mix.value
           /\ mix'.owner = mix.owner /\ mix'.setslot = mix.setslot

LEMMA HomeFacts ==
  ASSUME KeysInv, NEW k \in Key
  PROVE  /\ SlotOf[k] \in Slot /\ Home(k) \in Node /\ Held(k)
         /\ \A n \in Node : srv[n].keys[k] \in Value
<1>1. SlotOf[k] \in Slot /\ mix.owner \in [Slot -> Node] /\ Held(k)
  BY SlotAssumption DEF KeysInv, ClusterInv, Mix
<1>2. \A n \in Node : srv[n].keys \in [Key -> Value]
  BY ServerFields DEF KeysInv, ClusterInv
<1> QED BY <1>1, <1>2 DEF Home

\* A slot is served where the mix says.
LEMMA ServedAt ==
  ASSUME KeysInv, NEW n \in Node, NEW j \in Slot
  PROVE  srv[n].up /\ (srv[n].owner[j] = srv[n].name <=> mix.owner[j] = n)
<1>1. Steady(n) /\ srv[n].up
  BY DEF KeysInv, Steady
<1>2. OwnersSound(srv[n].owner, srv[n].nodes, srv[n].name, srv[n].clash)
  BY <1>1, InvFacts DEF KeysInv, Good, Running
<1>3. j \in Owned(n) <=> srv[n].owner[j] = srv[n].name
  BY <1>1, <1>2 DEF Steady, OwnersSound
<1> QED BY <1>1, <1>3 DEF Owned

\* Where a slot goes
Goes(n, j, g) ==
  /\ mix.owner[j] = n /\ g \in DOMAIN srv[n].nodes /\ g[2] = 0 /\ g[1] # n /\ g[1] \in Node
  /\ <<n, j, "migrating", g>> \in mix.setslot /\ srv[n].nodes[g].addr = g[1]

LEMMA Target ==
  ASSUME KeysInv, NEW n \in Node, NEW j \in Slot, srv[n].mig[j] # NoName
  PROVE  Goes(n, j, srv[n].mig[j])
<1>0. PICK g : g = srv[n].mig[j]
  BY Zenon
<1>1. /\ mix.owner[j] = n /\ g \in DOMAIN srv[n].nodes
      /\ <<n, j, "migrating", g>> \in mix.setslot /\ srv[n].up
  BY <1>0 DEF KeysInv, Steady
<1>2. PICK c : c = <<n, j, "migrating", g>>
  BY Zenon
<1>3. c \in mix.setslot /\ c[3] = "migrating" /\ c[4] = g /\ c[1] = n
  BY <1>1, <1>2
<1>4. g[2] = 0 /\ g[1] # n
  BY <1>3 DEF KeysInv, Procedure
<1>5. Sound(srv[n].nodes[g], g, srv[n].name, Alive) /\ g \in Name
  BY <1>1, InvFacts, EntryOf DEF KeysInv, Good
<1>6. srv[n].nodes[g].addr = g[1] /\ g[1] \in Node
  BY <1>5 DEF Sound, Fits, Name
<1> QED BY <1>0, <1>1, <1>4, <1>6 DEF Goes

LEMMA ReachedIs ==
  ASSUME KeysInv, NEW k \in Key, NEW n, n \in Owners(k)
  PROVE  /\ n = Home(k)
         /\ Reached(n, k) = IF srv[n].keys[k] = NoKey /\ srv[n].mig[SlotOf[k]] # NoName
                            THEN srv[n].mig[SlotOf[k]][1] ELSE n
<1>1. n \in Node /\ SlotOf[k] \in Slot /\ srv[n].owner[SlotOf[k]] = srv[n].name
  BY HomeFacts DEF Owners
<1>2. n = Home(k)
  BY <1>1, ServedAt DEF Home
<1>3. PICK j, g : j = SlotOf[k] /\ g = srv[n].mig[j]
  BY Zenon
<1>4. CASE srv[n].keys[k] = NoKey /\ g # NoName
  <2>1. GetNodeByQuery(srv[n], k) = [name |-> g, ask |-> TRUE]
    BY <1>1, <1>3, <1>4 DEF GetNodeByQuery
  <2>2. srv[n].nodes[g].addr = g[1]
    <3>1. Goes(n, j, g)
      BY <1>1, <1>3, <1>4, Target
    <3> QED BY <3>1 DEF Goes
  <2> QED BY <1>2, <1>3, <1>4, <2>1, <2>2 DEF Reached
<1>5. CASE ~(srv[n].keys[k] = NoKey /\ g # NoName)
  <2>1. GetNodeByQuery(srv[n], k).ask = FALSE
    BY <1>1, <1>3, <1>5 DEF GetNodeByQuery
  <2> QED BY <1>2, <1>3, <1>5, <2>1 DEF Reached
<1> QED BY <1>4, <1>5

LEMMA KeysInvRoutes == KeysInv => RouteExact
<1> SUFFICES ASSUME KeysInv, NEW k \in Key, NEW n \in Owners(k), last[k] # 0 \/ ~broke
             PROVE  srv[Reached(n, k)].keys[k].v = last[k]
  BY DEF RouteExact
<1>1. PICK h, g : h = srv[n].keys[k] /\ g = srv[n].mig[SlotOf[k]]
  BY Zenon
<1>2. n = Home(k) /\ Reached(n, k) = (IF h = NoKey /\ g # NoName THEN g[1] ELSE n)
  BY <1>1, ReachedIs
<1>3. HeldAt(k, n, h, g)
  BY <1>1, <1>2, HomeFacts DEF Held
<1>4. NoKey.v = 0
  BY DEF NoKey
<1> QED BY <1>1, <1>2, <1>3, <1>4 DEF HeldAt

\* Steps of the servers among themselves
LEMMA CalmHolds ==
  ASSUME KeysInv, ClusterInv', Calm, SameMix, late' = late, last' = last, broke' = broke
  PROVE  KeysInv'
<1>1. Procedure(mix)' /\ \A k \in Key : Home(k)' = Home(k)
  BY DEF KeysInv, Procedure, SameMix, Home
<1>2. \A n \in Node : /\ srv'[n].mig = srv[n].mig /\ srv'[n].keys = srv[n].keys
                      /\ srv'[n].up = srv[n].up /\ srv'[n].clash = srv[n].clash
                      /\ srv'[n].nodes[srv'[n].name].slots = srv[n].nodes[srv[n].name].slots
                      /\ \A x \in DOMAIN srv[n].nodes : x[2] <= 0 => x \in DOMAIN srv'[n].nodes
  BY DEF Calm, Kept
<1>3. ASSUME NEW n \in Node PROVE Steady(n)'
  <2>1. Owned(n)' = Owned(n)
    BY DEF SameMix, Owned
  <2>2. Steady(n)
    BY DEF KeysInv
  <2>3. ASSUME NEW j \in Slot, srv'[n].mig[j] # NoName
        PROVE  /\ mix'.owner[j] = n /\ srv'[n].mig[j] \in DOMAIN srv'[n].nodes
               /\ <<n, j, "migrating", srv'[n].mig[j]>> \in mix'.setslot
    <3>1. PICK g : g = srv[n].mig[j]
      BY Zenon
    <3>2. g = srv'[n].mig[j] /\ g # NoName
      BY <1>2, <2>3, <3>1
    <3>3. Goes(n, j, g)
      BY <3>1, <3>2, Target
    <3>4. /\ mix.owner[j] = n /\ g \in DOMAIN srv[n].nodes /\ g[2] <= 0
          /\ <<n, j, "migrating", g>> \in mix.setslot
      BY <3>3 DEF Goes
    <3> QED BY <1>2, <3>2, <3>4 DEF SameMix
  <2> QED BY <1>2, <2>1, <2>2, <2>3 DEF Steady
<1>4. ASSUME NEW k \in Key PROVE Held(k)'
  <2>1. PICK n, h, g : n = Home(k) /\ h = srv[n].keys[k] /\ g = srv[n].mig[SlotOf[k]]
    BY Zenon
  <2>2. n \in Node /\ HeldAt(k, n, h, g) /\ SlotOf[k] \in Slot
    BY <2>1, HomeFacts DEF Held
  <2>3. n = Home(k)' /\ h = srv'[n].keys[k] /\ g = srv'[n].mig[SlotOf[k]]
    BY <1>1, <1>2, <2>1, <2>2
  <2>4. g # NoName => g[1] \in Node
    BY <2>1, <2>2, Target DEF Goes
  <2>5. \A c \in Node : srv'[c].keys[k] = srv[c].keys[k]
    BY <1>2
  <2>6. HeldAt(k, n, h, g)'
    BY <2>2, <2>4, <2>5 DEF HeldAt
  <2> QED BY <2>3, <2>6 DEF Held
<1>5. \A r \in late' : broke' /\ r[1] # Home(r[2])'
  <2>1. \A r \in late : r[2] \in Key
    BY DEF KeysInv, ClusterInv
  <2> QED BY <1>1, <2>1 DEF KeysInv
<1> QED BY <1>1, <1>3, <1>4, <1>5 DEF KeysInv

\* Steps that change what servers hold of one key
Only(k) ==
  /\ mix' = mix /\ DOMAIN last' = Key /\ (broke => broke')
  /\ \A i \in Key \ {k} : last'[i] = last[i]
  /\ \A c \in Node :
       /\ srv'[c].mig = srv[c].mig /\ srv'[c].up = srv[c].up /\ srv'[c].clash = srv[c].clash
       /\ srv'[c].nodes = srv[c].nodes /\ srv'[c].name = srv[c].name
       /\ \A i \in Key \ {k} : srv'[c].keys[i] = srv[c].keys[i]

LEMMA OnlyHolds ==
  ASSUME KeysInv, ClusterInv', NEW k \in Key, Only(k), Held(k)',
         \A r \in late' : broke' /\ r[1] # Home(r[2])
  PROVE  KeysInv'
<1>1. Procedure(mix)' /\ \A i : Home(i)' = Home(i)
  BY DEF KeysInv, Only, Home
<1>2. ASSUME NEW n \in Node PROVE Steady(n)'
  <2>1. Owned(n)' = Owned(n) /\ Steady(n)
    BY DEF Owned, KeysInv, Only
  <2> QED BY <2>1 DEF Steady, Only
<1>3. ASSUME NEW i \in Key PROVE Held(i)'
  <2>1. CASE i = k
    BY <2>1
  <2>2. CASE i # k
    <3>1. PICK n, h, g : n = Home(i) /\ h = srv[n].keys[i] /\ g = srv[n].mig[SlotOf[i]]
      BY Zenon
    <3>2. n \in Node /\ HeldAt(i, n, h, g) /\ SlotOf[i] \in Slot
      BY <3>1, HomeFacts DEF Held
    <3>3. n = Home(i)' /\ h = srv'[n].keys[i] /\ g = srv'[n].mig[SlotOf[i]]
      BY <1>1, <2>2, <3>1, <3>2 DEF Only
    <3>4. g # NoName => g[1] \in Node
      BY <3>1, <3>2, Target DEF Goes
    <3>5. HeldAt(i, n, h, g)'
      BY <2>2, <3>2, <3>4 DEF HeldAt, Only
    <3> QED BY <3>3, <3>5 DEF Held
  <2> QED BY <2>1, <2>2
<1>4. DOMAIN last' = Key
  BY DEF Only
<1> QED BY <1>1, <1>2, <1>3, <1>4 DEF KeysInv

\* A value put at one server
Put(a, k, o) == [srv EXCEPT ![a].keys[k] = o]

LEMMA PutAt ==
  ASSUME KeysInv, NEW a \in Node, NEW k \in Key, NEW o, srv' = Put(a, k, o),
         mix' = mix, DOMAIN last' = Key, broke' = broke, \A i \in Key \ {k} : last'[i] = last[i]
  PROVE  /\ Only(k) /\ srv'[a].keys[k] = o
         /\ \A c \in Node \ {a} : srv'[c].keys[k] = srv[c].keys[k]
<1>1. DOMAIN srv = Node /\ srv[a] \in Server /\ srv[a].keys \in [Key -> Value]
  BY ServerFields DEF KeysInv, ClusterInv
<1>2. PICK t : t = [srv[a] EXCEPT !.keys[k] = o]
  BY Zenon
<1>3. srv'[a] = t /\ \A c \in Node \ {a} : srv'[c] = srv[c]
  BY <1>1, <1>2 DEF Put
<1>4. /\ t.mig = srv[a].mig /\ t.up = srv[a].up /\ t.clash = srv[a].clash /\ t.nodes = srv[a].nodes
      /\ t.name = srv[a].name /\ t.keys[k] = o /\ \A i \in Key \ {k} : t.keys[i] = srv[a].keys[i]
  BY <1>1, <1>2 DEF Server
<1> QED BY <1>3, <1>4 DEF Only

LEMMA WriteHolds ==
  ASSUME KeysInv, ClusterInv', NEW m \in Node, NEW k \in Key, NEW v \in 0 .. 2, Write(m, k, v)
  PROVE  KeysInv'
<1>1. PICK n, h, g : n = Home(k) /\ h = srv[n].keys[k] /\ g = srv[n].mig[SlotOf[k]]
  BY Zenon
<1>2. n \in Node /\ HeldAt(k, n, h, g) /\ SlotOf[k] \in Slot
  BY <1>1, HomeFacts DEF Held
<1>3. PICK a, o : /\ a = (IF h = NoKey /\ g # NoName THEN g[1] ELSE n)
                  /\ o = (IF v = 0 THEN NoKey ELSE [v |-> v, exp |-> 0, packed |-> FALSE])
  BY Zenon
<1>4. m = n /\ Reached(m, k) = a
  BY <1>1, <1>3, ReachedIs DEF Write
<1>5. g # NoName => g[1] \in Node /\ g[1] # n
  BY <1>1, <1>2, Target DEF Goes
<1>6. a \in Node
  BY <1>2, <1>3, <1>5
<1>7. /\ srv' = Put(a, k, o) /\ mix' = mix /\ late' = late /\ broke' = broke
      /\ last' = [last EXCEPT ![k] = v]
  BY <1>3, <1>4 DEF Write, Put
<1>8. DOMAIN last' = Key /\ last'[k] = v /\ \A i \in Key \ {k} : last'[i] = last[i]
  BY <1>7 DEF KeysInv
<1>9. /\ Only(k) /\ srv'[a].keys[k] = o
      /\ \A c \in Node \ {a} : srv'[c].keys[k] = srv[c].keys[k]
  BY <1>6, <1>7, <1>8, PutAt
<1>10. o.v = v /\ NoKey.v = 0 /\ (o = NoKey <=> v = 0)
  BY <1>3 DEF NoKey
<1>11. PICK f : f = srv'[n].keys[k]
  BY Zenon
<1>12. HeldAt(k, n, f, g)'
  <2>1. CASE a = n
    <3>1. f = o /\ (h # NoKey \/ g = NoName)
      BY <1>3, <1>5, <1>9, <1>11, <2>1
    <3>2. ~broke => \A c \in Node \ {n} : srv'[c].keys[k] = NoKey
      BY <1>2, <1>9, <2>1, <3>1 DEF HeldAt
    <3>3. f = NoKey /\ g # NoName => srv'[g[1]].keys[k].v = last'[k] \/ (broke /\ last'[k] = 0)
      BY <1>5, <1>8, <1>10, <3>1, <3>2
    <3> QED BY <1>7, <1>8, <1>10, <3>1, <3>2, <3>3 DEF HeldAt
  <2>2. CASE a # n
    <3>1. a = g[1] /\ g # NoName /\ h = NoKey /\ f = NoKey
      BY <1>1, <1>2, <1>3, <1>9, <1>11, <2>2
    <3> QED BY <1>8, <1>9, <1>10, <3>1 DEF HeldAt
  <2> QED BY <2>1, <2>2
<1>13. n = Home(k)' /\ g = srv'[n].mig[SlotOf[k]]
  BY <1>1, <1>2, <1>9 DEF Home, Only
<1>14. Held(k)'
  BY <1>11, <1>12, <1>13 DEF Held
<1> QED BY <1>7, <1>9, <1>14, OnlyHolds DEF KeysInv

LEMMA MigrateHolds ==
  ASSUME KeysInv, ClusterInv', NEW n \in Node, NEW t \in Node, NEW k \in Key, NEW how, Migrate(n, k, t, how)
  PROVE  KeysInv'
<1>1. PICK h, g, o : /\ h = srv[n].keys[k] /\ g = srv[n].mig[SlotOf[k]]
                     /\ o = [h EXCEPT !.exp = IF @ = 0 THEN 0 ELSE now + @]
  BY Zenon
<1>2. n # t /\ h # NoKey /\ g = <<t, 0>> /\ mix' = mix /\ last' = last
  BY <1>1 DEF Migrate
<1>3. SlotOf[k] \in Slot /\ g # NoName /\ g[1] = t
  BY <1>2, HomeFacts, NodeAssumption DEF NoName
<1>4. n = Home(k)
  BY <1>1, <1>3, Target DEF Goes, Home
<1>5. HeldAt(k, n, h, g)
  BY <1>1, <1>4, HomeFacts DEF Held
<1>6. h \in Value /\ o.v = h.v
  <2>1. h \in Value
    BY <1>1, HomeFacts
  <2> QED BY <1>1, <2>1 DEF Value
<1>7. CASE /\ srv' = [srv EXCEPT ![t] = Restore(@, k, o), ![n].keys[k] = NoKey]
           /\ late' = late /\ broke' = broke
  <2>1. PICK a, b : a = [srv[t] EXCEPT !.keys[k] = o] /\ b = [srv[n] EXCEPT !.keys[k] = NoKey]
    BY Zenon
  <2>2. /\ DOMAIN srv = Node /\ srv[t] \in Server /\ srv[t].keys \in [Key -> Value]
        /\ srv[n] \in Server /\ srv[n].keys \in [Key -> Value]
    BY ServerFields DEF KeysInv, ClusterInv
  <2>3. srv'[t] = a /\ srv'[n] = b /\ \A c \in Node \ {n, t} : srv'[c] = srv[c]
    BY <1>2, <1>7, <2>1, <2>2 DEF Restore
  <2>4. /\ a.mig = srv[t].mig /\ a.up = srv[t].up /\ a.clash = srv[t].clash /\ a.nodes = srv[t].nodes
        /\ a.name = srv[t].name /\ a.keys[k] = o /\ \A i \in Key \ {k} : a.keys[i] = srv[t].keys[i]
    BY <2>1, <2>2 DEF Server
  <2>5. /\ b.mig = srv[n].mig /\ b.up = srv[n].up /\ b.clash = srv[n].clash /\ b.nodes = srv[n].nodes
        /\ b.name = srv[n].name /\ b.keys[k] = NoKey /\ \A i \in Key \ {k} : b.keys[i] = srv[n].keys[i]
    BY <2>1, <2>2 DEF Server
  <2>6. Only(k)
    <3>1. /\ mix' = mix /\ DOMAIN last' = Key /\ broke' = broke
          /\ \A i \in Key \ {k} : last'[i] = last[i]
      BY <1>2, <1>7 DEF KeysInv
    <3>2. \A c \in Node : c = n \/ c = t \/ srv'[c] = srv[c]
      BY <2>3
    <3>3. \A c \in Node :
            /\ srv'[c].mig = srv[c].mig /\ srv'[c].up = srv[c].up /\ srv'[c].clash = srv[c].clash
            /\ srv'[c].nodes = srv[c].nodes /\ srv'[c].name = srv[c].name
            /\ \A i \in Key \ {k} : srv'[c].keys[i] = srv[c].keys[i]
      BY <2>3, <2>4, <2>5, <3>2
    <3> QED BY <3>1, <3>3 DEF Only
  <2>7. HeldAt(k, n, NoKey, g)'
    BY <1>2, <1>3, <1>5, <1>6, <2>3, <2>4 DEF HeldAt
  <2>8. n = Home(k)' /\ g = srv'[n].mig[SlotOf[k]] /\ srv'[n].keys[k] = NoKey
    BY <1>1, <1>2, <1>4, <2>3, <2>5 DEF Home
  <2>9. Held(k)'
    BY <2>7, <2>8 DEF Held
  <2> QED BY <1>7, <2>6, <2>9, OnlyHolds DEF KeysInv
<1>8. CASE srv' = srv /\ late' = {<<t, k, o>>} /\ broke' = TRUE
  <2>1. Only(k)
    BY <1>2, <1>8 DEF Only, KeysInv
  <2>2. HeldAt(k, n, h, g)'
    BY <1>2, <1>5, <1>8 DEF HeldAt
  <2>3. Held(k)'
    BY <1>1, <1>2, <1>4, <1>8, <2>2 DEF Held, Home
  <2>4. \A r \in late' : broke' /\ r[1] # Home(r[2])
    BY <1>2, <1>4, <1>8
  <2> QED BY <2>1, <2>3, <2>4, OnlyHolds
<1> QED BY <1>1, <1>7, <1>8 DEF Migrate

LEMMA RestoreLateHolds ==
  ASSUME KeysInv, ClusterInv', NEW r \in late, RestoreLate(r)
  PROVE  KeysInv'
<1>1. PICK a, k, o : a = r[1] /\ k = r[2] /\ o = r[3]
  BY Zenon
<1>2. /\ a \in Node /\ k \in Key /\ broke /\ a # Home(k) /\ mix' = mix /\ last' = last /\ broke' = broke
      /\ late' = late \ {r}
  BY <1>1 DEF KeysInv, ClusterInv, RestoreLate
<1>3. \A p \in late' : broke' /\ p[1] # Home(p[2])
  BY <1>2 DEF KeysInv
<1>4. PICK n, h, g : n = Home(k) /\ h = srv[n].keys[k] /\ g = srv[n].mig[SlotOf[k]]
  BY Zenon
<1>5. n \in Node /\ HeldAt(k, n, h, g) /\ SlotOf[k] \in Slot
  BY <1>2, <1>4, HomeFacts DEF Held
<1>6. CASE srv' = srv
  <2>1. Only(k)
    BY <1>2, <1>6 DEF Only, KeysInv
  <2>2. HeldAt(k, n, h, g)'
    BY <1>2, <1>5, <1>6 DEF HeldAt
  <2>3. Held(k)'
    BY <1>2, <1>4, <1>6, <2>2 DEF Held, Home
  <2> QED BY <1>2, <1>3, <2>1, <2>3, OnlyHolds
<1>7. CASE srv[a].keys[k] = NoKey /\ srv' = Put(a, k, o)
  <2>1. /\ Only(k) /\ srv'[a].keys[k] = o
        /\ \A c \in Node \ {a} : srv'[c].keys[k] = srv[c].keys[k]
    BY <1>2, <1>7, PutAt DEF KeysInv
  <2>2. h = srv'[n].keys[k] /\ n = Home(k)' /\ g = srv'[n].mig[SlotOf[k]]
    BY <1>2, <1>4, <1>5, <2>1 DEF Home, Only
  <2>3. g # NoName => g[1] \in Node
    BY <1>4, <1>5, Target DEF Goes
  <2>4. h = NoKey /\ g # NoName => srv'[g[1]].keys[k].v = last[k] \/ last[k] = 0
    <3>1. NoKey.v = 0
      BY DEF NoKey
    <3> QED BY <1>5, <1>7, <2>1, <2>3, <3>1 DEF HeldAt
  <2>5. HeldAt(k, n, h, g)'
    BY <1>2, <1>5, <2>4 DEF HeldAt
  <2>6. Held(k)'
    BY <2>2, <2>5 DEF Held
  <2> QED BY <1>2, <1>3, <2>1, <2>6, OnlyHolds
<1>8. srv' = srv \/ (srv[a].keys[k] = NoKey /\ srv' = Put(a, k, o))
  BY <1>1 DEF RestoreLate, RestoreOk, Restore, Put
<1> QED BY <1>6, <1>7, <1>8

\* What SETSLOT leaves alone, and what it does to mig[]
Marked(n, j, what, x) ==
  /\ mix' = mix /\ late' = late /\ last' = last /\ broke' = broke
  /\ \A c \in Node \ {n} : srv'[c] = srv[c]
  /\ srv'[n].up = srv[n].up /\ srv'[n].clash = srv[n].clash /\ srv'[n].nodes = srv[n].nodes
  /\ srv'[n].name = srv[n].name /\ srv'[n].keys = srv[n].keys
  /\ \A i \in Slot : srv'[n].mig[i] = IF i = j /\ what = "migrating" THEN x ELSE srv[n].mig[i]

LEMMA SetSlotMarks ==
  ASSUME KeysInv, NEW n \in Node, NEW j \in Slot, NEW what \in {"migrating", "importing"},
         NEW x \in Name, SetSlot(n, j, what, x)
  PROVE  Marked(n, j, what, x)
<1>1. PICK s : s = srv[n]
  BY Zenon
<1>2. s \in Server /\ s.mig \in [Slot -> MaybeName] /\ s.imp \in [Slot -> MaybeName] /\ DOMAIN srv = Node
  BY <1>1, ServerFields DEF KeysInv, ClusterInv
<1>3. PICK M : M = CASE what = "migrating" -> x [] what = "stable" -> NoName [] OTHER -> s.mig[j]
  BY Zenon
<1>4. PICK I : I = CASE what = "importing" -> x [] what = "stable" -> NoName [] OTHER -> s.imp[j]
  BY Zenon
<1>5. M = IF what = "migrating" THEN x ELSE s.mig[j]
  BY <1>3
<1>6. PICK u : u = [s EXCEPT !.mig[j] = M, !.imp[j] = I]
  BY Zenon
<1>7. PICK t : t = [u EXCEPT !.file = GenNodesDescription(u)]
  BY Zenon
<1>8. srv' = [srv EXCEPT ![n] = t]
  <2>1. [s EXCEPT !.mig[j] = M].imp[j] = s.imp[j]
    BY <1>2 DEF Server
  <2> QED BY <1>1, <1>3, <1>4, <1>6, <1>7, <2>1 DEF SetSlot, SaveConfig
<1>9. /\ u.up = s.up /\ u.clash = s.clash /\ u.nodes = s.nodes /\ u.name = s.name /\ u.keys = s.keys
      /\ \A i \in Slot : u.mig[i] = IF i = j THEN M ELSE s.mig[i]
  BY <1>2, <1>6 DEF Server
<1>10. t.up = u.up /\ t.clash = u.clash /\ t.nodes = u.nodes /\ t.name = u.name /\ t.keys = u.keys /\ t.mig = u.mig
  <2>1. DOMAIN u = DOMAIN s /\ DOMAIN s = DOMAIN t
    BY <1>6, <1>7
  <2> QED BY <1>7
<1>11. mix' = mix /\ late' = late /\ last' = last /\ broke' = broke
  BY DEF SetSlot
<1>12. srv'[n] = t /\ \A c \in Node \ {n} : srv'[c] = srv[c]
  BY <1>2, <1>8
<1> QED BY <1>1, <1>5, <1>9, <1>10, <1>11, <1>12 DEF Marked

LEMMA SetSlotHolds ==
  ASSUME KeysInv, ClusterInv', NEW c \in mix.setslot, SetSlot(c[1], c[2], c[3], c[4])
  PROVE  KeysInv'
<1>1. PICK n, j, what, x : n = c[1] /\ j = c[2] /\ what = c[3] /\ x = c[4]
  BY Zenon
<1>2. /\ mix.setslot \subseteq Node \X Slot \X {"migrating", "importing", "stable"} \X Name
      /\ what # "stable" /\ (what = "migrating" => x[2] = 0 /\ x[1] # n)
  BY <1>1 DEF KeysInv, ClusterInv, Mix, Procedure
<1>3. /\ n \in Node /\ j \in Slot /\ what \in {"migrating", "importing"} /\ x \in Name
      /\ c = <<n, j, what, x>>
  BY <1>1, <1>2
<1>4. Marked(n, j, what, x) /\ x \in DOMAIN srv[n].nodes
  <2>1. SetSlot(n, j, what, x)
    BY <1>1
  <2>2. x \in DOMAIN srv[n].nodes
    BY <1>3, <2>1 DEF SetSlot
  <2> QED BY <1>3, <2>1, <2>2, SetSlotMarks
<1>5. x # NoName /\ x[1] \in Node
  BY <1>3, NobodysName DEF Name
<1>6. what = "migrating" => mix.owner[j] = n
  <2>1. what = "migrating" => srv[n].owner[j] = srv[n].name
    BY <1>1 DEF SetSlot
  <2> QED BY <1>3, <2>1, ServedAt
<1>7. what = "migrating" /\ srv[n].mig[j] # NoName => srv[n].mig[j] = x
  <2> SUFFICES ASSUME what = "migrating", srv[n].mig[j] # NoName PROVE srv[n].mig[j] = x
    OBVIOUS
  <2>1. PICK g : g = srv[n].mig[j]
    BY Zenon
  <2>2. PICK d : d = <<n, j, "migrating", g>>
    BY Zenon
  <2>3. d \in mix.setslot
    BY <1>3, <2>1, <2>2, Target DEF Goes
  <2>4. d[2] = j /\ d[3] = "migrating" /\ d[4] = g
    BY <2>2
  <2> QED BY <1>1, <2>1, <2>3, <2>4 DEF KeysInv, Procedure
<1>8. ASSUME NEW a \in Node PROVE Steady(a)'
  <2>1. Owned(a)' = Owned(a) /\ Steady(a)
    BY <1>4 DEF Owned, KeysInv, Marked
  <2>2. CASE a # n
    BY <1>4, <2>1, <2>2 DEF Steady, Marked
  <2>3. CASE a = n
    <3>1. ASSUME NEW i \in Slot, srv'[n].mig[i] # NoName
          PROVE  /\ mix'.owner[i] = n /\ srv'[n].mig[i] \in DOMAIN srv'[n].nodes
                 /\ <<n, i, "migrating", srv'[n].mig[i]>> \in mix'.setslot
      <4>1. CASE i = j /\ what = "migrating"
        BY <1>3, <1>4, <1>6, <4>1 DEF Marked
      <4>2. CASE ~(i = j /\ what = "migrating")
        BY <1>4, <2>1, <2>3, <3>1, <4>2 DEF Marked, Steady
      <4> QED BY <4>1, <4>2
    <3> QED BY <1>4, <2>1, <2>3, <3>1 DEF Steady, Marked
  <2> QED BY <2>2, <2>3
<1>9. ASSUME NEW k \in Key PROVE Held(k)'
  <2>1. PICK a, h, g : a = Home(k) /\ h = srv[a].keys[k] /\ g = srv[a].mig[SlotOf[k]]
    BY Zenon
  <2>2. a \in Node /\ HeldAt(k, a, h, g) /\ SlotOf[k] \in Slot
    BY <2>1, HomeFacts DEF Held
  <2>3. \A b \in Node : srv'[b].keys = srv[b].keys
    BY <1>4 DEF Marked
  <2>4. a = Home(k)' /\ h = srv'[a].keys[k] /\ last' = last /\ broke' = broke
    BY <1>4, <2>1, <2>2, <2>3 DEF Home, Marked
  <2>5. g # NoName => g[1] \in Node
    BY <2>1, <2>2, Target DEF Goes
  <2>6. HeldAt(k, a, h, g)'
    BY <2>2, <2>3, <2>4, <2>5 DEF HeldAt
  <2>7. PICK f : f = srv'[a].mig[SlotOf[k]]
    BY Zenon
  <2>8. f = g \/ (g = NoName /\ f = x /\ x[1] # a)
    BY <1>2, <1>4, <1>7, <2>1, <2>2, <2>7 DEF Marked
  <2>9. HeldAt(k, a, h, f)'
    <3>1. NoKey.v = 0
      BY DEF NoKey
    <3>2. CASE g = NoName /\ f = x /\ x[1] # a
      BY <1>5, <2>2, <2>3, <2>4, <3>1, <3>2 DEF HeldAt
    <3> QED BY <2>6, <2>8, <3>2
  <2> QED BY <2>4, <2>7, <2>9 DEF Held
<1>10. \A r \in late' : broke' /\ r[1] # Home(r[2])'
  BY <1>4 DEF KeysInv, Marked, Home
<1>11. Procedure(mix)' /\ DOMAIN last' = Key
  BY <1>4 DEF KeysInv, Marked
<1> QED BY <1>8, <1>9, <1>10, <1>11 DEF KeysInv

LEMMA InitHolds == Init /\ Procedure(mix) => KeysInv
<1> SUFFICES ASSUME Init, Procedure(mix) PROVE KeysInv
  OBVIOUS
<1>1. ClusterInv
  BY InitInv
<1>2. /\ mix \in Mix /\ srv = [n \in Node |-> Start(n)] /\ late = {} /\ broke = FALSE
      /\ last = [k \in Key |-> mix.value.v]
  BY MixAssumption DEF Init
<1>3. ASSUME NEW n \in Node
      PROVE  /\ srv[n].up /\ srv[n].nodes[srv[n].name].slots = Owned(n) /\ srv[n].clash = {}
             /\ \A j \in Slot : srv[n].mig[j] = NoName
             /\ \A k \in Key : srv[n].keys[k] = IF Home(k) = n THEN mix.value ELSE NoKey
  <2>1. PICK t : t = srv[n]
    BY Zenon
  <2>2. /\ t.up /\ t.nodes[t.name].slots = Owned(n) /\ t.clash = {} /\ t.mig = [j \in Slot |-> NoName]
        /\ t.keys = [k \in Key |-> IF mix.owner[SlotOf[k]] = n THEN mix.value ELSE NoKey]
    BY <1>2, <2>1, StartGood DEF Good, Running
  <2> QED BY <2>1, <2>2 DEF Home
<1>4. \A n \in Node : Steady(n)
  BY <1>3 DEF Steady
<1>5. ASSUME NEW k \in Key PROVE Held(k)
  <2>1. SlotOf[k] \in Slot /\ Home(k) \in Node
    BY <1>2, SlotAssumption DEF Mix, Home
  <2>2. NoKey.v = 0 /\ (mix.value = NoKey \/ mix.value.v # 0) /\ last[k] = mix.value.v
    BY <1>2 DEF NoKey, Procedure
  <2>3. /\ srv[Home(k)].keys[k] = mix.value /\ srv[Home(k)].mig[SlotOf[k]] = NoName
        /\ \A c \in Node \ {Home(k)} : srv[c].keys[k] = NoKey
    BY <1>3, <2>1
  <2>4. HeldAt(k, Home(k), mix.value, NoName)
    BY <2>2, <2>3 DEF HeldAt
  <2> QED BY <2>3, <2>4 DEF Held
<1> QED BY <1>1, <1>2, <1>4, <1>5 DEF KeysInv

LEMMA NextHolds == KeysInv /\ [Next]_vars => KeysInv'
<1> SUFFICES ASSUME KeysInv, [Next]_vars PROVE KeysInv'
  OBVIOUS
<1>0. ClusterInv /\ ClusterInv' /\ Procedure(mix) /\ \A n \in Node : srv[n].up
  BY NextKeepsInv DEF KeysInv, Steady
<1>1. ASSUME NEW a \in Node, NEW x \in Entries(a), ReadPong(a, x) \/ LinkError(a, x) PROVE KeysInv'
  <2>1. Calm
    BY <1>0, <1>1, ReadPongKeeps, LinkErrorKeeps
  <2>2. late' = late /\ last' = last /\ broke' = broke /\ mix' = mix
    BY <1>1 DEF ReadPong, LinkError
  <2> QED BY <1>0, <2>1, <2>2, CalmHolds DEF SameMix
<1>2. ASSUME NEW a \in Node, NEW x \in Entries(a), srv[a].nodes[x].out # <<>>,
             NEW g \in {NoName} \cup Entries(srv[a].nodes[x].addr), ReadPing(a, x, g)
      PROVE  KeysInv'
  <2>1. Calm
    BY <1>0, <1>2, ReadPingKeeps
  <2>2. late' = late /\ last' = last /\ broke' = broke /\ mix' = mix
    BY <1>2 DEF ReadPing
  <2> QED BY <1>0, <2>1, <2>2, CalmHolds DEF SameMix
<1>3. ASSUME NEW n \in Node, NEW p \in {NoName} \cup Entries(n), NEW g \in {NoName} \cup Entries(n),
             Cron(n, p, g)
      PROVE  KeysInv'
  <2>1. Calm
    BY <1>0, <1>3, CronKeeps
  <2>2. late' = late /\ last' = last /\ broke' = broke /\ mix' = mix
    BY <1>3 DEF Cron
  <2> QED BY <1>0, <2>1, <2>2, CalmHolds DEF SameMix
<1>4. CASE Tick \/ UNCHANGED vars
  <2>1. Calm /\ SameMix /\ late' = late /\ last' = last /\ broke' = broke
    BY <1>4 DEF Tick, vars, Calm, SameMix
  <2> QED BY <1>0, <2>1, CalmHolds
<1>5. \A n \in Node : ~Crash(n) /\ ~Restart(n) /\ ~RestartAlone(n)
  BY <1>0 DEF Procedure, Crash, Restart, RestartAlone
<1>6. ASSUME NEW n \in Node, NEW a \in Node, Meet(n, a) PROVE KeysInv'
  <2>1. Calm
    BY <1>0, <1>6, MeetKeeps
  <2>2. late' = late /\ last' = last /\ broke' = broke /\ mix' = [mix EXCEPT !.meets = @ \ {<<n, a>>}]
    BY <1>6 DEF Meet
  <2>3. SameMix
    BY <2>2, <1>0 DEF SameMix, ClusterInv, Mix
  <2> QED BY <1>0, <2>1, <2>2, <2>3, CalmHolds
<1>7. \A n \in Node, j \in Slot : ~AddSlots(n, j) /\ ~DelSlots(n, j)
  BY <1>0 DEF Procedure, AddSlots, DelSlots
<1>8. ASSUME NEW c \in mix.setslot, SetSlot(c[1], c[2], c[3], c[4]) PROVE KeysInv'
  BY <1>0, <1>8, SetSlotHolds
<1>9. ASSUME NEW n \in Node, NEW k \in Key, NEW v \in 0 .. 2, Write(n, k, v) PROVE KeysInv'
  BY <1>0, <1>9, WriteHolds
<1>10. ASSUME NEW n \in Node, NEW t \in Node, NEW k \in Key, NEW how \in {"answer", "silence"},
              Migrate(n, k, t, how)
       PROVE  KeysInv'
  BY <1>0, <1>10, MigrateHolds
<1>11. ASSUME NEW r \in late, RestoreLate(r) PROVE KeysInv'
  BY <1>0, <1>11, RestoreLateHolds
<1> QED BY <1>1, <1>2, <1>3, <1>4, <1>5, <1>6, <1>7, <1>8, <1>9, <1>10, <1>11 DEF Next

\* For any servers, slots, keys and bounds, when slots are moved by the
\* procedure above: a client that asks the owner of a slot, and goes where ASK
\* sends it, finds the last value written of every key, at every moment of the
\* move, also after a MIGRATE that timed out; and while none has, it finds no
\* key that was deleted (getNodeByQuery, migrateCommand, restoreCommand,
\* clusterCommand).
THEOREM KeysFound == Spec /\ Procedure(mix) => []RouteExact
<1>1. Init /\ Procedure(mix) => KeysInv
  BY InitHolds
<1>2. KeysInv /\ [Next]_vars => KeysInv'
  BY NextHolds
<1>3. KeysInv => RouteExact
  BY KeysInvRoutes
<1> QED BY <1>1, <1>2, <1>3, PTL DEF Spec
=============================================================================
