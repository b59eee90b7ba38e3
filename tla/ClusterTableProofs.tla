------------------------- MODULE ClusterTableProofs ------------------------
(***************************************************************************)
(* What every server believes of the cluster fits together (ClusterSound),  *)
(* for any set of servers, any number of slots and any mix of operations.   *)
(*                                                                          *)
(* The argument.  The names in a table say what the entries are: a positive *)
(* number marks a handshake, which owns no slot, and only the server itself *)
(* is "myself", without a link and never failing.  So the owner of a slot   *)
(* is an entry that is never freed, a PONG that is processed is about       *)
(* somebody else, and the slots it wins were not served here.  A PONG on    *)
(* the link of an entry comes from its address, because the links to a      *)
(* server break when it dies; the file says the same things of its lines,   *)
(* so that a restart finds them again.                                      *)
(*                                                                          *)
(* Here: the invariant, what every function of cluster.c does to the table  *)
(* of one server, and the steps that read a packet.                         *)
(***************************************************************************)
EXTENDS Cluster, TLAPS

Flag == {"myself", "handshake", "meet", "noaddr", "pfail", "fail"}
MaybeName == Name \cup {NoName}
RealName == {x \in Name : x[2] <= 0}
Gossip == [name : RealName, addr : Node, pong : Int, fails : BOOLEAN, noaddr : BOOLEAN]
Message ==
  [type : {"ping", "pong", "meet", "fail"}, from : Name, slots : SUBSET Slot,
   about : MaybeName, gossip : SUBSET Gossip]
Entry ==
  [flags : SUBSET Flag, slots : SUBSET Slot, addr : Node, ping : Int, pong : Int,
   link : {"none", "up", "dead"}, out : Seq(Message), back : Seq(Message)]
Line ==
  [flags : SUBSET Flag, addr : Node, pinged : BOOLEAN, ponged : BOOLEAN, slots : SUBSET Slot]
Table(S) == UNION {[D -> S] : D \in SUBSET Name}
File ==
  [name : Name, mig : [Slot -> MaybeName], imp : [Slot -> MaybeName], nodes : Table(Line)]
Server ==
  [name : Name, up : BOOLEAN, fault : BOOLEAN, clash : SUBSET Slot, cron : Int,
   file : File, state : {"ok", "fail"}, owner : [Slot -> MaybeName],
   mig : [Slot -> MaybeName], imp : [Slot -> MaybeName],
   nodes : Table(Entry), keys : [Key -> Value]]

(***************************************************************************)
(* The inductive invariant                                                  *)
(***************************************************************************)
\* What the name of an entry (or of a line of the file) says of it.
Fits(e, x, own) ==
  /\ e.addr = x[1]
  /\ "handshake" \in e.flags <=> x[2] > 0
  /\ "myself" \in e.flags <=> x = own
  /\ x = own => e.flags = {"myself"}
  /\ x[2] > 0 => e.slots = {}

\* The link of an entry: none to itself, none to a server that is down, and
\* the PONGs on it come from the server at its address.
LinkSound(e, x, own, alive) ==
  /\ x = own => e.link = "none"
  /\ e.link = "up" => e.addr \in alive
  /\ \A i \in DOMAIN e.back : e.back[i].from[1] = x[1] /\ e.back[i].from[2] <= 0

TableSound(N, own, alive) ==
  /\ N \in Table(Entry)
  /\ own \in DOMAIN N
  /\ \A x \in DOMAIN N : Fits(N[x], x, own) /\ LinkSound(N[x], x, own, alive)

OwnersSound(owner, N, own, clash) ==
  /\ \A j \in Slot : owner[j] = NoName \/ (owner[j] \in DOMAIN N /\ owner[j][2] <= 0)
  /\ \A j \in Slot \ clash : j \in N[own].slots <=> owner[j] = own

FileSound(f, n) ==
  /\ f.name \in DOMAIN f.nodes /\ f.name[1] = n /\ f.name[2] <= 0
  /\ \A x \in DOMAIN f.nodes : Fits(f.nodes[x], x, f.name)

Running(s, n, alive) ==
  /\ s \in Server /\ s.up
  /\ s.name[1] = n /\ s.name[2] <= 0
  /\ TableSound(s.nodes, s.name, alive)
  /\ OwnersSound(s.owner, s.nodes, s.name, s.clash)
  /\ FileSound(s.file, n)

Healthy(owner, N) ==
  \A j \in Slot : owner[j] # NoName /\ "fail" \notin N[owner[j]].flags
Exact(s) == s.state = IF Healthy(s.owner, s.nodes) THEN "ok" ELSE "fail"

Stopped(s, n) ==
  s \in Server /\ ~s.up /\ DOMAIN s.nodes = {} /\ FileSound(s.file, n)

Alive == {a \in Node : srv[a].up}

ClusterInv ==
  /\ mix \in Mix /\ now \in Int /\ late \subseteq Node \X Key \X Value
  /\ srv \in [Node -> Server]
  /\ \A n \in Node : IF srv[n].up THEN Running(srv[n], n, Alive) /\ Exact(srv[n])
                     ELSE Stopped(srv[n], n)

(***************************************************************************)
(* Tables and servers                                                       *)
(***************************************************************************)
LEMMA TableIntro ==
  ASSUME NEW S, NEW D, D \subseteq Name, NEW f \in [D -> S]
  PROVE  f \in Table(S) /\ DOMAIN f = D
BY DEF Table

LEMMA TableElim ==
  ASSUME NEW S, NEW f \in Table(S)
  PROVE  /\ f \in [DOMAIN f -> S] /\ DOMAIN f \subseteq Name
         /\ \A x \in DOMAIN f : f[x] \in S /\ x \in Name
<1>1. PICK D \in SUBSET Name : f \in [D -> S]
  BY DEF Table
<1> QED BY <1>1

\* NoName is the name of nobody.
LEMMA NobodysName == NoName \notin Name
BY NodeAssumption DEF NoName, Name

LEMMA EntryFields ==
  ASSUME NEW e \in Entry
  PROVE  /\ e.flags \subseteq Flag /\ e.slots \subseteq Slot /\ e.addr \in Node
         /\ e.ping \in Int /\ e.pong \in Int /\ e.link \in {"none", "up", "dead"}
         /\ e.out \in Seq(Message) /\ e.back \in Seq(Message)
BY DEF Entry

LEMMA ServerFields ==
  ASSUME NEW s \in Server
  PROVE  /\ s.name \in Name /\ s.up \in BOOLEAN /\ s.clash \subseteq Slot
         /\ s.file \in File /\ s.state \in {"ok", "fail"}
         /\ s.owner \in [Slot -> MaybeName] /\ s.mig \in [Slot -> MaybeName]
         /\ s.imp \in [Slot -> MaybeName] /\ s.nodes \in Table(Entry)
         /\ s.keys \in [Key -> Value]
BY DEF Server

\* Only the table changes.
LEMMA SetNodes ==
  ASSUME NEW s \in Server, NEW N \in Table(Entry)
  PROVE  LET t == [s EXCEPT !.nodes = N]
         IN /\ t \in Server /\ t.nodes = N /\ t.name = s.name /\ t.up = s.up
            /\ t.owner = s.owner /\ t.clash = s.clash /\ t.state = s.state
            /\ t.file = s.file /\ t.mig = s.mig /\ t.keys = s.keys
BY DEF Server

\* What a step of a server leaves alone, and that it forgets only handshakes.
Kept(s, t) ==
  /\ t.name = s.name /\ t.up = s.up /\ t.mig = s.mig /\ t.keys = s.keys /\ t.clash = s.clash
  /\ t.nodes[s.name].slots = s.nodes[s.name].slots
  /\ \A x \in DOMAIN s.nodes : x[2] <= 0 => x \in DOMAIN t.nodes

\* The tables N and M differ in handshakes, links and flags other than FAIL.
Alike(N, M, own) ==
  /\ M[own].slots = N[own].slots
  /\ \A x \in DOMAIN N : x[2] <= 0 =>
       x \in DOMAIN M /\ ("fail" \in M[x].flags <=> "fail" \in N[x].flags)

LEMMA Retable ==
  ASSUME NEW s, NEW n, NEW was, Running(s, n, was), NEW alive,
         NEW N, TableSound(N, s.name, alive),
         N[s.name].slots = s.nodes[s.name].slots,
         \A x \in DOMAIN s.nodes : x[2] <= 0 => x \in DOMAIN N
  PROVE  LET t == [s EXCEPT !.nodes = N]
         IN /\ Running(t, n, alive) /\ Kept(s, t)
            /\ t.nodes = N /\ t.owner = s.owner /\ t.state = s.state
<1> DEFINE t == [s EXCEPT !.nodes = N]
<1>1. s \in Server /\ N \in Table(Entry)
  BY DEF Running, TableSound
<1>2. /\ t \in Server /\ t.nodes = N /\ t.name = s.name /\ t.up = s.up
      /\ t.owner = s.owner /\ t.clash = s.clash /\ t.state = s.state
      /\ t.file = s.file /\ t.mig = s.mig /\ t.keys = s.keys
  BY <1>1, SetNodes
<1> HIDE DEF t
<1>3. OwnersSound(t.owner, t.nodes, t.name, t.clash)
  BY <1>2 DEF OwnersSound, Running
<1>4. Running(t, n, alive)
  BY <1>2, <1>3 DEF Running
<1>5. Kept(s, t)
  BY <1>2 DEF Kept
<1> QED BY <1>2, <1>4, <1>5 DEF t

LEMMA AlikeExact ==
  ASSUME NEW s, NEW n, NEW alive, Running(s, n, alive), Exact(s),
         NEW t, t.owner = s.owner, t.state = s.state, Alike(s.nodes, t.nodes, s.name)
  PROVE  Exact(t)
<1>1. \A j \in Slot : s.owner[j] # NoName =>
        ("fail" \in t.nodes[t.owner[j]].flags <=> "fail" \in s.nodes[s.owner[j]].flags)
  BY DEF Alike, Running, OwnersSound
<1>2. Healthy(t.owner, t.nodes) <=> Healthy(s.owner, s.nodes)
  BY <1>1 DEF Healthy
<1> QED BY <1>2 DEF Exact

\* clusterUpdateState
LEMMA UpdateStateKeeps ==
  ASSUME NEW s, NEW n, NEW alive, Running(s, n, alive)
  PROVE  LET t == UpdateState(s)
         IN Running(t, n, alive) /\ Exact(t) /\ Kept(s, t) /\ t.nodes = s.nodes /\ t.owner = s.owner
<1> DEFINE w == IF Healthy(s.owner, s.nodes) THEN "ok" ELSE "fail"
           t == [s EXCEPT !.state = w]
<1>1. UpdateState(s) = t
  BY DEF UpdateState, Healthy
<1>2. s \in Server /\ w \in {"ok", "fail"}
  BY DEF Running
<1>3. /\ t \in Server /\ t.state = w /\ t.nodes = s.nodes /\ t.name = s.name /\ t.up = s.up
      /\ t.owner = s.owner /\ t.clash = s.clash /\ t.file = s.file
      /\ t.mig = s.mig /\ t.keys = s.keys
  BY <1>2 DEF Server
<1> HIDE DEF t
<1>4. Running(t, n, alive) /\ Kept(s, t)
  BY <1>3 DEF Running, Kept
<1>5. Exact(t)
  BY <1>3 DEF Exact
<1> QED BY <1>1, <1>3, <1>4, <1>5

(***************************************************************************)
(* The file                                                                 *)
(***************************************************************************)
LEMMA LinesFit ==
  ASSUME NEW s, NEW n, NEW alive, Running(s, n, alive)
  PROVE  GenNodesDescription(s) \in File /\ FileSound(GenNodesDescription(s), n)
<1> DEFINE f == GenNodesDescription(s)
           line(x) == [flags |-> s.nodes[x].flags \ {"meet"}, addr |-> s.nodes[x].addr,
                       pinged |-> s.nodes[x].ping # 0, ponged |-> s.nodes[x].pong # 0,
                       slots |-> WrittenSlots(s.nodes[x].slots)]
           L == [x \in DOMAIN s.nodes |-> line(x)]
           I == [j \in Slot |-> IF s.mig[j] # NoName THEN NoName ELSE s.imp[j]]
<1>1. s \in Server /\ s.nodes \in Table(Entry)
  BY ServerFields DEF Running
<1>2. f = [name |-> s.name, mig |-> s.mig, imp |-> I, nodes |-> L]
  BY DEF GenNodesDescription
<1>3. DOMAIN s.nodes \subseteq Name /\ \A x \in DOMAIN s.nodes : s.nodes[x] \in Entry
  BY <1>1, TableElim
<1>4. \A S : S \subseteq Slot => WrittenSlots(S) \subseteq Slot
  BY SlotAssumption DEF WrittenSlots, Slot
<1>5. \A x \in DOMAIN s.nodes : line(x) \in Line
  <2> SUFFICES ASSUME NEW x \in DOMAIN s.nodes PROVE line(x) \in Line
    OBVIOUS
  <2>1. /\ s.nodes[x].flags \ {"meet"} \subseteq Flag /\ s.nodes[x].addr \in Node
        /\ WrittenSlots(s.nodes[x].slots) \subseteq Slot
    BY <1>3, <1>4, EntryFields
  <2> QED BY <2>1 DEF Line
<1>6. L \in Table(Line) /\ DOMAIN L = DOMAIN s.nodes
  BY <1>3, <1>5, TableIntro
<1>7. I \in [Slot -> MaybeName] /\ s.mig \in [Slot -> MaybeName] /\ s.name \in Name
  BY <1>1, ServerFields DEF MaybeName
<1>8. f \in File
  BY <1>2, <1>6, <1>7 DEF File
<1>9. ASSUME NEW x \in DOMAIN s.nodes PROVE Fits(line(x), x, s.name)
  <2>1. Fits(s.nodes[x], x, s.name)
    BY DEF Running, TableSound
  <2>2. WrittenSlots({}) = {}
    BY DEF WrittenSlots
  <2> QED BY <2>1, <2>2 DEF Fits
<1>10. FileSound(f, n)
  <2>1. f.name = s.name /\ f.nodes = L
    BY <1>2
  <2>2. \A x \in DOMAIN L : L[x] = line(x)
    OBVIOUS
  <2> HIDE DEF f, line, L
  <2> QED BY <2>1, <2>2, <1>6, <1>9 DEF FileSound, Running, TableSound
<1> QED BY <1>8, <1>10

\* clusterSaveConfig
LEMMA SaveConfigKeeps ==
  ASSUME NEW s, NEW n, NEW alive, Running(s, n, alive)
  PROVE  LET t == SaveConfig(s)
         IN /\ Running(t, n, alive) /\ Kept(s, t) /\ t.nodes = s.nodes /\ t.owner = s.owner
            /\ Exact(s) => Exact(t)
<1> DEFINE f == GenNodesDescription(s)
           t == [s EXCEPT !.file = f]
<1>1. SaveConfig(s) = t
  BY DEF SaveConfig
<1>2. s \in Server /\ f \in File /\ FileSound(f, n)
  BY LinesFit DEF Running
<1> HIDE DEF f
<1>3. /\ t \in Server /\ t.state = s.state /\ t.nodes = s.nodes /\ t.name = s.name /\ t.up = s.up
      /\ t.owner = s.owner /\ t.clash = s.clash /\ t.file = f
      /\ t.mig = s.mig /\ t.keys = s.keys
  BY <1>2 DEF Server
<1> HIDE DEF t
<1>4. Running(t, n, alive) /\ Kept(s, t)
  BY <1>2, <1>3 DEF Running, Kept
<1>5. Exact(s) => Exact(t)
  BY <1>3 DEF Exact
<1> QED BY <1>1, <1>3, <1>4, <1>5

(***************************************************************************)
(* Entries and messages                                                     *)
(***************************************************************************)
Sound(e, x, own, alive) == e \in Entry /\ Fits(e, x, own) /\ LinkSound(e, x, own, alive)

LEMMA EntryOf ==
  ASSUME NEW s, NEW n, NEW alive, Running(s, n, alive), NEW x \in DOMAIN s.nodes
  PROVE  Sound(s.nodes[x], x, s.name, alive) /\ x \in Name
BY TableElim DEF Running, TableSound, Sound

LEMMA OwnEntry ==
  ASSUME NEW s, NEW n, NEW alive, Running(s, n, alive)
  PROVE  /\ s.name \in DOMAIN s.nodes /\ s.name \in Name /\ s.name[1] = n /\ s.name[2] <= 0
         /\ s.nodes[s.name].flags = {"myself"} /\ s.nodes[s.name].link = "none"
BY ServerFields DEF Running, TableSound, Fits, LinkSound

\* A table over the names D whose entries are sound.
LEMMA TableOf ==
  ASSUME NEW own, NEW alive, NEW D, D \subseteq Name, own \in D,
         NEW N, N = [x \in D |-> N[x]], \A x \in D : Sound(N[x], x, own, alive)
  PROVE  TableSound(N, own, alive) /\ DOMAIN N = D
<1>1. N \in [D -> Entry]
  BY DEF Sound
<1>2. N \in Table(Entry) /\ DOMAIN N = D
  BY <1>1, TableIntro
<1> QED BY <1>2 DEF TableSound, Sound

LEMMA SetEntry ==
  ASSUME NEW s, NEW n, NEW alive, Running(s, n, alive), NEW x \in DOMAIN s.nodes,
         NEW e, Sound(e, x, s.name, alive), x = s.name => e.slots = s.nodes[x].slots
  PROVE  LET t == [s EXCEPT !.nodes = [@ EXCEPT ![x] = e]]
         IN /\ Running(t, n, alive) /\ Kept(s, t)
            /\ DOMAIN t.nodes = DOMAIN s.nodes /\ t.owner = s.owner /\ t.state = s.state
            /\ t.nodes[x] = e
            /\ \A y \in DOMAIN s.nodes \ {x} : t.nodes[y] = s.nodes[y]
            /\ Exact(s) /\ ("fail" \in e.flags <=> "fail" \in s.nodes[x].flags) => Exact(t)
<1> DEFINE N == [s.nodes EXCEPT ![x] = e]
           t == [s EXCEPT !.nodes = N]
<1>1. DOMAIN s.nodes \subseteq Name /\ s.name \in DOMAIN s.nodes
  BY TableElim DEF Running, TableSound
<1>2. /\ N = [y \in DOMAIN s.nodes |-> N[y]] /\ N[x] = e /\ DOMAIN N = DOMAIN s.nodes
      /\ \A y \in DOMAIN s.nodes \ {x} : N[y] = s.nodes[y]
  OBVIOUS
<1> HIDE DEF N
<1>3. \A y \in DOMAIN s.nodes : Sound(N[y], y, s.name, alive)
  BY <1>2, EntryOf
<1>4. TableSound(N, s.name, alive)
  BY <1>1, <1>2, <1>3, TableOf
<1>5. N[s.name].slots = s.nodes[s.name].slots
  BY <1>1, <1>2
<1>6. Running(t, n, alive) /\ Kept(s, t) /\ t.nodes = N /\ t.owner = s.owner /\ t.state = s.state
  BY <1>2, <1>4, <1>5, Retable
<1> HIDE DEF t
<1>7. ASSUME Exact(s), "fail" \in e.flags <=> "fail" \in s.nodes[x].flags
      PROVE  Exact(t)
  <2>1. Alike(s.nodes, t.nodes, s.name)
    BY <1>2, <1>5, <1>6, <1>7 DEF Alike
  <2> QED BY <1>6, <1>7, <2>1, AlikeExact
<1>8. t = [s EXCEPT !.nodes = [@ EXCEPT ![x] = e]]
  BY DEF t, N
<1> QED BY <1>2, <1>6, <1>7, <1>8

\* Two entries that differ in what is on its way out and in the times.
SameBut(d, e) ==
  /\ d.flags = e.flags /\ d.slots = e.slots /\ d.addr = e.addr
  /\ d.link = e.link /\ d.back = e.back

LEMMA SameSound ==
  ASSUME NEW d, NEW e \in Entry, NEW x, NEW own, NEW alive, Sound(d, x, own, alive), SameBut(d, e)
  PROVE  Sound(e, x, own, alive)
BY DEF Sound, Fits, LinkSound, SameBut

LEMMA SendKeeps ==
  ASSUME NEW e \in Entry, NEW m \in Message
  PROVE  Send(e, m) \in Entry /\ SameBut(e, Send(e, m))
<1>1. Append(e.out, m) \in Seq(Message)
  BY EntryFields
<1> QED BY <1>1 DEF Send, Entry, SameBut

LEMMA PingedKeeps ==
  ASSUME NEW e \in Entry, NEW m \in Message, now \in Int
  PROVE  Pinged(e, m) \in Entry /\ SameBut(e, Pinged(e, m))
<1> DEFINE d == Send(e, m)
<1>1. d \in Entry /\ SameBut(e, d)
  BY SendKeeps
<1> HIDE DEF d
<1>2. d.ping \in Int
  BY <1>1, EntryFields
<1>3. Pinged(e, m) = [d EXCEPT !.ping = IF m.type = "ping" THEN now ELSE d.ping]
  BY DEF Pinged, d
<1> QED BY <1>1, <1>2, <1>3 DEF Entry, SameBut

LEMMA MessageBuilt ==
  ASSUME NEW s, NEW n, NEW alive, Running(s, n, alive),
         NEW type \in {"ping", "pong", "meet", "fail"}, NEW g \in (DOMAIN s.nodes \cap RealName) \cup {NoName}
  PROVE  LET m == BuildMessage(s, type, g)
         IN m \in Message /\ m.from = s.name /\ m.type = type
<1> DEFINE e == s.nodes[g]
           G == IF g = NoName THEN {}
                ELSE {[name |-> g, addr |-> e.addr, pong |-> e.pong,
                       fails |-> e.flags \cap {"fail", "pfail"} # {},
                       noaddr |-> "noaddr" \in e.flags]}
<1>1. BuildMessage(s, type, g) =
        [type |-> type, from |-> s.name, slots |-> s.nodes[s.name].slots, about |-> g, gossip |-> G]
  BY DEF BuildMessage
<1>2. s.name \in Name /\ s.nodes[s.name].slots \subseteq Slot
  BY OwnEntry, EntryOf, EntryFields DEF Sound
<1>3. g \in MaybeName
  BY EntryOf DEF MaybeName
<1>4. G \subseteq Gossip
  <2>1. CASE g = NoName
    BY <2>1
  <2>2. CASE g # NoName
    <3>1. g \in RealName /\ g \in Name /\ e.addr \in Node /\ e.pong \in Int
      BY <2>2, EntryOf, EntryFields DEF Sound
    <3> QED BY <2>2, <3>1 DEF Gossip
  <2> QED BY <2>1, <2>2
<1> HIDE DEF G
<1> QED BY <1>1, <1>2, <1>3, <1>4 DEF Message

LEMMA MessageFields ==
  ASSUME NEW m \in Message
  PROVE  /\ m.from \in Name /\ m.slots \subseteq Slot /\ m.about \in MaybeName
         /\ m.gossip \subseteq Gossip /\ m.type \in {"ping", "pong", "meet", "fail"}
BY DEF Message

(***************************************************************************)
(* Entries come and go                                                      *)
(***************************************************************************)
\* Good: between two steps.  Grown: nothing was forgotten.
Good(s, n, alive) == Running(s, n, alive) /\ Exact(s)
Grown(s, t) == Kept(s, t) /\ DOMAIN s.nodes \subseteq DOMAIN t.nodes

LEMMA NewEntry ==
  ASSUME NEW flags, flags \subseteq Flag \ {"myself"}, NEW a \in Node, NEW i \in Nat \ {0},
         NEW own, own[2] <= 0, NEW alive, "handshake" \in flags
  PROVE  Sound(CreateClusterNode(flags, a), <<a, i>>, own, alive)
<1> DEFINE e == CreateClusterNode(flags, a)
<1>1. e = [flags |-> flags, slots |-> {}, addr |-> a, ping |-> 0, pong |-> 0,
           link |-> "none", out |-> <<>>, back |-> <<>>]
  BY DEF CreateClusterNode
<1>2. e \in Entry
  <2>1. <<>> \in Seq(Message)
    OBVIOUS
  <2> QED BY <1>1, <2>1 DEF Entry
<1>3. Fits(e, <<a, i>>, own)
  BY <1>1 DEF Fits
<1>4. LinkSound(e, <<a, i>>, own, alive)
  BY <1>1 DEF LinkSound
<1> QED BY <1>2, <1>3, <1>4 DEF Sound

\* clusterAddNode of a handshake under a name that is free
LEMMA AddHandshakeKeeps ==
  ASSUME NEW s, NEW n, NEW alive, Running(s, n, alive), NEW a \in Node, FreeNames(s, a) # {},
         NEW flags, flags \subseteq {"meet"}
  PROVE  LET t == AddHandshake(s, flags, a)
         IN Running(t, n, alive) /\ Grown(s, t) /\ (Exact(s) => Exact(t))
<1>1. PICK x : x = CHOOSE y \in FreeNames(s, a) : TRUE
  BY Zenon
<1>2. x \in FreeNames(s, a)
  BY <1>1
<1>3. PICK i \in Nat \ {0} : x = <<a, i>>
  BY <1>2, BoundAssumption DEF FreeNames
<1>4. x \in Name /\ x \notin DOMAIN s.nodes
  BY <1>2, <1>3 DEF FreeNames, Name
<1>5. PICK e : e = CreateClusterNode({"handshake"} \cup flags, a)
  BY Zenon
<1>6. Sound(e, x, s.name, alive)
  <2>1. {"handshake"} \cup flags \subseteq Flag \ {"myself"}
    BY DEF Flag
  <2> QED BY <1>3, <1>5, <2>1, NewEntry, OwnEntry
<1> DEFINE D == DOMAIN s.nodes \cup {x}
           N == [y \in D |-> IF y = x THEN e ELSE s.nodes[y]]
           t == [s EXCEPT !.nodes = N]
<1>7. AddHandshake(s, flags, a) = t
  BY <1>1, <1>5 DEF AddHandshake, AddNode
<1>8. D \subseteq Name /\ s.name \in D /\ s.name # x
  BY <1>4, EntryOf, OwnEntry
<1>9. N = [y \in D |-> N[y]] /\ \A y \in DOMAIN s.nodes : N[y] = s.nodes[y]
  BY <1>4
<1>10. \A y \in D : Sound(N[y], y, s.name, alive)
  BY <1>6, EntryOf
<1> HIDE DEF N
<1>11. TableSound(N, s.name, alive) /\ DOMAIN N = D
  BY <1>8, <1>9, <1>10, TableOf
<1>12. N[s.name].slots = s.nodes[s.name].slots
  BY <1>9, OwnEntry
<1>13. /\ Running(t, n, alive) /\ Kept(s, t) /\ t.nodes = N
       /\ t.owner = s.owner /\ t.state = s.state
  BY <1>11, <1>12, Retable
<1> HIDE DEF t
<1>14. Alike(s.nodes, t.nodes, s.name)
  BY <1>9, <1>11, <1>12, <1>13 DEF Alike
<1>15. Exact(s) => Exact(t)
  BY <1>13, <1>14, AlikeExact
<1> QED BY <1>7, <1>11, <1>13, <1>15 DEF Grown

\* freeClusterNode of a handshake
LEMMA FreeKeeps ==
  ASSUME NEW s, NEW n, NEW alive, Running(s, n, alive), NEW x \in DOMAIN s.nodes, x[2] > 0
  PROVE  LET t == FreeClusterNode(s, x)
         IN /\ Running(t, n, alive) /\ Kept(s, t) /\ (Exact(s) => Exact(t))
            /\ t.owner = s.owner /\ t.state = s.state
            /\ t.nodes = [y \in DOMAIN s.nodes \ {x} |-> s.nodes[y]]
<1> DEFINE D == DOMAIN s.nodes \ {x}
           N == [y \in D |-> s.nodes[y]]
           t == [s EXCEPT !.nodes = N]
<1>1. FreeClusterNode(s, x) = t
  BY DEF FreeClusterNode
<1>2. x \in Name /\ s.name \in Name
  BY EntryOf, OwnEntry
<1>3. D \subseteq Name /\ s.name \in D
  BY <1>2, EntryOf, OwnEntry DEF Name
<1>4. N = [y \in D |-> N[y]] /\ \A y \in D : N[y] = s.nodes[y]
  OBVIOUS
<1>5. \A y \in D : Sound(N[y], y, s.name, alive)
  BY EntryOf
<1>6. \A y \in DOMAIN s.nodes : y[2] <= 0 => y \in D
  BY <1>2, EntryOf DEF Name
<1>7. N[s.name].slots = s.nodes[s.name].slots
  BY <1>3
<1> HIDE DEF N, D
<1>8. TableSound(N, s.name, alive) /\ DOMAIN N = D
  BY <1>3, <1>4, <1>5, TableOf
<1>9. /\ Running(t, n, alive) /\ Kept(s, t) /\ t.nodes = N
      /\ t.owner = s.owner /\ t.state = s.state
  BY <1>6, <1>7, <1>8, Retable
<1> HIDE DEF t
<1>10. Alike(s.nodes, t.nodes, s.name)
  BY <1>4, <1>6, <1>7, <1>8, <1>9 DEF Alike
<1>11. Exact(s) => Exact(t)
  BY <1>9, <1>10, AlikeExact
<1> QED BY <1>1, <1>9, <1>11 DEF N, D

\* clusterSendFail
LEMMA SendFailKeeps ==
  ASSUME NEW s, NEW n, NEW alive, Running(s, n, alive), NEW x \in DOMAIN s.nodes
  PROVE  LET t == SendFail(s, x)
         IN /\ Running(t, n, alive) /\ Grown(s, t)
<1>1. PICK m : m = [BuildMessage(s, "fail", NoName) EXCEPT !.about = x]
  BY Zenon
<1>2. m \in Message
  <2>1. PICK b : b = BuildMessage(s, "fail", NoName)
    BY Zenon
  <2>2. b \in Message
    BY <2>1, MessageBuilt
  <2>3. x \in MaybeName
    BY EntryOf DEF MaybeName
  <2> QED BY <1>1, <2>1, <2>2, <2>3 DEF Message
<1> DEFINE D == DOMAIN s.nodes
           N == [y \in D |-> IF s.nodes[y].flags \cap {"myself", "noaddr"} = {}
                             THEN Send(s.nodes[y], m) ELSE s.nodes[y]]
           t == [s EXCEPT !.nodes = N]
<1>3. SendFail(s, x) = t
  BY <1>1 DEF SendFail
<1>4. D \subseteq Name /\ s.name \in D
  BY EntryOf, OwnEntry
<1>5. \A y \in D : Sound(N[y], y, s.name, alive) /\ SameBut(s.nodes[y], N[y])
  <2> SUFFICES ASSUME NEW y \in D PROVE Sound(N[y], y, s.name, alive) /\ SameBut(s.nodes[y], N[y])
    OBVIOUS
  <2>1. s.nodes[y] \in Entry /\ Sound(s.nodes[y], y, s.name, alive)
    BY EntryOf DEF Sound
  <2>2. CASE N[y] = Send(s.nodes[y], m)
    BY <1>2, <2>1, <2>2, SendKeeps, SameSound
  <2>3. CASE N[y] = s.nodes[y]
    BY <2>1, <2>3 DEF SameBut
  <2> QED BY <2>2, <2>3
<1>6. N = [y \in D |-> N[y]]
  OBVIOUS
<1> HIDE DEF N
<1>7. TableSound(N, s.name, alive) /\ DOMAIN N = D
  BY <1>4, <1>5, <1>6, TableOf
<1>8. N[s.name].slots = s.nodes[s.name].slots
  BY <1>4, <1>5 DEF SameBut
<1>9. Running(t, n, alive) /\ Kept(s, t) /\ t.nodes = N
  BY <1>7, <1>8, Retable
<1> HIDE DEF t
<1> QED BY <1>3, <1>7, <1>9 DEF Grown

(***************************************************************************)
(* Packets                                                                  *)
(***************************************************************************)
\* The flags of somebody else's entry change, the lasting ones excepted.
LEMMA FlagsKeep ==
  ASSUME NEW s, NEW n, NEW alive, Running(s, n, alive), NEW x \in DOMAIN s.nodes, x # s.name,
         NEW F, F \subseteq Flag, "myself" \notin F,
         "handshake" \in F <=> "handshake" \in s.nodes[x].flags
  PROVE  LET t == [s EXCEPT !.nodes[x].flags = F]
         IN /\ Running(t, n, alive) /\ Grown(s, t)
            /\ Exact(s) /\ ("fail" \in F <=> "fail" \in s.nodes[x].flags) => Exact(t)
<1>1. PICK d : d = s.nodes[x]
  BY Zenon
<1>2. PICK e : e = [d EXCEPT !.flags = F]
  BY Zenon
<1>3. Sound(d, x, s.name, alive) /\ d \in Entry
  BY <1>1, EntryOf DEF Sound
<1>4. e \in Entry /\ e.flags = F /\ e.slots = d.slots /\ e.addr = d.addr /\ e.link = d.link /\ e.back = d.back
  BY <1>2, <1>3 DEF Entry
<1>5. Sound(e, x, s.name, alive)
  BY <1>1, <1>3, <1>4 DEF Sound, Fits, LinkSound
<1>6. [s EXCEPT !.nodes[x].flags = F] = [s EXCEPT !.nodes = [@ EXCEPT ![x] = e]]
  BY <1>1, <1>2
<1>7. "fail" \in e.flags <=> "fail" \in F
  BY <1>4
<1> QED BY <1>5, <1>6, <1>7, SetEntry DEF Grown

LEMMA MarkFailKeeps ==
  ASSUME NEW s, NEW n, NEW alive, Running(s, n, alive), NEW x \in DOMAIN s.nodes, x # s.name
  PROVE  LET t == MarkFail(s, x)
         IN Good(t, n, alive) /\ Grown(s, t)
<1>1. PICK F : F = (s.nodes[x].flags \ {"pfail"}) \cup {"fail"}
  BY Zenon
<1>2. /\ F \subseteq Flag /\ "myself" \notin F
      /\ "handshake" \in F <=> "handshake" \in s.nodes[x].flags
  BY <1>1, EntryOf, EntryFields DEF Sound, Fits, Flag
<1>3. PICK f : f = [s EXCEPT !.nodes[x].flags = F]
  BY Zenon
<1>4. Running(f, n, alive) /\ Grown(s, f)
  BY <1>2, <1>3, FlagsKeep
<1>5. PICK u : u = SendFail(f, x)
  BY Zenon
<1>6. x \in DOMAIN f.nodes
  BY <1>4 DEF Grown
<1>7. Running(u, n, alive) /\ Grown(f, u)
  BY <1>4, <1>5, <1>6, SendFailKeeps
<1>8. PICK v : v = UpdateState(u)
  BY Zenon
<1>9. Running(v, n, alive) /\ Exact(v) /\ Kept(u, v) /\ v.nodes = u.nodes
  BY <1>7, <1>8, UpdateStateKeeps
<1>10. PICK w : w = SaveConfig(v)
  BY Zenon
<1>11. Running(w, n, alive) /\ Exact(w) /\ Kept(v, w) /\ w.nodes = v.nodes
  BY <1>9, <1>10, SaveConfigKeeps
<1>12. MarkFail(s, x) = w
  BY <1>1, <1>3, <1>5, <1>8, <1>10 DEF MarkFail
<1>13. Grown(s, w)
  BY <1>4, <1>7, <1>9, <1>11 DEF Grown, Kept
<1> QED BY <1>11, <1>12, <1>13 DEF Good

\* The times of an entry
LEMMA PongKeeps ==
  ASSUME NEW s, NEW n, NEW alive, Running(s, n, alive), NEW x \in DOMAIN s.nodes, NEW p \in Int
  PROVE  LET t == [s EXCEPT !.nodes[x].pong = p]
         IN /\ Running(t, n, alive) /\ Grown(s, t) /\ (Exact(s) => Exact(t))
            /\ DOMAIN t.nodes = DOMAIN s.nodes /\ t.nodes[x].flags = s.nodes[x].flags
<1>1. PICK d : d = s.nodes[x]
  BY Zenon
<1>2. PICK e : e = [d EXCEPT !.pong = p]
  BY Zenon
<1>3. Sound(d, x, s.name, alive) /\ d \in Entry
  BY <1>1, EntryOf DEF Sound
<1>4. e \in Entry /\ SameBut(d, e)
  BY <1>2, <1>3 DEF Entry, SameBut
<1>5. Sound(e, x, s.name, alive)
  BY <1>3, <1>4, SameSound
<1>6. [s EXCEPT !.nodes[x].pong = p] = [s EXCEPT !.nodes = [@ EXCEPT ![x] = e]]
  BY <1>1, <1>2
<1>7. e.flags = s.nodes[x].flags /\ e.slots = s.nodes[x].slots
  BY <1>1, <1>4 DEF SameBut
<1> QED BY <1>5, <1>6, <1>7, SetEntry DEF Grown

LEMMA GossipKeeps ==
  ASSUME NEW s, NEW n, NEW alive, Running(s, n, alive), NEW m \in Message, NEW known,
         known => \A g \in m.gossip : g.name \in DOMAIN s.nodes \/ FreeNames(s, g.addr) # {}
  PROVE  LET t == ProcessGossipSection(s, m, known)
         IN Running(t, n, alive) /\ Grown(s, t) /\ (Exact(s) => Exact(t))
<1>0. PICK t : t = ProcessGossipSection(s, m, known)
  BY Zenon
<1> SUFFICES Running(t, n, alive) /\ Grown(s, t) /\ (Exact(s) => Exact(t))
  BY <1>0
<1>1. CASE m.gossip = {}
  <2>1. t = s
    BY <1>0, <1>1 DEF ProcessGossipSection
  <2> QED BY <2>1 DEF Grown, Kept
<1>2. CASE m.gossip # {}
  <2>1. PICK g : g = CHOOSE h \in m.gossip : TRUE
    BY Zenon
  <2>2. g \in m.gossip /\ g \in Gossip
    BY <1>2, <2>1, MessageFields
  <2>3. g.addr \in Node /\ g.pong \in Int
    BY <2>2 DEF Gossip
  <2>4. CASE g.name \in DOMAIN s.nodes
    <3>1. PICK x, p : /\ x = g.name
                      /\ p = IF s.nodes[x].pong < g.pong THEN g.pong ELSE s.nodes[x].pong
      BY Zenon
    <3>2. PICK u : u = [s EXCEPT !.nodes[x].pong = p]
      BY Zenon
    <3>3. p \in Int
      BY <2>3, <2>4, <3>1, EntryOf, EntryFields DEF Sound
    <3>4. /\ Running(u, n, alive) /\ Grown(s, u) /\ (Exact(s) => Exact(u))
          /\ DOMAIN u.nodes = DOMAIN s.nodes
      BY <2>4, <3>1, <3>2, <3>3, PongKeeps
    <3>5. t = IF "pfail" \in u.nodes[x].flags /\ g.fails THEN MarkFail(u, x) ELSE u
      BY <1>0, <1>2, <2>1, <2>4, <3>1, <3>2 DEF ProcessGossipSection
    <3>6. CASE "pfail" \in u.nodes[x].flags
      <4>1. x # u.name
        BY <2>4, <3>1, <3>4, <3>6, OwnEntry
      <4>2. PICK v : v = MarkFail(u, x)
        BY Zenon
      <4>3. Good(v, n, alive) /\ Grown(u, v)
        BY <2>4, <3>1, <3>4, <4>1, <4>2, MarkFailKeeps
      <4>4. Grown(s, v)
        BY <3>4, <4>3 DEF Grown, Kept
      <4> QED BY <3>4, <3>5, <4>2, <4>3, <4>4 DEF Good
    <3>7. CASE ~("pfail" \in u.nodes[x].flags)
      <4> QED BY <3>4, <3>5, <3>7
    <3> QED BY <3>6, <3>7
  <2>5. CASE g.name \notin DOMAIN s.nodes /\ known /\ ~g.noaddr
    <3>1. t = AddHandshake(s, {}, g.addr)
      BY <1>0, <1>2, <2>1, <2>5 DEF ProcessGossipSection
    <3>2. FreeNames(s, g.addr) # {}
      BY <2>2, <2>5
    <3> QED BY <2>3, <3>1, <3>2, AddHandshakeKeeps
  <2>6. CASE g.name \notin DOMAIN s.nodes /\ ~(known /\ ~g.noaddr)
    <3>1. t = s
      BY <1>0, <1>2, <2>1, <2>6 DEF ProcessGossipSection
    <3> QED BY <3>1 DEF Grown, Kept
  <2> QED BY <2>4, <2>5, <2>6
<1> QED BY <1>1, <1>2

LEMMA ProcessFailKeeps ==
  ASSUME NEW s, NEW n, NEW alive, Good(s, n, alive), NEW m \in Message
  PROVE  LET t == ProcessFail(s, m) IN Good(t, n, alive) /\ Grown(s, t)
<1>1. PICK x, F : x = m.about /\ F = (s.nodes[x].flags \ {"pfail"}) \cup {"fail"}
  BY Zenon
<1>2. CASE /\ {m.from, m.about} \subseteq DOMAIN s.nodes
           /\ s.nodes[m.about].flags \cap {"fail", "myself"} = {}
  <2>1. x \in DOMAIN s.nodes /\ "myself" \notin s.nodes[x].flags
    BY <1>1, <1>2
  <2>2. x # s.name
    BY <2>1, OwnEntry DEF Good
  <2>3. /\ F \subseteq Flag /\ "myself" \notin F
        /\ "handshake" \in F <=> "handshake" \in s.nodes[x].flags
    BY <1>1, <2>1, EntryOf, EntryFields DEF Sound, Flag, Good
  <2>4. PICK f : f = [s EXCEPT !.nodes[x].flags = F]
    BY Zenon
  <2>5. Running(f, n, alive) /\ Grown(s, f)
    BY <2>1, <2>2, <2>3, <2>4, FlagsKeep DEF Good
  <2>6. PICK v : v = UpdateState(f)
    BY Zenon
  <2>7. Running(v, n, alive) /\ Exact(v) /\ Kept(f, v) /\ v.nodes = f.nodes
    BY <2>5, <2>6, UpdateStateKeeps
  <2>8. PICK w : w = SaveConfig(v)
    BY Zenon
  <2>9. Running(w, n, alive) /\ Exact(w) /\ Kept(v, w) /\ w.nodes = v.nodes
    BY <2>7, <2>8, SaveConfigKeeps
  <2>10. ProcessFail(s, m) = w
    BY <1>1, <1>2, <2>4, <2>6, <2>8 DEF ProcessFail
  <2> QED BY <2>5, <2>7, <2>9, <2>10 DEF Grown, Kept, Good
<1>3. CASE ~ /\ {m.from, m.about} \subseteq DOMAIN s.nodes
             /\ s.nodes[m.about].flags \cap {"fail", "myself"} = {}
  <2>1. ProcessFail(s, m) = s
    BY <1>3 DEF ProcessFail
  <2> QED BY <2>1 DEF Grown, Kept
<1> QED BY <1>2, <1>3

LEMMA ProcessPingKeeps ==
  ASSUME NEW s, NEW n, NEW alive, Good(s, n, alive), NEW m \in Message, NEW a \in Node,
         RoomFor(s, m, a)
  PROVE  LET t == ProcessPing(s, m, a) IN Good(t, n, alive) /\ Grown(s, t)
<1>1. PICK new : new = (m.type = "meet" /\ m.from \notin DOMAIN s.nodes)
  BY Zenon
<1>2. PICK u : u = IF new THEN AddHandshake(s, {}, a) ELSE s
  BY Zenon
<1>3. PICK known : known = (m.from \in DOMAIN s.nodes)
  BY Zenon
<1>4. Running(u, n, alive) /\ Grown(s, u) /\ Exact(u) /\ (known => u = s)
  <2>1. CASE new
    BY <1>1, <1>2, <1>3, <2>1, AddHandshakeKeeps DEF RoomFor, Good
  <2>2. CASE ~new
    BY <1>2, <2>2 DEF Good, Grown, Kept
  <2> QED BY <2>1, <2>2
<1>5. PICK t : t = ProcessGossipSection(u, m, known)
  BY Zenon
<1>6. Running(t, n, alive) /\ Grown(u, t) /\ Exact(t)
  BY <1>4, <1>5, GossipKeeps DEF RoomFor
<1>7. PICK w : w = SaveConfig(t)
  BY Zenon
<1>8. Running(w, n, alive) /\ Exact(w) /\ Kept(t, w) /\ w.nodes = t.nodes
  BY <1>6, <1>7, SaveConfigKeeps
<1>9. ProcessPing(s, m, a) = IF new THEN w ELSE t
  BY <1>1, <1>2, <1>3, <1>5, <1>7 DEF ProcessPing
<1>10. Grown(s, t) /\ Grown(s, w)
  BY <1>4, <1>6, <1>8 DEF Grown, Kept
<1> QED BY <1>6, <1>8, <1>9, <1>10 DEF Good

\* The slots a PONG claims
LEMMA ClaimKeeps ==
  ASSUME NEW s, NEW n, NEW alive, Running(s, n, alive), NEW x \in DOMAIN s.nodes,
         x # s.name, x[2] <= 0, NEW S, S \subseteq Slot
  PROVE  LET c == ClaimSlots(s, x, S)
         IN /\ Running(c.st, n, alive) /\ Kept(s, c.st) /\ DOMAIN c.st.nodes = DOMAIN s.nodes
            /\ ~c.won /\ Exact(s) => Exact(c.st)
<1>1. PICK won : won = {j \in S : /\ S # s.nodes[x].slots
                                  /\ s.owner[j] # x
                                  /\ \/ s.owner[j] = NoName
                                     \/ "fail" \in s.nodes[s.owner[j]].flags}
  BY Zenon
<1>2. PICK d, e : d = s.nodes[x] /\ e = [d EXCEPT !.slots = S]
  BY Zenon
<1>3. Sound(d, x, s.name, alive) /\ d \in Entry /\ x \in Name
  BY <1>2, EntryOf DEF Sound
<1>4. e \in Entry /\ e.slots = S /\ e.flags = d.flags /\ e.addr = d.addr /\ e.link = d.link /\ e.back = d.back
  BY <1>2, <1>3 DEF Entry
<1>5. Sound(e, x, s.name, alive)
  BY <1>3, <1>4 DEF Sound, Fits, LinkSound, Name
<1>6. PICK u : u = [s EXCEPT !.nodes = [@ EXCEPT ![x] = e]]
  BY Zenon
<1>7. /\ Running(u, n, alive) /\ Kept(s, u) /\ DOMAIN u.nodes = DOMAIN s.nodes
      /\ u.owner = s.owner /\ u.state = s.state /\ u.nodes[x] = e
      /\ \A y \in DOMAIN s.nodes \ {x} : u.nodes[y] = s.nodes[y]
      /\ Exact(s) => Exact(u)
  <2>1. "fail" \in e.flags <=> "fail" \in s.nodes[x].flags
    BY <1>2, <1>4
  <2> QED BY <1>5, <1>6, <2>1, SetEntry
<1>8. PICK O : O = [j \in Slot |-> IF j \in won THEN x ELSE s.owner[j]]
  BY Zenon
<1>9. PICK t : t = [u EXCEPT !.owner = O]
  BY Zenon
<1>10. u \in Server /\ s.owner \in [Slot -> MaybeName] /\ O \in [Slot -> MaybeName]
  BY <1>3, <1>7, <1>8, ServerFields DEF Running, MaybeName
<1>11. /\ t \in Server /\ t.owner = O /\ t.nodes = u.nodes /\ t.name = u.name /\ t.up = u.up
       /\ t.clash = u.clash /\ t.state = u.state /\ t.file = u.file
       /\ t.mig = u.mig /\ t.keys = u.keys
  BY <1>9, <1>10 DEF Server
<1>12. \A j \in Slot : O[j] = NoName \/ (O[j] \in DOMAIN u.nodes /\ O[j][2] <= 0)
  BY <1>7, <1>8 DEF Running, OwnersSound
<1>13. ASSUME NEW j \in Slot \ u.clash PROVE j \in u.nodes[u.name].slots <=> O[j] = u.name
  <2>1. j \in u.nodes[u.name].slots <=> u.owner[j] = u.name
    BY <1>7 DEF OwnersSound, Running
  <2>2. j \in won => s.owner[j] # s.name
    <3>1. "fail" \notin s.nodes[s.name].flags /\ s.name # NoName
      BY OwnEntry, NobodysName
    <3> QED BY <1>1, <3>1
  <2> QED BY <1>7, <1>8, <2>1, <2>2 DEF Kept
<1>14. Running(t, n, alive)
  BY <1>7, <1>11, <1>12, <1>13 DEF Running, OwnersSound
<1>15. won = {} => O = s.owner
  BY <1>8, <1>10
<1>16. won = {} /\ Exact(s) => Exact(t)
  BY <1>7, <1>11, <1>15 DEF Exact
<1>17. ClaimSlots(s, x, S) = [st |-> t, won |-> won # {}]
  <2>1. t = [s EXCEPT !.nodes[x].slots = S, !.owner = O]
    BY <1>2, <1>6, <1>9
  <2> QED BY <1>1, <1>8, <2>1 DEF ClaimSlots
<1>18. Kept(s, t)
  BY <1>7, <1>11 DEF Kept
<1>19. PICK c : c = [st |-> t, won |-> won # {}]
  BY Zenon
<1>20. c.st = t /\ (~c.won <=> won = {})
  BY <1>19
<1> QED BY <1>7, <1>11, <1>14, <1>16, <1>17, <1>18, <1>19, <1>20

\* The first PONG of a handshake: the entry takes the name of its server.
LEMMA NamedKeeps ==
  ASSUME NEW s, NEW n, NEW alive, Running(s, n, alive), now \in Int,
         NEW x \in DOMAIN s.nodes, x[2] > 0, NEW y \in RealName, y \notin DOMAIN s.nodes, y[1] = x[1]
  PROVE  LET t == Answered(RenameNode(s, x, y), y)
         IN /\ Running(t, n, alive) /\ Kept(s, t) /\ (Exact(s) => Exact(t))
            /\ DOMAIN t.nodes = (DOMAIN s.nodes \ {x}) \cup {y}
<1>1. PICK d, e : d = s.nodes[x] /\ e = [d EXCEPT !.flags = @ \ {"handshake"}, !.pong = now]
  BY Zenon
<1>2. /\ Sound(d, x, s.name, alive) /\ d \in Entry /\ x \in Name /\ y \in Name
      /\ y[2] <= 0 /\ x # y /\ s.name # y /\ s.name # x
  BY <1>1, EntryOf, OwnEntry DEF Sound, RealName, Name
<1>3. /\ e \in Entry /\ e.flags = d.flags \ {"handshake"} /\ e.slots = d.slots
      /\ e.addr = d.addr /\ e.link = d.link /\ e.back = d.back
  BY <1>1, <1>2 DEF Entry
<1>4. Sound(e, y, s.name, alive)
  <2>1. Fits(e, y, s.name)
    BY <1>2, <1>3 DEF Sound, Fits, RealName, Name
  <2>2. LinkSound(e, y, s.name, alive)
    BY <1>2, <1>3 DEF Sound, LinkSound
  <2> QED BY <1>3, <2>1, <2>2 DEF Sound
<1> DEFINE D == (DOMAIN s.nodes \ {x}) \cup {y}
           N == [z \in D |-> IF z = y THEN e ELSE s.nodes[z]]
           t == [s EXCEPT !.nodes = N]
<1>5. Answered(RenameNode(s, x, y), y) = t
  <2> DEFINE M == [z \in D |-> IF z = y THEN d ELSE s.nodes[z]]
  <2>1. RenameNode(s, x, y) = [s EXCEPT !.nodes = M]
    <3>1. PICK u : u = FreeClusterNode(s, x)
      BY Zenon
    <3>2. u = [s EXCEPT !.nodes = [z \in DOMAIN s.nodes \ {x} |-> s.nodes[z]]]
      BY <3>1 DEF FreeClusterNode
    <3>3. u.nodes = [z \in DOMAIN s.nodes \ {x} |-> s.nodes[z]]
      BY <3>1, FreeKeeps
    <3>4. M = [z \in DOMAIN u.nodes \cup {y} |-> IF z = y THEN d ELSE u.nodes[z]]
      BY <3>3
    <3>5. RenameNode(s, x, y) = [u EXCEPT !.nodes = M]
      BY <1>1, <3>1, <3>4 DEF RenameNode, AddNode
    <3>6. [[s EXCEPT !.nodes = u.nodes] EXCEPT !.nodes = M] = [s EXCEPT !.nodes = M]
      OBVIOUS
    <3> QED BY <3>2, <3>3, <3>5, <3>6
  <2>2. N = [[M EXCEPT ![y].flags = @ \ {"handshake"}] EXCEPT ![y].pong = now]
    BY <1>1
  <2>3. PICK r : r = RenameNode(s, x, y)
    BY Zenon
  <2>4. r = [s EXCEPT !.nodes = M]
    BY <2>1, <2>3
  <2>5. s \in Server
    BY DEF Running
  <2> HIDE DEF M, N
  <2>6. r.nodes = M
    BY <2>4, <2>5 DEF Server
  <2>7. [r EXCEPT !.nodes[y].flags = @ \ {"handshake"}, !.nodes[y].pong = now] = [r EXCEPT !.nodes = N]
    <3>1. PICK K, q : K = [r.nodes EXCEPT ![y].flags = @ \ {"handshake"}] /\ q = [r EXCEPT !.nodes = K]
      BY Zenon
    <3>2. q.nodes = K
      BY <2>4, <2>5, <3>1 DEF Server
    <3>3. N = [q.nodes EXCEPT ![y].pong = now]
      BY <2>2, <2>6, <3>1, <3>2
    <3>4. [q EXCEPT !.nodes[y].pong = now] = [q EXCEPT !.nodes = N]
      BY <3>3
    <3>5. [q EXCEPT !.nodes = N] = [r EXCEPT !.nodes = N]
      BY <3>1
    <3> QED BY <3>1, <3>4, <3>5
  <2>8. [r EXCEPT !.nodes = N] = [s EXCEPT !.nodes = N]
    BY <2>4
  <2> QED BY <2>3, <2>7, <2>8 DEF Answered
<1>6. D \subseteq Name /\ s.name \in D
  BY <1>2, EntryOf, OwnEntry
<1>7. N = [z \in D |-> N[z]] /\ N[y] = e /\ \A z \in D \ {y} : N[z] = s.nodes[z]
  OBVIOUS
<1>8. \A z \in D : Sound(N[z], z, s.name, alive)
  BY <1>4, EntryOf
<1>9. \A z \in DOMAIN s.nodes : z[2] <= 0 => z \in D /\ z # y
  BY <1>2, EntryOf DEF Name
<1> HIDE DEF N, D
<1>10. TableSound(N, s.name, alive) /\ DOMAIN N = D
  BY <1>6, <1>7, <1>8, TableOf
<1>11. N[s.name].slots = s.nodes[s.name].slots
  BY <1>2, <1>6, <1>7
<1>12. /\ Running(t, n, alive) /\ Kept(s, t) /\ t.nodes = N
       /\ t.owner = s.owner /\ t.state = s.state
  BY <1>9, <1>10, <1>11, Retable
<1> HIDE DEF t
<1>13. Alike(s.nodes, t.nodes, s.name)
  BY <1>7, <1>9, <1>10, <1>11, <1>12 DEF Alike
<1>14. Exact(s) => Exact(t)
  BY <1>12, <1>13, AlikeExact
<1> QED BY <1>5, <1>10, <1>12, <1>14 DEF D

\* A PONG of another server: the address is no longer that of the entry.
LEMMA MovedKeeps ==
  ASSUME NEW s, NEW n, NEW alive, Good(s, n, alive), NEW x \in DOMAIN s.nodes, x # s.name
  PROVE  LET t == FreeClusterLink([s EXCEPT !.nodes[x].flags = @ \cup {"noaddr"}], x)
         IN Good(t, n, alive) /\ Kept(s, t)
<1>1. PICK F : F = s.nodes[x].flags \cup {"noaddr"}
  BY Zenon
<1>2. /\ F \subseteq Flag /\ "myself" \notin F
      /\ "handshake" \in F <=> "handshake" \in s.nodes[x].flags
      /\ "fail" \in F <=> "fail" \in s.nodes[x].flags
  BY <1>1, EntryOf, EntryFields DEF Sound, Fits, Flag, Good
<1>3. PICK u : u = [s EXCEPT !.nodes[x].flags = F]
  BY Zenon
<1>4. Running(u, n, alive) /\ Grown(s, u) /\ Exact(u)
  BY <1>2, <1>3, FlagsKeep DEF Good
<1>5. PICK d, e : d = u.nodes[x] /\ e = [d EXCEPT !.link = "none", !.out = <<>>, !.back = <<>>]
  BY Zenon
<1>6. x \in DOMAIN u.nodes
  BY <1>4 DEF Grown
<1>7. Sound(d, x, u.name, alive) /\ d \in Entry
  BY <1>4, <1>5, <1>6, EntryOf DEF Sound
<1>8. /\ e \in Entry /\ e.flags = d.flags /\ e.slots = d.slots /\ e.addr = d.addr
      /\ e.link = "none" /\ e.back = <<>>
  <2>1. <<>> \in Seq(Message)
    OBVIOUS
  <2> QED BY <1>5, <1>7, <2>1 DEF Entry
<1>9. Sound(e, x, u.name, alive)
  BY <1>7, <1>8 DEF Sound, Fits, LinkSound
<1>10. PICK t : t = [u EXCEPT !.nodes = [@ EXCEPT ![x] = e]]
  BY Zenon
<1>11. Running(t, n, alive) /\ Kept(u, t) /\ Exact(t)
  <2>1. e.slots = u.nodes[x].slots /\ ("fail" \in e.flags <=> "fail" \in u.nodes[x].flags)
    BY <1>5, <1>8
  <2> QED BY <1>4, <1>6, <1>9, <1>10, <2>1, SetEntry
<1>12. t = FreeClusterLink([s EXCEPT !.nodes[x].flags = @ \cup {"noaddr"}], x)
  BY <1>1, <1>3, <1>5, <1>10 DEF FreeClusterLink
<1> QED BY <1>4, <1>11, <1>12 DEF Good, Kept, Grown

\* The rest of a PONG: the gossip, the state and the file.
LEMMA PongEnds ==
  ASSUME NEW s, NEW n, NEW alive, Running(s, n, alive), NEW m \in Message,
         \A g \in m.gossip : g.name \in DOMAIN s.nodes \/ FreeNames(s, g.addr) # {},
         NEW won \in BOOLEAN, NEW save \in BOOLEAN, ~won => Exact(s)
  PROVE  LET t2 == ProcessGossipSection(s, m, TRUE)
             t3 == IF won THEN UpdateState(t2) ELSE t2
             t == IF save THEN SaveConfig(t3) ELSE t3
         IN Good(t, n, alive) /\ Kept(s, t)
<1>1. PICK t2 : t2 = ProcessGossipSection(s, m, TRUE)
  BY Zenon
<1>2. Running(t2, n, alive) /\ Kept(s, t2) /\ (Exact(s) => Exact(t2))
  BY <1>1, GossipKeeps DEF Grown
<1>3. PICK t3 : t3 = IF won THEN UpdateState(t2) ELSE t2
  BY Zenon
<1>4. Running(t3, n, alive) /\ Exact(t3) /\ Kept(s, t3)
  <2>1. CASE won
    <3>1. t3 = UpdateState(t2)
      BY <1>3, <2>1
    <3>2. Running(t3, n, alive) /\ Exact(t3) /\ Kept(t2, t3)
      BY <1>2, <3>1, UpdateStateKeeps
    <3> QED BY <1>2, <3>2 DEF Kept
  <2>2. CASE ~won
    BY <1>2, <1>3, <2>2
  <2> QED BY <2>1, <2>2
<1>5. PICK t : t = SaveConfig(t3)
  BY Zenon
<1>6. Running(t, n, alive) /\ Exact(t) /\ Kept(t3, t)
  BY <1>4, <1>5, SaveConfigKeeps
<1>7. Kept(s, t)
  BY <1>4, <1>6 DEF Kept
<1> QED BY <1>1, <1>3, <1>4, <1>5, <1>6, <1>7 DEF Good

LEMMA ProcessPongKeeps ==
  ASSUME NEW s, NEW n, NEW alive, Good(s, n, alive), now \in Int,
         NEW x \in DOMAIN s.nodes, x # s.name,
         NEW m \in Message, m.from[1] = x[1], m.from[2] <= 0,
         \A g \in m.gossip : g.name \in DOMAIN s.nodes \/ FreeNames(s, g.addr) # {}
  PROVE  LET t == ProcessPong(s, x, m) IN Good(t, n, alive) /\ Kept(s, t)
<1>1. PICK t : t = ProcessPong(s, x, m)
  BY Zenon
<1> SUFFICES Good(t, n, alive) /\ Kept(s, t)
  BY <1>1
<1>2. PICK y : y = m.from
  BY Zenon
<1>3. x \in Name /\ y \in Name /\ y[1] = x[1] /\ y[2] <= 0 /\ y \in RealName
  BY <1>2, EntryOf, MessageFields DEF Good, RealName
<1>4. "handshake" \in s.nodes[x].flags <=> x[2] > 0
  BY EntryOf DEF Good, Sound, Fits
<1>5. CASE x[2] > 0 /\ y \in DOMAIN s.nodes
  <2>1. t = FreeClusterNode(s, x)
    BY <1>1, <1>2, <1>4, <1>5 DEF ProcessPong
  <2> QED BY <1>5, <2>1, FreeKeeps DEF Good
<1>6. CASE ~(x[2] > 0) /\ x # y
  <2>1. t = FreeClusterLink([s EXCEPT !.nodes[x].flags = @ \cup {"noaddr"}], x)
    BY <1>1, <1>2, <1>4, <1>6 DEF ProcessPong
  <2> QED BY <2>1, MovedKeeps
<1>7. CASE x[2] > 0 /\ y \notin DOMAIN s.nodes
  <2>1. PICK u : u = Answered(RenameNode(s, x, y), y)
    BY Zenon
  <2>2. /\ Running(u, n, alive) /\ Kept(s, u) /\ Exact(u)
        /\ DOMAIN u.nodes = (DOMAIN s.nodes \ {x}) \cup {y}
    BY <1>3, <1>7, <2>1, NamedKeeps DEF Good
  <2>3. \A g \in m.gossip : g.name \in DOMAIN u.nodes \/ FreeNames(u, g.addr) # {}
    <3> SUFFICES ASSUME NEW g \in m.gossip
                 PROVE  g.name \in DOMAIN u.nodes \/ FreeNames(u, g.addr) # {}
      OBVIOUS
    <3>1. g.name \in RealName
      BY MessageFields DEF Gossip
    <3>2. g.name # x
      BY <1>3, <1>7, <3>1 DEF RealName, Name
    <3>3. CASE g.name \in DOMAIN s.nodes
      BY <2>2, <3>2, <3>3
    <3>4. CASE FreeNames(s, g.addr) # {}
      <4>1. PICK i \in 1 .. MaxHs : <<g.addr, i>> \notin DOMAIN s.nodes
        BY <3>4 DEF FreeNames
      <4>2. <<g.addr, i>> # y
        BY <1>3, BoundAssumption DEF Name
      <4>3. <<g.addr, i>> \in FreeNames(u, g.addr)
        BY <2>2, <4>1, <4>2 DEF FreeNames
      <4> QED BY <4>3
    <3> QED BY <3>3, <3>4
  <2>4. PICK t2 : t2 = ProcessGossipSection(u, m, TRUE)
    BY Zenon
  <2>5. t = SaveConfig(t2)
    BY <1>1, <1>2, <1>4, <1>7, <2>1, <2>4 DEF ProcessPong
  <2>6. Good(t, n, alive) /\ Kept(u, t)
    BY <2>2, <2>3, <2>4, <2>5, PongEnds
  <2> QED BY <2>2, <2>6 DEF Kept
<1>8. CASE ~(x[2] > 0) /\ x = y
  <2>1. PICK F : F = s.nodes[x].flags \ {"handshake"}
    BY Zenon
  <2>2. F = s.nodes[x].flags /\ F \subseteq Flag /\ "myself" \notin F
    BY <1>4, <1>8, <2>1, EntryOf, EntryFields DEF Good, Sound, Fits
  <2>3. PICK f : f = [s EXCEPT !.nodes[x].flags = F]
    BY Zenon
  <2>4. Running(f, n, alive) /\ Grown(s, f) /\ Exact(f)
    BY <2>2, <2>3, FlagsKeep DEF Good
  <2>5. PICK u : u = [f EXCEPT !.nodes[x].pong = now]
    BY Zenon
  <2>6. Running(u, n, alive) /\ Grown(f, u) /\ Exact(u)
    BY <2>4, <2>5, PongKeeps DEF Grown
  <2>7. u = Answered(s, y)
    BY <1>8, <2>1, <2>3, <2>5 DEF Answered
  <2>8. PICK c : c = ClaimSlots(u, x, m.slots)
    BY Zenon
  <2>9. x \in DOMAIN u.nodes /\ x # u.name /\ x[2] <= 0 /\ m.slots \subseteq Slot
    BY <1>3, <1>8, <2>4, <2>6, MessageFields DEF Grown, Kept
  <2>10. /\ Running(c.st, n, alive) /\ Kept(u, c.st) /\ DOMAIN c.st.nodes = DOMAIN u.nodes
         /\ ~c.won => Exact(c.st)
    BY <2>6, <2>8, <2>9, ClaimKeeps
  <2>11. c.won \in BOOLEAN
    BY <2>8 DEF ClaimSlots
  <2>12. \A g \in m.gossip : g.name \in DOMAIN c.st.nodes \/ FreeNames(c.st, g.addr) # {}
    <3>1. DOMAIN c.st.nodes = DOMAIN s.nodes
      <4>1. DOMAIN f.nodes = DOMAIN s.nodes
        BY <2>3 DEF Good, Running, Server
      <4>2. DOMAIN u.nodes = DOMAIN f.nodes
        BY <2>4, <2>5, <2>9, PongKeeps DEF Grown
      <4> QED BY <2>10, <4>1, <4>2
    <3> QED BY <3>1 DEF FreeNames
  <2>13. PICK t2, t3 : /\ t2 = ProcessGossipSection(c.st, m, TRUE)
                       /\ t3 = IF c.won THEN UpdateState(t2) ELSE t2
    BY Zenon
  <2>14. t = IF c.won THEN SaveConfig(t3) ELSE t3
    <3>1. m.from \in DOMAIN s.nodes /\ m.from = x
      BY <1>2, <1>8
    <3>2. ~("handshake" \in s.nodes[x].flags)
      BY <1>4, <1>8
    <3> QED BY <1>1, <2>7, <2>8, <2>13, <3>1, <3>2, <1>8 DEF ProcessPong
  <2>15. Good(t, n, alive) /\ Kept(c.st, t)
    BY <2>10, <2>11, <2>12, <2>13, <2>14, PongEnds
  <2> QED BY <2>4, <2>6, <2>10, <2>15 DEF Kept, Grown
<1> QED BY <1>5, <1>6, <1>7, <1>8

(***************************************************************************)
(* clusterCron                                                              *)
(***************************************************************************)
\* Every entry may change, the lasting flags, the slots and FAIL excepted.
LEMMA EntriesKeep ==
  ASSUME NEW s, NEW n, NEW was, Running(s, n, was), NEW alive,
         NEW N, N = [x \in DOMAIN s.nodes |-> N[x]],
         \A x \in DOMAIN s.nodes : Sound(N[x], x, s.name, alive) /\ N[x].slots = s.nodes[x].slots
  PROVE  LET t == [s EXCEPT !.nodes = N]
         IN /\ Running(t, n, alive) /\ Kept(s, t) /\ t.nodes = N /\ DOMAIN t.nodes = DOMAIN s.nodes
            /\ Exact(s) /\ (\A x \in DOMAIN s.nodes : "fail" \in N[x].flags <=> "fail" \in s.nodes[x].flags)
                 => Exact(t)
<1> DEFINE t == [s EXCEPT !.nodes = N]
<1>1. DOMAIN s.nodes \subseteq Name /\ s.name \in DOMAIN s.nodes
  BY EntryOf, OwnEntry
<1>2. TableSound(N, s.name, alive) /\ DOMAIN N = DOMAIN s.nodes
  BY <1>1, TableOf
<1>3. N[s.name].slots = s.nodes[s.name].slots
  BY <1>1
<1>4. /\ Running(t, n, alive) /\ Kept(s, t) /\ t.nodes = N
      /\ t.owner = s.owner /\ t.state = s.state
  BY <1>2, <1>3, Retable
<1> HIDE DEF t
<1>5. ASSUME Exact(s), \A x \in DOMAIN s.nodes : "fail" \in N[x].flags <=> "fail" \in s.nodes[x].flags
      PROVE  Exact(t)
  <2>1. Alike(s.nodes, t.nodes, s.name)
    BY <1>2, <1>3, <1>4, <1>5 DEF Alike
  <2> QED BY <1>4, <1>5, <2>1, AlikeExact
<1> QED BY <1>2, <1>4, <1>5 DEF t

LEMMA ReconnectKeeps ==
  ASSUME NEW s, NEW n, Good(s, n, Alive), now \in Int,
         NEW g \in (DOMAIN s.nodes \cap RealName) \cup {NoName}
  PROVE  LET t == Reconnect(s, g)
         IN Good(t, n, Alive) /\ Kept(s, t) /\ DOMAIN t.nodes = DOMAIN s.nodes
<1> DEFINE lost(e) == e.flags \cap {"myself", "noaddr"} = {} /\ e.link = "none"
           type(e) == IF "meet" \in e.flags THEN "meet" ELSE "ping"
           call(e) == [e EXCEPT !.link = IF srv[e.addr].up THEN "up" ELSE "dead",
                                !.flags = @ \ {"meet"}]
           D == DOMAIN s.nodes
           N == [x \in D |->
                   IF lost(s.nodes[x])
                   THEN Pinged(call(s.nodes[x]), BuildMessage(s, type(s.nodes[x]), g))
                   ELSE s.nodes[x]]
<1>1. Reconnect(s, g) = [s EXCEPT !.nodes = N]
  BY DEF Reconnect
<1>2. ASSUME NEW x \in D
      PROVE  /\ Sound(N[x], x, s.name, Alive) /\ N[x].slots = s.nodes[x].slots
             /\ "fail" \in N[x].flags <=> "fail" \in s.nodes[x].flags
  <2>1. PICK d : d = s.nodes[x]
    BY Zenon
  <2>2. Sound(d, x, s.name, Alive) /\ d \in Entry
    BY <2>1, EntryOf DEF Good, Sound
  <2>3. CASE ~lost(d)
    <3>1. N[x] = d
      BY <2>1, <2>3
    <3> QED BY <2>1, <2>2, <3>1
  <2>4. CASE lost(d)
    <3>1. PICK e, m : e = call(d) /\ m = BuildMessage(s, type(d), g)
      BY Zenon
    <3>2. m \in Message
      BY <3>1, MessageBuilt DEF Good
    <3>3. /\ e \in Entry /\ e.flags = d.flags \ {"meet"} /\ e.slots = d.slots /\ e.addr = d.addr
          /\ e.back = d.back /\ e.link = IF srv[d.addr].up THEN "up" ELSE "dead"
      BY <2>2, <3>1 DEF Entry
    <3>4. d.addr \in Node /\ "myself" \notin d.flags
      BY <2>2, <2>4, EntryFields
    <3>5. Sound(e, x, s.name, Alive)
      <4>1. Fits(e, x, s.name)
        BY <2>2, <3>3, <3>4 DEF Sound, Fits
      <4>2. x # s.name
        BY <2>2, <3>4 DEF Sound, Fits
      <4>3. LinkSound(e, x, s.name, Alive)
        BY <2>2, <3>3, <3>4, <4>2 DEF Sound, LinkSound, Alive
      <4> QED BY <3>3, <4>1, <4>3 DEF Sound
    <3>6. Pinged(e, m) \in Entry /\ SameBut(e, Pinged(e, m))
      BY <3>2, <3>3, PingedKeeps
    <3>7. Sound(Pinged(e, m), x, s.name, Alive)
      BY <3>5, <3>6, SameSound
    <3>8. N[x] = Pinged(e, m)
      BY <2>1, <2>4, <3>1
    <3> QED BY <2>1, <3>3, <3>6, <3>7, <3>8 DEF SameBut
  <2> QED BY <2>3, <2>4
<1>3. N = [x \in D |-> N[x]]
  OBVIOUS
<1> HIDE DEF N
<1> QED BY <1>1, <1>2, <1>3, EntriesKeep DEF Good

LEMMA SendPingKeeps ==
  ASSUME NEW s, NEW n, NEW alive, Good(s, n, alive), now \in Int, NEW x \in DOMAIN s.nodes,
         NEW g \in (DOMAIN s.nodes \cap RealName) \cup {NoName}
  PROVE  LET t == SendPing(s, x, "ping", g)
         IN Good(t, n, alive) /\ Kept(s, t)
<1>1. PICK d, m : d = s.nodes[x] /\ m = BuildMessage(s, "ping", g)
  BY Zenon
<1>2. Sound(d, x, s.name, alive) /\ d \in Entry /\ m \in Message
  BY <1>1, EntryOf, MessageBuilt DEF Good, Sound
<1>3. PICK e : e = Pinged(d, m)
  BY Zenon
<1>4. e \in Entry /\ SameBut(d, e)
  BY <1>2, <1>3, PingedKeeps
<1>5. Sound(e, x, s.name, alive) /\ e.slots = d.slots /\ e.flags = d.flags
  BY <1>2, <1>4, SameSound DEF SameBut
<1>6. SendPing(s, x, "ping", g) = [s EXCEPT !.nodes = [@ EXCEPT ![x] = e]]
  BY <1>1, <1>3 DEF SendPing
<1>7. e.slots = s.nodes[x].slots /\ ("fail" \in e.flags <=> "fail" \in s.nodes[x].flags)
  BY <1>1, <1>5
<1> QED BY <1>5, <1>6, <1>7, SetEntry DEF Good

LEMMA FlagFailingKeeps ==
  ASSUME NEW s, NEW n, NEW alive, Good(s, n, alive)
  PROVE  LET t == FlagFailing(s) IN Good(t, n, alive) /\ Kept(s, t)
<1> DEFINE overdue(e) == /\ e.flags \cap {"myself", "noaddr", "handshake"} = {}
                         /\ e.ping # 0 /\ e.ping > e.pong
           soon(e) == now - e.pong < NodeTimeout
           flag(e) == IF ~overdue(e) THEN e.flags
                      ELSE IF soon(e) THEN e.flags \ {"pfail", "fail"}
                      ELSE IF "fail" \in e.flags THEN e.flags ELSE e.flags \cup {"pfail"}
           D == DOMAIN s.nodes
           N == [x \in D |-> [s.nodes[x] EXCEPT !.flags = flag(s.nodes[x])]]
           t == [s EXCEPT !.nodes = N]
<1>1. FlagFailing(s) = IF \E x \in D : "fail" \in s.nodes[x].flags \ t.nodes[x].flags
                       THEN UpdateState(t) ELSE t
  BY DEF FlagFailing
<1>2. ASSUME NEW x \in D
      PROVE  /\ Sound(N[x], x, s.name, alive) /\ N[x].slots = s.nodes[x].slots
             /\ "fail" \in N[x].flags => "fail" \in s.nodes[x].flags
  <2>1. PICK d, F : d = s.nodes[x] /\ F = flag(d)
    BY Zenon
  <2>2. Sound(d, x, s.name, alive) /\ d \in Entry
    BY <2>1, EntryOf DEF Good, Sound
  <2>3. /\ F \subseteq Flag /\ ("myself" \in F <=> "myself" \in d.flags)
        /\ "handshake" \in F <=> "handshake" \in d.flags
        /\ "fail" \in F => "fail" \in d.flags
        /\ "myself" \in d.flags => F = d.flags
    BY <2>1, <2>2, EntryFields DEF Flag
  <2>4. PICK e : e = [d EXCEPT !.flags = F]
    BY Zenon
  <2>5. /\ e \in Entry /\ e.flags = F /\ e.slots = d.slots /\ e.addr = d.addr
        /\ e.link = d.link /\ e.back = d.back
    BY <2>2, <2>3, <2>4 DEF Entry
  <2>6. Sound(e, x, s.name, alive)
    <3>1. Fits(e, x, s.name)
      BY <2>2, <2>3, <2>5 DEF Sound, Fits
    <3>2. LinkSound(e, x, s.name, alive)
      BY <2>2, <2>5 DEF Sound, LinkSound
    <3> QED BY <2>5, <3>1, <3>2 DEF Sound
  <2>7. N[x] = e
    BY <2>1, <2>4
  <2> HIDE DEF N
  <2> QED BY <2>1, <2>3, <2>5, <2>6, <2>7
<1>3. N = [x \in D |-> N[x]]
  OBVIOUS
<1> HIDE DEF N
<1>4. /\ Running(t, n, alive) /\ Kept(s, t) /\ t.nodes = N
      /\ (\A x \in D : "fail" \in N[x].flags <=> "fail" \in s.nodes[x].flags) => Exact(t)
  BY <1>2, <1>3, EntriesKeep DEF Good
<1> HIDE DEF t
<1>5. CASE \E x \in D : "fail" \in s.nodes[x].flags \ t.nodes[x].flags
  <2>1. PICK u : u = UpdateState(t)
    BY Zenon
  <2>2. Running(u, n, alive) /\ Exact(u) /\ Kept(t, u)
    BY <1>4, <2>1, UpdateStateKeeps
  <2> QED BY <1>1, <1>4, <1>5, <2>1, <2>2 DEF Good, Kept
<1>6. CASE ~\E x \in D : "fail" \in s.nodes[x].flags \ t.nodes[x].flags
  BY <1>1, <1>2, <1>4, <1>6 DEF Good
<1> QED BY <1>5, <1>6

(***************************************************************************)
(* Restarts                                                                 *)
(***************************************************************************)
\* clusterLoadConfig: a slot claimed by one line goes to that line.
LEMMA LoadConfigKeeps ==
  ASSUME NEW s \in Server, NEW n \in Node, FileSound(s.file, n), NEW line, NEW alive, now \in Int
  PROVE  Good(LoadConfig(s, line), n, alive)
<1>1. PICK f : f = s.file
  BY Zenon
<1>2. f \in File /\ s.clash \subseteq Slot
  BY <1>1, ServerFields
<1>3. /\ f.name \in Name /\ f.mig \in [Slot -> MaybeName] /\ f.imp \in [Slot -> MaybeName]
      /\ f.nodes \in Table(Line)
  BY <1>2 DEF File
<1>4. DOMAIN f.nodes \subseteq Name /\ \A x \in DOMAIN f.nodes : f.nodes[x] \in Line
  BY <1>3, TableElim
<1>5. /\ f.name \in DOMAIN f.nodes /\ f.name[1] = n /\ f.name[2] <= 0
      /\ \A x \in DOMAIN f.nodes : Fits(f.nodes[x], x, f.name)
  BY <1>1 DEF FileSound
<1> DEFINE D == DOMAIN f.nodes
           claims(x, j) == j \in f.nodes[x].slots
           wins(x, j) == claims(x, j) /\ \A y \in D \ {x} : claims(y, j) => line[y] < line[x]
           O == [j \in Slot |-> IF \E x \in D : wins(x, j) THEN CHOOSE x \in D : wins(x, j) ELSE NoName]
           C == s.clash \cup {j \in Slot : \E x, y \in D : x # y /\ claims(x, j) /\ claims(y, j)}
           entry(x) == [CreateClusterNode(f.nodes[x].flags, f.nodes[x].addr) EXCEPT
                          !.slots = f.nodes[x].slots,
                          !.ping = IF f.nodes[x].pinged THEN now ELSE 0,
                          !.pong = IF f.nodes[x].ponged THEN now ELSE 0]
           N == [x \in D |-> entry(x)]
           u == [s EXCEPT !.name = f.name, !.mig = f.mig, !.imp = f.imp, !.owner = O,
                          !.up = TRUE, !.state = "fail", !.clash = C, !.nodes = N]
<1>6. LoadConfig(s, line) = UpdateState(u)
  BY <1>1 DEF LoadConfig
<1>7. ASSUME NEW x \in D PROVE Sound(N[x], x, f.name, alive) /\ N[x].slots = f.nodes[x].slots
  <2>1. PICK d, e : d = f.nodes[x] /\ e = entry(x)
    BY Zenon
  <2>2. d \in Line /\ Fits(d, x, f.name)
    BY <1>4, <1>5, <2>1
  <2>3. d.flags \subseteq Flag /\ d.addr \in Node /\ d.slots \subseteq Slot
    BY <2>2 DEF Line
  <2>4. PICK p, q : p = (IF d.pinged THEN now ELSE 0) /\ q = (IF d.ponged THEN now ELSE 0)
    BY Zenon
  <2>5. e = [flags |-> d.flags, slots |-> d.slots, addr |-> d.addr, ping |-> p, pong |-> q,
             link |-> "none", out |-> <<>>, back |-> <<>>]
    BY <2>1, <2>4 DEF CreateClusterNode
  <2>6. e \in Entry
    <3>1. <<>> \in Seq(Message) /\ p \in Int /\ q \in Int
      BY <2>4
    <3> QED BY <2>3, <2>5, <3>1 DEF Entry
  <2>7. Fits(e, x, f.name)
    BY <2>2, <2>5 DEF Fits
  <2>8. LinkSound(e, x, f.name, alive)
    BY <2>5 DEF LinkSound
  <2>9. N[x] = e /\ e.slots = d.slots
    BY <2>1, <2>5
  <2> QED BY <2>1, <2>6, <2>7, <2>8, <2>9 DEF Sound
<1>8. N = [x \in D |-> N[x]]
  OBVIOUS
<1>9. \A j \in Slot : O[j] = NoName \/ (O[j] \in D /\ wins(O[j], j))
  OBVIOUS
<1>10. \A j \in Slot : O[j] = NoName => \A x \in D : ~wins(x, j)
  <2>1. NoName \notin D
    BY <1>4, NobodysName
  <2> QED BY <2>1
<1> HIDE DEF N, O, entry
<1>11. TableSound(N, f.name, alive) /\ DOMAIN N = D
  BY <1>4, <1>5, <1>7, <1>8, TableOf
<1>12. O \in [Slot -> MaybeName] /\ C \subseteq Slot
  <2>1. \A j \in Slot : O[j] \in MaybeName
    BY <1>4, <1>9 DEF MaybeName
  <2> QED BY <1>2, <2>1 DEF O
<1>13. \A j \in Slot : O[j] = NoName \/ (O[j] \in DOMAIN N /\ O[j][2] <= 0)
  <2> SUFFICES ASSUME NEW j \in Slot, O[j] # NoName PROVE O[j] \in DOMAIN N /\ O[j][2] <= 0
    OBVIOUS
  <2>1. PICK x : x = O[j]
    BY Zenon
  <2>2. x \in D /\ claims(x, j)
    BY <1>9, <2>1
  <2>3. f.nodes[x].slots # {}
    BY <2>2
  <2>4. ~(x[2] > 0) /\ x \in Name
    BY <1>4, <1>5, <2>2, <2>3 DEF Fits
  <2> QED BY <1>11, <2>1, <2>2, <2>4 DEF Name
<1>14. ASSUME NEW j \in Slot \ C PROVE j \in N[f.name].slots <=> O[j] = f.name
  <2>1. \A x, y \in D : claims(x, j) /\ claims(y, j) => x = y
    OBVIOUS
  <2>2. f.name \in D /\ f.name # NoName /\ N[f.name].slots = f.nodes[f.name].slots
    BY <1>3, <1>5, <1>7, NobodysName
  <2>3. ASSUME claims(f.name, j) PROVE O[j] = f.name
    <3>1. wins(f.name, j)
      BY <2>1, <2>2, <2>3
    <3>2. O[j] # NoName
      BY <1>10, <2>2, <3>1
    <3> QED BY <1>9, <2>1, <2>2, <2>3, <3>2
  <2>4. O[j] = f.name => claims(f.name, j)
    BY <1>9, <2>2
  <2> QED BY <2>2, <2>3, <2>4
<1> HIDE DEF C
<1>15. /\ u \in Server /\ u.name = f.name /\ u.owner = O /\ u.up /\ u.clash = C
       /\ u.nodes = N /\ u.file = s.file
  <2>1. N \in Table(Entry)
    BY <1>11 DEF TableSound
  <2> QED BY <1>3, <1>12, <2>1 DEF Server
<1> HIDE DEF u
<1>16. OwnersSound(u.owner, u.nodes, u.name, u.clash)
  BY <1>13, <1>14, <1>15 DEF OwnersSound
<1>17. Running(u, n, alive)
  BY <1>5, <1>11, <1>15, <1>16 DEF Running
<1> QED BY <1>6, <1>17, UpdateStateKeeps DEF Good

\* clusterInit without a file
LEMMA InitAloneKeeps ==
  ASSUME NEW s \in Server, NEW n \in Node, FileSound(s.file, n), NEW alive
  PROVE  Good(InitAlone(s, n), n, alive)
<1>1. PICK x, e, z : x = <<n, -1>> /\ e = CreateClusterNode({"myself"}, n) /\ z = [j \in Slot |-> NoName]
  BY Zenon
<1> DEFINE N == [y \in {x} |-> e]
           u == [s EXCEPT !.name = x, !.nodes = N, !.owner = z, !.mig = z, !.imp = z,
                          !.state = "fail", !.up = TRUE]
<1>2. InitAlone(s, n) = SaveConfig(u)
  BY <1>1 DEF InitAlone
<1>3. x \in Name /\ x[1] = n /\ x[2] <= 0
  BY <1>1 DEF Name
<1>4. /\ e \in Entry /\ e.flags = {"myself"} /\ e.slots = {} /\ e.addr = n
      /\ e.link = "none" /\ e.back = <<>>
  <2>1. e = [flags |-> {"myself"}, slots |-> {}, addr |-> n, ping |-> 0, pong |-> 0,
             link |-> "none", out |-> <<>>, back |-> <<>>]
    BY <1>1 DEF CreateClusterNode
  <2>2. <<>> \in Seq(Message) /\ {"myself"} \subseteq Flag
    BY DEF Flag
  <2> QED BY <2>1, <2>2 DEF Entry
<1>5. Sound(e, x, x, alive)
  <2>1. ~(x[2] > 0)
    BY <1>1
  <2>2. Fits(e, x, x)
    BY <1>3, <1>4, <2>1 DEF Fits
  <2>3. LinkSound(e, x, x, alive)
    BY <1>4 DEF LinkSound
  <2> QED BY <1>4, <2>2, <2>3 DEF Sound
<1>6. TableSound(N, x, alive) /\ DOMAIN N = {x} /\ N[x] = e
  <2>1. N = [y \in {x} |-> N[y]] /\ N[x] = e
    OBVIOUS
  <2> HIDE DEF N
  <2> QED BY <1>3, <1>5, <2>1, TableOf
<1>7. z \in [Slot -> MaybeName] /\ \A j \in Slot : z[j] = NoName
  BY <1>1 DEF MaybeName
<1> HIDE DEF N
<1>8. /\ u \in Server /\ u.name = x /\ u.nodes = N /\ u.owner = z /\ u.state = "fail"
      /\ u.up /\ u.clash = s.clash /\ u.file = s.file
  <2>1. N \in Table(Entry)
    BY <1>6 DEF TableSound
  <2> QED BY <1>3, <1>7, <2>1 DEF Server
<1> HIDE DEF u
<1>9. OwnersSound(u.owner, u.nodes, u.name, u.clash)
  <2>1. NoName # x /\ N[x].slots = {}
    BY <1>3, <1>4, <1>6, NobodysName
  <2> QED BY <1>7, <1>8, <2>1 DEF OwnersSound
<1>10. Running(u, n, alive)
  BY <1>3, <1>6, <1>8, <1>9 DEF Running
<1>11. Exact(u)
  <2>1. 0 \in Slot
    BY SlotAssumption DEF Slot
  <2> QED BY <1>7, <1>8, <2>1 DEF Exact, Healthy
<1> QED BY <1>2, <1>10, <1>11, SaveConfigKeeps DEF Good

(***************************************************************************)
(* CLUSTER commands, and what the other fields hold                         *)
(***************************************************************************)
\* Fields no part of the invariant speaks of
Minor(s, t) ==
  /\ t.name = s.name /\ t.up = s.up /\ t.nodes = s.nodes /\ t.owner = s.owner
  /\ t.clash = s.clash /\ t.state = s.state /\ t.file = s.file

LEMMA MinorKeeps ==
  ASSUME NEW s, NEW n, NEW alive, Running(s, n, alive), NEW t \in Server, Minor(s, t)
  PROVE  Running(t, n, alive) /\ (Exact(s) => Exact(t))
BY DEF Minor, Running, Exact

LEMMA MoreAlive ==
  ASSUME NEW s, NEW n, NEW was, Good(s, n, was), NEW alive, was \subseteq alive
  PROVE  Good(s, n, alive)
BY DEF Good, Running, TableSound, LinkSound

LEMMA KeptOn ==
  ASSUME NEW s, NEW t, NEW u, Kept(s, t), Kept(t, u)
  PROVE  Kept(s, u)
BY DEF Kept

\* clusterUpdateState and clusterSaveConfig end a command.
LEMMA CommandEnds ==
  ASSUME NEW s, NEW n, NEW alive, Running(s, n, alive)
  PROVE  LET t == SaveConfig(UpdateState(s)) IN Good(t, n, alive) /\ Kept(s, t)
<1>1. PICK u : u = UpdateState(s)
  BY Zenon
<1>2. Running(u, n, alive) /\ Exact(u) /\ Kept(s, u)
  BY <1>1, UpdateStateKeeps
<1>3. Good(SaveConfig(u), n, alive) /\ Kept(u, SaveConfig(u))
  BY <1>2, SaveConfigKeeps DEF Good
<1> QED BY <1>1, <1>2, <1>3, KeptOn

\* The bits of one entry and the owner of one slot
Reassigned(s, j, x, B, o, b) ==
  [s EXCEPT !.fault = b, !.nodes = [@ EXCEPT ![x].slots = B], !.owner = [@ EXCEPT ![j] = o]]

LEMMA SlotKeeps ==
  ASSUME NEW s, NEW n, NEW alive, Running(s, n, alive), NEW j \in Slot,
         NEW x \in DOMAIN s.nodes, x[2] <= 0, NEW B, B \subseteq Slot,
         NEW o \in {NoName, s.name}, NEW fault \in BOOLEAN,
         \A i \in Slot \ {j} : i \in B <=> i \in s.nodes[x].slots,
         o = s.name => x = s.name /\ j \in B,
         o = NoName => x = s.owner[j] /\ j \notin B
  PROVE  Running(Reassigned(s, j, x, B, o, fault), n, alive)
<1>1. PICK d, e : d = s.nodes[x] /\ e = [d EXCEPT !.slots = B]
  BY Zenon
<1>2. Sound(d, x, s.name, alive) /\ d \in Entry /\ x \in Name
  BY <1>1, EntryOf DEF Sound
<1>3. e \in Entry /\ e.slots = B /\ e.flags = d.flags /\ e.addr = d.addr /\ e.link = d.link /\ e.back = d.back
  BY <1>1, <1>2 DEF Entry
<1>4. Sound(e, x, s.name, alive)
  BY <1>2, <1>3 DEF Sound, Fits, LinkSound, Name
<1> DEFINE N == [s.nodes EXCEPT ![x] = e]
           O == [s.owner EXCEPT ![j] = o]
           t == [s EXCEPT !.fault = fault, !.nodes = N, !.owner = O]
<1>5. t = Reassigned(s, j, x, B, o, fault)
  BY <1>1 DEF Reassigned
<1>6. DOMAIN s.nodes \subseteq Name /\ s.name \in DOMAIN s.nodes /\ s.name # NoName
  BY EntryOf, OwnEntry, NobodysName
<1>7. /\ N = [y \in DOMAIN s.nodes |-> N[y]] /\ N[x] = e /\ DOMAIN N = DOMAIN s.nodes
      /\ \A y \in DOMAIN s.nodes \ {x} : N[y] = s.nodes[y]
  OBVIOUS
<1>8. s \in Server /\ s.owner \in [Slot -> MaybeName] /\ s.name \in MaybeName
  BY ServerFields DEF Running, MaybeName
<1>9. O \in [Slot -> MaybeName] /\ O[j] = o /\ \A i \in Slot \ {j} : O[i] = s.owner[i]
  BY <1>8 DEF MaybeName
<1> HIDE DEF N, O
<1>10. \A y \in DOMAIN s.nodes : Sound(N[y], y, s.name, alive)
  BY <1>4, <1>7, EntryOf
<1>11. TableSound(N, s.name, alive)
  BY <1>6, <1>7, <1>10, TableOf
<1>12. /\ t \in Server /\ t.nodes = N /\ t.owner = O /\ t.name = s.name /\ t.up = s.up
       /\ t.clash = s.clash /\ t.state = s.state /\ t.file = s.file
  <2>1. N \in Table(Entry)
    BY <1>11 DEF TableSound
  <2> QED BY <1>8, <1>9, <2>1 DEF Server
<1> HIDE DEF t
<1>13. \A i \in Slot : O[i] = NoName \/ (O[i] \in DOMAIN N /\ O[i][2] <= 0)
  BY <1>6, <1>7, <1>9, OwnEntry DEF Running, OwnersSound
<1>14. ASSUME NEW i \in Slot \ s.clash PROVE i \in N[s.name].slots <=> O[i] = s.name
  <2>1. i \in s.nodes[s.name].slots <=> s.owner[i] = s.name
    BY DEF Running, OwnersSound
  <2>2. CASE i # j
    BY <1>1, <1>3, <1>6, <1>7, <1>9, <2>1, <2>2
  <2>3. CASE i = j /\ o = s.name
    BY <1>3, <1>7, <1>9, <2>3
  <2>4. CASE i = j /\ o = NoName
    BY <1>3, <1>6, <1>7, <1>9, <2>1, <2>4
  <2> QED BY <2>2, <2>3, <2>4
<1>15. Running(t, n, alive)
  BY <1>11, <1>12, <1>13, <1>14 DEF Running, OwnersSound
<1> QED BY <1>5, <1>15

\* ADDSLOTS and DELSLOTS
LEMMA SlotCommandsKeep ==
  ASSUME NEW r, NEW n, NEW alive, Good(r, n, alive), NEW j \in Slot
  PROVE  LET s == [r EXCEPT !.imp[j] = NoName]
         IN /\ r.owner[j] = NoName => Good(SaveConfig(UpdateState(AddSlot(s, s.name, j))), n, alive)
            /\ r.owner[j] # NoName => Good(SaveConfig(UpdateState(DelSlot(s, j))), n, alive)
<1>1. PICK s : s = [r EXCEPT !.imp[j] = NoName]
  BY Zenon
<1>2. r \in Server /\ r.imp \in [Slot -> MaybeName]
  BY ServerFields DEF Good, Running
<1>3. [r.imp EXCEPT ![j] = NoName] \in [Slot -> MaybeName]
  BY <1>2 DEF MaybeName
<1>4. s \in Server /\ Minor(r, s)
  BY <1>1, <1>2, <1>3 DEF Server, Minor
<1>5. Running(s, n, alive) /\ s.owner = r.owner
  BY <1>4, MinorKeeps DEF Good, Minor
<1>6. s.name \in DOMAIN s.nodes /\ s.name[2] <= 0 /\ s.name # NoName /\ s.fault \in BOOLEAN
  BY <1>4, <1>5, OwnEntry, NobodysName DEF Server
<1>7. \A x \in DOMAIN s.nodes : s.nodes[x].slots \subseteq Slot
  BY <1>5, EntryOf, EntryFields DEF Sound
<1>8. ASSUME r.owner[j] = NoName PROVE Running(AddSlot(s, s.name, j), n, alive)
  <2>1. PICK x, B : x = s.name /\ B = s.nodes[x].slots \cup {j}
    BY Zenon
  <2>2. AddSlot(s, s.name, j) = Reassigned(s, j, x, B, s.name, s.fault)
    <3>1. s = [s EXCEPT !.fault = s.fault]
      BY <1>4 DEF Server
    <3>2. [s EXCEPT !.nodes[x].slots = @ \cup {j}, !.owner[j] = x] =
          [s EXCEPT !.nodes = [@ EXCEPT ![x].slots = B], !.owner = [@ EXCEPT ![j] = x]]
      BY <2>1
    <3> QED BY <2>1, <3>1, <3>2 DEF AddSlot, Reassigned
  <2>3. B \subseteq Slot /\ x \in DOMAIN s.nodes /\ x[2] <= 0
    BY <1>6, <1>7, <2>1
  <2>4. \A i \in Slot \ {j} : i \in B <=> i \in s.nodes[x].slots
    BY <2>1
  <2>5. j \in B
    BY <2>1
  <2> QED BY <1>5, <1>6, <2>1, <2>2, <2>3, <2>4, <2>5, SlotKeeps
<1>9. ASSUME r.owner[j] # NoName PROVE Running(DelSlot(s, j), n, alive)
  <2>1. PICK x, B, b : /\ x = s.owner[j] /\ B = s.nodes[x].slots \ {j}
                       /\ b = (s.fault \/ j \notin s.nodes[x].slots)
    BY Zenon
  <2>2. DelSlot(s, j) = Reassigned(s, j, x, B, NoName, b)
    BY <2>1 DEF DelSlot, Reassigned
  <2>3. x \in DOMAIN s.nodes /\ x[2] <= 0
    BY <1>5, <1>9, <2>1 DEF Running, OwnersSound
  <2>4. B \subseteq Slot /\ b \in BOOLEAN /\ j \notin B /\ \A i \in Slot \ {j} : i \in B <=> i \in s.nodes[x].slots
    BY <1>6, <1>7, <2>1, <2>3
  <2>5. PICK o : o = NoName
    BY Zenon
  <2>6. x = s.owner[j] /\ o \in {NoName, s.name} /\ o # s.name
    BY <1>6, <2>1, <2>5
  <2>7. Running(Reassigned(s, j, x, B, o, b), n, alive)
    BY <1>5, <2>3, <2>4, <2>6, SlotKeeps
  <2> QED BY <2>2, <2>5, <2>7
<1> QED BY <1>1, <1>8, <1>9, CommandEnds

(***************************************************************************)
(* Steps                                                                    *)
(***************************************************************************)
Rest == mix' \in Mix /\ now' \in Int /\ late' \subseteq Node \X Key \X Value

\* A step that leaves the slots, keys and migrations of every server alone
Calm == \A c \in Node : srv'[c] = srv[c] \/ Kept(srv[c], srv'[c])

LEMMA InvFacts ==
  ASSUME ClusterInv, NEW n \in Node
  PROVE  /\ srv[n] \in Server /\ FileSound(srv[n].file, n)
         /\ srv[n].up <=> n \in Alive
         /\ srv[n].up => Good(srv[n], n, Alive)
         /\ ~srv[n].up => Stopped(srv[n], n)
         /\ DOMAIN srv[n].nodes # {} => srv[n].up
BY DEF ClusterInv, Alive, Good, Running, Stopped

\* Servers that run become servers that run.
LEMMA RunningStep ==
  ASSUME ClusterInv, Rest, srv' = [c \in Node |-> srv'[c]],
         \A c \in Node : srv'[c] = srv[c] \/ (srv[c].up /\ Good(srv'[c], c, Alive))
  PROVE  ClusterInv'
<1>1. \A c \in Node : srv'[c].up <=> srv[c].up
  BY DEF Good, Running
<1>2. Alive' = Alive
  BY <1>1 DEF Alive
<1>3. ASSUME NEW c \in Node
      PROVE  IF srv'[c].up THEN Running(srv'[c], c, Alive) /\ Exact(srv'[c]) ELSE Stopped(srv'[c], c)
  BY <1>1, InvFacts DEF Good
<1>4. \A c \in Node : srv'[c] \in Server
  BY <1>3 DEF Running, Stopped
<1>5. srv' \in [Node -> Server]
  BY <1>4
<1> QED BY <1>2, <1>3, <1>5 DEF ClusterInv, Rest

LEMMA OneStep ==
  ASSUME ClusterInv, Rest, NEW n \in Node, srv[n].up, NEW t, Good(t, n, Alive),
         srv' = [srv EXCEPT ![n] = t]
  PROVE  ClusterInv' /\ (Kept(srv[n], t) => Calm)
<1>1. DOMAIN srv = Node
  BY DEF ClusterInv
<1>2. srv' = [c \in Node |-> srv'[c]] /\ srv'[n] = t /\ \A c \in Node \ {n} : srv'[c] = srv[c]
  BY <1>1
<1>3. Kept(srv[n], t) => Calm
  BY <1>2 DEF Calm
<1> QED BY <1>2, <1>3, RunningStep

\* A server that was down starts.
LEMMA StartStep ==
  ASSUME ClusterInv, Rest, NEW n \in Node, ~srv[n].up,
         NEW t, Good(t, n, Alive \cup {n}), srv' = [srv EXCEPT ![n] = t]
  PROVE  ClusterInv'
<1>1. DOMAIN srv = Node
  BY DEF ClusterInv
<1>2. srv' = [c \in Node |-> srv'[c]] /\ srv'[n] = t /\ \A c \in Node \ {n} : srv'[c] = srv[c]
  BY <1>1
<1>3. t.up
  BY DEF Good, Running
<1>4. Alive' = Alive \cup {n}
  BY <1>2, <1>3 DEF Alive
<1>5. ASSUME NEW c \in Node
      PROVE  IF srv'[c].up THEN Running(srv'[c], c, Alive') /\ Exact(srv'[c]) ELSE Stopped(srv'[c], c)
  <2>1. CASE c = n
    BY <1>2, <1>3, <1>4, <2>1 DEF Good
  <2>2. CASE c # n /\ srv[c].up
    <3>1. Good(srv[c], c, Alive \cup {n})
      BY <2>2, InvFacts, MoreAlive
    <3> QED BY <1>2, <1>4, <2>2, <3>1 DEF Good
  <2>3. CASE c # n /\ ~srv[c].up
    BY <1>2, <2>3, InvFacts
  <2> QED BY <2>1, <2>2, <2>3
<1>6. \A c \in Node : srv'[c] \in Server
  BY <1>5 DEF Running, Stopped
<1>7. srv' \in [Node -> Server]
  BY <1>2, <1>6
<1> QED BY <1>5, <1>7 DEF ClusterInv, Rest

\* The queues of an entry
LEMMA OutKeeps ==
  ASSUME NEW s, NEW n, NEW alive, Good(s, n, alive), NEW x \in DOMAIN s.nodes,
         NEW q \in Seq(Message)
  PROVE  LET t == [s EXCEPT !.nodes[x].out = q]
         IN Good(t, n, alive) /\ Kept(s, t) /\ DOMAIN t.nodes = DOMAIN s.nodes
<1>1. PICK d, e : d = s.nodes[x] /\ e = [d EXCEPT !.out = q]
  BY Zenon
<1>2. Sound(d, x, s.name, alive) /\ d \in Entry
  BY <1>1, EntryOf DEF Good, Sound
<1>3. e \in Entry /\ SameBut(d, e)
  BY <1>1, <1>2 DEF Entry, SameBut
<1>4. Sound(e, x, s.name, alive) /\ e.slots = s.nodes[x].slots /\ e.flags = s.nodes[x].flags
  BY <1>1, <1>2, <1>3, SameSound DEF SameBut
<1>5. [s EXCEPT !.nodes[x].out = q] = [s EXCEPT !.nodes = [@ EXCEPT ![x] = e]]
  BY <1>1
<1>7. PICK t : t = [s EXCEPT !.nodes = [@ EXCEPT ![x] = e]]
  BY Zenon
<1>8. Running(t, n, alive) /\ Exact(t) /\ Kept(s, t) /\ DOMAIN t.nodes = DOMAIN s.nodes
  <2>1. e.slots = s.nodes[x].slots /\ ("fail" \in e.flags <=> "fail" \in s.nodes[x].flags)
    BY <1>4
  <2> QED BY <1>4, <1>7, <2>1, SetEntry DEF Good
<1> QED BY <1>5, <1>7, <1>8 DEF Good

LEMMA BackKeeps ==
  ASSUME NEW s, NEW n, NEW alive, Good(s, n, alive), NEW x \in DOMAIN s.nodes,
         NEW q \in Seq(Message), \A i \in DOMAIN q : q[i].from[1] = x[1] /\ q[i].from[2] <= 0
  PROVE  LET t == [s EXCEPT !.nodes[x].back = q]
         IN Good(t, n, alive) /\ Kept(s, t) /\ DOMAIN t.nodes = DOMAIN s.nodes
<1>1. PICK d, e : d = s.nodes[x] /\ e = [d EXCEPT !.back = q]
  BY Zenon
<1>2. Sound(d, x, s.name, alive) /\ d \in Entry
  BY <1>1, EntryOf DEF Good, Sound
<1>3. e \in Entry /\ e.slots = d.slots /\ e.flags = d.flags /\ e.addr = d.addr /\ e.link = d.link /\ e.back = q
  BY <1>1, <1>2 DEF Entry
<1>4. Sound(e, x, s.name, alive)
  BY <1>2, <1>3 DEF Sound, Fits, LinkSound
<1>5. [s EXCEPT !.nodes[x].back = q] = [s EXCEPT !.nodes = [@ EXCEPT ![x] = e]]
  BY <1>1
<1>6. e.slots = s.nodes[x].slots /\ e.flags = s.nodes[x].flags
  BY <1>1, <1>3
<1>7. PICK t : t = [s EXCEPT !.nodes = [@ EXCEPT ![x] = e]]
  BY Zenon
<1>8. Running(t, n, alive) /\ Exact(t) /\ Kept(s, t) /\ DOMAIN t.nodes = DOMAIN s.nodes
  <2>1. e.slots = s.nodes[x].slots /\ ("fail" \in e.flags <=> "fail" \in s.nodes[x].flags)
    BY <1>6
  <2> QED BY <1>4, <1>7, <2>1, SetEntry DEF Good
<1> QED BY <1>5, <1>7, <1>8 DEF Good

\* clusterReadHandler with a PONG
LEMMA ReadPongKeeps ==
  ASSUME ClusterInv, NEW a \in Node, NEW x \in Entries(a), ReadPong(a, x)
  PROVE  ClusterInv' /\ Calm
<1>1. x \in DOMAIN srv[a].nodes /\ srv[a].up /\ Good(srv[a], a, Alive)
  BY InvFacts DEF Entries
<1>2. PICK e, q : e = srv[a].nodes[x] /\ q = e.back
  BY Zenon
<1>3. PICK s : s = [srv[a] EXCEPT !.nodes[x].back = Tail(q)]
  BY Zenon
<1>4. /\ e.link = "up" /\ q # <<>> /\ RoomFor(s, Head(q), a) /\ Rest
      /\ srv' = [srv EXCEPT ![a] = ProcessPong(s, x, Head(q))]
  BY <1>2, <1>3 DEF ReadPong, ClusterInv, Rest
<1>5. Sound(e, x, srv[a].name, Alive) /\ q \in Seq(Message)
  BY <1>1, <1>2, EntryOf, EntryFields DEF Good, Sound
<1>6. /\ Tail(q) \in Seq(Message) /\ Head(q) = q[1] /\ 1 \in DOMAIN q /\ q[1] \in Message
      /\ \A i \in DOMAIN Tail(q) : i + 1 \in DOMAIN q /\ Tail(q)[i] = q[i + 1]
  BY <1>4, <1>5
<1>7. \A i \in DOMAIN q : q[i].from[1] = x[1] /\ q[i].from[2] <= 0
  BY <1>2, <1>5 DEF Sound, LinkSound
<1>8. \A i \in DOMAIN Tail(q) : Tail(q)[i].from[1] = x[1] /\ Tail(q)[i].from[2] <= 0
  BY <1>6, <1>7
<1>9. Good(s, a, Alive) /\ Kept(srv[a], s) /\ DOMAIN s.nodes = DOMAIN srv[a].nodes
  <2>1. PICK z : z = Tail(q)
    BY Zenon
  <2>2. z \in Seq(Message) /\ \A i \in DOMAIN z : z[i].from[1] = x[1] /\ z[i].from[2] <= 0
    BY <1>6, <1>8, <2>1
  <2>3. s = [srv[a] EXCEPT !.nodes[x].back = z]
    BY <1>3, <2>1
  <2> QED BY <1>1, <2>2, <2>3, BackKeeps
<1>10. x \in DOMAIN s.nodes /\ x # s.name
  BY <1>1, <1>2, <1>4, <1>5, <1>9 DEF Kept, Sound, LinkSound
<1>11. PICK m : m = Head(q)
  BY Zenon
<1>12. /\ m \in Message /\ m.from[1] = x[1] /\ m.from[2] <= 0
       /\ \A g \in m.gossip : g.name \in DOMAIN s.nodes \/ FreeNames(s, g.addr) # {}
  BY <1>4, <1>6, <1>7, <1>11 DEF RoomFor
<1>13. PICK t : t = ProcessPong(s, x, m)
  BY Zenon
<1>14. Good(t, a, Alive) /\ Kept(s, t)
  BY <1>9, <1>10, <1>12, <1>13, ProcessPongKeeps DEF ClusterInv
<1>15. Kept(srv[a], t)
  BY <1>9, <1>14, KeptOn
<1> QED BY <1>1, <1>4, <1>11, <1>13, <1>14, <1>15, OneStep

\* clusterReadHandler with a PING, a MEET or a FAIL: the server it came to, and
\* the link it came by, where the answer is on its way.
LEMMA ReadPingKeeps ==
  ASSUME ClusterInv, NEW a \in Node, NEW x \in Entries(a), NEW g, ReadPing(a, x, g)
  PROVE  ClusterInv' /\ Calm
<1>1. x \in DOMAIN srv[a].nodes /\ srv[a].up /\ Good(srv[a], a, Alive)
  BY InvFacts DEF Entries
<1>2. PICK e, b, m, q : e = srv[a].nodes[x] /\ b = e.addr /\ q = e.out /\ m = Head(q)
  BY Zenon
<1>3. PICK r : r = [srv[a] EXCEPT !.nodes[x].out = Tail(q)]
  BY Zenon
<1>4. PICK read : read = [srv EXCEPT ![a] = r]
  BY Zenon
<1>5. PICK t : t = ProcessPacket(read[b], m, a)
  BY Zenon
<1>6. PICK done : done = [read EXCEPT ![b] = t]
  BY Zenon
<1>7. read = Taken(a, x)
  BY <1>2, <1>3, <1>4 DEF Taken
<1>8. /\ e.link = "up" /\ q # <<>> /\ RoomFor(srv[b], m, a) /\ Rest
      /\ m.type # "fail" => g \in Draws(t)
      /\ srv' = IF m.type = "fail" THEN done
                ELSE [done EXCEPT ![a].nodes[x].back = Append(@, BuildMessage(t, "pong", g))]
  <2>1. e.link = "up" /\ q # <<>> /\ RoomFor(srv[b], m, a)
    BY <1>2 DEF ReadPing
  <2>2. Rest
    BY DEF ReadPing, ClusterInv, Rest
  <2>3. m.type # "fail" => g \in Draws(t)
    BY <1>2, <1>5, <1>7 DEF ReadPing
  <2>4. srv' = IF m.type = "fail" THEN done
               ELSE [done EXCEPT ![a].nodes[x].back = Append(@, BuildMessage(t, "pong", g))]
    BY <1>2, <1>5, <1>6, <1>7 DEF ReadPing, Replied
  <2> QED BY <2>1, <2>2, <2>3, <2>4
<1>9. Sound(e, x, srv[a].name, Alive) /\ q \in Seq(Message) /\ x \in Name
  BY <1>1, <1>2, EntryOf, EntryFields DEF Good, Sound
<1>10. Tail(q) \in Seq(Message) /\ m \in Message
  <2>1. q # <<>> /\ q \in Seq(Message) /\ m = Head(q)
    BY <1>2, <1>8, <1>9
  <2> QED BY <2>1
<1>11. Good(r, a, Alive) /\ Kept(srv[a], r) /\ DOMAIN r.nodes = DOMAIN srv[a].nodes
  BY <1>1, <1>3, <1>10, OutKeeps
<1>12. b \in Node /\ b \in Alive /\ srv[b].up /\ b = x[1]
  BY <1>2, <1>8, <1>9, InvFacts DEF Sound, Fits, LinkSound, Alive
<1>13. DOMAIN srv = Node
  BY DEF ClusterInv
<1>14. read[a] = r /\ \A c \in Node \ {a} : read[c] = srv[c]
  BY <1>4, <1>13
<1>15. Good(read[b], b, Alive) /\ DOMAIN read[b].nodes = DOMAIN srv[b].nodes
  BY <1>11, <1>12, <1>14, InvFacts
<1>16. RoomFor(read[b], m, a)
  BY <1>8, <1>15 DEF RoomFor, FreeNames
<1>17. Good(t, b, Alive) /\ Grown(read[b], t)
  BY <1>5, <1>10, <1>15, <1>16, ProcessFailKeeps, ProcessPingKeeps DEF ProcessPacket
<1>18. /\ done = [c \in Node |-> done[c]] /\ done[b] = t
       /\ \A c \in Node \ {b} : done[c] = read[c]
  BY <1>4, <1>6, <1>12, <1>13
<1>19. Good(done[a], a, Alive) /\ x \in DOMAIN done[a].nodes
  BY <1>1, <1>11, <1>14, <1>17, <1>18 DEF Grown
<1>20. \A c \in Node \ {a, b} : done[c] = srv[c]
  BY <1>14, <1>18
<1>21. \A c \in Node : done[c] = srv[c] \/ Kept(srv[c], done[c])
  <2>1. Kept(read[b], t) /\ Kept(srv[a], r)
    BY <1>11, <1>17 DEF Grown
  <2>2. CASE a = b
    BY <1>14, <1>18, <1>20, <2>1, <2>2, KeptOn
  <2>3. CASE a # b
    BY <1>12, <1>14, <1>18, <1>20, <2>1, <2>3
  <2> QED BY <2>2, <2>3
<1>22. CASE m.type = "fail"
  <2>1. srv' = done
    BY <1>8, <1>22
  <2>2. \A c \in Node : srv'[c] = srv[c] \/ (srv[c].up /\ Good(srv'[c], c, Alive))
    BY <1>1, <1>12, <1>17, <1>18, <1>19, <1>20, <2>1
  <2>3. Calm
    BY <1>21, <2>1 DEF Calm
  <2> QED BY <1>8, <1>18, <2>1, <2>2, <2>3, RunningStep
<1>23. CASE m.type # "fail"
  <2>1. PICK p, f, w : /\ p = BuildMessage(t, "pong", g) /\ f = done[a].nodes[x].back
                       /\ w = [done[a] EXCEPT !.nodes[x].back = Append(f, p)]
    BY Zenon
  <2>2. g \in (DOMAIN t.nodes \cap RealName) \cup {NoName}
    <3>1. g = NoName \/ (g \in DOMAIN t.nodes /\ t.nodes[g].flags \cap {"myself", "handshake"} = {})
      BY <1>8, <1>23 DEF Draws
    <3>2. ASSUME g \in DOMAIN t.nodes, t.nodes[g].flags \cap {"myself", "handshake"} = {}
          PROVE  g \in RealName
      <4>1. Fits(t.nodes[g], g, t.name) /\ g \in Name
        BY <1>17, <3>2, EntryOf DEF Good, Sound
      <4> QED BY <3>2, <4>1 DEF Fits, RealName, Name
    <3> QED BY <3>1, <3>2
  <2>3. p \in Message /\ p.from = t.name /\ t.name[1] = x[1] /\ t.name[2] <= 0
    BY <1>12, <1>17, <2>1, <2>2, MessageBuilt, OwnEntry DEF Good
  <2>4. /\ f \in Seq(Message)
        /\ \A i \in DOMAIN f : f[i].from[1] = x[1] /\ f[i].from[2] <= 0
    BY <1>19, <2>1, EntryOf, EntryFields DEF Good, Sound, LinkSound
  <2>5. /\ Append(f, p) \in Seq(Message)
        /\ \A i \in DOMAIN Append(f, p) : Append(f, p)[i] = p \/ (i \in DOMAIN f /\ Append(f, p)[i] = f[i])
    BY <2>3, <2>4
  <2>6. \A i \in DOMAIN Append(f, p) : Append(f, p)[i].from[1] = x[1] /\ Append(f, p)[i].from[2] <= 0
    BY <2>3, <2>4, <2>5
  <2>7. Good(w, a, Alive) /\ Kept(done[a], w)
    BY <1>19, <2>1, <2>5, <2>6, BackKeeps
  <2>8. srv' = [done EXCEPT ![a] = w]
    BY <1>8, <1>23, <2>1
  <2>9. srv' = [c \in Node |-> srv'[c]] /\ srv'[a] = w /\ \A c \in Node \ {a} : srv'[c] = done[c]
    BY <1>18, <2>8
  <2>10. \A c \in Node : srv'[c] = srv[c] \/ (srv[c].up /\ Good(srv'[c], c, Alive))
    BY <1>1, <1>12, <1>17, <1>18, <1>20, <2>7, <2>9
  <2>11. Kept(srv[a], w)
    <3>1. CASE done[a] = srv[a]
      BY <2>7, <3>1
    <3>2. CASE Kept(srv[a], done[a])
      BY <2>7, <3>2, KeptOn
    <3> QED BY <1>21, <3>1, <3>2
  <2>12. Calm
    BY <1>21, <2>9, <2>11 DEF Calm
  <2> QED BY <1>8, <2>9, <2>10, <2>12, RunningStep
<1> QED BY <1>22, <1>23
=============================================================================
