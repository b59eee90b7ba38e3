------------------------------- MODULE MCLink -------------------------------
(* What leaves the server and comes back to it: the link to replicas, the      *)
(* append only file, and the connection of a client. The three share no state  *)
(* that a property here is about, so a behaviour exercises one of them (part)  *)
(* and leaves the others as they start.                                        *)
EXTENDS Replication, AppendOnly, Protocol
VARIABLE part

lvars == <<part, ms, conn, rs, mix, ao, cx>>
Idle  == [ops |-> {}, replicas |-> {}, writes |-> 0, faults |-> 0]
Init ==
    \/ /\ part = "sync"
       /\ (\E m \in Mixes : RInit(m)) /\ AInit({}) /\ cx = Fresh
    \/ /\ part = "log"
       /\ RInit(Idle) /\ (\E ops \in LogMixes : AInit(ops)) /\ cx = Fresh
    \/ /\ part = "stream"
       /\ RInit(Idle) /\ AInit({}) /\ PInit
Next ==
    \/ part = "sync"   /\ RNext /\ UNCHANGED <<part, ao, cx>>
    \/ part = "log"    /\ ANext /\ UNCHANGED <<part, ms, conn, rs, mix, cx>>
    \/ part = "stream" /\ PNext /\ UNCHANGED <<part, ms, conn, rs, mix, ao>>

Spec     == Init /\ [][Next]_lvars
FairSpec == Spec /\ RFair
-----------------------------------------------------------------------------
(* Two replicas at most, two databases, one or two writes, one fault, three    *)
(* places for connections (one more than replicas, so that a replica comes     *)
(* back while the master still has its old connection).                        *)
MCMix(ops, replicas, writes, faults) == [ops |-> ops, replicas |-> replicas, writes |-> writes, faults |-> faults]
MCMixes == {
    MCMix({"write"}, {"r1", "r2"}, 2, 0),
    MCMix({"write", "lose"}, {"r1"}, 2, 1),
    MCMix({"write", "bgsave", "fail"}, {"r1"}, 2, 1),
    MCMix({"write", "bgsave"}, {"r1", "r2"}, 1, 0),
    MCMix({"write", "part", "timeout", "ping"}, {"r1"}, 1, 1),
    MCMix({"slaveof"}, {"r1"}, 0, 0),
    MCMix({"write", "purge"}, {"r1", "r2"}, 1, 0),
    MCMix({"write", "bgsave", "purge"}, {"r1"}, 1, 0)}

MCLogMixes == {{"rewrite", "fail", "crash"}, {"rewrite", "bgsave", "config", "fail"},
               {"rewrite", "resync", "crash"}, {"rewrite", "config", "crash"}}

Crlf       == <<"\r", "\n">>
Count(s)   == <<"0", "1", "2", "3">>[Len(s) + 1]
Bulk(w)    == <<"$", Count(w)>> \o Crlf \o w \o Crlf
Multi(ws)  == <<"*", Count(ws)>> \o Crlf \o FlattenSeq([i \in DOMAIN ws |-> Bulk(ws[i])])
Line(ws)   == FlattenSeq([i \in DOMAIN ws |-> ws[i] \o <<" ">>]) \o Crlf
A          == <<"a">>
Cmd(ws)    == <<"cmd", ws>>
MCStreams == {
    [meant |-> <<Cmd(<<A, Crlf>>), Cmd(<<A>>)>>, bytes |-> Multi(<<A, Crlf>>) \o Multi(<<>>) \o Multi(<<A>>)],
    [meant |-> <<Cmd(<<A, <<>> >>), Cmd(<<A, A>>)>>, bytes |-> Multi(<<A, <<>> >>) \o Line(<<A, A>>)],
    [meant |-> <<Cmd(<<A>>), <<"http", "P", A, <<"x", "\r", "\n">>>>>>,
     bytes |-> Line(<<A>>) \o Line(<<<<"P">>, A, <<"h", "1">>>>) \o Line(<<<<"L">>, <<"3">>>>) \o Crlf
               \o <<"x", "\r", "\n">>],
    [meant |-> <<<<"http", "G", A, <<>> >>, Cmd(<<A>>)>>,
     bytes |-> Line(<<<<"G">>, A, <<"h", "0">>>>) \o Line(<<<<"C">>, <<"k">>>>) \o Line(<<A>>) \o Crlf \o Multi(<<A>>)]}

MCScripts == <<
    [ops |-> <<<<"add", <<"a", "b">>>>>>, bytes |-> <<"a", "b">>],
    [ops |-> <<<<"later">>, <<"add", <<"c">>>>, <<"add", <<"d", "e">>>>, <<"set", <<"2">>>>>>,
     bytes |-> <<"2", "c", "d", "e">>],
    [ops |-> <<<<"add", <<"f">>>>, <<"later">>, <<"later">>, <<"add", <<"g">>>>, <<"set", <<"1">>>>,
               <<"add", <<"h", "i">>>>, <<"set", <<"0">>>>>>,
     bytes |-> <<"f", "0", "1", "g", "h", "i">>]>>
=============================================================================
