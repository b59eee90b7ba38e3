---------------------------- MODULE MCCluster ----------------------------
EXTENDS Cluster

MCSlotOf == [k \in Key |-> 0]

\* Nothing happens but what a mix adds.
Quiet ==
  [timed |-> TRUE, silent |-> {}, crons |-> {}, about |-> Node, pings |-> Node \X Node, crash |-> {}, lose |-> FALSE,
   meets |-> {}, must |-> {}, slots |-> {}, cmds |-> 3, setslot |-> {}, keys |-> {}, timeouts |-> FALSE,
   known |-> Node, owner |-> [j \in Slot |-> IF j = 0 THEN "a" ELSE "b"], value |-> NoKey]

\* Two servers meet, without a clock.
Meeting ==
  [Quiet EXCEPT !.timed = FALSE, !.crons = {"a", "b"}, !.meets = {<<"a", "b">>},
                !.must = {<<"a", "b">>}, !.known = {"c"}, !.owner = [j \in Slot |-> "c"]]

\* A third one is met by one of two, which then tells the other; and a server
\* is told to meet itself.
Introduced ==
  [Quiet EXCEPT !.crons = {"a", "b"}, !.meets = {<<"a", "c">>}, !.known = {"a", "b"},
                !.pings = {<<"a", "b">>}, !.about = {"c"}]
Itself ==
  [Quiet EXCEPT !.crons = {"a", "b"}, !.meets = {<<"a", "a">>}, !.known = {"a", "b"}]

\* A server crashes and comes back; the two others time it out.
Failing == [Quiet EXCEPT !.crons = {"a", "c"}, !.crash = {"b"}, !.silent = {"b"}, !.about = {"b"},
                !.pings = {<<"c", "a">>}]

\* It comes back without its file.
Renamed ==
  [Quiet EXCEPT !.crons = {"a", "b"}, !.crash = {"b"}, !.lose = TRUE, !.known = {"a", "b"}]

\* Slots are taken and given back by two servers, one of which restarts.
Slots ==
  [Quiet EXCEPT !.crons = {"a"}, !.known = {"a", "b"}, !.slots = {"a", "b"} \X {0, 1}, !.crash = {"a"},
                !.setslot = {<<"a", 1, "importing", <<"b", 0>>>>, <<"a", 1, "stable", <<"b", 0>>>>}]

\* A slot is migrated with its key, without and with timeouts.
Moving(v, t) ==
  [Quiet EXCEPT !.keys = Key, !.timeouts = t, !.known = {"a", "b"},
                !.setslot = 
                  {<<"a", 0, "migrating", <<"b", 0>>>>, <<"b", 0, "importing", <<"a", 0>>>>},
                !.value = v]
MCMixes ==
  {Meeting, Introduced, Itself, Failing, Renamed, Slots,
   Moving([v |-> 1, exp |-> 1, packed |-> FALSE], TRUE),
   Moving([v |-> 1, exp |-> 0, packed |-> TRUE], FALSE)}
=============================================================================
