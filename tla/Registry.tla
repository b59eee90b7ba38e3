------------------------------ MODULE Registry ------------------------------
(***************************************************************************)
(* What the table catalog promises: a registry that gives every registered *)
(* name a slot of its own, keeps that slot for as long as the name is      *)
(* registered, and forgets a name only when it is dropped (or everything   *)
(* is flushed).                                                            *)
(***************************************************************************)
CONSTANTS Names,      \* names that may be registered
          SlotIds     \* slots they may be given

VARIABLE reg          \* the slot of every registered name

Init == reg = [n \in {} |-> n]

Create(n) == /\ n \notin DOMAIN reg
             /\ \E s \in SlotIds :
                  /\ \A m \in DOMAIN reg : reg[m] # s
                  /\ reg' = [x \in DOMAIN reg \cup {n} |->
                               IF x = n THEN s ELSE reg[x]]

Drop(n) == /\ n \in DOMAIN reg
           /\ reg' = [x \in DOMAIN reg \ {n} |-> reg[x]]

Flush == reg' = [n \in {} |-> n]

Next == Flush \/ \E n \in Names : Create(n) \/ Drop(n)

Spec == Init /\ [][Next]_reg
=============================================================================
