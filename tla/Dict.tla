-------------------------------- MODULE Dict --------------------------------
(* The hash table of the server (dict.c), which moves its keys from one table  *)
(* to the other a bucket at a time while it is used and iterated over. Keys    *)
(* are numbers and hash to themselves. A dict is a record                      *)
(*   ht, used   the two tables as sequences of chains, and their counts        *)
(*   idx        rehashidx, or -1                                               *)
(*   iters, can the number of safe iterators; dict_can_resize                  *)
(*   fault      an assertion failed or an entry was used after it was freed    *)
(* An iterator is [safe, table, index, entry, next], entry and next being keys *)
(* or None.                                                                    *)
EXTENDS Integers, Sequences, FiniteSets, SequencesExt
CONSTANTS InitialSize, ForceRatio, MinFill

None == -1
DictCreate == [ht |-> <<<<>>, <<>>>>, used |-> <<0, 0>>, idx |-> -1, iters |-> 0, can |-> TRUE,
               fault |-> FALSE]
IsRehashing(d) == d.idx # -1
NoTable(n) == [i \in 1 .. n |-> <<>>]
Bucket(t, k) == (k % Len(t)) + 1

NextPower(size) ==
  CHOOSE n \in {InitialSize * 2 ^ i : i \in 0 .. 8} :
    n >= size /\ \A i \in 0 .. 8 : InitialSize * 2 ^ i >= size => n <= InitialSize * 2 ^ i
DictExpand(d, size) ==
  IF IsRehashing(d) \/ d.used[1] > size THEN d
  ELSE IF d.ht[1] = <<>> THEN [d EXCEPT !.ht[1] = NoTable(NextPower(size)), !.used[1] = 0]
  ELSE [d EXCEPT !.ht[2] = NoTable(NextPower(size)), !.used[2] = 0, !.idx = 0]
DictResize(d) ==
  IF ~d.can \/ IsRehashing(d) THEN d
  ELSE DictExpand(d, IF d.used[1] < InitialSize THEN InitialSize ELSE d.used[1])
ExpandIfNeeded(d) ==
  IF IsRehashing(d) THEN d
  ELSE IF d.ht[1] = <<>> THEN DictExpand(d, InitialSize)
  ELSE IF d.used[1] >= Len(d.ht[1]) /\ (d.can \/ d.used[1] \div Len(d.ht[1]) > ForceRatio)
  THEN DictExpand(d, 2 * (IF Len(d.ht[1]) > d.used[1] THEN Len(d.ht[1]) ELSE d.used[1]))
  ELSE d

(* One step of dictRehash: the next chain that is not empty moves, its entries *)
(* each to the head of their new chain; a step after the last swaps the tables.*)
DictRehash(d) ==
  LET old == d.ht[1]
      b == CHOOSE i \in DOMAIN old : /\ i > d.idx /\ old[i] # <<>>
                                     /\ \A j \in d.idx + 1 .. i - 1 : old[j] = <<>>
      Move(t, k) == [t EXCEPT ![Bucket(t, k)] = <<k>> \o @]
  IN IF ~IsRehashing(d) THEN d
     ELSE IF d.used[1] = 0
     THEN [d EXCEPT !.ht = <<d.ht[2], <<>>>>, !.used = <<d.used[2], 0>>, !.idx = -1]
     ELSE IF \A i \in DOMAIN old : i > d.idx => old[i] = <<>> THEN [d EXCEPT !.fault = TRUE]
     ELSE [d EXCEPT !.ht = <<[old EXCEPT ![b] = <<>>], FoldLeft(Move, d.ht[2], old[b])>>,
                    !.used = <<@[1] - Len(old[b]), @[2] + Len(old[b])>>, !.idx = b]
(* Every lookup and update does a step, unless a safe iterator is at work.     *)
RehashStepAlways(d) == DictRehash(d)
RehashStep(d) == IF d.iters = 0 THEN DictRehash(d) ELSE d

In(d, t, k) == d.ht[t] # <<>> /\ k \in Range(d.ht[t][Bucket(d.ht[t], k)])
Tables(d) == IF IsRehashing(d) THEN {1, 2} ELSE {1}
Holds(d, k) == \E t \in Tables(d) : In(d, t, k)
DictFind(d) == IF d.ht[1] = <<>> THEN d ELSE RehashStep(d)
DictAdd(d, k) ==
  LET t(u) == IF IsRehashing(u) THEN 2 ELSE 1
      Go(u) == IF Holds(u, k) THEN u
               ELSE [u EXCEPT !.ht[t(u)][Bucket(u.ht[t(u)], k)] = <<k>> \o @,
                              !.used[t(u)] = @ + 1]
  IN Go(ExpandIfNeeded(RehashStep(d)))
(* dictReplace: an entry that is there keeps its place and gets the value.     *)
DictReplace(d, k) == IF Holds(RehashStep(d), k) THEN DictFind(DictAdd(d, k)) ELSE DictAdd(d, k)
DictDelete(d, k) ==
  LET Go(u) == IF ~Holds(u, k) THEN u
               ELSE LET t == CHOOSE i \in Tables(u) : In(u, i, k)
                    IN [u EXCEPT !.ht[t][Bucket(u.ht[t], k)] = SelectSeq(@, LAMBDA x : x # k),
                                 !.used[t] = @ - 1]
  IN IF d.ht[1] = <<>> THEN d ELSE Go(RehashStep(d))
DictEmpty(d) == [DictCreate EXCEPT !.can = d.can]
DictGetRandomKey(d) == IF d.used[1] + d.used[2] = 0 THEN d ELSE RehashStep(d)

HtNeedsResize(d) ==
  LET size == Len(d.ht[1]) + Len(d.ht[2])
      used == d.used[1] + d.used[2]
  IN size > InitialSize /\ used > 0 /\ (used * 100) \div size < MinFill

(********************************* iterators *********************************)
DictGetIterator(safe) ==
  [safe |-> safe, table |-> 1, index |-> 0, entry |-> None, next |-> None]
(* The entry behind k in its chain, wherever k is by now.                      *)
Behind(d, k) ==
  LET chain == CHOOSE c \in UNION {Range(d.ht[t]) : t \in {1, 2}} : k \in Range(c)
      i == CHOOSE j \in DOMAIN chain : chain[j] = k
  IN IF i = Len(chain) THEN None ELSE chain[i + 1]
Allocated(d, k) == \E t \in {1, 2} : \E b \in DOMAIN d.ht[t] : k \in Range(d.ht[t][b])
(* dictNext: the dict and the iterator after it, done when there is no more.   *)
RECURSIVE DictNext(_, _)
DictNext(d, it) ==
  LET u == IF it.safe /\ it.index = 0 /\ it.table = 1 THEN [d EXCEPT !.iters = @ + 1] ELSE d
      over == it.index + 1 > Len(u.ht[it.table])
      t == IF over THEN 2 ELSE it.table
      i == IF over THEN 1 ELSE it.index + 1
      first == IF u.ht[t][i] = <<>> THEN None ELSE Head(u.ht[t][i])
      At(w, jt, e) == [d |-> w, it |-> [jt EXCEPT !.entry = e, !.next = Behind(w, e)], done |-> FALSE]
  IN IF it.entry = None
     THEN IF over /\ ~(IsRehashing(u) /\ it.table = 1)
          THEN [d |-> u, it |-> [it EXCEPT !.index = @ + 1], done |-> TRUE]
          ELSE IF first = None THEN DictNext(u, [it EXCEPT !.table = t, !.index = i])
          ELSE At(u, [it EXCEPT !.table = t, !.index = i], first)
     ELSE IF it.next = None THEN DictNext(d, [it EXCEPT !.entry = None])
     ELSE IF ~Allocated(d, it.next)
     THEN [d |-> [d EXCEPT !.fault = TRUE], it |-> it, done |-> TRUE]
     ELSE At(d, it, it.next)
DictReleaseIterator(d, it) ==
  IF it.safe /\ ~(it.index = 0 /\ it.table = 1) THEN [d EXCEPT !.iters = @ - 1] ELSE d

(******************************* what it must be *****************************)
Chained(d) == UNION {UNION {Range(d.ht[t][b]) : b \in DOMAIN d.ht[t]} : t \in {1, 2}}
(* Every key is once in the chain it hashes to, in the first table or, while   *)
(* keys move, in the second; the chains that have moved are empty; the counts  *)
(* are right.                                                                  *)
DictSound(d, keys) ==
  /\ ~d.fault
  /\ Chained(d) = keys
  /\ d.used[1] + d.used[2] = Cardinality(keys)
  /\ \A t \in {1, 2} :
       /\ d.used[t] = Cardinality(UNION {Range(d.ht[t][b]) : b \in DOMAIN d.ht[t]})
       /\ \A b \in DOMAIN d.ht[t] : /\ \A i \in DOMAIN d.ht[t][b] : Bucket(d.ht[t], d.ht[t][b][i]) = b
                                    /\ IsInjective(d.ht[t][b])
  /\ IF IsRehashing(d) THEN d.ht[2] # <<>> /\ \A b \in 1 .. d.idx : d.ht[1][b] = <<>>
     ELSE d.ht[2] = <<>>
=============================================================================
