------------------------------ MODULE SkipList ------------------------------
(* The skip list behind a large sorted set (t_zset.c). An element is a number  *)
(* in the order of its string; the header is Header. A list is a record        *)
(*   level, len, tail   as in zskiplist                                        *)
(*   score              of each element that is in                             *)
(*   fwd, span          per element and the header, one entry per level        *)
(*   back               of each element                                        *)
EXTENDS Integers, Sequences, FiniteSets, SequencesExt
CONSTANT MaxLevel

Header == 0
Null == -1
ZslCreate == [level |-> 1, len |-> 0, tail |-> Null, score |-> <<>>, back |-> <<>>,
              fwd |-> Header :> [i \in 1 .. MaxLevel |-> Null],
              span |-> Header :> [i \in 1 .. MaxLevel |-> 0]]

(* How far a search goes on: q.kind says which comparison its loop makes with  *)
(* the next node n, after r elements, over a link of span d.                   *)
Further(z, n, r, d, q) ==
  CASE q.kind = "before" -> z.score[n] < q.score \/ (z.score[n] = q.score /\ n < q.obj)
    [] q.kind = "upto" -> z.score[n] < q.score \/ (z.score[n] = q.score /\ n <= q.obj)
    [] q.kind = "below" -> IF q.minex THEN z.score[n] <= q.min ELSE z.score[n] < q.min
    [] q.kind = "inside" -> IF q.maxex THEN z.score[n] < q.max ELSE z.score[n] <= q.max
    [] q.kind = "rank" -> r + d < q.rank
    [] q.kind = "uptorank" -> r + d <= q.rank
(* From node x at level i, with r elements crossed: the node where each level  *)
(* is left (update[]) and the elements crossed by then (rank[]).               *)
RECURSIVE Descend(_, _, _, _, _)
Descend(z, x, i, r, q) ==
  IF i = 0 THEN [upd |-> <<>>, rank |-> <<>>]
  ELSE LET n == z.fwd[x][i]
           rest == Descend(z, x, i - 1, r, q)
       IN IF n # Null /\ Further(z, n, r, z.span[x][i], q)
          THEN Descend(z, n, i, r + z.span[x][i], q)
          ELSE [upd |-> Append(rest.upd, x), rank |-> Append(rest.rank, r)]
Search(z, q) == Descend(z, Header, z.level, 0, q)

(* The levels above the old ones start at the header, whose span there is the  *)
(* whole list.                                                                 *)
ZslInsert(z, e, score, level) ==
  LET f == Search(z, [kind |-> "before", score |-> score, obj |-> e])
      upd == [i \in 1 .. MaxLevel |-> IF i <= z.level THEN f.upd[i] ELSE Header]
      rank == [i \in 1 .. MaxLevel |-> IF i <= z.level THEN f.rank[i] ELSE 0]
      old == [i \in 1 .. MaxLevel |-> IF i <= z.level THEN z.span[upd[i]][i] ELSE z.len]
      top == IF level > z.level THEN level ELSE z.level
      here == rank[1]
      fwd == [x \in DOMAIN z.fwd |->
                [i \in DOMAIN z.fwd[x] |-> IF i <= level /\ upd[i] = x THEN e ELSE z.fwd[x][i]]]
      span == [x \in DOMAIN z.span |->
                 [i \in DOMAIN z.span[x] |->
                    IF upd[i] # x \/ i > top THEN z.span[x][i]
                    ELSE IF i <= level THEN here - rank[i] + 1 ELSE z.span[x][i] + 1]]
      next == z.fwd[upd[1]][1]
      back == (e :> IF upd[1] = Header THEN Null ELSE upd[1]) @@ z.back
  IN [level |-> top, len |-> z.len + 1, score |-> (e :> score) @@ z.score,
      fwd |-> (e :> [i \in 1 .. level |-> z.fwd[upd[i]][i]]) @@ fwd,
      span |-> (e :> [i \in 1 .. level |-> old[i] - (here - rank[i])]) @@ span,
      back |-> IF next = Null THEN back ELSE (next :> e) @@ back,
      tail |-> IF next = Null THEN e ELSE z.tail]

Less(f, x) == [y \in DOMAIN f \ {x} |-> f[y]]
(* zslDeleteNode: upd[i] is the last node of level i before x.                 *)
ZslDeleteNode(z, x, upd) ==
  LET cut(y, i) == i <= z.level /\ upd[i] = y
      fwd == [y \in DOMAIN z.fwd |->
                [i \in DOMAIN z.fwd[y] |->
                   IF cut(y, i) /\ z.fwd[y][i] = x THEN z.fwd[x][i] ELSE z.fwd[y][i]]]
      span == [y \in DOMAIN z.span |->
                 [i \in DOMAIN z.span[y] |->
                    IF ~cut(y, i) THEN z.span[y][i]
                    ELSE IF z.fwd[y][i] = x THEN z.span[y][i] + z.span[x][i] - 1
                    ELSE z.span[y][i] - 1]]
      next == z.fwd[x][1]
      used == {i \in 1 .. z.level : fwd[Header][i] # Null} \cup {1}
  IN [level |-> CHOOSE i \in used : \A j \in used : j <= i,
      len |-> z.len - 1, score |-> Less(z.score, x),
      fwd |-> Less(fwd, x), span |-> Less(span, x),
      back |-> IF next = Null THEN Less(z.back, x)
               ELSE (next :> z.back[x]) @@ Less(z.back, x),
      tail |-> IF next = Null THEN z.back[x] ELSE z.tail]

ZslDelete(z, e, score) ==
  LET f == Search(z, [kind |-> "before", score |-> score, obj |-> e])
      x == z.fwd[f.upd[1]][1]
  IN IF x = e /\ z.score[x] = score THEN ZslDeleteNode(z, x, f.upd) ELSE z

(* The nodes behind upd[1] go one after the other, with the same upd.          *)
RECURSIVE DeleteWhile(_, _, _, _)
DeleteWhile(z, upd, r, q) ==
  LET x == z.fwd[upd[1]][1]
  IN IF x # Null /\ Further(z, x, r, 1, q)
     THEN DeleteWhile(ZslDeleteNode(z, x, upd), upd, r + 1, q) ELSE z
ZslDeleteRangeByScore(z, range) ==
  DeleteWhile(z, Search(z, [range EXCEPT !.kind = "below"]).upd, 0,
              [range EXCEPT !.kind = "inside"])
ZslDeleteRangeByRank(z, start, end) ==
  LET f == Search(z, [kind |-> "rank", rank |-> start])
  IN DeleteWhile(z, f.upd, f.rank[1], [kind |-> "uptorank", rank |-> end])

(* A level where the search stands on what it looks for ends it.               *)
Highest(levels) == CHOOSE i \in levels : \A j \in levels : j <= i
ZslGetRank(z, score, e) ==
  LET f == Search(z, [kind |-> "upto", score |-> score, obj |-> e])
      hit == {i \in DOMAIN f.upd : f.upd[i] = e}
  IN IF hit = {} THEN 0 ELSE f.rank[Highest(hit)]
ZslGetElementByRank(z, rank) ==
  LET f == Search(z, [kind |-> "uptorank", rank |-> rank])
      hit == {i \in DOMAIN f.upd : f.rank[i] = rank}
  IN IF hit = {} THEN Null ELSE f.upd[Highest(hit)]

GteMin(x, r) == IF r.minex THEN x > r.min ELSE x >= r.min
LteMax(x, r) == IF r.maxex THEN x < r.max ELSE x <= r.max
ZslIsInRange(z, r) ==
  /\ ~(r.min > r.max \/ (r.min = r.max /\ (r.minex \/ r.maxex)))
  /\ z.tail # Null /\ GteMin(z.score[z.tail], r)
  /\ z.fwd[Header][1] # Null /\ LteMax(z.score[z.fwd[Header][1]], r)
ZslFirstInRange(z, r) ==
  LET x == z.fwd[Search(z, [r EXCEPT !.kind = "below"]).upd[1]][1]
  IN IF ~ZslIsInRange(z, r) THEN Null ELSE IF LteMax(z.score[x], r) THEN x ELSE Null
LastInRangeUnchecked(z, r) ==
  IF ZslIsInRange(z, r) THEN Search(z, [r EXCEPT !.kind = "inside"]).upd[1] ELSE Null
ZslLastInRange(z, r) ==
  LET x == Search(z, [r EXCEPT !.kind = "inside"]).upd[1]
  IN IF ~ZslIsInRange(z, r) THEN Null ELSE IF GteMin(z.score[x], r) THEN x ELSE Null

(******************************* what it must be *****************************)
Ranking(z) == SetToSortSeq(DOMAIN z.score,
                LAMBDA a, b : z.score[a] < z.score[b] \/ (z.score[a] = z.score[b] /\ a < b))
Place(l, x) == IF x = Header THEN 0 ELSE IF x = Null THEN Len(l) ELSE CHOOSE i \in DOMAIN l : l[i] = x
(* Every level is the ranking, thinned out; a span counts the elements a link  *)
(* crosses (up to the end for the last one); backward and tail mirror level 1. *)
SkipListSound(z) ==
  LET l == Ranking(z)
      tall(i) == SelectSeq(l, LAMBDA x : i <= Len(z.fwd[x]))
      chain(i) == <<Header>> \o tall(i)
  IN /\ z.len = Len(l)
     /\ \A i \in 1 .. z.level : \A j \in DOMAIN chain(i) :
          LET x == chain(i)[j]
              n == IF j = Len(chain(i)) THEN Null ELSE chain(i)[j + 1]
          IN z.fwd[x][i] = n /\ z.span[x][i] = Place(l, n) - Place(l, x)
     /\ \A i \in z.level + 1 .. MaxLevel : tall(i) = <<>>
     /\ z.tail = IF l = <<>> THEN Null ELSE l[Len(l)]
     /\ \A j \in DOMAIN l : z.back[l[j]] = IF j = 1 THEN Null ELSE l[j - 1]
SkipListAnswers(z, ranges) ==
  LET l == Ranking(z)
      hits(r) == SelectSeq(l, LAMBDA x : GteMin(z.score[x], r) /\ LteMax(z.score[x], r))
  IN /\ \A i \in DOMAIN l : ZslGetRank(z, z.score[l[i]], l[i]) = i /\ ZslGetElementByRank(z, i) = l[i]
     /\ \A r \in ranges :
          /\ ZslFirstInRange(z, r) = IF hits(r) = <<>> THEN Null ELSE Head(hits(r))
          /\ ZslLastInRange(z, r) = IF hits(r) = <<>> THEN Null ELSE hits(r)[Len(hits(r))]
=============================================================================
