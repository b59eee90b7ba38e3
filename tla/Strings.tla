-------------------------------- MODULE Strings --------------------------------
(* Dynamic strings, and the sort behind SORT ... LIMIT.                        *)
EXTENDS Integers, Sequences, FiniteSets, SequencesExt

-----------------------------------------------------------------------------
(* Dynamic strings (sds.c) and the pure functions on strings the commands use  *)
(* (sds.c, util.c, pqsort.c). Strings are sequences of characters; a stored    *)
(* string s is [buf, free, alloc], what it holds, the room it believes to have *)
(* behind it and the room that was allocated.                                  *)

SdsNew(t) == [buf |-> t, free |-> 0, alloc |-> Len(t)]
SdsMakeRoomFor(s, n) ==
  IF s.free >= n THEN s
  ELSE LET size == 2 * (Len(s.buf) + n) IN [s EXCEPT !.alloc = size, !.free = size - Len(s.buf)]
SdsGrowZero(s, len, zero) ==
  LET u == SdsMakeRoomFor(s, len - Len(s.buf))
  IN IF len <= Len(s.buf) THEN s
     ELSE [u EXCEPT !.buf = @ \o [i \in 1 .. len - Len(s.buf) |-> zero],
                    !.free = Len(s.buf) + u.free - len]
SdsCatLen(s, t) ==
  LET u == SdsMakeRoomFor(s, Len(t)) IN [u EXCEPT !.buf = @ \o t, !.free = @ - Len(t)]
SdsCpyLen(s, t) ==
  LET u == IF s.free + Len(s.buf) < Len(t) THEN SdsMakeRoomFor(s, Len(t) - Len(s.buf)) ELSE s
  IN [u EXCEPT !.buf = t, !.free = u.free + Len(u.buf) - Len(t)]
Shortened(s, t) == [s EXCEPT !.buf = t, !.free = @ + Len(s.buf) - Len(t)]
SdsTrim(s, cset) ==
  LET keep == {i \in DOMAIN s.buf : s.buf[i] \notin cset}
      sp == IF keep = {} THEN Len(s.buf) + 1 ELSE CHOOSE i \in keep : \A j \in keep : i <= j
      ep == IF keep = {} THEN IF s.buf = <<>> THEN 0 ELSE 1
            ELSE CHOOSE i \in keep : \A j \in keep : j <= i
  IN Shortened(s, IF sp > ep THEN <<>> ELSE SubSeq(s.buf, sp, ep))
(* sdsrange: positions from 0, negative ones from the end.                     *)
SdsRange(s, from, to) ==
  LET len == Len(s.buf)
      Pos(i) == IF i >= 0 THEN i ELSE IF len + i < 0 THEN 0 ELSE len + i
      start == Pos(from)
      end == IF Pos(to) >= len THEN len - 1 ELSE Pos(to)
  IN IF len = 0 THEN s
     ELSE Shortened(s, IF start > Pos(to) \/ start >= len THEN <<>>
                       ELSE SubSeq(s.buf, start + 1, end + 1))
(* The room a string believes to have is the room there is.                    *)
SdsSound(s, t) == s.buf = t /\ s.free >= 0 /\ s.free + Len(s.buf) = s.alloc
(* What SUBSTR, LRANGE and the like mean by a range.                           *)
Slice(t, from, to) ==
  LET At(i) == IF i < 0 THEN Len(t) + i ELSE i
      in == {i \in 0 .. Len(t) - 1 : At(from) <= i /\ (i <= At(to) \/ (At(to) < 0 /\ i = 0))}
  IN [k \in 1 .. Cardinality(in) |-> t[(CHOOSE i \in in : Cardinality({j \in in : j < i}) = k - 1) + 1]]

(********************************** splitting ********************************)
(* sdssplitlen with a separator of any length: scanned at j, token from start. *)
RECURSIVE SplitFrom(_, _, _, _)
SplitFrom(t, sep, j, start) ==
  IF j > Len(t) - Len(sep) + 1 THEN <<SubSeq(t, start, Len(t))>>
  ELSE IF SubSeq(t, j, j + Len(sep) - 1) = sep
  THEN <<SubSeq(t, start, j - 1)>> \o SplitFrom(t, sep, j + Len(sep), j + Len(sep))
  ELSE SplitFrom(t, sep, j + 1, start)
SdsSplitLen(t, sep) == IF t = <<>> THEN <<>> ELSE SplitFrom(t, sep, 1, 1)
RECURSIVE Joined(_, _)
Joined(ts, sep) == IF ts = <<>> THEN <<>>
                   ELSE IF Len(ts) = 1 THEN ts[1] ELSE ts[1] \o sep \o Joined(Tail(ts), sep)

(* sdscatrepr and sdssplitargs. The characters are bs and qt for the backslash *)
(* and the double quote, nl for a newline, sp for a space, n for the letter,   *)
(* x for a byte that does not print, hx for the three characters x00 that      *)
(* stand for it in an escape, and any other. sdscatrepr appends one character  *)
(* of the two of the escape for a newline.                                     *)
Escaped(c) == CASE c \in {"bs", "qt"} -> <<"bs", c>>
                [] c = "nl"           -> <<"bs">>
                [] c = "x"            -> <<"bs", "hx">>
                [] OTHER              -> <<c>>
SdsCatRepr(t) == <<"qt">> \o FlattenSeq([i \in DOMAIN t |-> Escaped(t[i])]) \o <<"qt">>
RECURSIVE Token(_, _, _)
Token(t, inq, cur) ==
  LET c == IF t = <<>> THEN "end" ELSE t[1]
      d == IF Len(t) < 2 THEN "end" ELSE t[2]
      Put(n, x) == Token(SubSeq(t, n + 1, Len(t)), inq, Append(cur, x))
  IN IF inq THEN CASE c = "bs" /\ d = "hx" -> Put(2, "x")
                   [] c = "bs" /\ d \notin {"hx", "end"} -> Put(2, IF d = "n" THEN "nl" ELSE d)
                   [] c = "qt" -> IF d \in {"end", "sp", "nl"} THEN [ok |-> TRUE, arg |-> cur, rest |-> Tail(t)]
                                  ELSE [ok |-> FALSE, arg |-> cur, rest |-> t]
                   [] c = "end" -> [ok |-> FALSE, arg |-> cur, rest |-> t]
                   [] OTHER -> Put(1, c)
     ELSE IF c \in {"sp", "nl", "end"} THEN [ok |-> TRUE, arg |-> cur, rest |-> t]
     ELSE IF c = "qt" THEN Token(Tail(t), TRUE, cur)
     ELSE Put(1, c)
RECURSIVE SplitArgs(_, _)
SplitArgs(t, argv) ==
  IF t = <<>> THEN [ok |-> TRUE, argv |-> argv]
  ELSE IF t[1] \in {"sp", "nl"} THEN SplitArgs(Tail(t), argv)
  ELSE LET k == Token(t, FALSE, <<>>)
       IN IF k.ok THEN SplitArgs(k.rest, Append(argv, k.arg)) ELSE [ok |-> FALSE, argv |-> <<>>]
SdsSplitArgs(t) == SplitArgs(t, <<>>)

(*********************************** matching ********************************)
(* stringmatchlen for a pattern of elements [kind, not, set]: "star", "any" or  *)
(* "one", a class of characters or (with one in it) a character.               *)
OneOf(p, c) == p.kind = "any" \/ IF p.not THEN c \notin p.set ELSE c \in p.set
RECURSIVE StringMatch(_, _)
StringMatch(p, t) ==
  IF p = <<>> THEN t = <<>>
  ELSE IF p[1].kind = "star"
  THEN LET q == SelectInSeq(p, LAMBDA x : x.kind # "star")
       IN q = 0 \/ \E i \in 1 .. Len(t) : StringMatch(SubSeq(p, q, Len(p)), SubSeq(t, i, Len(t)))
  ELSE /\ t # <<>>
       /\ OneOf(p[1], t[1])
       /\ IF Len(t) = 1 THEN \A i \in 2 .. Len(p) : p[i].kind = "star"
          ELSE StringMatch(Tail(p), Tail(t))
(* The meaning of a pattern: the string can be cut into one part per element.  *)
Matches(p, t) ==
  \E cut \in [1 .. Len(p) + 1 -> 1 .. Len(t) + 1] :
    /\ cut[1] = 1 /\ cut[Len(p) + 1] = Len(t) + 1
    /\ \A i \in DOMAIN p : /\ cut[i] <= cut[i + 1]
                           /\ p[i].kind # "star" => /\ cut[i + 1] = cut[i] + 1
                                                     /\ OneOf(p[i], t[cut[i]])

-----------------------------------------------------------------------------
(* The sort behind SORT ... LIMIT (pqsort.c): a quicksort with three-way       *)
(* partition that leaves out the parts outside the range that is asked for.    *)
(* Small is the length below which it inserts; the pivot of a longer array is  *)
(* the median of three.                                                        *)
CONSTANT Small

Exchange(a, i, j) == [a EXCEPT ![i] = a[j], ![j] = a[i]]
VecSwap(a, i, j, n) ==
  [k \in DOMAIN a |-> IF k \in i .. i + n - 1 THEN a[k - i + j]
                      ELSE IF k \in j .. j + n - 1 THEN a[k - j + i] ELSE a[k]]
RECURSIVE SinkDown(_, _, _)
SinkDown(a, lo, i) == IF i > lo /\ a[i - 1] > a[i] THEN SinkDown(Exchange(a, i, i - 1), lo, i - 1) ELSE a
InsertionSort(a, lo, hi) == FoldLeft(LAMBDA b, i : SinkDown(b, lo, i), a, [k \in 1 .. hi - lo |-> lo + k])
Med3(a, i, j, k) ==
  IF a[i] < a[j] THEN IF a[j] < a[k] THEN j ELSE IF a[i] < a[k] THEN k ELSE i
  ELSE IF a[j] > a[k] THEN j ELSE IF a[i] < a[k] THEN i ELSE k

(* The partition around a[lo]: what equals it gathers at both ends.            *)
RECURSIVE FromLeft(_, _)
FromLeft(s, lo) ==
  IF s.pb > s.pc \/ s.a[s.pb] > s.a[lo] THEN s
  ELSE FromLeft(IF s.a[s.pb] = s.a[lo]
                THEN [s EXCEPT !.a = Exchange(@, s.pa, s.pb), !.pa = @ + 1, !.pb = @ + 1, !.cnt = 1]
                ELSE [s EXCEPT !.pb = @ + 1], lo)
RECURSIVE FromRight(_, _)
FromRight(s, lo) ==
  IF s.pb > s.pc \/ s.a[s.pc] < s.a[lo] THEN s
  ELSE FromRight(IF s.a[s.pc] = s.a[lo]
                 THEN [s EXCEPT !.a = Exchange(@, s.pc, s.pd), !.pd = @ - 1, !.pc = @ - 1, !.cnt = 1]
                 ELSE [s EXCEPT !.pc = @ - 1], lo)
RECURSIVE Partition(_, _)
Partition(s, lo) ==
  LET u == FromRight(FromLeft(s, lo), lo)
  IN IF u.pb > u.pc THEN u
     ELSE Partition([u EXCEPT !.a = Exchange(@, u.pb, u.pc), !.pb = @ + 1, !.pc = @ - 1, !.cnt = 1], lo)

Lesser(m, n) == IF m < n THEN m ELSE n
Outside(l, r, lrange, rrange) == (lrange < l /\ rrange < l) \/ (lrange > r /\ rrange > r)
RECURSIVE PqsortFrom(_, _, _, _, _)
PqsortFrom(a, lo, hi, lrange, rrange) ==
  LET n == hi - lo + 1
      mid == lo + (n \div 2)
      b == Exchange(a, lo, IF n > Small THEN Med3(a, lo, mid, hi) ELSE mid)
      s == Partition([a |-> b, pa |-> lo + 1, pb |-> lo + 1, pc |-> hi, pd |-> hi, cnt |-> 0], lo)
      r1 == Lesser(s.pa - lo, s.pb - s.pa)
      r2 == Lesser(s.pd - s.pc, hi - s.pd)
      c == VecSwap(VecSwap(s.a, lo, s.pb - r1, r1), s.pb, hi + 1 - r2, r2)
      left == s.pb - s.pa
      right == s.pd - s.pc
      d == IF left > 1 /\ ~Outside(lo, lo + left - 1, lrange, rrange)
           THEN PqsortFrom(c, lo, lo + left - 1, lrange, rrange) ELSE c
  IN IF n < Small THEN InsertionSort(a, lo, hi)
     ELSE IF s.cnt = 0 THEN InsertionSort(s.a, lo, hi)
     ELSE IF right > 1 /\ ~Outside(hi - right + 1, hi, lrange, rrange)
     THEN PqsortFrom(d, hi - right + 1, hi, lrange, rrange)
     ELSE d
Pqsort(a, lrange, rrange) == PqsortFrom(a, 1, Len(a), lrange, rrange)

(* The places asked for hold what a full sort puts there; nothing is lost.     *)
PartlySorted(a, b, lrange, rrange) ==
  LET full == SortSeq(a, <)
  IN /\ \A i \in lrange .. rrange : b[i] = full[i]
     /\ SortSeq(b, <) = full
=============================================================================
