------------------------------- MODULE Codecs -------------------------------
(* How numbers and short texts become bytes and come back: lengths and numbers *)
(* of an RDB file (rdb.c), entries of a ziplist (ziplist.c), decimal texts     *)
(* (util.c), columns and keys of SQL rows (stream.c), six-bit texts (sixbit.c) *)
(* and the compression of long texts (lzf_c.c, lzf_d.c). Where 64 bits are     *)
(* beyond the model checker's integers, a width is a constant: ULMax the       *)
(* largest unsigned long long, IntBits[i] the bits of the storage class i of   *)
(* stream.c, UIntMax that of an INT column.                                    *)
EXTENDS Integers, Sequences, FiniteSets, SequencesExt, Bitwise
CONSTANTS ULMax, IntBits, UIntMax

Byte(n, i) == (n \div 256 ^ i) % 256
SignedByte(b) == IF b < 128 THEN b ELSE b - 256

(******************************** RDB lengths ********************************)
RdbSaveLen(n) ==
  IF n < 2 ^ 6 THEN <<n>>
  ELSE IF n < 2 ^ 14 THEN <<Byte(n, 1) + 64, Byte(n, 0)>>
  ELSE <<128, Byte(n, 3), Byte(n, 2), Byte(n, 1), Byte(n, 0)>>
RdbLoadLen(b) ==
  LET type == b[1] \div 64
  IN CASE type = 0 -> [enc |-> FALSE, val |-> b[1] % 64, used |-> 1]
       [] type = 3 -> [enc |-> TRUE, val |-> b[1] % 64, used |-> 1]
       [] type = 1 -> [enc |-> FALSE, val |-> (b[1] % 64) * 256 + b[2], used |-> 2]
       [] OTHER    -> [enc |-> FALSE, val |-> ((b[2] * 256 + b[3]) * 256 + b[4]) * 256 + b[5], used |-> 5]
(* rdbEncodeInteger, behind the marker of an encoded string.                   *)
EncodeIntegerByte(v) ==
  IF -(2 ^ 7) <= v /\ v <= 2 ^ 7 THEN <<192, Byte(v, 0)>>
  ELSE <<194, Byte(v, 0), Byte(v, 1), Byte(v, 2), Byte(v, 3)>>
RdbEncodeInteger(v) ==
  IF -(2 ^ 7) <= v /\ v < 2 ^ 7 THEN <<192, Byte(v, 0)>>
  ELSE IF -(2 ^ 15) <= v /\ v < 2 ^ 15 THEN <<193, Byte(v, 0), Byte(v, 1)>>
  ELSE <<194, Byte(v, 0), Byte(v, 1), Byte(v, 2), Byte(v, 3)>>
RdbLoadIntegerObject(b, type) ==
  CASE type = 0 -> SignedByte(b[1])
    [] type = 1 -> SignedByte(b[2]) * 256 + b[1]
    [] type = 2 -> SignedByte(b[4]) * 2 ^ 24 + b[3] * 2 ^ 16 + b[2] * 256 + b[1]

(****************************** ziplist entries ******************************)
ZipEncodeLength(n) ==
  IF n <= 63 THEN <<n>>
  ELSE IF n <= 16383 THEN <<64 + ((n \div 256) % 64), n % 256>>
  ELSE <<128, Byte(n, 3), Byte(n, 2), Byte(n, 1), Byte(n, 0)>>
ZipDecodeLength(b) ==
  CASE b[1] < 64 -> [len |-> b[1], size |-> 1]
    [] b[1] \in 64 .. 127 -> [len |-> (b[1] % 64) * 256 + b[2], size |-> 2]
    [] b[1] \in 128 .. 191 -> [len |-> ((b[2] * 256 + b[3]) * 256 + b[4]) * 256 + b[5], size |-> 5]
    [] b[1] \div 16 = 12 -> [len |-> 2, size |-> 1]
    [] b[1] \div 16 = 13 -> [len |-> 4, size |-> 1]
    [] OTHER -> [len |-> 8, size |-> 1]
ZipPrevEncodeLength(n) ==
  IF n < 254 THEN <<n>> ELSE <<254, Byte(n, 0), Byte(n, 1), Byte(n, 2), Byte(n, 3)>>
ZipPrevDecodeLength(b) ==
  IF b[1] < 254 THEN [len |-> b[1], size |-> 1]
  ELSE [len |-> ((b[5] * 256 + b[4]) * 256 + b[3]) * 256 + b[2], size |-> 5]

(******************************* decimal texts *******************************)
(* ll2string and string2ll; a digit stands for itself, Minus for the sign.     *)
Minus == -1
RECURSIVE Digits(_)
Digits(v) == IF v < 10 THEN <<v>> ELSE Digits(v \div 10) \o <<v % 10>>
Ll2String(v) == IF v < 0 THEN <<Minus>> \o Digits(-v) ELSE Digits(v)
RECURSIVE Accumulate(_, _)
Accumulate(v, t) ==
  IF t = <<>> THEN <<v>>
  ELSE IF t[1] = Minus \/ v > ULMax \div 10 \/ v * 10 > ULMax - t[1] THEN <<>>
  ELSE Accumulate(v * 10 + t[1], Tail(t))
LLMax == ULMax \div 2
(* The value of a text in a sequence, or none.                                 *)
String2Ll(t) ==
  LET neg == t # <<>> /\ t[1] = Minus
      body == IF neg THEN Tail(t) ELSE t
      v == Accumulate(body[1], Tail(body))
  IN IF t = <<0>> THEN <<0>>
     ELSE IF body = <<>> THEN <<>>
     ELSE IF body[1] \in {0, Minus} \/ v = <<>> THEN <<>>
     ELSE IF neg THEN IF v[1] > LLMax + 1 THEN <<>> ELSE <<-v[1]>>
     ELSE IF v[1] > LLMax THEN <<>> ELSE v

(******************************* SQL columns *********************************)
(* cIcol: the storage class (0 for the form with a marker) and the number that *)
(* is stored: the lowest bits name the class.                                  *)
Flag(i) == 2 ^ (i - 1)
CIcol(l, isi) ==
  LET fit == {i \in 1 .. (IF isi THEN 3 ELSE 5) : l < 2 ^ (IntBits[i] - i)}
      i == CHOOSE k \in fit : \A n \in fit : k <= n
  IN IF fit = {} THEN [class |-> 0, col |-> l] ELSE [class |-> i, col |-> l * 2 ^ i + Flag(i)]
(* wUCol: the first byte, and the whole number as the bytes written hold it.   *)
FirstByte == 2 ^ IntBits[1]
WUCol(c, isi) ==
  IF c.class = 0 THEN [b1 |-> Flag(6), num |-> c.col % 2 ^ IntBits[IF isi THEN 3 ELSE 5]]
  ELSE [b1 |-> c.col % FirstByte, num |-> c.col % 2 ^ IntBits[c.class]]
SI2I(m, isi) ==
  LET set == {i \in 1 .. (IF isi THEN 3 ELSE 5) : (m.b1 & Flag(i)) # 0}
      i == CHOOSE k \in set : \A n \in set : k <= n
  IN IF set = {} THEN m.num ELSE (m.num - Flag(i)) \div 2 ^ i
(* A key and a value of two INT columns in one number (createBTKey,            *)
(* OBT_createStream, parseStream, convertStream2Key).                          *)
UUPack(key, val) == key * UIntMax + val
UUKey(n) == n \div UIntMax
UUVal(n) == n % UIntMax

(******************************** six-bit texts ******************************)
(* Characters are their numbers 1 .. 63; 0 is no character.                    *)
SixBitPack(dest, c, i) ==
  LET n == Len(dest)
  IN CASE i % 4 = 0 -> [dest EXCEPT ![n] = @ + c * 4]
       [] i % 4 = 1 -> Append([dest EXCEPT ![n] = @ + c \div 16], (c * 16) % 256)
       [] i % 4 = 2 -> Append([dest EXCEPT ![n] = @ + c \div 4], (c * 64) % 256)
       [] i % 4 = 3 -> Append([dest EXCEPT ![n] = @ + c], 0)
RECURSIVE CreateSixBit(_, _, _)
CreateSixBit(src, i, dest) ==
  IF i = Len(src) THEN dest ELSE CreateSixBit(src, i + 1, SixBitPack(dest, src[i + 1], i))
SixBitUnpack(b, i) ==
  LET d == (i \div 4) * 3 + (i % 4)
  IN CASE i % 4 = 0 -> b[d + 1] \div 4
       [] i % 4 = 1 -> ((b[d] * 64) % 256) \div 4 + b[d + 1] \div 16
       [] i % 4 = 2 -> ((b[d] * 16) % 256) \div 4 + b[d + 1] \div 64
       [] i % 4 = 3 -> ((b[d] * 4) % 256) \div 4
UnpackSixBit(b) ==
  SelectSeq([k \in 1 .. (Len(b) * 4) \div 3 |-> SixBitUnpack(b, k - 1)], LAMBDA c : c # 0)

(****************************** compressed texts *****************************)
(* lzf_c.c and lzf_d.c; places in a text are counted from 0 as in the code.    *)
(* HashSize is that of the table of places, old what each slot holds at first: *)
(* 0, or what happens to be there in the build lzf_c.c:89 wants for production *)
(* ("should be commented out"); a place outside of the text never matches.     *)
CONSTANT HashSize

MaxLit == 32
MaxOff == 8192
MaxRef == 264
ByteAt(t, i) == t[i + 1]
HashSlot(t, i) == (ByteAt(t, i) + 3 * ByteAt(t, i + 1) + 5 * ByteAt(t, i + 2)) % HashSize

(* s is [ip, out, lit, tab]: the place in the text, what is written, the run   *)
(* of bytes that is still open, and the places by hash (0: none).              *)
OutAt(s) == Len(s.out) + 1 + Len(s.lit)
CloseRun(s) == IF s.lit = <<>> THEN s
               ELSE [s EXCEPT !.out = @ \o <<Len(s.lit) - 1>> \o s.lit, !.lit = <<>>]
AddLiteral(s, c) ==
  LET u == [s EXCEPT !.lit = Append(@, c), !.ip = @ + 1]
  IN IF Len(u.lit) = MaxLit THEN CloseRun(u) ELSE u
Matching(t, ref, ip) ==
  /\ ref > 0 /\ ref < ip /\ ip - ref - 1 < MaxOff /\ ip + 4 < Len(t)
  /\ \A k \in 0 .. 2 : ByteAt(t, ref + k) = ByteAt(t, ip + k)
(* How far the match goes: the first 16 steps of a long one are taken without  *)
(* a look at the limit.                                                        *)
MatchLen(t, ref, ip) ==
  LET left == Len(t) - ip - 2
      max == IF left > MaxRef THEN MaxRef ELSE left
      limit == IF max \in 17 .. 19 THEN 19 ELSE max
      end == {l \in 3 .. limit : l = limit \/ ByteAt(t, ref + l) # ByteAt(t, ip + l)}
  IN CHOOSE l \in end : \A k \in end : l <= k
BackRef(off, len) ==
  IF len < 7 THEN <<off \div 256 + len * 32, off % 256>>
  ELSE <<off \div 256 + 224, len - 7, off % 256>>
(* A match is written, and the two places before its end enter the table.      *)
AddMatch(t, s, ref) ==
  LET len == MatchLen(t, ref, s.ip)
      u == CloseRun(s)
      ip == s.ip + len
      mark == [i \in {ip - 2, ip - 1} |-> HashSlot(t, i)]
  IN [u EXCEPT !.out = @ \o BackRef(s.ip - ref - 1, len - 2), !.ip = ip,
               !.tab = IF ip >= Len(t) - 2 THEN @
                       ELSE [h \in DOMAIN @ |-> IF h = mark[ip - 1] THEN ip - 1
                                                ELSE IF h = mark[ip - 2] THEN ip - 2 ELSE @[h]]]
(* The text that is left, at most three bytes more than the space is checked.  *)
RECURSIVE CopyRest(_, _)
CopyRest(t, s) == IF s.ip < Len(t) THEN CopyRest(t, AddLiteral(s, ByteAt(t, s.ip))) ELSE CloseRun(s).out
RECURSIVE Compress(_, _, _)
Compress(t, s, outlen) ==
  LET h == HashSlot(t, s.ip)
      ref == s.tab[h]
      u == [s EXCEPT !.tab[h] = s.ip]
  IN IF s.ip >= Len(t) - 2 THEN IF OutAt(s) + 3 > outlen THEN <<>> ELSE CopyRest(t, s)
     ELSE IF Matching(t, ref, s.ip)
     THEN IF OutAt(s) - (IF s.lit = <<>> THEN 1 ELSE 0) + 4 >= outlen THEN <<>>
          ELSE Compress(t, AddMatch(t, u, ref), outlen)
     ELSE IF OutAt(s) >= outlen THEN <<>>
     ELSE Compress(t, AddLiteral(u, ByteAt(t, s.ip)), outlen)
(* Nothing when it does not fit into outlen bytes.                             *)
LzfCompress(t, outlen, old) ==
  IF t = <<>> \/ outlen <= 0 THEN <<>>
  ELSE Compress(t, [ip |-> 0, out |-> <<>>, lit |-> <<>>, tab |-> [h \in 0 .. HashSize - 1 |-> old]], outlen)

(* Byte by byte: what is copied may be what was copied just before.            *)
Copied(out, ref, n) == out \o [i \in 1 .. n |-> ByteAt(out, ref + ((i - 1) % (Len(out) - ref)))]
RECURSIVE Expand(_, _, _)
Expand(b, out, outlen) ==
  LET ctrl == b[1]
      long == ctrl \div 32 = 7
      len == ctrl \div 32 + (IF long THEN b[2] ELSE 0)
      used == IF long THEN 3 ELSE 2
      ref == Len(out) - (ctrl % 32) * 256 - 1 - b[used]
  IN IF b = <<>> THEN out
     ELSE IF ctrl < 32
     THEN IF Len(out) + ctrl + 1 > outlen \/ ctrl + 2 > Len(b) THEN <<>>
          ELSE Expand(SubSeq(b, ctrl + 3, Len(b)), out \o SubSeq(b, 2, ctrl + 2), outlen)
     ELSE IF Len(b) < 2 \/ Len(b) < used THEN <<>>
     ELSE IF Len(out) + len + 2 > outlen \/ ref < 0 THEN <<>>
     ELSE Expand(SubSeq(b, used + 1, Len(b)), Copied(out, ref, len + 2), outlen)
LzfDecompress(b, outlen) == Expand(b, <<>>, outlen)

(***************************** what they must do *****************************)
RdbRoundTrip(n) == LET b == RdbSaveLen(n) IN RdbLoadLen(b) = [enc |-> FALSE, val |-> n, used |-> Len(b)]
RdbIntRoundTrip(v) ==
  LET b == RdbEncodeInteger(v)
      h == RdbLoadLen(b)
  IN h.enc /\ RdbLoadIntegerObject(Tail(b), h.val) = v
ZipRoundTrip(n) ==
  /\ LET b == ZipEncodeLength(n) IN ZipDecodeLength(b) = [len |-> n, size |-> Len(b)]
  /\ LET b == ZipPrevEncodeLength(n) IN ZipPrevDecodeLength(b) = [len |-> n, size |-> Len(b)]
(* string2ll accepts the texts ll2string writes and no other.                  *)
TextRoundTrip(t) ==
  /\ String2Ll(t) # <<>> => Ll2String(String2Ll(t)[1]) = t
  /\ \A v \in -LLMax - 1 .. LLMax : Ll2String(v) = t => String2Ll(t) = <<v>>
ColRoundTrip(l, isi) == SI2I(WUCol(CIcol(l, isi), isi), isi) = l
UURoundTrip(k, v) == UUKey(UUPack(k, v)) = k /\ UUVal(UUPack(k, v)) = v
SixBitRoundTrip(t) == UnpackSixBit(CreateSixBit(t, 0, <<0>>)) = t
(* What is compressed comes back, and takes less room, whatever the table had. *)
LzfRoundTrip(t, old) ==
  LET c == LzfCompress(t, Len(t) - 4, old)
  IN c # <<>> => Len(c) <= Len(t) - 4 /\ LzfDecompress(c, Len(t)) = t
=============================================================================
