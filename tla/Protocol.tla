------------------------------ MODULE Protocol ------------------------------
(* One connection (networking.c, webserver.c): the bytes of requests arrive in *)
(* pieces of any size and are parsed as multi bulk requests, inline requests   *)
(* or HTTP; replies are put together in c->buf and the list c->reply and       *)
(* leave as the socket takes them. A byte is a one-letter string.              *)
(*   feed, q     what the peer has still to send; querybuf                     *)
(*   type, mbl, bulk, argv   reqtype, multibulklen, bulklen and the arguments  *)
(*   http        mode, method, keep-alive and Content-Length of the request    *)
(*   ran         the commands and HTTP requests that were carried out          *)
(*   buf, list, sent, h      c->buf, c->reply, c->sentlen, the write handler   *)
(*   close       REDIS_CLOSE_AFTER_REPLY                                       *)
(*   want, got   what was to be replied, and what the socket took              *)
(* Ghosts: split (the body of a POST came in more than one piece), stuck (part *)
(* of c->buf is sent, and the handler is gone).                                *)
EXTENDS Integers, Sequences, FiniteSets, SequencesExt, TLC
CONSTANTS Streams,   \* the requests tried: what is meant, with the bytes for it
          Scripts,   \* the replies tried: sequences of reply operations
          BufBytes,  \* sizeof(c->buf)
          ChunkBytes \* REDIS_REPLY_CHUNK_BYTES
VARIABLE cx

Digit    == [x \in {"0", "1", "2", "3"} |-> CASE x = "0" -> 0 [] x = "1" -> 1 [] x = "2" -> 2 [] x = "3" -> 3]
Number(s) == FoldLeft(LAMBDA n, x : n * 10 + Digit[x], 0, s)
IsNumber(s) == s # <<>> /\ \A i \in 1 .. Len(s) : s[i] \in DOMAIN Digit
IndexIn(s, x, from) == LET at == {i \in from .. Len(s) : s[i] = x}
                       IN  IF at = {} THEN 0 ELSE CHOOSE i \in at : \A j \in at : i <= j
From(s, n) == SubSeq(s, n, Len(s))

-----------------------------------------------------------------------------
(* processMultibulkBuffer. An error trims the buffer and marks the client.   *)

ProtocolError(c) == [c EXCEPT !.close = TRUE, !.more = FALSE]
(* The line that starts at pos, if all of it is there.                       *)
LineEnd(c, pos) == LET nl == IndexIn(c.q, "\r", pos) IN IF nl = 0 \/ nl > Len(c.q) - 1 THEN 0 ELSE nl
ReadBulkLen(c) ==
    LET nl == LineEnd(c, 1)
        s  == SubSeq(c.q, 2, nl - 1)
    IN  IF nl = 0 THEN [c EXCEPT !.more = FALSE]
        ELSE IF c.q[1] # "$" \/ ~IsNumber(s) THEN ProtocolError(c)
        ELSE [c EXCEPT !.bulk = Number(s), !.q = From(@, nl + 2)]
(* Mutant of ReadBulk: the line end behind the argument need not be there. *)
ReadBulkShort(c) ==
    IF Len(c.q) < c.bulk THEN [c EXCEPT !.more = FALSE]
    ELSE [c EXCEPT !.argv = Append(@, SubSeq(c.q, 1, c.bulk)), !.q = From(@, c.bulk + 3),
                   !.bulk = -1, !.mbl = @ - 1]

ReadBulk(c) ==
    IF Len(c.q) < c.bulk + 2 THEN [c EXCEPT !.more = FALSE]
    ELSE [c EXCEPT !.argv = Append(@, SubSeq(c.q, 1, c.bulk)), !.q = From(@, c.bulk + 3),
                   !.bulk = -1, !.mbl = @ - 1]
ReadMultibulkLen(c) ==
    LET nl == LineEnd(c, 1)
        s  == SubSeq(c.q, 2, nl - 1)
    IN  IF nl = 0 THEN [c EXCEPT !.more = FALSE]
        ELSE IF ~IsNumber(s) THEN ProtocolError(c)
        ELSE [c EXCEPT !.mbl = Number(s), !.q = From(@, nl + 2), !.done = Number(s) = 0]
MultibulkStep(c) ==
    IF c.mbl = 0 THEN ReadMultibulkLen(c)
    ELSE LET b == IF c.bulk = -1 THEN ReadBulkLen(c) ELSE c
             a == IF b.bulk = -1 \/ ~b.more THEN b ELSE ReadBulk(b)
         IN  [a EXCEPT !.done = a.mbl = 0]

(* processInlineBuffer: one line, cut at the blanks, empty words left out.   *)
Words(s) ==
    LET cut == FoldLeft(LAMBDA w, x : IF x = " " THEN Append(w, <<>>) ELSE [w EXCEPT ![Len(w)] = Append(@, x)], << <<>> >>, s)
    IN  SelectSeq(cut, LAMBDA w : w # <<>>)
InlineStep(c) ==
    LET at == {i \in 1 .. Len(c.q) - 1 : c.q[i] = "\r" /\ c.q[i + 1] = "\n"}
        nl == CHOOSE i \in at : \A j \in at : i <= j
    IN  IF at = {} THEN [c EXCEPT !.more = FALSE]
        ELSE [c EXCEPT !.argv = Words(SubSeq(c.q, 1, nl - 1)), !.q = From(@, nl + 2), !.done = TRUE]

-----------------------------------------------------------------------------
(* HTTP: a first line, header lines, an empty line and, for POST, a body.    *)

NoHttp == [mode |-> "off", method |-> "", clen |-> 0, ka |-> FALSE, file |-> <<>>]
Methods == {<<"G">>, <<"P">>, <<"H">>}         \* GET, POST, HEAD
Protos  == {<<"h", "0">>, <<"h", "1">>}        \* HTTP/1.0, HTTP/1.1
StartHttp(c) ==
    [c EXCEPT !.http = [mode |-> "on", method |-> c.argv[1][1], clen |-> 0, ka |-> c.argv[3] = <<"h", "1">>,
                        file |-> c.argv[2]]]
ContinueHttp(c) ==
    IF Len(c.argv) < 2 THEN c
    ELSE IF c.argv[1] = <<"C">> THEN [c EXCEPT !.http.ka = c.argv[2] = <<"k">>]       \* Connection:
    ELSE IF c.argv[1] = <<"L">> THEN [c EXCEPT !.http.clen = Number(c.argv[2])]       \* Content-Length:
    ELSE c
(* end_http_session: the request is answered, and the connection ends after  *)
(* it unless it is kept alive or more has come already.                      *)
EndHttp(c, body) ==
    [c EXCEPT !.ran = Append(@, <<"http", c.http.method, c.http.file, body>>),
              !.close = ~c.http.ka /\ c.q = <<>>, !.http.mode = "off"]
ZeroArgs(c) ==
    IF c.http.mode # "on" THEN [c EXCEPT !.http.mode = "off"]
    ELSE IF c.http.method = "P" /\ c.http.clen > 0 THEN [c EXCEPT !.http.mode = "body"]
    ELSE EndHttp(c, <<>>)
(* The whole of querybuf is the body, however long it is.                    *)
PostBody(c) ==
    EndHttp([c EXCEPT !.q = <<>>, !.more = FALSE, !.split = @ \/ Len(c.q) # c.http.clen], c.q)

ProcessCommand(c) ==
    IF c.http.mode = "on" THEN ContinueHttp(c)
    ELSE IF Len(c.argv) = 3 /\ c.argv[1] \in Methods /\ c.argv[3] \in Protos THEN StartHttp([c EXCEPT !.http = NoHttp])
    ELSE [c EXCEPT !.http = NoHttp, !.ran = Append(@, <<"cmd", c.argv>>)]

ResetClient(c) == [c EXCEPT !.argv = <<>>, !.type = "", !.mbl = 0, !.bulk = -1, !.done = FALSE]
Carry(c) == ResetClient(IF c.argv = <<>> THEN ZeroArgs(c) ELSE ProcessCommand(c))

(* One turn of the loop of processInputBuffer, until nothing more can be     *)
(* taken from the buffer.                                                    *)
InputStep(c) ==
    IF c.q = <<>> \/ c.close THEN [c EXCEPT !.more = FALSE]
    ELSE IF c.http.mode = "body" /\ c.http.method = "P" THEN PostBody(c)
    ELSE LET t == IF c.type # "" THEN c ELSE [c EXCEPT !.type = IF c.q[1] = "*" THEN "multibulk" ELSE "inline"]
             p == IF t.type = "inline" THEN InlineStep(t) ELSE MultibulkStep(t)
         IN  IF p.done THEN Carry(p) ELSE p
MaxTurns == 24
ProcessInputBuffer(c) ==
    FoldLeft(LAMBDA x, i : IF x.more THEN InputStep(x) ELSE x, [c EXCEPT !.more = TRUE], [i \in 1 .. MaxTurns |-> i])

ReadQuery(n) ==
    /\ n \in 1 .. Len(cx.feed) /\ ~cx.close
    /\ cx' = ProcessInputBuffer([cx EXCEPT !.q = @ \o SubSeq(cx.feed, 1, n), !.feed = From(@, n + 1)])

-----------------------------------------------------------------------------
(* Replies. The list holds sequences of bytes; a length that is not known    *)
(* yet is the node <<"?">>.                                                  *)

Later == <<"?">>
InstallHandler(c) == IF c.buf = <<>> /\ c.list = <<>> THEN [c EXCEPT !.h = TRUE] ELSE c
AddToBuffer(c, s) == [c EXCEPT !.buf = @ \o s]
AddToList(c, s) ==
    IF c.list = <<>> \/ Last(c.list) = Later \/ Len(Last(c.list)) + Len(s) > ChunkBytes
    THEN [c EXCEPT !.list = Append(@, s)]
    ELSE [c EXCEPT !.list[Len(c.list)] = @ \o s]
AddString(c0, s) ==
    LET c == InstallHandler(c0)
    IN  IF c.close THEN c
        ELSE IF c.list = <<>> /\ Len(s) <= BufBytes - Len(c.buf) THEN AddToBuffer(c, s) ELSE AddToList(c, s)
AddDeferred(c) == LET d == InstallHandler(c) IN [d EXCEPT !.list = Append(@, Later)]
(* The length goes where the node was, glued to the next node if that one is *)
(* known.                                                                    *)
SetDeferred(c, s) ==
    LET i    == CHOOSE x \in 1 .. Len(c.list) : c.list[x] = Later /\ \A y \in x + 1 .. Len(c.list) : c.list[y] # Later
        glue == i < Len(c.list)
    IN  [c EXCEPT !.list = SubSeq(@, 1, i - 1) \o <<s \o (IF glue THEN @[i + 1] ELSE <<>>)>>
                           \o From(@, i + (IF glue THEN 2 ELSE 1))]

(* A script is a list of <<"add", bytes>>, <<"later">> and <<"set", bytes>>; *)
(* what it means is its bytes with each length at its place.                 *)
RunOp(c, op) ==
    CASE op[1] = "add"   -> AddString(c, op[2])
      [] op[1] = "later" -> AddDeferred(c)
      [] op[1] = "set"   -> SetDeferred(c, op[2])
Reply(k) ==
    /\ cx.role = "out" /\ cx.replies < 2 /\ ~cx.close
    /\ cx' = [FoldLeft(RunOp, cx, Scripts[k].ops) EXCEPT !.want = @ \o Scripts[k].bytes, !.replies = @ + 1]

Quit ==
    /\ cx.role = "out" /\ ~cx.close /\ cx.want # <<>>
    /\ cx' = [cx EXCEPT !.close = TRUE]

(* sendReplyToClient: the socket takes n bytes in all and then no more. With *)
(* the list empty the handler goes, sentlen is forgotten, and a connection   *)
(* that is to close closes.                                                  *)
TakeOne(c) ==
    IF c.buf # <<>>
    THEN LET b == [c EXCEPT !.got = Append(@, c.buf[c.sent + 1]), !.sent = @ + 1]
         IN  IF b.sent = Len(b.buf) THEN [b EXCEPT !.buf = <<>>, !.sent = 0] ELSE b
    ELSE LET b == [c EXCEPT !.got = Append(@, c.list[1][c.sent + 1]), !.sent = @ + 1]
         IN  IF b.sent = Len(c.list[1]) THEN [b EXCEPT !.list = Tail(@), !.sent = 0] ELSE b
Left(c) == Len(c.buf) + FoldLeft(LAMBDA n, s : n + Len(s), 0, c.list) - c.sent
SendOut(n) ==
    LET a == FoldLeft(LAMBDA c, i : TakeOne(c), cx, [i \in 1 .. n |-> i])
    IN  /\ cx.h /\ n \in 0 .. Left(cx)
        /\ (n = 0 => cx.list = <<>>)
        /\ cx' = IF a.list # <<>> THEN a
                 ELSE [a EXCEPT !.sent = 0, !.h = FALSE, !.stuck = a.buf # <<>>, !.closed = a.close]

-----------------------------------------------------------------------------
Fresh == [role |-> "in", meant |-> <<>>, feed |-> <<>>, q |-> <<>>, type |-> "", mbl |-> 0, bulk |-> -1, argv |-> <<>>,
          done |-> FALSE, more |-> FALSE, http |-> NoHttp, ran |-> <<>>, close |-> FALSE, closed |-> FALSE,
          buf |-> <<>>, list |-> <<>>, sent |-> 0, h |-> FALSE, want |-> <<>>, got |-> <<>>, replies |-> 0,
          split |-> FALSE, stuck |-> FALSE]
PInit ==
    \/ cx = [Fresh EXCEPT !.role = "out"]
    \/ \E s \in Streams : cx = [Fresh EXCEPT !.meant = s.meant, !.feed = s.bytes]
PNext ==
    \/ \E n \in 1 .. Len(cx.feed) : ReadQuery(n)
    \/ \E k \in DOMAIN Scripts : Reply(k)
    \/ Quit
    \/ \E n \in 0 .. Left(cx) : SendOut(n)

Rest(c) == IF c.buf # <<>> THEN From(c.buf, c.sent + 1) \o FlattenSeq(c.list)
           ELSE IF c.list # <<>> THEN From(FlattenSeq(c.list), c.sent + 1) ELSE <<>>

(* However the bytes of a series of requests are cut into reads, the same    *)
(* commands run, in order and none before it is complete; and however the    *)
(* socket takes the replies, its bytes and those still held are the replies  *)
(* in order, each length that was filled in later at its place.              *)
StreamExact ==
    /\ ~cx.split => IsPrefix(cx.ran, cx.meant) /\ (cx.feed = <<>> => cx.ran = cx.meant)
    /\ IF cx.stuck THEN IsPrefix(cx.got, cx.want) ELSE cx.got \o Rest(cx) = cx.want
=============================================================================
