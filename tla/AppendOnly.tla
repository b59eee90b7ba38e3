----------------------------- MODULE AppendOnly -----------------------------
(* The append only file (aof.c): commands go to aofbuf and, before the next    *)
(* poll, to the file; a child rewrites the file from the data it forked with   *)
(* while the parent collects the difference in bgrewritebuf; CONFIG SET        *)
(* switches the file off and on; a replica that loaded its master's data asks  *)
(* for a rewrite; the process may stop at any moment and replay the file.      *)
(*   on, fd     appendonly; appendfd is "none", "open" or "closed" (a number   *)
(*              that is no longer a file)                                      *)
(*   file, buf, diff   the file, aofbuf and bgrewritebuf, as lists of entries  *)
(*   sel        appendseldb                                                    *)
(*   rw, sv     the rewriting and the saving child: the process ("none",       *)
(*              "runs", "ended"), whether the parent has its pid, and the data *)
(*              it forked with                                                 *)
(*   sched      aofrewrite_scheduled                                           *)
(*   acked      the writes whose clients have their answer                     *)
(* Ghosts: stale (the file is not a log of this data: it was switched off, or  *)
(* the data was replaced, and no rewrite since has ended), twice (a command is *)
(* in the file two times), misreaped (the wait of one child took another).     *)
EXTENDS Integers, Sequences, FiniteSets, SequencesExt, TLC
CONSTANTS ADb, MaxLog,  \* databases; commands
          LogMixes      \* the operations that are tried together
VARIABLE ao

ANone   == [d \in ADb |-> 0]
Entry(t, v) == [t |-> t, v |-> v, d |-> ANone]
Dump(d) == [t |-> "dump", v |-> 0, d |-> d]
NoChild == [proc |-> "none", pid |-> FALSE, ok |-> TRUE, data |-> ANone, covers |-> FALSE]
AOps(x) == x \in ao.ops

(* Loading a file: a dump leaves the last database that has keys selected.   *)
LastDb(d) == LET s == {x \in ADb : d[x] > 0} IN IF s = {} THEN 0 ELSE CHOOSE x \in s : \A y \in s : y <= x
LoadEntry(x, e) ==
    CASE e.t = "select" -> [x EXCEPT !.sel = e.v]
      [] e.t = "write"  -> [x EXCEPT !.data[x.sel] = @ + 1]
      [] e.t = "dump"   -> [sel |-> LastDb(e.d), data |-> e.d]
LoadFile(f) == FoldLeft(LoadEntry, [sel |-> 0, data |-> ANone], f).data

Feed(a, d) ==
    LET e == (IF d # a.sel THEN <<Entry("select", d)>> ELSE <<>>) \o <<Entry("write", 0)>>
    IN  [a EXCEPT !.buf = @ \o e, !.sel = d, !.diff = IF a.rw.pid THEN @ \o e ELSE @]
ALog(d) ==
    /\ ao.n < MaxLog
    /\ LET a == [ao EXCEPT !.data[d] = @ + 1, !.n = @ + 1]
       IN  ao' = IF ao.on THEN Feed(a, d) ELSE a

Flushed(a)   == [a EXCEPT !.file = @ \o a.buf, !.buf = <<>>]
BeforeSleep ==
    /\ ao.on /\ ao.acked # ao.data
    /\ ao' = [Flushed(ao) EXCEPT !.acked = ao.data]

-----------------------------------------------------------------------------
(* The rewrite in the background.                                            *)

(* Mutant of RewriteBackground: the difference does not start with SELECT. *)
RewriteKeepsSel(a, forked) ==
    IF a.rw.pid \/ ~forked THEN a
    ELSE [a EXCEPT !.rw = [proc |-> "runs", pid |-> TRUE, ok |-> TRUE, data |-> a.data, covers |-> TRUE],
                   !.forks = @ + 1]

RewriteBackground(a, forked) ==
    IF a.rw.pid \/ ~forked THEN a
    ELSE [a EXCEPT !.rw = [proc |-> "runs", pid |-> TRUE, ok |-> TRUE, data |-> a.data, covers |-> TRUE],
                   !.sel = -1, !.forks = @ + 1]
Forks == ao.forks < 2

BgrewriteaofCommand(forked) ==
    /\ AOps("rewrite") /\ ~ao.rw.pid /\ Forks
    /\ ao' = IF ao.sv.pid THEN [ao EXCEPT !.sched = TRUE] ELSE RewriteBackground(ao, forked)
    /\ ao' # ao

(* serverCron: nothing clears aofrewrite_scheduled, so a rewrite that was    *)
(* asked for during a BGSAVE is followed by another one, for ever.           *)
CronScheduled(forked) ==
    /\ ao.sched /\ ~ao.sv.pid /\ ~ao.rw.pid /\ Forks
    /\ ao' = RewriteBackground(ao, forked)
    /\ ao' # ao

ChildEnds(k, ok) ==
    /\ ao[k].proc = "runs"
    /\ (ok \/ AOps("fail"))
    /\ ao' = [ao EXCEPT ![k].proc = "ended", ![k].ok = ok]

(* backgroundRewriteDoneHandler. The new file holds the difference; what of  *)
(* it is still in aofbuf will be written to it again.                        *)
Installed(a) ==
    LET b == [a EXCEPT !.file = <<Dump(a.rw.data)>> \o a.diff, !.stale = ~a.rw.covers]
    IN  IF a.fd = "none" THEN b ELSE [b EXCEPT !.fd = "open", !.sel = -1, !.twice = a.buf # <<>>]
RewriteDone(a, ok) == [(IF ok THEN Installed(a) ELSE a) EXCEPT !.diff = <<>>, !.rw = NoChild]
(* serverCron waits for any child: the saving one takes the handler of       *)
(* BGSAVE, every other result that of the rewrite (with no child at all there*)
(* is no temporary file and nothing changes).                                *)
CronReap ==
    /\ ao.sv.pid \/ ao.rw.pid
    /\ \/ /\ ao.sv.proc = "ended"
          /\ ao' = [ao EXCEPT !.sv = NoChild]
       \/ /\ ao.rw.proc = "ended"
          /\ ao' = RewriteDone(ao, ao.rw.ok)

Save ==
    /\ AOps("bgsave") /\ ~ao.sv.pid /\ ao.saves < 1
    /\ ao' = [ao EXCEPT !.sv = [NoChild EXCEPT !.proc = "runs", !.pid = TRUE], !.saves = @ + 1]

-----------------------------------------------------------------------------
(* CONFIG SET appendonly no and yes.                                         *)

(* The rewriting child is killed and waited for, but wait3 takes any child.  *)
StopAppendOnly ==
    /\ AOps("config") /\ ao.on /\ ao.switches < 2
    /\ LET a == [Flushed(ao) EXCEPT !.fd = "none", !.sel = -1, !.on = FALSE, !.stale = TRUE,
                                    !.acked = ANone, !.switches = @ + 1]
       IN  \/ /\ ~ao.rw.pid
              /\ ao' = a
           \/ /\ ao.rw.pid
              /\ ao' = [a EXCEPT !.diff = <<>>, !.rw = NoChild]
           \/ /\ ao.rw.pid /\ ao.sv.proc = "ended"
              /\ ao' = [a EXCEPT !.diff = <<>>, !.rw = [NoChild EXCEPT !.proc = "ended", !.ok = FALSE],
                                 !.sv.proc = "none", !.misreaped = TRUE]
StartAppendOnly(forked) ==
    /\ AOps("config") /\ ~ao.on /\ ao.switches < 2 /\ Forks
    /\ LET a == RewriteBackground([ao EXCEPT !.on = TRUE, !.fd = "open", !.stale = TRUE, !.switches = @ + 1], forked)
       IN  ao' = IF ao.rw.pid \/ ~forked THEN [a EXCEPT !.on = FALSE, !.fd = "closed"] ELSE a

(* A replica has loaded its master's data. The result of asking for a        *)
(* rewrite is not looked at: one that already runs has the old data.         *)
Resynced(a, forked) ==
    LET b == [a EXCEPT !.data = [d \in ADb |-> IF d = 0 THEN @[d] + 1 ELSE 0], !.stale = TRUE, !.acked = ANone,
                       !.rw.covers = FALSE, !.resyncs = @ + 1]
    IN  IF a.on THEN RewriteBackground(b, forked) ELSE b
Resync(forked) ==
    /\ AOps("resync") /\ ao.resyncs < 1 /\ Forks
    /\ ao' = Resynced(ao, forked)

(* The process stops, at once or in the middle of anything, and starts with  *)
(* appendonly yes: aofbuf is lost, the file is replayed and opened.          *)
ACrash ==
    /\ AOps("crash") /\ ao.crashes < 1
    /\ LET d == LoadFile(ao.file)
       IN  ao' = [ao EXCEPT !.data = d, !.acked = d, !.buf = <<>>, !.diff = <<>>, !.on = TRUE, !.fd = "open", !.sel = -1,
                            !.rw = NoChild, !.sv = NoChild, !.sched = FALSE, !.stale = FALSE, !.twice = FALSE,
                            !.misreaped = FALSE, !.crashes = @ + 1]

-----------------------------------------------------------------------------
AInit(ops) ==
    ao = [ops |-> ops, on |-> TRUE, fd |-> "open", data |-> ANone, acked |-> ANone, file |-> <<>>, buf |-> <<>>,
          diff |-> <<>>, sel |-> -1, rw |-> NoChild, sv |-> NoChild, sched |-> FALSE, stale |-> FALSE, twice |-> FALSE,
          misreaped |-> FALSE, n |-> 0, forks |-> 0, saves |-> 0, switches |-> 0, resyncs |-> 0, crashes |-> 0]
ANext ==
    \/ \E d \in ADb : ALog(d)
    \/ BeforeSleep \/ CronReap \/ Save \/ StopAppendOnly \/ ACrash
    \/ \E ok \in BOOLEAN : \/ BgrewriteaofCommand(ok) \/ CronScheduled(ok) \/ StartAppendOnly(ok) \/ Resync(ok)
                           \/ ChildEnds("rw", ok) \/ ChildEnds("sv", ok)

AtLeast(x, y) == \A d \in ADb : x[d] >= y[d]

(* The file with aofbuf behind it replays to the data, every answered write  *)
(* is in the file already, and so the process may stop at any moment; the    *)
(* file that a rewrite is about to install replays to the data as well, with *)
(* every command in its own database. And the parent never waits for a child *)
(* that is gone.                                                             *)
LogExact ==
    /\ (ao.on /\ ~ao.stale /\ ~ao.twice) =>
         LoadFile(ao.file \o ao.buf) = ao.data /\ AtLeast(LoadFile(ao.file), ao.acked)
    /\ (ao.on /\ ao.rw.pid /\ ao.rw.covers) => LoadFile(<<Dump(ao.rw.data)>> \o ao.diff) = ao.data
    /\ ~ao.misreaped => (ao.sv.pid <=> ao.sv.proc # "none") /\ (ao.rw.pid <=> ao.rw.proc # "none")
=============================================================================
