----------------------------- MODULE DiskStore -----------------------------
(* The disk store: memory is a cache of files, one per key. The main thread    *)
(* runs commands and schedules loads and saves (cache_io_queue, with the flags *)
(* of each key in io_queued); it turns them into jobs (io_newjobs) that the    *)
(* I/O thread takes (io_processing), does on the disk and hands back           *)
(* (io_processed). A client whose keys are not in memory waits for their       *)
(* loads. A BGSAVE thread copies the files. ds is all of this:                 *)
(*   mix        the operations, keys and clients of this behaviour             *)
(*   mem, disk  the value of each key, 0 for none (the expire goes with it)    *)
(*   neg        io_negcache: keys known not to be on disk                      *)
(*   waits      io_keys of the db: the clients that wait for each key          *)
(*   cl         per client the command it waits to run, and its io_keys        *)
(*   th, tmp    where the I/O thread is; whether its temporary file exists     *)
(*   pc, ret    where the main thread is: in the event loop, at the top of     *)
(*              cacheForcePointInTime, in processActiveIOJobs(1), or in SAVE   *)
(*   bg         the BGSAVE thread and what it has copied                       *)
(* Two fields only record what happened: unsaved, the keys whose last change   *)
(* was not scheduled to be saved or that were removed while a load of them was *)
(* under way, which brings the old value back; and raced, that a FLUSH came    *)
(* while jobs were in flight or a BGSAVE was running.                          *)
EXTENDS Integers, Sequences, FiniteSets, SequencesExt, TLC
CONSTANTS Keys,
          Zero,       \* the keys of database 0; the others are in database 1
          Clients,
          MaxVal,     \* values are the versions 1 .. MaxVal, in turn
          MaxJobs,    \* MAX_IO_JOBS_QUEUE
          Mixes       \* the operations, keys and clients that are tried together
VARIABLE ds

Absent == 0
Idle == [op |-> "none", args |-> <<>>, keys |-> <<>>]
NoSave == [state |-> "none", todo |-> {}, got |-> <<>>, at |-> <<>>]
Fault(s, f) == [s EXCEPT !.fault = IF @ = "none" THEN f ELSE @]
Start(disk, mix) ==
  [mix |-> mix, mem |-> [k \in Keys |-> Absent], disk |-> disk, neg |-> {},
   flags |-> [k \in Keys |-> {}], queue |-> <<>>, new |-> <<>>, work |-> <<>>,
   done |-> <<>>, th |-> "check", tmp |-> FALSE,
   waits |-> [k \in Keys |-> <<>>], ready |-> <<>>, cl |-> [c \in Clients |-> Idle],
   bg |-> NoSave, pc |-> "loop", ret |-> "none", fault |-> "none",
   unsaved |-> {}, raced |-> FALSE]

(**************************** flags, queue and jobs ***************************)
AddFlag(s, k, f) ==
  IF f \in s.flags[k] THEN Fault(s, "assert") ELSE [s EXCEPT !.flags[k] = @ \cup {f}]
DelFlag(s, k, f) ==
  IF f \in s.flags[k] THEN [s EXCEPT !.flags[k] = @ \ {f}] ELSE Fault(s, "assert")
SignalNever(s) == s
Signal(s) == [s EXCEPT !.th = IF @ = "wait" THEN "check" ELSE @]
InProgress(type) == IF type = "load" THEN "loading" ELSE "saving"
CreateIOJob(s, type, k) ==
  Signal([s EXCEPT !.new = Append(@, [type |-> type, key |-> k,
                                      val |-> IF type = "load" THEN Absent ELSE s.mem[k]])])
Started(s, op) ==
  LET d == DelFlag(CreateIOJob(s, op.type, op.key), op.key, op.type)
  IN [AddFlag(d, op.key, InProgress(op.type)) EXCEPT !.queue = Tail(@)]
(* cacheScheduleIOPushJobs: with mode "loads" it stops at a save. That is what *)
(* REDIS_IO_ONLYLOADS asks for, and what happens while the flush delay of the  *)
(* save has not passed; with mode "all" the delay has passed or REDIS_IO_ASAP  *)
(* waives it.                                                                  *)
RECURSIVE PushFrom(_, _, _)
PushFrom(s, mode, n) ==
  IF s.queue = <<>> \/ n = 0 THEN s
  ELSE LET op == Head(s.queue)
           save == op.type = "save"
       IN IF save /\ mode = "loads" THEN s
          ELSE IF save /\ "saving" \in s.flags[op.key]
          THEN IF Len(s.queue) = 1 THEN s
               ELSE PushFrom([s EXCEPT !.queue = Append(Tail(@), op)], mode, n - 1)
          ELSE PushFrom(Started(s, op), mode, n - 1)
PushWhileSaving(s, mode) ==
  PushFrom(s, mode, Max({0, Min({MaxJobs - Len(s.new), Len(s.queue)})}))
PushJobs(s, mode) == IF s.bg.state # "none" THEN s ELSE PushWhileSaving(s, mode)
ScheduleOnce(s, k, type) ==
  LET op == [type |-> type, key |-> k]
      a == AddFlag(s, k, type)
  IN IF {type, InProgress(type)} \cap s.flags[k] # {} THEN s
     ELSE IF type = "load" /\ "save" \notin s.flags[k]
     THEN PushJobs([a EXCEPT !.queue = <<op>> \o @], "loads")
     ELSE [a EXCEPT !.queue = Append(@, op)]
ScheduleIO(s, k, type) ==
  LET op == [type |-> type, key |-> k]
      a == AddFlag(s, k, type)
  IN IF type \in s.flags[k] THEN s
     ELSE IF type = "load" /\ "save" \notin s.flags[k]
     THEN PushJobs([a EXCEPT !.queue = <<op>> \o @], "loads")
     ELSE [a EXCEPT !.queue = Append(@, op)]

(******************************* waiting clients ******************************)
Remove1(q, x) ==
  LET i == CHOOSE j \in 1 .. Len(q) : q[j] = x /\ \A h \in 1 .. j - 1 : q[h] # x
  IN RemoveAt(q, i)
WaitForSwappedKey(s, c, k) ==
  LET w == [s EXCEPT !.cl[c].keys = Append(@, k), !.waits[k] = Append(@, c)]
  IN IF s.mem[k] # Absent \/ k \in s.neg THEN s
     ELSE IF s.waits[k] = <<>> /\ s.flags[k] \cap {"load", "loading"} = {}
     THEN ScheduleIO(w, k, "load")
     ELSE w
DontWait(s, c, k) ==
  IF ~Contains(s.cl[c].keys, k) \/ ~Contains(s.waits[k], c) THEN Fault(s, "assert")
  ELSE [s EXCEPT !.cl[c].keys = Remove1(@, k), !.waits[k] = Remove1(@, c)]
HandleFirstBlocked(s, k) ==
  IF s.waits[k] = <<>> THEN s
  ELSE LET c == Head(s.waits[k])
           d == DontWait(s, c, k)
       IN IF d.cl[c].keys = <<>> THEN [d EXCEPT !.ready = Append(@, c)] ELSE d
HandleClientsBlocked(s, k) ==
  FoldLeft(LAMBDA t, c : LET d == DontWait(t, c, k)
                         IN IF d.cl[c].keys = <<>> THEN [d EXCEPT !.ready = Append(@, c)] ELSE d,
           s, s.waits[k])

(********************************* the keyspace *******************************)
DbAdd(s, k, v) ==
  IF s.mem[k] # Absent THEN Fault(s, "assert")
  ELSE [s EXCEPT !.mem[k] = v, !.neg = @ \ {k}]
DbDelete(s, k) ==
  [HandleClientsBlocked(s, k) EXCEPT !.neg = @ \cup {k}, !.mem[k] = Absent]

(* vmThreadedIOCompletedJob takes one job, the share of 1% rounded up to one.  *)
CompletedJob(s) ==
  LET j == Head(s.done)
      t == [s EXCEPT !.done = Tail(@)]
      loaded == IF j.val # Absent
                THEN IF t.mem[j.key] = Absent THEN DbAdd(t, j.key, j.val) ELSE t
                ELSE IF t.mem[j.key] = Absent /\ t.flags[j.key] \cap {"save", "saving"} = {}
                THEN [t EXCEPT !.neg = @ \cup {j.key}] ELSE t
  IN IF j.type = "save" THEN DelFlag(t, j.key, "saving")
     ELSE HandleClientsBlocked(DelFlag(loaded, j.key, "loading"), j.key)
(* The job as the thread does it: a load reads the file into the job, a save   *)
(* replaces or removes the file.                                               *)
DsGet(s, j) == [j EXCEPT !.val = s.disk[j.key]]
DsSet(s, j) == [s EXCEPT !.disk[j.key] = j.val]
Performed(s, j) ==
  IF j.type = "load" THEN [s EXCEPT !.done = Append(@, DsGet(s, j))]
  ELSE [DsSet(s, j) EXCEPT !.done = Append(@, j)]

(* waitEmptyIOJobsQueue and processAllPendingIOJobs: the main thread only      *)
(* waits, so that the thread does all it has to do, and then takes every       *)
(* result, without pushing new jobs.                                           *)
RECURSIVE CompleteAll(_)
CompleteAll(s) == IF s.done = <<>> THEN s ELSE CompleteAll(CompletedJob(s))
WaitBusyKeyNot(s) == s
WaitBusyKey(s) ==
  CompleteAll([FoldLeft(Performed, s, s.work \o s.new)
               EXCEPT !.work = <<>>, !.new = <<>>, !.tmp = FALSE, !.th = "wait"])
LookupKey(s, k) ==
  LET w == IF "saving" \in s.flags[k] THEN WaitBusyKey(s) ELSE s
  IN IF s.mem[k] # Absent THEN w
     ELSE IF k \in s.neg \/ "save" \in s.flags[k] THEN s
     ELSE IF w.disk[k] # Absent THEN DbAdd(w, k, w.disk[k])
     ELSE [w EXCEPT !.neg = @ \cup {k}]

(********************************* the commands *******************************)
(* A command that changes a value in place must find no job that reads it.     *)
Next1(v) == (v % MaxVal) + 1
Read(s, k) == \E j \in Range(s.new \o s.work) : j.key = k /\ j.type = "save" /\ j.val # Absent
Push(s, k) ==
  LET t == LookupKey(s, k)
      m == IF t.mem[k] = Absent THEN DbAdd(t, k, 1)
           ELSE IF Read(t, k) THEN Fault(t, "race")
           ELSE [t EXCEPT !.mem[k] = Next1(@)]
  IN [ScheduleIO(m, k, "save") EXCEPT !.unsaved = @ \ {k}]
SetKey(s, k) ==
  LET t == LookupKey(s, k)
  IN [t EXCEPT !.mem[k] = Next1(@), !.neg = @ \ {k}, !.unsaved = @ \cup {k}]
Del(s, k) ==
  LET t == LookupKey(s, k)
      d == DbDelete(t, k)
  IN IF t.mem[k] # Absent THEN [ScheduleIO(d, k, "save") EXCEPT !.unsaved = IF d.flags[k] \cap {"load", "loading"} = {} THEN @ \ {k} ELSE @ \cup {k}]
     ELSE d   \* after dbDelete no key may exist: the test of the disk is not reached
(* dsFlushOneDir keeps a file when its database is not 0, whichever database   *)
(* is flushed; FLUSHALL takes every file, those being written included.        *)
Flushed(db) == IF db = "all" THEN Keys ELSE Zero
Flush(s, db) ==
  LET gone == IF db = "all" THEN Keys ELSE IF db = "0" THEN Zero ELSE Keys \ Zero
  IN [s EXCEPT !.mem = [k \in Keys |-> IF k \in gone THEN Absent ELSE @[k]],
               !.neg = IF db = "all" THEN {} ELSE @,
               !.disk = [k \in Keys |-> IF k \in Flushed(db) THEN Absent ELSE @[k]],
               !.tmp = @ /\ Head(s.work).key \notin Flushed(db),
               !.unsaved = @ \cup gone \cup Flushed(db),
               !.raced = @ \/ s.new \o s.work \o s.done # <<>> \/ s.bg.state = "active"]
Exec(s, op, args) ==
  CASE op = "get"  -> FoldLeft(LookupKey, s, args)
    [] op = "push" -> Push(s, args[1])
    [] op = "set"  -> SetKey(s, args[1])
    [] op = "del"  -> FoldLeft(Del, s, args)
Preloads(op) == op \in {"get", "push"}
BlockOnSwappedKeys(s, c, args) ==
  FoldLeft(LAMBDA t, k : WaitForSwappedKey(t, c, k), s, args)

Live == ds.fault = "none"
Looping == Live /\ ds.pc = "loop"
Command(c) == Looping /\ c \in ds.mix.clients /\ ds.cl[c] = Idle /\
  \E op \in ds.mix.ops \cap {"get", "push", "set", "del"} :
  \E args \in {<<k>> : k \in ds.mix.keys} \cup (IF op = "get" THEN {SetToSeq(ds.mix.keys)} ELSE {}) :
    LET b == IF Preloads(op) THEN BlockOnSwappedKeys(ds, c, args) ELSE ds
    IN ds' = IF b.cl[c].keys # <<>> THEN [b EXCEPT !.cl[c].op = op, !.cl[c].args = args]
             ELSE Exec(b, op, args)
(* beforeSleep runs the command of a client that has all its keys.             *)
Resume == Looping /\ ds.ready # <<>> /\
  LET c == Head(ds.ready)
      s == [ds EXCEPT !.ready = Tail(@), !.cl[c] = Idle]
  IN ds' = Exec(s, ds.cl[c].op, ds.cl[c].args)
FreeClient(c) == Looping /\ ds.cl[c] # Idle /\
  LET s == IF ds.cl[c].keys # <<>>
           THEN FoldLeft(LAMBDA t, k : DontWait(t, c, k), ds, ds.cl[c].keys)
           ELSE IF Contains(ds.ready, c) THEN [ds EXCEPT !.ready = Remove1(@, c)]
           ELSE Fault(ds, "assert")
  IN ds' = [s EXCEPT !.cl[c] = Idle]
FlushCommand == Looping /\ "flush" \in ds.mix.ops /\ \E db \in {"0", "1", "all"} : ds' = Flush(ds, db)

(***************************** the background save ****************************)
Dataset(s) == [k \in Keys |-> IF s.mem[k] # Absent THEN s.mem[k] ELSE s.disk[k]]
BgStart(s) == [s EXCEPT !.bg = [state |-> "active", todo |-> Keys, at |-> [k \in Keys \ s.unsaved |-> Dataset(s)[k]],
                                got |-> [k \in Keys |-> Absent]]]
Save == Looping /\ "save" \in ds.mix.ops /\ ds.bg.state = "none" /\
  \E kind \in {"bgsave", "save"} : ds' = [ds EXCEPT !.pc = "top", !.ret = kind]
BgCopy == Live /\ ds.bg.state = "active" /\ \E k \in ds.bg.todo :
  ds' = [ds EXCEPT !.bg.todo = @ \ {k}, !.bg.got[k] = ds.disk[k]]
BgFail == Live /\ ds.bg.state = "active" /\ ds' = [ds EXCEPT !.bg.state = "err"]
BgDone == Live /\ ds.bg.state = "active" /\ ds.bg.todo = {} /\
  ds' = [ds EXCEPT !.bg.state = "ok"]
SaveWaited == Live /\ ds.pc = "save" /\ ds.bg.state \in {"ok", "err"} /\
  ds' = [ds EXCEPT !.pc = "loop"]

(********************** cacheForcePointInTime, busy waiting *******************)
ForceTop == Live /\ ds.pc = "top" /\
  ds' = IF ds.queue # <<>> THEN [PushJobs(ds, "all") EXCEPT !.pc = "active"]
        ELSE [BgStart(WaitBusyKey(ds)) EXCEPT !.pc = IF ds.ret = "save" THEN "save" ELSE "loop"]
NegativeCacheEvict(s, k) == [s EXCEPT !.neg = @ \ {k}]
Returned(s) == [s EXCEPT !.pc = IF s.ret = "reclaim" THEN "loop" ELSE "top"]
Active == Live /\ ds.pc = "active" /\
  \/ ds.new \o ds.work = <<>> /\ ds' = Returned(ds)
  \/ ds.new \o ds.work # <<>> /\ ds.done # <<>> /\ ds' = Returned(CompletedJob(Signal(ds)))

(************************************ the cron ********************************)
Reclaim(s) ==
  LET free == {k \in Keys : s.mem[k] # Absent /\ s.flags[k] = {}}
  IN IF free # {} THEN {DbDelete(s, k) : k \in free}
     ELSE IF s.queue # <<>>
     THEN {[PushJobs(s, "all") EXCEPT !.pc = "active", !.ret = "reclaim"]} ELSE {s}
EvictNegative(s) == IF s.neg = {} THEN {s} ELSE {NegativeCacheEvict(s, k) : k \in s.neg}
SaveDone(s) == IF s.bg.state \in {"ok", "err"} THEN [s EXCEPT !.bg = NoSave] ELSE s
Cron == Looping /\
  \E mode \in {"loads", "all"} :
    LET p == PushJobs(SaveDone(ds), mode)
    IN \/ ds' = p
       \/ "evict" \in ds.mix.ops /\ \E r \in Reclaim(p) : ds' \in EvictNegative(r)

(********************************* the I/O thread *****************************)
CompletedEvent == Looping /\ ds.done # <<>> /\
  \E mode \in {"loads", "all"} : ds' = PushJobs(CompletedJob(ds), mode)
ThreadCheck == Live /\ ds.th = "check" /\
  ds' = IF ds.new = <<>> THEN [ds EXCEPT !.th = "wait"]
        ELSE [ds EXCEPT !.new = Tail(@), !.work = <<Head(ds.new)>>, !.th = "work"]
Finished(s) == [s EXCEPT !.work = <<>>, !.th = "check"]
ThreadWork == Live /\ ds.th = "work" /\
  LET j == Head(ds.work)
  IN ds' = IF j.type = "save" /\ j.val # Absent
           THEN [ds EXCEPT !.tmp = TRUE, !.th = "rename"]
           ELSE Finished(Performed(ds, j))
ThreadRename == Live /\ ds.th = "rename" /\
  ds' = IF ~ds.tmp THEN Fault(ds, "panic")
        ELSE Finished([Performed(ds, Head(ds.work)) EXCEPT !.tmp = FALSE])

(* The process is killed, or told to shut down, which writes nothing either.   *)
Crash == Live /\ "crash" \in ds.mix.ops /\ ds' = Start(ds.disk, ds.mix)

Init == \E mix \in Mixes : ds = Start([k \in Keys |-> 1], mix)
Main == Resume \/ ForceTop \/ Active \/ SaveWaited \/ Cron \/ CompletedEvent
Thread == ThreadCheck \/ ThreadWork \/ ThreadRename
Bg == BgCopy \/ BgFail \/ BgDone
Next == (\E c \in Clients : Command(c) \/ FreeClient(c)) \/ FlushCommand \/ Save
        \/ Main \/ Thread \/ Bg \/ Crash
Spec == Init /\ [][Next]_ds
(* Fairness, stated as what no thread does: stay forever at a step it can      *)
(* take. The I/O thread and the BGSAVE thread are scheduled; the event loop    *)
(* comes round, and serves the first ready client and the first result; the    *)
(* cron comes after the flush delay again and again and moves the first        *)
(* operation of the queue on.                                                  *)
Operations == [type : {"load", "save"}, key : Keys]
NotFirst(q, type, k) == q = <<>> \/ Head(q).type # type \/ Head(q).key # k
Held(o) ==
  Len(ds.new) >= MaxJobs \/ ds.bg.state # "none"
  \/ (o.type = "save" /\ "saving" \in ds.flags[o.key] /\ Len(ds.queue) = 1)
Fairness ==
  /\ \A p \in {"check", "work", "rename"} : []<>(ds.th # p)
  /\ []<>(ds.bg.state # "active")
  /\ []<>(ds.pc # "top") /\ []<>(ds.pc # "save" \/ ds.bg.state = "active")
  /\ []<>(ds.pc # "active" \/ (ds.done = <<>> /\ ds.new \o ds.work # <<>>))
  /\ \A c \in Clients : []<>(~Looping \/ ds.ready = <<>> \/ Head(ds.ready) # c)
  /\ \A o \in Operations : []<>(~Looping \/ NotFirst(ds.done, o.type, o.key))
  /\ \A o \in Operations : []<>(~Looping \/ NotFirst(ds.queue, o.type, o.key) \/ Held(o))
  /\ []<>(~Looping \/ ds.bg.state \notin {"ok", "err"})
FairSpec == Spec /\ Fairness

(********************************* the properties *****************************)
Jobs == ds.new \o ds.work \o ds.done
Count(q, type, k) == Cardinality({i \in DOMAIN q : q[i].type = type /\ q[i].key = k})
One(b) == IF b THEN 1 ELSE 0
(* io_queued says exactly what is scheduled and in flight for each key, once    *)
(* each. With it the redisAsserts of dscache.c and db.c hold and no value is    *)
(* changed while the I/O thread writes it, except after a FLUSH that raced.     *)
FlagsExact ==
  /\ Live \/ ds.raced
  /\ Live => \A k \in Keys, t \in {"load", "save"} :
       /\ Count(ds.queue, t, k) = One(t \in ds.flags[k])
       /\ Count(Jobs, t, k) = One(InProgress(t) \in ds.flags[k])
(* No client waits in vain: for every key it still waits for, a load is         *)
(* scheduled or in flight, and both registers name the pair; with no key left   *)
(* it is in io_ready_clients.                                                   *)
WaitersServed == Live => \A c \in Clients :
  /\ \A k \in Keys : Cardinality({i \in DOMAIN ds.cl[c].keys : ds.cl[c].keys[i] = k})
                     = Cardinality({i \in DOMAIN ds.waits[k] : ds.waits[k][i] = c})
  /\ \A k \in Range(ds.cl[c].keys) : ds.flags[k] \cap {"load", "loading"} # {}
  /\ Contains(ds.ready, c) <=> ds.cl[c].op # "none" /\ ds.cl[c].keys = <<>>
IoSound == FlagsExact /\ WaitersServed
(* A value in memory with nothing scheduled or in flight is the value on disk,  *)
(* so that taking it out of memory to make room, or a crash, loses nothing.     *)
CleanOnDisk == Live => \A k \in Keys :
  ds.mem[k] # Absent /\ ds.flags[k] \cap {"save", "saving"} = {} /\ k \notin ds.unsaved
    => ds.disk[k] = ds.mem[k]
(* The file of a finished BGSAVE is the dataset at the moment it began.         *)
SnapshotExact == Live /\ ds.bg.state = "ok" /\ ~ds.raced =>
  \A k \in DOMAIN ds.bg.at : ds.bg.got[k] = ds.bg.at[k]
(* A client that waits for a key runs its command in the end, unless the main   *)
(* thread is caught in cacheForcePointInTime.                                   *)
Stuck == ds.pc \in {"top", "active"}
Resumed == \A c \in Clients : (ds.cl[c] # Idle) ~> (ds.cl[c] = Idle \/ Stuck \/ ~Live)
=============================================================================
