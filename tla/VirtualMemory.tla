--------------------------- MODULE VirtualMemory ---------------------------
(* The virtual memory of redis-2.2.107 (vm.c): values that are not needed go   *)
(* to pages of a swap file, and come back when a command looks them up. With   *)
(* vm-max-threads 0 the server does this itself; otherwise I/O threads do it,  *)
(* and a client whose keys are on disk waits until they are back.              *)
(*   mix      the commands, keys, values, clients and saves of this behaviour, *)
(*            and its I/O threads: at most vm-max-threads, none for blocking   *)
(*   db       the entry of each key: none, in memory, or a pointer to pages;   *)
(*            "swapping" and "loading" while a job for it is under way         *)
(*   job      the jobs by their address: the list they are in (at: io_newjobs, *)
(*            io_processing or io_processed) and the place in it               *)
(*   thr      where each I/O thread is, and its job                            *)
(*   pipe     bytes in the pipe through which a thread wakes the main thread   *)
(*   used     the bitmap of the pages; disk: what they hold                    *)
(*   wait     the keys each client waits for; ready: io_ready_clients;         *)
(*            want: the command of a client with REDIS_IO_WAIT                 *)
(*   pc       where the main thread is: loading the dataset, in the event      *)
(*            loop, resuming clients, or in waitEmptyIOJobsQueue for a save    *)
(*   child    the saving children and the dataset they were forked with        *)
(*   truth    what the commands so far make of the keys: a ghost               *)
(* The object of a job is the one its key has: a key never changes its object  *)
(* without cancelling the job. A file position can always be sought.           *)
EXTENDS Integers, FiniteSets
CONSTANTS Keys, Clients, Threads,
          JobIds,     \* addresses of jobs; bounds how many exist at a time
          Vals, NoVal,
          Size,       \* the pages each value takes
          NPages,     \* vm-pages
          Mixes       \* what is tried together: see mix
VARIABLES mix, db, job, thr, pipe, used, disk, wait, ready, want, pc, child, truth
vars == <<mix, db, job, thr, pipe, used, disk, wait, ready, want, pc, child, truth>>
ASSUME VmAssumption ==
  /\ Size \in [Vals -> Nat \ {0}] /\ NPages \in Nat /\ NoVal \notin Vals
  /\ \A x \in Mixes : x.keys \subseteq Keys /\ x.vals \subseteq Vals

Pages == 0 .. NPages - 1
Run(p, n) == p .. p + n - 1
Kinds == {"rdb", "aof"}
Missing == [st |-> "none", val |-> NoVal, page |-> 0, len |-> 0]
InMemory(v) == [st |-> "memory", val |-> v, page |-> 0, len |-> 0]
Swapping(v) == [st |-> "swapping", val |-> v, page |-> 0, len |-> 0]
Pointer(st, p, n) == [st |-> st, val |-> NoVal, page |-> p, len |-> n]
OnDisk(e) == e.st \in {"swapped", "loading"}
Moving(e) == e.st \in {"swapping", "loading"}
NoJob == [at |-> "free", pos |-> 0, type |-> "none", key |-> 0, page |-> 0, len |-> 0,
          val |-> NoVal, canceled |-> FALSE]
Off == [pc |-> "off", job |-> 0]
Idle == [pc |-> "idle", job |-> 0]
NoCommand == [op |-> "none", keys |-> {}, val |-> NoVal]
NoChild == [on |-> FALSE, db |-> <<>>, truth |-> <<>>]

(********************************** the pages ********************************)
(* vmFindContiguousPages: some free run of n pages. Where the search starts,   *)
(* and where it jumps when it finds no room, is left to chance; it may also    *)
(* find none.                                                                  *)
FreeRuns(u, n) == {p \in Pages : Run(p, n) \subseteq Pages \ u}
FreeRunsUnchecked(u, n) == {p \in Pages : Run(p, n) \subseteq Pages}
VmFindContiguousPages(u, n) == FreeRuns(u, n)
VmWriteObjectOnSwap(v, p) ==
  [q \in Pages |-> IF q \in Run(p, Size[v]) THEN v ELSE disk[q]]
VmReadObjectFromSwap(p, n) ==
  IF \A q \in Run(p, n) : disk[q] = disk[p] THEN disk[p] ELSE NoVal
Value(e) == IF OnDisk(e) THEN VmReadObjectFromSwap(e.page, e.len) ELSE e.val

(*********************************** the jobs ********************************)
Listed(at) == {n \in JobIds : job[n].at = at}
IsFirst(n, at) == n \in Listed(at) /\ \A m \in Listed(at) : job[n].pos <= job[m].pos
JobOf(k) == {n \in JobIds : job[n].at # "free" /\ ~job[n].canceled /\ job[n].key = k}
JobsOf(K) == UNION {JobOf(k) : k \in {k \in K : Moving(db[k])}}
Move(j, at, pos) ==
  [at |-> at, pos |-> pos, type |-> j.type, key |-> j.key, page |-> j.page, len |-> j.len,
   val |-> j.val, canceled |-> j.canceled]
(* A job that stays in its list when those of R leave it.                      *)
Stay(n, R) ==
  Move(job[n], job[n].at, Cardinality({m \in Listed(job[n].at) \ R : job[m].pos <= job[n].pos}))
Last(at) == Cardinality(Listed(at)) + 1
(* vmCancelThreadedIOJob for the keys of K that are moving: it waits for a     *)
(* thread to be done with the job, takes a new job out of its list, and marks  *)
(* a processed one.                                                            *)
Cancelable(K) == \A n \in JobsOf(K) : job[n].at # "busy"
MarkCanceledNot(j) == j
MarkCanceled(j) ==
  [at |-> j.at, pos |-> j.pos, type |-> j.type, key |-> j.key, page |-> j.page, len |-> j.len,
   val |-> j.val, canceled |-> TRUE]
CanceledPages(K) == UNION {Run(job[n].page, job[n].len) :
                           n \in {m \in JobsOf(K) : job[m].type = "swap"}}
KeyPages(K) == UNION {Run(db[k].page, db[k].len) : k \in {k \in K : OnDisk(db[k])}}
(* queueIOJob for the keys of L, f giving the addresses of the new jobs; those *)
(* of gone are freed and those of marked cancelled before.                     *)
(* The lowest addresses are taken first.                                       *)
Addresses(L) ==
  {f \in [L -> Listed("free")] :
     /\ \A k, m \in L : f[k] = f[m] => k = m
     /\ \A n \in Listed("free") : (\E k \in L : n < f[k]) => \E k \in L : f[k] = n}
NewJob(type, k, pos) ==
  [at |-> "new", pos |-> pos, type |-> type, key |-> k, page |-> db[k].page, len |-> db[k].len,
   val |-> db[k].val, canceled |-> FALSE]
JobsAfter(gone, marked, L, f, type) ==
  LET Place(k) == Cardinality(Listed("new") \ gone) + Cardinality({m \in L : f[m] <= f[k]})
  IN job' = [n \in JobIds |->
               IF \E k \in L : f[k] = n
               THEN LET k == CHOOSE x \in L : f[x] = n IN NewJob(type, k, Place(k))
               ELSE IF n \in gone THEN NoJob
               ELSE IF n \in marked THEN MarkCanceled(job[n])
               ELSE Stay(n, gone)]
CancelNew(K) == JobsOf(K) \cap Listed("new")
CancelDone(K) == JobsOf(K) \ Listed("new")
SpawnIOThread(n) ==
  \E S \in SUBSET {t \in mix.pool : thr[t].pc = "off"} :
    /\ Cardinality(S) = n \/ (Cardinality(S) < n /\ \A t \in mix.pool \ S : thr[t].pc # "off")
    /\ thr' = [t \in Threads |-> IF t \in S THEN Idle ELSE thr[t]]

(************************************ clients ********************************)
(* handleClientsBlockedOnSwappedKey for the keys of K, while the clients of R  *)
(* leave io_ready_clients.                                                     *)
HandleClientsBlocked(K, R) ==
  /\ wait' = [c \in Clients |-> wait[c] \ K]
  /\ ready' = (ready \ R) \cup {c \in Clients : wait[c] \cap K # {} /\ wait[c] \subseteq K}
Home(k) == IF db[k].st = "none" THEN Missing ELSE InMemory(Value(db[k]))
Loading(K) == {k \in K : db[k].st = "loading"}
(* lookupKey for every key of K: what is being swapped out stays, what is on   *)
(* disk is read at once. dbReplace, dbDelete and dictEmpty drop the old value. *)
LookupKeys(K) == db' = [k \in Keys |-> IF k \in K THEN Home(k) ELSE db[k]] /\ UNCHANGED truth
Replace(K, e, v) ==
  /\ db' = [k \in Keys |-> IF k \in K THEN e ELSE db[k]]
  /\ truth' = [k \in Keys |-> IF k \in K THEN v ELSE truth[k]]
(* A command with its keys: "get" reads them, as "sort" does without being     *)
(* blocked first; "write" changes them in place, "set" replaces them. Only     *)
(* lookupKey and dbDelete look for waiting clients.                            *)
Commands ==
  {cmd \in [op : {"get", "sort", "write"}, keys : SUBSET mix.keys \ {{}}, val : mix.vals]
            \cup [op : {"set"}, keys : {{k} : k \in mix.keys}, val : mix.vals]
            \cup [op : {"del"}, keys : SUBSET mix.keys \ {{}}, val : {NoVal}]
            \cup [op : {"flush"}, keys : {Keys}, val : {NoVal}] : cmd.op \in mix.ops}
Woken(cmd) == CASE cmd.op \in {"get", "sort", "write"} -> Loading(cmd.keys)
                [] cmd.op = "del" -> cmd.keys
                [] OTHER -> {}
(* lookupKey and decrRefCount cancel the jobs and free the pages.              *)
Call(cmd, R) ==
  /\ Cancelable(cmd.keys)
  /\ JobsAfter(CancelNew(cmd.keys), CancelDone(cmd.keys), {}, <<>>, "none")
  /\ used' = used \ (KeyPages(cmd.keys) \cup CanceledPages(cmd.keys))
  /\ HandleClientsBlocked(Woken(cmd), R)
  /\ \/ cmd.op \in {"get", "sort"} /\ LookupKeys(cmd.keys)
     \/ cmd.op \in {"write", "set"} /\ Replace(cmd.keys, InMemory(cmd.val), cmd.val)
     \/ cmd.op \in {"del", "flush"} /\ Replace(cmd.keys, Missing, NoVal)
(* waitForSwappedKey for the keys P of a command of c, at least one of which   *)
(* is on disk: what is being swapped out is kept, the rest is loaded.          *)
Away(K) == {k \in K : OnDisk(db[k])}
Block(c, cmd, P) ==
  LET back == {k \in P : db[k].st = "swapping"}
      load == {k \in P : db[k].st = "swapped"}
  IN /\ Cancelable(back)
     /\ \E f \in Addresses(load) : JobsAfter(CancelNew(back), CancelDone(back), load, f, "load")
     /\ SpawnIOThread(Cardinality(load))
     /\ db' = [k \in Keys |-> IF k \in back THEN InMemory(db[k].val)
                              ELSE IF k \in load THEN Pointer("loading", db[k].page, db[k].len)
                              ELSE db[k]]
     /\ used' = used \ CanceledPages(back)
     /\ wait' = [wait EXCEPT ![c] = Away(P)]
     /\ want' = [want EXCEPT ![c] = cmd]
     /\ UNCHANGED <<ready, truth>>
Preloads(cmd) == IF cmd.op \in {"get", "write"} /\ mix.pool # {} THEN cmd.keys ELSE {}
Command(c) ==
  /\ pc = "loop" /\ c \in mix.clients /\ want[c] = NoCommand
  /\ \E cmd \in Commands :
       \/ Away(Preloads(cmd)) # {} /\ Block(c, cmd, Preloads(cmd))
       \/ Away(Preloads(cmd)) = {} /\ Call(cmd, {}) /\ UNCHANGED <<thr, want>>
  /\ UNCHANGED <<mix, pipe, disk, pc, child>>
(* beforeSleep: every client whose keys are back runs its command.             *)
BeforeSleep == pc = "loop" /\ ready # {} /\ pc' = "resume"
  /\ UNCHANGED <<mix, db, job, thr, pipe, used, disk, wait, ready, want, child, truth>>
Resume(c) ==
  /\ pc = "resume" /\ c \in ready
  /\ Call(want[c], {c})
  /\ want' = [want EXCEPT ![c] = NoCommand]
  /\ UNCHANGED <<mix, thr, pipe, disk, pc, child>>
Slept == pc = "resume" /\ ready = {} /\ pc' = "loop"
  /\ UNCHANGED <<mix, db, job, thr, pipe, used, disk, wait, ready, want, child, truth>>
FreeClient(c) ==
  /\ pc = "loop" /\ want[c] # NoCommand
  /\ wait' = [wait EXCEPT ![c] = {}]
  /\ ready' = ready \ {c}
  /\ want' = [want EXCEPT ![c] = NoCommand]
  /\ UNCHANGED <<mix, db, job, thr, pipe, used, disk, pc, child, truth>>

(*********************************** swapping ********************************)
VmCanSwapOutAof == ~child["aof"].on
VmCanSwapOut == \A x \in Kinds : ~child[x].on
InRam == {k \in Keys : db[k].st = "memory"}
(* vmSwapObjectBlocking for the keys of L, pg giving their pages.              *)
SwapBlocking(L, pg, base) ==
  /\ \A k \in L : base[k].st = "memory"
  /\ \A k \in L : pg[k] \in VmFindContiguousPages(used, Size[base[k].val])
  /\ \A k, m \in L : k # m => Run(pg[k], Size[base[k].val]) \cap Run(pg[m], Size[base[m].val]) = {}
  /\ db' = [k \in Keys |-> IF k \in L THEN Pointer("swapped", pg[k], Size[base[k].val]) ELSE base[k]]
  /\ used' = used \cup UNION {Run(pg[k], Size[base[k].val]) : k \in L}
  /\ disk' = [q \in Pages |-> IF \E k \in L : q \in Run(pg[k], Size[base[k].val])
                              THEN base[CHOOSE k \in L : q \in Run(pg[k], Size[base[k].val])].val
                              ELSE disk[q]]
(* rdbLoad and loadAppendOnlyFile: a key comes, and values go to disk while    *)
(* memory is short.                                                            *)
LoadKey ==
  /\ pc = "load"
  /\ \E k \in mix.keys, v \in mix.vals : \E L \in SUBSET mix.keys : \E pg \in [L -> Pages] :
       /\ db[k].st = "none"
       /\ SwapBlocking(L, pg, [db EXCEPT ![k] = InMemory(v)])
       /\ truth' = [truth EXCEPT ![k] = v]
  /\ UNCHANGED <<mix, job, thr, pipe, wait, ready, want, pc, child>>
LoadDone == pc = "load" /\ pc' = "loop"
  /\ UNCHANGED <<mix, db, job, thr, pipe, used, disk, wait, ready, want, child, truth>>
(* serverCron when the dataset is too large: without threads it swaps out      *)
(* until it fits, with threads it starts with one value.                       *)
CronBlocking ==
  /\ pc = "loop" /\ VmCanSwapOut /\ mix.pool = {}
  /\ \E L \in SUBSET InRam \ {{}} : \E pg \in [L -> Pages] : SwapBlocking(L, pg, db)
  /\ UNCHANGED <<mix, job, thr, pipe, wait, ready, want, pc, child, truth>>
CronThreaded ==
  /\ pc = "loop" /\ VmCanSwapOut /\ mix.pool # {}
  /\ \E k \in InRam : \E f \in Addresses({k}) :
       /\ db' = [db EXCEPT ![k] = Swapping(db[k].val)]
       /\ JobsAfter({}, {}, {k}, f, "prepare")
  /\ SpawnIOThread(1)
  /\ UNCHANGED <<mix, pipe, used, disk, wait, ready, want, pc, child, truth>>

(******************************* finished jobs *******************************)
(* vmThreadedIOCompletedJob takes one job (1% of them, but at least one). In   *)
(* waitEmptyIOJobsQueue it does not swap out more.                             *)
Waiting == pc \in {"save"} \cup Kinds
Completed(n) ==
  /\ pc = "loop" \/ Waiting
  /\ pipe > 0 /\ pipe' = pipe - 1 /\ IsFirst(n, "done")
  /\ UNCHANGED <<mix, disk, want, pc, child, truth>>
CompletedCanceled(n) ==
  /\ Completed(n) /\ job[n].canceled
  /\ JobsAfter({n}, {}, {}, <<>>, "none")
  /\ UNCHANGED <<db, thr, used, wait, ready>>
CompletedLoad(n) ==
  LET k == job[n].key
  IN /\ Completed(n) /\ ~job[n].canceled /\ job[n].type = "load"
     /\ used' = used \ Run(db[k].page, db[k].len)
     /\ db' = [db EXCEPT ![k] = InMemory(job[n].val)]
     /\ HandleClientsBlocked({k}, {})
     /\ JobsAfter({n}, {}, {}, <<>>, "none")
     /\ UNCHANGED thr
CompletedPrepare(n) ==
  LET k == job[n].key
      j == job[n]
  IN /\ Completed(n) /\ ~j.canceled /\ j.type = "prepare"
     /\ \/ /\ db' = [db EXCEPT ![k] = InMemory(db[k].val)]
           /\ JobsAfter({n}, {}, {}, <<>>, "none")
           /\ UNCHANGED <<thr, used>>
        \/ /\ VmCanSwapOut
           /\ \E p \in VmFindContiguousPages(used, j.len) :
                /\ used' = used \cup Run(p, j.len)
                /\ job' = [m \in JobIds |->
                            IF m = n
                            THEN [at |-> "new", pos |-> Last("new"), type |-> "swap", key |-> k,
                                  page |-> p, len |-> j.len, val |-> j.val, canceled |-> FALSE]
                            ELSE Stay(m, {n})]
           /\ SpawnIOThread(1)
           /\ UNCHANGED db
     /\ UNCHANGED <<wait, ready>>
(* A value is out; while memory is short more are sent after it.               *)
CompletedSwap(n) ==
  LET k == job[n].key
  IN /\ Completed(n) /\ ~job[n].canceled /\ job[n].type = "swap"
     /\ \E L \in IF pc = "loop" /\ VmCanSwapOut THEN SUBSET InRam ELSE {{}} :
          /\ \E f \in Addresses(L) : JobsAfter({n}, {}, L, f, "prepare")
          /\ SpawnIOThread(Cardinality(L))
          /\ db' = [m \in Keys |-> IF m = k THEN Pointer("swapped", job[n].page, job[n].len)
                                   ELSE IF m \in L THEN Swapping(db[m].val) ELSE db[m]]
     /\ UNCHANGED <<used, wait, ready>>

(********************************** I/O threads ******************************)
Step(t, from, to) == thr[t].pc = from /\ thr' = [thr EXCEPT ![t] = to]
Take(t) ==
  /\ \E n \in JobIds :
       /\ IsFirst(n, "new")
       /\ Step(t, "idle", [pc |-> "work", job |-> n])
       /\ job' = [m \in JobIds |-> IF m = n THEN Move(job[n], "busy", 0) ELSE Stay(m, {n})]
  /\ UNCHANGED <<mix, db, pipe, used, disk, wait, ready, want, pc, child, truth>>
Exit(t) ==
  /\ Listed("new") = {} /\ Step(t, "idle", Off)
  /\ UNCHANGED <<mix, db, job, pipe, used, disk, wait, ready, want, pc, child, truth>>
WithVal(j, v) ==
  [at |-> j.at, pos |-> j.pos, type |-> j.type, key |-> j.key, page |-> j.page, len |-> j.len,
   val |-> v, canceled |-> j.canceled]
WithLen(j, n) ==
  [at |-> j.at, pos |-> j.pos, type |-> j.type, key |-> j.key, page |-> j.page, len |-> n,
   val |-> j.val, canceled |-> j.canceled]
Work(t) ==
  LET n == thr[t].job
      j == job[n]
  IN /\ Step(t, "work", [pc |-> "put", job |-> n])
     /\ \/ /\ j.type = "load"
           /\ job' = [job EXCEPT ![n] = WithVal(j, VmReadObjectFromSwap(j.page, j.len))]
           /\ UNCHANGED disk
        \/ j.type = "prepare" /\ job' = [job EXCEPT ![n] = WithLen(j, Size[j.val])] /\ UNCHANGED disk
        \/ j.type = "swap" /\ disk' = VmWriteObjectOnSwap(j.val, j.page) /\ UNCHANGED job
     /\ UNCHANGED <<mix, db, pipe, used, wait, ready, want, pc, child, truth>>
PutDone(t) ==
  LET n == thr[t].job
  IN /\ Step(t, "put", [pc |-> "signal", job |-> 0])
     /\ job' = [job EXCEPT ![n] = Move(job[n], "done", Last("done"))]
     /\ UNCHANGED <<mix, db, pipe, used, disk, wait, ready, want, pc, child, truth>>
Signal(t) ==
  /\ Step(t, "signal", Idle) /\ pipe' = pipe + 1
  /\ UNCHANGED <<mix, db, job, used, disk, wait, ready, want, pc, child, truth>>

(************************************* saves *********************************)
(* SAVE, BGSAVE and BGREWRITEAOF first wait until no thread is left.           *)
StartSave(kind) ==
  /\ pc = "loop" /\ kind \in mix.saves
  /\ kind \in Kinds => ~child[kind].on
  /\ kind = "save" => ~child["rdb"].on
  /\ pc' = kind
  /\ UNCHANGED <<mix, db, job, thr, pipe, used, disk, wait, ready, want, child, truth>>
WaitEmptyIOJobsQueue ==
  Listed("new") = {} /\ Listed("busy") = {} /\ \A t \in Threads : thr[t].pc = "off"
Fork(kind) ==
  /\ pc = kind /\ WaitEmptyIOJobsQueue
  /\ pc' = "loop"
  /\ child' = [child EXCEPT ![kind] = [on |-> TRUE, db |-> db, truth |-> truth]]
  /\ UNCHANGED <<mix, db, job, thr, pipe, used, disk, wait, ready, want, truth>>
(* The foreground save reads every value now; a fork may fail.                 *)
SaveEnds ==
  /\ Waiting /\ WaitEmptyIOJobsQueue
  /\ pc' = "loop"
  /\ UNCHANGED <<mix, db, job, thr, pipe, used, disk, wait, ready, want, child, truth>>
ChildExit(kind) ==
  /\ pc = "loop" /\ child[kind].on
  /\ child' = [child EXCEPT ![kind] = NoChild]
  /\ UNCHANGED <<mix, db, job, thr, pipe, used, disk, wait, ready, want, pc, truth>>

Init ==
  /\ db = [k \in Keys |-> Missing] /\ job = [n \in JobIds |-> NoJob]
  /\ mix \in Mixes /\ thr = [t \in Threads |-> Off] /\ pipe = 0
  /\ used = {} /\ disk = [q \in Pages |-> NoVal]
  /\ wait = [c \in Clients |-> {}] /\ ready = {} /\ want = [c \in Clients |-> NoCommand]
  /\ pc = "load" /\ child = [x \in Kinds |-> NoChild] /\ truth = [k \in Keys |-> NoVal]
Finish == \E n \in JobIds :
  CompletedCanceled(n) \/ CompletedLoad(n) \/ CompletedPrepare(n) \/ CompletedSwap(n)
ThreadStep(t) == Take(t) \/ Exit(t) \/ Work(t) \/ PutDone(t) \/ Signal(t)
Next ==
  \/ LoadKey \/ LoadDone \/ CronBlocking \/ CronThreaded
  \/ \E c \in Clients : Command(c) \/ Resume(c) \/ FreeClient(c)
  \/ BeforeSleep \/ Slept \/ Finish
  \/ \E t \in Threads : ThreadStep(t)
  \/ \E kind \in Kinds \cup {"save"} : StartSave(kind)
  \/ \E kind \in Kinds : Fork(kind) \/ ChildExit(kind)
  \/ SaveEnds
Spec == Init /\ [][Next]_vars
(* Fairness, stated as what nobody does: stay forever at a step that can be    *)
(* taken. Threads run; the event loop comes round, takes the first finished    *)
(* job, resumes the clients that are ready, and a save is done when all        *)
(* threads are gone.                                                           *)
Fairness ==
  /\ \A t \in Threads, p \in {"idle", "work", "put", "signal"} : []<>(thr[t].pc # p)
  /\ \A n \in JobIds : []<>(pipe = 0 \/ ~IsFirst(n, "done"))
  /\ \A c \in Clients : []<>(c \notin ready)
  /\ \A p \in Kinds \cup {"save", "resume"} : []<>(pc # p)

(********************************* properties ********************************)
(* Every page of the bitmap belongs to one value on disk or to one job that    *)
(* writes there, and to no other: vmMarkPageUsed and vmMarkPageFree find what  *)
(* they assert, and no value is overwritten.                                   *)
Stored == {k \in Keys : OnDisk(db[k])}
Live(n) == job[n].at # "free" /\ ~job[n].canceled
Writers == {n \in JobIds : Live(n) /\ job[n].type = "swap"}
KeyRun(k) == Run(db[k].page, db[k].len)
JobRun(n) == Run(job[n].page, job[n].len)
PagesExact ==
  /\ used = (UNION {KeyRun(k) : k \in Stored}) \cup (UNION {JobRun(n) : n \in Writers})
  /\ \A k, m \in Stored : k # m => KeyRun(k) \cap KeyRun(m) = {}
  /\ \A n, m \in Writers : n # m => JobRun(n) \cap JobRun(m) = {}
  /\ \A k \in Stored, n \in Writers : KeyRun(k) \cap JobRun(n) = {}
  /\ used \subseteq Pages
(* A key is marked as moving exactly while one job for it is in a list and not *)
(* cancelled: a job that is done finds its key, a key that is moving finds its *)
(* job, and every byte in the pipe stands for a processed job.                 *)
JobsMatch ==
  /\ \A k \in Keys : /\ Moving(db[k]) <=> JobOf(k) # {}
                     /\ \A n \in JobOf(k) : /\ JobOf(k) = {n}
                                             /\ job[n].type = "load" <=> db[k].st = "loading"
  /\ pipe + Cardinality({t \in Threads : thr[t].pc = "signal"}) = Cardinality(Listed("done"))
(* Whatever is moved, cancelled and moved again, the value of every key, in    *)
(* memory or on disk, is the one the commands gave it.                         *)
Invisible == \A k \in Keys : Value(db[k]) = truth[k]
(* A saving child finds in the swap file what was there when it was forked.    *)
SnapshotStable == \A x \in Kinds : child[x].on =>
  \A k \in Keys : Value(child[x].db[k]) = child[x].truth[k]

(***************************** the inductive invariant ***********************)
(* What the properties rest on, as the steps keep it.                          *)
Holds(p, n, v) == \A q \in Run(p, n) : disk[q] = v
(* An entry is the value v, in memory or on its pages.                         *)
Stands(e, v) ==
  IF OnDisk(e) THEN v \in Vals /\ e.page \in Run(e.page, e.len) /\ Holds(e.page, e.len, v)
  ELSE e.val = v
Entries ==
  {e \in [st : {"none", "memory", "swapping", "swapped", "loading"},
          val : Vals \cup {NoVal}, page : Nat, len : Nat] :
     /\ e.st \in {"memory", "swapping"} => e.val \in Vals
     /\ e.st \in {"none", "swapped", "loading"} => e.val = NoVal}
TypeInv ==
  /\ db \in [Keys -> Entries]
  /\ DOMAIN job = JobIds
  /\ thr \in [Threads -> [pc : {"off", "idle", "work", "put", "signal"}, job : JobIds \cup {0}]]
  /\ disk \in [Pages -> Vals \cup {NoVal}] /\ used \subseteq Pages
  /\ truth \in [Keys -> Vals \cup {NoVal}]
  /\ DOMAIN child = Kinds /\ mix \in Mixes
(* A command that waits reads or writes some keys.                             *)
WantSound ==
  /\ DOMAIN want = Clients
  /\ \A c \in Clients : want[c] # NoCommand =>
       want[c].op \in {"get", "write"} /\ want[c].keys \subseteq Keys /\ want[c].val \in Vals
(* What a job that is not cancelled knows of its key.                          *)
JobSound(n) ==
  LET j == job[n]
      k == j.key
  IN /\ j.canceled => j.at = "done"
     /\ j.canceled \in BOOLEAN /\ j.at \in {"free", "new", "busy", "done"}
     /\ Live(n) =>
          /\ k \in Keys /\ j.type \in {"load", "prepare", "swap"}
          /\ j.type = "load" => db[k].st = "loading" /\ j.page = db[k].page /\ j.len = db[k].len
          /\ j.type \in {"prepare", "swap"} => db[k].st = "swapping" /\ j.val = db[k].val
          /\ j.type = "swap" => j.page \in Pages /\ j.len = Size[j.val]
(* What it has done once the thread is through with it.                        *)
JobDone(n) ==
  LET j == job[n]
  IN /\ j.type = "load" => j.val = truth[j.key]
     /\ j.type = "prepare" => j.len = Size[j.val]
     /\ j.type = "swap" => Holds(j.page, j.len, j.val)
ThreadSound(t) ==
  thr[t].pc \in {"work", "put"} =>
    /\ thr[t].job \in JobIds /\ job[thr[t].job].at = "busy"
    /\ thr[t].pc = "put" => JobDone(thr[t].job)
JobsSound == \A n \in JobIds : JobSound(n) /\ (Live(n) /\ job[n].at = "done" => JobDone(n))
OneJob == \A n, m \in JobIds : Live(n) /\ Live(m) /\ job[n].key = job[m].key => n = m
HasJob == \A k \in Keys : Moving(db[k]) => \E n \in JobIds : Live(n) /\ job[n].key = k
ThreadsSound == \A t \in Threads : ThreadSound(t)
OneThread == \A t, u \in Threads :
  thr[t].pc \in {"work", "put"} /\ thr[u].pc \in {"work", "put"} /\ thr[t].job = thr[u].job => t = u
AllStand == \A k \in Keys : Stands(db[k], truth[k])
LoadFirst == pc = "load" => VmCanSwapOut
ChildrenSound == \A x \in Kinds : child[x].on =>
  /\ \A k \in Keys : Stands(child[x].db[k], child[x].truth[k])
  /\ \A n \in Writers : job[n].at = "done"
VmInv ==
  /\ TypeInv /\ WantSound /\ PagesExact /\ JobsSound /\ OneJob /\ HasJob /\ ThreadsSound /\ OneThread
  /\ AllStand /\ LoadFirst /\ ChildrenSound
=============================================================================
