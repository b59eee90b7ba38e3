--------------------------- MODULE VmChangeProofs ---------------------------
(* What commands and finished jobs do to the invariant VmInv of VirtualMemory: *)
(* keys leave the hands of the threads or are given to them, and the pages,    *)
(* the jobs and the values of the other keys are as before.                    *)
EXTENDS VirtualMemory, TLAPS

Fields(j, i) == /\ j.at = i.at /\ j.type = i.type /\ j.key = i.key /\ j.page = i.page
                /\ j.len = i.len /\ j.val = i.val /\ j.canceled = i.canceled
Working(t) == thr[t].pc \in {"work", "put"}

LEMMA RunHead ==
  ASSUME NEW p \in Nat, NEW n \in Nat, n # 0 PROVE p \in Run(p, n)
BY DEF Run

LEMMA EntryMade ==
  /\ Missing \in Entries
  /\ \A v \in Vals : InMemory(v) \in Entries /\ Swapping(v) \in Entries
  /\ \A p, n \in Nat : Pointer("swapped", p, n) \in Entries /\ Pointer("loading", p, n) \in Entries
BY DEF Entries, Missing, InMemory, Swapping, Pointer

LEMMA PointerFields ==
  ASSUME NEW st, NEW p, NEW n
  PROVE  /\ Pointer(st, p, n).st = st /\ Pointer(st, p, n).val = NoVal
         /\ Pointer(st, p, n).page = p /\ Pointer(st, p, n).len = n
BY DEF Pointer

LEMMA MemoryFields ==
  ASSUME NEW v PROVE InMemory(v).st = "memory" /\ InMemory(v).val = v
BY DEF InMemory

LEMMA MoveFields ==
  ASSUME NEW j, NEW pos PROVE Fields(Move(j, j.at, pos), j)
BY DEF Move, Fields

LEMMA EntryFields ==
  ASSUME NEW e \in Entries
  PROVE  /\ e.st \in {"none", "memory", "swapping", "swapped", "loading"}
         /\ e.page \in Nat /\ e.len \in Nat /\ e.val \in Vals \cup {NoVal}
         /\ e.st \in {"memory", "swapping"} => e.val \in Vals
         /\ e.st \in {"none", "swapped", "loading"} => e.val = NoVal
BY DEF Entries

(* Jobs of the keys of K end, keys of L begin to move with the jobs f.         *)
ChangeKeys(K, L) ==
  /\ \A k \in Keys : k \notin K /\ k \notin L => db'[k] = db[k] /\ truth'[k] = truth[k]
  /\ \A k \in K : ~Moving(db'[k]) /\ Stands(db[k], truth[k])'
  /\ \A k \in L : /\ k \notin K /\ ~Moving(db[k]) /\ truth'[k] = truth[k]
                  /\ db'[k].val = db[k].val
                  /\ \/ /\ db[k].st = "swapped" /\ db'[k].st = "loading"
                        /\ db'[k].page = db[k].page /\ db'[k].len = db[k].len
                     \/ db[k].st = "memory" /\ db'[k].st = "swapping"
Begun(n, k) ==
  /\ job[n].at = "free" /\ job'[n].at = "new" /\ job'[n].canceled = FALSE /\ job'[n].key = k
  /\ job'[n].page = db[k].page /\ job'[n].len = db[k].len /\ job'[n].val = db[k].val
  /\ job'[n].type = IF db'[k].st = "loading" THEN "load" ELSE "prepare"
ChangeJobs(K, L, f) ==
  /\ \A k \in L : f[k] \in JobIds
  /\ \A k, m \in L : f[k] = f[m] => k = m
  /\ \A k \in L : Begun(f[k], k)
  /\ \A n \in JobIds : (\A k \in L : f[k] # n) =>
       /\ job'[n].canceled => job'[n].at = "done"
       /\ job'[n].canceled \in BOOLEAN /\ job'[n].at \in {"free", "new", "busy", "done"}
       /\ Live(n)' <=> (Live(n) /\ job[n].key \notin K)
       /\ Live(n)' => Fields(job'[n], job[n])
       /\ job[n].at = "busy" => job'[n].at = "busy" /\ Live(n)'
(* The addresses of the jobs that begin, and the jobs that end.                *)
Opens(L, f, type) ==
  /\ \A k \in L : f[k] \in JobIds /\ job[f[k]].at = "free"
  /\ \A k, m \in L : f[k] = f[m] => k = m
  /\ \A k \in L : type = IF db'[k].st = "loading" THEN "load" ELSE "prepare"
Ends(K, gone, marked) ==
  /\ gone \subseteq JobIds /\ marked \subseteq JobIds
  /\ \A n \in gone : job[n].at # "busy"
  /\ \A n \in marked : job[n].at = "done"
  /\ \A n \in JobIds : Live(n) => (job[n].key \in K <=> n \in gone \/ n \in marked)
ChangeThreads ==
  \A t \in Threads : thr'[t] = thr[t] \/ (thr[t].pc = "off" /\ thr'[t].pc = "idle")

LEMMA ChangeKeeps ==
  ASSUME VmInv, NEW K \in SUBSET Keys, NEW L \in SUBSET Keys, NEW f,
         ChangeKeys(K, L), ChangeJobs(K, L, f), ChangeThreads, disk' = disk, child' = child,
         DOMAIN thr' = Threads
  PROVE  JobsSound' /\ OneJob' /\ HasJob' /\ ThreadsSound' /\ OneThread' /\ AllStand'
         /\ ChildrenSound'
<1> USE DEF VmInv
<1>1. \A n \in JobIds : Live(n)' =>
        \/ /\ Live(n) /\ job[n].key \notin K /\ Fields(job'[n], job[n])
           /\ \A k \in L : f[k] # n
        \/ \E k \in L : f[k] = n /\ Begun(n, k)
  BY DEF ChangeJobs
<1>2. \A n \in JobIds : Live(n) => job[n].key \notin L
  BY DEF JobsSound, JobSound, ChangeKeys, Moving
<1>3. \A n \in JobIds : Live(n) /\ job[n].key \notin K =>
        job[n].key \in Keys /\ db'[job[n].key] = db[job[n].key] /\ truth'[job[n].key] = truth[job[n].key]
  BY <1>2 DEF JobsSound, JobSound, ChangeKeys
<1>31. \A n \in JobIds : Live(n)' =>
         /\ job'[n].key \in L => f[job'[n].key] = n
         /\ job'[n].key \notin L => Live(n) /\ job'[n].key = job[n].key
  BY <1>1, <1>2 DEF Begun, Fields
<1>4. OneJob'
  <2> SUFFICES ASSUME NEW n \in JobIds, NEW m \in JobIds, Live(n)', Live(m)', job'[n].key = job'[m].key
               PROVE  n = m
    BY DEF OneJob
  <2> QED BY <1>31 DEF OneJob
<1>5. JobsSound'
  <2> SUFFICES ASSUME NEW n \in JobIds PROVE JobSound(n)' /\ (Live(n) /\ job[n].at = "done" => JobDone(n))'
    BY DEF JobsSound
  <2>1. CASE \E k \in L : f[k] = n /\ Begun(n, k)
    <3> PICK k \in L : f[k] = n /\ Begun(n, k) BY <2>1
    <3>1. /\ k \in Keys /\ db[k].st \in {"swapped", "memory"} /\ db'[k].st \in {"loading", "swapping"}
          /\ db'[k].val = db[k].val
          /\ db'[k].st = "loading" => db'[k].page = db[k].page /\ db'[k].len = db[k].len
      BY DEF ChangeKeys
    <3> QED BY <3>1 DEF Begun, JobSound, Live
  <2>2. CASE \A k \in L : f[k] # n
    <3>1. /\ job'[n].canceled => job'[n].at = "done"
          /\ job'[n].canceled \in BOOLEAN /\ job'[n].at \in {"free", "new", "busy", "done"}
      BY <2>2 DEF ChangeJobs
    <3>2. Live(n)' => /\ Live(n) /\ job[n].key \notin K /\ Fields(job'[n], job[n])
                      /\ db'[job[n].key] = db[job[n].key] /\ truth'[job[n].key] = truth[job[n].key]
      BY <1>1, <1>3, <2>2
    <3>3. JobSound(n) /\ (Live(n) /\ job[n].at = "done" => JobDone(n))
      BY DEF JobsSound
    <3>4. JobSound(n)'
      BY <3>1, <3>2, <3>3 DEF JobSound, Fields, Live
    <3>5. ASSUME Live(n)', job'[n].at = "done" PROVE JobDone(n)'
      BY <3>2, <3>3, <3>5 DEF JobDone, Fields, Live, Holds
    <3> QED BY <3>4, <3>5
  <2> QED BY <2>1, <2>2 DEF ChangeJobs
<1>6. HasJob'
  <2> SUFFICES ASSUME NEW k \in Keys, Moving(db'[k]) PROVE \E n \in JobIds : Live(n)' /\ job'[n].key = k
    BY DEF HasJob
  <2>1. CASE k \in L
    BY <2>1 DEF ChangeJobs, Begun, Live
  <2>2. CASE k \notin L
    <3>1. k \notin K /\ db'[k] = db[k]
      BY <2>2 DEF ChangeKeys
    <3>2. PICK n \in JobIds : Live(n) /\ job[n].key = k
      BY <3>1 DEF HasJob
    <3>3. \A m \in L : f[m] # n
      BY <3>2 DEF ChangeJobs, Begun, Live
    <3> QED BY <3>1, <3>2, <3>3 DEF ChangeJobs, Fields
  <2> QED BY <2>1, <2>2
<1>7. \A t \in Threads : Working(t)' => Working(t) /\ thr'[t] = thr[t]
  BY DEF ChangeThreads, Working
<1>8. ThreadsSound'
  <2> SUFFICES ASSUME NEW t \in Threads, Working(t)' PROVE ThreadSound(t)'
    BY DEF ThreadsSound, ThreadSound, Working
  <2>1. Working(t) /\ thr'[t] = thr[t] BY <1>7
  <2> PICK n : n = thr[t].job BY Zenon
  <2>2. n \in JobIds /\ job[n].at = "busy" /\ (thr[t].pc = "put" => JobDone(n))
    BY <2>1 DEF ThreadsSound, ThreadSound, Working
  <2>3. \A k \in L : f[k] # n
    BY <2>2 DEF ChangeJobs, Begun
  <2>4. job'[n].at = "busy" /\ Live(n)' /\ Live(n) /\ job[n].key \notin K /\ Fields(job'[n], job[n])
    BY <2>2, <2>3 DEF ChangeJobs
  <2>5. truth'[job[n].key] = truth[job[n].key]
    BY <1>3, <2>2, <2>4
  <2>6. thr[t].pc = "put" => JobDone(n)'
    BY <2>2, <2>4, <2>5 DEF JobDone, Fields, Holds
  <2> QED BY <2>1, <2>2, <2>4, <2>6 DEF ThreadSound
<1>9. OneThread'
  BY <1>7 DEF OneThread, Working
<1>10. AllStand'
  <2> SUFFICES ASSUME NEW k \in Keys PROVE Stands(db[k], truth[k])'
    BY DEF AllStand
  <2>1. CASE k \in K BY <2>1 DEF ChangeKeys
  <2>2. CASE k \in L
    BY <2>2 DEF ChangeKeys, AllStand, Stands, OnDisk, Holds
  <2>3. CASE k \notin K /\ k \notin L
    BY <2>3 DEF ChangeKeys, AllStand, Stands, OnDisk, Holds
  <2> QED BY <2>1, <2>2, <2>3
<1>11. ChildrenSound'
  <2> SUFFICES ASSUME NEW x \in Kinds, child[x].on
               PROVE  /\ \A k \in Keys : Stands(child[x].db[k], child[x].truth[k])'
                      /\ \A n \in Writers' : job'[n].at = "done"
    BY DEF ChildrenSound
  <2>1. \A k \in Keys : Stands(child[x].db[k], child[x].truth[k])'
    BY DEF ChildrenSound, Stands, Holds
  <2>2. \A n \in Writers' : n \in Writers /\ Fields(job'[n], job[n])
    BY <1>1 DEF Writers, Begun, Fields
  <2> QED BY <2>1, <2>2 DEF ChildrenSound, Fields
<1> QED BY <1>4, <1>5, <1>6, <1>8, <1>9, <1>10, <1>11

LEMMA JobsAfterChange ==
  ASSUME VmInv, NEW K \in SUBSET Keys, NEW L \in SUBSET Keys, NEW f, NEW type,
         NEW gone, NEW marked,
         JobsAfter(gone, marked, L, f, type), Opens(L, f, type), Ends(K, gone, marked)
  PROVE  ChangeJobs(K, L, f) /\ DOMAIN job' = JobIds
<1>1. DOMAIN job' = JobIds
  BY DEF JobsAfter
<1>2. ASSUME NEW k \in L PROVE Begun(f[k], k)
  <2>1. (CHOOSE x \in L : f[x] = f[k]) = k
    BY DEF Opens
  <2>2. \E pos : job'[f[k]] = NewJob(type, k, pos)
    BY <2>1 DEF JobsAfter, Opens
  <2> QED BY <2>2 DEF NewJob, Begun, Opens
<1>3. ASSUME NEW n \in JobIds, \A k \in L : f[k] # n
      PROVE  /\ job'[n].canceled => job'[n].at = "done"
             /\ job'[n].canceled \in BOOLEAN /\ job'[n].at \in {"free", "new", "busy", "done"}
             /\ Live(n)' <=> (Live(n) /\ job[n].key \notin K)
             /\ Live(n)' => Fields(job'[n], job[n])
             /\ job[n].at = "busy" => job'[n].at = "busy" /\ Live(n)'
  <2>1. job'[n] = IF n \in gone THEN NoJob ELSE IF n \in marked THEN MarkCanceled(job[n])
                  ELSE Stay(n, gone)
    BY <1>3 DEF JobsAfter
  <2>2. /\ job[n].canceled => job[n].at = "done"
        /\ job[n].canceled \in BOOLEAN /\ job[n].at \in {"free", "new", "busy", "done"}
    BY DEF VmInv, JobsSound, JobSound
  <2>3. CASE n \in gone
    BY <2>1, <2>2, <2>3 DEF NoJob, Live, Ends
  <2>4. CASE n \notin gone /\ n \in marked
    BY <2>1, <2>2, <2>4 DEF MarkCanceled, Live, Ends
  <2>5. CASE n \notin gone /\ n \notin marked
    <3>1. Fields(job'[n], job[n])
      BY <2>1, <2>5 DEF Stay, Move, Fields
    <3> QED BY <3>1, <2>2, <2>5 DEF Fields, Live, Ends
  <2> QED BY <2>3, <2>4, <2>5
<1> QED BY <1>1, <1>2, <1>3 DEF ChangeJobs, Opens

LEMMA ValueStands ==
  ASSUME NEW e, NEW v, Stands(e, v) PROVE Value(e) = v
BY DEF Stands, Value, VmReadObjectFromSwap, Holds

(* The pages of the keys of K and of the jobs of W are given back.             *)
LEMMA PagesReleased ==
  ASSUME PagesExact, NEW K, NEW W,
         Stored' = Stored \ K, \A k \in Stored' : KeyRun(k)' = KeyRun(k),
         Writers' = Writers \ W, \A n \in Writers' : JobRun(n)' = JobRun(n),
         used' = used \ ((UNION {KeyRun(k) : k \in Stored \cap K})
                          \cup (UNION {JobRun(n) : n \in Writers \cap W}))
  PROVE  PagesExact'
<1>1. ASSUME NEW q
      PROVE  q \in used' <=> (\E k \in Stored' : q \in KeyRun(k)') \/ (\E n \in Writers' : q \in JobRun(n)')
  BY DEF PagesExact
<1>2. used' = (UNION {KeyRun(k)' : k \in Stored'}) \cup (UNION {JobRun(n)' : n \in Writers'})
  BY <1>1
<1>3. used' \subseteq Pages
  BY DEF PagesExact
<1>4. /\ \A k, m \in Stored' : k # m => KeyRun(k)' \cap KeyRun(m)' = {}
      /\ \A n, m \in Writers' : n # m => JobRun(n)' \cap JobRun(m)' = {}
      /\ \A k \in Stored', n \in Writers' : KeyRun(k)' \cap JobRun(n)' = {}
  BY DEF PagesExact
<1> QED BY <1>2, <1>3, <1>4 DEF PagesExact, Pages

(* A step of the main thread that only releases keys and starts jobs.          *)
LEMMA ChangePages ==
  ASSUME VmInv, NEW K \in SUBSET Keys, NEW L \in SUBSET Keys, NEW f,
         ChangeKeys(K, L), ChangeJobs(K, L, f), ChangeThreads, disk' = disk, child' = child,
         DOMAIN thr' = Threads, \A k \in K : ~OnDisk(db'[k]),
         used' = used \ ((UNION {KeyRun(k) : k \in Stored \cap K})
                          \cup (UNION {JobRun(n) : n \in {m \in Writers : job[m].key \in K}}))
  PROVE  PagesExact'
<1> DEFINE W == {m \in Writers : job[m].key \in K}
<1>1. Stored' = Stored \ K
  BY DEF Stored, ChangeKeys, OnDisk
<1>2. \A k \in Stored' : KeyRun(k)' = KeyRun(k)
  BY <1>1 DEF Stored, ChangeKeys, KeyRun, OnDisk
<1>3. \A n \in JobIds : Live(n)' =>
        \/ Live(n) /\ job[n].key \notin K /\ Fields(job'[n], job[n])
        \/ \E k \in L : f[k] = n /\ Begun(n, k)
  BY DEF ChangeJobs
<1>4. \A n \in JobIds : Live(n) /\ job[n].key \notin K => Live(n)' /\ Fields(job'[n], job[n])
  BY DEF ChangeJobs, Begun, Live
<1>45. ASSUME NEW n \in JobIds
       PROVE  /\ n \in Writers' <=> n \in Writers /\ n \notin W
              /\ n \in Writers' => JobRun(n)' = JobRun(n)
  <2>1. CASE \E k \in L : f[k] = n /\ Begun(n, k)
    BY <2>1 DEF Writers, Begun, Live
  <2>2. CASE Live(n) /\ job[n].key \notin K
    <3>1. Live(n)' /\ Fields(job'[n], job[n])
      BY <1>4, <2>2
    <3> QED BY <2>2, <3>1 DEF Writers, JobRun, Fields
  <2>3. CASE ~(Live(n)') /\ ~(Live(n) /\ job[n].key \notin K)
    BY <2>3 DEF Writers
  <2> QED BY <1>3, <2>1, <2>2, <2>3
<1>5. Writers' = Writers \ W
  BY <1>45 DEF Writers
<1>6. \A n \in Writers' : JobRun(n)' = JobRun(n)
  BY <1>45 DEF Writers
<1>7. Writers \cap W = W
  OBVIOUS
<1> HIDE DEF W
<1>8. used' = used \ ((UNION {KeyRun(k) : k \in Stored \cap K})
                       \cup (UNION {JobRun(n) : n \in Writers \cap W}))
  BY <1>7 DEF W
<1> QED BY <1>1, <1>2, <1>5, <1>6, <1>8, PagesReleased DEF VmInv

LEMMA JobsOfKeys ==
  ASSUME VmInv, NEW K \in SUBSET Keys
  PROVE  /\ \A n : n \in JobsOf(K) <=> n \in JobIds /\ Live(n) /\ job[n].key \in K
         /\ CanceledPages(K) = UNION {JobRun(n) : n \in {m \in Writers : job[m].key \in K}}
         /\ KeyPages(K) = UNION {KeyRun(k) : k \in Stored \cap K}
<1>1. \A n \in JobIds : Live(n) => Moving(db[job[n].key])
  BY DEF VmInv, JobsSound, JobSound, Moving
<1>2. \A n : n \in JobsOf(K) <=> n \in JobIds /\ Live(n) /\ job[n].key \in K
  BY <1>1 DEF JobsOf, JobOf, Live
<1>3. {m \in JobsOf(K) : job[m].type = "swap"} = {m \in Writers : job[m].key \in K}
  BY <1>2 DEF Writers
<1>4. CanceledPages(K) = UNION {JobRun(n) : n \in {m \in Writers : job[m].key \in K}}
  BY <1>3 DEF CanceledPages, JobRun
<1>5. {k \in K : OnDisk(db[k])} = Stored \cap K
  BY DEF Stored
<1>6. KeyPages(K) = UNION {KeyRun(k) : k \in Stored \cap K}
  BY <1>5 DEF KeyPages, KeyRun
<1> QED BY <1>2, <1>4, <1>6

LEMMA NoKeyPages == KeyPages({}) \cup CanceledPages({}) = {}
<1>1. \A n : n \notin JobsOf({})
  BY DEF JobsOf
<1>2. CanceledPages({}) = {}
  BY <1>1 DEF CanceledPages
<1>3. KeyPages({}) = {}
  BY DEF KeyPages
<1> QED BY <1>2, <1>3

LEMMA CancelChange ==
  ASSUME VmInv, NEW K \in SUBSET Keys, NEW L \in SUBSET Keys, NEW f, NEW type, Cancelable(K),
         JobsAfter(CancelNew(K), CancelDone(K), L, f, type), Opens(L, f, type)
  PROVE  ChangeJobs(K, L, f) /\ DOMAIN job' = JobIds
<1>1. /\ CancelNew(K) \subseteq JobIds /\ CancelDone(K) \subseteq JobIds
      /\ \A n \in CancelNew(K) : job[n].at # "busy"
      /\ \A n \in JobIds : n \in CancelNew(K) \/ n \in CancelDone(K) <=> n \in JobsOf(K)
  BY JobsOfKeys DEF CancelNew, CancelDone, Listed
<1>2. \A n \in CancelDone(K) : job[n].at = "done"
  BY JobsOfKeys DEF CancelDone, Listed, Cancelable, VmInv, JobsSound, JobSound, Live
<1>3. \A n \in JobIds : Live(n) => (job[n].key \in K <=> n \in CancelNew(K) \/ n \in CancelDone(K))
  BY <1>1, JobsOfKeys
<1>4. Ends(K, CancelNew(K), CancelDone(K))
  BY <1>1, <1>2, <1>3 DEF Ends
<1> QED BY <1>4, JobsAfterChange

LEMMA ChangeStep ==
  ASSUME VmInv, NEW K \in SUBSET Keys, NEW L \in SUBSET Keys, NEW f,
         ChangeKeys(K, L), ChangeJobs(K, L, f), ChangeThreads, mix' = mix, disk' = disk,
         child' = child, pc' = pc, WantSound', DOMAIN job' = JobIds,
         thr' \in [Threads -> [pc : {"off", "idle", "work", "put", "signal"}, job : JobIds \cup {0}]],
         db' \in [Keys -> Entries], truth' \in [Keys -> Vals \cup {NoVal}],
         \A k \in K : ~OnDisk(db'[k]), used' = used \ (KeyPages(K) \cup CanceledPages(K))
  PROVE  VmInv'
<1>1. JobsSound' /\ OneJob' /\ HasJob' /\ ThreadsSound' /\ OneThread' /\ AllStand' /\ ChildrenSound'
  BY ChangeKeeps
<1>2. PagesExact'
  <2>1. used' = used \ ((UNION {KeyRun(k) : k \in Stored \cap K})
                        \cup (UNION {JobRun(n) : n \in {m \in Writers : job[m].key \in K}}))
    BY JobsOfKeys
  <2> QED BY <2>1, ChangePages
<1>3. used' \subseteq Pages
  BY <1>2 DEF PagesExact, Pages
<1>4. TypeInv'
  BY <1>3 DEF VmInv, TypeInv, Entries, Pages
<1>5. LoadFirst'
  BY DEF VmInv, LoadFirst, VmCanSwapOut
<1> QED BY <1>1, <1>2, <1>4, <1>5 DEF VmInv

(* A command takes its keys out of the hands of the threads.                   *)
LEMMA CallKeeps ==
  ASSUME VmInv, NEW cmd, NEW R, Call(cmd, R), cmd.keys \subseteq Keys,
         cmd.op \in {"write", "set"} => cmd.val \in Vals,
         mix' = mix, disk' = disk, child' = child, thr' = thr, pc' = pc, WantSound'
  PROVE  VmInv'
<1> DEFINE K == cmd.keys
<1> PICK f : f = <<>> BY Zenon
<1>1. /\ Cancelable(K) /\ JobsAfter(CancelNew(K), CancelDone(K), {}, f, "none")
      /\ used' = used \ (KeyPages(K) \cup CanceledPages(K))
  BY DEF Call
<1>2. ChangeJobs(K, {}, f) /\ DOMAIN job' = JobIds
  <2>1. Opens({}, f, "none")
    BY DEF Opens
  <2> QED BY <1>1, <2>1, CancelChange
<1>3. /\ db' = [k \in Keys |-> db'[k]] /\ truth' = [k \in Keys |-> truth'[k]]
      /\ \A k \in Keys : k \notin K => db'[k] = db[k] /\ truth'[k] = truth[k]
  BY DEF Call, LookupKeys, Replace, VmInv, TypeInv
<1>4. ASSUME NEW k \in Keys, k \in K
      PROVE  /\ db'[k] \in Entries /\ db'[k].st \in {"none", "memory"}
             /\ db'[k].val = truth'[k] /\ truth'[k] \in Vals \cup {NoVal}
  <2>1. CASE cmd.op \in {"get", "sort"}
    <3>1. db'[k] = Home(k) /\ truth'[k] = truth[k]
      BY <1>4, <2>1 DEF Call, LookupKeys
    <3>2. Value(db[k]) = truth[k] /\ truth[k] \in Vals \cup {NoVal} /\ db[k] \in Entries
      BY ValueStands DEF VmInv, AllStand, TypeInv
    <3>3. db[k].st = "none" => truth[k] = NoVal
      BY <3>2 DEF VmInv, AllStand, Stands, OnDisk, Entries
    <3>4. db[k].st # "none" => truth[k] \in Vals
      BY <3>2 DEF VmInv, AllStand, Stands, OnDisk, Entries
    <3>5. CASE db[k].st = "none"
      BY <3>1, <3>3, <3>5, EntryMade DEF Home, Missing
    <3>6. CASE db[k].st # "none"
      <4>1. db'[k] = InMemory(truth[k])
        BY <3>1, <3>2, <3>6 DEF Home
      <4> QED BY <3>1, <3>4, <3>6, <4>1, EntryMade DEF InMemory
    <3> QED BY <3>5, <3>6
  <2>2. CASE cmd.op \in {"write", "set"}
    <3>1. db'[k] = InMemory(cmd.val) /\ truth'[k] = cmd.val /\ cmd.val \in Vals
      BY <1>4, <2>2 DEF Call, Replace
    <3> QED BY <3>1, EntryMade DEF InMemory
  <2>3. CASE cmd.op \in {"del", "flush"}
    <3>1. db'[k] = Missing /\ truth'[k] = NoVal
      BY <1>4, <2>3 DEF Call, Replace
    <3> QED BY <3>1, EntryMade DEF Missing
  <2> QED BY <2>1, <2>2, <2>3 DEF Call
<1>5. K \in SUBSET Keys
  OBVIOUS
<1> HIDE DEF K
<1>6. ChangeKeys(K, {}) /\ \A k \in K : ~OnDisk(db'[k])
  BY <1>3, <1>4, <1>5 DEF ChangeKeys, Moving, Stands, OnDisk
<1>7. ChangeThreads
        /\ thr' \in [Threads -> [pc : {"off", "idle", "work", "put", "signal"}, job : JobIds \cup {0}]]
  BY DEF ChangeThreads, VmInv, TypeInv
<1>8. \A k \in Keys : db'[k] \in Entries /\ truth'[k] \in Vals \cup {NoVal}
  BY <1>3, <1>4 DEF VmInv, TypeInv
<1>9. db' \in [Keys -> Entries] /\ truth' \in [Keys -> Vals \cup {NoVal}]
  BY <1>3, <1>8
<1> QED BY <1>1, <1>2, <1>5, <1>6, <1>7, <1>9, ChangeStep

LEMMA SpawnChange ==
  ASSUME VmInv, NEW n, SpawnIOThread(n)
  PROVE  /\ ChangeThreads
         /\ thr' \in [Threads -> [pc : {"off", "idle", "work", "put", "signal"}, job : JobIds \cup {0}]]
<1>1. PICK S \in SUBSET {t \in mix.pool : thr[t].pc = "off"} :
        thr' = [t \in Threads |-> IF t \in S THEN Idle ELSE thr[t]]
  BY DEF SpawnIOThread
<1>2. \A t \in Threads : thr'[t] = IF t \in S THEN Idle ELSE thr[t]
  BY <1>1
<1>3. ChangeThreads
  BY <1>2 DEF ChangeThreads, Idle
<1>4. \A t \in Threads : thr'[t] \in [pc : {"off", "idle", "work", "put", "signal"}, job : JobIds \cup {0}]
  BY <1>2 DEF VmInv, TypeInv, Idle
<1> QED BY <1>1, <1>3, <1>4

(* A client waits, and its keys are on their way.                              *)
LEMMA BlockKeeps ==
  ASSUME VmInv, NEW c, NEW cmd, NEW P \in SUBSET Keys, Block(c, cmd, P),
         mix' = mix, disk' = disk, child' = child, pc' = pc, WantSound'
  PROVE  VmInv'
<1>1. PICK back, load : /\ back = {k \in P : db[k].st = "swapping"}
                        /\ load = {k \in P : db[k].st = "swapped"}
  BY Zenon
<1>2. PICK f \in Addresses(load) : JobsAfter(CancelNew(back), CancelDone(back), load, f, "load")
  BY <1>1 DEF Block
<1>3. /\ Cancelable(back) /\ SpawnIOThread(Cardinality(load)) /\ truth' = truth
      /\ used' = used \ CanceledPages(back)
      /\ db' = [k \in Keys |-> IF k \in back THEN InMemory(db[k].val)
                              ELSE IF k \in load THEN Pointer("loading", db[k].page, db[k].len)
                              ELSE db[k]]
  BY <1>1 DEF Block
<1>4. /\ back \in SUBSET Keys /\ load \in SUBSET Keys /\ \A k \in load : k \notin back
      /\ \A k \in back : db'[k] = InMemory(db[k].val)
      /\ \A k \in load : db'[k] = Pointer("loading", db[k].page, db[k].len)
      /\ \A k \in Keys : k \notin back /\ k \notin load => db'[k] = db[k]
  BY <1>1, <1>3
<1>5. \A k \in Keys : db[k] \in Entries /\ Stands(db[k], truth[k])
  BY DEF VmInv, TypeInv, AllStand
<1>6. /\ \A k \in load : f[k] \in JobIds /\ job[f[k]].at = "free"
      /\ \A k, m \in load : f[k] = f[m] => k = m
  BY DEF Addresses, Listed
<1>7. ChangeJobs(back, load, f) /\ DOMAIN job' = JobIds
  <2>1. \A k \in load : db'[k].st = "loading"
    BY <1>4, PointerFields
  <2>2. Opens(load, f, "load")
    BY <1>6, <2>1 DEF Opens
  <2> QED BY <1>2, <1>3, <1>4, <2>2, CancelChange
<1>8. \A k \in back : db'[k].st = "memory" /\ Stands(db[k], truth[k])'
  BY <1>1, <1>3, <1>4, <1>5 DEF InMemory, Stands, OnDisk
<1>9. ChangeKeys(back, load) /\ \A k \in back : ~OnDisk(db'[k])
  <2>1. ASSUME NEW k \in load
        PROVE  /\ db[k].st = "swapped" /\ db'[k].st = "loading"
               /\ db'[k].page = db[k].page /\ db'[k].len = db[k].len /\ db'[k].val = db[k].val
    <3>1. db[k] \in Entries /\ db[k].st = "swapped"
      BY <1>1, <1>4, <1>5
    <3>2. db[k].val = NoVal /\ db'[k] = Pointer("loading", db[k].page, db[k].len)
      BY <3>1, <1>4, EntryFields
    <3> QED BY <3>1, <3>2 DEF Pointer
  <2> QED BY <1>3, <1>4, <1>8, <2>1 DEF ChangeKeys, Moving, OnDisk
<1>10. KeyPages(back) = {}
  BY <1>1 DEF KeyPages, OnDisk
<1>11. ASSUME NEW k \in Keys PROVE db'[k] \in Entries
  <2>1. db[k] \in Entries
    BY <1>5
  <2>2. CASE k \in back
    BY <1>1, <1>4, <2>1, <2>2, EntryMade, EntryFields
  <2>3. CASE k \in load
    BY <1>4, <2>1, <2>3, EntryMade, EntryFields
  <2> QED BY <1>4, <2>1, <2>2, <2>3
<1>12. db' \in [Keys -> Entries] /\ truth' \in [Keys -> Vals \cup {NoVal}]
  BY <1>3, <1>11 DEF VmInv, TypeInv
<1>13. used' = used \ (KeyPages(back) \cup CanceledPages(back))
  BY <1>3, <1>10
<1> QED BY <1>3, <1>4, <1>7, <1>9, <1>12, <1>13, SpawnChange, ChangeStep

LEMMA CommandKeeps ==
  ASSUME VmInv, NEW c \in Clients, Command(c) PROVE VmInv'
<1>1. PICK cmd \in Commands :
        \/ Away(Preloads(cmd)) # {} /\ Block(c, cmd, Preloads(cmd))
        \/ Away(Preloads(cmd)) = {} /\ Call(cmd, {}) /\ UNCHANGED <<thr, want>>
  BY DEF Command
<1>2. mix.keys \subseteq Keys /\ mix.vals \subseteq Vals
  BY VmAssumption DEF VmInv, TypeInv
<1>3. /\ cmd.keys \subseteq Keys
      /\ cmd.op \in {"get", "write", "set"} => cmd.val \in Vals
  BY <1>2 DEF Commands
<1>4. mix' = mix /\ disk' = disk /\ child' = child /\ pc' = pc
  BY DEF Command
<1>5. CASE Call(cmd, {}) /\ UNCHANGED <<thr, want>>
  <2>1. WantSound'
    BY <1>5 DEF VmInv, WantSound, NoCommand
  <2> QED BY <1>3, <1>4, <1>5, <2>1, CallKeeps
<1>6. CASE Away(Preloads(cmd)) # {} /\ Block(c, cmd, Preloads(cmd))
  <2>1. Preloads(cmd) = cmd.keys /\ cmd.op \in {"get", "write"}
    BY <1>6 DEF Preloads, Away
  <2>2. want' = [want EXCEPT ![c] = cmd]
    BY <1>6 DEF Block
  <2>3. WantSound'
    BY <1>3, <2>1, <2>2 DEF VmInv, WantSound, NoCommand
  <2>4. PICK P \in SUBSET Keys : P = Preloads(cmd)
    BY <1>3, <2>1
  <2> QED BY <1>4, <1>6, <2>3, <2>4, BlockKeeps
<1> QED BY <1>1, <1>5, <1>6

LEMMA ResumeKeeps ==
  ASSUME VmInv, NEW c \in Clients, Resume(c) PROVE VmInv'
<1>1. PICK cmd : cmd = want[c]
  BY Zenon
<1>2. Call(cmd, {c}) /\ mix' = mix /\ disk' = disk /\ child' = child /\ thr' = thr /\ pc' = pc
  BY <1>1 DEF Resume
<1>3. cmd # NoCommand
  BY <1>2 DEF Call, NoCommand
<1>4. cmd.keys \subseteq Keys /\ cmd.val \in Vals
  BY <1>1, <1>3 DEF VmInv, WantSound
<1>5. WantSound'
  BY DEF Resume, VmInv, WantSound, NoCommand
<1> QED BY <1>2, <1>4, <1>5, CallKeeps

(* serverCron hands one value to the threads.                                  *)
LEMMA CronThreadedKeeps ==
  ASSUME VmInv, CronThreaded PROVE VmInv'
<1>0. PICK k \in InRam : /\ db' = [db EXCEPT ![k] = Swapping(db[k].val)]
                         /\ \E f \in Addresses({k}) : JobsAfter({}, {}, {k}, f, "prepare")
  BY DEF CronThreaded
<1>1. PICK f \in Addresses({k}) : JobsAfter({}, {}, {k}, f, "prepare")
  BY <1>0
<1>2. /\ SpawnIOThread(1) /\ mix' = mix /\ disk' = disk /\ child' = child /\ pc' = pc
      /\ truth' = truth /\ used' = used /\ WantSound'
  BY DEF CronThreaded, VmInv, WantSound, NoCommand
<1>3. k \in Keys /\ db[k].st = "memory" /\ db[k] \in Entries /\ f[k] \in JobIds /\ job[f[k]].at = "free"
  BY DEF InRam, VmInv, TypeInv, Addresses, Listed
<1>4. db[k].val \in Vals
  BY <1>3, EntryFields
<1>5. /\ db'[k].st = "swapping" /\ db'[k].val = db[k].val /\ db'[k].page = 0 /\ db'[k].len = 0
      /\ db'[k] \in Entries /\ \A m \in Keys : m # k => db'[m] = db[m]
  BY <1>0, <1>3, <1>4, EntryMade DEF Swapping, VmInv, TypeInv
<1>6. db' \in [Keys -> Entries] /\ truth' \in [Keys -> Vals \cup {NoVal}]
  BY <1>0, <1>2, <1>5 DEF VmInv, TypeInv
<1>7. ChangeKeys({}, {k})
  BY <1>2, <1>3, <1>5 DEF ChangeKeys, Moving
<1>8. ChangeJobs({}, {k}, f) /\ DOMAIN job' = JobIds
  <2>1. Opens({k}, f, "prepare")
    BY <1>3, <1>5 DEF Opens
  <2>2. Ends({}, {}, {})
    BY DEF Ends
  <2> QED BY <1>1, <1>3, <2>1, <2>2, JobsAfterChange
<1>9. used' = used \ (KeyPages({}) \cup CanceledPages({}))
  BY <1>2, NoKeyPages
<1>10. /\ ChangeThreads
       /\ thr' \in [Threads -> [pc : {"off", "idle", "work", "put", "signal"}, job : JobIds \cup {0}]]
  BY <1>2, SpawnChange
<1>11. {} \in SUBSET Keys /\ {k} \in SUBSET Keys /\ \A m \in {} : ~OnDisk(db'[m])
  BY <1>3
<1> QED BY <1>2, <1>6, <1>7, <1>8, <1>9, <1>10, <1>11, ChangeStep

(* The key of the first finished job, and how its jobs end.                    *)
LEMMA FinishedJob ==
  ASSUME VmInv, NEW n \in JobIds, Completed(n)
  PROVE  /\ job[n].at = "done" /\ mix' = mix /\ disk' = disk /\ child' = child /\ pc' = pc
         /\ truth' = truth /\ WantSound'
         /\ ~job[n].canceled =>
              /\ Live(n) /\ JobSound(n) /\ JobDone(n) /\ job[n].key \in Keys
              /\ \A m \in JobIds : Live(m) => (job[m].key \in {job[n].key} <=> m = n)
<1>1. job[n].at = "done"
  BY DEF Completed, IsFirst, Listed
<1>2. ~job[n].canceled => Live(n) /\ JobSound(n) /\ JobDone(n) /\ job[n].key \in Keys
  BY <1>1 DEF VmInv, JobsSound, JobSound, Live
<1>3. mix' = mix /\ disk' = disk /\ child' = child /\ pc' = pc /\ truth' = truth /\ WantSound'
  BY DEF Completed, VmInv, WantSound, NoCommand
<1> QED BY <1>1, <1>2, <1>3 DEF VmInv, OneJob

LEMMA FreeJob ==
  ASSUME VmInv, NEW n \in JobIds, job[n].at = "done", NEW K \in SUBSET Keys, NEW L \in SUBSET Keys,
         NEW f, NEW type, JobsAfter({n}, {}, L, f, type), Opens(L, f, type),
         \A m \in JobIds : Live(m) => (job[m].key \in K <=> m = n)
  PROVE  ChangeJobs(K, L, f) /\ DOMAIN job' = JobIds
<1>1. Ends(K, {n}, {})
  BY DEF Ends
<1> QED BY <1>1, JobsAfterChange

LEMMA CompletedCanceledKeeps ==
  ASSUME VmInv, NEW n \in JobIds, CompletedCanceled(n) PROVE VmInv'
<1> PICK f : f = <<>> BY Zenon
<1>1. /\ Completed(n) /\ job[n].canceled /\ JobsAfter({n}, {}, {}, f, "none")
      /\ db' = db /\ thr' = thr /\ used' = used
  BY DEF CompletedCanceled
<1>2. ChangeJobs({}, {}, f) /\ DOMAIN job' = JobIds
  <2>1. Opens({}, f, "none")
    BY DEF Opens
  <2>2. job[n].at = "done" /\ \A m \in JobIds : Live(m) => (job[m].key \in {} <=> m = n)
    BY <1>1, FinishedJob DEF Live
  <2> QED BY <1>1, <2>1, <2>2, FreeJob
<1>3. ChangeKeys({}, {}) /\ ChangeThreads
  BY <1>1, FinishedJob DEF ChangeKeys, ChangeThreads
<1>4. used' = used \ (KeyPages({}) \cup CanceledPages({}))
  BY <1>1, NoKeyPages
<1>5. /\ db' \in [Keys -> Entries] /\ truth' \in [Keys -> Vals \cup {NoVal}]
      /\ thr' \in [Threads -> [pc : {"off", "idle", "work", "put", "signal"}, job : JobIds \cup {0}]]
  BY <1>1, FinishedJob DEF VmInv, TypeInv
<1>6. mix' = mix /\ disk' = disk /\ child' = child /\ pc' = pc /\ WantSound'
  BY <1>1, FinishedJob
<1>7. {} \in SUBSET Keys /\ \A m \in {} : ~OnDisk(db'[m])
  OBVIOUS
<1> QED BY <1>2, <1>3, <1>4, <1>5, <1>6, <1>7, ChangeStep

(* A finished job gives its key the value v back in memory.                    *)
Restored(k, v) ==
  /\ v = truth[k] /\ db' = [db EXCEPT ![k] = InMemory(v)] /\ thr' = thr
  /\ used' = used \ (KeyPages({k}) \cup CanceledPages({k}))

LEMMA BackInMemory ==
  ASSUME VmInv, NEW n \in JobIds, Completed(n), ~job[n].canceled, NEW v \in Vals,
         Restored(job[n].key, v), NEW f, JobsAfter({n}, {}, {}, f, "none")
  PROVE  VmInv'
<1>1. PICK k : k = job[n].key
  BY Zenon
<1>2. k \in Keys /\ \A m \in JobIds : Live(m) => (job[m].key \in {k} <=> m = n)
  BY <1>1, FinishedJob
<1>3. ChangeJobs({k}, {}, f) /\ DOMAIN job' = JobIds
  <2>1. Opens({}, f, "none")
    BY DEF Opens
  <2>2. job[n].at = "done"
    BY FinishedJob
  <2> QED BY <1>2, <2>1, <2>2, FreeJob
<1>4. db'[k] = InMemory(v) /\ \A m \in Keys : m # k => db'[m] = db[m]
  BY <1>1, <1>2 DEF VmInv, TypeInv, Restored
<1>5. ChangeKeys({k}, {}) /\ ChangeThreads /\ \A m \in {k} : ~OnDisk(db'[m])
  <2>1. db'[k].st = "memory" /\ db'[k].val = v /\ truth' = truth /\ v = truth[k]
    <3>1. db'[k].st = "memory" /\ db'[k].val = v
      BY <1>4, MemoryFields
    <3>2. truth' = truth
      BY FinishedJob
    <3>3. v = truth[k]
      BY <1>1 DEF Restored
    <3> QED BY <3>1, <3>2, <3>3
  <2>2. ~Moving(db'[k]) /\ ~OnDisk(db'[k]) /\ Stands(db[k], truth[k])'
    BY <2>1 DEF Moving, OnDisk, Stands
  <2>3. ChangeKeys({k}, {})
    BY <1>4, <2>1, <2>2 DEF ChangeKeys
  <2> QED BY <2>2, <2>3 DEF ChangeThreads, Restored
<1>6. /\ db' \in [Keys -> Entries] /\ truth' \in [Keys -> Vals \cup {NoVal}]
      /\ thr' \in [Threads -> [pc : {"off", "idle", "work", "put", "signal"}, job : JobIds \cup {0}]]
  BY <1>1, <1>2, <1>4, FinishedJob, EntryMade DEF VmInv, TypeInv, Restored
<1>7. used' = used \ (KeyPages({k}) \cup CanceledPages({k}))
  BY <1>1 DEF Restored
<1>8. mix' = mix /\ disk' = disk /\ child' = child /\ pc' = pc /\ WantSound'
  BY FinishedJob
<1>9. PICK K, none : K = {k} /\ none = {}
  BY Zenon
<1>10. /\ K \in SUBSET Keys /\ none \in SUBSET Keys /\ ChangeKeys(K, none) /\ ChangeJobs(K, none, f)
       /\ \A m \in K : ~OnDisk(db'[m])
       /\ used' = used \ (KeyPages(K) \cup CanceledPages(K))
  BY <1>2, <1>3, <1>5, <1>7, <1>9
<1> QED BY <1>3, <1>5, <1>6, <1>8, <1>10, ChangeStep
=============================================================================
