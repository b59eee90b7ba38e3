------------------------ MODULE VirtualMemoryProofs ------------------------
(* The virtual memory keeps its promises for any number of keys, threads,      *)
(* clients, jobs and pages: the invariant VmInv of VirtualMemory is inductive, *)
(* one lemma for each kind of step.                                            *)
EXTENDS VmChangeProofs

ThreadType ==
  [Threads -> [pc : {"off", "idle", "work", "put", "signal"}, job : JobIds \cup {0}]]

LEMMA CompletedLoadKeeps ==
  ASSUME VmInv, NEW n \in JobIds, CompletedLoad(n) PROVE VmInv'
<1> PICK f : f = <<>> BY Zenon
<1>1. PICK k, v : k = job[n].key /\ v = job[n].val
  BY Zenon
<1>2. /\ Completed(n) /\ ~job[n].canceled /\ job[n].type = "load"
      /\ used' = used \ KeyRun(k) /\ db' = [db EXCEPT ![k] = InMemory(v)] /\ thr' = thr
      /\ JobsAfter({n}, {}, {}, f, "none")
  BY <1>1 DEF CompletedLoad, KeyRun
<1>3. /\ k \in Keys /\ Live(n) /\ db[k].st = "loading" /\ v = truth[k]
      /\ \A m \in JobIds : Live(m) => (job[m].key \in {k} <=> m = n)
  BY <1>1, <1>2, FinishedJob DEF JobSound, JobDone
<1>4. v \in Vals
  BY <1>3 DEF VmInv, AllStand, Stands, OnDisk
<1>5. KeyPages({k}) = KeyRun(k)
  BY <1>3 DEF KeyPages, KeyRun, OnDisk
<1>6. CanceledPages({k}) = {}
  <2>1. {m \in Writers : job[m].key \in {k}} = {}
    BY <1>2, <1>3 DEF Writers
  <2> QED BY <1>3, <2>1, JobsOfKeys
<1>7. Restored(job[n].key, v)
  BY <1>1, <1>2, <1>3, <1>5, <1>6 DEF Restored
<1> QED BY <1>1, <1>2, <1>4, <1>7, BackInMemory

LEMMA PrepareGivenUp ==
  ASSUME VmInv, NEW n \in JobIds, Completed(n), ~job[n].canceled, job[n].type = "prepare",
         db' = [db EXCEPT ![job[n].key] = InMemory(db[job[n].key].val)],
         NEW f, JobsAfter({n}, {}, {}, f, "none"), thr' = thr, used' = used
  PROVE  VmInv'
<1>1. PICK k, v : k = job[n].key /\ v = db[k].val
  BY Zenon
<1>2. /\ k \in Keys /\ Live(n) /\ db[k].st = "swapping"
      /\ \A m \in JobIds : Live(m) => (job[m].key \in {k} <=> m = n)
  BY <1>1, FinishedJob DEF JobSound
<1>3. v \in Vals /\ v = truth[k]
  <2>1. db[k] \in Entries /\ Stands(db[k], truth[k])
    BY <1>2 DEF VmInv, TypeInv, AllStand
  <2> QED BY <1>1, <1>2, <2>1, EntryFields DEF Stands, OnDisk
<1>4. KeyPages({k}) = {}
  BY <1>2 DEF KeyPages, OnDisk
<1>5. CanceledPages({k}) = {}
  <2>1. {m \in Writers : job[m].key \in {k}} = {}
    BY <1>2 DEF Writers
  <2> QED BY <1>2, <2>1, JobsOfKeys
<1>6. Restored(job[n].key, v)
  BY <1>1, <1>3, <1>4, <1>5 DEF Restored
<1> QED BY <1>3, <1>6, BackInMemory

(* One job changes, in the hands of the thread w; the others stay, and what     *)
(* they wrote stays.                                                           *)
OthersStay(n) == \A m \in JobIds : m # n => Fields(job'[m], job[m])
WritesStay(n) == \A m \in Writers : m # n => \A q \in JobRun(m) : disk'[q] = disk[q]
SameJob(n) == /\ Live(n) /\ Live(n)' /\ job'[n].key = job[n].key /\ JobSound(n)'
              /\ job'[n].at = "done" => JobDone(n)'
InHands(n, w) ==
  \A t \in Threads : Working(t)' =>
    \/ Working(t) /\ thr'[t] = thr[t] /\ thr[t].job # n
    \/ t = w /\ thr'[t].job = n /\ ThreadSound(t)'

LEMMA OneJobChanges ==
  ASSUME VmInv, NEW n \in JobIds, NEW w, db' = db, truth' = truth,
         OthersStay(n), SameJob(n), WritesStay(n), InHands(n, w)
  PROVE  JobsSound' /\ OneJob' /\ HasJob' /\ ThreadsSound' /\ OneThread'
<1>1. \A m \in JobIds : (Live(m)' <=> Live(m)) /\ job'[m].key = job[m].key
  BY DEF Live, Fields, OthersStay, SameJob
<1>2. OneJob'
  BY <1>1 DEF VmInv, OneJob
<1>3. HasJob'
  BY <1>1 DEF VmInv, HasJob, Moving
<1>4. ASSUME NEW m \in JobIds, m # n, JobDone(m), Live(m) PROVE JobDone(m)'
  <2>1. Fields(job'[m], job[m])
    BY <1>4 DEF OthersStay
  <2>2. job[m].type = "swap" => \A q \in Run(job[m].page, job[m].len) : disk'[q] = disk[q]
    BY <1>4 DEF Writers, JobRun, WritesStay
  <2> QED BY <1>4, <2>1, <2>2 DEF JobDone, Fields, Holds
<1>5. JobsSound'
  <2> SUFFICES ASSUME NEW m \in JobIds, m # n
               PROVE  JobSound(m)' /\ (Live(m)' /\ job'[m].at = "done" => JobDone(m)')
    BY DEF JobsSound, SameJob
  <2>1. Fields(job'[m], job[m]) /\ JobSound(m) /\ (Live(m) /\ job[m].at = "done" => JobDone(m))
    BY DEF VmInv, JobsSound, OthersStay
  <2>2. JobSound(m)'
    BY <2>1 DEF JobSound, Fields, Live, Pages
  <2> QED BY <1>1, <1>4, <2>1, <2>2 DEF Fields
<1>6. ThreadsSound'
  <2>1. ASSUME NEW t \in Threads, Working(t), thr'[t] = thr[t], thr[t].job # n PROVE ThreadSound(t)'
    <3>1. PICK m : m = thr[t].job
      BY Zenon
    <3>2. /\ m \in JobIds /\ job[m].at = "busy" /\ m # n
          /\ thr[t].pc = "put" => JobDone(m)
      BY <2>1, <3>1 DEF VmInv, ThreadsSound, ThreadSound, Working
    <3>3. Live(m) /\ Fields(job'[m], job[m])
      BY <3>2 DEF VmInv, JobsSound, JobSound, Live, OthersStay
    <3>4. thr[t].pc = "put" => JobDone(m)'
      BY <1>4, <3>2, <3>3
    <3> QED BY <2>1, <3>1, <3>2, <3>3, <3>4 DEF ThreadSound, Fields
  <2> QED BY <2>1 DEF ThreadsSound, ThreadSound, Working, InHands
<1>7. OneThread'
  BY DEF VmInv, OneThread, InHands, Working
<1> QED BY <1>2, <1>3, <1>5, <1>6, <1>7

(* The pages of a value are found and its job goes back to the threads.        *)
LEMMA PrepareGoesOn ==
  ASSUME VmInv, NEW n \in JobIds, Completed(n), ~job[n].canceled, job[n].type = "prepare",
         VmCanSwapOut, NEW p \in VmFindContiguousPages(used, job[n].len), NEW pos,
         used' = used \cup Run(p, job[n].len),
         job' = [m \in JobIds |->
                   IF m = n
                   THEN [at |-> "new", pos |-> pos, type |-> "swap", key |-> job[n].key,
                         page |-> p, len |-> job[n].len, val |-> job[n].val, canceled |-> FALSE]
                   ELSE Stay(m, {n})],
         SpawnIOThread(1), db' = db
  PROVE  VmInv'
<1>1. /\ job[n].at = "done" /\ mix' = mix /\ disk' = disk /\ child' = child /\ pc' = pc
      /\ truth' = truth /\ WantSound' /\ Live(n) /\ JobSound(n) /\ JobDone(n) /\ job[n].key \in Keys
  BY FinishedJob
<1>2. /\ job'[n].at = "new" /\ job'[n].type = "swap" /\ job'[n].key = job[n].key /\ job'[n].page = p
      /\ job'[n].len = job[n].len /\ job'[n].val = job[n].val /\ job'[n].canceled = FALSE
  OBVIOUS
<1>3. \A m \in JobIds : m # n => Fields(job'[m], job[m])
  BY MoveFields DEF Stay
<1>4. \A m \in JobIds : (Live(m)' <=> Live(m)) /\ job'[m].key = job[m].key
  BY <1>1, <1>2, <1>3 DEF Live, Fields
<1>6. ChangeThreads /\ thr' \in ThreadType
  BY SpawnChange DEF ThreadType
<1>7. \A x \in Kinds : ~child'[x].on
  BY <1>1 DEF VmCanSwapOut
<1>8. ChildrenSound' /\ LoadFirst'
  BY <1>7 DEF ChildrenSound, LoadFirst, VmCanSwapOut
<1>9. AllStand'
  BY <1>1 DEF VmInv, AllStand, Stands, Holds
<1>10. JobSound(n)'
  <2>1. p \in Pages
    BY DEF VmFindContiguousPages, FreeRuns
  <2> QED BY <1>1, <1>2, <2>1 DEF JobSound, JobDone, Live, Pages
<1>11. \A t \in Threads : Working(t)' => Working(t) /\ thr'[t] = thr[t] /\ thr[t].job # n
  BY <1>1, <1>6 DEF ChangeThreads, Working, VmInv, ThreadsSound, ThreadSound
<1>5. JobsSound' /\ OneJob' /\ HasJob' /\ ThreadsSound' /\ OneThread'
  <2>1. OthersStay(n)
    BY <1>3 DEF OthersStay
  <2>2. SameJob(n)
    BY <1>1, <1>2, <1>4, <1>10 DEF SameJob
  <2>3. WritesStay(n)
    BY <1>1 DEF WritesStay
  <2>4. InHands(n, 0)
    BY <1>11 DEF InHands
  <2> QED BY <1>1, <2>1, <2>2, <2>3, <2>4, OneJobChanges
<1>12. PagesExact'
  <2>1. Stored' = Stored /\ \A k \in Keys : KeyRun(k)' = KeyRun(k)
    BY DEF Stored, KeyRun
  <2>2. n \notin Writers /\ Writers' = Writers \cup {n}
    <3>1. n \notin Writers /\ n \in Writers'
      BY <1>1, <1>2, <1>4 DEF Writers
    <3>2. ASSUME NEW m \in JobIds, m # n PROVE m \in Writers' <=> m \in Writers
      <4>1. (Live(m)' <=> Live(m)) /\ job'[m].type = job[m].type
        BY <1>3, <1>4, <3>2 DEF Fields
      <4> QED BY <4>1 DEF Writers
    <3>3. Writers \subseteq JobIds /\ Writers' \subseteq JobIds
      BY DEF Writers
    <3> QED BY <3>1, <3>2, <3>3
  <2>3. JobRun(n)' = Run(p, job[n].len) /\ \A m \in Writers : JobRun(m)' = JobRun(m)
    BY <1>2, <1>3, <2>2 DEF JobRun, Fields, Writers
  <2>4. JobRun(n)' \subseteq Pages /\ JobRun(n)' \cap used = {} /\ used' = used \cup JobRun(n)'
    BY <2>3 DEF VmFindContiguousPages, FreeRuns
  <2>5. Stored \subseteq Keys
    BY DEF Stored
  <2>6. /\ used = (UNION {KeyRun(k) : k \in Stored}) \cup (UNION {JobRun(m) : m \in Writers})
        /\ \A k, m \in Stored : k # m => KeyRun(k) \cap KeyRun(m) = {}
        /\ \A o, m \in Writers : o # m => JobRun(o) \cap JobRun(m) = {}
        /\ \A k \in Stored, m \in Writers : KeyRun(k) \cap JobRun(m) = {}
        /\ used \subseteq Pages
    BY DEF VmInv, PagesExact
  <2>7. used' = (UNION {KeyRun(k)' : k \in Stored'}) \cup (UNION {JobRun(m)' : m \in Writers'})
    BY <2>1, <2>2, <2>3, <2>4, <2>5, <2>6
  <2>8. /\ \A k, m \in Stored' : k # m => KeyRun(k)' \cap KeyRun(m)' = {}
        /\ \A k \in Stored', m \in Writers' : KeyRun(k)' \cap JobRun(m)' = {}
    BY <2>1, <2>2, <2>3, <2>4, <2>5, <2>6
  <2>9. \A o, m \in Writers' : o # m => JobRun(o)' \cap JobRun(m)' = {}
    BY <2>2, <2>3, <2>4, <2>6
  <2> QED BY <2>4, <2>6, <2>7, <2>8, <2>9 DEF PagesExact, Pages
<1>13. TypeInv'
  <2>1. used' \subseteq Pages /\ DOMAIN job' = JobIds
    BY <1>12 DEF PagesExact, Pages
  <2> QED BY <1>1, <1>6, <2>1 DEF VmInv, TypeInv, ThreadType, Entries, Pages
<1> QED BY <1>1, <1>5, <1>8, <1>9, <1>12, <1>13 DEF VmInv

LEMMA CompletedPrepareKeeps ==
  ASSUME VmInv, NEW n \in JobIds, CompletedPrepare(n) PROVE VmInv'
<1> PICK f : f = <<>> BY Zenon
<1>1. Completed(n) /\ ~job[n].canceled /\ job[n].type = "prepare"
  BY DEF CompletedPrepare
<1>2. CASE /\ db' = [db EXCEPT ![job[n].key] = InMemory(db[job[n].key].val)]
           /\ JobsAfter({n}, {}, {}, f, "none") /\ thr' = thr /\ used' = used
  BY <1>1, <1>2, PrepareGivenUp
<1>3. CASE /\ VmCanSwapOut /\ SpawnIOThread(1) /\ db' = db
           /\ \E p \in VmFindContiguousPages(used, job[n].len) :
                /\ used' = used \cup Run(p, job[n].len)
                /\ job' = [m \in JobIds |->
                    IF m = n
                    THEN [at |-> "new", pos |-> Last("new"), type |-> "swap", key |-> job[n].key,
                          page |-> p, len |-> job[n].len, val |-> job[n].val, canceled |-> FALSE]
                    ELSE Stay(m, {n})]
  <2>1. PICK pos : pos = Last("new")
    BY Zenon
  <2>2. PICK p \in VmFindContiguousPages(used, job[n].len) :
                /\ used' = used \cup Run(p, job[n].len)
                /\ job' = [m \in JobIds |->
                    IF m = n
                    THEN [at |-> "new", pos |-> pos, type |-> "swap", key |-> job[n].key,
                          page |-> p, len |-> job[n].len, val |-> job[n].val, canceled |-> FALSE]
                    ELSE Stay(m, {n})]
    BY <1>3, <2>1
  <2> QED BY <1>1, <1>3, <2>2, PrepareGoesOn
<1> QED BY <1>2, <1>3 DEF CompletedPrepare

(* Nobody takes or gives up pages.                                             *)
LEMMA PagesSame ==
  ASSUME PagesExact, Stored' = Stored, Writers' = Writers, used' = used,
         \A m \in Stored : KeyRun(m)' = KeyRun(m), \A m \in Writers : JobRun(m)' = JobRun(m)
  PROVE  PagesExact'
<1>1. /\ used = (UNION {KeyRun(m) : m \in Stored}) \cup (UNION {JobRun(m) : m \in Writers})
      /\ \A l, m \in Stored : l # m => KeyRun(l) \cap KeyRun(m) = {}
      /\ \A o, m \in Writers : o # m => JobRun(o) \cap JobRun(m) = {}
      /\ \A l \in Stored, m \in Writers : KeyRun(l) \cap JobRun(m) = {}
      /\ used \subseteq Pages
  BY DEF PagesExact
<1>2. used' = (UNION {KeyRun(m)' : m \in Stored'}) \cup (UNION {JobRun(m)' : m \in Writers'})
  BY <1>1
<1>3. /\ \A l, m \in Stored' : l # m => KeyRun(l)' \cap KeyRun(m)' = {}
      /\ \A l \in Stored', m \in Writers' : KeyRun(l)' \cap JobRun(m)' = {}
      /\ \A o, m \in Writers' : o # m => JobRun(o)' \cap JobRun(m)' = {}
  BY <1>1
<1> QED BY <1>1, <1>2, <1>3 DEF PagesExact, Pages

(* The pages of a finished job become those of its key.                        *)
LEMMA PagesHandedOver ==
  ASSUME PagesExact, NEW k, NEW n \in Writers, k \notin Stored,
         Stored' = Stored \cup {k}, \A m \in Stored : KeyRun(m)' = KeyRun(m),
         KeyRun(k)' = JobRun(n), Writers' = Writers \ {n},
         \A m \in Writers' : JobRun(m)' = JobRun(m), used' = used
  PROVE  PagesExact'
<1>1. /\ used = (UNION {KeyRun(m) : m \in Stored}) \cup (UNION {JobRun(m) : m \in Writers})
      /\ \A l, m \in Stored : l # m => KeyRun(l) \cap KeyRun(m) = {}
      /\ \A o, m \in Writers : o # m => JobRun(o) \cap JobRun(m) = {}
      /\ \A l \in Stored, m \in Writers : KeyRun(l) \cap JobRun(m) = {}
      /\ used \subseteq Pages
  BY DEF PagesExact
<1>2. used' = (UNION {KeyRun(m)' : m \in Stored'}) \cup (UNION {JobRun(m)' : m \in Writers'})
  BY <1>1
<1>3. /\ \A l, m \in Stored' : l # m => KeyRun(l)' \cap KeyRun(m)' = {}
      /\ \A l \in Stored', m \in Writers' : KeyRun(l)' \cap JobRun(m)' = {}
      /\ \A o, m \in Writers' : o # m => JobRun(o)' \cap JobRun(m)' = {}
  BY <1>1
<1> QED BY <1>1, <1>2, <1>3 DEF PagesExact, Pages

LEMMA CompletedSwapKeeps ==
  ASSUME VmInv, NEW n \in JobIds, CompletedSwap(n) PROVE VmInv'
<1>1. PICK k : k = job[n].key
  BY Zenon
<1>2. PICK L : /\ L \subseteq InRam
               /\ \E f \in Addresses(L) : JobsAfter({n}, {}, L, f, "prepare")
               /\ SpawnIOThread(Cardinality(L))
               /\ db' = [m \in Keys |-> IF m = k THEN Pointer("swapped", job[n].page, job[n].len)
                                       ELSE IF m \in L THEN Swapping(db[m].val) ELSE db[m]]
  BY <1>1 DEF CompletedSwap
<1>3. PICK f \in Addresses(L) : JobsAfter({n}, {}, L, f, "prepare")
  BY <1>2
<1>4. Completed(n) /\ ~job[n].canceled /\ job[n].type = "swap" /\ used' = used
  BY DEF CompletedSwap
<1>5. /\ job[n].at = "done" /\ mix' = mix /\ disk' = disk /\ child' = child /\ pc' = pc
      /\ truth' = truth /\ WantSound' /\ Live(n) /\ JobSound(n) /\ JobDone(n) /\ k \in Keys
      /\ \A m \in JobIds : Live(m) => (job[m].key \in {k} <=> m = n)
  BY <1>1, <1>4, FinishedJob
<1>6. /\ db[k].st = "swapping" /\ job[n].val = db[k].val /\ job[n].page \in Pages
      /\ job[n].len = Size[job[n].val] /\ Holds(job[n].page, job[n].len, job[n].val)
  BY <1>1, <1>4, <1>5 DEF JobSound, JobDone, Pages
<1>7. \A m \in Keys : db[m] \in Entries /\ Stands(db[m], truth[m])
  BY DEF VmInv, TypeInv, AllStand
<1>8. job[n].val = truth[k] /\ truth[k] \in Vals
  BY <1>5, <1>6, <1>7, EntryFields DEF Stands, OnDisk
<1>9. /\ job[n].page \in Nat /\ job[n].len \in Nat
      /\ job[n].page \in Run(job[n].page, job[n].len)
  <2>1. job[n].page \in Nat /\ job[n].len \in Nat /\ job[n].len # 0
    BY <1>6, <1>8, VmAssumption DEF Pages
  <2> QED BY <2>1, RunHead
<1>10. /\ L \in SUBSET Keys /\ k \notin L /\ \A m \in L : db[m].st = "memory"
       /\ db'[k] = Pointer("swapped", job[n].page, job[n].len)
       /\ \A m \in L : db'[m] = Swapping(db[m].val)
       /\ \A m \in Keys : m # k /\ m \notin L => db'[m] = db[m]
  BY <1>2, <1>5, <1>6 DEF InRam
<1>11. \A m \in Keys : db'[m] \in Entries
  BY <1>2, <1>7, <1>9, <1>10, EntryMade, EntryFields
<1>12. /\ \A m \in L : f[m] \in JobIds /\ job[f[m]].at = "free"
       /\ \A m, o \in L : f[m] = f[o] => m = o
  BY DEF Addresses, Listed
<1>13. PICK K : K = {k}
  BY Zenon
<1>15. /\ db'[k].st = "swapped" /\ db'[k].page = job[n].page /\ db'[k].len = job[n].len
       /\ \A m \in L : db'[m].st = "swapping" /\ db'[m].val = db[m].val
  <2>1. ASSUME NEW m \in L PROVE db'[m].st = "swapping" /\ db'[m].val = db[m].val
    <3>1. db'[m] = Swapping(db[m].val)
      BY <1>10
    <3> QED BY <3>1 DEF Swapping
  <2>2. db'[k] = Pointer("swapped", job[n].page, job[n].len)
    BY <1>10
  <2>3. db'[k].st = "swapped" /\ db'[k].page = job[n].page /\ db'[k].len = job[n].len
    BY <2>2, PointerFields
  <2> QED BY <2>1, <2>3
<1>14. ChangeJobs(K, L, f) /\ DOMAIN job' = JobIds
  <2>1. Opens(L, f, "prepare")
    BY <1>12, <1>15 DEF Opens
  <2>2. \A m \in JobIds : Live(m) => (job[m].key \in K <=> m = n)
    BY <1>5, <1>13
  <2>3. K \in SUBSET Keys
    BY <1>5, <1>13
  <2> QED BY <1>3, <1>5, <1>10, <2>1, <2>2, <2>3, FreeJob
<1>16. ~Moving(db'[k]) /\ Stands(db[k], truth[k])'
  BY <1>5, <1>6, <1>8, <1>9, <1>15 DEF Moving, Stands, OnDisk, Holds
<1>17. ChangeKeys(K, L)
  BY <1>5, <1>10, <1>13, <1>15, <1>16 DEF ChangeKeys, Moving
<1>18. ChangeThreads /\ thr' \in ThreadType /\ DOMAIN thr' = Threads
  BY <1>2, SpawnChange DEF ThreadType
<1>19. JobsSound' /\ OneJob' /\ HasJob' /\ ThreadsSound' /\ OneThread' /\ AllStand' /\ ChildrenSound'
  BY <1>5, <1>10, <1>13, <1>14, <1>17, <1>18, ChangeKeeps
<1>20. PagesExact'
  <2>1. n \in Writers /\ k \notin Stored
    BY <1>4, <1>5, <1>6 DEF Writers, Stored, OnDisk
  <2>2. Stored' = Stored \cup {k}
    BY <1>5, <1>10, <1>15 DEF Stored, OnDisk
  <2>3. \A m \in Stored : KeyRun(m)' = KeyRun(m)
    BY <1>10, <2>1 DEF Stored, OnDisk, KeyRun
  <2>4. KeyRun(k)' = JobRun(n)
    BY <1>15 DEF KeyRun, JobRun
  <2>5. ASSUME NEW m \in JobIds
        PROVE  /\ m \in Writers' <=> m \in Writers /\ m # n
               /\ m \in Writers' => JobRun(m)' = JobRun(m)
    <3>1. CASE \E x \in L : f[x] = m
      BY <1>14, <3>1 DEF ChangeJobs, Begun, Writers, Live
    <3>2. CASE \A x \in L : f[x] # m
      BY <1>5, <1>13, <1>14, <3>2 DEF ChangeJobs, Fields, Writers, JobRun
    <3> QED BY <3>1, <3>2
  <2>6. Writers' = Writers \ {n}
    BY <2>5 DEF Writers
  <2>7. \A m \in Writers' : JobRun(m)' = JobRun(m)
    BY <2>5 DEF Writers
  <2> QED BY <1>4, <2>1, <2>2, <2>3, <2>4, <2>6, <2>7, PagesHandedOver DEF VmInv
<1>21. TypeInv'
  <2>1. db' \in [Keys -> Entries]
    BY <1>2, <1>11
  <2> QED BY <1>4, <1>5, <1>14, <1>18, <2>1 DEF VmInv, TypeInv, ThreadType, Entries, Pages
<1>22. LoadFirst'
  BY <1>5 DEF VmInv, LoadFirst, VmCanSwapOut
<1> QED BY <1>5, <1>19, <1>20, <1>21, <1>22 DEF VmInv

(******************************* the I/O threads *****************************)
LEMMA FrameKeeps ==
  ASSUME VmInv, mix' = mix, db' = db, job' = job, used' = used, disk' = disk, truth' = truth,
         thr' \in ThreadType, \A t \in Threads : Working(t)' => Working(t) /\ thr'[t] = thr[t],
         DOMAIN child' = Kinds, ChildrenSound', WantSound', LoadFirst'
  PROVE  VmInv'
<1>1. TypeInv'
  BY DEF VmInv, TypeInv, ThreadType, Entries, Pages, Kinds
<1>2. PagesExact'
  BY DEF VmInv, PagesExact, Stored, Writers, Live, KeyRun, JobRun, Pages
<1>3. JobsSound' /\ OneJob' /\ HasJob' /\ AllStand'
  <2>1. \A n \in JobIds : (JobSound(n)' <=> JobSound(n)) /\ (JobDone(n)' <=> JobDone(n)) /\ (Live(n)' <=> Live(n))
    BY DEF JobSound, JobDone, Live, Holds, Pages
  <2>2. JobsSound' /\ OneJob' /\ HasJob'
    BY <2>1 DEF VmInv, JobsSound, OneJob, HasJob, Moving
  <2>3. AllStand'
    BY DEF VmInv, AllStand, Stands, Holds
  <2> QED BY <2>2, <2>3
<1>4. ThreadsSound'
  <2> SUFFICES ASSUME NEW t \in Threads, Working(t)' PROVE ThreadSound(t)'
    BY DEF ThreadsSound, ThreadSound, Working
  <2>1. Working(t) /\ thr'[t] = thr[t]
    OBVIOUS
  <2>2. ThreadSound(t)
    BY DEF VmInv, ThreadsSound
  <2> QED BY <2>1, <2>2 DEF ThreadSound, JobDone, Holds
<1>5. OneThread'
  BY DEF VmInv, OneThread, Working
<1> QED BY <1>1, <1>2, <1>3, <1>4, <1>5 DEF VmInv

(* Thread t works on the job n, which stays where its pages are.               *)
OwnStep(t, n) ==
  /\ thr' \in ThreadType
  /\ \A u \in Threads : u # t => thr'[u] = thr[u]
  /\ \A u \in Threads : u # t /\ Working(u) => thr[u].job # n
  /\ Working(t)' => thr'[t].job = n /\ ThreadSound(t)'
SamePages(n) ==
  /\ job'[n].type = job[n].type /\ DOMAIN job' = JobIds
  /\ job[n].type = "swap" => job'[n].page = job[n].page /\ job'[n].len = job[n].len
Writes(n) ==
  /\ disk' \in [Pages -> Vals \cup {NoVal}]
  /\ \A q \in Pages : disk'[q] = disk[q] \/ (n \in Writers /\ q \in JobRun(n))
ThreadFrame ==
  /\ mix' = mix /\ db' = db /\ used' = used /\ truth' = truth /\ child' = child
  /\ pc' = pc /\ want' = want

LEMMA JobStep ==
  ASSUME VmInv, NEW t \in Threads, NEW n \in JobIds, job[n].at # "done", ThreadFrame,
         OwnStep(t, n), OthersStay(n), SameJob(n), SamePages(n), Writes(n)
  PROVE  VmInv'
<1>1. db' = db /\ used' = used /\ truth' = truth
  BY DEF ThreadFrame
<1>2. InHands(n, t)
  BY DEF Working, InHands, OwnStep
<1>3. \A m \in JobIds : (Live(m)' <=> Live(m)) /\ job'[m].key = job[m].key /\ job'[m].type = job[m].type
  BY DEF Live, Fields, OthersStay, SameJob, SamePages
<1>4. Writers' = Writers /\ Stored' = Stored
  BY <1>1, <1>3 DEF Writers, Stored
<1>5. \A m \in Writers : JobRun(m)' = JobRun(m)
  BY DEF Writers, JobRun, Fields, OthersStay, SamePages
<1>6. \A k : KeyRun(k)' = KeyRun(k)
  BY <1>1 DEF KeyRun
<1>7. /\ used = (UNION {KeyRun(m) : m \in Stored}) \cup (UNION {JobRun(m) : m \in Writers})
      /\ \A o, m \in Writers : o # m => JobRun(o) \cap JobRun(m) = {}
      /\ \A l \in Stored, m \in Writers : KeyRun(l) \cap JobRun(m) = {}
      /\ used \subseteq Pages
  BY DEF VmInv, PagesExact
<1>8. PagesExact'
  BY <1>1, <1>4, <1>5, <1>6, PagesSame DEF VmInv
<1>9. WritesStay(n)
  BY <1>7 DEF WritesStay, Writes
<1>10. JobsSound' /\ OneJob' /\ HasJob' /\ ThreadsSound' /\ OneThread'
  BY <1>1, <1>2, <1>9, OneJobChanges
<1>11. \A k \in Stored : \A q \in KeyRun(k) : disk'[q] = disk[q]
  BY <1>7 DEF Writes
<1>12. AllStand'
  <2> SUFFICES ASSUME NEW k \in Keys PROVE Stands(db[k], truth[k])'
    BY DEF AllStand
  <2>1. Stands(db[k], truth[k])
    BY DEF VmInv, AllStand
  <2>2. OnDisk(db[k]) => \A q \in Run(db[k].page, db[k].len) : disk'[q] = disk[q]
    BY <1>11 DEF Stored, KeyRun
  <2> QED BY <1>1, <2>1, <2>2 DEF Stands, Holds
<1>13. ChildrenSound'
  <2> SUFFICES ASSUME NEW x \in Kinds, child[x].on
               PROVE  /\ \A k \in Keys : Stands(child[x].db[k], child[x].truth[k])'
                      /\ \A m \in Writers : job'[m].at = "done"
    BY <1>4 DEF ChildrenSound, ThreadFrame
  <2>1. /\ \A k \in Keys : Stands(child[x].db[k], child[x].truth[k])
        /\ \A m \in Writers : job[m].at = "done"
    BY DEF VmInv, ChildrenSound
  <2>2. n \notin Writers
    BY <2>1
  <2>3. disk' = disk
    <3>1. disk \in [Pages -> Vals \cup {NoVal}]
      BY DEF VmInv, TypeInv
    <3>2. disk' \in [Pages -> Vals \cup {NoVal}] /\ \A q \in Pages : disk'[q] = disk[q]
      BY <2>2 DEF Writes
    <3> QED BY <3>1, <3>2
  <2>4. \A k \in Keys : Stands(child[x].db[k], child[x].truth[k])'
    BY <2>1, <2>3 DEF Stands, Holds, ThreadFrame
  <2>5. ASSUME NEW m \in Writers, m # n PROVE job'[m].at = "done"
    <3>1. m \in JobIds /\ job[m].at = "done"
      BY <2>1 DEF Writers
    <3> QED BY <2>5, <3>1 DEF Fields, OthersStay
  <2> QED BY <2>4, <2>5, <2>2
<1>14. TypeInv'
  BY <1>7 DEF VmInv, TypeInv, ThreadType, Entries, Pages, ThreadFrame, OwnStep, SamePages, Writes
<1>15. LoadFirst' /\ WantSound'
  BY DEF VmInv, LoadFirst, VmCanSwapOut, WantSound, NoCommand, ThreadFrame
<1> QED BY <1>8, <1>10, <1>12, <1>13, <1>14, <1>15 DEF VmInv

LEMMA TakeKeeps ==
  ASSUME VmInv, NEW t \in Threads, Take(t) PROVE VmInv'
<1>1. PICK n \in JobIds :
        /\ IsFirst(n, "new") /\ Step(t, "idle", [pc |-> "work", job |-> n])
        /\ job' = [m \in JobIds |-> IF m = n THEN Move(job[n], "busy", 0) ELSE Stay(m, {n})]
  BY DEF Take
<1>2. /\ mix' = mix /\ db' = db /\ used' = used /\ truth' = truth /\ child' = child /\ pc' = pc
      /\ want' = want /\ disk' = disk
  BY DEF Take
<1>3. thr' \in ThreadType /\ thr'[t] = [pc |-> "work", job |-> n] /\ \A u \in Threads : u # t => thr'[u] = thr[u]
  BY <1>1 DEF Step, VmInv, TypeInv, ThreadType
<1>4. job[n].at = "new" /\ Live(n) /\ JobSound(n)
  BY <1>1 DEF IsFirst, Listed, Live, VmInv, JobsSound, JobSound
<1>5. /\ job'[n].at = "busy" /\ job'[n].type = job[n].type /\ job'[n].key = job[n].key
      /\ job'[n].page = job[n].page /\ job'[n].len = job[n].len /\ job'[n].val = job[n].val
      /\ job'[n].canceled = job[n].canceled /\ DOMAIN job' = JobIds
  BY <1>1 DEF Move
<1>6. OthersStay(n)
  BY <1>1, MoveFields DEF OthersStay, Stay
<1>7. Live(n)' /\ JobSound(n)'
  BY <1>2, <1>4, <1>5 DEF Live, JobSound, Pages
<1>8. ThreadSound(t)' /\ thr'[t].job = n
  <2>1. thr'[t] = [pc |-> "work", job |-> n]
    BY <1>3
  <2>2. thr'[t].job = n /\ thr'[t].pc = "work"
    BY <2>1
  <2> QED BY <1>5, <2>2 DEF ThreadSound
<1>9. \A u \in Threads : u # t /\ Working(u) => thr[u].job # n
  BY <1>4 DEF VmInv, ThreadsSound, ThreadSound, Working
<1>10. Writes(n) /\ ThreadFrame
  BY <1>2 DEF VmInv, TypeInv, Writes, ThreadFrame
<1>11. OwnStep(t, n)
  BY <1>3, <1>8, <1>9 DEF OwnStep
<1>12. SameJob(n) /\ SamePages(n)
  BY <1>4, <1>5, <1>7 DEF SameJob, SamePages
<1> QED BY <1>4, <1>6, <1>10, <1>11, <1>12, JobStep

(* The job of a thread that works is in its hands alone.                       *)
LEMMA OwnJob ==
  ASSUME VmInv, NEW t \in Threads, Working(t)
  PROVE  /\ thr[t].job \in JobIds /\ job[thr[t].job].at = "busy"
         /\ Live(thr[t].job) /\ JobSound(thr[t].job)
         /\ thr[t].pc = "put" => JobDone(thr[t].job)
         /\ \A u \in Threads : u # t /\ Working(u) => thr[u].job # thr[t].job
<1>1. /\ thr[t].job \in JobIds /\ job[thr[t].job].at = "busy"
      /\ thr[t].pc = "put" => JobDone(thr[t].job)
  BY DEF VmInv, ThreadsSound, ThreadSound, Working
<1>2. Live(thr[t].job) /\ JobSound(thr[t].job)
  BY <1>1 DEF VmInv, JobsSound, JobSound, Live
<1> QED BY <1>1, <1>2 DEF VmInv, OneThread, Working

LEMMA PutDoneKeeps ==
  ASSUME VmInv, NEW t \in Threads, PutDone(t) PROVE VmInv'
<1>1. PICK n, pos : n = thr[t].job /\ pos = Last("done")
  BY Zenon
<1>2. /\ thr[t].pc = "put" /\ thr' = [thr EXCEPT ![t] = [pc |-> "signal", job |-> 0]]
      /\ job' = [job EXCEPT ![n] = Move(job[n], "done", pos)]
      /\ mix' = mix /\ db' = db /\ used' = used /\ truth' = truth /\ child' = child /\ pc' = pc
      /\ want' = want /\ disk' = disk
  BY <1>1 DEF PutDone, Step
<1>3. /\ n \in JobIds /\ job[n].at = "busy" /\ Live(n) /\ JobSound(n) /\ JobDone(n)
      /\ \A u \in Threads : u # t /\ Working(u) => thr[u].job # n
  BY <1>1, <1>2, OwnJob DEF Working
<1>4. thr' \in ThreadType /\ thr'[t].pc = "signal" /\ \A u \in Threads : u # t => thr'[u] = thr[u]
  BY <1>2 DEF VmInv, TypeInv, ThreadType
<1>5. DOMAIN job = JobIds
  BY DEF VmInv, TypeInv
<1>6. job'[n] = Move(job[n], "done", pos) /\ DOMAIN job' = JobIds
  BY <1>2, <1>3, <1>5
<1>7. /\ job'[n].at = "done" /\ job'[n].type = job[n].type /\ job'[n].key = job[n].key
      /\ job'[n].page = job[n].page /\ job'[n].len = job[n].len /\ job'[n].val = job[n].val
      /\ job'[n].canceled = job[n].canceled
  BY <1>6 DEF Move
<1>8. OthersStay(n)
  BY <1>2, <1>5 DEF Fields, OthersStay
<1>9. Live(n)' /\ JobSound(n)'
  BY <1>2, <1>3, <1>7 DEF Live, JobSound, Pages
<1>10. JobDone(n)'
  BY <1>2, <1>3, <1>7 DEF JobDone, Holds
<1>11. Writes(n) /\ ThreadFrame
  BY <1>2 DEF VmInv, TypeInv, Writes, ThreadFrame
<1>12. OwnStep(t, n)
  BY <1>3, <1>4 DEF OwnStep, Working
<1>13. SameJob(n) /\ SamePages(n)
  BY <1>3, <1>6, <1>7, <1>9, <1>10 DEF SameJob, SamePages
<1> QED BY <1>3, <1>8, <1>11, <1>12, <1>13, JobStep

(* The thread has given the job n the value v and the length l.                *)
Worked(n, v, l) ==
  /\ DOMAIN job' = JobIds /\ job'[n].at = job[n].at /\ job'[n].type = job[n].type
  /\ job'[n].key = job[n].key /\ job'[n].page = job[n].page /\ job'[n].len = l
  /\ job'[n].val = v /\ job'[n].canceled = job[n].canceled
  /\ \A m \in JobIds : m # n => job'[m] = job[m]
  /\ \/ job[n].type = "load" /\ v = truth[job[n].key] /\ l = job[n].len
     \/ job[n].type = "prepare" /\ v = job[n].val /\ l = Size[v]

LEMMA WorkKeeps ==
  ASSUME VmInv, NEW t \in Threads, Work(t) PROVE VmInv'
<1>1. PICK n : n = thr[t].job
  BY Zenon
<1>2. /\ thr[t].pc = "work" /\ thr' = [thr EXCEPT ![t] = [pc |-> "put", job |-> n]]
      /\ mix' = mix /\ db' = db /\ used' = used /\ truth' = truth /\ child' = child /\ pc' = pc
      /\ want' = want
  BY <1>1 DEF Work, Step
<1>3. /\ n \in JobIds /\ job[n].at = "busy" /\ Live(n) /\ JobSound(n)
      /\ \A u \in Threads : u # t /\ Working(u) => thr[u].job # n
  BY <1>1, <1>2, OwnJob DEF Working
<1>4. /\ thr' \in ThreadType /\ thr'[t].pc = "put" /\ thr'[t].job = n
      /\ \A u \in Threads : u # t => thr'[u] = thr[u]
  BY <1>2, <1>3 DEF VmInv, TypeInv, ThreadType
<1>5. DOMAIN job = JobIds /\ disk \in [Pages -> Vals \cup {NoVal}]
  BY DEF VmInv, TypeInv
<1>6. ASSUME NEW v, NEW l, disk' = disk, Worked(n, v, l)
      PROVE  VmInv'
  <2>1. /\ job'[n].at = "busy" /\ job'[n].type = job[n].type /\ job'[n].key = job[n].key
        /\ job'[n].page = job[n].page /\ job'[n].len = l /\ job'[n].val = v
        /\ job'[n].canceled = job[n].canceled
    BY <1>3, <1>6 DEF Worked
  <2>2. \/ job[n].type = "load" /\ v = truth[job[n].key] /\ l = job[n].len
        \/ job[n].type = "prepare" /\ v = job[n].val /\ l = Size[v]
    BY <1>6 DEF Worked
  <2>3. Live(n)' /\ JobSound(n)'
    BY <1>2, <1>3, <2>1, <2>2 DEF Live, JobSound, Pages
  <2>4. JobDone(n)'
    BY <1>2, <2>1, <2>2 DEF JobDone, Holds
  <2>5. OwnStep(t, n)
    BY <1>3, <1>4, <2>1, <2>4 DEF ThreadSound, OwnStep
  <2>6. OthersStay(n)
    BY <1>6 DEF Fields, OthersStay, Worked
  <2>7. SameJob(n)
    BY <1>3, <2>1, <2>3, <2>4 DEF SameJob
  <2>8. SamePages(n)
    BY <1>6, <2>1, <2>2 DEF SamePages, Worked
  <2>9. Writes(n) /\ ThreadFrame
    BY <1>2, <1>5, <1>6 DEF Writes, ThreadFrame
  <2> QED BY <1>3, <2>5, <2>6, <2>7, <2>8, <2>9, JobStep
<1>7. CASE /\ job[n].type = "load" /\ disk' = disk
           /\ job' = [job EXCEPT ![n] = WithVal(job[n], VmReadObjectFromSwap(job[n].page, job[n].len))]
  <2>1. PICK v : v = VmReadObjectFromSwap(job[n].page, job[n].len)
    BY Zenon
  <2>2. PICK k : k = job[n].key
    BY Zenon
  <2>3. k \in Keys /\ db[k].st = "loading" /\ job[n].page = db[k].page /\ job[n].len = db[k].len
    BY <1>3, <1>7, <2>2 DEF JobSound
  <2>4. Value(db[k]) = truth[k]
    BY <2>3, ValueStands DEF VmInv, AllStand
  <2>5. v = truth[job[n].key]
    BY <2>1, <2>2, <2>3, <2>4 DEF Value, OnDisk
  <2>6. job' = [job EXCEPT ![n] = WithVal(job[n], v)]
    BY <1>7, <2>1
  <2>7. job'[n] = WithVal(job[n], v) /\ DOMAIN job' = JobIds /\ \A m \in JobIds : m # n => job'[m] = job[m]
    BY <1>3, <1>5, <2>6
  <2>8. Worked(n, v, job[n].len)
    BY <1>7, <2>5, <2>7 DEF WithVal, Worked
  <2> QED BY <1>6, <1>7, <2>8
<1>8. CASE job[n].type = "prepare" /\ disk' = disk /\ job' = [job EXCEPT ![n] = WithLen(job[n], Size[job[n].val])]
  <2>1. PICK l, v : l = Size[job[n].val] /\ v = job[n].val
    BY Zenon
  <2>2. job'[n] = WithLen(job[n], l) /\ DOMAIN job' = JobIds /\ \A m \in JobIds : m # n => job'[m] = job[m]
    BY <1>3, <1>5, <1>8, <2>1
  <2>3. Worked(n, v, l)
    BY <1>8, <2>1, <2>2 DEF WithLen, Worked
  <2> QED BY <1>6, <1>8, <2>3
<1>9. CASE job[n].type = "swap" /\ disk' = VmWriteObjectOnSwap(job[n].val, job[n].page) /\ job' = job
  <2>1. n \in Writers /\ job[n].val \in Vals /\ job[n].len = Size[job[n].val]
    <3>1. PICK k : k = job[n].key
      BY Zenon
    <3>2. k \in Keys /\ db[k].st = "swapping" /\ job[n].val = db[k].val /\ job[n].len = Size[job[n].val]
      BY <1>3, <1>9, <3>1 DEF JobSound
    <3>3. db[k] \in Entries
      BY <3>2 DEF VmInv, TypeInv
    <3> QED BY <1>3, <1>9, <3>2, <3>3, EntryFields DEF Writers
  <2>2. disk' = [q \in Pages |-> IF q \in JobRun(n) THEN job[n].val ELSE disk[q]]
    BY <1>9, <2>1 DEF VmWriteObjectOnSwap, JobRun
  <2>3. JobRun(n) \subseteq Pages
    BY <2>1 DEF VmInv, PagesExact
  <2>4. /\ disk' \in [Pages -> Vals \cup {NoVal}]
        /\ \A q \in Pages : disk'[q] = disk[q] \/ q \in JobRun(n)
        /\ \A q \in JobRun(n) : disk'[q] = job[n].val
    BY <1>5, <2>1, <2>2, <2>3
  <2>5. JobDone(n)'
    BY <1>9, <2>4 DEF JobDone, Holds, JobRun
  <2>6. Live(n)' /\ JobSound(n)' /\ ThreadSound(t)'
    BY <1>2, <1>3, <1>4, <1>9, <2>5 DEF Live, JobSound, Pages, ThreadSound
  <2>7. OthersStay(n)
    BY <1>9 DEF Fields, OthersStay
  <2>8. SameJob(n) /\ SamePages(n)
    BY <1>3, <1>5, <1>9, <2>5, <2>6 DEF SameJob, SamePages
  <2>9. OwnStep(t, n)
    BY <1>3, <1>4, <2>6 DEF OwnStep
  <2>10. Writes(n) /\ ThreadFrame
    BY <1>2, <2>1, <2>4 DEF Writes, ThreadFrame
  <2> QED BY <1>3, <2>7, <2>8, <2>9, <2>10, JobStep
<1> QED BY <1>1, <1>7, <1>8, <1>9 DEF Work

(****************************** blocking swap-out ****************************)
(* The values of L, all in memory in base, go to pages that were free, while   *)
(* no child reads the swap file.                                               *)
LoadedIn(base) ==
  \A k \in Keys : \/ base[k] = db[k] /\ truth'[k] = truth[k]
                  \/ db[k].st = "none" /\ base[k].st = "memory" /\ truth'[k] = base[k].val

LEMMA SwapBlockingKeeps ==
  ASSUME VmInv, NEW L \in SUBSET Keys, NEW pg, NEW base \in [Keys -> Entries],
         SwapBlocking(L, pg, base), VmCanSwapOut,
         LoadedIn(base),
         truth' \in [Keys -> Vals \cup {NoVal}], mix' = mix, job' = job, thr' = thr,
         child' = child, pc' = pc, WantSound'
  PROVE  VmInv'
<1> DEFINE R(k) == Run(pg[k], Size[base[k].val])
<1>1. /\ \A k \in L : base[k].st = "memory" /\ pg[k] \in Pages /\ R(k) \subseteq Pages /\ R(k) \cap used = {}
      /\ \A k, m \in L : k # m => R(k) \cap R(m) = {}
      /\ db' = [k \in Keys |-> IF k \in L THEN Pointer("swapped", pg[k], Size[base[k].val]) ELSE base[k]]
      /\ used' = used \cup UNION {R(k) : k \in L}
      /\ disk' = [q \in Pages |-> IF \E k \in L : q \in R(k)
                                  THEN base[CHOOSE k \in L : q \in R(k)].val ELSE disk[q]]
  BY DEF SwapBlocking, VmFindContiguousPages, FreeRuns
<1>2. ASSUME NEW k \in L
      PROVE  /\ base[k].val \in Vals /\ Size[base[k].val] \in Nat /\ pg[k] \in Nat /\ pg[k] \in R(k)
             /\ db'[k].st = "swapped" /\ db'[k].page = pg[k] /\ db'[k].len = Size[base[k].val]
             /\ db'[k] \in Entries
  <2>1. base[k] \in Entries /\ base[k].st = "memory" /\ pg[k] \in Nat
    BY <1>1 DEF Pages
  <2>2. base[k].val \in Vals
    BY <2>1, EntryFields
  <2>3. Size[base[k].val] \in Nat /\ Size[base[k].val] # 0
    BY <2>2, VmAssumption
  <2>4. db'[k] = Pointer("swapped", pg[k], Size[base[k].val])
    BY <1>1
  <2>5. db'[k] \in Entries
    BY <2>1, <2>3, <2>4, EntryMade
  <2>6. pg[k] \in R(k)
    BY <2>1, <2>3, RunHead
  <2>7. db'[k].st = "swapped" /\ db'[k].page = pg[k] /\ db'[k].len = Size[base[k].val]
    BY <2>4, PointerFields
  <2> QED BY <2>1, <2>2, <2>3, <2>5, <2>6, <2>7
<1>3. \A k \in Keys : k \notin L => db'[k] = base[k]
  BY <1>1
<1>4. ASSUME NEW k \in L, NEW q \in R(k) PROVE disk'[q] = base[k].val
  <2>1. q \in Pages /\ \A m \in L : q \in R(m) => m = k
    BY <1>1, <1>4
  <2>2. (CHOOSE m \in L : q \in R(m)) = k
    BY <1>4, <2>1
  <2> QED BY <1>1, <1>4, <2>1, <2>2
<1>5. \A q \in used : disk'[q] = disk[q]
  <2>1. used \subseteq Pages
    BY DEF VmInv, TypeInv
  <2> QED BY <1>1, <2>1
<1>6. disk' \in [Pages -> Vals \cup {NoVal}]
  <2>1. ASSUME NEW q \in Pages PROVE disk'[q] \in Vals \cup {NoVal}
    <3>1. CASE \E k \in L : q \in R(k)
      BY <1>2, <1>4, <3>1
    <3>2. CASE ~\E k \in L : q \in R(k)
      BY <1>1, <3>2 DEF VmInv, TypeInv
    <3> QED BY <3>1, <3>2
  <2> QED BY <1>1, <2>1
<1> HIDE DEF R
<1>7. /\ used = (UNION {KeyRun(m) : m \in Stored}) \cup (UNION {JobRun(m) : m \in Writers})
      /\ \A l, m \in Stored : l # m => KeyRun(l) \cap KeyRun(m) = {}
      /\ \A o, m \in Writers : o # m => JobRun(o) \cap JobRun(m) = {}
      /\ \A l \in Stored, m \in Writers : KeyRun(l) \cap JobRun(m) = {}
      /\ used \subseteq Pages
  BY DEF VmInv, PagesExact
<1>8. ASSUME NEW k \in Keys
      PROVE  /\ k \in Stored => k \notin L /\ db'[k] = db[k] /\ truth'[k] = truth[k]
             /\ k \in Stored' <=> k \in Stored \/ k \in L
  <2>1. k \in Stored => k \notin L /\ base[k] = db[k] /\ truth'[k] = truth[k]
    BY <1>1 DEF Stored, OnDisk, LoadedIn
  <2>2. k \in Stored' <=> k \in Stored \/ k \in L
    BY <1>2, <1>3, <2>1 DEF Stored, OnDisk, LoadedIn
  <2> QED BY <1>3, <2>1, <2>2
<1>9. Stored' = Stored \cup L /\ \A k \in Stored : KeyRun(k)' = KeyRun(k)
  BY <1>8 DEF Stored, KeyRun
<1>10. \A k \in L : KeyRun(k)' = R(k)
  BY <1>2 DEF KeyRun, R
<1>11. Writers' = Writers /\ \A n : JobRun(n)' = JobRun(n)
  BY DEF Writers, Live, JobRun
<1>12. PagesExact'
  <2>1. used' = (UNION {KeyRun(m)' : m \in Stored'}) \cup (UNION {JobRun(m)' : m \in Writers'})
    <3>1. used' = used \cup UNION {R(m) : m \in L}
      BY <1>1
    <3>2. ASSUME NEW q
          PROVE  q \in used' <=> (\E m \in Stored' : q \in KeyRun(m)') \/ (\E m \in Writers' : q \in JobRun(m)')
      BY <1>7, <1>9, <1>10, <1>11, <3>1
    <3> QED BY <3>2
  <2>2. \A k \in L : R(k) \subseteq Pages /\ R(k) \cap used = {} /\ \A m \in L : k # m => R(k) \cap R(m) = {}
    BY <1>1
  <2>3. \A l, m \in Stored' : l # m => KeyRun(l)' \cap KeyRun(m)' = {}
    BY <1>7, <1>9, <1>10, <2>2
  <2>4. \A l \in Stored', m \in Writers' : KeyRun(l)' \cap JobRun(m)' = {}
    BY <1>7, <1>9, <1>10, <1>11, <2>2
  <2>5. used' \subseteq Pages
    <3>1. used' = used \cup UNION {R(m) : m \in L}
      BY <1>1
    <3> QED BY <1>7, <2>2, <3>1
  <2> QED BY <1>7, <1>11, <2>1, <2>3, <2>4, <2>5 DEF PagesExact, Pages
<1>13. AllStand'
  <2> SUFFICES ASSUME NEW k \in Keys PROVE Stands(db[k], truth[k])'
    BY DEF AllStand
  <2>1. CASE k \in L
    <3>1. truth'[k] = base[k].val
      BY <1>1, <2>1 DEF VmInv, AllStand, Stands, OnDisk, LoadedIn
    <3> QED BY <1>2, <1>4, <2>1, <3>1 DEF Stands, OnDisk, Holds, R
  <2>2. CASE k \in Stored
    <3>1. Stands(db[k], truth[k]) /\ OnDisk(db[k])
      BY <2>2 DEF VmInv, AllStand, Stored
    <3>2. \A q \in Run(db[k].page, db[k].len) : disk'[q] = disk[q]
      BY <1>5, <1>7, <2>2 DEF KeyRun
    <3> QED BY <1>8, <2>2, <3>1, <3>2 DEF Stands, Holds
  <2>3. CASE k \notin L /\ k \notin Stored
    <3>1. Stands(db[k], truth[k]) /\ ~OnDisk(db[k])
      BY <2>3 DEF VmInv, AllStand, Stored
    <3> QED BY <1>3, <2>3, <3>1 DEF Stands, OnDisk, LoadedIn
  <2> QED BY <2>1, <2>2, <2>3
<1>14. \A k \in Keys : Moving(db[k]) => db'[k] = db[k] /\ truth'[k] = truth[k]
  BY <1>1, <1>3 DEF Moving, LoadedIn
<1>15. \A k \in Keys : Moving(db'[k]) => Moving(db[k])
  BY <1>2, <1>3 DEF Moving, LoadedIn
<1>16. \A n \in JobIds : Live(n) => job[n].key \in Keys /\ Moving(db[job[n].key])
  BY DEF VmInv, JobsSound, JobSound, Moving
<1>17. ASSUME NEW n \in JobIds, Live(n), JobDone(n) PROVE JobDone(n)'
  <2>1. job[n].type = "swap" => \A q \in Run(job[n].page, job[n].len) : disk'[q] = disk[q]
    BY <1>5, <1>7, <1>17 DEF Writers, JobRun
  <2>2. truth'[job[n].key] = truth[job[n].key]
    BY <1>14, <1>16, <1>17
  <2> QED BY <1>17, <2>1, <2>2 DEF JobDone, Holds
<1>18. JobsSound'
  <2> SUFFICES ASSUME NEW n \in JobIds
               PROVE  JobSound(n)' /\ (Live(n)' /\ job'[n].at = "done" => JobDone(n)')
    BY DEF JobsSound
  <2>1. JobSound(n) /\ (Live(n) /\ job[n].at = "done" => JobDone(n))
    BY DEF VmInv, JobsSound
  <2>2. Live(n)' <=> Live(n)
    BY DEF Live
  <2>3. Live(n) => db'[job[n].key] = db[job[n].key]
    BY <1>14, <1>16
  <2>4. JobSound(n)'
    BY <2>1, <2>2, <2>3 DEF JobSound, Pages
  <2> QED BY <1>17, <2>1, <2>2, <2>4
<1>19. OneJob' /\ HasJob' /\ OneThread'
  BY <1>15 DEF VmInv, OneJob, HasJob, OneThread, Live
<1>20. ThreadsSound'
  <2> SUFFICES ASSUME NEW t \in Threads, Working(t) PROVE ThreadSound(t)'
    BY DEF ThreadsSound, ThreadSound, Working
  <2>1. PICK n : n = thr[t].job
    BY Zenon
  <2>2. n \in JobIds /\ job[n].at = "busy" /\ Live(n) /\ (thr[t].pc = "put" => JobDone(n)')
    BY <1>17, <2>1, OwnJob
  <2> QED BY <2>1, <2>2 DEF ThreadSound
<1>21. TypeInv'
  <2>1. db' \in [Keys -> Entries]
    BY <1>1, <1>2, <1>3
  <2>2. used' \subseteq Pages
    BY <1>12 DEF PagesExact, Pages
  <2> QED BY <1>6, <2>1, <2>2 DEF VmInv, TypeInv, Entries, Pages
<1>22. ChildrenSound' /\ LoadFirst'
  BY DEF ChildrenSound, LoadFirst, VmCanSwapOut, Kinds
<1> QED BY <1>12, <1>13, <1>18, <1>19, <1>20, <1>21, <1>22 DEF VmInv

LEMMA LoadKeyKeeps ==
  ASSUME VmInv, LoadKey PROVE VmInv'
<1>1. PICK k \in mix.keys, v \in mix.vals, L \in SUBSET mix.keys :
        \E pg \in [L -> Pages] :
           /\ db[k].st = "none" /\ SwapBlocking(L, pg, [db EXCEPT ![k] = InMemory(v)])
           /\ truth' = [truth EXCEPT ![k] = v]
  BY DEF LoadKey
<1>2. PICK pg, base : /\ base = [db EXCEPT ![k] = InMemory(v)] /\ SwapBlocking(L, pg, base)
                      /\ db[k].st = "none" /\ truth' = [truth EXCEPT ![k] = v]
  BY <1>1
<1>3. mix.keys \subseteq Keys /\ mix.vals \subseteq Vals
  BY VmAssumption DEF VmInv, TypeInv
<1>4. k \in Keys /\ v \in Vals /\ L \in SUBSET Keys
  BY <1>3
<1>5. db \in [Keys -> Entries] /\ truth \in [Keys -> Vals \cup {NoVal}]
  BY DEF VmInv, TypeInv
<1>6. base[k] = InMemory(v) /\ truth'[k] = v /\ \A m \in Keys : m # k => base[m] = db[m] /\ truth'[m] = truth[m]
  BY <1>2, <1>4, <1>5
<1>7. base \in [Keys -> Entries] /\ truth' \in [Keys -> Vals \cup {NoVal}]
  BY <1>2, <1>4, <1>5, <1>6, EntryMade
<1>8. base[k].st = "memory" /\ base[k].val = v
  BY <1>6, MemoryFields
<1>9. /\ mix' = mix /\ job' = job /\ thr' = thr /\ child' = child /\ pc' = pc /\ WantSound' /\ VmCanSwapOut
  BY DEF LoadKey, VmInv, WantSound, NoCommand, LoadFirst
<1>10. LoadedIn(base)
  BY <1>2, <1>6, <1>8 DEF LoadedIn
<1> QED BY <1>2, <1>4, <1>7, <1>9, <1>10, SwapBlockingKeeps

LEMMA CronBlockingKeeps ==
  ASSUME VmInv, CronBlocking PROVE VmInv'
<1>0. PICK L \in SUBSET InRam : \E pg \in [L -> Pages] : SwapBlocking(L, pg, db)
  BY DEF CronBlocking
<1>1. PICK pg, base : base = db /\ SwapBlocking(L, pg, base)
  BY <1>0
<1>2. L \in SUBSET Keys
  BY DEF InRam
<1>3. /\ base \in [Keys -> Entries] /\ truth' \in [Keys -> Vals \cup {NoVal}]
      /\ mix' = mix /\ job' = job /\ thr' = thr /\ child' = child /\ pc' = pc /\ truth' = truth
      /\ VmCanSwapOut
  BY <1>1 DEF CronBlocking, VmInv, TypeInv
<1>4. WantSound'
  BY DEF CronBlocking, VmInv, WantSound, NoCommand
<1>5. LoadedIn(base)
  BY <1>1, <1>3 DEF LoadedIn
<1> QED BY <1>1, <1>2, <1>3, <1>4, <1>5, SwapBlockingKeeps

(****************************** the other steps ******************************)
LEMMA QuietKeeps ==
  ASSUME VmInv,
         \/ LoadDone \/ BeforeSleep \/ Slept \/ SaveEnds \/ UNCHANGED vars
         \/ \E c \in Clients : FreeClient(c)
         \/ \E t \in Threads : Exit(t) \/ Signal(t)
         \/ \E kind \in Kinds \cup {"save"} : StartSave(kind)
  PROVE  VmInv'
<1>1. /\ mix' = mix /\ db' = db /\ job' = job /\ used' = used /\ disk' = disk /\ truth' = truth
      /\ child' = child
  BY DEF LoadDone, BeforeSleep, Slept, SaveEnds, vars, FreeClient, Exit, Signal, StartSave
<1>2. thr' = thr \/ \E t \in Threads, e \in {Off, Idle} : thr' = [thr EXCEPT ![t] = e]
  BY DEF LoadDone, BeforeSleep, Slept, SaveEnds, vars, FreeClient, Exit, Signal, StartSave, Step
<1>21. thr \in ThreadType
  BY DEF VmInv, TypeInv, ThreadType
<1>3. thr' \in ThreadType /\ \A t \in Threads : Working(t)' => Working(t) /\ thr'[t] = thr[t]
  <2>1. CASE thr' = thr
    BY <1>21, <2>1 DEF Working
  <2>2. ASSUME NEW t \in Threads, NEW e \in {Off, Idle}, thr' = [thr EXCEPT ![t] = e]
        PROVE  thr' \in ThreadType /\ \A u \in Threads : Working(u)' => Working(u) /\ thr'[u] = thr[u]
    <3>1. e \in [pc : {"off", "idle", "work", "put", "signal"}, job : JobIds \cup {0}]
          /\ e.pc \notin {"work", "put"}
      BY DEF Off, Idle
    <3> QED BY <1>21, <2>2, <3>1 DEF ThreadType, Working
  <2> QED BY <1>2, <2>1, <2>2
<1>4. pc' = "load" => pc = "load"
  BY DEF LoadDone, BeforeSleep, Slept, SaveEnds, vars, FreeClient, Exit, Signal, StartSave, Kinds
<1>5. LoadFirst'
  BY <1>1, <1>4 DEF VmInv, LoadFirst, VmCanSwapOut
<1>6. WantSound'
  <2>1. CASE want' = want
    BY <2>1 DEF VmInv, WantSound, NoCommand
  <2>2. CASE \E c \in Clients : FreeClient(c)
    BY <2>2 DEF FreeClient, VmInv, WantSound, NoCommand
  <2> QED BY <2>1, <2>2 DEF LoadDone, BeforeSleep, Slept, SaveEnds, vars, Exit, Signal, StartSave
<1>7. ChildrenSound' /\ DOMAIN child' = Kinds
  BY <1>1 DEF VmInv, ChildrenSound, Writers, Live, Stands, Holds, TypeInv
<1> QED BY <1>1, <1>3, <1>5, <1>6, <1>7, FrameKeeps

LEMMA ForkKeeps ==
  ASSUME VmInv, NEW kind \in Kinds, Fork(kind) \/ ChildExit(kind) PROVE VmInv'
<1>1. /\ mix' = mix /\ db' = db /\ job' = job /\ used' = used /\ disk' = disk /\ truth' = truth
      /\ thr' = thr /\ want' = want /\ pc' = "loop"
  BY DEF Fork, ChildExit
<1>2. LoadFirst' /\ WantSound' /\ thr' \in ThreadType
  BY <1>1 DEF LoadFirst, VmInv, WantSound, NoCommand, TypeInv, ThreadType
<1>3. DOMAIN child' = Kinds
  BY DEF Fork, ChildExit, VmInv, TypeInv
<1>4. \A t \in Threads : Working(t)' => Working(t) /\ thr'[t] = thr[t]
  BY <1>1 DEF Working
<1>5. ChildrenSound'
  <2> SUFFICES ASSUME NEW x \in Kinds, child'[x].on
               PROVE  /\ \A k \in Keys : Stands(child[x].db[k], child[x].truth[k])'
                      /\ \A n \in Writers' : job'[n].at = "done"
    BY DEF ChildrenSound
  <2>1. Writers' = Writers
    BY <1>1 DEF Writers, Live
  <2>2. DOMAIN child = Kinds
    BY DEF VmInv, TypeInv
  <2>3. CASE child'[x] = child[x]
    <3>1. /\ \A k \in Keys : Stands(child[x].db[k], child[x].truth[k])
          /\ \A n \in Writers : job[n].at = "done"
      BY <2>3 DEF VmInv, ChildrenSound
    <3>2. \A k \in Keys : Stands(child[x].db[k], child[x].truth[k])'
      BY <1>1, <2>3, <3>1 DEF Stands, Holds
    <3> QED BY <1>1, <2>1, <3>1, <3>2
  <2>4. CASE child'[x] # child[x]
    <3>1. Fork(kind) /\ x = kind
      <4>1. x = kind
        BY <2>2, <2>4 DEF Fork, ChildExit
      <4>2. CASE ChildExit(kind)
        BY <2>2, <4>1, <4>2 DEF ChildExit, NoChild
      <4> QED BY <4>1, <4>2
    <3>2. child'[x].db = db /\ child'[x].truth = truth
      BY <2>2, <3>1 DEF Fork
    <3>3. \A k \in Keys : Stands(child[x].db[k], child[x].truth[k])'
      BY <1>1, <3>2 DEF VmInv, AllStand, Stands, Holds
    <3>4. \A n \in Writers : job[n].at = "done"
      BY <3>1 DEF Fork, WaitEmptyIOJobsQueue, Listed, Writers, Live, VmInv, JobsSound, JobSound
    <3> QED BY <1>1, <2>1, <3>3, <3>4
  <2> QED BY <2>3, <2>4
<1> QED BY <1>1, <1>2, <1>3, <1>4, <1>5, FrameKeeps

(* At the start nothing is swapped out, no job exists and no child runs.       *)
LEMMA InitSound == Init => VmInv
<1> SUFFICES ASSUME Init PROVE VmInv
  OBVIOUS
<1> USE DEF Init
<1>1. /\ \A k \in Keys : db[k].st = "none" /\ db[k].val = NoVal /\ truth[k] = NoVal
      /\ \A n \in JobIds : job[n].at = "free" /\ job[n].canceled = FALSE
      /\ \A t \in Threads : thr[t].pc = "off"
      /\ \A x \in Kinds : ~child[x].on
  BY DEF Missing, NoJob, Off, NoChild
<1>2. TypeInv
  BY EntryMade DEF TypeInv, Off
<1>3. PagesExact
  <2>1. Stored = {} /\ Writers = {}
    BY <1>1 DEF Stored, Writers, OnDisk, Live
  <2> QED BY <2>1 DEF PagesExact
<1>4. JobsSound /\ OneJob /\ HasJob
  BY <1>1 DEF JobsSound, OneJob, HasJob, JobSound, Live, Moving
<1>5. ThreadsSound /\ OneThread /\ AllStand /\ LoadFirst /\ ChildrenSound /\ WantSound
  BY <1>1 DEF ThreadsSound, ThreadSound, OneThread, AllStand, Stands, OnDisk, LoadFirst,
              VmCanSwapOut, ChildrenSound, WantSound
<1> QED BY <1>2, <1>3, <1>4, <1>5 DEF VmInv

LEMMA StepSound == VmInv /\ [Next]_vars => VmInv'
<1> SUFFICES ASSUME VmInv, [Next]_vars PROVE VmInv'
  OBVIOUS
<1>1. CASE LoadKey BY <1>1, LoadKeyKeeps
<1>2. CASE CronBlocking BY <1>2, CronBlockingKeeps
<1>3. CASE CronThreaded BY <1>3, CronThreadedKeeps
<1>4. CASE \E c \in Clients : Command(c) BY <1>4, CommandKeeps
<1>5. CASE \E c \in Clients : Resume(c) BY <1>5, ResumeKeeps
<1>6. CASE Finish
  BY <1>6, CompletedCanceledKeeps, CompletedLoadKeeps, CompletedPrepareKeeps, CompletedSwapKeeps DEF Finish
<1>7. CASE \E t \in Threads : Take(t) BY <1>7, TakeKeeps
<1>8. CASE \E t \in Threads : Work(t) BY <1>8, WorkKeeps
<1>9. CASE \E t \in Threads : PutDone(t) BY <1>9, PutDoneKeeps
<1>10. CASE \E kind \in Kinds : Fork(kind) \/ ChildExit(kind) BY <1>10, ForkKeeps
<1>11. CASE \/ LoadDone \/ BeforeSleep \/ Slept \/ SaveEnds \/ UNCHANGED vars
            \/ \E c \in Clients : FreeClient(c)
            \/ \E t \in Threads : Exit(t) \/ Signal(t)
            \/ \E kind \in Kinds \cup {"save"} : StartSave(kind)
  BY <1>11, QuietKeeps
<1> QED BY <1>1, <1>2, <1>3, <1>4, <1>5, <1>6, <1>7, <1>8, <1>9, <1>10, <1>11 DEF Next, ThreadStep

LEMMA Sound == Spec => []VmInv
BY InitSound, StepSound, PTL DEF Spec

(* No page of the swap file is lost, counted twice or shared: vmMarkPageUsed   *)
(* and vmMarkPageFree always find the page as they assert it.                  *)
THEOREM PagesKept == Spec => []PagesExact
<1>1. VmInv => PagesExact
  BY DEF VmInv
<1> QED BY <1>1, Sound, PTL

(* Moving values between memory and disk, by the server or by threads, with    *)
(* jobs cancelled half-way, is never seen in what a key holds.                 *)
THEOREM SwappingInvisible == Spec => []Invisible
<1>1. VmInv => Invisible
  BY ValueStands DEF VmInv, AllStand, Invisible
<1> QED BY <1>1, Sound, PTL

(* What a saving child reads from the swap file while the server goes on is    *)
(* the dataset it was forked with.                                             *)
THEOREM SnapshotsKept == Spec => []SnapshotStable
<1>1. VmInv => SnapshotStable
  BY ValueStands DEF VmInv, ChildrenSound, SnapshotStable
<1> QED BY <1>1, Sound, PTL
=============================================================================
