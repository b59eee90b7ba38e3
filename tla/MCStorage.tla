----------------------------- MODULE MCStorage -----------------------------
(* Small instances of the two ways to keep more data than memory: the virtual  *)
(* memory of redis-2.2.107 and the disk store of redis_unstable. A server is   *)
(* built with one of them (part). Each mix brings together the operations that *)
(* can race: everything that removes a key against loads of it, swap-outs      *)
(* against the commands and saves that cancel or wait for them, saves of two   *)
(* keys that take turns in the queue, clients that wait for several keys.      *)
EXTENDS VirtualMemory
CONSTANTS Zero, MaxVal, MaxJobs, DsMixes
VARIABLES ds, part
D == INSTANCE DiskStore WITH Mixes <- DsMixes

MCSize == [v \in Vals |-> v]
VmMix(ops, keys, vals, clients, pool, saves) ==
  [ops |-> ops, keys |-> keys, vals |-> vals, clients |-> clients, pool |-> pool, saves |-> saves]
MCMixes ==
  {VmMix({"get", "write", "del"}, {"a"}, {1, 2}, {"c"}, {"t1"}, {"rdb"}),
   VmMix({"get", "set"}, {"a", "b"}, {1}, {"c"}, {"t1"}, {}),
   VmMix({"get", "write"}, {"a", "b"}, {2}, {"c"}, {}, {"save", "aof"}),
   VmMix({"sort", "flush"}, {"a", "b"}, {1}, {"c"}, {"t1", "t2"}, {}),
   VmMix({"get", "del"}, {"a"}, {1}, {"c", "d"}, {"t1"}, {})}
DsMix(ops, keys, clients) == [ops |-> ops, keys |-> keys, clients |-> clients]
MCDsMixes ==
  {DsMix({"get", "push", "del", "evict", "crash"}, {"a"}, {"c", "d"}),
   DsMix({"get", "push", "set", "flush"}, {"b"}, {"c", "d"}),
   DsMix({"push", "del", "save", "evict"}, {"a"}, {"c", "d"}),
   DsMix({"push", "flush", "save"}, {"a"}, {"c"}),
   DsMix({"push", "del", "save"}, {"a", "b"}, {"c"}),
   DsMix({"get", "evict"}, {"a", "b"}, {"c", "d"})}

(* The part that is not built in stands still.                                 *)
NoDiskStore == [D!Start([k \in Keys |-> 1], [ops |-> {}, keys |-> {}, clients |-> {}])
                  EXCEPT !.th = "wait"]
StorageInit ==
  \/ part = "vm" /\ Init /\ ds = NoDiskStore
  \/ part = "ds" /\ D!Init /\ Init /\ mix = CHOOSE x \in Mixes : x.pool = {}
StorageNext ==
  \/ part = "vm" /\ Next /\ UNCHANGED <<ds, part>>
  \/ part = "ds" /\ D!Next /\ UNCHANGED <<vars, part>>
StorageSpec == StorageInit /\ [][StorageNext]_<<vars, ds, part>> /\ Fairness /\ D!Fairness

(* Both keep their books of what is under way: jobs and marked keys of the     *)
(* virtual memory, flags, jobs and waiting clients of the disk store.          *)
IoSound == JobsMatch /\ D!IoSound
(* A value in memory with nothing scheduled or in flight is the value on disk. *)
CleanOnDisk == D!CleanOnDisk
(* The file of a finished BGSAVE is the dataset at the moment it began.        *)
SnapshotExact == D!SnapshotExact
(* A client does not wait for ever: for a key that is being loaded, or, in the *)
(* disk store, for anything, unless the main thread is caught in               *)
(* cacheForcePointInTime.                                                      *)
Waits(c) == \/ \E k \in wait[c] : db[k].st = "loading"
            \/ ds.cl[c] # D!Idle /\ ~D!Stuck /\ D!Live
Resumed == \A c \in Clients : []<>~Waits(c)
=============================================================================
