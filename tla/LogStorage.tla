----------------------------- MODULE LogStorage -----------------------------
(***************************************************************************)
(* The logs on disk.  PodWatcher collects the logs of a pod that is being  *)
(* deleted into files and lists these in the pod's Investigation, while    *)
(* Cleanup deletes the files of expired Investigations and, when the disk  *)
(* is too full, the oldest files.  Nothing coordinates the two: files are  *)
(* measured, listed and deleted while others are being written.            *)
(***************************************************************************)
EXTENDS Integers, FiniteSetsExt

CONSTANTS
  Pods,           \* pods, and the names of their Investigations
  Containers,     \* containers of every pod
  Size,           \* bytes a container writes, by pod
  maxBytes,       \* spec.logStorage.maxSizeMB
  Undeletable,    \* files whose deletion always fails
  MaxTime,        \* bound: seconds, the granularity of names and mtimes
  MaxInvs         \* bound: Investigations that are created

ASSUME LogStorageAssumption ==
  /\ IsFiniteSet(Pods) /\ IsFiniteSet(Containers) /\ "none" \notin Pods
  /\ Size \in [Pods -> Nat] /\ maxBytes \in Nat
  /\ MaxTime \in Nat /\ MaxInvs \in Nat

Times == 0..MaxTime
(* <namespace>/<pod>/<container>/<second>.log                              *)
Paths == Pods \X Containers \X Times
SizeOf(p) == Size[p[1]]

NoFile == [size |-> 0, mtime |-> -1]
NoInv == [id |-> 0, logPaths |-> {}]
NoItem == [name |-> "none", inv |-> NoInv]

VARIABLES
  now,
  disk,           \* path to file, or NoFile
  invs,           \* pod to Investigation, in the API server, or NoInv
  ids,            \* Investigations created so far
  expired,        \* Investigations past the retention period
  pw,             \* the next step of PodWatcher's log collection
  pod, stamp,     \* its pod and the second it started in
  containers,     \* containers it has still to read
  path,           \* the file it is writing, if pw is "copy"
  logPaths,       \* the files it has written
  cl,             \* the next step of Cleanup
  items, item,    \* Cleanup's list: copies of expired Investigations; the
                  \* one it is at
  usage,          \* the usage it measured last
  oldest          \* its list of files, with their mtimes

writer == <<pw, pod, stamp, containers, path, logPaths>>
cleaner == <<cl, items, item, usage, oldest>>
cluster == <<invs, ids, expired>>
vars == <<now, disk, cluster, writer, cleaner>>

None == "none"
NoPath == <<None, None, 0>>

Init ==
  /\ now = 0
  /\ disk = [p \in Paths |-> NoFile]
  /\ invs = [n \in Pods |-> NoInv] /\ ids = 0 /\ expired = {}
  /\ pw = "idle" /\ pod = None /\ stamp = 0 /\ containers = {}
  /\ path = NoPath /\ logPaths = {}
  /\ cl = "idle" /\ items = {} /\ item = NoItem /\ usage = 0 /\ oldest = {}

Files == {p \in Paths : disk[p] # NoFile}

UsageBytes == SumFunctionOnSet([p \in Paths |-> disk[p].size], Files)
-----------------------------------------------------------------------------
(***************************************************************************)
(* CollectLogs and DiskStorage.Write.                                      *)
(***************************************************************************)
CollectStart ==
  /\ pw = "idle"
  /\ \E n \in Pods : pod' = n
  /\ stamp' = now
  /\ containers' = Containers /\ logPaths' = {}
  /\ pw' = "collect"
  /\ UNCHANGED <<now, disk, cluster, path, cleaner>>

(* The kubelet's stream cannot be opened.                                  *)
StreamFails ==
  /\ pw = "collect"
  /\ \E k \in containers : containers' = containers \ {k}
  /\ UNCHANGED <<now, disk, cluster, pw, pod, stamp, path, logPaths, cleaner>>

(* os.Create: a file of the same second is emptied.                        *)
WriteStart ==
  /\ pw = "collect"
  /\ \E k \in containers : path' = <<pod, k, stamp>>
  /\ containers' = containers \ {path'[2]}
  /\ disk' = [disk EXCEPT ![path'] = [size |-> 0, mtime |-> now]]
  /\ pw' = "copy"
  /\ UNCHANGED <<now, cluster, pod, stamp, logPaths, cleaner>>

(* io.Copy writes the log part by part, into nothing if the file has been  *)
(* deleted meanwhile.                                                      *)
WriteSome ==
  /\ pw = "copy" /\ disk[path] # NoFile
  /\ \E n \in disk[path].size + 1 .. SizeOf(path) :
       disk' = [disk EXCEPT ![path] = [size |-> n, mtime |-> now]]
  /\ UNCHANGED <<now, cluster, writer, cleaner>>

(* The end of the log; that the file is gone is not noticed.               *)
WriteDone ==
  /\ pw = "copy" /\ (disk[path] = NoFile \/ disk[path].size = SizeOf(path))
  /\ logPaths' = logPaths \cup {path}
  /\ pw' = "collect" /\ path' = NoPath
  /\ UNCHANGED <<now, disk, cluster, pod, stamp, containers, cleaner>>

(* An error on the way: what has been copied stays, and is not listed.     *)
WriteFails ==
  /\ pw = "copy"
  /\ pw' = "collect" /\ path' = NoPath
  /\ UNCHANGED <<now, disk, cluster, pod, stamp, containers, logPaths, cleaner>>

CollectReturn ==
  /\ pw' = "idle" /\ pod' = None /\ stamp' = 0 /\ logPaths' = {}
  /\ UNCHANGED <<containers, path>>

(* ensureInvestigation, in one step: PodForensics has its calls.           *)
EnsureInvestigation ==
  /\ pw = "collect" /\ containers = {} /\ logPaths # {}
  /\ \/ /\ invs[pod] = NoInv /\ ids < MaxInvs
        /\ ids' = ids + 1
        /\ invs' = [invs EXCEPT ![pod] = [id |-> ids', logPaths |-> logPaths]]
     \/ /\ invs[pod] # NoInv
        /\ invs' = [invs EXCEPT ![pod].logPaths = @ \cup logPaths]
        /\ UNCHANGED ids
  /\ CollectReturn
  /\ UNCHANGED <<now, disk, expired, cleaner>>

(* No log at all, a refusal, a conflict or another error: the pod goes and *)
(* the files stay.                                                         *)
EnsureNothing ==
  /\ pw = "collect" /\ containers = {}
  /\ CollectReturn
  /\ UNCHANGED <<now, disk, cluster, cleaner>>
-----------------------------------------------------------------------------
(***************************************************************************)
(* runCleanup: Investigations past the retention period.                   *)
(***************************************************************************)
(* Variant: the age is not looked at.                                      *)
ListAll ==
  /\ cl = "idle"
  /\ items' = {[name |-> n, inv |-> invs[n]] :
                 n \in {m \in Pods : invs[m] # NoInv}}
  /\ cl' = "logs"
  /\ UNCHANGED <<now, disk, cluster, writer, item, usage, oldest>>

(* The list comes from the informer's cache; that it may be old already    *)
(* makes no difference, since it is used any time later.                   *)
ListExpired ==
  /\ cl = "idle"
  /\ items' = {[name |-> n, inv |-> invs[n]] :
                 n \in {m \in Pods : invs[m].id \in expired}}
  /\ cl' = "logs"
  /\ UNCHANGED <<now, disk, cluster, writer, item, usage, oldest>>

Removed(ps) == [p \in Paths |-> IF p \in ps THEN NoFile ELSE disk[p]]

(* The log files of an item; errors are logged, and the files stay.        *)
DeleteLogs ==
  /\ cl = "logs"
  /\ \E i \in items : item' = i
  /\ disk' = Removed(item'.inv.logPaths \ Undeletable)
  /\ items' = items \ {item'}
  /\ cl' = "item"
  /\ UNCHANGED <<now, cluster, writer, usage, oldest>>

(* Delete goes by name, whichever Investigation bears it by now, and may   *)
(* fail.                                                                   *)
DeleteInvestigation ==
  /\ cl = "item"
  /\ \/ invs' = [invs EXCEPT ![item.name] = NoInv]
     \/ UNCHANGED invs
  /\ cl' = "logs" /\ item' = NoItem
  /\ UNCHANGED <<now, disk, ids, expired, writer, items, usage, oldest>>
-----------------------------------------------------------------------------
(***************************************************************************)
(* enforceStorageLimit, with a limit configured.                           *)
(***************************************************************************)
MeasureUsage ==
  /\ cl = "logs" /\ items = {}
  /\ \/ UsageBytes <= maxBytes /\ cl' = "idle" /\ UNCHANGED usage
     \/ UsageBytes > maxBytes /\ cl' = "oldest" /\ usage' = UsageBytes
  /\ UNCHANGED <<now, disk, cluster, writer, items, item, oldest>>

OldestFiles ==
  /\ cl = "oldest"
  /\ oldest' = {[path |-> p, mtime |-> disk[p].mtime] : p \in Files}
  /\ cl' = "space"
  /\ UNCHANGED <<now, disk, cluster, writer, items, item, usage>>

(* The next file in the order of the mtimes; sort.Slice orders equal ones  *)
(* at will.                                                                *)
NextOldest(f) == f \in oldest /\ \A g \in oldest : f.mtime <= g.mtime

(* Variant: an error ends the loop.                                        *)
DeleteFailsForAll ==
  /\ cl = "space" /\ usage > maxBytes
  /\ \E f \in oldest : NextOldest(f) /\ f.path \in Undeletable
  /\ oldest' = {} /\ usage' = 0 /\ cl' = "idle"
  /\ UNCHANGED <<now, disk, cluster, writer, items, item>>

DeleteFails ==
  /\ cl = "space" /\ usage > maxBytes
  /\ \E f \in oldest :
       NextOldest(f) /\ f.path \in Undeletable /\ oldest' = oldest \ {f}
  /\ UNCHANGED <<now, disk, cluster, writer, cl, items, item, usage>>

DeleteOldest ==
  /\ cl = "space" /\ usage > maxBytes
  /\ \E f \in oldest :
       /\ NextOldest(f) /\ f.path \notin Undeletable
       /\ disk' = Removed({f.path})
       /\ oldest' = oldest \ {f}
  /\ cl' = "recheck"
  /\ UNCHANGED <<now, cluster, writer, items, item, usage>>

(* Variant: the usage is measured once.                                    *)
RecheckNothing ==
  /\ cl = "recheck"
  /\ cl' = "space"
  /\ UNCHANGED <<now, disk, cluster, writer, items, item, usage, oldest>>

RecheckUsage ==
  /\ cl = "recheck"
  /\ usage' = UsageBytes
  /\ cl' = "space"
  /\ UNCHANGED <<now, disk, cluster, writer, items, item, oldest>>

SpaceDone ==
  /\ cl = "space" /\ (usage <= maxBytes \/ oldest = {})
  /\ oldest' = {} /\ usage' = 0 /\ cl' = "idle"
  /\ UNCHANGED <<now, disk, cluster, writer, items, item>>
-----------------------------------------------------------------------------
(***************************************************************************)
(* The process and time.                                                   *)
(***************************************************************************)

(* A new process finds the volume as it is, with files half written.       *)
Restart ==
  /\ pw' = "idle" /\ pod' = None /\ stamp' = 0
  /\ containers' = {} /\ path' = NoPath /\ logPaths' = {}
  /\ cl' = "idle" /\ items' = {} /\ item' = NoItem
  /\ usage' = 0 /\ oldest' = {}
  /\ UNCHANGED <<now, disk, cluster>>

Tick ==
  /\ now < MaxTime /\ now' = now + 1
  /\ UNCHANGED <<disk, cluster, writer, cleaner>>

Expire ==
  /\ \E n \in Pods : /\ invs[n].id \notin expired \cup {NoInv.id}
                     /\ expired' = expired \cup {invs[n].id}
  /\ UNCHANGED <<now, disk, invs, ids, writer, cleaner>>

Collect == \/ CollectStart \/ StreamFails
           \/ WriteStart \/ WriteSome \/ WriteDone \/ WriteFails
           \/ EnsureInvestigation \/ EnsureNothing

Clean == \/ ListExpired \/ DeleteLogs \/ DeleteInvestigation
         \/ MeasureUsage \/ OldestFiles \/ DeleteFails \/ DeleteOldest
         \/ RecheckUsage \/ SpaceDone

Next == Collect \/ Clean \/ Restart \/ Tick \/ Expire

Spec == Init /\ [][Next]_vars

(* Cleanup's ticker and its loop go on, and some process lives for long.   *)
FairSpec == Spec /\ WF_vars(Clean) /\ <>[][~Restart]_vars
-----------------------------------------------------------------------------
(***************************************************************************)
(* Properties.                                                             *)
(***************************************************************************)
Invs == [id : 0..MaxInvs, logPaths : SUBSET Paths]

(* The shape of the state; only an expired Investigation is being pruned.  *)
TypeOK ==
  /\ now \in Times
  /\ disk \in [Paths -> [size : Nat, mtime : Times] \cup {NoFile}]
  /\ invs \in [Pods -> Invs]
  /\ ids \in 0..MaxInvs /\ expired \subseteq 1..ids
  /\ pw \in {"idle", "collect", "copy"}
  /\ pw # "idle" => pod \in Pods
  /\ stamp \in Times /\ containers \subseteq Containers
  /\ path \in Paths \cup {NoPath} /\ (pw = "copy" <=> path # NoPath)
  /\ logPaths \subseteq Paths
  /\ cl \in {"idle", "logs", "item", "oldest", "space", "recheck"}
  /\ items \subseteq [name : Pods, inv : Invs]
  /\ \A i \in items : i.inv.id \in expired
  /\ cl = "item" => item.name \in Pods /\ item.inv.id \in expired
  /\ usage \in Nat
  /\ oldest \subseteq [path : Paths, mtime : Times]

(* What the files would take up if all were complete: files that are being *)
(* written, or were given up, take less.                                   *)
FullSize == SumFunctionOnSet([p \in Paths |-> SizeOf(p)], Files)

(* A log goes with an expired Investigation that lists it, or because the  *)
(* files that are there, once complete, take more than the limit: what     *)
(* Cleanup measured before does not cost a log more (enforceStorageLimit). *)
LossJustified ==
  [][\A p \in Files : disk'[p] = NoFile =>
       \/ p \in item'.inv.logPaths /\ item'.inv.id \in expired
       \/ FullSize > maxBytes]_vars

(* "MaxSizeMB is the maximum storage usage before oldest logs are pruned"  *)
(* (detectiveconfig_types.go): once no more logs are written, the usage    *)
(* comes down to the limit and stays there, however many files have to go, *)
(* whatever was written while the earlier ones were measured, listed and   *)
(* deleted, and also if the oldest file cannot be deleted, as long as such *)
(* files alone are within the limit.  While logs are written without end,  *)
(* they may take the place of those that are deleted.                      *)
LimitEnforced == <>[](pw # "copy") => <>[](UsageBytes <= maxBytes)
=============================================================================
