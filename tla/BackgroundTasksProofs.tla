----------------------- MODULE BackgroundTasksProofs -----------------------
(***************************************************************************)
(* A theorem about BackgroundTasks, for any runners, keys, calls and       *)
(* bounds: a key starts one process as long as its receipt is kept.  The   *)
(* receipt survives because every call that writes a task object it read   *)
(* before an await writes the key that is still on record.                 *)
(***************************************************************************)
EXTENDS BackgroundTasks, WellFoundedInduction, TLAPS

CallRecord ==
    [at : {"idle", "spawn", "kill"}, op : {"none", "cancel", "cleanup", "shutdown"},
     runner : Runners \cup {NoRunner}, id : {0} \cup Ids, task : Task, rest : [Ids -> Task]]

(* Records and calls have their shape, and only finished records age.      *)
Shaped ==
    /\ tasks \in [Ids -> Task]
    /\ \A i \in Ids : tasks[i].aged => tasks[i].status \in Finished
    /\ call \in [Calls -> CallRecord]
    /\ starts \in [Keys -> Nat]

(* Number i is taken by a record with this key, and no pruning drops it.   *)
Kept(i, key) ==
    /\ i \in Ids
    /\ tasks[i].key = key /\ tasks[i].status # "none" /\ ~tasks[i].aged

HasReceipt(k) == \E i \in Ids : tasks[i].key = k

StartsHaveReceipts ==
    \A k \in Keys : starts[k] <= 1 /\ (starts[k] # 0 => HasReceipt(k))

(* What a call will write has the key of the record it will write over.    *)
CallKept(c) ==
    /\ call[c].at = "spawn" => call[c].id \in Ids /\ ~call[c].task.aged
    /\ call[c].at = "spawn" /\ call[c].task.key # NoKey =>
          Kept(call[c].id, call[c].task.key) /\ starts[call[c].task.key] = 0
    /\ call[c].at = "kill" => call[c].op # "none" /\ Kept(call[c].id, call[c].task.key)
    /\ call[c].op = "cleanup" =>
          \A j \in Ids : call[c].rest[j] # NoTask => Kept(j, call[c].rest[j].key)

SpawnsOf(k) == {c \in Calls : call[c].at = "spawn" /\ call[c].task.key = k}

SpawnsAreDistinct ==
    \A k \in Keys : \A c, d \in SpawnsOf(k) : c = d

Inv ==
    /\ Shaped /\ StartsHaveReceipts /\ SpawnsAreDistinct
    /\ \A c \in Calls : CallKept(c)

-----------------------------------------------------------------------------
(* A number that is given next is on no record: it is above the highest.   *)
LEMMA NextIdIsFree ==
    ASSUME NextId \in Ids
    PROVE  NextId \notin Recorded
<1>1. CASE Recorded = {}
  BY <1>1
<1>2. CASE Recorded # {}
  <2> DEFINE Below == {MaxTasks - i : i \in Recorded}
  <2>1. Recorded \subseteq Ids /\ Below \subseteq Nat /\ Below # {}
    BY <1>2, BoundsAssumption DEF Recorded, Ids
  <2>2. PICK x \in Below : \A y \in Below : ~ (<<y, x>> \in OpToRel(<, Nat))
    BY <2>1, WFMin, NatLessThanWellFounded
  <2>3. PICK m \in Recorded : x = MaxTasks - m
    OBVIOUS
  <2>4. \A j \in Recorded : j <= m
    <3> SUFFICES ASSUME NEW j \in Recorded
                 PROVE  j <= m
      OBVIOUS
    <3>1. MaxTasks - j \in Below
      OBVIOUS
    <3>2. ~ (MaxTasks - j < MaxTasks - m)
      BY <3>1, <2>1, <2>2, <2>3 DEF OpToRel
    <3> QED
      BY <3>2, <2>1, BoundsAssumption DEF Ids
  <2>5. \E i \in Recorded : \A j \in Recorded : j <= i
    BY <2>4
  <2>6. PICK i \in Recorded : NextId = 1 + i /\ \A j \in Recorded : j <= i
    BY <2>5, <1>2 DEF NextId
  <2> QED
    BY <2>1, <2>6, BoundsAssumption DEF Ids
<1> QED
  BY <1>1, <1>2

-----------------------------------------------------------------------------
(* Records that keep keys, presence and age: what every step but the       *)
(* reservation of a number makes of tasks.json.                            *)
Faithful(records) ==
    /\ records \in [Ids -> Task]
    /\ \A i \in Ids :
          /\ records[i].aged => records[i].status \in Finished
          /\ records[i].key = tasks[i].key
          /\ tasks[i].status # "none" => records[i].status # "none"
          /\ ~tasks[i].aged => ~records[i].aged

KeepsReceipts ==
    /\ tasks' \in [Ids -> Task]
    /\ \A i \in Ids : tasks'[i].aged => tasks'[i].status \in Finished
    /\ starts' \in [Keys -> Nat]
    /\ \A k \in Keys : starts'[k] <= 1 /\ (starts'[k] # 0 => HasReceipt(k)')
    /\ \A i \in Ids, key \in Keys \cup {NoKey} : Kept(i, key) => Kept(i, key)'
    /\ \A k \in Keys : starts[k] = 0 => starts'[k] = 0

(* The blank record is a record, and carries no key. *)
LEMMA NoTaskIsTask == NoTask \in Task /\ NoTask.key \notin Keys
BY NoKeyAssumption DEF NoTask, Task

(* Saving faithful records keeps every receipt that is counted on. *)
LEMMA SavesKeeps ==
    ASSUME NEW records, Inv, Faithful(records), Saves(records)
    PROVE  KeepsReceipts
<1>1. tasks' = records /\ starts' = starts
  BY DEF Saves
<1> QED
  BY <1>1 DEF Inv, Shaped, StartsHaveReceipts, HasReceipt, Kept, Faithful, KeepsReceipts

(* So does pruning: what it drops has aged. *)
LEMMA PruneKeeps ==
    ASSUME NEW records, Inv, Faithful(records), SavesAndPrunes(records)
    PROVE  /\ KeepsReceipts
           /\ \A i \in Ids : tasks'[i] = IF records[i].aged THEN NoTask ELSE records[i]
<1>1. tasks' = [i \in Ids |-> IF records[i].aged THEN NoTask ELSE records[i]]
  BY DEF SavesAndPrunes
<1>2. tasks' \in [Ids -> Task] /\ \A i \in Ids : tasks'[i].aged => tasks'[i].status \in Finished
  BY <1>1, NoTaskIsTask DEF Faithful, NoTask
<1>3. \A k \in Keys : starts'[k] = IF HasReceipt(k)' THEN starts[k] ELSE 0
  BY <1>1 DEF SavesAndPrunes, HasReceipt
<1>4. starts' \in [Keys -> Nat]
  BY DEF SavesAndPrunes, Inv, Shaped
<1>5. \A i \in Ids, key \in Keys \cup {NoKey} : Kept(i, key) => Kept(i, key)'
  BY <1>1 DEF Faithful, Kept
<1>6. \A k \in Keys : /\ starts'[k] <= 1 /\ (starts'[k] # 0 => HasReceipt(k)')
                      /\ starts[k] = 0 => starts'[k] = 0
  BY <1>3 DEF Inv, Shaped, StartsHaveReceipts
<1> QED
  BY <1>1, <1>2, <1>4, <1>5, <1>6 DEF KeepsReceipts

(* The calls that do not take part keep what they count on. *)
LEMMA OthersKeep ==
    ASSUME Inv, KeepsReceipts, NEW c \in Calls, call'[c] = call[c]
    PROVE  CallKept(c)'
<1>1. call[c] \in CallRecord /\ CallKept(c)
  BY DEF Inv, Shaped
<1>2. call[c].task.key \in Keys \cup {NoKey}
      /\ \A j \in Ids : call[c].rest[j].key \in Keys \cup {NoKey}
  BY <1>1 DEF CallRecord, Task
<1> QED
  BY <1>1, <1>2 DEF CallKept, KeepsReceipts, Kept

(* A call that ends, or goes on to a kill, leaves the invariant.           *)
LEMMA CallStepKeeps ==
    ASSUME Inv, KeepsReceipts, NEW c \in Calls, NEW new \in CallRecord,
           call' = [call EXCEPT ![c] = new], new.at # "spawn", CallKept(c)'
    PROVE  Inv'
<1>1. call' \in [Calls -> CallRecord] /\ call'[c] = new
      /\ \A d \in Calls : d # c => call'[d] = call[d]
  BY DEF Inv, Shaped
<1>2. \A d \in Calls : CallKept(d)'
  BY <1>1, OthersKeep
<1>3. SpawnsAreDistinct'
  BY <1>1 DEF Inv, SpawnsAreDistinct, SpawnsOf
<1> QED
  BY <1>1, <1>2, <1>3 DEF Inv, Shaped, StartsHaveReceipts, KeepsReceipts

(* So does a step that keeps the receipts and touches no call. *)
LEMMA NoCallKeeps ==
    ASSUME Inv, KeepsReceipts, call' = call
    PROVE  Inv'
<1>1. \A d \in Calls : CallKept(d)'
  BY OthersKeep
<1> QED
  BY <1>1 DEF Inv, Shaped, StartsHaveReceipts, KeepsReceipts, SpawnsAreDistinct, SpawnsOf

(* The idle call is a call that counts on nothing. *)
LEMMA IdleIsCall == Idle \in CallRecord /\ Idle.at = "idle" /\ Idle.op = "none"
BY NoTaskIsTask DEF Idle, CallRecord, NoTasks

-----------------------------------------------------------------------------
(* Visiting tasks: each is marked in a record that keeps its key, and the  *)
(* one that is awaited next is open, so the pruning does not drop it.      *)
LEMMA ProceedKeeps ==
    ASSUME Inv, NEW c \in Calls, NEW op \in {"cancel", "cleanup", "shutdown"},
           NEW r \in Runners \cup {NoRunner}, NEW records, Faithful(records),
           NEW rest \in [Ids -> Task],
           op = "cleanup" => \A j \in Ids : rest[j] # NoTask => Kept(j, rest[j].key),
           Proceed(c, op, r, records, rest)
    PROVE  Inv'
<1> DEFINE pending == {i \in Ids : rest[i] # NoTask}
           marked(visited) == [i \in Ids |->
                                 IF i \in visited /\ ~Skipped(op, r, i, records)
                                 THEN Marked(op, records[i], rest[i]) ELSE records[i]]
           next(visited, i) == [at |-> "kill", op |-> op, runner |-> r, id |-> i,
                                task |-> records[i],
                                rest |-> [j \in Ids |-> IF j \in visited \cup {i}
                                                        THEN NoTask ELSE rest[j]]]
<1>1. PICK visited \in SUBSET pending :
         /\ SavesAndPrunes(marked(visited))
         /\ \/ call' = [call EXCEPT ![c] = Idle]
            \/ \E i \in pending \ visited :
                  Awaited(r, i, records) /\ call' = [call EXCEPT ![c] = next(visited, i)]
  BY DEF Proceed
<1>2. Faithful(marked(visited))
  <2> SUFFICES ASSUME NEW i \in Ids
               PROVE  /\ marked(visited)[i] \in Task
                      /\ marked(visited)[i].aged => marked(visited)[i].status \in Finished
                      /\ marked(visited)[i].key = tasks[i].key
                      /\ tasks[i].status # "none" => marked(visited)[i].status # "none"
                      /\ ~tasks[i].aged => ~marked(visited)[i].aged
    BY DEF Faithful
  <2>1. CASE marked(visited)[i] = records[i]
    BY <2>1 DEF Faithful
  <2>2. CASE i \in visited /\ marked(visited)[i] = Marked(op, records[i], rest[i])
    <3>1. PICK old \in Task, status \in Finished :
             Marked(op, records[i], rest[i]) = Ends(old, status) /\ old.key = tasks[i].key
      BY <2>2 DEF Marked, Finished, Faithful, Kept
    <3>2. Ends(old, status) \in Task /\ Ends(old, status).key = old.key
          /\ Ends(old, status).status = status /\ ~Ends(old, status).aged
      BY DEF Ends, Task
    <3> QED
      BY <2>2, <3>1, <3>2 DEF Finished
  <2> QED
    BY <2>1, <2>2
<1>3. KeepsReceipts
      /\ \A i \in Ids : tasks'[i] = IF marked(visited)[i].aged THEN NoTask
                                    ELSE marked(visited)[i]
  <2> HIDE DEF marked
  <2> QED
    BY <1>1, <1>2, PruneKeeps
<1>4. CASE call' = [call EXCEPT ![c] = Idle]
  <2>1. CallKept(c)'
    BY <1>4, IdleIsCall DEF CallKept, Inv, Shaped
  <2> QED
    BY <1>3, <1>4, <2>1, IdleIsCall, CallStepKeeps
<1>5. ASSUME NEW i \in pending \ visited, Awaited(r, i, records),
             call' = [call EXCEPT ![c] = next(visited, i)]
      PROVE  Inv'
  <2>1. next(visited, i) \in CallRecord /\ next(visited, i).at # "spawn"
    BY <1>5, NoTaskIsTask DEF CallRecord, Faithful
  <2>2. call'[c] = next(visited, i)
    BY <1>5 DEF Inv, Shaped
  <2>3. Kept(i, records[i].key)'
    <3>1. tasks'[i] = records[i]
      BY <1>3, <1>5 DEF Awaited, Open, Faithful, Finished
    <3>2. records[i].status # "none" /\ ~records[i].aged
      BY <1>5 DEF Awaited, Open, Faithful, Finished
    <3> QED
      BY <3>1, <3>2, <1>5 DEF Kept
  <2>4. ASSUME op = "cleanup", NEW j \in Ids, next(visited, i).rest[j] # NoTask
        PROVE  Kept(j, rest[j].key)' /\ next(visited, i).rest[j] = rest[j]
    <3>1. rest[j] # NoTask /\ next(visited, i).rest[j] = rest[j]
      BY <2>4
    <3>2. Kept(j, rest[j].key) /\ rest[j].key \in Keys \cup {NoKey}
      BY <3>1, <2>4 DEF Task
    <3> QED
      BY <3>1, <3>2, <1>3 DEF KeepsReceipts
  <2>5. CallKept(c)'
    BY <2>2, <2>3, <2>4 DEF CallKept
  <2> HIDE DEF next
  <2> QED
    BY <1>3, <1>5, <2>1, <2>5, CallStepKeeps
<1> QED
  BY <1>1, <1>4, <1>5

-----------------------------------------------------------------------------
(* No tasks, no receipts and no calls. *)
LEMMA InitEstablishes == Init => Inv
<1> SUFFICES ASSUME Init
             PROVE  Inv
  OBVIOUS
<1>1. Shaped
  BY IdleIsCall, NoTaskIsTask DEF Init, Shaped, NoTasks, NoTask
<1>2. StartsHaveReceipts
  BY DEF Init, StartsHaveReceipts
<1>3. SpawnsAreDistinct
  BY IdleIsCall DEF Init, SpawnsAreDistinct, SpawnsOf
<1>4. \A c \in Calls : CallKept(c)
  BY IdleIsCall DEF Init, CallKept
<1> QED
  BY <1>1, <1>2, <1>3, <1>4 DEF Inv

(* Records that are saved as they are are faithful. *)
LEMMA SameIsFaithful == Inv => Faithful(tasks)
BY DEF Inv, Shaped, Faithful

(* So are those in which a task object replaces a record with its key.     *)
LEMMA ReplacedIsFaithful ==
    ASSUME Inv, NEW i \in Ids, NEW task \in Task, task.key = tasks[i].key,
           task.status # "none", ~task.aged
    PROVE  Faithful([tasks EXCEPT ![i] = task])
BY DEF Inv, Shaped, Faithful

(* A task object that ends stays a task object, and keeps its key. *)
LEMMA EndsIsTask ==
    ASSUME NEW task \in Task, NEW status \in Finished
    PROVE  /\ Ends(task, status) \in Task
           /\ Ends(task, status).key = task.key
           /\ Ends(task, status).status = status
           /\ ~Ends(task, status).aged
BY DEF Ends, Task

(* A new key gets the number that is free, and the call that spawns its    *)
(* process is the only one that does.                                      *)
LEMMA BeginRunKeeps ==
    ASSUME Inv, NEW c \in Calls, NEW r \in Runners, NEW k \in Keys \cup {NoKey},
           BeginRun(c, r, k)
    PROVE  Inv'
<1>0. PICK i : i = NextId
  OBVIOUS
<1> DEFINE task == [NoTask EXCEPT !.status = "preparing", !.key = k]
           new == [Idle EXCEPT !.at = "spawn", !.runner = r, !.id = i, !.task = task]
<1>1. /\ i \in Ids /\ ~KnownKey(k) /\ call[c] = Idle
      /\ tasks' = IF k = NoKey THEN tasks ELSE [tasks EXCEPT ![i] = task]
      /\ starts' = starts /\ call' = [call EXCEPT ![c] = new]
  BY <1>0 DEF BeginRun, Saves
<1>2. task \in Task /\ task.key = k /\ task.status = "preparing" /\ ~task.aged
  BY NoTaskIsTask DEF NoTask, Task
<1>3. tasks[i] = NoTask
  BY <1>0, <1>1, NextIdIsFree DEF Recorded
<1>4. new \in CallRecord /\ new.at = "spawn" /\ new.task = task /\ new.id = i
      /\ new.op = "none"
  <2> HIDE DEF task
  <2> QED
    BY <1>1, <1>2, IdleIsCall DEF CallRecord, Idle
<1> HIDE DEF task, new
<1>5. call' \in [Calls -> CallRecord] /\ call'[c] = new
      /\ \A d \in Calls : d # c => call'[d] = call[d]
  BY <1>1, <1>4 DEF Inv, Shaped
<1>6. tasks' \in [Ids -> Task]
      /\ (k # NoKey => tasks'[i] = task)
      /\ \A j \in Ids : j # i \/ k = NoKey => tasks'[j] = tasks[j]
  BY <1>1, <1>2 DEF Inv, Shaped
<1>7. Shaped'
  BY <1>1, <1>2, <1>5, <1>6 DEF Inv, Shaped
<1>8. \A j \in Ids, key \in Keys \cup {NoKey} : Kept(j, key) => Kept(j, key)'
  <2>1. \A key : ~Kept(i, key)
    BY <1>3 DEF Kept, NoTask
  <2> QED
    BY <2>1, <1>6 DEF Kept
<1>9. StartsHaveReceipts'
  <2> SUFFICES ASSUME NEW l \in Keys
               PROVE  starts[l] <= 1 /\ (starts[l] # 0 => \E j \in Ids : tasks'[j].key = l)
    BY <1>1 DEF StartsHaveReceipts, HasReceipt
  <2>1. starts[l] <= 1 /\ (starts[l] # 0 => \E j \in Ids : tasks[j].key = l)
    BY DEF Inv, StartsHaveReceipts, HasReceipt
  <2>2. \A j \in Ids : tasks[j].key = l => j # i
    BY <1>3, NoTaskIsTask
  <2> QED
    BY <2>1, <2>2, <1>6
<1>10. k # NoKey => starts[k] = 0 /\ \A d \in Calls : d # c => d \notin SpawnsOf(k)
  <2> SUFFICES ASSUME k # NoKey
               PROVE  starts[k] = 0 /\ \A d \in Calls : d # c => d \notin SpawnsOf(k)
    OBVIOUS
  <2>1. \A j \in Ids : tasks[j].key # k
    BY <1>1 DEF KnownKey
  <2>2. starts[k] = 0
    BY <2>1 DEF Inv, StartsHaveReceipts, HasReceipt
  <2>3. \A d \in SpawnsOf(k) : FALSE
    BY <2>1 DEF Inv, CallKept, Kept, SpawnsOf
  <2> QED
    BY <2>2, <2>3
<1>11. SpawnsAreDistinct'
  <2> SUFFICES ASSUME NEW l \in Keys, NEW d \in SpawnsOf(l)', NEW e \in SpawnsOf(l)', d # e
               PROVE  FALSE
    BY DEF SpawnsAreDistinct
  <2>1. \A x \in SpawnsOf(l)' : (x = c /\ l = k) \/ (x # c /\ x \in SpawnsOf(l))
    BY <1>2, <1>4, <1>5 DEF SpawnsOf
  <2> QED
    BY <2>1, <1>10, NoKeyAssumption DEF Inv, SpawnsAreDistinct, SpawnsOf
<1>12. \A d \in Calls : CallKept(d)'
  <2> SUFFICES ASSUME NEW d \in Calls
               PROVE  CallKept(d)'
    OBVIOUS
  <2>1. CASE d = c
    <3>1. k # NoKey => Kept(i, k)' /\ starts'[k] = 0
      BY <1>1, <1>2, <1>6, <1>10 DEF Kept
    <3>2. call'[d] = new /\ new.task.key = k /\ new.id = i /\ i \in Ids /\ ~new.task.aged
      BY <2>1, <1>1, <1>2, <1>4, <1>5
    <3> QED
      BY <3>1, <3>2, <1>4 DEF CallKept
  <2>2. CASE d # c
    <3>1. call[d] \in CallRecord /\ CallKept(d)
      BY DEF Inv, Shaped
    <3>2. call[d].task.key \in Keys \cup {NoKey}
          /\ \A j \in Ids : call[d].rest[j].key \in Keys \cup {NoKey}
      BY <3>1 DEF CallRecord, Task
    <3>3. call'[d] = call[d]
      BY <2>2, <1>5
    <3> QED
      BY <3>1, <3>2, <3>3, <1>1, <1>8 DEF CallKept, Kept
  <2> QED
    BY <2>1, <2>2
<1> QED
  BY <1>7, <1>9, <1>11, <1>12 DEF Inv

-----------------------------------------------------------------------------
(* The one process of a key starts while its receipt stands, and counts    *)
(* once; the record that says so replaces one with the same key.           *)
LEMMA SpawnedKeeps ==
    ASSUME Inv, NEW c \in Calls, Spawned(c)
    PROVE  Inv'
<1>0. PICK i, k, task :
         /\ i = call[c].id /\ k = call[c].task.key
         /\ task = [call[c].task EXCEPT !.status = "running", !.pid = NextPid]
  OBVIOUS
<1>1. call[c] \in CallRecord /\ call[c].at = "spawn" /\ NextPid \in Pids
      /\ call' = [call EXCEPT ![c] = Idle]
      /\ starts' = [l \in Keys |-> IF l = task.key THEN starts[l] + 1 ELSE starts[l]]
      /\ (tasks' = tasks
          \/ (tasks[i].key \in {NoKey, task.key} /\ tasks' = [tasks EXCEPT ![i] = task]))
  BY <1>0 DEF Spawned, SaveRefused, Inv, Shaped
<1>2. task \in Task /\ task.key = k /\ task.status = "running"
      /\ task.aged = call[c].task.aged
  BY <1>0, <1>1 DEF CallRecord, Task
<1>3. i \in Ids /\ ~task.aged
      /\ (k # NoKey => Kept(i, k) /\ starts[k] = 0)
  BY <1>0, <1>1, <1>2 DEF Inv, CallKept
<1>4. Faithful(tasks')
  <2>1. CASE tasks' = tasks
    BY <2>1, SameIsFaithful
  <2>2. CASE tasks[i].key \in {NoKey, task.key} /\ tasks' = [tasks EXCEPT ![i] = task]
    <3>1. task.key = tasks[i].key
      BY <1>2, <1>3, <2>2 DEF Kept
    <3> QED
      BY <2>2, <3>1, <1>2, <1>3, ReplacedIsFaithful
  <2> QED
    BY <1>1, <2>1, <2>2
<1>5. /\ Shaped'
      /\ \A j \in Ids, key \in Keys \cup {NoKey} : Kept(j, key) => Kept(j, key)'
  <2>1. starts' \in [Keys -> Nat]
    BY <1>1 DEF Inv, Shaped
  <2>2. call' \in [Calls -> CallRecord]
    BY <1>1, IdleIsCall DEF Inv, Shaped
  <2> QED
    BY <1>4, <2>1, <2>2 DEF Inv, Shaped, Faithful, Kept
<1>6. StartsHaveReceipts'
  <2> SUFFICES ASSUME NEW l \in Keys
               PROVE  starts'[l] <= 1 /\ (starts'[l] # 0 => HasReceipt(l)')
    BY DEF StartsHaveReceipts
  <2>1. HasReceipt(l) => HasReceipt(l)'
    BY <1>4 DEF HasReceipt, Faithful
  <2>2. CASE l = task.key
    <3>1. HasReceipt(l) /\ starts'[l] = 1
      BY <2>2, <1>1, <1>2, <1>3, NoKeyAssumption DEF HasReceipt, Kept
    <3> QED
      BY <2>1, <3>1
  <2>3. CASE l # task.key
    <3>1. starts'[l] = starts[l]
      BY <2>3, <1>1
    <3> QED
      BY <2>1, <3>1 DEF Inv, StartsHaveReceipts
  <2> QED
    BY <2>2, <2>3
<1>7. /\ call'[c] = Idle
      /\ \A d \in Calls : d # c => call'[d] = call[d]
  BY <1>1 DEF Inv, Shaped
<1>8. SpawnsAreDistinct'
  BY <1>7, IdleIsCall DEF Inv, SpawnsAreDistinct, SpawnsOf
<1>9. \A d \in Calls : CallKept(d)'
  <2> SUFFICES ASSUME NEW d \in Calls
               PROVE  CallKept(d)'
    OBVIOUS
  <2>1. CASE d = c
    BY <2>1, <1>7, IdleIsCall DEF CallKept
  <2>2. CASE d # c
    <3>1. call[d] \in CallRecord /\ CallKept(d) /\ call'[d] = call[d]
      BY <2>2, <1>7 DEF Inv, Shaped
    <3>2. call[d].task.key \in Keys \cup {NoKey}
          /\ \A j \in Ids : call[d].rest[j].key \in Keys \cup {NoKey}
      BY <3>1 DEF CallRecord, Task
    <3>3. call[d].at = "spawn" /\ call[d].task.key # NoKey => call[d].task.key # k
      BY <2>2, <3>1, <3>2, <1>0, <1>1 DEF Inv, SpawnsAreDistinct, SpawnsOf
    <3>4. call[d].at = "spawn" /\ call[d].task.key # NoKey =>
             starts'[call[d].task.key] = starts[call[d].task.key]
      BY <3>2, <3>3, <1>1, <1>2
    <3>5. /\ call[d].at = "spawn" => call[d].id \in Ids /\ ~call[d].task.aged
          /\ call[d].at = "spawn" /\ call[d].task.key # NoKey =>
                Kept(call[d].id, call[d].task.key) /\ starts[call[d].task.key] = 0
          /\ call[d].at = "kill" => call[d].op # "none" /\ Kept(call[d].id, call[d].task.key)
          /\ call[d].op = "cleanup" =>
                \A j \in Ids : call[d].rest[j] # NoTask => Kept(j, call[d].rest[j].key)
      BY <3>1 DEF CallKept
    <3> QED
      BY <3>1, <3>2, <3>4, <3>5, <1>5 DEF CallKept, Kept
  <2> QED
    BY <2>1, <2>2
<1> QED
  BY <1>5, <1>6, <1>8, <1>9 DEF Inv

-----------------------------------------------------------------------------
(* A reservation that comes to nothing keeps its key. *)
LEMMA SpawnFailsKeeps ==
    ASSUME Inv, NEW c \in Calls, SpawnFails(c)
    PROVE  Inv'
<1>1. call[c] \in CallRecord /\ CallKept(c) /\ call[c].at = "spawn"
      /\ call' = [call EXCEPT ![c] = Idle] /\ call[c].task \in Task
  BY DEF Inv, Shaped, SpawnFails, CallRecord
<1>2. PICK ended : ended = Ends(call[c].task, "failed")
  OBVIOUS
<1>3. ended \in Task /\ ended.key = call[c].task.key /\ ended.status = "failed" /\ ~ended.aged
  BY <1>1, <1>2, EndsIsTask DEF Finished
<1>4. KeepsReceipts
  <2>1. CASE call[c].task.key = NoKey
    BY <2>1, SameIsFaithful, SavesKeeps DEF SpawnFails
  <2>2. CASE call[c].task.key # NoKey
    <3>1. Kept(call[c].id, call[c].task.key)
      BY <2>2, <1>1 DEF CallKept
    <3>2. Faithful([tasks EXCEPT ![call[c].id] = ended])
      BY <3>1, <1>3, ReplacedIsFaithful DEF Kept
    <3>3. Saves([tasks EXCEPT ![call[c].id] = ended])
      BY <2>2, <1>2 DEF SpawnFails
    <3> QED
      BY <3>2, <3>3, SavesKeeps
  <2> QED
    BY <2>1, <2>2
<1>5. CallKept(c)'
  BY <1>1, IdleIsCall DEF Inv, Shaped, CallKept
<1> QED
  BY <1>1, <1>4, <1>5, IdleIsCall, CallStepKeeps

(* The task object that is saved after an await has the key of its record. *)
LEMMA FinishKillKeeps ==
    ASSUME Inv, NEW c \in Calls, FinishKill(c)
    PROVE  Inv'
<1>0. PICK k, ended : k = call[c] /\ ended = Ends(k.task, "cancelled")
  OBVIOUS
<1>1. k \in CallRecord /\ k.at = "kill" /\ k.op # "none" /\ Kept(k.id, k.task.key) /\ k.task \in Task
      /\ (k.op = "cleanup" => \A j \in Ids : k.rest[j] # NoTask => Kept(j, k.rest[j].key))
  BY <1>0 DEF Inv, Shaped, FinishKill, CallKept, CallRecord
<1>2. ended \in Task /\ ended.key = k.task.key /\ ended.status = "cancelled" /\ ~ended.aged
  BY <1>0, <1>1, EndsIsTask DEF Finished
<1>3. Faithful([tasks EXCEPT ![k.id] = ended])
  BY <1>1, <1>2, ReplacedIsFaithful DEF Kept
<1>4. Proceed(c, k.op, k.runner, [tasks EXCEPT ![k.id] = ended], k.rest)
  BY <1>0 DEF FinishKill
<1>5. k.op \in {"cancel", "cleanup", "shutdown"} /\ k.runner \in Runners \cup {NoRunner}
      /\ k.rest \in [Ids -> Task]
  BY <1>1 DEF CallRecord
<1> QED
  BY <1>1, <1>3, <1>4, <1>5, ProceedKeeps

(* The watcher ends the record of its task and keeps its key. *)
LEMMA WatchEndsKeeps ==
    ASSUME Inv, NEW p \in Pids, WatchEnds(p)
    PROVE  Inv'
<1>0. PICK i : i = proc[p].task
  OBVIOUS
<1>1. CASE Saves(tasks)
  BY <1>1, SameIsFaithful, SavesKeeps, NoCallKeeps DEF WatchEnds
<1>2. CASE /\ ~LeavesAlone(tasks[i])
           /\ \E status \in Finished : SavesAndPrunes([tasks EXCEPT ![i] = Ends(@, status)])
  <2>1. PICK status \in Finished : SavesAndPrunes([tasks EXCEPT ![i] = Ends(tasks[i], status)])
    BY <1>2
  <2>2. Faithful([tasks EXCEPT ![i] = Ends(tasks[i], status)])
    <3>1. CASE i \in Ids
      <4>1. tasks[i] \in Task
        BY <3>1 DEF Inv, Shaped
      <4> DEFINE ended == Ends(tasks[i], status)
      <4>2. ended \in Task /\ ended.key = tasks[i].key /\ ended.status # "none" /\ ~ended.aged
        BY <4>1, EndsIsTask DEF Finished
      <4> HIDE DEF ended
      <4>3. Faithful([tasks EXCEPT ![i] = ended])
        BY <3>1, <4>2, ReplacedIsFaithful
      <4> QED
        BY <4>3 DEF ended
    <3>2. CASE i \notin Ids
      <4>1. [tasks EXCEPT ![i] = Ends(tasks[i], status)] = tasks
        BY <3>2 DEF Inv, Shaped
      <4> QED
        BY <4>1, SameIsFaithful
    <3> QED
      BY <3>1, <3>2
  <2> QED
    BY <2>1, <2>2, PruneKeeps, NoCallKeeps DEF WatchEnds
<1> QED
  BY <1>0, <1>1, <1>2 DEF WatchEnds, Finished

(* Handing out results changes neither keys nor numbers. *)
LEMMA CollectKeeps == Inv /\ Collect => Inv'
<1> SUFFICES ASSUME Inv, Collect
             PROVE  Inv'
  OBVIOUS
<1>1. PICK records :
         /\ SavesAndPrunes(records) /\ call' = call
         /\ records \in [Ids -> Task]
         /\ \A i \in Ids : /\ records[i].key = tasks[i].key
                           /\ records[i].status = tasks[i].status
                           /\ records[i].aged = tasks[i].aged
  <2> DEFINE new == {i \in Ids : tasks[i].status \in Finished /\ ~tasks[i].notified}
             records == [i \in Ids |-> IF i \in new THEN [tasks[i] EXCEPT !.notified = TRUE]
                                       ELSE tasks[i]]
  <2>1. SavesAndPrunes(records) /\ call' = call
    BY DEF Collect
  <2>2. \A i \in Ids : /\ records[i] \in Task
                      /\ records[i].key = tasks[i].key
                      /\ records[i].status = tasks[i].status
                      /\ records[i].aged = tasks[i].aged
    BY DEF Inv, Shaped, Task
  <2>3. records \in [Ids -> Task]
    BY <2>2
  <2> HIDE DEF records
  <2> QED
    BY <2>1, <2>2, <2>3
<1>2. Faithful(records)
  BY <1>1 DEF Inv, Shaped, Faithful
<1> QED
  BY <1>1, <1>2, PruneKeeps, NoCallKeeps

(* Records age while no call counts on them. *)
LEMMA AgeKeeps ==
    ASSUME Inv, NEW i \in Ids, Age(i)
    PROVE  Inv'
<1>1. /\ tasks' = [tasks EXCEPT ![i].aged = TRUE] /\ tasks[i].status \in Finished
      /\ call' = call /\ starts' = starts
      /\ \A c \in Calls : call[c] = Idle
  BY DEF Age
<1>2. Shaped' /\ \A j \in Ids : tasks'[j].key = tasks[j].key
  BY <1>1 DEF Inv, Shaped, Task
<1>3. StartsHaveReceipts'
  BY <1>1, <1>2 DEF Inv, StartsHaveReceipts, HasReceipt
<1>4. SpawnsAreDistinct'
  BY <1>1 DEF Inv, SpawnsAreDistinct, SpawnsOf
<1>5. \A c \in Calls : CallKept(c)'
  BY <1>1, IdleIsCall DEF CallKept
<1> QED
  BY <1>2, <1>3, <1>4, <1>5 DEF Inv

(* A restart prunes, and ends every call. *)
LEMMA RestartKeeps == Inv /\ Restart => Inv'
<1> SUFFICES ASSUME Inv, Restart
             PROVE  Inv'
  OBVIOUS
<1>1. KeepsReceipts
  BY SameIsFaithful, PruneKeeps DEF Restart
<1>2. call' \in [Calls -> CallRecord] /\ \A c \in Calls : call'[c] = Idle
  BY IdleIsCall DEF Restart
<1>3. SpawnsAreDistinct' /\ \A c \in Calls : CallKept(c)'
  BY <1>2, IdleIsCall DEF SpawnsAreDistinct, SpawnsOf, CallKept
<1> QED
  BY <1>1, <1>2, <1>3 DEF Inv, Shaped, StartsHaveReceipts, KeepsReceipts

-----------------------------------------------------------------------------
(* Every step keeps the invariant. *)
LEMMA StepKeeps == Inv /\ [Next]_vars => Inv'
<1> SUFFICES ASSUME Inv, [Next]_vars
             PROVE  Inv'
  OBVIOUS
<1> USE DEF Next
<1>1. ASSUME NEW c \in Calls, NEW r \in Runners, NEW k \in Keys \cup {NoKey}, BeginRun(c, r, k)
      PROVE  Inv'
  BY <1>1, BeginRunKeeps
<1>2. ASSUME NEW c \in Calls, NEW r \in Runners, NEW i \in Ids, BeginCancel(c, r, i)
      PROVE  Inv'
  <2>1. [NoTasks EXCEPT ![i] = tasks[i]] \in [Ids -> Task]
    BY NoTaskIsTask DEF NoTasks, Inv, Shaped
  <2> QED
    BY <1>2, <2>1, SameIsFaithful, ProceedKeeps DEF BeginCancel
<1>3. ASSUME NEW c \in Calls, NEW r \in Runners, BeginCleanup(c, r)
      PROVE  Inv'
  <2>1. PICK rest : rest = [i \in Ids |-> IF Open(tasks[i]) THEN tasks[i] ELSE NoTask]
    OBVIOUS
  <2>2. rest \in [Ids -> Task]
    BY <2>1, NoTaskIsTask DEF Inv, Shaped
  <2>3. \A j \in Ids : rest[j] # NoTask => Kept(j, rest[j].key)
    BY <2>1 DEF Open, Kept, Finished, Inv, Shaped
  <2> QED
    BY <1>3, <2>1, <2>2, <2>3, SameIsFaithful, ProceedKeeps DEF BeginCleanup
<1>4. ASSUME NEW c \in Calls, NEW r \in Runners, BeginShutdown(c, r)
      PROVE  Inv'
  <2>1. PICK rest : rest = [i \in Ids |-> IF Listed(r, i) # {} THEN tasks[i] ELSE NoTask]
    OBVIOUS
  <2>2. rest \in [Ids -> Task]
    BY <2>1, NoTaskIsTask DEF Inv, Shaped
  <2> QED
    BY <1>4, <2>1, <2>2, SameIsFaithful, ProceedKeeps DEF BeginShutdown
<1>5. ASSUME NEW c \in Calls, CallStep(c)
      PROVE  Inv'
  BY <1>5, SpawnedKeeps, SpawnFailsKeeps, FinishKillKeeps DEF CallStep
<1>6. ASSUME NEW p \in Pids, TimesOut(p) \/ ProcessExits(p)
      PROVE  Inv'
  BY <1>6, SameIsFaithful, SavesKeeps, NoCallKeeps DEF TimesOut, ProcessExits, Saves
<1>7. ASSUME NEW p \in Pids, WatchEnds(p)
      PROVE  Inv'
  BY <1>7, WatchEndsKeeps
<1>8. ASSUME NEW i \in Ids, Age(i)
      PROVE  Inv'
  BY <1>8, AgeKeeps
<1>9. CASE Collect \/ Restart
  BY <1>9, CollectKeeps, RestartKeeps
<1>10. CASE UNCHANGED vars
  BY <1>10, SameIsFaithful, SavesKeeps, NoCallKeeps DEF vars, Saves
<1> QED
  BY <1>1, <1>2, <1>3, <1>4, <1>5, <1>6, <1>7, <1>8, <1>9, <1>10

(* A key starts one process as long as its receipt is kept, whatever calls *)
(* race in however many runners, and across restarts of the runtime.       *)
THEOREM KeyStartsOnce == Spec => []KeyStartsOneProcess
<1>1. Inv => KeyStartsOneProcess
  BY DEF Inv, StartsHaveReceipts, KeyStartsOneProcess
<1> QED
  BY <1>1, InitEstablishes, StepKeeps, PTL DEF Spec

=============================================================================
