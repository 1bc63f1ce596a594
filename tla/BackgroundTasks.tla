--------------------------- MODULE BackgroundTasks --------------------------
(***************************************************************************)
(* BackgroundRunner and BackgroundTaskStore: shell commands started in the *)
(* background, their records in tasks.json, the watcher of each process,   *)
(* and the calls that cancel, clean up, shut down and collect results.     *)
(*                                                                         *)
(* Runners of one Python runtime share the store.  A call or a watcher     *)
(* runs without interruption from one await to the next, so a step here is *)
(* what happens between two awaits; a call keeps the task object it read   *)
(* before the await and saves that object after it.                        *)
(*                                                                         *)
(* Fewer tasks are started than the store keeps by count (100), so records *)
(* are pruned by age only.  Output, ports and file errors are left out.    *)
(***************************************************************************)
EXTENDS Naturals, FiniteSets

CONSTANTS
    Runners,    \* BackgroundRunner instances of the runtime
    NoRunner,
    Keys,       \* idempotency keys
    NoKey,      \* a task that was started without one
    Calls,      \* calls that may be in progress at once
    Operations, \* which of "unkeyed", "cancel", "cleanup", "shutdown", "restart"
    MaxTasks,   \* bound: task numbers
    MaxSpawns   \* bound: processes started

ASSUME NoKeyAssumption == NoKey \notin Keys
ASSUME NoRunnerAssumption == NoRunner \notin Runners
ASSUME BoundsAssumption == MaxTasks \in Nat /\ MaxSpawns \in Nat

VARIABLES
    tasks,      \* tasks.json: number -> record
    proc,       \* process -> what the OS and the runner that started it know
    call,       \* the calls in progress
    starts      \* (history) processes started for a key since its last receipt

vars == <<tasks, proc, call, starts>>

Ids == 1..MaxTasks
Pids == 1..MaxSpawns

Finished == {"completed", "failed", "cancelled", "timed_out"}

NoTask == [status |-> "none", key |-> NoKey, pid |-> 0, notified |-> FALSE,
           aged |-> FALSE]
NoTasks == [i \in Ids |-> NoTask]

(* runner: whose _processes lists it; watch: its watcher, "left" if it     *)
(* went away with its runner.                                              *)
NoProc == [alive |-> FALSE, runner |-> NoRunner, task |-> 0, watch |-> "none"]

(* at: "spawn" or "kill" is what the call awaits; task: its task object of *)
(* number id; rest: what a cleanup or shutdown still has to visit.         *)
Idle == [at |-> "idle", op |-> "none", runner |-> NoRunner, id |-> 0,
         task |-> NoTask, rest |-> NoTasks]

Open(task) == task.status \in {"preparing", "running"}

Listed(r, i) == {p \in Pids : proc[p].runner = r /\ proc[p].task = i}
Live(r, i) == {p \in Listed(r, i) : proc[p].alive}
Alive(pid) == pid \in Pids /\ proc[pid].alive

(* next_id: one more than the highest number on record. *)
Recorded == {i \in Ids : tasks[i] # NoTask}
NextId == IF Recorded = {} THEN 1
          ELSE 1 + CHOOSE i \in Recorded : \A j \in Recorded : j <= i

NextPid == 1 + Cardinality({p \in Pids : proc[p] # NoProc})

-----------------------------------------------------------------------------
Init ==
    /\ tasks = NoTasks
    /\ proc = [p \in Pids |-> NoProc]
    /\ call = [c \in Calls |-> Idle]
    /\ starts = [k \in Keys |-> 0]

(* prune(): records older than the retention are dropped; a dropped key may *)
(* be used, and a dropped number given, again.                              *)
Saves(records) ==
    /\ tasks' = records
    /\ UNCHANGED starts

SavesAndPrunes(records) ==
    LET kept == [i \in Ids |-> IF records[i].aged THEN NoTask ELSE records[i]]
        receipts == {kept[i].key : i \in Ids}
    IN
    /\ tasks' = kept
    /\ starts' = [k \in Keys |-> IF k \in receipts THEN starts[k] ELSE 0]

(* Faulty variants of the operators below, for mutation runs: a status no  *)
(* reader knows; a timeout that is not recorded; a key that is forgotten   *)
(* when its task ends; a cancelled process that is not waited for.         *)
EndsMisnamed(task, status) ==
    [task EXCEPT !.status = IF status = "timed_out" THEN "timeout" ELSE status,
                 !.aged = FALSE]
EndsButTimeouts(task, status) ==
    [task EXCEPT !.status = IF status = "timed_out" THEN @ ELSE status, !.aged = FALSE]
KnownKeyOpen(k) == k # NoKey /\ \E i \in Ids : tasks[i].key = k /\ Open(tasks[i])
AwaitedNever(r, i, records) == FALSE

(* A task object that is marked as ended. *)
Ends(task, status) == [task EXCEPT !.status = status, !.aged = FALSE]

-----------------------------------------------------------------------------
(* run(): under the dispatch lock of the runner a known key is answered    *)
(* with its record; a new key is reserved, a task without a key only gets  *)
(* a number; then the process is created.                                  *)
DispatchLocked(r) == \E c \in Calls : call[c].at = "spawn" /\ call[c].runner = r

KnownKey(k) == k # NoKey /\ \E i \in Ids : tasks[i].key = k

BeginRun(c, r, k) ==
    LET task == [NoTask EXCEPT !.status = "preparing", !.key = k] IN
    /\ call[c] = Idle /\ ~DispatchLocked(r)
    /\ k = NoKey => "unkeyed" \in Operations
    /\ ~KnownKey(k) /\ NextId \in Ids /\ NextPid \in Pids
    /\ Saves(IF k = NoKey THEN tasks ELSE [tasks EXCEPT ![NextId] = task])
    /\ call' = [call EXCEPT ![c] = [Idle EXCEPT !.at = "spawn", !.runner = r,
                                                !.id = NextId, !.task = task]]
    /\ UNCHANGED proc

(* save() refuses to change the key of a record that has one. *)
SaveRefused(i, task) == tasks[i].key \notin {NoKey, task.key}

(* The process exists.  Nothing is awaited before it is recorded as        *)
(* running and watched; a refused save leaves it listed but not watched.   *)
Spawned(c) ==
    LET i == call[c].id
        r == call[c].runner
        task == [call[c].task EXCEPT !.status = "running", !.pid = NextPid]
        started == [NoProc EXCEPT !.alive = TRUE, !.runner = r, !.task = i]
    IN
    /\ call[c].at = "spawn" /\ NextPid \in Pids
    /\ starts' = [k \in Keys |-> IF k = task.key THEN starts[k] + 1 ELSE starts[k]]
    /\ \/ /\ ~SaveRefused(i, task)
          /\ tasks' = [tasks EXCEPT ![i] = task]
          /\ proc' = [proc EXCEPT ![NextPid] = [started EXCEPT !.watch = "waiting"]]
       \/ /\ SaveRefused(i, task)
          /\ proc' = [proc EXCEPT ![NextPid] = started]
          /\ UNCHANGED tasks
    /\ call' = [call EXCEPT ![c] = Idle]

(* The process cannot be created: the reservation becomes a failed task. *)
SpawnFails(c) ==
    LET i == call[c].id IN
    /\ call[c].at = "spawn"
    /\ Saves(IF call[c].task.key = NoKey THEN tasks
             ELSE [tasks EXCEPT ![i] = Ends(call[c].task, "failed")])
    /\ call' = [call EXCEPT ![c] = Idle]
    /\ UNCHANGED proc

-----------------------------------------------------------------------------
(* _watch(): the process ends, or its time is up and it is terminated. *)
TimesOut(p) ==
    /\ proc[p].watch = "waiting" /\ proc[p].alive
    /\ proc' = [proc EXCEPT ![p].watch = "terminating"]
    /\ UNCHANGED <<tasks, call, starts>>

(* The watcher leaves a task alone that was cancelled, or is gone. *)
LeavesAlone(task) == task.status \in {"none", "cancelled"}

WatchEnds(p) ==
    LET i == proc[p].task IN
    /\ proc[p].watch \in {"waiting", "terminating"} /\ ~proc[p].alive
    /\ \/ /\ LeavesAlone(tasks[i])
          /\ Saves(tasks)
       \/ /\ ~LeavesAlone(tasks[i])
          /\ \E status \in IF proc[p].watch = "waiting"
                           THEN {"completed", "failed"} ELSE {"timed_out"} :
                SavesAndPrunes([tasks EXCEPT ![i] = Ends(@, status)])
    /\ proc' = [proc EXCEPT ![p].watch = "done", ![p].runner = NoRunner]
    /\ UNCHANGED call

-----------------------------------------------------------------------------
(* cancel(), cleanup() and shutdown() visit tasks in turn.  A process that *)
(* this runner lists is terminated and awaited; everything else is done at *)
(* once: cancel and shutdown read the record afresh and mark it cancelled, *)
(* cleanup saves the record it listed at its start, as cancelled if it had *)
(* to kill a process by its pid, or else as failed.                        *)
Marked(op, task, listed) ==
    IF op = "cleanup"
    THEN Ends(listed, IF Alive(listed.pid) THEN "cancelled" ELSE "failed")
    ELSE Ends(task, "cancelled")

(* The task has to be awaited: cancel() finds it open, its process alive. *)
Awaited(r, i, records) == Open(records[i]) /\ Live(r, i) # {}

(* Left alone: finished by now, and not found stale by a cleanup. *)
Skipped(op, r, i, records) ==
    ~Open(records[i]) /\ (op # "cleanup" \/ Live(r, i) # {})

(* From the records as they are: visit some tasks at once, then await one  *)
(* or return.                                                              *)
Proceed(c, op, r, records, rest) ==
    LET pending == {i \in Ids : rest[i] # NoTask} IN
    \E visited \in SUBSET pending :
        LET marked == [i \in Ids |->
                          IF i \in visited /\ ~Skipped(op, r, i, records)
                          THEN Marked(op, records[i], rest[i]) ELSE records[i]]
            killed == {p \in Pids : op = "cleanup"
                                    /\ \E i \in visited : rest[i].pid = p
                                                          /\ Live(r, i) = {}}
            swept  == [p \in Pids |-> IF p \in killed
                                      THEN [proc[p] EXCEPT !.alive = FALSE] ELSE proc[p]]
        IN
        /\ \A i \in visited : ~Awaited(r, i, records)
        /\ \/ /\ visited = pending
              /\ SavesAndPrunes(marked)
              /\ call' = [call EXCEPT ![c] = Idle]
              /\ proc' = [p \in Pids |->
                             IF op = "shutdown" /\ swept[p].runner = r
                                /\ swept[p].watch \in {"waiting", "terminating"}
                             THEN [swept[p] EXCEPT !.watch = "left",
                                                   !.runner = NoRunner]
                             ELSE swept[p]]
           \/ \E i \in pending \ visited :
                 /\ Awaited(r, i, records)
                 /\ SavesAndPrunes(marked)
                 /\ proc' = swept
                 /\ call' = [call EXCEPT ![c] =
                                [at |-> "kill", op |-> op, runner |-> r, id |-> i,
                                 task |-> records[i],
                                 rest |-> [j \in Ids |->
                                             IF j \in visited \cup {i}
                                             THEN NoTask ELSE rest[j]]]]

BeginCancel(c, r, i) ==
    /\ "cancel" \in Operations
    /\ call[c] = Idle /\ Open(tasks[i])
    /\ Proceed(c, "cancel", r, tasks, [NoTasks EXCEPT ![i] = tasks[i]])

BeginCleanup(c, r) ==
    /\ "cleanup" \in Operations
    /\ call[c] = Idle
    /\ Proceed(c, "cleanup", r, tasks,
               [i \in Ids |-> IF Open(tasks[i]) THEN tasks[i] ELSE NoTask])

BeginShutdown(c, r) ==
    /\ "shutdown" \in Operations
    /\ call[c] = Idle
    /\ Proceed(c, "shutdown", r, tasks,
               [i \in Ids |-> IF Listed(r, i) # {} THEN tasks[i] ELSE NoTask])

(* terminate_process_tree() has returned: the task object read before is   *)
(* saved as cancelled, whatever the record says by now.                    *)
FinishKill(c) ==
    LET k == call[c] IN
    /\ k.at = "kill" /\ Live(k.runner, k.id) = {}
    /\ Proceed(c, k.op, k.runner,
               [tasks EXCEPT ![k.id] = Ends(k.task, "cancelled")], k.rest)

(* collect_notifications() *)
Collect ==
    LET new == {i \in Ids : tasks[i].status \in Finished /\ ~tasks[i].notified} IN
    /\ new # {}
    /\ SavesAndPrunes([i \in Ids |-> IF i \in new THEN [tasks[i] EXCEPT !.notified = TRUE]
                                     ELSE tasks[i]])
    /\ UNCHANGED <<proc, call>>

-----------------------------------------------------------------------------
(* The world. *)
Terminated(p) ==
    \/ proc[p].watch = "terminating"
    \/ \E c \in Calls : /\ call[c].at = "kill"
                        /\ p \in Live(call[c].runner, call[c].id)

ProcessExits(p) ==
    /\ proc[p].alive
    /\ proc' = [proc EXCEPT ![p].alive = FALSE]
    /\ UNCHANGED <<tasks, call, starts>>

(* The retention of a finished task passes: days, while calls take seconds. *)
Age(i) ==
    /\ tasks[i].status \in Finished /\ ~tasks[i].aged
    /\ \A c \in Calls : call[c] = Idle
    /\ \A p \in Pids : proc[p].task = i => proc[p].watch \notin {"waiting", "terminating"}
    /\ tasks' = [tasks EXCEPT ![i].aged = TRUE]
    /\ UNCHANGED <<proc, call, starts>>

(* The runtime dies; the processes are in sessions of their own and live   *)
(* on.  The new runner prunes when it is created.                          *)
Restart ==
    /\ "restart" \in Operations
    /\ proc' = [p \in Pids |-> IF proc[p] = NoProc THEN NoProc
                               ELSE [proc[p] EXCEPT !.runner = NoRunner,
                                                    !.watch = IF @ = "done" THEN @ ELSE "left"]]
    /\ call' = [c \in Calls |-> Idle]
    /\ SavesAndPrunes(tasks)

CallStep(c) == Spawned(c) \/ SpawnFails(c) \/ FinishKill(c)

Next ==
    \/ \E c \in Calls, r \in Runners :
          \/ \E k \in Keys \cup {NoKey} : BeginRun(c, r, k)
          \/ \E i \in Ids : BeginCancel(c, r, i)
          \/ BeginCleanup(c, r) \/ BeginShutdown(c, r)
    \/ \E c \in Calls : CallStep(c)
    \/ \E p \in Pids : TimesOut(p) \/ WatchEnds(p) \/ ProcessExits(p)
    \/ \E i \in Ids : Age(i)
    \/ Collect \/ Restart

(* The event loop runs what is ready, a timeout expires, and a process     *)
(* that is being terminated exits (SIGKILL follows SIGTERM).               *)
Fairness ==
    /\ \A c \in Calls : WF_vars(CallStep(c))
    /\ \A p \in Pids : /\ WF_vars(TimesOut(p)) /\ WF_vars(WatchEnds(p))
                       /\ WF_vars(Terminated(p) /\ ProcessExits(p))

Spec == Init /\ [][Next]_vars /\ Fairness

-----------------------------------------------------------------------------
Task == [status : {"none", "preparing", "running"} \cup Finished,
         key : Keys \cup {NoKey}, pid : {0} \cup Pids, notified : BOOLEAN,
         aged : BOOLEAN]

(* The records, the processes and the calls have their shapes, and only a  *)
(* finished task ages.                                                     *)
TypeOK ==
    /\ tasks \in [Ids -> Task]
    /\ \A i \in Ids : tasks[i].aged => tasks[i].status \in Finished
    /\ proc \in [Pids -> [alive : BOOLEAN, runner : Runners \cup {NoRunner},
                          task : {0} \cup Ids,
                          watch : {"none", "waiting", "terminating", "done", "left"}]]
    /\ \A c \in Calls : call[c].at \in {"idle", "spawn", "kill"} /\ call[c].task \in Task
    /\ starts \in [Keys -> Nat]

(* A key starts one process as long as its receipt is kept: whatever calls *)
(* race, in one runner or in two, and whatever cancels or cleans up the    *)
(* reservation meanwhile.                                                  *)
KeyStartsOneProcess == \A k \in Keys : starts[k] <= 1

(* A process that outlives the runner that has started and watched it. *)
Left(pid) == pid \in Pids /\ proc[pid].watch = "left"

(* A task on record as finished has no process that still runs, but one    *)
(* that a shutdown or the death of its runtime has left behind.            *)
FinishedIsStopped ==
    \A i \in Ids : tasks[i].status \in Finished => ~Alive(tasks[i].pid) \/ Left(tasks[i].pid)

(* A task on record as running is held by a runner that lists its process  *)
(* and watches it (what is_managed_active asks, but for the moment between *)
(* the exit and the watcher's turn), as long as there is that runner.      *)
RunningIsWatched ==
    \A i \in Ids : tasks[i].status = "running" /\ ~Left(tasks[i].pid) =>
        /\ proc[tasks[i].pid].runner # NoRunner
        /\ proc[tasks[i].pid].task = i
        /\ proc[tasks[i].pid].watch \in {"waiting", "terminating"}

(* Every task that is started comes to an end on record, unless the runner *)
(* that started it goes away: nobody spawns the process of the reservation *)
(* any more, or watches it.                                                *)
Abandoned(i) ==
    /\ \A c \in Calls : call[c].at = "spawn" => call[c].id # i
    /\ tasks[i].pid = 0 \/ Left(tasks[i].pid)
TasksEnd == \A i \in Ids : Open(tasks[i]) ~> ~Open(tasks[i]) \/ Abandoned(i)

=============================================================================
