----------------------- MODULE BackgroundRunnerProofs -----------------------
(***************************************************************************)
(* Theorems about BackgroundTasks with one runner, for any keys, calls and *)
(* bounds: what the records say of the processes.                          *)
(*                                                                         *)
(* The argument: whatever names a process under a task's number, be it the *)
(* record or an object that a call read before its await, names the one    *)
(* process that this number has, or none (Knows).  So a call that saves an *)
(* old object cannot put another process on record, and what it ends has   *)
(* stopped before.                                                         *)
(***************************************************************************)
EXTENDS BackgroundTasksProofs, FiniteSetTheorems

OneRunner == \A r, s \in Runners : r = s

Watched(p) == proc[p].watch \in {"waiting", "terminating"}

(* Process p may be found, or be put on record, under number j.            *)
Knows(j, p) ==
    /\ p # 0
    /\ \/ tasks[j].pid = p
       \/ \E c \in Calls : \/ call[c].id = j /\ call[c].task.pid = p
                           \/ call[c].op = "cleanup" /\ call[c].rest[j].pid = p

ProcRecord == [alive : BOOLEAN, runner : Runners \cup {NoRunner}, task : {0} \cup Ids,
               watch : {"none", "waiting", "terminating", "done", "left"}]

(* Processes are numbered in the order of their start. *)
Numbered == \E n \in 0..MaxSpawns : \A p \in Pids : proc[p] # NoProc <=> p <= n

Process(p) ==
    /\ proc[p] # NoProc => proc[p].task \in Ids
    /\ Watched(p) <=> proc[p].runner # NoRunner
    /\ proc[p].alive => Watched(p) \/ proc[p].watch = "left"

Known == \A j \in Ids, p \in Pids : Knows(j, p) => proc[p].task = j

(* A process that is about to be spawned is not known under its number;    *)
(* nor does anything else have the number, if it has no key.               *)
Spawning(c) ==
    /\ call[c].at = "idle" => call[c] = Idle
    /\ call[c].at # "idle" => call[c].runner \in Runners
    /\ call[c].at = "spawn" =>
          /\ call[c].op = "none" /\ call[c].task.status = "preparing"
          /\ call[c].task.pid = 0
          /\ \A p \in Pids : ~Knows(call[c].id, p)
          /\ call[c].task.key = NoKey => tasks[call[c].id] = NoTask

OneSpawn == \A c, d \in Calls : call[c].at = "spawn" /\ call[d].at = "spawn" => c = d

(* The number of a watched process is on record, is given to no other      *)
(* process, and says running while the process is alive.                   *)
Watching(q) ==
    Watched(q) =>
        /\ tasks[proc[q].task].status # "none" /\ ~tasks[proc[q].task].aged
        /\ \A p \in Pids : Knows(proc[q].task, p) => p = q
        /\ \A c \in Calls : call[c].at = "spawn" => call[c].id # proc[q].task
        /\ proc[q].alive => /\ tasks[proc[q].task].status = "running"
                            /\ tasks[proc[q].task].pid = q

PidsFit ==
    \A i \in Ids : /\ tasks[i].status = "preparing" => tasks[i].pid = 0
                  /\ tasks[i].status = "running" => tasks[i].pid \in Pids

RunnerInv ==
    /\ Inv
    /\ proc \in [Pids -> ProcRecord] /\ Numbered
    /\ \A p \in Pids : Process(p) /\ Watching(p)
    /\ Known /\ OneSpawn
    /\ \A c \in Calls : Spawning(c)
    /\ PidsFit /\ FinishedIsStopped /\ RunningIsWatched

-----------------------------------------------------------------------------
(* Steps that start nothing.                                               *)

(* No process of number i is running and watched after the step.           *)
Stopped(i) == \A p \in Pids : proc[p].task = i => ~(proc'[p].alive /\ Watched(p)')

(* What such a step makes of a record: nothing; a mark on it; a number     *)
(* that is free again; a task that has ended.                              *)
Same(i) == tasks'[i] = tasks[i]
Noted(i) ==
    /\ tasks[i] # NoTask
    /\ tasks'[i].status = tasks[i].status /\ tasks'[i].pid = tasks[i].pid
    /\ tasks'[i].aged # tasks[i].aged =>
          \A p \in Pids : proc[p].task = i => ~Watched(p)
Dropped(i) == tasks[i].aged /\ tasks'[i] = NoTask
Ended(i) ==
    /\ tasks[i] # NoTask
    /\ tasks'[i].status \in Finished /\ ~tasks'[i].aged
    /\ tasks'[i].pid \in Pids => Knows(i, tasks'[i].pid)
    /\ Stopped(i)
    /\ tasks'[i].pid \in Pids =>
          ~proc'[tasks'[i].pid].alive \/ proc[tasks'[i].pid].watch = "left"

(* What it makes of a process. *)
CalmProcess(p) ==
    /\ proc'[p].task = proc[p].task
    /\ proc[p] = NoProc => proc'[p] = NoProc
    /\ proc'[p].alive => proc[p].alive
    /\ proc[p].watch = "left" => proc'[p].watch = "left"
    /\ Watched(p)' <=> proc'[p].runner # NoRunner
    /\ Watched(p)' => Watched(p)
    /\ Watched(p) /\ ~Watched(p)' =>
          \/ proc'[p].watch = "left"
          \/ ~proc'[p].alive /\ tasks'[proc[p].task].status # "running"

(* What it makes of a call: nothing, or one that has ended or awaits the   *)
(* end of a process that is known.                                         *)
CalmCall(c) ==
    \/ call'[c] = call[c]
    \/ call'[c] = Idle
    \/ /\ call'[c].at = "kill" /\ call'[c].runner \in Runners
       /\ call'[c].task.pid \in Pids => Knows(call'[c].id, call'[c].task.pid)
       /\ call'[c].op = "cleanup" =>
             \A j \in Ids : call'[c].rest[j].pid \in Pids => Knows(j, call'[c].rest[j].pid)

Calm ==
    /\ \A i \in Ids : Same(i) \/ Noted(i) \/ Dropped(i) \/ Ended(i)
    /\ \A p \in Pids : CalmProcess(p)
    /\ \A c \in Calls : CalmCall(c)

(* The shapes, as facts to cite. *)
LEMMA Shapes ==
    ASSUME Inv
    PROVE  /\ \A i \in Ids : tasks[i] \in Task /\ tasks[i].pid \in {0} \cup Pids
                             /\ (tasks[i].aged => tasks[i].status \in Finished)
           /\ \A c \in Calls : call[c] \in CallRecord /\ call[c].task \in Task
                               /\ call[c].task.pid \in {0} \cup Pids
                               /\ \A j \in Ids : call[c].rest[j] \in Task
                                                 /\ call[c].rest[j].pid \in {0} \cup Pids
           /\ 0 \notin Pids /\ 0 \notin Ids
<1>1. \A i \in Ids : tasks[i] \in Task /\ (tasks[i].aged => tasks[i].status \in Finished)
  BY DEF Inv, Shaped
<1>2. \A c \in Calls : call[c] \in CallRecord /\ call[c].task \in Task
                       /\ \A j \in Ids : call[c].rest[j] \in Task
  BY DEF Inv, Shaped, CallRecord
<1>3. \A task \in Task : task.pid \in {0} \cup Pids
  BY DEF Task
<1>4. 0 \notin Pids /\ 0 \notin Ids
  BY BoundsAssumption DEF Pids, Ids
<1>. QED  BY <1>1, <1>2, <1>3, <1>4

LEMMA BlankTask == NoTask.status = "none" /\ NoTask.pid = 0 /\ ~NoTask.aged
  BY DEF NoTask

(* A calm step makes no process known under a number.                      *)
LEMMA CalmKnows ==
    ASSUME RunnerInv, Inv', Calm, NEW j \in Ids, NEW p \in Pids, Knows(j, p)'
    PROVE  Knows(j, p)
<1>. p # 0
  BY Shapes DEF RunnerInv
<1>1. CASE tasks'[j].pid = p
  <2>1. CASE Same(j) \/ Noted(j)
    BY <1>1, <2>1 DEF Same, Noted, Knows
  <2>2. CASE Dropped(j)
    BY <1>1, <2>2, BlankTask DEF Dropped
  <2>3. CASE Ended(j)
    BY <1>1, <2>3 DEF Ended
  <2>. QED  BY <2>1, <2>2, <2>3 DEF Calm
<1>2. ASSUME NEW c \in Calls,
             \/ call'[c].id = j /\ call'[c].task.pid = p
             \/ call'[c].op = "cleanup" /\ call'[c].rest[j].pid = p
      PROVE  Knows(j, p)
  <2>1. CASE call'[c] = call[c]
    BY <1>2, <2>1 DEF Knows
  <2>2. CASE call'[c] = Idle
    BY <1>2, <2>2, BlankTask DEF Idle
  <2>3. CASE call'[c] # call[c] /\ call'[c] # Idle
    BY <1>2, <2>3 DEF Calm, CalmCall
  <2>. QED  BY <2>1, <2>2, <2>3
<1>. QED  BY <1>1, <1>2 DEF Knows

LEMMA CalmKeeps ==
    ASSUME RunnerInv, Inv', proc' \in [Pids -> ProcRecord], Calm
    PROVE  RunnerInv'
<1>. USE DEF RunnerInv
<1>1. \A i \in Ids : Same(i) \/ Noted(i) \/ Dropped(i) \/ Ended(i)
  BY DEF Calm
<1>2. \A p \in Pids : CalmProcess(p) /\ Process(p) /\ Watching(p)
  BY DEF Calm
<1>3. \A p \in Pids : Process(p)' /\ (proc'[p] # NoProc <=> proc[p] # NoProc)
  <2>. SUFFICES ASSUME NEW p \in Pids
                PROVE  Process(p)' /\ (proc'[p] # NoProc <=> proc[p] # NoProc)
    OBVIOUS
  <2>1. proc[p] # NoProc => proc[p].task \in Ids /\ proc'[p].task \in Ids
    BY <1>2 DEF Process, CalmProcess
  <2>2. NoProc.task = 0
    BY DEF NoProc
  <2>3. proc[p] # NoProc => proc'[p] # NoProc
    BY <2>1, <2>2, Shapes
  <2>4. proc'[p].alive => Watched(p)' \/ proc'[p].watch = "left"
    BY <1>2 DEF Process, CalmProcess
  <2>. QED  BY <1>2, <2>1, <2>3, <2>4 DEF Process, CalmProcess
<1>4. Numbered'
  BY <1>3 DEF Numbered
<1>5. Known'
  BY <1>2, CalmKnows DEF Known, CalmProcess
<1>6. \A c \in Calls : call'[c].at = "spawn" => call'[c] = call[c]
  BY IdleIsCall DEF Calm, CalmCall
<1>7. OneSpawn'
  BY <1>6 DEF OneSpawn
<1>8. \A i \in Ids : tasks[i] = NoTask => tasks'[i] = NoTask
  BY <1>1 DEF Same, Noted, Dropped, Ended
<1>9. ASSUME NEW c \in Calls
      PROVE  Spawning(c)'
  <2>1. CASE call'[c] = call[c]
    <3>1. /\ call[c].at = "spawn" => call[c].id \in Ids
      BY DEF Inv, CallKept
    <3>2. \A p \in Pids : call[c].at = "spawn" => ~Knows(call[c].id, p)'
      BY <2>1, <3>1, CalmKnows DEF Spawning
    <3>. QED  BY <1>8, <2>1, <3>1, <3>2 DEF Spawning
  <2>2. CASE call'[c] = Idle
    BY <2>2, IdleIsCall DEF Spawning
  <2>3. CASE call'[c] # call[c] /\ call'[c] # Idle
    BY <2>3 DEF Calm, CalmCall, Spawning
  <2>. QED  BY <2>1, <2>2, <2>3
<1>10. ASSUME NEW q \in Pids
       PROVE  Watching(q)'
  <2>. SUFFICES ASSUME Watched(q)'
                PROVE  Watching(q)'
    BY DEF Watching
  <2>0. PICK i : i = proc[q].task
    OBVIOUS
  <2>1. Watched(q) /\ proc'[q].task = i /\ Watching(q)
    BY <1>2, <2>0 DEF CalmProcess
  <2>2. i \in Ids
    BY <1>2, <2>0, <2>1, Shapes DEF Process, Watched, NoProc
  <2>3. ~tasks[i].aged /\ tasks[i].status # "none"
    BY <2>0, <2>1 DEF Watching
  <2>4. tasks'[i].status # "none" /\ ~tasks'[i].aged
    BY <1>1, <2>0, <2>1, <2>2, <2>3 DEF Same, Noted, Dropped, Ended, Finished
  <2>5. \A p \in Pids : Knows(i, p)' => p = q
    BY <2>0, <2>1, <2>2, CalmKnows DEF Watching
  <2>6. \A c \in Calls : call'[c].at = "spawn" => call'[c].id # i
    BY <1>6, <2>0, <2>1 DEF Watching
  <2>7. ASSUME proc'[q].alive
        PROVE  tasks'[i].status = "running" /\ tasks'[i].pid = q
    <3>1. proc[q].alive /\ tasks[i].status = "running" /\ tasks[i].pid = q
      BY <1>2, <2>0, <2>1, <2>7 DEF CalmProcess, Watching
    <3>2. ~Ended(i)
      BY <2>0, <2>1, <2>7 DEF Ended, Stopped
    <3>. QED  BY <1>1, <2>2, <2>3, <3>1, <3>2 DEF Same, Noted, Dropped
  <2>. QED  BY <2>1, <2>4, <2>5, <2>6, <2>7 DEF Watching
<1>11. PidsFit'
  BY <1>1, BlankTask DEF PidsFit, Same, Noted, Dropped, Ended, Finished
<1>12. FinishedIsStopped'
  <2>. SUFFICES ASSUME NEW i \in Ids, tasks'[i].status \in Finished, tasks'[i].pid \in Pids,
                       proc'[tasks'[i].pid].alive
                PROVE  proc'[tasks'[i].pid].watch = "left"
    BY DEF FinishedIsStopped, Alive, Left
  <2>1. CASE Same(i) \/ Noted(i)
    BY <1>2, <2>1 DEF Same, Noted, FinishedIsStopped, Alive, Left, CalmProcess
  <2>2. CASE Dropped(i)
    BY <2>2, BlankTask DEF Dropped, Finished
  <2>3. CASE Ended(i)
    BY <1>2, <2>3 DEF Ended, CalmProcess
  <2>. QED  BY <1>1, <2>1, <2>2, <2>3
<1>13. RunningIsWatched'
  <2>. SUFFICES ASSUME NEW i \in Ids, NEW p, p = tasks'[i].pid,
                       tasks'[i].status = "running", ~Left(p)'
                PROVE  /\ proc'[p].runner # NoRunner /\ proc'[p].task = i
                       /\ proc'[p].watch \in {"waiting", "terminating"}
    BY DEF RunningIsWatched, Left
  <2>1. tasks[i].status = "running" /\ tasks[i].pid = p
    BY <1>1, BlankTask DEF Same, Noted, Dropped, Ended, Finished
  <2>2. p \in Pids
    BY <2>1 DEF PidsFit
  <2>3. proc[p].watch # "left" /\ proc'[p].watch # "left"
    BY <1>2, <2>2 DEF Left, CalmProcess
  <2>4. proc[p].task = i /\ Watched(p)
    BY <2>1, <2>3 DEF RunningIsWatched, Watched, Left
  <2>5. Watched(p)'
    BY <1>2, <2>2, <2>3, <2>4 DEF CalmProcess
  <2>. QED  BY <1>2, <2>2, <2>4, <2>5 DEF CalmProcess, Watched
<1>. QED  BY <1>3, <1>4, <1>5, <1>7, <1>9, <1>10, <1>11, <1>12, <1>13

-----------------------------------------------------------------------------
(* The world, and the watcher.                                             *)

(* Processes that a step leaves alone, or that it ends, are calm.          *)
LEMMA ProcessStays ==
    ASSUME RunnerInv, NEW p \in Pids, proc'[p] = proc[p]
    PROVE  CalmProcess(p)
  BY DEF RunnerInv, Process, CalmProcess, Watched

LEMMA TimesOutKeeps ==
    ASSUME RunnerInv, Inv', NEW p \in Pids, TimesOut(p)
    PROVE  RunnerInv'
<1>1. /\ proc' = [proc EXCEPT ![p].watch = "terminating"] /\ tasks' = tasks /\ call' = call
      /\ proc[p].watch = "waiting" /\ proc[p].alive
  BY DEF TimesOut
<1>2. proc' \in [Pids -> ProcRecord] /\ \A q \in Pids : q # p => proc'[q] = proc[q]
  BY <1>1 DEF RunnerInv, ProcRecord
<1>3. CalmProcess(p)
  BY <1>1 DEF RunnerInv, ProcRecord, Process, CalmProcess, Watched, NoProc
<1>4. \A q \in Pids : CalmProcess(q)
  BY <1>2, <1>3, ProcessStays
<1>. QED  BY <1>1, <1>2, <1>4, CalmKeeps DEF Calm, Same, CalmCall

LEMMA ProcessExitsKeeps ==
    ASSUME RunnerInv, Inv', NEW p \in Pids, ProcessExits(p)
    PROVE  RunnerInv'
<1>1. /\ proc' = [proc EXCEPT ![p].alive = FALSE] /\ tasks' = tasks /\ call' = call
      /\ proc[p].alive
  BY DEF ProcessExits
<1>2. proc' \in [Pids -> ProcRecord] /\ \A q \in Pids : q # p => proc'[q] = proc[q]
  BY <1>1 DEF RunnerInv, ProcRecord
<1>3. CalmProcess(p)
  BY <1>1 DEF RunnerInv, ProcRecord, Process, CalmProcess, Watched, NoProc
<1>4. \A q \in Pids : CalmProcess(q)
  BY <1>2, <1>3, ProcessStays
<1>. QED  BY <1>1, <1>2, <1>4, CalmKeeps DEF Calm, Same, CalmCall

(* What a pruning save makes of records. *)
LEMMA Pruned ==
    ASSUME NEW records \in [Ids -> Task], SavesAndPrunes(records)
    PROVE  \A i \in Ids : tasks'[i] = IF records[i].aged THEN NoTask ELSE records[i]
  BY DEF SavesAndPrunes

LEMMA WatchEndsKeepsRunner ==
    ASSUME RunnerInv, Inv', NEW p \in Pids, WatchEnds(p)
    PROVE  RunnerInv'
<1>0. PICK i : i = proc[p].task
  OBVIOUS
<1>1. /\ proc' = [proc EXCEPT ![p].watch = "done", ![p].runner = NoRunner] /\ call' = call
      /\ Watched(p) /\ ~proc[p].alive
  BY DEF WatchEnds, Watched
<1>2. i \in Ids /\ Watching(p)
  BY <1>0, <1>1, Shapes DEF RunnerInv, Process, Watched, NoProc
<1>3. proc' \in [Pids -> ProcRecord] /\ \A q \in Pids : q # p => proc'[q] = proc[q]
  BY <1>1 DEF RunnerInv, ProcRecord
<1>4. /\ proc'[p].watch = "done" /\ proc'[p].runner = NoRunner /\ proc'[p].task = i
      /\ ~proc'[p].alive
  BY <1>0, <1>1 DEF RunnerInv, ProcRecord
<1>5. \A j \in Ids : Same(j) \/ Noted(j) \/ Dropped(j) \/ Ended(j)
  <2>1. CASE Saves(tasks)
    BY <2>1 DEF Saves, Same
  <2>2. CASE /\ ~LeavesAlone(tasks[i])
             /\ \E status \in Finished : SavesAndPrunes([tasks EXCEPT ![i] = Ends(@, status)])
    <3>1. PICK status \in Finished : SavesAndPrunes([tasks EXCEPT ![i] = Ends(tasks[i], status)])
      BY <1>2, <2>2 DEF RunnerInv, Inv, Shaped
    <3>2. PICK ended : ended = Ends(tasks[i], status)
      OBVIOUS
    <3>3. /\ ended \in Task /\ ended.status \in Finished /\ ~ended.aged
          /\ ended.pid = tasks[i].pid
      BY <1>2, <3>1, <3>2, Shapes DEF RunnerInv, Ends, Task
    <3>4. [tasks EXCEPT ![i] = ended] \in [Ids -> Task]
      BY <3>3 DEF RunnerInv, Inv, Shaped
    <3>5. /\ tasks'[i] = ended
          /\ \A j \in Ids : j # i => tasks'[j] = IF tasks[j].aged THEN NoTask ELSE tasks[j]
      BY <1>2, <3>1, <3>2, <3>3, <3>4, Pruned DEF RunnerInv, Inv, Shaped
    <3>6. Ended(i)
      <4>1. tasks[i] # NoTask
        BY <2>2, BlankTask DEF LeavesAlone
      <4>2. tasks'[i].pid \in Pids => Knows(i, tasks'[i].pid) /\ tasks'[i].pid = p
        BY <1>0, <1>1, <1>2, <3>3, <3>5, Shapes DEF RunnerInv, Knows, Watching
      <4>3. Stopped(i)
        <5>1. ASSUME NEW q \in Pids, proc[q].task = i, proc'[q].alive, Watched(q)'
              PROVE  FALSE
          <6>1. q # p /\ proc'[q] = proc[q]
            BY <1>3, <1>4, <5>1
          <6>2. tasks[i].pid = q
            BY <5>1, <6>1 DEF RunnerInv, Watching, Watched
          <6>. QED  BY <1>0, <1>1, <1>2, <6>1, <6>2, Shapes DEF RunnerInv, Knows, Watching
        <5>. QED  BY <5>1 DEF Stopped
      <4>. QED  BY <1>4, <3>3, <3>5, <4>1, <4>2, <4>3 DEF Ended
    <3>7. \A j \in Ids : j # i => Same(j) \/ Dropped(j)
      BY <3>5 DEF Same, Dropped
    <3>. QED  BY <3>6, <3>7
  <2>. QED  BY <1>0, <2>1, <2>2 DEF WatchEnds, Finished
<1>6. tasks'[i].status # "running"
  <2>1. CASE Saves(tasks) /\ LeavesAlone(tasks[i])
    BY <2>1 DEF Saves, LeavesAlone
  <2>2. CASE ~LeavesAlone(tasks[i]) /\ \E status \in Finished :
                SavesAndPrunes([tasks EXCEPT ![i] = Ends(@, status)])
    <3>1. PICK status \in Finished : SavesAndPrunes([tasks EXCEPT ![i] = Ends(tasks[i], status)])
      BY <1>2, <2>2 DEF RunnerInv, Inv, Shaped
    <3>2. tasks'[i] = IF Ends(tasks[i], status).aged THEN NoTask ELSE Ends(tasks[i], status)
      BY <1>2, <3>1 DEF SavesAndPrunes, RunnerInv, Inv, Shaped
    <3>3. Ends(tasks[i], status).status \in Finished
      BY <1>2, Shapes, EndsIsTask DEF RunnerInv
    <3>. QED  BY <3>2, <3>3, BlankTask DEF Finished
  <2>. QED  BY <1>0, <2>1, <2>2 DEF WatchEnds, Finished
<1>7. CalmProcess(p)
  <2>1. proc[p] # NoProc /\ proc[p].watch # "left"
    BY <1>1 DEF Watched, NoProc
  <2>2. ~Watched(p)'
    BY <1>4 DEF Watched
  <2>. QED  BY <1>0, <1>1, <1>4, <1>6, <2>1, <2>2 DEF CalmProcess
<1>8. \A q \in Pids : CalmProcess(q)
  BY <1>3, <1>7, ProcessStays
<1>. QED  BY <1>1, <1>3, <1>5, <1>8, CalmKeeps DEF Calm, CalmCall

LEMMA CollectKeepsRunner == RunnerInv /\ Inv' /\ Collect => RunnerInv'
<1>. SUFFICES ASSUME RunnerInv, Inv', Collect
              PROVE  RunnerInv'
  OBVIOUS
<1>1. PICK records :
         /\ SavesAndPrunes(records) /\ call' = call /\ proc' = proc
         /\ records \in [Ids -> Task]
         /\ \A i \in Ids : records[i] = tasks[i]
                           \/ /\ tasks[i].status \in Finished
                              /\ records[i].status = tasks[i].status
                              /\ records[i].pid = tasks[i].pid
                              /\ records[i].aged = tasks[i].aged
  <2> DEFINE new == {i \in Ids : tasks[i].status \in Finished /\ ~tasks[i].notified}
             records == [i \in Ids |-> IF i \in new THEN [tasks[i] EXCEPT !.notified = TRUE]
                                       ELSE tasks[i]]
  <2>1. SavesAndPrunes(records) /\ call' = call /\ proc' = proc
    BY DEF Collect
  <2>2. \A i \in Ids : /\ records[i] \in Task
                      /\ \/ records[i] = tasks[i]
                         \/ /\ tasks[i].status \in Finished
                            /\ records[i].status = tasks[i].status
                            /\ records[i].pid = tasks[i].pid
                            /\ records[i].aged = tasks[i].aged
    BY DEF RunnerInv, Inv, Shaped, Task
  <2>3. records \in [Ids -> Task]
    BY <2>2
  <2> HIDE DEF records
  <2> QED
    BY <2>1, <2>2, <2>3
<1>2. \A i \in Ids : tasks'[i] = IF records[i].aged THEN NoTask ELSE records[i]
  BY <1>1, Pruned
<1>3. \A i \in Ids : Same(i) \/ Noted(i) \/ Dropped(i)
  BY <1>1, <1>2, BlankTask DEF Same, Noted, Dropped, Finished
<1>4. \A p \in Pids : CalmProcess(p)
  BY <1>1, ProcessStays
<1>. QED  BY <1>1, <1>3, <1>4, CalmKeeps DEF Calm, CalmCall, RunnerInv

LEMMA AgeKeepsRunner ==
    ASSUME RunnerInv, Inv', NEW i \in Ids, Age(i)
    PROVE  RunnerInv'
<1>1. /\ tasks' = [tasks EXCEPT ![i].aged = TRUE] /\ tasks[i].status \in Finished
      /\ call' = call /\ proc' = proc
      /\ \A p \in Pids : proc[p].task = i => ~Watched(p)
  BY DEF Age, Watched
<1>2. /\ tasks'[i].status = tasks[i].status /\ tasks'[i].pid = tasks[i].pid
      /\ \A j \in Ids : j # i => tasks'[j] = tasks[j]
  BY <1>1 DEF RunnerInv, Inv, Shaped, Task
<1>3. \A j \in Ids : Same(j) \/ Noted(j)
  BY <1>1, <1>2, BlankTask DEF Same, Noted, Finished
<1>4. \A p \in Pids : CalmProcess(p)
  BY <1>1, ProcessStays
<1>. QED  BY <1>1, <1>3, <1>4, CalmKeeps DEF Calm, CalmCall, RunnerInv

LEMMA RestartKeepsRunner == RunnerInv /\ Inv' /\ Restart => RunnerInv'
<1>. SUFFICES ASSUME RunnerInv, Inv', Restart
              PROVE  RunnerInv'
  OBVIOUS
<1>1. /\ proc' = [p \in Pids |-> IF proc[p] = NoProc THEN NoProc
                                 ELSE [proc[p] EXCEPT !.runner = NoRunner,
                                                      !.watch = IF @ = "done" THEN @ ELSE "left"]]
      /\ \A c \in Calls : call'[c] = Idle
      /\ SavesAndPrunes(tasks)
  BY DEF Restart
<1>2. \A i \in Ids : Same(i) \/ Dropped(i)
  BY <1>1, Pruned DEF RunnerInv, Inv, Shaped, Same, Dropped
<1>3. ASSUME NEW p \in Pids
      PROVE  CalmProcess(p) /\ proc'[p] \in ProcRecord
  <2>1. proc[p] \in ProcRecord /\ Process(p)
    BY DEF RunnerInv
  <2>2. CASE proc[p] = NoProc
    BY <1>1, <2>1, <2>2 DEF CalmProcess, Watched, NoProc
  <2>3. CASE proc[p] # NoProc
    <3>1. PICK watch : watch = IF proc[p].watch = "done" THEN "done" ELSE "left"
      OBVIOUS
    <3>2. proc'[p] = [proc[p] EXCEPT !.runner = NoRunner, !.watch = watch]
      BY <1>1, <2>1, <2>3, <3>1 DEF ProcRecord
    <3>3. /\ proc'[p] \in ProcRecord /\ proc'[p].runner = NoRunner /\ proc'[p].watch = watch
          /\ proc'[p].task = proc[p].task /\ proc'[p].alive = proc[p].alive
      BY <2>1, <3>1, <3>2 DEF ProcRecord
    <3>. QED  BY <2>1, <2>3, <3>1, <3>3 DEF CalmProcess, Watched
  <2>. QED  BY <2>2, <2>3
<1>4. proc' \in [Pids -> ProcRecord]
  BY <1>1, <1>3
<1>. QED  BY <1>1, <1>2, <1>3, <1>4, CalmKeeps DEF Calm, CalmCall

-----------------------------------------------------------------------------
(* The calls.                                                              *)

LEMMA SpawnFailsKeepsRunner ==
    ASSUME RunnerInv, Inv', NEW c \in Calls, SpawnFails(c)
    PROVE  RunnerInv'
<1>0. PICK i, ended : i = call[c].id /\ ended = Ends(call[c].task, "failed")
  OBVIOUS
<1>1. /\ call[c].at = "spawn" /\ call' = [call EXCEPT ![c] = Idle] /\ proc' = proc
      /\ tasks' = IF call[c].task.key = NoKey THEN tasks ELSE [tasks EXCEPT ![i] = ended]
  BY <1>0 DEF SpawnFails, Saves
<1>2. /\ i \in Ids /\ Spawning(c) /\ tasks \in [Ids -> Task] /\ call \in [Calls -> CallRecord]
      /\ call[c].task.key # NoKey => Kept(i, call[c].task.key)
  BY <1>0, <1>1 DEF RunnerInv, Inv, Shaped, CallKept
<1>3. ended.status \in Finished /\ ~ended.aged /\ ended.pid = 0
  BY <1>0, <1>1, <1>2, Shapes DEF RunnerInv, Spawning, Ends, Finished, Task
<1>4. \A j \in Ids : Same(j) \/ Ended(j)
  <2>1. CASE call[c].task.key = NoKey
    BY <1>1, <2>1 DEF Same
  <2>2. CASE call[c].task.key # NoKey
    <3>1. tasks'[i] = ended /\ \A j \in Ids : j # i => tasks'[j] = tasks[j]
      BY <1>1, <1>2, <2>2
    <3>2. tasks[i] # NoTask
      BY <1>2, <2>2, BlankTask DEF Kept
    <3>3. Stopped(i)
      BY <1>0, <1>1 DEF Stopped, RunnerInv, Watching, Watched
    <3>4. Ended(i)
      BY <1>3, <3>1, <3>2, <3>3, Shapes DEF Ended, RunnerInv
    <3>. QED  BY <3>1, <3>4 DEF Same
  <2>. QED  BY <2>1, <2>2
<1>5. \A d \in Calls : CalmCall(d)
  BY <1>1, <1>2 DEF CalmCall
<1>6. \A p \in Pids : CalmProcess(p)
  BY <1>1, ProcessStays
<1>. QED  BY <1>1, <1>4, <1>5, <1>6, CalmKeeps DEF Calm, RunnerInv

(* A record that a call brings: the one on record, or a task that it has   *)
(* ended.                                                                  *)
Brought(r, i, record) ==
    \/ record = tasks[i]
    \/ /\ tasks[i] # NoTask /\ record.status \in Finished /\ ~record.aged
       /\ Live(r, i) = {}
       /\ record.pid \in Pids => /\ Knows(i, record.pid)
                                 /\ ~proc[record.pid].alive \/ proc[record.pid].watch = "left"

(* The only runner lists every process that is watched.                    *)
LEMMA WatchedIsListed ==
    ASSUME OneRunner, RunnerInv, NEW r \in Runners, NEW p \in Pids, Watched(p)
    PROVE  p \in Listed(r, proc[p].task)
  BY DEF OneRunner, RunnerInv, Process, ProcRecord, Listed

(* So a process of a number whose list has nothing alive is dead or left.  *)
LEMMA NotLiveIsOver ==
    ASSUME OneRunner, RunnerInv, NEW r \in Runners, NEW i \in Ids, Live(r, i) = {},
           NEW p \in Pids, Knows(i, p)
    PROVE  ~proc[p].alive \/ proc[p].watch = "left"
<1>1. proc[p].task = i
  BY DEF RunnerInv, Known
<1>2. proc[p].alive => ~Watched(p)
  BY <1>1, WatchedIsListed DEF Live
<1>. QED  BY <1>2 DEF RunnerInv, Process

LEMMA ProceedKeepsRunner ==
    ASSUME OneRunner, RunnerInv, Inv', NEW c \in Calls,
           NEW op \in {"cancel", "cleanup", "shutdown"}, NEW r \in Runners,
           NEW records \in [Ids -> Task], NEW rest \in [Ids -> Task],
           \A i \in Ids : Brought(r, i, records[i]),
           op = "cleanup" => \A i \in Ids : /\ rest[i] # NoTask => tasks[i] # NoTask
                                            /\ rest[i].pid \in Pids => Knows(i, rest[i].pid),
           Proceed(c, op, r, records, rest)
    PROVE  RunnerInv'
<1> DEFINE pending == {i \in Ids : rest[i] # NoTask}
           marked(visited) == [i \in Ids |->
                                 IF i \in visited /\ ~Skipped(op, r, i, records)
                                 THEN Marked(op, records[i], rest[i]) ELSE records[i]]
           killed(visited) == {p \in Pids : op = "cleanup"
                                            /\ \E i \in visited : rest[i].pid = p
                                                                  /\ Live(r, i) = {}}
           swept(visited)  == [p \in Pids |-> IF p \in killed(visited)
                                              THEN [proc[p] EXCEPT !.alive = FALSE] ELSE proc[p]]
           next(visited, i) == [at |-> "kill", op |-> op, runner |-> r, id |-> i,
                                task |-> records[i],
                                rest |-> [j \in Ids |-> IF j \in visited \cup {i}
                                                        THEN NoTask ELSE rest[j]]]
<1>1. PICK visited \in SUBSET pending :
         /\ \A i \in visited : ~Awaited(r, i, records)
         /\ SavesAndPrunes(marked(visited))
         /\ \/ /\ call' = [call EXCEPT ![c] = Idle]
               /\ proc' = [p \in Pids |->
                             IF op = "shutdown" /\ swept(visited)[p].runner = r
                                /\ swept(visited)[p].watch \in {"waiting", "terminating"}
                             THEN [swept(visited)[p] EXCEPT !.watch = "left",
                                                   !.runner = NoRunner]
                             ELSE swept(visited)[p]]
            \/ \E i \in pending \ visited :
                  /\ Awaited(r, i, records) /\ call' = [call EXCEPT ![c] = next(visited, i)]
                  /\ proc' = swept(visited)
  BY DEF Proceed
<1>2. PICK dead : dead = killed(visited)
  OBVIOUS
<1>3. \A p \in dead : p \in Pids /\ op = "cleanup"
  BY <1>2
<1>4. ASSUME NEW p \in Pids
      PROVE  /\ proc'[p].task = proc[p].task
             /\ proc'[p].alive = (proc[p].alive /\ p \notin dead)
             /\ \/ proc'[p].watch = proc[p].watch /\ proc'[p].runner = proc[p].runner
                \/ /\ Watched(p) /\ proc'[p].watch = "left" /\ proc'[p].runner = NoRunner
             /\ proc'[p] \in ProcRecord
             /\ proc[p] = NoProc => proc'[p] = NoProc
  <2>1. PICK w : w = swept(visited)[p]
    OBVIOUS
  <2>2. w = IF p \in dead THEN [proc[p] EXCEPT !.alive = FALSE] ELSE proc[p]
    BY <1>2, <2>1
  <2>3. proc[p] \in ProcRecord
    BY DEF RunnerInv
  <2>4. /\ w \in ProcRecord /\ w.task = proc[p].task /\ w.watch = proc[p].watch
        /\ w.runner = proc[p].runner /\ w.alive = (proc[p].alive /\ p \notin dead)
    BY <2>2, <2>3 DEF ProcRecord
  <2>5. proc[p] = NoProc => w = NoProc
    <3>1. p \in dead => \E i \in Ids : Knows(i, p)
      BY <1>2
    <3>2. p \in dead => proc[p].task \in Ids
      BY <3>1 DEF RunnerInv, Known
    <3>3. NoProc.task \notin Ids
      BY Shapes DEF NoProc, RunnerInv
    <3>. QED  BY <2>2, <3>2, <3>3
  <2>6. \/ proc'[p] = w
        \/ /\ w.watch \in {"waiting", "terminating"}
           /\ proc'[p] = [w EXCEPT !.watch = "left", !.runner = NoRunner]
    BY <1>1, <2>1
  <2>7. CASE proc'[p] = w
    BY <2>3, <2>4, <2>5, <2>7
  <2>8. CASE /\ w.watch \in {"waiting", "terminating"}
             /\ proc'[p] = [w EXCEPT !.watch = "left", !.runner = NoRunner]
    <3>1. /\ proc'[p].task = w.task /\ proc'[p].alive = w.alive /\ proc'[p].watch = "left"
          /\ proc'[p].runner = NoRunner /\ proc'[p] \in ProcRecord
      BY <2>4, <2>8 DEF ProcRecord
    <3>2. Watched(p)
      BY <2>4, <2>8 DEF Watched
    <3>3. proc[p] # NoProc
      BY <3>2 DEF Watched, NoProc
    <3>. QED  BY <2>4, <3>1, <3>2, <3>3
  <2>. QED  BY <2>6, <2>7, <2>8
<1>5. proc' \in [Pids -> ProcRecord]
  <2>1. DOMAIN proc' = Pids /\ proc' = [p \in Pids |-> proc'[p]]
    BY <1>1
  <2>. QED  BY <1>4, <2>1
<1>6. \A p \in Pids : CalmProcess(p)
  BY <1>4 DEF CalmProcess, RunnerInv, Process, Watched
<1>7. ASSUME NEW i \in Ids, Live(r, i) = {}
      PROVE  Stopped(i)
  <2>1. ASSUME NEW p \in Pids, proc[p].task = i, proc'[p].alive, Watched(p)'
        PROVE  FALSE
    <3>1. proc[p].alive /\ Watched(p)
      BY <1>6, <2>1 DEF CalmProcess
    <3>2. p \in Listed(r, i)
      BY <2>1, <3>1, WatchedIsListed
    <3>. QED  BY <1>7, <3>1, <3>2 DEF Live
  <2>. QED  BY <2>1 DEF Stopped
<1>8. ASSUME NEW i \in Ids, i \in visited, ~Skipped(op, r, i, records)
      PROVE  /\ marked(visited)[i] \in Task /\ marked(visited)[i].status \in Finished
             /\ ~marked(visited)[i].aged
             /\ marked(visited)[i].pid \in Pids =>
                   /\ Knows(i, marked(visited)[i].pid)
                   /\ ~proc'[marked(visited)[i].pid].alive
                      \/ proc[marked(visited)[i].pid].watch = "left"
             /\ tasks[i] # NoTask /\ Live(r, i) = {}
  <2>1. Live(r, i) = {}
    BY <1>1, <1>8 DEF Awaited, Skipped
  <2>0. PICK m : m = marked(visited)[i]
    OBVIOUS
  <2>2. CASE op = "cleanup"
    <3>1. PICK status \in Finished : m = Ends(rest[i], status)
      BY <1>8, <2>0, <2>2 DEF Marked, Finished
    <3>2. tasks[i] # NoTask /\ rest[i] \in Task
      BY <1>1, <1>8, <2>2
    <3>3. m.pid = rest[i].pid
      BY <3>1, <3>2 DEF Ends, Task
    <3>4. m \in Task /\ m.status \in Finished /\ ~m.aged
      BY <3>1, <3>2, EndsIsTask
    <3>5. rest[i].pid \in Pids => /\ rest[i].pid \in dead
                                 /\ Knows(i, rest[i].pid)
      BY <1>2, <1>8, <2>1, <2>2
    <3>6. rest[i].pid \in Pids => ~proc'[rest[i].pid].alive
      BY <1>4, <3>5
    <3>. HIDE DEF marked
    <3>. QED  BY <2>0, <2>1, <3>2, <3>3, <3>4, <3>5, <3>6
  <2>3. CASE op # "cleanup"
    <3>1. Open(records[i]) /\ m = Ends(records[i], "cancelled")
      BY <1>8, <2>0, <2>3 DEF Skipped, Marked
    <3>2. records[i] = tasks[i] /\ tasks[i] # NoTask
      BY <3>1, BlankTask DEF Brought, Open, Finished
    <3>3. m.pid = tasks[i].pid /\ m \in Task /\ m.status \in Finished /\ ~m.aged
      BY <3>1, <3>2, EndsIsTask, ZenonT(60) DEF Ends, Task, Finished
    <3>4. tasks[i].pid \in Pids => Knows(i, tasks[i].pid)
      BY Shapes DEF Knows, RunnerInv
    <3>5. tasks[i].pid \in Pids => ~proc[tasks[i].pid].alive \/ proc[tasks[i].pid].watch = "left"
      BY <2>1, <3>4, NotLiveIsOver
    <3>6. tasks[i].pid \in Pids => ~proc'[tasks[i].pid].alive \/ proc[tasks[i].pid].watch = "left"
      BY <1>4, <3>5
    <3>. HIDE DEF marked
    <3>. QED  BY <2>0, <2>1, <3>2, <3>3, <3>4, <3>6
  <2>. QED  BY <2>2, <2>3
<1>9. \A i \in Ids : ~(i \in visited /\ ~Skipped(op, r, i, records)) =>
                        marked(visited)[i] = records[i]
  OBVIOUS
<1>10. marked(visited) \in [Ids -> Task]
  <2>1. \A i \in Ids : marked(visited)[i] \in Task
    <3>. HIDE DEF marked
    <3>. QED  BY <1>8, <1>9
  <2>. QED  BY <2>1
<1>11. PICK new : new = marked(visited)
  OBVIOUS
<1>12. \A i \in Ids : tasks'[i] = IF new[i].aged THEN NoTask ELSE new[i]
  <2>. HIDE DEF marked
  <2>. QED  BY <1>1, <1>10, <1>11, Pruned
<1>13. ASSUME NEW i \in Ids
       PROVE  Same(i) \/ Dropped(i) \/ Ended(i)
  <2>1. CASE i \in visited /\ ~Skipped(op, r, i, records)
    <3>1. /\ new[i].status \in Finished /\ ~new[i].aged
          /\ new[i].pid \in Pids => /\ Knows(i, new[i].pid)
                                    /\ ~proc'[new[i].pid].alive
                                       \/ proc[new[i].pid].watch = "left"
          /\ tasks[i] # NoTask /\ Live(r, i) = {}
      <4>. HIDE DEF marked
      <4>. QED  BY <1>8, <1>11, <2>1
    <3>2. tasks'[i] = new[i]
      BY <1>12, <3>1
    <3>. QED  BY <1>7, <3>1, <3>2 DEF Ended
  <2>2. CASE ~(i \in visited /\ ~Skipped(op, r, i, records))
    <3>1. new[i] = records[i] /\ Brought(r, i, records[i])
      BY <1>9, <1>11, <2>2
    <3>2. CASE records[i] = tasks[i]
      BY <1>12, <3>1, <3>2 DEF Same, Dropped
    <3>3. CASE records[i] # tasks[i]
      <4>1. /\ tasks[i] # NoTask /\ records[i].status \in Finished /\ ~records[i].aged
            /\ Live(r, i) = {}
            /\ records[i].pid \in Pids =>
                  /\ Knows(i, records[i].pid)
                  /\ ~proc[records[i].pid].alive \/ proc[records[i].pid].watch = "left"
        BY <3>1, <3>3 DEF Brought
      <4>2. tasks'[i] = records[i]
        BY <1>12, <3>1, <4>1
      <4>3. records[i].pid \in Pids => (proc'[records[i].pid].alive => proc[records[i].pid].alive)
        BY <1>4
      <4>. QED  BY <1>7, <4>1, <4>2, <4>3 DEF Ended
    <3>. QED  BY <3>2, <3>3
  <2>. QED  BY <2>1, <2>2
<1>14. ASSUME NEW d \in Calls
       PROVE  CalmCall(d)
  <2>1. call \in [Calls -> CallRecord]
    BY DEF RunnerInv, Inv, Shaped
  <2>2. CASE call' = [call EXCEPT ![c] = Idle]
    BY <2>1, <2>2 DEF CalmCall
  <2>3. ASSUME NEW i \in pending \ visited, Awaited(r, i, records),
               call' = [call EXCEPT ![c] = next(visited, i)]
        PROVE  CalmCall(d)
    <3>1. CASE d # c
      BY <2>1, <2>3, <3>1 DEF CalmCall
    <3>2. CASE d = c
      <4>1. call'[d] = next(visited, i)
        BY <2>1, <2>3, <3>2
      <4>2. records[i] = tasks[i]
        BY <2>3 DEF Awaited, Open, Brought, Finished
      <4>3. records[i].pid \in Pids => Knows(i, records[i].pid)
        BY <4>2, Shapes DEF Knows, RunnerInv
      <4>4. \A j \in Ids : next(visited, i).rest[j].pid \in Pids =>
                              next(visited, i).rest[j] = rest[j]
        BY BlankTask, Shapes DEF RunnerInv
      <4>5. op = "cleanup" => \A j \in Ids : next(visited, i).rest[j].pid \in Pids =>
                                                Knows(j, next(visited, i).rest[j].pid)
        BY <4>4
      <4>. QED  BY <4>1, <4>3, <4>5 DEF CalmCall
    <3>. QED  BY <3>1, <3>2
  <2>. QED  BY <1>1, <2>2, <2>3
<1>. QED  BY <1>5, <1>6, <1>13, <1>14, CalmKeeps DEF Calm

LEMMA BeginsKeepRunner ==
    ASSUME OneRunner, RunnerInv, Inv', NEW c \in Calls, NEW r \in Runners,
           \/ \E i \in Ids : BeginCancel(c, r, i)
           \/ BeginCleanup(c, r) \/ BeginShutdown(c, r)
    PROVE  RunnerInv'
<1>1. tasks \in [Ids -> Task] /\ \A j \in Ids : Brought(r, j, tasks[j])
  BY DEF RunnerInv, Inv, Shaped, Brought
<1>2. ASSUME NEW i \in Ids, BeginCancel(c, r, i)
      PROVE  RunnerInv'
  <2>1. [NoTasks EXCEPT ![i] = tasks[i]] \in [Ids -> Task]
    BY <1>1, NoTaskIsTask DEF NoTasks
  <2>. QED  BY <1>1, <1>2, <2>1, ProceedKeepsRunner DEF BeginCancel
<1>3. CASE BeginCleanup(c, r)
  <2>1. PICK rest : rest = [j \in Ids |-> IF Open(tasks[j]) THEN tasks[j] ELSE NoTask]
    OBVIOUS
  <2>2. rest \in [Ids -> Task]
    BY <1>1, <2>1, NoTaskIsTask
  <2>3. \A j \in Ids : /\ rest[j] # NoTask => tasks[j] # NoTask
                      /\ rest[j].pid \in Pids => Knows(j, rest[j].pid)
    BY <2>1, BlankTask, Shapes DEF Knows, RunnerInv
  <2>. QED  BY <1>1, <1>3, <2>1, <2>2, <2>3, ProceedKeepsRunner DEF BeginCleanup
<1>4. CASE BeginShutdown(c, r)
  <2>1. PICK rest : rest = [j \in Ids |-> IF Listed(r, j) # {} THEN tasks[j] ELSE NoTask]
    OBVIOUS
  <2>2. rest \in [Ids -> Task]
    BY <1>1, <2>1, NoTaskIsTask
  <2>. QED  BY <1>1, <1>4, <2>1, <2>2, ProceedKeepsRunner DEF BeginShutdown
<1>. QED  BY <1>2, <1>3, <1>4

LEMMA FinishKillKeepsRunner ==
    ASSUME OneRunner, RunnerInv, Inv', NEW c \in Calls, FinishKill(c)
    PROVE  RunnerInv'
<1>0. PICK k, ended : k = call[c] /\ ended = Ends(k.task, "cancelled")
  OBVIOUS
<1>1. /\ k \in CallRecord /\ k.at = "kill" /\ k.op # "none" /\ Kept(k.id, k.task.key)
      /\ k.op = "cleanup" => \A j \in Ids : k.rest[j] # NoTask => Kept(j, k.rest[j].key)
      /\ k.runner \in Runners /\ Live(k.runner, k.id) = {}
  BY <1>0 DEF RunnerInv, Inv, Shaped, FinishKill, CallKept, Spawning
<1>2. /\ k.op \in {"cancel", "cleanup", "shutdown"} /\ k.rest \in [Ids -> Task]
      /\ k.id \in Ids /\ k.task \in Task
  BY <1>1 DEF CallRecord, Kept
<1>3. ended \in Task /\ ended.status \in Finished /\ ~ended.aged /\ ended.pid = k.task.pid
  BY <1>0, <1>2, EndsIsTask DEF Finished, Ends, Task
<1>4. PICK records : records = [tasks EXCEPT ![k.id] = ended]
  OBVIOUS
<1>5. /\ records \in [Ids -> Task] /\ records[k.id] = ended
      /\ \A j \in Ids : j # k.id => records[j] = tasks[j]
  BY <1>2, <1>3, <1>4 DEF RunnerInv, Inv, Shaped
<1>6. ended.pid \in Pids => Knows(k.id, ended.pid)
  BY <1>0, <1>3, Shapes DEF Knows, RunnerInv
<1>7. Brought(k.runner, k.id, ended)
  <2>1. tasks[k.id] # NoTask
    BY <1>1, BlankTask DEF Kept
  <2>2. ended.pid \in Pids => ~proc[ended.pid].alive \/ proc[ended.pid].watch = "left"
    BY <1>1, <1>2, <1>6, NotLiveIsOver
  <2>. QED  BY <1>1, <1>3, <1>6, <2>1, <2>2 DEF Brought
<1>8. \A j \in Ids : Brought(k.runner, j, records[j])
  BY <1>5, <1>7 DEF Brought
<1>9. k.op = "cleanup" =>
         \A j \in Ids : /\ k.rest[j] # NoTask => tasks[j] # NoTask
                        /\ k.rest[j].pid \in Pids => Knows(j, k.rest[j].pid)
  BY <1>0, <1>1, BlankTask, Shapes DEF Knows, Kept, RunnerInv
<1>10. Proceed(c, k.op, k.runner, records, k.rest)
  BY <1>0, <1>4 DEF FinishKill
<1>. QED  BY <1>1, <1>2, <1>5, <1>8, <1>9, <1>10, ProceedKeepsRunner

(* A number that is given again is known to no call, and the dispatch lock *)
(* lets one call spawn at a time.                                          *)
LEMMA BeginRunKeepsRunner ==
    ASSUME OneRunner, RunnerInv, Inv', NEW c \in Calls, NEW r \in Runners,
           NEW k \in Keys \cup {NoKey}, BeginRun(c, r, k)
    PROVE  RunnerInv'
<1>0. PICK i, task, new :
         /\ i = NextId /\ task = [NoTask EXCEPT !.status = "preparing", !.key = k]
         /\ new = [Idle EXCEPT !.at = "spawn", !.runner = r, !.id = i, !.task = task]
  OBVIOUS
<1>1. /\ i \in Ids /\ ~DispatchLocked(r)
      /\ tasks' = IF k = NoKey THEN tasks ELSE [tasks EXCEPT ![i] = task]
      /\ call' = [call EXCEPT ![c] = new] /\ proc' = proc
  BY <1>0 DEF BeginRun, Saves
<1>2. /\ task.status = "preparing" /\ task.pid = 0 /\ task.key = k /\ ~task.aged
      /\ new.at = "spawn" /\ new.op = "none" /\ new.runner = r /\ new.id = i /\ new.task = task
  BY <1>0 DEF NoTask, Idle
<1>3. tasks[i] = NoTask
  BY <1>0, <1>1, NextIdIsFree DEF Recorded
<1>4. /\ tasks \in [Ids -> Task] /\ call \in [Calls -> CallRecord]
      /\ call'[c] = new /\ \A d \in Calls : d # c => call'[d] = call[d]
      /\ \A j \in Ids : j # i => tasks'[j] = tasks[j]
      /\ tasks'[i] = IF k = NoKey THEN NoTask ELSE task
  BY <1>1, <1>3 DEF RunnerInv, Inv, Shaped
<1>5. \A d \in Calls : call[d].at # "spawn"
  <2>1. ASSUME NEW d \in Calls, call[d].at = "spawn"
        PROVE  FALSE
    <3>1. call[d].runner \in Runners
      BY <2>1 DEF RunnerInv, Spawning
    <3>. QED  BY <1>1, <2>1, <3>1 DEF OneRunner, DispatchLocked
  <2>. QED  BY <2>1
<1>6. \A p \in Pids : ~Knows(i, p)
  <2>. SUFFICES ASSUME NEW p \in Pids, Knows(i, p)
                PROVE  FALSE
    OBVIOUS
  <2>1. \A d \in Calls : call[d].at = "idle" => call[d].id = 0
    BY DEF RunnerInv, Spawning, Idle
  <2>2. \A d \in Calls : call[d].at = "kill" => call[d].id # i
    BY <1>3, BlankTask DEF RunnerInv, Inv, CallKept, Kept
  <2>3. \A d \in Calls : call[d].id # i
    BY <1>1, <1>4, <1>5, <2>1, <2>2, Shapes DEF CallRecord, RunnerInv
  <2>4. \A d \in Calls : call[d].op = "cleanup" => call[d].rest[i] = NoTask
    BY <1>1, <1>3, BlankTask DEF RunnerInv, Inv, CallKept, Kept
  <2>. QED  BY <1>3, <2>3, <2>4, BlankTask DEF Knows
<1>7. \A j \in Ids, p \in Pids : Knows(j, p)' => Knows(j, p)
  <2>. SUFFICES ASSUME NEW j \in Ids, NEW p \in Pids, Knows(j, p)'
                PROVE  Knows(j, p)
    OBVIOUS
  <2>1. p # 0
    BY Shapes DEF RunnerInv
  <2>2. tasks'[j].pid = p => tasks[j].pid = p
    BY <1>2, <1>4, <2>1, BlankTask
  <2>3. \A d \in Calls : \/ call'[d].id = j /\ call'[d].task.pid = p
                         \/ call'[d].op = "cleanup" /\ call'[d].rest[j].pid = p
                         => d # c
    BY <1>2, <1>4, <2>1
  <2>. QED  BY <1>4, <2>1, <2>2, <2>3 DEF Knows
<1>8. \A p \in Pids : Process(p)' /\ (proc'[p] # NoProc <=> proc[p] # NoProc)
  BY <1>1 DEF RunnerInv, Process, Watched
<1>9. Numbered' /\ Known' /\ proc' \in [Pids -> ProcRecord]
  BY <1>1, <1>7 DEF RunnerInv, Numbered, Known
<1>10. OneSpawn'
  BY <1>4, <1>5 DEF OneSpawn
<1>11. ASSUME NEW d \in Calls
       PROVE  Spawning(d)'
  <2>1. CASE d = c
    <3>1. \A p \in Pids : ~Knows(i, p)'
      BY <1>1, <1>6, <1>7
    <3>. QED  BY <1>2, <1>4, <2>1, <3>1 DEF Spawning
  <2>2. CASE d # c
    BY <1>4, <1>5, <2>2 DEF RunnerInv, Spawning
  <2>. QED  BY <2>1, <2>2
<1>12. ASSUME NEW q \in Pids
       PROVE  Watching(q)'
  <2>. SUFFICES ASSUME Watched(q)'
                PROVE  Watching(q)'
    BY DEF Watching
  <2>0. PICK j : j = proc[q].task
    OBVIOUS
  <2>1. Watched(q) /\ Watching(q) /\ Process(q) /\ proc' = proc
    BY <1>1 DEF RunnerInv, Watched
  <2>2. j \in Ids /\ j # i
    BY <1>3, <2>0, <2>1, BlankTask DEF Process, Watching, Watched, NoProc
  <2>3. \A d \in Calls : call'[d].at = "spawn" => call'[d].id # j
    BY <1>2, <1>4, <1>5, <2>2
  <2>. QED  BY <1>4, <1>7, <2>0, <2>1, <2>2, <2>3 DEF Watching
<1>13. PidsFit'
  BY <1>2, <1>4, BlankTask DEF RunnerInv, PidsFit
<1>14. FinishedIsStopped' /\ RunningIsWatched'
  <2>1. tasks'[i].status \notin Finished /\ tasks'[i].status # "running"
    BY <1>2, <1>4, BlankTask DEF Finished
  <2>2. FinishedIsStopped'
    BY <1>1, <1>4, <2>1 DEF RunnerInv, FinishedIsStopped, Alive, Left
  <2>3. RunningIsWatched'
    BY <1>1, <1>4, <2>1 DEF RunnerInv, RunningIsWatched, Left
  <2>. QED  BY <2>2, <2>3
<1>. QED  BY <1>8, <1>9, <1>10, <1>11, <1>12, <1>13, <1>14 DEF RunnerInv

(* The next process has not been started, so nothing knows it.             *)
LEMMA NextPidIsNew ==
    ASSUME RunnerInv, NextPid \in Pids
    PROVE  /\ proc[NextPid] = NoProc
           /\ \A j \in Ids : ~Knows(j, NextPid)
           /\ \A p \in Pids : p <= NextPid <=> proc[p] # NoProc \/ p = NextPid
<1>1. PICK n \in 0..MaxSpawns : \A p \in Pids : proc[p] # NoProc <=> p <= n
  BY DEF RunnerInv, Numbered
<1>2. {p \in Pids : proc[p] # NoProc} = 1..n
  BY <1>1, BoundsAssumption DEF Pids
<1>3. Cardinality(1..n) = n
  BY <1>1, FS_Interval, BoundsAssumption
<1>4. NextPid = n + 1
  <2>1. NextPid = 1 + Cardinality(1..n)
    BY <1>2 DEF NextPid
  <2>. QED  BY <1>1, <1>3, <2>1, BoundsAssumption
<1>5. proc[NextPid] = NoProc
  BY <1>1, <1>4, BoundsAssumption DEF Pids
<1>6. \A j \in Ids : ~Knows(j, NextPid)
  BY <1>5, Shapes DEF RunnerInv, Known, NoProc
<1>7. \A p \in Pids : p <= NextPid <=> proc[p] # NoProc \/ p = NextPid
  BY <1>1, <1>4, BoundsAssumption DEF Pids
<1>. QED  BY <1>5, <1>6, <1>7

LEMMA SpawnedKeepsRunner ==
    ASSUME OneRunner, RunnerInv, Inv', NEW c \in Calls, Spawned(c)
    PROVE  RunnerInv'
<1>0. PICK i, r, n, task, started :
         /\ i = call[c].id /\ r = call[c].runner /\ n = NextPid
         /\ task = [call[c].task EXCEPT !.status = "running", !.pid = n]
         /\ started = [[NoProc EXCEPT !.alive = TRUE, !.runner = r, !.task = i]
                         EXCEPT !.watch = "waiting"]
  OBVIOUS
<1>1. /\ call[c].at = "spawn" /\ n \in Pids /\ call' = [call EXCEPT ![c] = Idle]
      /\ CallKept(c) /\ Spawning(c)
      /\ tasks \in [Ids -> Task] /\ call \in [Calls -> CallRecord]
      /\ proc \in [Pids -> ProcRecord]
  BY <1>0 DEF Spawned, RunnerInv, Inv, Shaped
<1>2. i \in Ids /\ r \in Runners /\ ~call[c].task.aged /\ \A p \in Pids : ~Knows(i, p)
  BY <1>0, <1>1 DEF CallKept, Spawning
<1>3. ~SaveRefused(i, task)
  <2>1. task.key = call[c].task.key
    BY <1>0, <1>1, Shapes DEF RunnerInv, Task
  <2>2. CASE task.key = NoKey
    BY <1>0, <1>1, <2>1, <2>2 DEF Spawning, SaveRefused, NoTask
  <2>3. CASE task.key # NoKey
    BY <1>0, <1>1, <2>1, <2>3 DEF CallKept, Kept, SaveRefused
  <2>. QED  BY <2>2, <2>3
<1>4. tasks' = [tasks EXCEPT ![i] = task] /\ proc' = [proc EXCEPT ![n] = started]
  BY <1>0, <1>3 DEF Spawned
<1>5. task.status = "running" /\ task.pid = n /\ ~task.aged
  BY <1>0, <1>1, <1>2, Shapes DEF RunnerInv, Task
<1>6. /\ tasks'[i] = task /\ \A j \in Ids : j # i => tasks'[j] = tasks[j]
      /\ call'[c] = Idle /\ \A d \in Calls : d # c => call'[d] = call[d]
      /\ proc'[n] = started /\ \A p \in Pids : p # n => proc'[p] = proc[p]
  BY <1>1, <1>2, <1>4
<1>7. /\ proc[n] = NoProc /\ \A j \in Ids : ~Knows(j, n)
      /\ \A p \in Pids : p <= n <=> proc[p] # NoProc \/ p = n
  BY <1>0, <1>1, NextPidIsNew
<1>8. /\ started.alive /\ started.runner = r /\ started.task = i /\ started.watch = "waiting"
      /\ started # NoProc /\ started \in ProcRecord
  BY <1>0, <1>2 DEF NoProc, ProcRecord
<1>9. proc' \in [Pids -> ProcRecord]
  BY <1>1, <1>4, <1>8
<1>10. Numbered'
  <2>1. \A p \in Pids : proc'[p] # NoProc <=> p <= n
    BY <1>6, <1>7, <1>8
  <2>2. n \in 0..MaxSpawns
    BY <1>1, BoundsAssumption DEF Pids
  <2>. QED  BY <2>1, <2>2 DEF Numbered
<1>11. \A p \in Pids : Process(p)'
  <2>1. Process(n)'
    BY <1>2, <1>6, <1>8, NoRunnerAssumption DEF Process, Watched
  <2>2. \A p \in Pids : p # n => Process(p)'
    BY <1>6 DEF RunnerInv, Process, Watched
  <2>. QED  BY <2>1, <2>2
<1>12. \A j \in Ids, p \in Pids : Knows(j, p)' => Knows(j, p) \/ (j = i /\ p = n)
  <2>. SUFFICES ASSUME NEW j \in Ids, NEW p \in Pids, Knows(j, p)'
                PROVE  Knows(j, p) \/ (j = i /\ p = n)
    OBVIOUS
  <2>1. p # 0
    BY Shapes DEF RunnerInv
  <2>2. tasks'[j].pid = p => tasks[j].pid = p \/ (j = i /\ p = n)
    BY <1>5, <1>6
  <2>3. call'[c].task.pid = 0 /\ call'[c].op = "none"
    BY <1>6, BlankTask DEF Idle
  <2>. QED  BY <1>6, <2>1, <2>2, <2>3 DEF Knows
<1>13. Known'
  BY <1>6, <1>7, <1>8, <1>12 DEF RunnerInv, Known
<1>14. \A d \in Calls : call'[d].at # "spawn"
  BY <1>1, <1>6, IdleIsCall DEF RunnerInv, OneSpawn
<1>15. OneSpawn' /\ \A d \in Calls : Spawning(d)'
  BY <1>6, <1>14, IdleIsCall DEF RunnerInv, OneSpawn, Spawning
<1>16. ASSUME NEW q \in Pids
       PROVE  Watching(q)'
  <2>1. CASE q = n
    <3>1. \A p \in Pids : Knows(i, p)' => p = n
      BY <1>2, <1>12
    <3>2. proc'[q].task = i
      BY <1>6, <1>8, <2>1
    <3>. QED  BY <1>5, <1>6, <1>14, <2>1, <3>1, <3>2 DEF Watching
  <2>2. CASE q # n
    <3>. SUFFICES ASSUME Watched(q)'
                  PROVE  Watching(q)'
      BY DEF Watching
    <3>0. PICK j : j = proc[q].task
      OBVIOUS
    <3>1. Watched(q) /\ Watching(q) /\ Process(q) /\ proc'[q] = proc[q]
      BY <1>6, <2>2 DEF RunnerInv, Watched
    <3>2. j \in Ids /\ j # i
      BY <1>0, <1>1, <3>0, <3>1 DEF Process, Watching, Watched, NoProc
    <3>3. \A p \in Pids : Knows(j, p)' => p = q
      BY <1>12, <3>0, <3>1, <3>2 DEF Watching
    <3>. QED  BY <1>6, <1>14, <3>0, <3>1, <3>2, <3>3 DEF Watching
  <2>. QED  BY <2>1, <2>2
<1>17. PidsFit'
  BY <1>1, <1>5, <1>6 DEF RunnerInv, PidsFit
<1>18. \A j \in Ids : j # i => tasks[j].pid # n
  BY <1>1, <1>7, Shapes DEF Knows, RunnerInv
<1>19. FinishedIsStopped'
  <2>1. task.status \notin Finished
    BY <1>5 DEF Finished
  <2>. QED  BY <1>6, <1>18, <2>1 DEF RunnerInv, FinishedIsStopped, Alive, Left
<1>20. RunningIsWatched'
  <2>. SUFFICES ASSUME NEW j \in Ids, NEW p, p = tasks'[j].pid,
                       tasks'[j].status = "running", ~Left(p)'
                PROVE  /\ proc'[p].runner # NoRunner /\ proc'[p].task = j
                       /\ proc'[p].watch \in {"waiting", "terminating"}
    BY DEF RunningIsWatched, Left
  <2>1. CASE j = i
    <3>1. p = n /\ proc'[p] = started
      BY <1>5, <1>6, <2>1
    <3>. QED  BY <1>2, <1>8, <2>1, <3>1, NoRunnerAssumption
  <2>2. CASE j # i
    <3>1. p = tasks[j].pid /\ tasks[j].status = "running" /\ p \in Pids /\ p # n
      BY <1>6, <1>18, <2>2 DEF RunnerInv, PidsFit
    <3>2. proc'[p] = proc[p] /\ ~Left(p)
      BY <1>6, <3>1 DEF Left
    <3>. QED  BY <3>1, <3>2 DEF RunnerInv, RunningIsWatched
  <2>. QED  BY <2>1, <2>2
<1>. QED  BY <1>9, <1>10, <1>11, <1>13, <1>15, <1>16, <1>17, <1>19, <1>20 DEF RunnerInv

-----------------------------------------------------------------------------
(* No tasks, no processes and no calls. *)
LEMMA InitEstablishesRunner == Init => RunnerInv
<1>. SUFFICES ASSUME Init
              PROVE  RunnerInv
  OBVIOUS
<1>1. /\ \A i \in Ids : tasks[i] = NoTask
      /\ \A p \in Pids : proc[p] = NoProc
      /\ \A c \in Calls : call[c] = Idle
  BY DEF Init, NoTasks
<1>2. 0 \notin Pids /\ 0 \notin Ids
  BY BoundsAssumption DEF Pids, Ids
<1>3. Inv /\ proc \in [Pids -> ProcRecord]
  BY InitEstablishes DEF Init, NoProc, ProcRecord
<1>4. Numbered
  BY <1>1, BoundsAssumption DEF Numbered, Pids
<1>5. \A p \in Pids : Process(p) /\ Watching(p)
  <2>1. NoProc.watch = "none" /\ NoProc.runner = NoRunner /\ ~NoProc.alive
    BY DEF NoProc
  <2>. QED  BY <1>1, <2>1 DEF Process, Watching, Watched
<1>6. Known
  <2>1. \A c \in Calls : call[c].task.pid = 0 /\ call[c].op = "none"
    BY <1>1, BlankTask DEF Idle
  <2>. QED  BY <1>1, <2>1, BlankTask DEF Known, Knows
<1>7. OneSpawn /\ \A c \in Calls : Spawning(c)
  BY <1>1, IdleIsCall DEF OneSpawn, Spawning
<1>8. PidsFit /\ FinishedIsStopped /\ RunningIsWatched
  BY <1>1, BlankTask DEF PidsFit, FinishedIsStopped, RunningIsWatched, Finished
<1>. QED  BY <1>3, <1>4, <1>5, <1>6, <1>7, <1>8 DEF RunnerInv

LEMMA StepKeepsRunner == OneRunner /\ RunnerInv /\ [Next]_vars => RunnerInv'
<1>. SUFFICES ASSUME OneRunner, RunnerInv, [Next]_vars
              PROVE  RunnerInv'
  OBVIOUS
<1>0. Inv'
  BY StepKeeps DEF RunnerInv
<1>1. ASSUME NEW c \in Calls, NEW r \in Runners, NEW k \in Keys \cup {NoKey}, BeginRun(c, r, k)
      PROVE  RunnerInv'
  BY <1>0, <1>1, BeginRunKeepsRunner
<1>2. ASSUME NEW c \in Calls, NEW r \in Runners,
             \/ \E i \in Ids : BeginCancel(c, r, i)
             \/ BeginCleanup(c, r) \/ BeginShutdown(c, r)
      PROVE  RunnerInv'
  BY <1>0, <1>2, BeginsKeepRunner
<1>3. ASSUME NEW c \in Calls, CallStep(c)
      PROVE  RunnerInv'
  BY <1>0, <1>3, SpawnedKeepsRunner, SpawnFailsKeepsRunner, FinishKillKeepsRunner DEF CallStep
<1>4. ASSUME NEW p \in Pids, TimesOut(p) \/ WatchEnds(p) \/ ProcessExits(p)
      PROVE  RunnerInv'
  BY <1>0, <1>4, TimesOutKeeps, WatchEndsKeepsRunner, ProcessExitsKeeps
<1>5. ASSUME NEW i \in Ids, Age(i)
      PROVE  RunnerInv'
  BY <1>0, <1>5, AgeKeepsRunner
<1>6. CASE Collect \/ Restart
  BY <1>0, <1>6, CollectKeepsRunner, RestartKeepsRunner
<1>7. CASE UNCHANGED vars
  <2>1. tasks' = tasks /\ proc' = proc /\ call' = call
    BY <1>7 DEF vars
  <2>2. Calm
    BY <2>1, ProcessStays DEF Calm, Same, CalmCall
  <2>. QED  BY <1>0, <2>1, <2>2, CalmKeeps DEF RunnerInv
<1>. QED  BY <1>1, <1>2, <1>3, <1>4, <1>5, <1>6, <1>7 DEF Next

LEMMA RunnerInvariance == OneRunner => (Spec => []RunnerInv)
<1>. SUFFICES ASSUME OneRunner
              PROVE  Spec => []RunnerInv
  OBVIOUS
<1>. QED  BY InitEstablishesRunner, StepKeepsRunner, PTL DEF Spec

(* The records, the processes and the calls have their shapes, and only a  *)
(* finished task ages, in a runtime with one runner.                       *)
THEOREM TasksTyped == OneRunner => (Spec => []TypeOK)
<1>1. RunnerInv => TypeOK
  BY DEF RunnerInv, Inv, Shaped, CallRecord, ProcRecord, TypeOK
<1>. QED  BY <1>1, RunnerInvariance, PTL

(* With one runner, a task on record as finished has no process that still *)
(* runs, unless it was left behind: whatever calls race with each other    *)
(* and with the watcher, and however old the object is that a call saves.  *)
THEOREM FinishedAreStopped == OneRunner => (Spec => []FinishedIsStopped)
<1>1. RunnerInv => FinishedIsStopped
  BY DEF RunnerInv
<1>. QED  BY <1>1, RunnerInvariance, PTL

(* With one runner, a task on record as running is held and watched by the *)
(* runner that has started its process, as long as there is that runner.   *)
THEOREM RunningAreWatched == OneRunner => (Spec => []RunningIsWatched)
<1>1. RunnerInv => RunningIsWatched
  BY DEF RunnerInv
<1>. QED  BY <1>1, RunnerInvariance, PTL

=============================================================================
