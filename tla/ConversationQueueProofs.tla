----------------------- MODULE ConversationQueueProofs -----------------------
(***************************************************************************)
(* Theorems about ConversationQueue, for any bridges, messages, retries    *)
(* and bounds: a request runs once, an unsent one never, and outcomes      *)
(* stay.  What these proofs need of the order of the queue and of the      *)
(* copies in memory is nothing: the claim alone carries them.  Then: one   *)
(* version of a message is queued (Versions), and the queue lists exactly  *)
(* the queued rows (Types).                                                *)
(***************************************************************************)
EXTENDS ConversationQueue, FiniteSetTheorems, SequenceTheorems, WellFoundedInduction, TLAPS

Running == {"engine", "commit", "abort"}
Past == {"relist", "pop", "start"}
Special == Running \cup Past \cup {"enqueue"}
Unsent == {"cancelled", "closed"}

(* The variables the proofs speak of are functions.                        *)
Functions ==
    /\ outcome = [r \in Requests |-> outcome[r]]
    /\ lease = [r \in Requests |-> lease[r]]
    /\ runs \in [Requests -> Nat]
    /\ at = [t \in Tasks |-> at[t]]
    /\ req = [t \in Tasks |-> req[t]]

(* A request without a claim has not run, unless it went directly; one     *)
(* that no task has submitted has not run at all.                          *)
RunsAreClaimed ==
    \A r \in Requests :
        /\ runs[r] <= 1
        /\ runs[r] # 0 => outcome[r] = "direct" \/ lease[r].state # "none"
        /\ outcome[r] = "none" => runs[r] = 0

(* A task past the claim has it alone, and its request has not run; past   *)
(* the second look at the row it was queued.                               *)
PastIsClaimed ==
    \A t \in Tasks : at[t] \in Past /\ req[t] \in Requests =>
        /\ lease[req[t]].state # "none"
        /\ runs[req[t]] = 0 \/ outcome[req[t]] = "direct"
        /\ at[t] # "relist" => outcome[req[t]] \notin {"none", "direct"} \cup Unsent
        /\ \A u \in Tasks : at[u] \in Past /\ req[u] = req[t] => u = t

RunningHasRun ==
    \A t \in Tasks : at[t] \in Running /\ req[t] \in Requests => runs[req[t]] # 0

UnsentHasNotRun == \A r \in Requests : outcome[r] \in Unsent => runs[r] = 0

(* A message is submitted by one task, and is new until it is queued.      *)
SubmittedIsNew ==
    \A t \in Tasks : at[t] = "enqueue" =>
        /\ req[t] \in Requests /\ req[t][2] = 0 /\ outcome[req[t]] = "none"
        /\ \A u \in Tasks : at[u] = "enqueue" /\ req[u] = req[t] => u = t

Inv ==
    /\ Functions /\ RunsAreClaimed /\ PastIsClaimed /\ RunningHasRun
    /\ UnsentHasNotRun /\ SubmittedIsNew

-----------------------------------------------------------------------------
(* Most actions neither claim nor start anything: claims stay claims, a    *)
(* queued row may get an outcome, a retry may be queued, and no task comes *)
(* to a place the invariant speaks of.                                     *)
ReplacesResolved(r) ==
    \E q \in Requests : r = Retry(q) /\ outcome[q] = "queued" /\ outcome'[q] = "resolved"

CalmRow(r) ==
    \/ outcome'[r] = outcome[r]
    \/ /\ outcome[r] = "queued"
       /\ outcome'[r] \in {"ended", "resolved"} \cup Unsent
       /\ outcome'[r] \in Unsent => lease[r].state = "none"
    \/ outcome[r] = "none" /\ outcome'[r] = "queued" /\ ReplacesResolved(r)

CalmTask(t) ==
    \/ at'[t] \notin Special
    \/ /\ req'[t] = req[t]
       /\ \/ at'[t] = at[t]
          \/ at[t] = "pop" /\ at'[t] = "start"
          \/ at[t] \in Running /\ at'[t] \in Running

Calm ==
    /\ Functions'
    /\ runs' = runs
    /\ \A r \in Requests : lease[r].state # "none" => lease'[r].state # "none"
    /\ \A r \in Requests : CalmRow(r)
    /\ \A t \in Tasks : CalmTask(t)

LEMMA RetriesAreLater == \A r \in Requests : Retry(r)[1] = r[1] /\ Retry(r)[2] = r[2] + 1 /\ Retry(r)[2] # 0
BY QueueAssumption DEF Retry, Requests

LEMMA CalmKeepsInv == Inv /\ Calm => Inv'
<1> SUFFICES ASSUME Inv, Calm PROVE Inv'
    OBVIOUS
<1>1. Functions'
    BY DEF Calm
<1>2. RunsAreClaimed'
    BY DEF Inv, RunsAreClaimed, Calm, CalmRow, Functions, Unsent
<1>3. PastIsClaimed'
    BY DEF Inv, PastIsClaimed, Calm, CalmRow, CalmTask, Unsent, Special, Past, Running
<1>4. RunningHasRun'
    BY DEF Inv, RunningHasRun, Calm, CalmTask, Special, Past, Running
<1>5. UnsentHasNotRun'
    <2> SUFFICES ASSUME NEW r \in Requests, outcome'[r] \in Unsent PROVE runs'[r] = 0
        BY DEF UnsentHasNotRun
    <2>1. CASE outcome'[r] = outcome[r]
        BY <2>1 DEF Inv, UnsentHasNotRun, Calm
    <2>2. CASE outcome[r] = "queued" /\ lease[r].state = "none"
        BY <2>2 DEF Inv, RunsAreClaimed, Calm
    <2> QED BY <2>1, <2>2 DEF Calm, CalmRow, Unsent
<1>6. SubmittedIsNew'
    <2>1. \A r \in Requests : r[2] = 0 /\ outcome[r] = "none" => outcome'[r] = "none"
        BY RetriesAreLater DEF Calm, CalmRow, ReplacesResolved
    <2> QED BY <2>1 DEF Inv, SubmittedIsNew, Calm, CalmTask, Special, Past, Running
<1> QED BY <1>1, <1>2, <1>3, <1>4, <1>5, <1>6 DEF Inv

(* The transaction of finish(), by itself. *)
LEMMA FinishedIsCalm ==
    ASSUME Inv, NEW b \in Bridges, UNCHANGED rows \/ Finished(b)
    PROVE  /\ outcome' = [r \in Requests |-> outcome'[r]]
           /\ lease' = [r \in Requests |-> lease'[r]]
           /\ \A r \in Requests : lease[r].state # "none" => lease'[r].state # "none"
           /\ \A r \in Requests : CalmRow(r)
BY DEF Inv, Functions, CalmRow, rows, Finished, Leaves, StillQueued, Released, Unsent

(* run_task.cancel() *)
LEMMA InterruptsIsCalm ==
    ASSUME Inv, NEW b \in Bridges, NEW next, next \notin Special,
           Interrupts(b, next), runs' = runs
    PROVE  Calm
<1> USE DEF Inv, Functions
<1>1. at' = [t \in Tasks |-> at'[t]] /\ req' = [t \in Tasks |-> req'[t]]
    BY DEF Interrupts
<1>2. \A t \in Tasks : CalmTask(t)
    BY DEF Interrupts, CalmTask, Special, Running, Past, Tasks, Cmd, Run
<1>3. \/ UNCHANGED rows \/ Finished(b)
      \/ lease' = Claimed(b, req[Run(b)]) /\ UNCHANGED outcome
    BY DEF Interrupts, rows
<1>4. CASE UNCHANGED rows \/ Finished(b)
    BY <1>1, <1>2, <1>4, FinishedIsCalm DEF Calm
<1>5. CASE lease' = Claimed(b, req[Run(b)]) /\ UNCHANGED outcome
    BY <1>1, <1>2, <1>5 DEF Calm, CalmRow, Claimed
<1> QED BY <1>3, <1>4, <1>5

(* The run task: it returns, loses its claim, commits, or is interrupted.  *)
LEMMA RunIsCalm ==
    ASSUME Inv, NEW b \in Bridges,
           \/ RunReturns(b) \/ LosesClaim(b) \/ Commit(b)
           \/ StopRun(b) \/ CloseRun(b)
    PROVE  Calm
<1> USE DEF Calm, CalmRow, CalmTask, Inv, Functions, Special, Past, Running, Unsent, rows, Tasks, Cmd, Run, Goes, Ends
<1>1. CASE RunReturns(b)
    BY <1>1 DEF RunReturns, Direct
<1>2. CASE LosesClaim(b)
    BY <1>2 DEF LosesClaim, Direct
<1>3. CASE Commit(b)
    <2>1. UNCHANGED rows \/ Finished(b)
        BY <1>3 DEF Commit
    <2>2. /\ at' = [t \in Tasks |-> at'[t]] /\ req' = [t \in Tasks |-> req'[t]]
          /\ \A t \in Tasks : CalmTask(t)
        BY <1>3 DEF Commit
    <2> QED BY <1>3, <2>1, <2>2, FinishedIsCalm DEF Commit
<1>4. CASE StopRun(b)
    <2>1. CASE Interrupts(b, "stopping")
        BY <1>4, <2>1, InterruptsIsCalm DEF StopRun
    <2>2. CASE Goes(Cmd(b), "stopping") /\ UNCHANGED <<rows, req>>
        BY <1>4, <2>2 DEF StopRun
    <2> QED BY <1>4, <2>1, <2>2 DEF StopRun
<1>5. CASE CloseRun(b)
    <2>1. CASE Interrupts(b, "closed")
        BY <1>5, <2>1, InterruptsIsCalm DEF CloseRun
    <2>2. CASE Goes(Cmd(b), "closed") /\ UNCHANGED <<rows, req>>
        BY <1>5, <2>2 DEF CloseRun
    <2> QED BY <1>5, <2>1, <2>2 DEF CloseRun
<1> QED BY <1>1, <1>2, <1>3, <1>4, <1>5

(* The commands that neither submit nor start a message.                   *)
LEMMA CommandsAreCalm ==
    ASSUME Inv, NEW b \in Bridges,
           \/ AppendWaiting(b) \/ PromoteRow(b) \/ PromoteWaiting(b)
           \/ \E r \in Requests : Promote(b, r) \/ Cancel(b, r)
           \/ DropRow(b) \/ DropWaiting(b) \/ Resolve(b) \/ Open(b)
           \/ Recover(b) \/ Merge(b) \/ CancelRun(b) \/ AfterCancel(b)
           \/ Shutdown(b) \/ CloseNext(b) \/ Exit(b) \/ Crash(b)
    PROVE  Calm
<1> USE DEF Calm, CalmRow, CalmTask, Inv, Functions, Special, Past, Running, Unsent, rows, Tasks, Cmd, Run, Goes, Ends
<1>1. CASE AppendWaiting(b)
    BY <1>1 DEF AppendWaiting
<1>2. CASE (\E r \in Requests : Promote(b, r))
    BY <1>2 DEF Promote
<1>3. CASE PromoteRow(b)
    BY <1>3 DEF PromoteRow
<1>4. CASE PromoteWaiting(b)
    BY <1>4 DEF PromoteWaiting
<1>5. CASE (\E r \in Requests : Cancel(b, r))
    BY <1>5 DEF Cancel
<1>6. CASE DropRow(b)
    BY <1>6 DEF DropRow, Leaves, StillQueued, Unclaimed
<1>7. CASE DropWaiting(b)
    BY <1>7 DEF DropWaiting
<1>8. CASE Resolve(b)
    <2>1. at' = [t \in Tasks |-> at'[t]] /\ \A t \in Tasks : CalmTask(t)
        BY <1>8 DEF Resolve
    <2>2. CASE UNCHANGED rows
        BY <1>8, <2>1, <2>2 DEF Resolve
    <2>3. CASE \E r \in Requests :
                  /\ StillQueued(r) /\ lease' = Released(r)
                  /\ \/ outcome' = [outcome EXCEPT ![r] = "resolved"]
                     \/ outcome[Retry(r)] = "none" /\ outcome' = Retried(r)
        <3> PICK r \in Requests :
                  /\ StillQueued(r) /\ lease' = Released(r)
                  /\ \/ outcome' = [outcome EXCEPT ![r] = "resolved"]
                     \/ outcome[Retry(r)] = "none" /\ outcome' = Retried(r)
            BY <2>3
        <3>1. Retry(r) # r
            BY RetriesAreLater, QueueAssumption DEF Requests
        <3>2. \A q \in Requests : CalmRow(q)
            BY <3>1 DEF StillQueued, Retried, ReplacesResolved
        <3> QED BY <1>8, <2>1, <3>2 DEF Resolve, Released, Retried
    <2> QED BY <1>8, <2>2, <2>3 DEF Resolve
<1>9. CASE Open(b)
    BY <1>9 DEF Open
<1>10. CASE Recover(b)
    BY <1>10 DEF Recover
<1>11. CASE Merge(b)
    BY <1>11 DEF Merge
<1>12. CASE AfterCancel(b)
    BY <1>12 DEF AfterCancel
<1>13. CASE Shutdown(b)
    BY <1>13 DEF Shutdown
<1>14. CASE CloseNext(b)
    BY <1>14 DEF CloseNext, Leaves, StillQueued, Unclaimed
<1>15. CASE Exit(b)
    BY <1>15 DEF Exit
<1>16. CASE Crash(b)
    BY <1>16 DEF Crash
<1>17. CASE CancelRun(b)
    BY <1>17 DEF CancelRun
<1> QED
    BY <1>1, <1>2, <1>3, <1>4, <1>5, <1>6, <1>7, <1>8, <1>9, <1>10, <1>11, <1>12, <1>13, <1>14,
       <1>15, <1>16, <1>17

(* Of _start_next_queued_chat all but the claim, the second look and the   *)
(* start. *)
LEMMA StartingIsCalm ==
    ASSUME Inv, NEW t \in Tasks, Pick(t) \/ Pop(t)
    PROVE  Calm
<1> USE DEF Calm, CalmRow, CalmTask, Inv, Functions, Special, Past, Running, rows, Goes, Ends
<1>1. CASE Pick(t)
    BY <1>1 DEF Pick
<1>2. CASE Pop(t)
    BY <1>2 DEF Pop
<1> QED BY <1>1, <1>2

LEMMA ExpireIsCalm ==
    ASSUME Inv, NEW r \in Requests, Expire(r)
    PROVE  Calm
BY DEF Expire, Calm, CalmRow, CalmTask, Inv, Functions

-----------------------------------------------------------------------------
(* The other actions. *)

LEMMA AcquireKeepsInv ==
    ASSUME Inv, NEW t \in Tasks, Acquire(t)
    PROVE  Inv'
<1>1. CASE Ends(t) /\ UNCHANGED lease
    <2>1. Calm
        BY <1>1 DEF Acquire, Ends, Calm, CalmRow, CalmTask, Inv, Functions, Special, Past, Running
    <2> QED BY <2>1, CalmKeepsInv
<1>2. CASE /\ MayClaim(req[t]) /\ lease' = Claimed(t[1], req[t])
           /\ Goes(t, "relist") /\ UNCHANGED req
    <2> USE <1>2 DEF Acquire, Inv, Goes
    <2>1. Functions'
        BY DEF Functions, Claimed
    <2>2. \A r \in Requests : lease[r].state # "none" => lease'[r].state # "none"
        BY DEF Functions, Claimed
    <2>3. RunsAreClaimed'
        BY <2>2 DEF RunsAreClaimed
    <2>4. \A u \in Tasks : at'[u] = IF u = t THEN "relist" ELSE at[u]
        BY DEF Functions
    <2>5. PastIsClaimed'
        <3> SUFFICES ASSUME NEW u \in Tasks, at'[u] \in Past, req[u] \in Requests
                     PROVE  /\ lease'[req[u]].state # "none"
                            /\ runs[req[u]] = 0 \/ outcome[req[u]] = "direct"
                            /\ at'[u] # "relist" =>
                                  outcome[req[u]] \notin {"none", "direct"} \cup Unsent
                            /\ \A v \in Tasks : at'[v] \in Past /\ req[v] = req[u] => v = u
            BY DEF PastIsClaimed
        <3>1. CASE u = t
            <4>1. lease[req[t]].state = "none"
                BY DEF MayClaim
            <4>2. \A v \in Tasks : at[v] \in Past => req[v] # req[t]
                BY <3>1, <4>1 DEF PastIsClaimed
            <4>3. lease'[req[t]].state # "none"
                BY <3>1 DEF Functions, Claimed
            <4> QED BY <3>1, <2>4, <4>1, <4>2, <4>3 DEF RunsAreClaimed, Past
        <3>2. CASE u # t
            <4>1. at[u] \in Past
                BY <3>2, <2>4
            <4>2. lease[req[u]].state # "none" /\ req[u] # req[t]
                BY <4>1 DEF PastIsClaimed, MayClaim
            <4> QED BY <3>2, <2>2, <2>4, <4>1, <4>2 DEF PastIsClaimed
        <3> QED BY <3>1, <3>2
    <2>6. RunningHasRun'
        BY <2>4 DEF RunningHasRun, Running
    <2>7. UnsentHasNotRun'
        BY DEF UnsentHasNotRun
    <2>8. SubmittedIsNew'
        BY <2>4 DEF SubmittedIsNew
    <2> QED BY <2>1, <2>3, <2>5, <2>6, <2>7, <2>8
<1> QED BY <1>1, <1>2 DEF Acquire

LEMMA RelistKeepsInv ==
    ASSUME Inv, NEW t \in Tasks, Relist(t)
    PROVE  Inv'
<1>1. CASE Ends(t) /\ (UNCHANGED lease \/ lease' = Released(req[t]))
    <2>1. /\ at' = [u \in Tasks |-> at'[u]] /\ req' = [u \in Tasks |-> req'[u]]
          /\ \A u \in Tasks : CalmTask(u)
        BY <1>1 DEF Ends, CalmTask, Inv, Functions, Special, Past, Running
    <2>2. /\ lease' = [r \in Requests |-> lease'[r]]
          /\ \A r \in Requests : lease[r].state # "none" => lease'[r].state # "none"
        BY <1>1 DEF Released, Inv, Functions
    <2>3. UNCHANGED <<outcome, runs>>
        BY DEF Relist
    <2>4. Calm
        BY <2>1, <2>2, <2>3 DEF Calm, CalmRow, Inv, Functions
    <2> QED BY <2>4, CalmKeepsInv
<1>2. CASE StillQueued(req[t]) /\ Goes(t, "pop") /\ UNCHANGED <<lease, req>>
    <2> USE <1>2 DEF Relist, Inv, Goes
    <2>1. Functions'
        BY DEF Functions
    <2>2. \A u \in Tasks : at'[u] = IF u = t THEN "pop" ELSE at[u]
        BY DEF Functions
    <2>3. RunsAreClaimed' /\ UnsentHasNotRun'
        BY DEF RunsAreClaimed, UnsentHasNotRun
    <2>4. PastIsClaimed'
        <3>1. at[t] \in Past /\ outcome[req[t]] = "queued"
            BY DEF StillQueued, Past
        <3>2. \A u \in Tasks : at'[u] \in Past <=> at[u] \in Past
            BY <2>2, <3>1 DEF Past
        <3>3. \A u \in Tasks : u # t => at'[u] = at[u]
            BY <2>2
        <3>4. "queued" \notin {"none", "direct"} \cup Unsent
            BY DEF Unsent
        <3> QED BY <3>1, <3>2, <3>3, <3>4 DEF PastIsClaimed
    <2>5. RunningHasRun' /\ SubmittedIsNew'
        BY <2>2 DEF RunningHasRun, SubmittedIsNew, Running
    <2> QED BY <2>1, <2>3, <2>4, <2>5
<1> QED BY <1>1, <1>2 DEF Relist

(* _start_chat_submission: the one task past the claim starts it.          *)
LEMMA StartKeepsInv ==
    ASSUME Inv, NEW t \in Tasks, Start(t)
    PROVE  Inv'
<1> DEFINE run == Run(t[1])
<1>2. run \in Tasks
    BY DEF Tasks, Run
<1> DEFINE cmd == Cmd(t[1])
<1>1. cmd \in Tasks /\ cmd # run /\ (t = cmd \/ t = run)
    BY DEF Tasks, Cmd, Run
<1>3. /\ UNCHANGED <<outcome, lease>> /\ at[t] = "start"
      /\ req' = [req EXCEPT ![t] = None, ![run] = req[t]]
      /\ runs' = [runs EXCEPT ![req[t]] = @ + 1]
    BY DEF Start, rows
<1>3a. PICK command :
         /\ at' = [at EXCEPT ![run] = "engine", ![cmd] = command]
         /\ command = IF t = cmd THEN "idle" ELSE IF at[cmd] = "stop" THEN "stop late" ELSE at[cmd]
    BY DEF Start
<1> HIDE DEF run, cmd
<1>4. /\ \A u \in Tasks : \/ u = run /\ at'[u] = "engine"
                          \/ u # run /\ u = t /\ at'[u] = "idle"
                          \/ u # run /\ u # t /\ at'[u] \in {at[u], "stop late"}
      /\ \A u \in Tasks : u # t /\ u # run => req'[u] = req[u]
      /\ req'[run] = req[t]
    <2>1. /\ \A u \in Tasks : at'[u] = IF u = cmd THEN command
                                      ELSE IF u = run THEN "engine" ELSE at[u]
          /\ at' = [u \in Tasks |-> at'[u]]
        BY <1>1, <1>2, <1>3a DEF Inv, Functions
    <2>2. /\ \A u \in Tasks : u # t /\ u # run => req'[u] = req[u]
          /\ req'[run] = req[t]
        BY <1>1, <1>2, <1>3 DEF Inv, Functions
    <2> QED BY <1>1, <1>2, <1>3, <1>3a, <2>1, <2>2
<1>5. \A u \in Tasks : at'[u] \in Past \cup {"enqueue"} =>
         u # t /\ u # run /\ at'[u] = at[u] /\ req'[u] = req[u]
    BY <1>4 DEF Past
<1>6. /\ req[t] \in Requests =>
            /\ lease[req[t]].state # "none" /\ runs[req[t]] = 0
            /\ outcome[req[t]] \notin {"none", "direct"} \cup Unsent
      /\ \A u \in Tasks : at[u] \in Past /\ req[u] = req[t] /\ req[t] \in Requests => u = t
    BY <1>3 DEF Inv, PastIsClaimed, Past
<1>7. \A r \in Requests : runs'[r] = IF r = req[t] THEN 1 ELSE runs[r]
    BY <1>3, <1>6 DEF Inv, Functions
<1>8. Functions'
    <2>1. runs' = [r \in Requests |-> runs'[r]]
        BY <1>3 DEF Inv, Functions
    <2>2. \A r \in Requests : runs'[r] \in Nat
        BY <1>7 DEF Inv, Functions
    <2>3. runs' \in [Requests -> Nat]
        BY <2>1, <2>2
    <2> QED BY <1>2, <1>3, <1>3a, <2>3 DEF Inv, Functions
<1>9. RunsAreClaimed' /\ UnsentHasNotRun'
    BY <1>3, <1>6, <1>7 DEF Inv, RunsAreClaimed, UnsentHasNotRun
<1>10. PastIsClaimed'
    <2> SUFFICES ASSUME NEW u \in Tasks, at'[u] \in Past, req'[u] \in Requests
                 PROVE  /\ lease'[req'[u]].state # "none"
                        /\ runs'[req'[u]] = 0 \/ outcome'[req'[u]] = "direct"
                        /\ at'[u] # "relist" =>
                              outcome'[req'[u]] \notin {"none", "direct"} \cup Unsent
                        /\ \A v \in Tasks : at'[v] \in Past /\ req'[v] = req'[u] => v = u
        BY DEF PastIsClaimed
    <2>1. u # t /\ at[u] \in Past /\ req'[u] = req[u] /\ at'[u] = at[u]
        BY <1>5
    <2>2. req[u] # req[t]
        BY <1>6, <2>1
    <2>3. \A v \in Tasks : at'[v] \in Past => at[v] \in Past /\ req'[v] = req[v]
        BY <1>5
    <2>4. /\ lease[req[u]].state # "none"
          /\ runs[req[u]] = 0 \/ outcome[req[u]] = "direct"
          /\ at[u] # "relist" => outcome[req[u]] \notin {"none", "direct"} \cup Unsent
          /\ \A v \in Tasks : at[v] \in Past /\ req[v] = req[u] => v = u
        BY <2>1 DEF Inv, PastIsClaimed
    <2>5. runs'[req[u]] = runs[req[u]]
        BY <1>7, <2>1, <2>2
    <2> QED BY <1>3, <2>1, <2>3, <2>4, <2>5
<1>11. RunningHasRun'
    <2> SUFFICES ASSUME NEW u \in Tasks, at'[u] \in Running, req'[u] \in Requests
                 PROVE  runs'[req'[u]] # 0
        BY DEF RunningHasRun
    <2>1. CASE u = run
        <3>1. req'[u] = req[t]
            BY <1>4, <2>1
        <3>2. runs'[req[t]] = 1
            BY <1>7, <3>1
        <3> QED BY <3>1, <3>2
    <2>2. CASE u # run
        <3>1. u # t /\ at[u] \in Running /\ req'[u] = req[u]
            BY <1>4, <2>2 DEF Running
        <3> QED BY <1>7, <3>1 DEF Inv, RunningHasRun
    <2> QED BY <2>1, <2>2
<1>12. SubmittedIsNew'
    <2>1. UNCHANGED outcome
        BY <1>3
    <2>2. \A u \in Tasks : at'[u] = "enqueue" => at[u] = "enqueue" /\ req'[u] = req[u]
        BY <1>5
    <2> QED BY <2>1, <2>2 DEF Inv, SubmittedIsNew
<1> QED BY <1>8, <1>9, <1>10, <1>11, <1>12 DEF Inv

(* submit: a message that nothing knows of goes to the engine, or to the   *)
(* queue. *)
LEMMA SubmitKeepsInv ==
    ASSUME Inv, NEW b \in Bridges, NEW r \in Requests, Submit(b, r)
    PROVE  Inv'
<1> USE DEF Inv, Submit, Goes
<1>1. Cmd(b) \in Tasks /\ Run(b) \in Tasks /\ runs[r] = 0
    BY DEF Tasks, Cmd, Run, RunsAreClaimed
<1>2. CASE /\ Goes(Cmd(b), "enqueue") /\ req' = [req EXCEPT ![Cmd(b)] = r]
           /\ UNCHANGED <<outcome, claim, runs>>
    <2> USE <1>1, <1>2
    <2>1. \A u \in Tasks : /\ at'[u] = IF u = Cmd(b) THEN "enqueue" ELSE at[u]
                          /\ req'[u] = IF u = Cmd(b) THEN r ELSE req[u]
        BY DEF Functions
    <2>2. Functions'
        BY DEF Functions
    <2>3. RunsAreClaimed' /\ UnsentHasNotRun'
        BY DEF RunsAreClaimed, UnsentHasNotRun
    <2>4. PastIsClaimed'
        BY <2>1 DEF PastIsClaimed, Past
    <2>5. RunningHasRun'
        BY <2>1 DEF RunningHasRun, Running
    <2>6. SubmittedIsNew'
        BY <2>1 DEF SubmittedIsNew
    <2> QED BY <2>2, <2>3, <2>4, <2>5, <2>6
<1>3. CASE /\ Goes(Run(b), "engine") /\ req' = [req EXCEPT ![Run(b)] = r]
           /\ outcome' = [outcome EXCEPT ![r] = "direct"]
           /\ runs' = [runs EXCEPT ![r] = @ + 1]
    <2> USE <1>1, <1>3
    <2>1. /\ \A u \in Tasks : /\ at'[u] = IF u = Run(b) THEN "engine" ELSE at[u]
                             /\ req'[u] = IF u = Run(b) THEN r ELSE req[u]
          /\ \A q \in Requests : /\ outcome'[q] = IF q = r THEN "direct" ELSE outcome[q]
                                /\ runs'[q] = IF q = r THEN 1 ELSE runs[q]
        BY DEF Functions
    <2>2. Functions'
        <3>1. /\ at' = [u \in Tasks |-> at'[u]] /\ req' = [u \in Tasks |-> req'[u]]
              /\ outcome' = [q \in Requests |-> outcome'[q]]
            BY DEF Functions
        <3>2. runs' \in [Requests -> Nat]
            BY DEF Functions
        <3> QED BY <3>1, <3>2 DEF Functions
    <2>3. RunsAreClaimed' /\ UnsentHasNotRun'
        BY <2>1 DEF RunsAreClaimed, UnsentHasNotRun, Unsent
    <2>4. PastIsClaimed'
        BY <2>1 DEF PastIsClaimed, Past
    <2>5. RunningHasRun'
        BY <2>1 DEF RunningHasRun, Running
    <2>6. SubmittedIsNew'
        BY <2>1 DEF SubmittedIsNew
    <2> QED BY <2>2, <2>3, <2>4, <2>5, <2>6
<1> QED BY <1>2, <1>3

LEMMA EnqueueKeepsInv ==
    ASSUME Inv, NEW b \in Bridges, Enqueue(b)
    PROVE  Inv'
<1> DEFINE t == Cmd(b)
<1> USE DEF Enqueue
<1>1. t \in Tasks
    BY DEF Tasks, Cmd
<1>2. CASE Ends(t) /\ UNCHANGED outcome
    <2>1. Calm
        BY <1>2 DEF Ends, Calm, CalmRow, CalmTask, Inv, Functions, Special, Past, Running
    <2> QED BY <2>1, CalmKeepsInv
<1>3. CASE /\ outcome' = [outcome EXCEPT ![req[t]] = "queued"]
           /\ Goes(t, "append") /\ UNCHANGED req
    <2> USE <1>1, <1>3 DEF Inv, Goes
    <2>1. req[t] \in Requests /\ outcome[req[t]] = "none" /\ runs[req[t]] = 0
        BY DEF SubmittedIsNew, RunsAreClaimed
    <2>2. /\ \A u \in Tasks : at'[u] = IF u = t THEN "append" ELSE at[u]
          /\ \A q \in Requests : outcome'[q] = IF q = req[t] THEN "queued" ELSE outcome[q]
        BY DEF Functions
    <2>3. Functions'
        BY DEF Functions
    <2>4. RunsAreClaimed' /\ UnsentHasNotRun'
        BY <2>1, <2>2 DEF RunsAreClaimed, UnsentHasNotRun, Unsent
    <2>5. PastIsClaimed'
        BY <2>1, <2>2 DEF PastIsClaimed, Past, Unsent
    <2>6. RunningHasRun'
        BY <2>2 DEF RunningHasRun, Running
    <2>7. SubmittedIsNew'
        BY <2>2 DEF SubmittedIsNew
    <2> QED BY <2>3, <2>4, <2>5, <2>6, <2>7
<1> QED BY <1>2, <1>3

(* Nothing has run and no task is anywhere at first. *)
LEMMA InitInv == Init => Inv
<1> SUFFICES ASSUME Init PROVE Inv
    OBVIOUS
<1>1. Functions
    BY DEF Init, Functions
<1>2. \A r \in Requests : runs[r] = 0 /\ outcome[r] \in {"queued", "none"}
    BY DEF Init
<1>3. \A t \in Tasks : at[t] = "idle"
    BY DEF Init
<1> QED
    BY <1>1, <1>2, <1>3 DEF Inv, RunsAreClaimed, PastIsClaimed, RunningHasRun,
       UnsentHasNotRun, SubmittedIsNew, Past, Running, Unsent

LEMMA NextKeepsInv == Inv /\ [Next]_vars => Inv'
<1> SUFFICES ASSUME Inv, [Next]_vars PROVE Inv'
    OBVIOUS
<1>1. CASE UNCHANGED vars
    BY <1>1 DEF vars, rows, Inv, Functions, RunsAreClaimed, PastIsClaimed, RunningHasRun,
       UnsentHasNotRun, SubmittedIsNew
<1>2. CASE \E r \in Requests : Expire(r)
    BY <1>2, ExpireIsCalm, CalmKeepsInv
<1>3. ASSUME NEW b \in Bridges, Works(b)
      PROVE  Inv'
    <2>1. CASE \E t \in {Cmd(b), Run(b)} : StartNext(t)
        <3> PICK t \in {Cmd(b), Run(b)} : StartNext(t)
            BY <2>1
        <3>1. t \in Tasks
            BY DEF Tasks, Cmd, Run
        <3> QED BY <3>1, StartingIsCalm, CalmKeepsInv, AcquireKeepsInv, RelistKeepsInv,
                   StartKeepsInv DEF StartNext
    <2>2. CASE Commit(b) \/ StopRun(b) \/ CloseRun(b)
        BY <2>2, RunIsCalm, CalmKeepsInv
    <2>3. CASE Enqueue(b)
        BY <2>3, EnqueueKeepsInv
    <2>4. CASE \/ AppendWaiting(b) \/ PromoteRow(b) \/ PromoteWaiting(b)
               \/ DropRow(b) \/ DropWaiting(b) \/ Recover(b) \/ Merge(b)
               \/ AfterCancel(b) \/ CloseNext(b) \/ Exit(b)
        BY <2>4, CommandsAreCalm, CalmKeepsInv
    <2> QED BY <1>3, <2>1, <2>2, <2>3, <2>4 DEF Works
<1>4. ASSUME NEW b \in Bridges, Commanded(b)
      PROVE  Inv'
    <2>1. CASE \E r \in Requests : Submit(b, r)
        BY <2>1, SubmitKeepsInv
    <2>2. CASE CancelRun(b)
        BY <2>2, CommandsAreCalm, CalmKeepsInv
    <2>3. CASE \/ \E r \in Requests : Promote(b, r) \/ Cancel(b, r)
               \/ Resolve(b) \/ Open(b) \/ Shutdown(b)
        BY <2>3, CommandsAreCalm, CalmKeepsInv
    <2> QED BY <1>4, <2>1, <2>2, <2>3 DEF Commanded
<1>5. ASSUME NEW b \in Bridges, RunReturns(b) \/ LosesClaim(b)
      PROVE  Inv'
    BY <1>5, RunIsCalm, CalmKeepsInv
<1>6. ASSUME NEW b \in Bridges, Crash(b)
      PROVE  Inv'
    BY <1>6, CommandsAreCalm, CalmKeepsInv
<1> QED BY <1>1, <1>2, <1>3, <1>4, <1>5, <1>6 DEF Next

(* The claim invariant, of every reachable state. *)
THEOREM ClaimsCarryRuns == Spec => []Inv
BY InitInv, NextKeepsInv, PTL DEF Spec

(* RunsOnce: a message is given to the engine once, however many bridges   *)
(* and however their commands and failures interleave.                     *)
THEOREM EachRequestRunsOnce == Spec => []RunsOnce
<1>1. Inv => RunsOnce
    BY DEF Inv, RunsAreClaimed, RunsOnce
<1> QED BY <1>1, ClaimsCarryRuns, PTL

(* UnsentNeverRuns: what is cancelled has not run and will not.            *)
THEOREM CancelledNeverRuns == Spec => []UnsentNeverRuns
<1>1. Inv => UnsentNeverRuns
    BY DEF Inv, UnsentNeverRuns, UnsentHasNotRun, PastIsClaimed, RunningHasRun, Starting,
           Past, Running, Unsent
<1> QED BY <1>1, ClaimsCarryRuns, PTL

-----------------------------------------------------------------------------
(* What a step may do to the rows: an outcome stays, and a row comes from  *)
(* a submission or in place of the version that is resolved.               *)
Stays(r) == outcome[r] \notin {"none", "queued"} => outcome'[r] = outcome[r]
Arrives(r) ==
    outcome[r] = "none" /\ outcome'[r] # "none" => r[2] = 0 \/ ReplacesResolved(r)
RowsMove == \A r \in Requests : Stays(r) /\ Arrives(r)

LEMMA StepsMoveRows == Inv /\ [Next]_vars => RowsMove
<1> SUFFICES ASSUME Inv, [Next]_vars PROVE RowsMove
    OBVIOUS
<1>1. ASSUME Calm PROVE RowsMove
    BY <1>1 DEF Calm, CalmRow, RowsMove, Stays, Arrives
<1>2. CASE UNCHANGED outcome
    BY <1>2 DEF RowsMove, Stays, Arrives
<1>3. ASSUME NEW b \in Bridges, Enqueue(b) PROVE RowsMove
    <2>1. req[Cmd(b)][2] = 0 /\ outcome[req[Cmd(b)]] = "none"
        BY <1>3 DEF Enqueue, Inv, SubmittedIsNew, Tasks, Cmd
    <2>2. \/ outcome' = [outcome EXCEPT ![req[Cmd(b)]] = "queued"]
          \/ UNCHANGED outcome
        BY <1>3 DEF Enqueue
    <2> QED BY <2>1, <2>2 DEF Inv, Functions, RowsMove, Stays, Arrives
<1>4. ASSUME NEW b \in Bridges, NEW r \in Requests, Submit(b, r) PROVE RowsMove
    BY <1>4 DEF Submit, Inv, Functions, RowsMove, Stays, Arrives
<1>5. CASE \E t \in Tasks : Acquire(t) \/ Relist(t) \/ Start(t)
    BY <1>2, <1>5 DEF Acquire, Relist, Start, rows
<1>6. CASE UNCHANGED vars \/ \E r \in Requests : Expire(r)
    BY <1>2, <1>6 DEF vars, rows, Expire
<1>7. CASE \E t \in Tasks : Pick(t) \/ Pop(t)
    BY <1>7, <1>1, StartingIsCalm
<1>8. CASE \E b \in Bridges :
              \/ RunReturns(b) \/ LosesClaim(b) \/ Commit(b)
              \/ StopRun(b) \/ CloseRun(b)
    BY <1>8, <1>1, RunIsCalm
<1>9. CASE \E b \in Bridges :
              \/ AppendWaiting(b) \/ PromoteRow(b) \/ PromoteWaiting(b)
              \/ \E r \in Requests : Promote(b, r) \/ Cancel(b, r)
              \/ DropRow(b) \/ DropWaiting(b) \/ Resolve(b) \/ Open(b)
              \/ Recover(b) \/ Merge(b) \/ CancelRun(b) \/ AfterCancel(b)
              \/ Shutdown(b) \/ CloseNext(b) \/ Exit(b) \/ Crash(b)
    BY <1>9, <1>1, CommandsAreCalm
<1>10. \A b \in Bridges : Cmd(b) \in Tasks /\ Run(b) \in Tasks
    BY DEF Tasks, Cmd, Run
<1>11. ASSUME NEW b \in Bridges, Works(b) PROVE RowsMove
    BY <1>11, <1>3, <1>5, <1>7, <1>8, <1>9, <1>10 DEF Works, StartNext
<1>12. ASSUME NEW b \in Bridges, Commanded(b) PROVE RowsMove
    BY <1>12, <1>4, <1>8, <1>9 DEF Commanded
<1> QED BY <1>6, <1>8, <1>9, <1>11, <1>12 DEF Next

(* OutcomesStay: a row leaves the queue once.                              *)
THEOREM LeftRowsStay == Spec => OutcomesStay
<1> DEFINE Left == \A r \in Requests :
              outcome[r] \notin {"none", "queued"} => outcome'[r] = outcome[r]
<1>1. Inv /\ [Next]_vars => [Left]_vars
    BY StepsMoveRows DEF RowsMove, Stays
<1> QED BY <1>1, ClaimsCarryRuns, PTL DEF Spec, OutcomesStay

-----------------------------------------------------------------------------
(* Of the versions of a message, all that came before the last one there   *)
(* is are resolved. *)
Versions ==
    \A m \in Messages, k \in 0..MaxRetries, l \in 0..MaxRetries :
        k < l /\ outcome[<<m, l>>] # "none" => outcome[<<m, k>>] = "resolved"

LEMMA InitVersions == Init => Versions
<1> SUFFICES ASSUME Init, NEW r \in Requests, outcome[r] # "none" PROVE r[2] = 0
    BY QueueAssumption DEF Versions, Requests
<1>1. PICK n \in 0..MaxLeft : queue \in [1..n -> Messages \X {0}]
    BY DEF Init, BoundedSeq, SeqOf
<1>2. Contains(queue, r)
    BY DEF Init
<1> QED BY <1>1, <1>2, QueueAssumption DEF Contains

LEMMA StepsKeepVersions == Versions /\ RowsMove => Versions'
<1> SUFFICES ASSUME Versions, RowsMove,
                    NEW m \in Messages, NEW k \in 0..MaxRetries, NEW l \in 0..MaxRetries,
                    k < l, outcome'[<<m, l>>] # "none"
             PROVE  outcome'[<<m, k>>] = "resolved"
    BY DEF Versions
<1>1. /\ k \in Nat /\ l \in Nat /\ l # 0
      /\ \A j \in 0..MaxRetries : <<m, j>> \in Requests /\ Stays(<<m, j>>) /\ Arrives(<<m, j>>)
    BY QueueAssumption DEF Requests, RowsMove
<1>2. CASE outcome[<<m, l>>] # "none"
    BY <1>1, <1>2 DEF Versions, Stays
<1>3. CASE outcome[<<m, l>>] = "none"
    <2>1. ReplacesResolved(<<m, l>>)
        BY <1>1, <1>3 DEF Arrives
    <2>2. PICK q \in Requests :
                  /\ <<m, l>> = Retry(q)
                  /\ outcome[q] = "queued" /\ outcome'[q] = "resolved"
        BY <2>1 DEF ReplacesResolved
    <2>3. q = <<m, l - 1>> /\ l - 1 \in 0..MaxRetries
        BY <2>2, QueueAssumption DEF Retry, Requests
    <2>4. CASE k = l - 1
        BY <2>2, <2>3, <2>4
    <2>5. CASE k < l - 1
        BY <1>1, <2>2, <2>3, <2>5 DEF Versions, Stays
    <2> QED BY <1>1, <2>4, <2>5
<1> QED BY <1>2, <1>3

LEMMA OneVersionIsQueued == Versions => OneVersionQueued
<1> DEFINE Queue(m) == {k \in 0..MaxRetries : outcome[<<m, k>>] = "queued"}
<1> SUFFICES ASSUME Versions, NEW m \in Messages PROVE Cardinality(Queue(m)) <= 1
    BY DEF OneVersionQueued
<1> DEFINE Queued == Queue(m)
<1>1. \A k \in Queued, l \in Queued : k = l
    BY QueueAssumption DEF Versions
<1> HIDE DEF Queue
<1>2. CASE Queued = {}
    BY <1>2, FS_EmptySet
<1>3. CASE Queued # {}
    <2>1. PICK k : Queued = {k}
        BY <1>1, <1>3
    <2> QED BY <2>1, FS_Singleton
<1> QED BY <1>2, <1>3

(* OneVersionQueued: of all the versions of a message one is queued at     *)
(* most, however many bridges resolve it.                                  *)
THEOREM ResolvingKeepsOneVersion == Spec => []OneVersionQueued
<1>1. Inv /\ Versions /\ [Next]_vars => Versions'
    BY StepsMoveRows, StepsKeepVersions
<1> QED BY <1>1, InitVersions, OneVersionIsQueued, ClaimsCarryRuns, PTL DEF Spec

-----------------------------------------------------------------------------
(* The operators on sequences the queue and its copies are built with.     *)
LEMMA LeastNatural ==
    ASSUME NEW T \in SUBSET Nat, T # {}
    PROVE  \E n \in T : \A m \in T : n <= m
<1>1. PICK n \in T : \A m \in T : ~(<<m, n>> \in OpToRel(<, Nat))
    BY WFMin, NatLessThanWellFounded
<1>2. \A m \in T : ~(m < n)
    BY <1>1 DEF OpToRel
<1> QED BY <1>2

(* Kept keeps the type: up to some place of the sequence there are exactly *)
(* n entries in the set, for every n that it counts to.                    *)
LEMMA KeptIsASeq ==
    ASSUME NEW T, NEW s \in Seq(T), NEW S
    PROVE  Kept(s, S) \in Seq(T)
<1> DEFINE places == {i \in 1..Len(s) : s[i] \in S}
           Upto(i) == places \cap (1..i)
           Count(i) == Cardinality(Upto(i))
           c == Cardinality(places)
<1>1. Len(s) \in Nat /\ \A i \in 1..Len(s) : s[i] \in T
    OBVIOUS
<1>2. places \subseteq 1..Len(s)
    OBVIOUS
<1>3. /\ Upto(0) = {} /\ Upto(Len(s)) = places
      /\ \A i \in Nat : i + 1 \notin places => Upto(i + 1) = Upto(i)
      /\ \A i \in Nat : i + 1 \in places => Upto(i + 1) = Upto(i) \cup {i + 1}
      /\ \A i \in Nat : i + 1 \notin Upto(i)
    BY <1>1, <1>2
<1>4. IsFiniteSet(places)
    <2>1. IsFiniteSet(1..Len(s))
        BY <1>1, FS_Interval
    <2> QED BY <1>2, <2>1, FS_Subset
<1> HIDE DEF places
<1>5. \A i \in Nat : IsFiniteSet(Upto(i))
    BY <1>4, FS_Subset
<1> HIDE DEF Upto
<1>6. c \in Nat /\ \A i \in Nat : Count(i) \in Nat
    BY <1>4, <1>5, FS_CardinalityType
<1>7. Count(0) = 0 /\ Count(Len(s)) = c
    BY <1>3, FS_EmptySet
<1>8. ASSUME NEW i \in Nat
      PROVE  Count(i + 1) = IF i + 1 \in places THEN Count(i) + 1 ELSE Count(i)
    <2>1. CASE i + 1 \notin places
        BY <1>3, <2>1
    <2>2. CASE i + 1 \in places
        <3>1. Upto(i + 1) = Upto(i) \cup {i + 1} /\ i + 1 \notin Upto(i) /\ IsFiniteSet(Upto(i))
            BY <1>3, <1>5, <2>2
        <3>2. Cardinality(Upto(i) \cup {i + 1}) = Cardinality(Upto(i)) + 1
            BY <3>1, FS_AddElement
        <3> QED BY <2>2, <3>1, <3>2
    <2> QED BY <2>1, <2>2
<1> HIDE DEF Count, c
<1>9. ASSUME NEW n \in 1..c PROVE \E i \in places : Count(i) = n
    <2> DEFINE Enough == {i \in Nat : Count(i) >= n}
    <2>1. Len(s) \in Enough
        BY <1>1, <1>6, <1>7
    <2>2. PICK i \in Enough : \A j \in Enough : i <= j
        BY <2>1, LeastNatural
    <2>3. i \in Nat /\ Count(i) >= n /\ i # 0
        BY <1>6, <1>7, <2>2
    <2>4. PICK j \in Nat : i = j + 1
        BY <2>3
    <2>5. Count(j) < n
        BY <1>6, <2>2, <2>4
    <2>6. Count(j + 1) = IF j + 1 \in places THEN Count(j) + 1 ELSE Count(j)
        BY <1>8
    <2>7. Count(j + 1) >= n /\ Count(j) \in Nat /\ n \in Nat
        <3>1. Count(j + 1) >= n
            BY <2>3, <2>4
        <3>2. Count(j) \in Nat
            BY <1>6
        <3>3. n \in Nat
            BY <1>6
        <3> QED BY <3>1, <3>2, <3>3
    <2>8. j + 1 \in places
        BY <2>5, <2>6, <2>7
    <2>9. Count(j + 1) = n
        BY <2>5, <2>6, <2>7, <2>8
    <2> QED BY <2>8, <2>9
<1>10. \A n \in 1..c : (CHOOSE i \in places : Cardinality(places \cap (1..i)) = n) \in places
    BY <1>9 DEF Count, Upto
<1>11. Kept(s, S) = [n \in 1..c |-> s[CHOOSE i \in places : Cardinality(places \cap (1..i)) = n]]
    BY DEF Kept, c, places
<1>12. Kept(s, S) \in [1..c -> T]
    BY <1>1, <1>2, <1>10, <1>11
<1> QED BY <1>6, <1>12, SeqDef

(* RemoveAt leaves every other entry, in order. *)
LEMMA RemoveAtEntries ==
    ASSUME NEW T, NEW s \in Seq(T), NEW i \in 1..Len(s)
    PROVE  /\ RemoveAt(s, i) \in Seq(T)
           /\ Len(RemoveAt(s, i)) = Len(s) - 1
           /\ \A j \in 1..Len(s) - 1 :
                 RemoveAt(s, i)[j] = IF j < i THEN s[j] ELSE s[j + 1]
<1> DEFINE front == SubSeq(s, 1, i - 1)
           back == SubSeq(s, i + 1, Len(s))
<1>1. Len(s) \in Nat /\ i \in Nat /\ i - 1 \in Nat /\ i + 1 \in Nat
    OBVIOUS
<1>2. front \in Seq(T) /\ Len(front) = i - 1 /\ \A j \in 1..i - 1 : front[j] = s[j]
    BY <1>1, SubSeqProperties
<1>3. /\ back \in Seq(T) /\ Len(back) = Len(s) - i
      /\ \A j \in 1..Len(s) - i : back[j] = s[i + j]
    BY <1>1, SubSeqProperties
<1> HIDE DEF front, back
<1> DEFINE all == front \o back
<1>4. /\ all \in Seq(T) /\ Len(all) = Len(front) + Len(back)
      /\ \A j \in 1..Len(front) + Len(back) :
            all[j] = IF j <= Len(front) THEN front[j] ELSE back[j - Len(front)]
    BY <1>2, <1>3, ConcatProperties
<1> HIDE DEF all
<1>5. Len(all) = Len(s) - 1
    BY <1>1, <1>2, <1>3, <1>4
<1>6. ASSUME NEW j \in 1..Len(s) - 1 PROVE all[j] = IF j < i THEN s[j] ELSE s[j + 1]
    <2>1. all[j] = IF j <= i - 1 THEN front[j] ELSE back[j - (i - 1)]
        BY <1>1, <1>2, <1>3, <1>4
    <2>2. CASE j < i
        BY <1>1, <1>2, <2>1, <2>2
    <2>3. CASE ~(j < i)
        <3>1. j - (i - 1) \in 1..Len(s) - i /\ i + (j - (i - 1)) = j + 1
            BY <1>1, <2>3
        <3>2. all[j] = s[i + (j - (i - 1))]
            BY <1>1, <1>3, <2>1, <2>3, <3>1
        <3> QED BY <2>3, <3>1, <3>2
    <2> QED BY <2>2, <2>3
<1> QED BY <1>4, <1>5, <1>6 DEF RemoveAt, front, back, all

LEMMA RemoveFirstIsASeq ==
    ASSUME NEW T, NEW s \in Seq(T), NEW e
    PROVE  /\ RemoveFirst(s, e) \in Seq(T) /\ Len(RemoveFirst(s, e)) <= Len(s)
           /\ ~Contains(s, e) => RemoveFirst(s, e) = s
           /\ Contains(s, e) =>
                 \E i \in 1..Len(s) : s[i] = e /\ RemoveFirst(s, e) = RemoveAt(s, i)
<1>1. CASE ~Contains(s, e)
    BY <1>1 DEF Contains, RemoveFirst
<1>2. CASE Contains(s, e)
    <2> DEFINE places == {i \in 1..Len(s) : s[i] = e}
    <2>1. places # {} /\ places \subseteq Nat
        BY <1>2 DEF Contains
    <2>2. Min(places) \in places
        BY <2>1, LeastNatural DEF Min
    <2>3. SelectInSeq(s, LAMBDA v : v = e) = Min(places)
        BY <2>1 DEF SelectInSeq
    <2>4. RemoveFirst(s, e) = RemoveAt(s, Min(places))
        BY <1>2, <2>3 DEF RemoveFirst, Contains
    <2>5. Min(places) \in 1..Len(s) /\ s[Min(places)] = e /\ Len(s) \in Nat
        BY <2>2
    <2> HIDE DEF places
    <2>6. RemoveFirst(s, e) \in Seq(T) /\ Len(RemoveFirst(s, e)) = Len(s) - 1
        BY <2>4, <2>5, RemoveAtEntries
    <2> QED BY <1>2, <2>4, <2>5, <2>6
<1> QED BY <1>1, <1>2

(* An entry that occurs once is gone, and all others stay, once.           *)
LEMMA RemoveFirstEntries ==
    ASSUME NEW T, NEW s \in Seq(T), IsInjective(s), NEW e
    PROVE  /\ IsInjective(RemoveFirst(s, e))
           /\ \A x : Contains(RemoveFirst(s, e), x) <=> Contains(s, x) /\ x # e
<1>1. CASE ~Contains(s, e)
    BY <1>1, RemoveFirstIsASeq
<1>2. ASSUME NEW i \in 1..Len(s), s[i] = e, RemoveFirst(s, e) = RemoveAt(s, i)
      PROVE  /\ IsInjective(RemoveFirst(s, e))
             /\ \A x : Contains(RemoveFirst(s, e), x) <=> Contains(s, x) /\ x # e
    <2> DEFINE r == RemoveFirst(s, e)
               n == Len(s)
    <2>1. n \in Nat /\ i \in 1..n
        OBVIOUS
    <2>2. /\ r \in Seq(T) /\ Len(r) = n - 1
          /\ \A j \in 1..n - 1 : r[j] = IF j < i THEN s[j] ELSE s[j + 1]
        <3>1. /\ RemoveAt(s, i) \in Seq(T) /\ Len(RemoveAt(s, i)) = n - 1
              /\ \A j \in 1..n - 1 : RemoveAt(s, i)[j] = IF j < i THEN s[j] ELSE s[j + 1]
            BY RemoveAtEntries
        <3> QED BY <1>2, <3>1
    <2>3. \A j \in 1..n, k \in 1..n : s[j] = s[k] => j = k
        BY DEF IsInjective
    <2> HIDE DEF r, n
    <2>4. ASSUME NEW j \in 1..n - 1, NEW k \in 1..n - 1, r[j] = r[k] PROVE j = k
        <3>1. j \in 1..n /\ j + 1 \in 1..n /\ k \in 1..n /\ k + 1 \in 1..n
            BY <2>1
        <3>2. r[j] = IF j < i THEN s[j] ELSE s[j + 1]
            BY <2>2
        <3>3. r[k] = IF k < i THEN s[k] ELSE s[k + 1]
            BY <2>2
        <3>4. CASE j < i /\ k < i
            BY <2>3, <2>4, <3>1, <3>2, <3>3, <3>4
        <3>5. CASE j < i /\ ~(k < i)
            <4>1. j = k + 1
                BY <2>3, <2>4, <3>1, <3>2, <3>3, <3>5
            <4> QED BY <2>1, <3>5, <4>1
        <3>6. CASE ~(j < i) /\ k < i
            <4>1. k = j + 1
                BY <2>3, <2>4, <3>1, <3>2, <3>3, <3>6
            <4> QED BY <2>1, <3>6, <4>1
        <3>7. CASE ~(j < i) /\ ~(k < i)
            <4>1. j + 1 = k + 1
                BY <2>3, <2>4, <3>1, <3>2, <3>3, <3>7
            <4> QED BY <2>1, <4>1
        <3> QED BY <3>4, <3>5, <3>6, <3>7
    <2>5. ASSUME NEW x, Contains(r, x) PROVE Contains(s, x) /\ x # e
        BY <1>2, <2>1, <2>2, <2>3, <2>5 DEF Contains, n
    <2>6. ASSUME NEW x, Contains(s, x), x # e PROVE Contains(r, x)
        <3>1. PICK j \in 1..n : s[j] = x
            BY <2>6 DEF Contains, n
        <3>2. CASE j < i
            <4>1. j \in 1..n - 1 /\ r[j] = s[j]
                BY <2>1, <2>2, <3>2
            <4> QED BY <2>2, <3>1, <4>1 DEF Contains
        <3>3. CASE j > i
            <4>1. j - 1 \in 1..n - 1 /\ ~(j - 1 < i) /\ (j - 1) + 1 = j
                BY <2>1, <3>3
            <4>2. r[j - 1] = s[j]
                BY <2>2, <4>1
            <4> QED BY <2>2, <3>1, <4>1, <4>2 DEF Contains
        <3> QED BY <1>2, <2>1, <2>6, <3>1, <3>2, <3>3
    <2>7. DOMAIN r = 1..n - 1
        BY <2>2
    <2> QED BY <2>4, <2>5, <2>6, <2>7 DEF IsInjective, r
<1> QED BY <1>1, <1>2, RemoveFirstIsASeq

LEMMA ConsEntries ==
    ASSUME NEW T, NEW s \in Seq(T), NEW e \in T
    PROVE  /\ Cons(e, s) \in Seq(T) /\ Len(Cons(e, s)) = Len(s) + 1
           /\ \A x : Contains(Cons(e, s), x) <=> Contains(s, x) \/ x = e
           /\ IsInjective(s) /\ ~Contains(s, e) => IsInjective(Cons(e, s))
<1> DEFINE c == <<e>> \o s
           n == Len(s)
<1>1. n \in Nat /\ <<e>> \in Seq(T) /\ Len(<<e>>) = 1
    OBVIOUS
<1>2. /\ c \in Seq(T) /\ Len(c) = n + 1
      /\ \A j \in 1..n + 1 : c[j] = IF j <= 1 THEN <<e>>[j] ELSE s[j - 1]
    BY <1>1, ConcatProperties
<1> HIDE DEF c, n
<1>3. c[1] = e /\ \A j \in 1..n : j + 1 \in 1..n + 1 /\ c[j + 1] = s[j]
    <2>1. \A j \in 1..n : j + 1 \in 1..n + 1 /\ ~(j + 1 <= 1) /\ (j + 1) - 1 = j
        BY <1>1
    <2>2. 1 \in 1..n + 1 /\ <<e>>[1] = e
        BY <1>1
    <2> QED BY <1>2, <2>1, <2>2
<1>4. ASSUME NEW j \in 1..n + 1 PROVE j = 1 \/ (j - 1 \in 1..n /\ c[j] = s[j - 1])
    BY <1>1, <1>2
<1>5. ASSUME NEW x PROVE Contains(c, x) <=> Contains(s, x) \/ x = e
    <2>1. Contains(c, x) => Contains(s, x) \/ x = e
        BY <1>2, <1>3, <1>4, ZenonT(60) DEF Contains, n
    <2>2. Contains(s, x) => Contains(c, x)
        BY <1>2, <1>3 DEF Contains, n
    <2>3. x = e => Contains(c, x)
        BY <1>1, <1>2, <1>3 DEF Contains
    <2> QED BY <2>1, <2>2, <2>3
<1>6. IsInjective(s) /\ ~Contains(s, e) => IsInjective(c)
    <2> SUFFICES ASSUME IsInjective(s), ~Contains(s, e),
                        NEW j \in 1..n + 1, NEW k \in 1..n + 1, c[j] = c[k]
                 PROVE  j = k
        BY <1>2 DEF IsInjective
    <2>1. \A i \in 1..n : s[i] # e /\ \A h \in 1..n : s[i] = s[h] => i = h
        BY DEF IsInjective, Contains, n
    <2>2. CASE j = 1 /\ k = 1
        BY <2>2
    <2>3. CASE j = 1 /\ k # 1
        BY <1>3, <1>4, <2>1, <2>3
    <2>4. CASE j # 1 /\ k = 1
        BY <1>3, <1>4, <2>1, <2>4
    <2>5. CASE j # 1 /\ k # 1
        <3>1. j - 1 = k - 1
            BY <1>4, <2>1, <2>5
        <3> QED BY <1>1, <3>1
    <2> QED BY <2>2, <2>3, <2>4, <2>5
<1> QED BY <1>2, <1>5, <1>6 DEF Cons, c, n

LEMMA AppendEntries ==
    ASSUME NEW T, NEW s \in Seq(T), NEW e \in T
    PROVE  /\ Append(s, e) \in Seq(T) /\ Len(Append(s, e)) = Len(s) + 1
           /\ \A x : Contains(Append(s, e), x) <=> Contains(s, x) \/ x = e
           /\ IsInjective(s) /\ ~Contains(s, e) => IsInjective(Append(s, e))
<1> DEFINE c == Append(s, e)
           n == Len(s)
<1>1. n \in Nat /\ DOMAIN s = 1..n
    OBVIOUS
<1>2. /\ c \in Seq(T) /\ Len(c) = n + 1 /\ DOMAIN c = 1..n + 1
      /\ c[n + 1] = e /\ \A j \in 1..n : c[j] = s[j]
    BY AppendProperties
<1> HIDE DEF c, n
<1>3. \A j \in 1..n + 1 : j \in 1..n \/ j = n + 1
    BY <1>1
<1>4. ASSUME NEW x PROVE Contains(c, x) <=> Contains(s, x) \/ x = e
    BY <1>1, <1>2, <1>3 DEF Contains, n
<1>5. IsInjective(s) /\ ~Contains(s, e) => IsInjective(c)
    <2> SUFFICES ASSUME IsInjective(s), ~Contains(s, e),
                        NEW j \in 1..n + 1, NEW k \in 1..n + 1, c[j] = c[k]
                 PROVE  j = k
        BY <1>2 DEF IsInjective
    <2> QED BY <1>1, <1>2, <1>3 DEF IsInjective, Contains, n
<1> QED BY <1>2, <1>4, <1>5 DEF c, n

LEMMA ReplaceAllEntries ==
    ASSUME NEW T, NEW s \in Seq(T), IsInjective(s), NEW e \in T, NEW f \in T,
           Contains(s, e), ~Contains(s, f)
    PROVE  /\ ReplaceAll(s, e, f) \in Seq(T) /\ Len(ReplaceAll(s, e, f)) = Len(s)
           /\ IsInjective(ReplaceAll(s, e, f))
           /\ \A x : Contains(ReplaceAll(s, e, f), x) <=> (Contains(s, x) /\ x # e) \/ x = f
<1> DEFINE c == ReplaceAll(s, e, f)
           n == Len(s)
<1>1. n \in Nat /\ DOMAIN s = 1..n /\ \A j \in 1..n : s[j] \in T
    OBVIOUS
<1>2. c \in [1..n -> T] /\ \A j \in 1..n : c[j] = IF s[j] = e THEN f ELSE s[j]
    BY <1>1 DEF ReplaceAll
<1>3. c \in Seq(T) /\ Len(c) = n
    BY <1>1, <1>2, SeqDef
<1> HIDE DEF c
<1>4. IsInjective(c)
    <2> SUFFICES ASSUME NEW j \in 1..n, NEW k \in 1..n, c[j] = c[k] PROVE j = k
        BY <1>2 DEF IsInjective
    <2>1. s[j] # f /\ s[k] # f
        BY DEF Contains
    <2> QED BY <1>1, <1>2, <2>1 DEF IsInjective
<1>5. ASSUME NEW x PROVE Contains(c, x) <=> (Contains(s, x) /\ x # e) \/ x = f
    <2>1. e # f
        OBVIOUS
    <2> QED BY <1>2, <1>3, <2>1 DEF Contains
<1> QED BY <1>3, <1>4, <1>5 DEF c

-----------------------------------------------------------------------------
(* The queue and the shapes of everything.  A task at one of these places  *)
(* has a request.                                                          *)
Holding ==
    {"claim", "relist", "pop", "start", "engine", "commit", "abort",
     "enqueue", "append", "promote", "promoted", "drop", "dropped"}

HoldersHaveRequest ==
    /\ at = [t \in Tasks |-> at[t]]
    /\ \A t \in Tasks : at[t] \in Holding => req[t] \in Requests

Types == TypeOK /\ HoldersHaveRequest

Outcomes == {"none", "direct", "queued", "ended", "cancelled", "closed", "resolved"}
LeaseOK == lease \in [Requests -> [owner : Bridges \cup {Nobody},
                                  state : {"none", "live", "expired", "released"}]]
QueueOK ==
    /\ outcome \in [Requests -> Outcomes]
    /\ queue \in Seq(Requests) /\ IsInjective(queue) /\ Len(queue) <= QueueLimit
    /\ \A r \in Requests : Contains(queue, r) <=> outcome[r] = "queued"
    /\ untouched \subseteq ToSet(queue)

LEMMA RowsAreBoth ==
    /\ RowsOK <=> QueueOK /\ LeaseOK
    /\ QueueOK' /\ LeaseOK' => RowsOK'
BY DEF RowsOK, QueueOK, LeaseOK, Outcomes

LEMMA LeaseStepKeepsType ==
    ASSUME LeaseOK, NEW b \in Bridges, NEW r,
           \/ UNCHANGED lease \/ lease' = Claimed(b, r) \/ lease' = Released(r)
           \/ lease' = [lease EXCEPT ![r] = [owner |-> Nobody, state |-> "expired"]]
    PROVE  LeaseOK'
BY DEF LeaseOK, Claimed, Released

LEMMA QueueUnchanged == QueueOK /\ UNCHANGED <<outcome, queue, untouched>> => QueueOK'
BY DEF QueueOK

(* A row that leaves takes its place in the order with it.                 *)
LEMMA LeavingKeepsQueue ==
    ASSUME QueueOK, NEW r \in Requests, NEW how \in Outcomes \ {"queued"},
           outcome' = [outcome EXCEPT ![r] = how], queue' = RemoveFirst(queue, r),
           untouched' = {}
    PROVE  QueueOK'
<1>1. /\ queue' \in Seq(Requests) /\ Len(queue') <= Len(queue) /\ IsInjective(queue')
      /\ \A x : Contains(queue', x) <=> Contains(queue, x) /\ x # r
    BY RemoveFirstIsASeq, RemoveFirstEntries DEF QueueOK
<1>2. /\ outcome' \in [Requests -> Outcomes]
      /\ \A q \in Requests : outcome'[q] = IF q = r THEN how ELSE outcome[q]
    BY DEF QueueOK
<1>3. Len(queue) \in Nat /\ Len(queue') \in Nat /\ Len(queue) <= QueueLimit
    BY <1>1 DEF QueueOK
<1>4. Len(queue') <= QueueLimit
    BY <1>1, <1>3, QueueAssumption
<1>5. \A q \in Requests : Contains(queue', q) <=> outcome'[q] = "queued"
    BY <1>1, <1>2 DEF QueueOK
<1> QED BY <1>1, <1>2, <1>4, <1>5 DEF QueueOK

LEMMA EnqueueKeepsQueue ==
    ASSUME QueueOK, NEW r \in Requests, outcome[r] # "queued", Len(queue) < QueueLimit,
           outcome' = [outcome EXCEPT ![r] = "queued"], queue' = Append(queue, r),
           UNCHANGED untouched
    PROVE  QueueOK'
<1>1. /\ queue' \in Seq(Requests) /\ Len(queue') = Len(queue) + 1 /\ IsInjective(queue')
      /\ \A x : Contains(queue', x) <=> Contains(queue, x) \/ x = r
    BY AppendEntries DEF QueueOK
<1>2. /\ outcome' \in [Requests -> Outcomes]
      /\ \A q \in Requests : outcome'[q] = IF q = r THEN "queued" ELSE outcome[q]
    BY DEF QueueOK, Outcomes
<1>3. Len(queue') <= QueueLimit
    BY <1>1, QueueAssumption DEF QueueOK
<1>4. \A q \in Requests : Contains(queue', q) <=> outcome'[q] = "queued"
    BY <1>1, <1>2 DEF QueueOK
<1>5. untouched' \subseteq ToSet(queue')
    <2>1. \A x \in ToSet(queue) : Contains(queue, x)
        BY DEF QueueOK, ToSet, Contains
    <2>2. \A x : Contains(queue', x) => x \in ToSet(queue')
        BY <1>1 DEF ToSet, Contains
    <2> QED BY <1>1, <2>1, <2>2 DEF QueueOK
<1> QED BY <1>1, <1>2, <1>3, <1>4, <1>5 DEF QueueOK

LEMMA PromotingKeepsQueue ==
    ASSUME QueueOK, NEW r \in Requests, outcome[r] = "queued",
           queue' = Cons(r, RemoveFirst(queue, r)), untouched' = {}, UNCHANGED outcome
    PROVE  QueueOK'
<1> DEFINE rest == RemoveFirst(queue, r)
<1>1. Contains(queue, r)
    BY DEF QueueOK
<1>2. /\ rest \in Seq(Requests) /\ IsInjective(rest)
      /\ \A x : Contains(rest, x) <=> Contains(queue, x) /\ x # r
    BY RemoveFirstIsASeq, RemoveFirstEntries DEF QueueOK
<1>3. Len(rest) = Len(queue) - 1
    <2>1. PICK i \in 1..Len(queue) : rest = RemoveAt(queue, i)
        BY <1>1, RemoveFirstIsASeq DEF QueueOK
    <2> HIDE DEF rest
    <2> QED BY <2>1, RemoveAtEntries DEF QueueOK
<1> HIDE DEF rest
<1>4. queue' = Cons(r, rest)
    BY DEF rest
<1>5. /\ queue' \in Seq(Requests) /\ Len(queue') = Len(rest) + 1 /\ IsInjective(queue')
      /\ \A x : Contains(queue', x) <=> Contains(rest, x) \/ x = r
    <2>1. ~Contains(rest, r) /\ rest \in Seq(Requests) /\ IsInjective(rest)
        BY <1>2
    <2>2. /\ Cons(r, rest) \in Seq(Requests) /\ Len(Cons(r, rest)) = Len(rest) + 1
          /\ \A x : Contains(Cons(r, rest), x) <=> Contains(rest, x) \/ x = r
          /\ IsInjective(rest) /\ ~Contains(rest, r) => IsInjective(Cons(r, rest))
        BY <2>1, ConsEntries
    <2> QED BY <1>4, <2>1, <2>2
<1>6. Len(queue) \in Nat /\ Len(queue) <= QueueLimit
    BY DEF QueueOK
<1>7. Len(queue') <= QueueLimit
    BY <1>3, <1>5, <1>6
<1>8. \A q \in Requests : Contains(queue', q) <=> outcome'[q] = "queued"
    BY <1>1, <1>2, <1>5 DEF QueueOK
<1> QED BY <1>5, <1>7, <1>8 DEF QueueOK

LEMMA RetryingKeepsQueue ==
    ASSUME QueueOK, NEW r \in Requests, outcome[r] = "queued", Retry(r) \in Requests,
           outcome[Retry(r)] = "none", outcome' = Retried(r),
           queue' = ReplaceAll(queue, r, Retry(r)), untouched' = {}
    PROVE  QueueOK'
<1>1. Contains(queue, r) /\ ~Contains(queue, Retry(r)) /\ Retry(r) # r
    BY DEF QueueOK
<1>2. /\ queue' \in Seq(Requests) /\ Len(queue') = Len(queue) /\ IsInjective(queue')
      /\ \A x : Contains(queue', x) <=> (Contains(queue, x) /\ x # r) \/ x = Retry(r)
    BY <1>1, ReplaceAllEntries DEF QueueOK
<1>3. /\ outcome' \in [Requests -> Outcomes]
      /\ \A q \in Requests : outcome'[q] = IF q = Retry(r) THEN "queued"
                                         ELSE IF q = r THEN "resolved" ELSE outcome[q]
    BY <1>1 DEF QueueOK, Retried, Outcomes
<1>4. \A q \in Requests : Contains(queue', q) <=> outcome'[q] = "queued"
    BY <1>1, <1>2, <1>3 DEF QueueOK
<1> QED BY <1>2, <1>3, <1>4 DEF QueueOK

(* The transaction of finish(), and what run_task.cancel() may leave of    *)
(* what the task has asked of the store.                                   *)
LEMMA FinishKeepsRows ==
    ASSUME Types, NEW b \in Bridges, req[Run(b)] \in Requests,
           UNCHANGED rows \/ Finished(b)
    PROVE  RowsOK'
<1>1. QueueOK /\ LeaseOK
    BY RowsAreBoth DEF Types, TypeOK
<1>2. CASE UNCHANGED rows
    BY <1>1, <1>2, QueueUnchanged, LeaseStepKeepsType, RowsAreBoth DEF rows, LeaseOK
<1>3. CASE Finished(b)
    <2>1. LeaseOK'
        BY <1>1, <1>3, LeaseStepKeepsType DEF Finished
    <2>2. "ended" \in Outcomes \ {"queued"}
        BY DEF Outcomes
    <2>3. QueueOK'
        BY <1>1, <1>3, <2>2, LeavingKeepsQueue DEF Finished, Leaves
    <2> QED BY <2>1, <2>3, RowsAreBoth
<1> QED BY <1>2, <1>3

LEMMA InterruptKeepsRows ==
    ASSUME Types, NEW b \in Bridges, NEW next, Interrupts(b, next)
    PROVE  RowsOK'
<1>1. QueueOK /\ LeaseOK
    BY RowsAreBoth DEF Types, TypeOK
<1>2. \/ UNCHANGED rows
      \/ req[Run(b)] \in Requests /\ Finished(b)
      \/ lease' = Claimed(b, req[Run(b)]) /\ UNCHANGED <<outcome, queue, untouched>>
    BY DEF Interrupts, Types, HoldersHaveRequest, Holding, Tasks, Run
<1>3. CASE UNCHANGED rows
    BY <1>1, <1>3, QueueUnchanged, RowsAreBoth DEF rows, LeaseOK
<1>4. CASE req[Run(b)] \in Requests /\ Finished(b)
    BY <1>4, FinishKeepsRows
<1>5. CASE lease' = Claimed(b, req[Run(b)]) /\ UNCHANGED <<outcome, queue, untouched>>
    BY <1>1, <1>5, QueueUnchanged, LeaseStepKeepsType, RowsAreBoth
<1> QED BY <1>2, <1>3, <1>4, <1>5

(* The rows, under the actions that change one. *)
LEMMA ClaimKeepsRows ==
    ASSUME Types, NEW t \in Tasks, Acquire(t) \/ Relist(t)
    PROVE  RowsOK'
<1>1. QueueOK /\ LeaseOK /\ t[1] \in Bridges
    BY RowsAreBoth DEF Types, TypeOK, Tasks
<1>2. CASE Acquire(t)
    <2>1. QueueOK'
        BY <1>1, <1>2, QueueUnchanged DEF Acquire
    <2>2. LeaseOK'
        BY <1>1, <1>2, LeaseStepKeepsType DEF Acquire
    <2> QED BY <2>1, <2>2, RowsAreBoth
<1>3. CASE Relist(t)
    <2>1. LeaseOK'
        BY <1>1, <1>3, LeaseStepKeepsType DEF Relist
    <2>2. CASE UNCHANGED untouched
        BY <1>1, <1>3, <2>1, <2>2, QueueUnchanged, RowsAreBoth DEF Relist
    <2>3. CASE StillQueued(req[t]) /\ untouched' = untouched \cup {req[t]}
        <3>1. req[t] \in Requests
            BY <1>3 DEF Relist, Types, HoldersHaveRequest, Holding
        <3>2. req[t] \in ToSet(queue)
            BY <1>1, <2>3, <3>1 DEF QueueOK, StillQueued, Contains, ToSet
        <3>3. QueueOK'
            BY <1>1, <1>3, <2>3, <3>2 DEF Relist, QueueOK
        <3> QED BY <2>1, <3>3, RowsAreBoth
    <2> QED BY <1>3, <2>2, <2>3 DEF Relist
<1> QED BY <1>2, <1>3

LEMMA CommandsKeepRows ==
    ASSUME Types, Inv, NEW b \in Bridges,
           \/ Enqueue(b) \/ PromoteRow(b) \/ DropRow(b) \/ CloseNext(b)
           \/ Resolve(b) \/ \E r \in Requests : Submit(b, r)
    PROVE  RowsOK'
<1>1. QueueOK /\ LeaseOK
    BY RowsAreBoth DEF Types, TypeOK
<1>2. Cmd(b) \in Tasks
    BY DEF Tasks, Cmd
<1>3. CASE Enqueue(b)
    <2>1. req[Cmd(b)] \in Requests /\ outcome[req[Cmd(b)]] = "none"
        BY <1>2, <1>3 DEF Enqueue, Inv, SubmittedIsNew
    <2>2. QueueOK'
        BY <1>1, <1>3, <2>1, QueueUnchanged, EnqueueKeepsQueue DEF Enqueue
    <2> QED BY <1>1, <1>3, <2>2, RowsAreBoth DEF Enqueue, LeaseOK
<1>4. CASE PromoteRow(b)
    <2>1. req[Cmd(b)] \in Requests
        BY <1>2, <1>4 DEF PromoteRow, Types, HoldersHaveRequest, Holding
    <2>2. QueueOK'
        BY <1>1, <1>4, <2>1, QueueUnchanged, PromotingKeepsQueue DEF PromoteRow, StillQueued
    <2> QED BY <1>1, <1>4, <2>2, RowsAreBoth DEF PromoteRow, LeaseOK
<1>5. CASE DropRow(b)
    <2>1. req[Cmd(b)] \in Requests
        BY <1>2, <1>5 DEF DropRow, Types, HoldersHaveRequest, Holding
    <2>2. "cancelled" \in Outcomes \ {"queued"}
        BY DEF Outcomes
    <2>3. QueueOK'
        BY <1>1, <1>5, <2>1, <2>2, QueueUnchanged, LeavingKeepsQueue DEF DropRow, Leaves
    <2> QED BY <1>1, <1>5, <2>3, RowsAreBoth DEF DropRow, LeaseOK
<1>6. CASE CloseNext(b)
    <2>1. Head(seen[b]) \in Requests
        BY <1>6 DEF CloseNext, Types, TypeOK, CopiesOK
    <2>2. "closed" \in Outcomes \ {"queued"}
        BY DEF Outcomes
    <2>3. QueueOK'
        BY <1>1, <1>6, <2>1, <2>2, QueueUnchanged, LeavingKeepsQueue DEF CloseNext, Leaves
    <2> QED BY <1>1, <1>6, <2>3, RowsAreBoth DEF CloseNext, LeaseOK
<1>7. CASE Resolve(b)
    <2>1. CASE UNCHANGED rows
        BY <1>1, <2>1, QueueUnchanged, RowsAreBoth DEF rows, LeaseOK
    <2>2. ASSUME NEW r \in Requests, StillQueued(r), lease' = Released(r), untouched' = {},
                 \/ /\ outcome' = [outcome EXCEPT ![r] = "resolved"]
                    /\ queue' = RemoveFirst(queue, r)
                 \/ /\ r[2] < MaxRetries /\ outcome[Retry(r)] = "none"
                    /\ outcome' = Retried(r) /\ queue' = ReplaceAll(queue, r, Retry(r))
          PROVE  RowsOK'
        <3>1. "resolved" \in Outcomes \ {"queued"}
            BY DEF Outcomes
        <3>2. r[2] < MaxRetries => Retry(r) \in Requests
            BY QueueAssumption DEF Retry, Requests
        <3>3. QueueOK'
            BY <1>1, <2>2, <3>1, <3>2, LeavingKeepsQueue, RetryingKeepsQueue DEF StillQueued
        <3>4. LeaseOK'
            BY <1>1, <2>2, LeaseStepKeepsType
        <3> QED BY <3>3, <3>4, RowsAreBoth
    <2> QED BY <1>7, <2>1, <2>2 DEF Resolve
<1>8. ASSUME NEW r \in Requests, Submit(b, r) PROVE RowsOK'
    <2>1. \/ UNCHANGED outcome
          \/ outcome[r] = "none" /\ outcome' = [outcome EXCEPT ![r] = "direct"]
        BY <1>8 DEF Submit
    <2>2. QueueOK'
        BY <1>1, <1>8, <2>1 DEF Submit, QueueOK, Outcomes
    <2> QED BY <1>1, <1>8, <2>2, RowsAreBoth DEF Submit, LeaseOK
<1> QED BY <1>3, <1>4, <1>5, <1>6, <1>7, <1>8

LEMMA RestKeepsRows ==
    ASSUME Types, UNCHANGED rows \/ \E r \in Requests : Expire(r)
    PROVE  RowsOK'
<1>1. QueueOK /\ LeaseOK
    BY RowsAreBoth DEF Types, TypeOK
<1>2. QueueOK'
    BY <1>1, QueueUnchanged DEF Expire, rows
<1>3. LeaseOK'
    BY <1>1 DEF Expire, rows, LeaseOK
<1> QED BY <1>2, <1>3, RowsAreBoth

(* The tasks, and the copies in memory. *)
Shapes == TasksOK /\ HoldersHaveRequest

LEMMA StartingKeepsShapes ==
    ASSUME Types, NEW t \in Tasks, StartNext(t)
    PROVE  Shapes' /\ CopiesOK'
<1> USE DEF Types, TypeOK, TasksOK, CopiesOK, Shapes, HoldersHaveRequest, Holding, Goes, Ends
<1>1. t[1] \in Bridges /\ Run(t[1]) \in Tasks
    BY DEF Tasks, Run
<1>2. CASE Pick(t)
    <2>1. CASE Ends(t)
        BY <1>2, <2>1 DEF Pick
    <2>2. CASE waiting[t[1]] # <<>> /\ Goes(t, "claim") /\ req' = [req EXCEPT ![t] = Head(waiting[t[1]])]
        <3>1. Head(waiting[t[1]]) \in Requests
            BY <1>1, <2>2
        <3> QED BY <1>2, <2>2, <3>1 DEF Pick
    <2> QED BY <1>2, <2>1, <2>2 DEF Pick
<1>3. CASE Acquire(t)
    BY <1>3 DEF Acquire
<1>4. CASE Relist(t)
    BY <1>4 DEF Relist
<1>5. CASE Pop(t)
    <2>1. CASE Ends(t) /\ UNCHANGED waiting
        BY <1>5, <2>1 DEF Pop
    <2>2. CASE /\ waiting[t[1]] # <<>> /\ Goes(t, "start") /\ UNCHANGED req
               /\ waiting' = [waiting EXCEPT ![t[1]] = Tail(@)]
        <3>1. Tail(waiting[t[1]]) \in Seq(Requests)
            BY <1>1, <2>2
        <3> QED BY <1>1, <1>5, <2>2, <3>1 DEF Pop
    <2> QED BY <1>5, <2>1, <2>2 DEF Pop
<1>6. CASE Start(t)
    <2>1. req[t] \in Requests
        BY <1>6 DEF Start
    <2> DEFINE run == Run(t[1])
    <2> DEFINE cmd == Cmd(t[1])
               command == IF at[cmd] = "stop" THEN "stop late" ELSE at[cmd]
    <2>1a. cmd \in Tasks /\ cmd # run /\ (t = cmd \/ t = run)
        BY <1>1 DEF Tasks, Cmd, Run
    <2>2. /\ at' = [at EXCEPT ![run] = "engine", ![cmd] = IF t = cmd THEN "idle" ELSE command]
          /\ req' = [req EXCEPT ![t] = None, ![run] = req[t]]
          /\ claim' = [claim EXCEPT ![t[1]] = [req |-> req[t], lost |-> FALSE]]
          /\ UNCHANGED <<up, waiting, seen>>
        BY <1>6 DEF Start
    <2>3. run \in Tasks
        BY <1>1
    <2> HIDE DEF run, cmd
    <2>4. TasksOK'
        BY <1>1, <2>1, <2>2, <2>3
    <2>5. HoldersHaveRequest'
        BY <2>1, <2>1a, <2>2, <2>3
    <2> QED BY <2>2, <2>4, <2>5
<1> QED BY <1>2, <1>3, <1>4, <1>5, <1>6 DEF StartNext

LEMMA InterruptsKeepsShapes ==
    ASSUME Types, NEW b \in Bridges, NEW next, next \notin Holding,
           Interrupts(b, next), UNCHANGED <<claim, waiting, seen, up>>
    PROVE  Shapes' /\ CopiesOK'
<1> DEFINE commits == at[Run(b)] = "engine" /\ ~Direct(b)
<1>1. /\ at' = [at EXCEPT ![Cmd(b)] = next, ![Run(b)] = IF commits THEN "abort" ELSE "idle"]
      /\ req' = [req EXCEPT ![Run(b)] = IF commits THEN @ ELSE None]
    BY DEF Interrupts
<1>2. commits => at[Run(b)] = "engine"
    OBVIOUS
<1> HIDE DEF commits
<1>3. Cmd(b) \in Tasks /\ Run(b) \in Tasks /\ Cmd(b) # Run(b)
    BY DEF Tasks, Cmd, Run
<1>4. TasksOK'
    BY <1>1, <1>3 DEF Types, TypeOK, TasksOK
<1>5. HoldersHaveRequest'
    BY <1>1, <1>2, <1>3 DEF Types, TypeOK, TasksOK, HoldersHaveRequest, Holding
<1> QED BY <1>4, <1>5 DEF Shapes, Types, TypeOK, CopiesOK

LEMMA RunKeepsShapes ==
    ASSUME Types, NEW b \in Bridges,
           RunReturns(b) \/ LosesClaim(b) \/ Commit(b) \/ StopRun(b) \/ CloseRun(b)
    PROVE  Shapes' /\ CopiesOK'
<1> USE DEF Types, TypeOK, TasksOK, CopiesOK, Shapes, HoldersHaveRequest, Goes, Ends
<1>1. Run(b) \in Tasks /\ Cmd(b) \in Tasks
    BY DEF Tasks, Run, Cmd
<1>2. CASE RunReturns(b)
    BY <1>1, <1>2 DEF RunReturns, Holding
<1>3. CASE LosesClaim(b)
    BY <1>1, <1>3 DEF LosesClaim, Holding
<1>4. CASE Commit(b)
    BY <1>1, <1>4, ZenonT(60) DEF Commit, Holding
<1>5. CASE StopRun(b)
    <2>1. CASE Interrupts(b, "stopping")
        BY <1>5, <2>1, InterruptsKeepsShapes DEF StopRun, Holding
    <2>2. CASE Goes(Cmd(b), "stopping") /\ UNCHANGED <<rows, req>>
        BY <1>1, <1>5, <2>2 DEF StopRun, Holding
    <2> QED BY <1>5, <2>1, <2>2 DEF StopRun
<1>6. CASE CloseRun(b)
    <2>1. CASE Interrupts(b, "closed")
        BY <1>6, <2>1, InterruptsKeepsShapes DEF CloseRun, Holding
    <2>2. CASE Goes(Cmd(b), "closed") /\ UNCHANGED <<rows, req>>
        BY <1>1, <1>6, <2>2 DEF CloseRun, Holding
    <2> QED BY <1>6, <2>1, <2>2 DEF CloseRun
<1> QED BY <1>2, <1>3, <1>4, <1>5, <1>6

LEMMA CommandsKeepShapes ==
    ASSUME Types, NEW b \in Bridges,
           \/ \E r \in Requests : Submit(b, r) \/ Promote(b, r) \/ Cancel(b, r)
           \/ Enqueue(b) \/ PromoteRow(b) \/ DropRow(b) \/ Resolve(b) \/ Open(b)
           \/ CancelRun(b) \/ AfterCancel(b) \/ Exit(b)
    PROVE  Shapes' /\ CopiesOK'
<1> USE DEF Types, TypeOK, TasksOK, CopiesOK, Shapes, HoldersHaveRequest, Goes, Ends, Holding
<1>1. Run(b) \in Tasks /\ Cmd(b) \in Tasks
    BY DEF Tasks, Run, Cmd
<1>2. ASSUME NEW r \in Requests, Submit(b, r) PROVE Shapes' /\ CopiesOK'
    <2>1. \/ /\ at' = [at EXCEPT ![Cmd(b)] = "enqueue"]
             /\ req' = [req EXCEPT ![Cmd(b)] = r]
          \/ /\ at' = [at EXCEPT ![Run(b)] = "engine"]
             /\ req' = [req EXCEPT ![Run(b)] = r]
        BY <1>2 DEF Submit
    <2>2. claim' = claim \/ claim' = [claim EXCEPT ![b] = [req |-> None, lost |-> FALSE]]
        BY <1>2 DEF Submit
    <2>3. UNCHANGED <<up, waiting, seen>>
        BY <1>2 DEF Submit
    <2>4. TasksOK'
        <3>1. req' \in [Tasks -> Requests \cup {None}]
            BY <1>1, <2>1
        <3>2. claim' \in [Bridges -> [req : Requests \cup {None}, lost : BOOLEAN]]
            <4> DEFINE Claims == [req : Requests \cup {None}, lost : BOOLEAN]
            <4>1. claim \in [Bridges -> Claims] /\ [req |-> None, lost |-> FALSE] \in Claims
                OBVIOUS
            <4> HIDE DEF Claims
            <4>2. claim' \in [Bridges -> Claims]
                BY <2>2, <4>1
            <4> QED BY <4>2 DEF Claims
        <3> QED BY <2>3, <3>1, <3>2
    <2>5. HoldersHaveRequest'
        BY <1>1, <2>1
    <2> QED BY <2>3, <2>4, <2>5
<1>3. ASSUME NEW r \in Requests, Promote(b, r) \/ Cancel(b, r) PROVE Shapes' /\ CopiesOK'
    BY <1>1, <1>3 DEF Promote, Cancel
<1>4. CASE Enqueue(b)
    BY <1>1, <1>4 DEF Enqueue
<1>5. CASE PromoteRow(b)
    BY <1>1, <1>5 DEF PromoteRow
<1>6. CASE DropRow(b)
    BY <1>1, <1>6 DEF DropRow
<1>7. CASE Resolve(b) \/ Open(b) \/ CancelRun(b) \/ AfterCancel(b) \/ Exit(b)
    BY <1>1, <1>7 DEF Resolve, Open, CancelRun, AfterCancel, Exit
<1> QED BY <1>2, <1>3, <1>4, <1>5, <1>6, <1>7

(* A bridge changes its own copies, and a task that is not at a place      *)
(* where it has a request comes to none.                                   *)
LEMMA CopyStep ==
    ASSUME Types, NEW b \in Bridges, 
           \/ Ends(Cmd(b))
           \/ \E place : place \notin Holding /\ Goes(Cmd(b), place) /\ UNCHANGED req,
           UNCHANGED claim,
           \/ UNCHANGED up
           \/ \E u \in {"open", "closed", "down"} : up' = [up EXCEPT ![b] = u],
           UNCHANGED waiting \/ \E w \in Seq(Requests) : waiting' = [waiting EXCEPT ![b] = w],
           UNCHANGED seen \/ \E w \in Seq(Requests) : seen' = [seen EXCEPT ![b] = w]
    PROVE  Shapes' /\ CopiesOK'
<1>1. Cmd(b) \in Tasks
    BY DEF Tasks, Cmd
<1>2. CopiesOK'
    BY DEF Types, TypeOK, CopiesOK
<1>3. TasksOK'
    BY <1>1 DEF Types, TypeOK, TasksOK, Goes, Ends
<1>4. HoldersHaveRequest'
    BY <1>1 DEF Types, TypeOK, TasksOK, HoldersHaveRequest, Goes, Ends, Holding
<1> QED BY <1>2, <1>3, <1>4 DEF Shapes

LEMMA MemoryKeepsShapes ==
    ASSUME Types, NEW b \in Bridges,
           \/ AppendWaiting(b) \/ PromoteWaiting(b) \/ DropWaiting(b) \/ Recover(b)
           \/ Merge(b) \/ Shutdown(b) \/ CloseNext(b) \/ Crash(b)
    PROVE  Shapes' /\ CopiesOK'
<1>1. /\ waiting[b] \in Seq(Requests) /\ seen[b] \in Seq(Requests) /\ Cmd(b) \in Tasks
      /\ <<>> \in Seq(Requests)
      /\ at[Cmd(b)] \in Holding => req[Cmd(b)] \in Requests
    <2>1. Cmd(b) \in Tasks
        BY DEF Tasks, Cmd
    <2> QED BY <2>1 DEF Types, TypeOK, CopiesOK, HoldersHaveRequest
<1>2. CASE AppendWaiting(b)
    <2>1. Append(waiting[b], req[Cmd(b)]) \in Seq(Requests)
        BY <1>1, <1>2 DEF AppendWaiting, Holding
    <2> QED BY <1>2, <2>1, CopyStep DEF AppendWaiting, Holding
<1>3. CASE PromoteWaiting(b)
    <2> DEFINE r == req[Cmd(b)]
    <2>1. r \in Requests
        BY <1>1, <1>3 DEF PromoteWaiting, Holding
    <2>2. Cons(r, RemoveFirst(waiting[b], r)) \in Seq(Requests)
        BY <1>1, <2>1, RemoveFirstIsASeq, ConsEntries
    <2> QED BY <1>1, <1>3, <2>2, CopyStep DEF PromoteWaiting, Holding
<1>4. CASE DropWaiting(b)
    <2>1. RemoveFirst(waiting[b], req[Cmd(b)]) \in Seq(Requests)
        BY <1>1, RemoveFirstIsASeq
    <2> QED BY <1>4, <2>1, CopyStep DEF DropWaiting, Holding
<1>5. CASE Recover(b)
    <2>1. queue \in Seq(Requests)
        BY DEF Types, TypeOK, RowsOK
    <2> QED BY <1>5, <2>1, CopyStep DEF Recover, Holding
<1>6. CASE Merge(b)
    <2>1. Merged(b) \in Seq(Requests)
        BY <1>1, KeptIsASeq, ConcatProperties DEF Merged
    <2> QED BY <1>1, <1>6, <2>1, CopyStep DEF Merge, Holding
<1>7. CASE Shutdown(b)
    BY <1>1, <1>7, CopyStep DEF Shutdown, Holding
<1>8. CASE CloseNext(b)
    <2>1. Tail(seen[b]) \in Seq(Requests)
        BY <1>1, <1>8 DEF CloseNext
    <2> QED BY <1>8, <2>1 DEF CloseNext, Shapes, Types, TypeOK, TasksOK, CopiesOK, HoldersHaveRequest
<1>9. CASE Crash(b)
    BY <1>1, <1>9 DEF Crash, Shapes, Types, TypeOK, TasksOK, CopiesOK, HoldersHaveRequest, Holding
<1> QED BY <1>2, <1>3, <1>4, <1>5, <1>6, <1>7, <1>8, <1>9

LEMMA InitTypes == Init => Types
<1> SUFFICES ASSUME Init PROVE Types
    OBVIOUS
<1>1. PICK n \in 0..MaxLeft : queue \in [1..n -> Messages \X {0}]
    BY DEF Init, BoundedSeq, SeqOf
<1>2. n \in Nat /\ n <= QueueLimit /\ Messages \X {0} \subseteq Requests
    BY QueueAssumption DEF Requests
<1>3. queue \in [1..n -> Requests]
    BY <1>1, <1>2
<1>4. queue \in Seq(Requests) /\ Len(queue) = n
    BY <1>2, <1>3, SeqDef
<1>5. QueueOK
    BY <1>2, <1>4 DEF Init, QueueOK, Outcomes
<1>6. LeaseOK
    BY DEF Init, LeaseOK, NoLease
<1>7. TasksOK /\ HoldersHaveRequest
    BY DEF Init, TasksOK, HoldersHaveRequest, Holding
<1>8. CopiesOK
    BY DEF Init, CopiesOK
<1> QED BY <1>5, <1>6, <1>7, <1>8, RowsAreBoth DEF Types, TypeOK

LEMMA StepsKeepTypes == Inv /\ Types /\ [Next]_vars => Types'
<1> SUFFICES ASSUME Inv, Types, [Next]_vars PROVE Types'
    OBVIOUS
<1> USE DEF Types, TypeOK, Shapes
<1>1. CASE UNCHANGED vars
    BY <1>1, RestKeepsRows DEF vars, TasksOK, CopiesOK, HoldersHaveRequest
<1>2. ASSUME NEW r \in Requests, Expire(r) PROVE Types'
    BY <1>2, RestKeepsRows DEF Expire, TasksOK, CopiesOK, HoldersHaveRequest
<1>3. ASSUME NEW t \in Tasks, StartNext(t) PROVE Types'
    <2>1. RowsOK'
        BY <1>3, ClaimKeepsRows, RestKeepsRows DEF StartNext, Pick, Pop, Start
    <2> QED BY <1>3, <2>1, StartingKeepsShapes
<1>4. ASSUME NEW b \in Bridges,
             RunReturns(b) \/ LosesClaim(b) \/ Commit(b) \/ StopRun(b) \/ CloseRun(b)
      PROVE  Types'
    <2>1. CASE Commit(b)
        <3>1. req[Run(b)] \in Requests
            BY <2>1 DEF Commit, HoldersHaveRequest, Holding, Tasks, Run
        <3>2. RowsOK'
            BY <2>1, <3>1, FinishKeepsRows DEF Commit
        <3> QED BY <2>1, <3>2, RunKeepsShapes
    <2>2. CASE RunReturns(b) \/ LosesClaim(b)
        BY <2>2, RestKeepsRows, RunKeepsShapes DEF RunReturns, LosesClaim
    <2>3. CASE StopRun(b) \/ CloseRun(b)
        <3>1. RowsOK'
            BY <2>3, InterruptKeepsRows, RestKeepsRows DEF StopRun, CloseRun, rows
        <3> QED BY <2>3, <3>1, RunKeepsShapes
    <2> QED BY <1>4, <2>1, <2>2, <2>3
<1>5. ASSUME NEW b \in Bridges,
             \/ \E r \in Requests : Submit(b, r) \/ Promote(b, r) \/ Cancel(b, r)
             \/ Enqueue(b) \/ PromoteRow(b) \/ DropRow(b) \/ Resolve(b) \/ Open(b)
             \/ CancelRun(b) \/ AfterCancel(b) \/ Exit(b)
      PROVE  Types'
    <2>1. RowsOK'
        BY <1>5, CommandsKeepRows, RestKeepsRows
           DEF Promote, Cancel, Open, CancelRun, AfterCancel, Exit
    <2> QED BY <1>5, <2>1, CommandsKeepShapes
<1>6. ASSUME NEW b \in Bridges,
             \/ AppendWaiting(b) \/ PromoteWaiting(b) \/ DropWaiting(b) \/ Recover(b)
             \/ Merge(b) \/ Shutdown(b) \/ CloseNext(b) \/ Crash(b)
      PROVE  Types'
    <2>1. RowsOK'
        BY <1>6, CommandsKeepRows, RestKeepsRows
           DEF AppendWaiting, PromoteWaiting, DropWaiting, Recover, Merge, Shutdown, Crash
    <2> QED BY <1>6, <2>1, MemoryKeepsShapes
<1>7. ASSUME NEW b \in Bridges, Works(b) PROVE Types'
    <2>1. Cmd(b) \in Tasks /\ Run(b) \in Tasks
        BY DEF Tasks, Cmd, Run
    <2> QED BY <1>7, <2>1, <1>3, <1>4, <1>5, <1>6 DEF Works
<1>8. ASSUME NEW b \in Bridges, Commanded(b) PROVE Types'
    BY <1>8, <1>4, <1>5, <1>6 DEF Commanded
<1> QED BY <1>1, <1>2, <1>4, <1>6, <1>7, <1>8 DEF Next

(* TypeOK: the queue holds the queued rows, each once and never more than  *)
(* its limit, whatever leaves it, is retried or promoted; and the copies   *)
(* of the bridges hold requests.                                           *)
THEOREM QueueHoldsQueuedRows == Spec => []TypeOK
<1>1. Types => TypeOK
    BY DEF Types
<1> QED BY <1>1, InitTypes, StepsKeepTypes, ClaimsCarryRuns, PTL DEF Spec

=============================================================================
