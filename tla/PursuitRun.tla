----------------------------- MODULE PursuitRun -----------------------------
(***************************************************************************)
(* One Pursuit run: the executors that start and resume it, the PursuitRun *)
(* row and the checkpoint each of them writes back, the action ledger, and *)
(* the background tasks its actions start.                                 *)
(*                                                                         *)
(* The run row, the checkpoint and the ledger are in one database, the run *)
(* lease in another: a fence check and the write it admits are separate    *)
(* transactions, and so are the run row and the checkpoint.  An executor   *)
(* works through `todo`, the fences and writes it has to make before its   *)
(* next decision, one transaction a step; between any two steps another    *)
(* executor may act, the process may crash, and where the code awaits, the *)
(* executor's task may be cancelled.  A write repeated with nothing in     *)
(* between, and a fence repeated at once, are one step.                    *)
(*                                                                         *)
(* Statuses and phases are told apart as far as recovery does: "terminal"  *)
(* is completed, failed, cancelled or budget_exceeded, and "safe" is       *)
(* parse_goal, assess, planned, action_result, waiting and the like.       *)
(* Questions to the user, worktrees and evidence are not in this module.   *)
(***************************************************************************)
EXTENDS Naturals, Sequences

CONSTANTS
    Executors,      \* attempts to execute the run: one starts it, others resume
    NoExecutor,
    Processes,      \* processes that share the workspace
    NoProcess,
    ProcessOf,      \* executor -> its process
    ToolActions,    \* action ids the planner gives to bash_run
    TaskActions,    \* action ids the planner gives to background_run
    DirectActions,  \* action ids given to a file tool or a sub-agent
    LeaseSeconds,
    MaxTime,        \* bound: the wall clock
    MaxIterations,  \* max_iterations of the run
    MaxActions      \* bound: actions of one plan

ASSUME ExecutorsAssumption == NoExecutor \notin Executors
ASSUME ProcessAssumption == ProcessOf \in [Executors -> Processes]
ASSUME ActionsAssumption == /\ ToolActions \cap TaskActions = {}
                            /\ DirectActions \cap (ToolActions \cup TaskActions) = {}
ASSUME BoundsAssumption ==
    LeaseSeconds \in Nat \ {0} /\ MaxTime \in Nat /\ MaxIterations \in Nat

VARIABLES
    lease,      \* the run's row in harness_run_leases (RunLease)
    now,        \* the wall clock
    run,        \* the pursuit_runs row, with its pursuit_waits
    checkpoint, \* the pursuit_checkpoints row
    ledger,     \* pursuit_actions: action key -> state
    attempt,    \* pursuit_recovery_attempts: resuming executor -> state
    task,       \* the background task of an action key
    down,       \* processes that have crashed
    ex,         \* what each executor keeps in memory
    effects,    \* (history) how often the action of a key was carried out
    known       \* (history) keys whose outcome, or error, an executor was told

outside == <<now, task, down, effects, known>>
vars == <<lease, run, checkpoint, ledger, attempt, ex, outside>>

RL == INSTANCE RunLease
          WITH Owners <- Executors, NoOwner <- NoExecutor, Operations <- {},
               receipts <- <<>>, clock <- [e \in Executors |-> now],
               ClocksStepBack <- FALSE, MaxEpoch <- MaxTime + 1

(* A key binds the iteration and the action id; equal ids stand for equal  *)
(* tools and arguments.  It is also the task's idempotency key.            *)
Ids == ToolActions \cup TaskActions \cup DirectActions
Actions == (1..MaxIterations) \X Ids
IsTask(k) == k[2] \in TaskActions
IsDirect(k) == k[2] \in DirectActions
NoAction == <<0, "none">>

NoRun == [status |-> "none", phase |-> "safe", iteration |-> 0, waits |-> {},
          epoch |-> 0]
NoCheckpoint == [seq |-> 0, row |-> NoRun]
NoTask == [status |-> "none", runner |-> NoProcess]
NoDecision == [kind |-> "none", abandon |-> {}, finish |-> {}, waits |-> {}]

(* at, todo: where the executor is, and the boundary it has to complete;   *)
(* mine: its copy of the run row; pending: the tasks it waits for itself;  *)
(* base: the checkpoint it read or wrote last; action, acted: the action in hand, and how many of the plan are   *)
(* done; recovery: the plan is one against stagnation; epoch, lost: its    *)
(* lease session.                                                          *)
Fresh == [at |-> "new", todo |-> <<>>, mine |-> NoRun, pending |-> {},
          base |-> NoCheckpoint, action |-> NoAction, acted |-> 0, recovery |-> FALSE,
          decision |-> NoDecision,
          epoch |-> 0, lost |-> FALSE]

Closed == {"succeeded", "failed"}

-----------------------------------------------------------------------------
Init ==
    /\ lease = RL!MissingLease
    /\ now = 0
    /\ run = NoRun
    /\ checkpoint = NoCheckpoint
    /\ ledger = [k \in Actions |-> "none"]
    /\ attempt = [e \in Executors |-> "none"]
    /\ task = [k \in Actions |-> NoTask]
    /\ down = {}
    /\ ex = [e \in Executors |-> Fresh]
    /\ effects = [k \in Actions |-> 0]
    /\ known = {}

Running(e) == ex[e].at \notin {"new", "done", "gone"}

(* The loop's operation lock: one run operation per process at a time. *)
Busy(e) == \E f \in Executors \ {e} : ProcessOf[f] = ProcessOf[e] /\ Running(f)

At(e, place) == ex[e].at = place /\ ex[e].todo = <<>>
Due(e, step) == ex[e].todo # <<>> /\ Head(ex[e].todo) = step

Becomes(e, r) == ex' = [ex EXCEPT ![e] = r]
Rest(e) == [ex[e] EXCEPT !.todo = Tail(@)]
Goes(e, r, place, steps) == Becomes(e, [r EXCEPT !.at = place, !.todo = steps])
GoesOn(e, place, steps) == Goes(e, ex[e], place, steps)

(* Faulty variants of operators below, for mutation runs: a status written *)
(* to the phase; a checkpoint that may be overwritten under its number; a  *)
(* reconcile that trusts what was dispatched; actions started before the   *)
(* checkpoint says so.                                                     *)
MineSwapped(e, status, phase) ==
    [ex[e] EXCEPT !.mine.status = phase, !.mine.phase = status]
AdmitsAgain(seq) == seq >= checkpoint.seq
AmbiguousNever(e, k) == FALSE

(* The executor's copy of the run row with a new status and phase. *)
Mine(e, status, phase) ==
    [ex[e] EXCEPT !.mine.status = status, !.mine.phase = phase]

(* The executor is on its way out: of its memory only the lease session    *)
(* matters.                                                                *)
Leaving(e, place) ==
    [Fresh EXCEPT !.at = place, !.epoch = ex[e].epoch, !.lost = ex[e].lost]

(* PursuitLeaseLostError: nothing more is written. *)
LosesLease(e) == Becomes(e, [Leaving(e, "close") EXCEPT !.lost = TRUE])

(* Any other error or a cancellation: the lease is closed. *)
Aborts(e) == Becomes(e, Leaving(e, "close"))

-----------------------------------------------------------------------------
(* The steps of a boundary. *)

(* _require_run_lease *)
Fence(e) ==
    /\ Due(e, "fence")
    /\ \/ /\ ~ex[e].lost /\ RL!FenceReason(e, ex[e].epoch, now) = "current"
          /\ Becomes(e, Rest(e))
       \/ /\ ex[e].lost \/ RL!FenceReason(e, ex[e].epoch, now) # "current"
          /\ LosesLease(e)
    /\ UNCHANGED <<lease, run, checkpoint, ledger, attempt, outside>>

(* _persist_run: an upsert that asks only the executor's own session. *)
SaveRun(e) ==
    /\ Due(e, "save")
    /\ \/ /\ ~ex[e].lost
          /\ run' = [ex[e].mine EXCEPT !.epoch = ex[e].epoch]
          /\ Becomes(e, Rest(e))
       \/ /\ ex[e].lost
          /\ LosesLease(e)
          /\ UNCHANGED run
    /\ UNCHANGED <<lease, checkpoint, ledger, attempt, outside>>

(* save_checkpoint: a later sequence number replaces the row.  An equal    *)
(* number is another executor's, with other content.                       *)
Admits(seq) == seq > checkpoint.seq

(* _persist_checkpoint, and _persist_reconciled_checkpoint, which does not *)
(* ask the session.  A refused checkpoint ends the execution: the run row  *)
(* is marked (_mark_checkpoint_error) and the lease closed.                *)
SaveCheckpoint(e) ==
    LET new == [seq |-> ex[e].base.seq + 1,
                row |-> [ex[e].mine EXCEPT !.epoch = ex[e].epoch]]
    IN
    /\ Due(e, "checkpoint") \/ Due(e, "reconciled")
    /\ \/ /\ Due(e, "checkpoint") /\ ex[e].lost
          /\ LosesLease(e)
          /\ UNCHANGED checkpoint
       \/ /\ Due(e, "checkpoint") => ~ex[e].lost
          /\ Admits(new.seq)
          /\ checkpoint' = new
          /\ Becomes(e, [Rest(e) EXCEPT !.base = new])
       \/ /\ Due(e, "checkpoint") => ~ex[e].lost
          /\ ~Admits(new.seq)
          /\ Goes(e, Mine(e, "blocked", "checkpoint_error"), "close", <<"save">>)
          /\ UNCHANGED checkpoint
    /\ UNCHANGED <<lease, run, ledger, attempt, outside>>

(* mark_recovery_attempt_admitted *)
MarkAdmitted(e) ==
    /\ Due(e, "admit")
    /\ attempt' = [attempt EXCEPT ![e] = "admitted"]
    /\ Becomes(e, Rest(e))
    /\ UNCHANGED <<lease, run, checkpoint, ledger, outside>>

BoundaryStep(e) == Fence(e) \/ SaveRun(e) \/ SaveCheckpoint(e) \/ MarkAdmitted(e)

-----------------------------------------------------------------------------
(* Opening and closing the lease session. *)

(* _pursue_locked: the run has a new id, so the lease cannot be refused. *)
Start(e) ==
    /\ \A f \in Executors : At(f, "new")
    /\ ProcessOf[e] \notin down
    /\ RL!Acquire(e, now)
    /\ Goes(e, [Mine(e, "running", "safe") EXCEPT !.epoch = lease'.epoch],
            "parse", <<"fence", "save">>)
    /\ UNCHANGED <<run, checkpoint, ledger, attempt, outside>>

(* resume_persisted: the attempt is recorded before anything is tried;     *)
(* then the run is read, while its present owner may still be at work.     *)
ReadRun(e) ==
    /\ At(e, "new") /\ run # NoRun
    /\ ProcessOf[e] \notin down
    /\ \/ /\ ~Busy(e)
          /\ attempt' = [attempt EXCEPT ![e] = "requested"]
          /\ Goes(e, [ex[e] EXCEPT !.mine = run,
                                    !.pending = run.waits], "read_checkpoint", <<>>)
       \/ /\ Busy(e)
          /\ attempt' = [attempt EXCEPT ![e] = "closed"]
          /\ GoesOn(e, "done", <<>>)
    /\ UNCHANGED <<lease, run, checkpoint, ledger, outside>>

ReadCheckpoint(e) ==
    /\ At(e, "read_checkpoint")
    /\ IF ex[e].mine.phase = "checkpoint_error" \/ ex[e].mine.status = "terminal"
       THEN Becomes(e, Leaving(e, "settle"))
       ELSE Goes(e, [ex[e] EXCEPT !.base = checkpoint], "open", <<>>)
    /\ UNCHANGED <<lease, run, checkpoint, ledger, attempt, outside>>

(* _open_run_lease, and the fence "resume-start". *)
OpenLease(e) ==
    /\ At(e, "open")
    /\ \/ /\ RL!Acquire(e, now)
          /\ Goes(e, [ex[e] EXCEPT !.epoch = lease'.epoch], "collect", <<"fence">>)
       \/ /\ ~RL!MayAcquire(e, now)
          /\ Becomes(e, Leaving(e, "settle"))
          /\ UNCHANGED lease
    /\ UNCHANGED <<run, checkpoint, ledger, attempt, outside>>

(* The keepalive of the session (renew_now). *)
Renew(e) ==
    /\ Running(e) /\ ex[e].epoch > 0 /\ ~ex[e].lost
    /\ \/ RL!Renew(e, ex[e].epoch, now) /\ UNCHANGED ex
       \/ /\ ~RL!Holds(e, ex[e].epoch, now)
          /\ Becomes(e, [ex[e] EXCEPT !.lost = TRUE])
          /\ UNCHANGED lease
    /\ UNCHANGED <<run, checkpoint, ledger, attempt, outside>>

(* _close_run_lease *)
Close(e) ==
    /\ At(e, "close")
    /\ \/ /\ ~ex[e].lost /\ RL!Release(e, ex[e].epoch, now)
       \/ /\ ex[e].lost \/ ~RL!Holds(e, ex[e].epoch, now)
          /\ UNCHANGED lease
    /\ Becomes(e, [Fresh EXCEPT !.at = IF attempt[e] = "none" THEN "done" ELSE "settle"])
    /\ UNCHANGED <<run, checkpoint, ledger, attempt, outside>>

(* _resolve_recovery_attempt, _fail_recovery_attempt *)
Settle(e) ==
    /\ At(e, "settle")
    /\ attempt' = [attempt EXCEPT ![e] = "closed"]
    /\ GoesOn(e, "done", <<>>)
    /\ UNCHANGED <<lease, run, checkpoint, ledger, outside>>

SessionStep(e) ==
    \/ Start(e) \/ ReadRun(e) \/ ReadCheckpoint(e) \/ OpenLease(e)
    \/ Renew(e) \/ Close(e) \/ Settle(e)

-----------------------------------------------------------------------------
(* Resuming: background results, then what was in flight, then admission. *)

Finished(ks) == {k \in ks : task[k].status = "finished"}

(* _collect_background_results, in a resume and at the start of each       *)
(* iteration: each result goes to the ledger behind a fence of its own; a  *)
(* run that waits for nothing more runs again.                             *)
Collect(e) ==
    LET next == IF ex[e].at = "collect" THEN "collected" ELSE "gathered" IN
    /\ \/ At(e, "collect")
       \/ At(e, "iterate") /\ ex[e].mine.iteration < MaxIterations
    /\ ex[e].pending # {}
    /\ GoesOn(e, next, IF \E k \in Finished(ex[e].pending) : ledger[k] \notin Closed
                       THEN <<"fence">> ELSE <<>>)
    /\ UNCHANGED <<lease, run, checkpoint, ledger, attempt, outside>>

RecordCollected(e) ==
    LET got   == Finished(ex[e].pending)
        waits == ex[e].pending \ got
        mine  == IF waits = {} /\ ex[e].mine.status = "waiting"
                 THEN Mine(e, "running", "safe") ELSE ex[e]
    IN
    /\ At(e, "collected") \/ At(e, "gathered")
    /\ ledger' = [k \in Actions |->
                     IF k \in got /\ ledger[k] \notin Closed
                     THEN "succeeded" ELSE ledger[k]]
    /\ known' = known \cup got
    /\ Goes(e, [mine EXCEPT !.mine.waits = waits, !.pending = waits],
            IF ex[e].at = "collected" THEN "reconcile" ELSE "begin",
            <<"fence", "save">>)
    /\ UNCHANGED <<lease, run, checkpoint, attempt, now, task, down, effects>>

(* decide_background_reconcile: actions that were only prepared are        *)
(* abandoned, a finished task closes its action, a task still running      *)
(* under this process is waited for; all else may have had an effect.      *)
InFlight(e) == ex[e].mine.phase = "action_inflight"
            \/ ex[e].base.row.phase = "action_inflight"

Recorded(e) == {k \in Actions : k[1] = ex[e].base.row.iteration /\ ledger[k] # "none"}

(* legacy_unknown *)
Unrecorded(e) == Recorded(e) = {}

Managed(e, k) == task[k].status = "running" /\ task[k].runner = ProcessOf[e]

(* Dispatched, and neither finished nor running where this process sees it. *)
Ambiguous(e, k) == ~Managed(e, k) /\ task[k].status # "finished"

ReconcileDecision(e) ==
    LET open    == {k \in Recorded(e) : ledger[k] \in {"dispatched", "waiting"}}
        blocked == Unrecorded(e) \/ \E k \in open : Ambiguous(e, k)
        waits   == {k \in open : Managed(e, k)}
    IN [kind    |-> IF blocked THEN "blocked"
                    ELSE IF waits # {} THEN "waiting" ELSE "continue",
        abandon |-> {k \in Recorded(e) : ledger[k] = "prepared"},
        finish  |-> Finished(open),
        waits   |-> waits]

Reconcile(e) ==
    /\ \/ At(e, "reconcile")
       \/ At(e, "collect") /\ ex[e].pending = {}
    /\ IF InFlight(e) /\ ex[e].base # NoCheckpoint
       THEN Goes(e, [ex[e] EXCEPT !.decision = ReconcileDecision(e)],
                 "apply", <<"fence">>)
       ELSE GoesOn(e, "commit", <<"fence">>)
    /\ UNCHANGED <<lease, run, checkpoint, ledger, attempt, outside>>

(* _apply_reconcile_action_updates.  The ledger refuses to abandon an      *)
(* action that was dispatched, and to close an action a second time.       *)
Refused(d) ==
    \/ \E k \in d.abandon : ledger[k] \in {"dispatched", "waiting", "succeeded"}
    \/ \E k \in d.finish : ledger[k] \notin {"dispatched", "waiting"}

ApplyReconcile(e) ==
    LET d == ex[e].decision
        settled == [ex[e] EXCEPT !.decision = NoDecision, !.mine.waits = d.waits,
                                !.pending = d.waits]
    IN
    /\ At(e, "apply")
    /\ \/ /\ Refused(d)
          /\ Aborts(e)
          /\ UNCHANGED <<ledger, known>>
       \/ /\ ~Refused(d)
          /\ ledger' = [k \in Actions |->
                           IF k \in d.abandon THEN "failed"
                           ELSE IF k \in d.finish THEN "succeeded" ELSE ledger[k]]
          /\ known' = known \cup d.finish
          /\ \/ /\ d.kind = "blocked"
                /\ Goes(e, [settled EXCEPT !.mine.waits = {}, !.pending = {}],
                        "commit", <<"save", "fence">>)
             \/ /\ d.kind = "waiting"
                /\ Goes(e, [settled EXCEPT !.mine.status = "waiting",
                                           !.mine.phase = "safe"],
                        "commit", <<"save", "fence">>)
             \/ /\ d.kind = "continue"
                /\ Goes(e, [settled EXCEPT !.mine.status = "running",
                                           !.mine.phase = "safe",
                                           !.pending = ex[e].pending],
                        "commit", <<"save", "reconciled", "fence">>)
    /\ UNCHANGED <<lease, run, checkpoint, attempt, now, task, down, effects>>

(* _checkpoint_resume_blocker *)
ResumeBlocked(e) ==
    \/ ex[e].base = NoCheckpoint
    \/ ex[e].base.row.iteration # ex[e].mine.iteration
    \/ ex[e].base.row.status = "terminal"
    \/ InFlight(e)

(* Behind the fence "resume-commit": the run goes on waiting; or it is     *)
(* blocked, with the checkpoint left as it is                              *)
(* (_record_recovery_boundary_owned); or the checkpoint is restored and    *)
(* the attempt admitted.                                                   *)
CommitResume(e) ==
    LET waits == ex[e].pending IN
    /\ At(e, "commit")
    /\ \/ /\ waits # {}
          /\ Goes(e, [Mine(e, "waiting", "safe") EXCEPT !.mine.waits = waits],
                  "close", <<"save", "reconciled", "save">>)
       \/ /\ waits = {} /\ ResumeBlocked(e)
          /\ Goes(e, Mine(e, "blocked", "safe"), "close", <<"save">>)
       \/ /\ waits = {} /\ ~ResumeBlocked(e)
          /\ Goes(e, Mine(e, "running", "safe"), "iterate",
                  <<"save", "checkpoint", "admit", "fence", "save", "checkpoint",
                    "fence">>)
    /\ UNCHANGED <<lease, run, checkpoint, ledger, attempt, outside>>

ResumeStep(e) ==
    \/ Collect(e) \/ RecordCollected(e) \/ Reconcile(e) \/ ApplyReconcile(e)
    \/ CommitResume(e)

-----------------------------------------------------------------------------
(* _pursue_under_lease: the loop. *)

ParseGoal(e) ==
    /\ At(e, "parse")
    /\ GoesOn(e, "iterate", <<"fence", "save", "checkpoint", "fence", "checkpoint",
                              "fence">>)
    /\ UNCHANGED <<lease, run, checkpoint, ledger, attempt, outside>>

(* A new iteration is in the run row before it is assessed, and in the     *)
(* checkpoint after.                                                       *)
BeginIteration(e) ==
    /\ \/ At(e, "iterate") /\ ex[e].pending = {}
       \/ At(e, "begin")
    /\ ex[e].mine.iteration < MaxIterations
    /\ Goes(e, [ex[e] EXCEPT !.mine.iteration = @ + 1, !.acted = 0], "assessed",
            <<"save", "fence", "save", "checkpoint">>)
    /\ UNCHANGED <<lease, run, checkpoint, ledger, attempt, outside>>

(* _record_boundary_owned: the run is cancelled, out of budget, completed, *)
(* or has no way forward.                                                  *)
Stop(e) ==
    /\ At(e, "iterate") \/ At(e, "assessed")
    /\ \E status \in {"terminal", "blocked"} :
          Goes(e, Mine(e, status, "safe"), "close", <<"fence", "save", "checkpoint">>)
    /\ UNCHANGED <<lease, run, checkpoint, ledger, attempt, outside>>

(* plan, planned, then action_inflight before anything is dispatched; a    *)
(* run that makes no progress gets a recovery plan instead.                *)
Plan(e) ==
    /\ At(e, "assessed")
    /\ \/ GoesOn(e, "planned", <<"save", "fence", "save", "checkpoint", "fence">>)
       \/ Goes(e, [ex[e] EXCEPT !.recovery = TRUE], "planned",
               <<"save", "fence", "checkpoint", "fence">>)
    /\ UNCHANGED <<lease, run, checkpoint, ledger, attempt, outside>>

GoInFlight(e) ==
    /\ At(e, "planned")
    /\ Goes(e, [ex[e] EXCEPT !.mine.phase = "action_inflight"], "act",
            <<"save", "checkpoint">>)
    /\ UNCHANGED <<lease, run, checkpoint, ledger, attempt, outside>>

(* All results are in (a cancelled run skips the actions that are left). *)
FinishActions(e) ==
    /\ At(e, "act")
    /\ Goes(e, [ex[e] EXCEPT !.mine.phase = "safe"], "result",
            <<"fence", "save", "checkpoint">>)
    /\ UNCHANGED <<lease, run, checkpoint, ledger, attempt, outside>>

(* The run waits for the tasks this plan started, or verifies and goes on; *)
(* after a recovery plan it goes on although tasks may be running.         *)
AfterActions(e) ==
    LET started == {k \in ex[e].pending : k[1] = ex[e].mine.iteration} IN
    /\ At(e, "result")
    /\ \/ /\ ~ex[e].recovery /\ started # {}
          /\ Goes(e, [ex[e] EXCEPT !.mine.status = "waiting",
                                   !.mine.waits = ex[e].pending],
                  "close", <<"fence", "save", "checkpoint">>)
       \/ /\ ~ex[e].recovery /\ started = {}
          /\ GoesOn(e, "iterate", <<"save", "fence", "checkpoint", "fence">>)
       \/ /\ ex[e].recovery
          /\ Goes(e, [ex[e] EXCEPT !.recovery = FALSE], "iterate", <<"fence">>)
    /\ UNCHANGED <<lease, run, checkpoint, ledger, attempt, outside>>

LoopStep(e) ==
    \/ ParseGoal(e) \/ BeginIteration(e) \/ Stop(e) \/ Plan(e) \/ GoInFlight(e)
    \/ FinishActions(e) \/ AfterActions(e)

-----------------------------------------------------------------------------
(* _execute_actions: one action at a time.  Shell commands and background  *)
(* tasks go through the ledger; file tools and sub-agents go straight to   *)
(* the effect, without a fence.                                            *)

NextAction(e) ==
    /\ At(e, "act") /\ ex[e].acted < MaxActions
    /\ \E id \in Ids :
          LET k == <<ex[e].mine.iteration, id>>
              chosen == [ex[e] EXCEPT !.action = k, !.acted = @ + 1]
          IN \/ ~IsDirect(k) /\ Goes(e, chosen, "prepare", <<"fence">>)
             \/ IsDirect(k) /\ Goes(e, chosen, "carry_out", <<>>)
    /\ UNCHANGED <<lease, run, checkpoint, ledger, attempt, outside>>

(* The key's action is over for this executor, with a result or an error. *)
Answered(e) == Goes(e, [ex[e] EXCEPT !.action = NoAction], "act", <<>>)

(* prepare_action and _existing_action_result: a known receipt is reused;  *)
(* an action dispatched before is refused, unless it is a task, whose      *)
(* runner recognises the key.                                              *)
Prepare(e) ==
    LET k == ex[e].action IN
    /\ At(e, "prepare")
    /\ \/ /\ ledger[k] \in {"none", "prepared"}
          /\ ledger' = [ledger EXCEPT ![k] = "prepared"]
          /\ GoesOn(e, "dispatch", <<"fence">>)
       \/ /\ ledger[k] = "dispatched" /\ IsTask(k)
          /\ GoesOn(e, "carry_out", <<>>)
          /\ UNCHANGED ledger
       \/ /\ \/ ledger[k] = "dispatched" /\ ~IsTask(k)
             \/ ledger[k] \in Closed \cup {"waiting"}
          /\ Answered(e)
          /\ UNCHANGED ledger
    /\ UNCHANGED <<lease, run, checkpoint, attempt, outside>>

(* mark_action_dispatched: from prepared, or again without a change. *)
Dispatch(e) ==
    LET k == ex[e].action IN
    /\ At(e, "dispatch")
    /\ \/ /\ ledger[k] \in {"prepared", "dispatched"}
          /\ ledger' = [ledger EXCEPT ![k] = "dispatched"]
          /\ GoesOn(e, "carry_out", <<>>)
       \/ /\ ledger[k] \notin {"prepared", "dispatched"}
          /\ Answered(e)
          /\ UNCHANGED ledger
    /\ UNCHANGED <<lease, run, checkpoint, attempt, outside>>

(* A shell command, a file tool or a sub-agent takes effect, and then      *)
(* returns or raises.  An exception leaves the action dispatched.          *)
RunTool(e) ==
    LET k == ex[e].action IN
    /\ At(e, "carry_out") /\ ~IsTask(k)
    /\ effects' = [effects EXCEPT ![k] = @ + 1]
    /\ GoesOn(e, "returning", <<>>)
    /\ UNCHANGED <<lease, run, checkpoint, ledger, attempt, now, task, down, known>>

(* A faulty variant of ToolReturns, for mutation runs: a command that      *)
(* raises is run once more on the spot, past the ledger.                   *)
ToolReturnsOrRetries(e) ==
    LET k == ex[e].action IN
    /\ At(e, "returning")
    /\ known' = known \cup {k}
    /\ \/ ~IsDirect(k) /\ GoesOn(e, "record", <<"fence">>)
       \/ GoesOn(e, "carry_out", <<>>)
    /\ UNCHANGED <<lease, run, checkpoint, ledger, attempt, now, task, down, effects>>

ToolReturns(e) ==
    LET k == ex[e].action IN
    /\ At(e, "returning")
    /\ known' = known \cup {k}
    /\ \/ ~IsDirect(k) /\ GoesOn(e, "record", <<"fence">>)
       \/ Answered(e)
    /\ UNCHANGED <<lease, run, checkpoint, ledger, attempt, now, task, down, effects>>

(* The runner has a task under this idempotency key. *)
Recognised(k) == task[k] # NoTask

(* background_run: the runner knows the key, starts the task, or reports   *)
(* that it could not; or the call raises although the task was started.    *)
RunTask(e) ==
    LET k == ex[e].action
        StartsTask ==
            /\ ~Recognised(k)
            /\ task' = [task EXCEPT ![k] = [status |-> "running",
                                            runner |-> ProcessOf[e]]]
            /\ effects' = [effects EXCEPT ![k] = @ + 1]
        HasTask == Recognised(k) /\ UNCHANGED <<task, effects>>
    IN
    /\ At(e, "carry_out") /\ IsTask(k)
    /\ \/ /\ StartsTask \/ HasTask
          /\ GoesOn(e, "started", <<"fence">>)
          /\ UNCHANGED known
       \/ /\ ~Recognised(k)
          /\ GoesOn(e, "record", <<"fence">>)
          /\ UNCHANGED <<task, effects, known>>
       \/ /\ StartsTask \/ HasTask
          /\ Answered(e)
          /\ known' = known \cup {k}
    /\ UNCHANGED <<lease, run, checkpoint, ledger, attempt, now, down>>

(* mark_action_waiting, and the run row that names the task. *)
RecordStarted(e) ==
    LET k == ex[e].action
        waits == ex[e].pending \cup {k}
    IN
    /\ At(e, "started")
    /\ \/ /\ ledger[k] \in {"dispatched", "waiting"}
          /\ ledger' = [ledger EXCEPT ![k] = "waiting"]
          /\ Goes(e, [ex[e] EXCEPT !.action = NoAction, !.pending = waits,
                                   !.mine.waits = waits],
                  "act", <<"save">>)
       \/ /\ ledger[k] \notin {"dispatched", "waiting"}
          /\ Answered(e)
          /\ UNCHANGED ledger
    /\ UNCHANGED <<lease, run, checkpoint, attempt, outside>>

(* mark_action_terminal: refused unless the action is open. *)
RecordResult(e) ==
    LET k == ex[e].action
        open == ledger[k] \in {"dispatched", "waiting"}
    IN
    /\ At(e, "record")
    /\ \E result \in Closed :
          ledger' = [ledger EXCEPT ![k] = IF open THEN result ELSE @]
    /\ Answered(e)
    /\ UNCHANGED <<lease, run, checkpoint, attempt, outside>>

ActionStep(e) ==
    \/ NextAction(e) \/ Prepare(e) \/ Dispatch(e) \/ RunTool(e) \/ ToolReturns(e)
    \/ RunTask(e) \/ RecordStarted(e) \/ RecordResult(e)

-----------------------------------------------------------------------------
(* The world. *)

(* The executor's asyncio task is cancelled where it awaits. *)
Awaits(e) ==
    \/ Due(e, "fence")
    \/ \E place \in {"parse", "open", "collect", "iterate", "assessed", "act",
                     "carry_out", "returning"} :
          At(e, place)

Cancel(e) ==
    /\ Awaits(e)
    /\ Aborts(e)
    /\ UNCHANGED <<lease, run, checkpoint, ledger, attempt, outside>>

Crash(p) ==
    /\ p \notin down
    /\ \/ \E e \in Executors : ProcessOf[e] = p /\ Running(e)
       \/ \E k \in Actions : task[k].status = "running" /\ task[k].runner = p
    /\ down' = down \cup {p}
    /\ ex' = [e \in Executors |->
                 IF ProcessOf[e] = p /\ Running(e)
                 THEN [Fresh EXCEPT !.at = "gone"] ELSE ex[e]]
    /\ UNCHANGED <<lease, run, checkpoint, ledger, attempt, now, task, effects, known>>

TaskFinishes(k) ==
    /\ task[k].status = "running" /\ task[k].runner \notin down
    /\ task' = [task EXCEPT ![k].status = "finished"]
    /\ UNCHANGED <<lease, run, checkpoint, ledger, attempt, ex, now, down, effects, known>>

Tick ==
    /\ now < MaxTime
    /\ now' = now + 1
    /\ UNCHANGED <<lease, run, checkpoint, ledger, attempt, ex, task, down, effects, known>>

Next ==
    \/ \E e \in Executors :
          \/ BoundaryStep(e) \/ SessionStep(e) \/ ResumeStep(e)
          \/ LoopStep(e) \/ ActionStep(e) \/ Cancel(e)
    \/ \E p \in Processes : Crash(p)
    \/ \E k \in Actions : TaskFinishes(k)
    \/ Tick

Spec == Init /\ [][Next]_vars

-----------------------------------------------------------------------------
(* Every variable has the shape of the row or of the memory it stands for. *)
Row == [status : {"none", "running", "waiting", "blocked", "terminal"},
        phase : {"safe", "action_inflight", "checkpoint_error"},
        iteration : 0..MaxIterations, waits : SUBSET Actions, epoch : Nat]

TypeOK ==
    /\ lease \in RL!Lease
    /\ now \in 0..MaxTime
    /\ run \in Row
    /\ checkpoint \in [seq : Nat, row : Row]
    /\ ledger \in [Actions -> {"none", "prepared", "dispatched", "waiting"} \cup Closed]
    /\ attempt \in [Executors -> {"none", "requested", "admitted", "closed"}]
    /\ \A k \in Actions : task[k].status \in {"none", "running", "finished"}
    /\ down \subseteq Processes
    /\ \A e \in Executors : ex[e].mine \in Row /\ ex[e].pending \subseteq Actions
                            /\ ex[e].base \in [seq : Nat, row : Row]
    /\ known \subseteq Actions

(* No action of the ledger is carried out twice: whatever executors crash, *)
(* stall past their lease, or start from a stale snapshot, a command never *)
(* runs a second time under the same key and no second task is started.    *)
ActionsRunOnce == \A k \in Actions : ~IsDirect(k) => effects[k] <= 1

(* A checkpoint that a resume may continue from leaves no effect behind    *)
(* unaccounted: of every action of the ledger carried out in its           *)
(* iteration, some executor was told the outcome, or the run or checkpoint *)
(* waits for it.                                                           *)
SafeCheckpointsAreAccounted ==
    checkpoint.row.phase = "safe" =>
        \A k \in Actions :
            k[1] = checkpoint.row.iteration /\ ~IsDirect(k) /\ effects[k] > 0
                => k \in known \cup run.waits \cup checkpoint.row.waits

(* Checkpoints are written in the order of the lease epochs: once an owner *)
(* has written one, no earlier owner overwrites it.                        *)
CheckpointsFollowEpochs ==
    [][checkpoint'.row.epoch >= checkpoint.row.epoch]_checkpoint

(* When the checkpoint is terminal, the run row says the same. *)
TerminalAgrees ==
    checkpoint.row.status = "terminal" => run.status = "terminal"

=============================================================================
