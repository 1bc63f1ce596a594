# A verification project for NaumiAgent

NaumiAgent is a local agent system (Python 3, `src/src/naumi_agent/`): a conversation
engine with tools, background commands, sub-agents, an autonomous goal loop called
*Pursuit*, a durable "Harness" store, worker daemons, release slots, and several user
interfaces. Most of its 650 000 lines are presentation, provider calls and record types.
What can go wrong without anybody noticing is its *long-running execution authority*: who may
continue a piece of work, what is recorded before an effect and after it, and what a process that
comes back after a crash believes. That is what this project is about.

Paths below are relative to `src/src/naumi_agent/`, documents (`docs/`) to `src/`.

## 1. Inventory

`PROJECT.json` lists every component with its files. The parts with behaviour of their own:

| Component | State it keeps | Operations | Hard behaviour | Correct when |
|---|---|---|---|---|
| Run lease authority (`harness/run_lease.py`, `harness/store.py`) | one row per run: owner, epoch, state, three times; one receipt per fenced operation id | acquire, renew, release, record fence decision | owners present their own clock readings; readings are old when the write lock comes; retries | an epoch has one owner; results of different epochs do not interleave; a promised lease is not shortened |
| Pursuit lease session (`orchestrator/pursuit_lease.py`, `harness/heartbeat.py`) | its copy of the lease, fence and heartbeat counters, the keepalive task | acquire, renew_now, require_current, close | two tasks of one session, one write lock, two rows written in two transactions, cancellation, failing store | a session is lost only for cause; the heartbeat follows the lease; close() ends |
| Pursuit loop (`orchestrator/pursuit.py`) | its copy of the run row, pending waits, checkpoint number | pursue, resume_persisted, the iteration and its boundaries, execution of actions | crash or cancellation between any two writes; a stalled owner; a resume next to a live owner | no action is carried out twice; no effect is forgotten; the durable rows agree |
| Pursuit store (`orchestrator/pursuit_store.py`, `..._checkpoint.py`, `..._action_ledger.py`) | run rows, checkpoints, action ledger, recovery attempts, terminal outbox | save_run, save_checkpoint, action transitions, attempts | each is a transaction of its own in another database than the lease | checkpoints only move forward; the ledger is monotone |
| Reconcile (`orchestrator/pursuit_reconcile.py`) | none | a decision from the ledger and the tasks | partial knowledge after a crash | everything ambiguous blocks |
| Background tasks (`background/`) | `tasks.json`, the processes and watchers of each runner | run, cancel, cleanup, shutdown, collect, watch | task objects read before an await and saved after it; processes that outlive the runtime; keys raced by two runners | a key starts one process; records tell what runs |
| Recovery attempts (`pursuit_recovery_attempt.py`, `pursuit_recovery_reconcile.py`) | attempt rows | request, admit, resolve, fail, reconcile an orphan | an executor that was taken for dead comes back | one outcome per attempt |
| Terminal outbox (`pursuit_terminal_outbox*.py`, dead letters) | outbox entries, claims, failure heads, dead letters | enqueue, claim, deliver, defer, requeue, abandon | workers that die with a claim or outlive it, waits that must not count as failures | every end is delivered or handed to a person |
| Conversation queue (`harness/conversation_queue_runtime.py`, `ui/bridge.py`) | queued messages; each bridge a copy in memory | enqueue, promote, claim, finish, cancel, resolve, recover | cancellation and death at every await, claims that expire under a run | a message runs once, and not after it was cancelled |
| Agent jobs (`daemons/agent_jobs.py`, `orchestrator/subagent_manager.py`) | job rows with claims, a FIFO of waiters, publications of results with receipts | admit, claim, start, finish, publish, release, quarantine | capacity shared by processes; claims that expire; delegations cancelled inside a commit; claims started after they have expired | no counted place is given away; waiters are served; every result is delivered or quarantined |
| User interactions (`harness/interaction*.py`) | questions and answers | ask, answer, expire, cancel | an answer racing the expiry | one outcome, seen by the run that asked |
| Worker registry and jobs (`daemons/`) | registrations, jobs, results | register, heartbeat, claim, finish, supersede | restarted workers, late results | results only of the current claim |
| Task list, scheduler, process lock, message bus | small stores | | stale locks, due times, concurrent owners | |
| Release slots (`release/slots.py`) | installed versions, the active link | stage, activate, roll back | a crash during a switch | there is always a version that can start |

How they interact: the loop opens a lease session on the Harness store, writes its rows to the
Pursuit store, and starts tasks through the background runner with the action's dispatch token as
idempotency key; a resume asks the ledger, the runner and the checkpoint what has happened. The
lease database and the Pursuit database share no transaction, and `tasks.json` is a third place.
A resumed run leaves an attempt row behind; when the run ends, the store puts the end into an outbox
in the transaction of the last checkpoint, and workers and people who find an attempt without a live
executor take the run's lease to close it. The conversation queue takes its claims from the same run
lease authority. Agent jobs bring a claim of their own of the same kind (owner, epoch, expiry), once
for the execution and once for the delivery of its result. Everything hard lies in these seams.

## 2. Modules

| Module | Models | State and actions |
|---|---|---|
| `FencedOwnership` | what the lease authority promises, without rows, receipts or clocks | a tenure (holder, epoch, window) and the set of committed results; `Begin`, `Extend`, `End`, `Commit` |
| `RunLease` | the four store operations, each one transaction | `lease` is the row, `receipts` the fence ledger, `clock[o]` the reading owner `o` will present; `Acquire`, `Renew`, `Release`, `RecordFence`, `RetryFence`, `Tick` |
| `PursuitLease` | one session per attempt to execute the run; instantiates `RunLease` for the store | per session the executor's task and the keepalive, the clock reading each works with, the queue of the write lock, the copies of epoch and counters; the `harness_heartbeats` row |
| `PursuitRun` | the executors of one run; instantiates `RunLease` for the fence | `run`, `checkpoint`, `ledger`, `attempt`, `task` are the durable rows; `ex[e]` is what an executor keeps in memory |
| `PursuitRecovery` | the end of a resumed run: attempts, outbox, workers and people who reconcile | `run`, `recorded`, `checkpoint`, `attempt`, `box`, `lease`, `beat` are rows; `ex[a]` the executor of an attempt, `rc[r]` a pass of a worker or a person |
| `BackgroundTasks` | runner, watcher and `tasks.json` | `tasks` are the records, `proc` the processes, `call` the calls in progress with the object each holds across its await |
| `ConversationQueue` | the durable queue, its claims, and the bridges | `outcome`, `queue`, `lease` are rows; `waiting` the copy of a bridge; `at`, `req` where its command task and its run task are |
| `AgentJobs` | jobs under a shared capacity, their delegations, publications and recovery workers | `job`, `fifo`, `pub`, `outbox` are rows; `at`, `home` the delegation of a job; `worker[r]` the recovery worker of a runtime |
| `RunLeaseProofs`, `PursuitLeaseProofs`, `PursuitRunProofs`, `BackgroundTasksProofs`, `BackgroundRunnerProofs`, `ConversationQueueProofs`, `AgentJobsProofs`, `PursuitRecoveryProofs` | theorems about the module of that name; `BackgroundRunnerProofs` about `BackgroundTasks` with one runner | |
| `*MC` | constants and symmetry for TLC | |

Common to all: a step is what a task does between two awaits, and a store operation is one
transaction. Between any two steps another task may act, the process may die and, where the code
awaits something that may be cancelled, the task may be cancelled. Variables marked *history* do not
exist in the code. Definitions marked "faulty variant" are bugs a change might introduce; only the
mutation runs of `PROJECT.json` use them, to show that a property notices.

**RunLease.** An owner presents a clock reading with each call; readings of different owners may
differ, and with `ClocksStepBack` a clock may be set back (`Tick`).

**PursuitRun.** The code of the loop is a sequence of *boundaries*: fence, write the run row,
write the checkpoint. In the module an executor decides at a *place* (`at`) and then has a list of
steps to do (`todo`, of `"fence"`, `"save"`, `"checkpoint"`, ...), each one transaction. `pending` is
`_pending_background` and `mine` is `self._run`: the code keeps the waits in both, and they
differ for a while. A shell command takes effect in one step (`RunTool`) and its result is learned
in another (`ToolReturns`); a background task belongs to the process that started it. `known` and
`effects` are history. The statuses and phases are those that recovery tells apart. An executor on
its way out forgets what it will not use again (`Leaving`), which saves four fifths of the states.

**PursuitLease.** The asyncio lock around the store's writes is a queue of requests; a task reads its
clock before it joins the queue, as the code does. `close()` cancels the keepalive and is then
`"closing"`, until the keepalive has ended where the cancellation meets it (`KeepaliveEnds`): asleep, in
the queue, or in a transaction, which is rolled back or committed without anybody learning of it. Only
then does `close()` look whether there is a lease to release (`GiveUp`).

**PursuitRecovery.** Time is not a number here. What the code compares with an admission is a set
of attempts admitted before (`recorded[d]`, `checkpoint.after`); what a deadline decides is a flag
that an action of the clock flips (`GraceOver`, `BoxDue`, `ClaimExpires`, `ExpireLease`, `BeatStale`).
A reconciler reads its clock once and uses the reading throughout its pass, so `old` and `late` tell
what has changed since, and `ahead` that an owner has sent a heartbeat since (`OwnerBeats`): the keepalive
of an executor does so at any time (`KeepAlive`). To the pass such a heartbeat comes from the future
(`Overtaken`), which the code takes for a clock that was set back and charges as a failure. A boundary decision is content-addressed: storing an equal one again keeps
the first row and its time, which is why `recorded` is kept per decision.

**BackgroundTasks.** asyncio runs a call or watcher without interruption from await to await.
`cancel`, `cleanup` and `run` save the task object that they read or made before the await.

**ConversationQueue.** A bridge has two tasks: commands are handled one after the other, and the run
in progress starts the next message at its end. The claim of a message is a run lease under the
message's request id. A retry that a user decides on has the id that follows from the request it
retries. A queue may hold what a dead process left in it (`Init`). `cancel_run` picks the run task, awaits
its acknowledgement and only then cancels (`CancelRun`, `StopRun`); the run may have ended meanwhile, and
when the next one has taken its place, the cancellation misses that one (`"stop late"`).

**AgentJobs.** `holders[j]` is who was given the epoch of a publication's live claim: worker and
delegation of one runtime claim under one owner and so share it. A failed delivery is one step with
the release or quarantine that follows it, since a failed one changes nothing. `Goes` and `Ends` say what a
cancellation in the await of a commit does: the transaction commits, and the coroutine leaves. A caller
reads the clock before it waits for the write lock, so an operation may judge a claim live that has
expired in the wait. `Start` starts such a claim and remembers the job in `late` (history); `RenewLate` and
`Finish` accept a claim that has expired since the reading (`JudgedLive`), unless the job was started late,
for then every later reading is past the expiry. `Admit` may count a claim that has expired since. A publication claim
judged by an old reading behaves as one that expires later, since only another claim with its new epoch
takes it away. `LateReceipts` adds what old readings do to the times of publication receipts.

## 3. Runs

| Run | Bounds | Shows |
|---|---|---|
| `RunLeaseAuthority` | 2 owners, 2 operations, clocks 0..3, lease 2, 2 epochs | types; one owner per epoch, no interleaving of epochs, epochs advance, leases are not shortened; the refinement of `FencedOwnership` |
| `PursuitLease` | 2 sessions, lease 2, renewal every 1, clock 0..3, one fence each, one store failure | `LossHasCause`, `HeartbeatMatchesLease`, `HeartbeatMovesOn`, `ChecksFollowEpochs`, and `ClosingEnds` under fairness, from the moment `close()` awaits the keepalive |
| `PursuitRunTakeover` | 2 executors in 2 processes, a shell and a task action, one iteration, one action, clock 0..1, lease 1 | `ActionsRunOnce`, `CheckpointsFollowEpochs` |
| `PursuitRunOneProcess` | 2 executors in one process, shell, task and file actions, two iterations of two actions | `SafeCheckpointsAreAccounted` |
| `PursuitRecoveryAttempts` | 2 attempts, 1 person, no worker, one way to end, no faults | `ClosedIffDelivered`, `TerminalHasOutbox`, `AtMostOnePending`, `OutcomesStay` |
| `PursuitRecoveryWorkers` | 1 attempt, 2 workers, two ways to end, a retry budget of 2, 2 faults, 1 requeue | `ClaimsAreKept`, `DecidedAtRest`, `DeadLetterHasCause`, and `PendingSettles` under fairness |
| `BackgroundTasks` | 1 runner, 1 key and unkeyed tasks, 2 calls at once, all operations, 2 tasks, 2 processes | `KeyStartsOneProcess`, `FinishedIsStopped`, `RunningIsWatched`, and `TasksEnd` under fairness |
| `ConversationQueue` | 2 bridges, 2 messages, either or both left behind by a dead process, no retries | `RunsOnce`, `UnsentNeverRuns`, `OutcomesStay` |
| `ConversationQueueRetries` | 1 bridge, 2 messages, one retry each, one left behind | `OneVersionQueued`, and `CommandsEnd` under fairness |
| `AgentJobs` | 2 runtimes, 2 jobs of which one's result cannot be delivered, capacity 1, 1 waiter, 2 attempts | `CapacityHeld`, and `WaitersAreServed`, `PublicationsSettle` under fairness |

Two owners are enough for the lease: every operation compares one presenter with one row, and what
came before the row is in the receipts. Two operations allow every pair of results. Two epochs are a
takeover; the proofs cover more, and clocks that are set back. One clock step is enough in
`PursuitRun`: it makes the lease of the first owner expire, which is all the clock does there. In
`PursuitRunTakeover` a plan is one action: its two kinds never meet in the ledger but through the
checkpoint; `PursuitRunOneProcess` has the longer histories, where a plan mixes kinds and a task of one
iteration is alive in the next. Neither run goes further than two executors; the theorems do. Recovery has two runs because attempts meet each other
in the checkpoint and the lease, workers in the claim: the first has a predecessor that wakes up
behind its successor, the second takeovers, failing calls and budgets. Two bridges and two messages
let a bridge hold a message in memory while the other claims it and a second one waits behind it. One
place for two jobs makes one of them wait in `AgentJobs`, and makes a second claim of any kind a
breach of the capacity unless its job was started late; two attempts are one retry.

`CHECK_DEADLOCK FALSE` in all but the lease run: executors, sessions, bridges, jobs and processes end
for good.

**Disagreements found.** Two runs end in a counterexample to what a document says; `PROJECT.json` has
the quotations.

| Run | What happens |
|---|---|
| `PursuitRunStaleResume` | A resume reads run row and checkpoint before it has the lease and does not read them again. If the owner finishes in between, the resume turns a terminal run row back to running or blocked. |
| `AgentPublications` | The time of a publication receipt is read before the transaction waits for other writers. If another commits meanwhile, the receipt is older than the one before; from then on the publication can be neither delivered nor quarantined, and the next one waits behind it in every runtime. |

Two more come from clock readings that are older than their use. They are steps of the models, and
the properties say how far they reach:

- *A claim that is started late* (`AgentJobs!Start`). `mark_running` reads its clock (`agent_jobs.py:3052`)
  before it waits for the store (3055). A claim that expires in the wait is no longer counted
  (4814-4816), its place goes to another job, and it is started all the same (5107-5125): two models are asked
  under a capacity of one, which ARC-06-2c:50 calls a hard limit. With two jobs and two runtimes it takes five
  steps: one job is claimed, its claim expires, the other is claimed, both are started. `CapacityHeld`
  therefore speaks of all jobs but those in `late`.
- *A heartbeat that overtakes a pass* (`PursuitRecovery!Overtaken`). A pass reads its clock once
  (`pursuit_terminal_outbox_worker.py:227`). If the live owner sends a heartbeat before the pass reads the
  heartbeat row, the pass sees a clock that went back (`heartbeat.py:110-112`) and not a live owner, and that
  costs an attempt; often enough, and the outbox is a dead letter although no call has failed.
  HAR-10-8f2d:43 says that an executor that lives long is not taken for a poison record.
  `DeadLetterHasCause` counts these among the causes.

Smaller disagreements, and states the models reach that no document judges, are hazards with a note in
`PROJECT.json`: waits replaced by those of one iteration, actions outside of the ledger, a process
that outlives a restart, a result that is delivered twice, a message that nobody starts, an abandoned
outbox that is delivered, an orphaned waiter that holds up the others.

## 4. Fairness

The event loop runs a task whose await is over, and time passes: that is all the code's scheduling
gives. Failures, cancellation and death are not fair: they need never happen.

- `PursuitLease`: weak fairness of every session's steps and of the clock.
- `BackgroundTasks`: weak fairness of a call's next step, of a timeout that is due, of the watcher's
  turn, and of the exit of a process that is being terminated, since `terminate_process_tree` sends
  SIGKILL after SIGTERM. A process that is left alone need not exit; its timeout ends it. `TasksEnd`
  exempts tasks whose runner has gone away (`Abandoned`), `FinishedIsStopped` and `RunningIsWatched`
  what a shutdown or restart has left (`Left`).
- `PursuitRecovery`: weak fairness of the clock's actions and of the passes, since the worker polls;
  executors come to an end, for an iteration budget bounds the loop (strong fairness of leaving it,
  because the loop's own step disables it again and again). `PendingSettles` has a premise,
  `PassesGetPrompt`: in the end passes are shorter than the claims and leases they work under.
  Otherwise two workers may take one claim from each other for ever, as they may in the code.
- `ConversationQueue`: weak fairness of what a bridge works on. No user has to give a command, and no
  run has to end unless it is being stopped.
- `AgentJobs`: weak fairness of each delegation, of each recovery worker, and of the expiry of claims
  nobody renews; and, per job, strong fairness of some worker settling a publication it has claimed:
  a delivery that may fail does not fail for ever while claims last. `WaitersAreServed` exempts the
  case that a cancelled delegation has left a row nobody attends to (`Stranded`), which is a hazard.

`PursuitRun` states no liveness: a run may wait for a task, a user or a resume that never comes.

## 5. Proofs

For every value of the constants, from the assumptions named in the modules:

| Theorem | Property |
|---|---|
| `RunLeaseProofs!TypeCorrect`, `EpochBelongsToOneOwner`, `EpochsAdvance`, `LeasesNotShortened` | whatever the clocks do |
| `RunLeaseProofs!NoInterleaving`, `Refinement` | for clocks that are never set back; every behaviour of the rows is one of `FencedOwnership` |
| `PursuitLeaseProofs!SessionsTyped`, `LostForCause`, `HeartbeatFitsLease`, `HeartbeatsMoveOn`, `ChecksInOrder` | `TypeOK`, `LossHasCause`, `HeartbeatMatchesLease`, `HeartbeatMovesOn`, `ChecksFollowEpochs` |
| `PursuitRunProofs!RunTyped`, `CheckpointsInOrder`, `LedgerActionsRunOnce` | `TypeOK`, `CheckpointsFollowEpochs`, `ActionsRunOnce` |
| `PursuitRunProofs!NoCommandIsPassedOver` | `CommandsAreAccounted`: the part of `SafeCheckpointsAreAccounted` about commands, for executors that overlap |
| `PursuitRunProofs!LoneExecutorsAccount`, `OneProcessAccounts` | `SafeCheckpointsAreAccounted`, in behaviours where no two executors are at work at once (`Alone`), and in one process |
| `BackgroundTasksProofs!KeyStartsOnce` | `KeyStartsOneProcess`, for any number of runners |
| `BackgroundRunnerProofs!TasksTyped`, `FinishedAreStopped`, `RunningAreWatched` | `TypeOK`, `FinishedIsStopped`, `RunningIsWatched`, for one runner with any number of calls, tasks and processes |
| `ConversationQueueProofs!EachRequestRunsOnce`, `CancelledNeverRuns`, `LeftRowsStay`, `ResolvingKeepsOneVersion`, `QueueHoldsQueuedRows` | `RunsOnce`, `UnsentNeverRuns`, `OutcomesStay`, `OneVersionQueued`, `TypeOK` |
| `AgentJobsProofs!CapacityIsHeld`, `RowsAreListed`, `SettledForGood` | `CapacityHeld` (all but late starts), `TypeOK`, `SettledStays` |
| `PursuitRecoveryProofs!RecoveryTyped`, `DeliveredWithItsOutcome`, `EveryEndHasItsOutbox`, `OneIsPending`, `DecisionsAtRest`, `OneOutcome`, `OwnClaimsOnly`, `DeadLettersHaveACause` | `TypeOK`, `ClosedIffDelivered`, `TerminalHasOutbox`, `AtMostOnePending`, `DecidedAtRest`, `OutcomesStay`, `ClaimsAreKept`, `DeadLetterHasCause` |

**RunLease** (a lease lasts at least one unit, `NoOwner` is no owner). `OneOwnerPerEpoch` alone is
not inductive: a fence is accepted against the row, so one must know that the row has an owner and an
epoch above zero once it exists (`RowWellFormed`). `AnyInv` is their conjunction with `TypeOK`; it
holds for all clocks. `EpochsDoNotInterleave` relates two receipts, but a new one is checked against
the row only; `ReceiptsBehindRow` carries over what is needed: everything accepted under an earlier
epoch is dated before the present acquisition. A release ends the window at the owner's reading, so
accepted receipts have to lie behind the owner's clock: this is where clocks that step back would
break it, since a fence does not advance `updated_at`. `ClockInv` adds these. For the refinement every
operation is mapped: an acquisition is `Begin` or, for the live owner, `Extend`; a renewal `Extend`; a
release `End`; an accepted fence `Commit`; a refused or retried one a stutter.

**PursuitLease** (`NoSession` is no session, a renewal interval above zero and shorter than the lease, the
bounds are numbers; the clock is one for all sessions). That a session is lost only for a cause rests on
an order that no single row shows: the fence and the renewal read the clock before they queue for the
store, and a reading older than the row is refused. `Stamps` says that the write lock serves the two
tasks of a session in the order of their readings, so a live owner is never refused for its age.
`Token` says that an acquisition starts a new epoch, from which lemma `Others` concludes that a
session's row is changed by that session only; `Beats` ties the sequence numbers of the heartbeat row
to the session that writes it, `Losses` says that a session which is lost without a failed store call
holds nothing that could be renewed. `Inv` is these for every session, the row (`Rows`) and the ledger
of accepted fences (`Ledger`). Each action has its lemma; `Compose` says what a lemma has to show.

**PursuitRun** (`ExecutorsAssumption`, `ProcessAssumption`, `ActionsAssumption`, `BoundsAssumption`). The fence is checked in a transaction of
its own, before the run row and the checkpoint are written, so at the write the lease may be
another's. The store refuses a checkpoint by its sequence number alone, never by its epoch. That the
epochs of the checkpoints nevertheless do not go back rests on what an executor knows (`Follows`): it
numbers its next checkpoint after the one it read or wrote last, so when the store admits the number,
the row that is replaced is that very checkpoint, and this one is not younger than the executor's lease:
it was read before the lease was taken, or written under it. `Placed` says where an
executor holds an action or an iteration. `Inv` is these for all executors with the shapes (`Typed`,
`Memory`).

Three more invariants stand on it. `Once`, for actions that run once. A resume may find a stale run row and
reconcile the checkpoint with that row's iteration (`pursuit.py:916-945`), so iterations do not order
checkpoints; what does is the checkpoint an executor has in hand. A command is carried out by the executor
that finds it `prepared` behind its last fence (`Armed`). The checkpoint of such an executor is the row
(`ArmedAreCurrent`), which no later owner has replaced (`OwnCheckpoints`); one that resumes from the same
row has not reconciled yet, or is about to abandon what it found prepared (`HeirsAbandon`); and one that
has prepared the same key before is stopped by its fence (`DispatchedOnce`). A task needs none of this:
the runner recognises its key.

`Told`, for commands that no checkpoint passes over. A command that has run without an answer is
`dispatched` (`OutcomesAreKnown`), and a dispatched one that nobody was told about keeps the checkpoint in
flight in its iteration (`UntoldAreInFlight`): whoever works from that checkpoint has the command in hand,
or has still to reconcile, or is blocked (`UntoldAreAnswered`). This holds however many executors overlap.

`Accounted`, for tasks. A task that is started and whose outcome nobody was told must be in the waits of
the run before the checkpoint is safe again. When executors overlap this fails: the older one may write its copy of
the run row over the waits of the younger, since that write asks only its own session
(`pursuit.py:715`). So the theorem has the premise `[]Alone`: executors may crash, be cancelled, lose their leases
and resume in any process, one after the other. Then the executor at work is *abreast* of the rows (`Abreast`:
its checkpoint is the row, its iteration is not behind, and where a boundary writes the checkpoint next,
the run row equals its copy) and *attentive* (`Attentive`: every such task is held in both of its lists
of waits, is in hand, or is what a reconcile of an in-flight checkpoint will find in the ledger). `OneProcessIsAlone`
shows that the operation lock of one process gives the premise.

**BackgroundTasks** (`NoKey` is no key, the bounds are numbers). Starts are counted per key since its
last receipt. That a key starts once needs: a start has its receipt in `tasks.json`
(`StartsHaveReceipts`), the calls that are starting processes have different keys and numbers
(`SpawnsAreDistinct`), and the object that a call saves after its await has the key of the record it
replaces (`CallKept`); otherwise a cancel or cleanup that returns could drop the receipt.

With one runner (`OneRunner`, a hypothesis of these theorems) the records can be shown to agree with the
processes. A call saves an object that it read before its await, so what matters is every pid that may
come on record under a number, from the record itself or from such an object (`Knows`): each belongs
to the one process of its number (`Known`, `Watching`), and one that is about to be spawned is known
nowhere (`Spawning`). Then what a returning call saves names a process that it has seen stop, or that a
shutdown or a restart left behind. Steps that start nothing are shown to be *calm* (`Calm`: a record
stays, gets a mark, is dropped or ends with nothing running), and one lemma shows that calm steps
keep `RunnerInv`; `BeginRun` and `Spawned` are proved one by one. The dispatch lock is per runner: two
runners on one `tasks.json` may give one number to two tasks without a key, which is why the
hypothesis is needed. An engine makes one runner with its store (`orchestrator/engine.py:4236`); processes
that share a data directory are not modelled.

**ConversationQueue** (`QueueAssumption`). A message is run by a task that has claimed it, and the
claim excludes others only while nobody has resolved or renumbered the row. `Inv` has: shapes
(`Functions`); what has run has a claim behind it (`RunsAreClaimed`), as has a task past the claim
(`PastIsClaimed`); a row that is running has run (`RunningHasRun`); an unsent row has not
(`UnsentHasNotRun`); one that is being submitted is new (`SubmittedIsNew`). Most actions are *calm*: they move no
task past a claim and change no outcome; one lemma shows that calm steps keep `Inv`, and the others
are proved one by one. `OneVersionQueued` needs that all versions before the last one are resolved
(`Versions`). That the queue lists exactly the queued rows (`Types`) needs facts about the operators
on sequences that the queue and the copies are built with (`Kept` selects by counting, `RemoveFirst`
removes). They are proved without induction, from the least number of a set (`LeastNatural`, by the
library's `WFMin`). The limit of the queue holds for what a dead process has left in it as well, hence
`MaxLeft <= QueueLimit`.

**AgentJobs** (`AgentAssumption`: finitely many jobs, a capacity above zero). The store refuses by what it
counts, and the property is about what is used; they agree because only a claimed or running row has
a live claim (`Rows`). A step either uses no more, or claims one job while there is room, or starts a job
late, which uses more without a count and puts that job into `late`. The theorem therefore bounds all but the late jobs;
without the exception it is false, in the model as in the code (section 3). That a late job is running or unknown and has no live claim is an
invariant of its own (`LateRows`). `Types`
adds what the lists say: the waiting rows in the order of admission (`Queued`), an outbox entry for
every job that has ended (`Published`), and how far a delegation has come against the state of its row
(`Delegated`). From these follows that a publication that is delivered or quarantined stays as it is
(`SettledStays`): nobody holds its claim any more, so no late worker can report on it.

**PursuitRecovery** (finitely many attempts, the bounds are numbers). None of the properties is inductive: when an
outbox is opened or delivered, one must know that its attempt was admitted and is not settled, and the
code knows this only from how far its executor has come. `Stages` says so: an executor that has not
been admitted has an attempt that is requested at most, and only an admitted one is behind a terminal
checkpoint or has an outbox. `ClaimedIsPending` says that what a worker has claimed is not delivered
yet. Most steps are calm (no attempt, checkpoint or open outbox changes); the five others (`Request`,
`Admit`, `SaveCheckpoint`, `Settle`, `Commit`) are proved one by one. That a dead letter has its cause is a
second invariant (`Cause`): as long as nobody but workers has touched an outbox, the facts a
pass asks for are there and stay (`Covered`, `RunIsRecorded`), so a pass fails by a failing call, a crash
or a heartbeat that has overtaken its reading (`Timely`), and each failure that is charged has one of these
to itself (`Charged`). `faults` counts failing calls, crashes and, for workers, overtaken readings; the last are not
bounded, but counted only as far as the budgets reach. A wait for a live owner without an overtaken reading is thus
never charged; that no live owner becomes a dead letter would be false (section 3).

Only model-checked is liveness, which is out of the prover's reach. `SafeCheckpointsAreAccounted` is
not proved for executors that overlap, because there it does not hold for tasks; `CommandsAreAccounted`
does. This and `SettledStays` are proved, and no run of their own checks them. Induction over data is out
of reach as a rule of inference; where an operator on sequences had to be reasoned about, the least
element of a set took its place.

## 6. Not modelled

Within the modelled parts:

- *PursuitRun*: worktrees, evidence and budgets (a run stops nondeterministically), questions to the
  user, the text of tool results. The store calls do not fail: a failing write ends the process's part in the run,
  which a crash covers, except that `_mark_checkpoint_error` then marks the row, which is modelled
  where a checkpoint is refused. That an outbox may refuse a checkpoint is in `PursuitRecovery` only.
  An executor whose keepalive has not noticed the loss of its lease may still write the run row; the
  documents name this limit (`docs/development/harness/HAR-10-5c-background-reconcile.md:67-68`), and no
  property is stated of that row alone.
- *PursuitRecovery*: digests and receipts, backoff delays (due or not due), inspection without a claim,
  retention of delivered entries.
- *BackgroundTasks*: output files, ports, the count limits of `prune`, pid reuse.
- *ConversationQueue*: the queue commands of `tui/app.py`, which keeps no copy; a request id that is submitted twice.
- *AgentJobs*: independent agent workers and their takeover of claims, changes of the capacity policy,
  requeue and retention of quarantined publications, the inbox, notifications, heartbeats, the reaper.
  Claims of publications expire early only before the last counted attempt.

The other components are listed in `PROJECT.json` with the reason for each. Presentation, transport,
provider calls and text processing are input and output; permission rules are pure functions. This is
also why the modelled lines are a small part of the code: the files that hold protocols hold dozens of
tables and record types of the same append-only form next to them.

## 7. Plan

In this order; each with its own module, its MC module and one run:

1. *Overlapping executors in `PursuitRun`*: which write of a stale run row drops the wait of a task, as a
   run with its counterexample, and the weakest condition on overlaps under which `Accounted` survives.
2. A composition of `PursuitRun` with `BackgroundTasks` for the liveness of waiting: a task orphaned by a
   crash keeps its run in waiting until `cleanup` is called.
3. `Interaction`: one outcome of a question; the run that waits for it.
4. `WorkerRegistry` and `ToolJobs`: registration epochs, claims, late results; then the independent
   workers of `AgentJobs`.
5. `ProcessLock`, `ReleaseSlots`, `TaskList`, `MessageBus`: small modules, proofs where the state is small.
6. Retention of the terminal outbox and of quarantined publications.
