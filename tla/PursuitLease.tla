---------------------------- MODULE PursuitLease ----------------------------
(***************************************************************************)
(* PursuitLeaseSession: how one executor of a Pursuit run acquires, keeps, *)
(* checks and gives up the run lease.  A session has two tasks, the        *)
(* executor itself (main) and the keepalive (loop).  Each reads the wall   *)
(* clock, then waits for its transaction: whatever happens in between is   *)
(* an interleaving here.  Every session has an owner id of its own, so a   *)
(* session stands for its owner.  The sessions of one run are in processes *)
(* of one machine: they share the clock and the database, and each process *)
(* has its own write lock, which serves the two tasks in the order of      *)
(* their requests.                                                         *)
(***************************************************************************)
EXTENDS Naturals, Sequences

CONSTANTS
    Sessions,       \* the lease sessions, one per attempt to execute the run
    NoSession,      \* the owner of a missing row
    LeaseSeconds,   \* lease_seconds
    RenewSeconds,   \* renew_interval_seconds
    MaxTime,        \* bound: the wall clock
    MaxFences,      \* bound: boundaries fenced by one session
    MaxFaults       \* bound: store operations that fail

ASSUME SessionsAssumption == NoSession \notin Sessions
ASSUME IntervalAssumption ==
    /\ LeaseSeconds \in Nat /\ RenewSeconds \in Nat
    /\ 0 < RenewSeconds /\ RenewSeconds < LeaseSeconds
ASSUME BoundsAssumption ==
    MaxTime \in Nat /\ MaxFences \in Nat /\ MaxFaults \in Nat

VARIABLES
    lease, receipts,    \* the lease row and the fence ledger (RunLease)
    heartbeat,          \* the harness_heartbeats row of the run
    now,                \* the wall clock
    main, loop,         \* what each session's executor and keepalive are doing
    stamp,              \* the clock reading each of the two tasks works with
    queue,              \* the tasks waiting for the session's write lock
    held,               \* the session's own copy of its epoch (0: no lease)
    lost,               \* _lost_reason is set
    fences, beats,      \* _fence_sequence and _heartbeat_sequence
    faults              \* sessions the store has failed, once per failure

session == <<main, loop, stamp, queue, held, lost, fences, beats>>
vars == <<lease, receipts, heartbeat, now, session, faults>>

Fences == Sessions \X (1..MaxFences)
Tasks == {"main", "loop"}

(* The operations of the store, on the shared clock. *)
RL == INSTANCE RunLease
          WITH Owners <- Sessions, NoOwner <- NoSession, Operations <- Fences,
               clock <- [s \in Sessions |-> now], ClocksStepBack <- FALSE,
               MaxEpoch <- MaxTime + 1

NoBeat == [instance |-> NoSession, epoch |-> 0, sequence |-> 0,
           phase |-> "none", observed_at |-> 0]

Beat(s, phase, at) == [instance |-> s, epoch |-> held[s], sequence |-> beats[s],
                       phase |-> phase, observed_at |-> at]

(* A faulty variant of Advances, for mutation runs: any epoch may write. *)
AdvancesAnyEpoch(b) == b.observed_at >= heartbeat.observed_at

(* _validate_heartbeat_advance: what record_heartbeat lets overwrite the row. *)
Advances(b) ==
    /\ b.epoch >= heartbeat.epoch
    /\ b.epoch = heartbeat.epoch =>
          /\ b.instance = heartbeat.instance
          /\ b.sequence > heartbeat.sequence
    /\ b.observed_at >= heartbeat.observed_at

-----------------------------------------------------------------------------
Init ==
    /\ lease = RL!MissingLease
    /\ receipts = [f \in Fences |-> RL!NoReceipt]
    /\ heartbeat = NoBeat
    /\ now = 0
    /\ main = [s \in Sessions |-> "new"]
    /\ loop = [s \in Sessions |-> "off"]
    /\ stamp = [s \in Sessions |-> [task \in Tasks |-> 0]]
    /\ queue = [s \in Sessions |-> <<>>]
    /\ held = [s \in Sessions |-> 0]
    /\ lost = [s \in Sessions |-> FALSE]
    /\ fences = [s \in Sessions |-> 0]
    /\ beats = [s \in Sessions |-> 0]
    /\ faults = <<>>

(* Faulty variants of the operators below, for mutation runs: a lock that  *)
(* serves the latest request first; a request that stays in the queue; a   *)
(* cancelled keepalive that leaves its request behind.                     *)
SubmitFirst(s, task) == queue' = [queue EXCEPT ![s] = <<task>> \o @]
DoneNever(s) == queue' = [queue EXCEPT ![s] = @ \o <<Head(@)>>]
WithdrawnNever(s) == queue[s]

(* A task hands a transaction to the store and waits for the write lock. *)
Submit(s, task) == queue' = [queue EXCEPT ![s] = Append(@, task)]

(* The transaction of the task at the head of the lock's queue runs. *)
Served(s, task) ==
    /\ queue[s] # <<>>
    /\ Head(queue[s]) = task

Done(s) == queue' = [queue EXCEPT ![s] = Tail(@)]
Resubmit(s, task) == queue' = [queue EXCEPT ![s] = Append(Tail(@), task)]

(* What is left of the queue when the cancelled keepalive has ended and    *)
(* the executor itself has no request in it.                               *)
Withdrawn(s) == <<>>

ReadClock(s, task) == stamp' = [stamp EXCEPT ![s][task] = now]
MainAt(s, pc) == main' = [main EXCEPT ![s] = pc]
LoopAt(s, pc) == loop' = [loop EXCEPT ![s] = pc]
MarkLost(s) == lost' = [lost EXCEPT ![s] = TRUE]
NextBeat(s) == beats' = [beats EXCEPT ![s] = @ + 1]

-----------------------------------------------------------------------------
(* acquire(): the timestamp is read once, before the first wait, and is    *)
(* used for the lease, the first heartbeat and the release that undoes it. *)
Start(s) ==
    /\ main[s] = "new"
    /\ MainAt(s, "acquire")
    /\ stamp' = [stamp EXCEPT ![s] = [task \in Tasks |-> now]]
    /\ Submit(s, "main")
    /\ UNCHANGED <<lease, receipts, heartbeat, now, loop, held, lost, fences,
                   beats, faults>>

AcquireLease(s) ==
    /\ main[s] = "acquire" /\ Served(s, "main")
    /\ \/ /\ RL!Acquire(s, stamp[s]["main"])
          /\ held' = [held EXCEPT ![s] = lease'.epoch]
          /\ MainAt(s, "read_beat")
       \/ /\ ~RL!MayAcquire(s, stamp[s]["main"])
          /\ MainAt(s, "done")
          /\ UNCHANGED <<lease, receipts, held>>
    /\ Done(s)
    /\ UNCHANGED <<heartbeat, now, loop, stamp, lost, fences, beats, faults>>

(* get_heartbeat, then the first call of _record_heartbeat. *)
ReadHeartbeat(s) ==
    /\ main[s] = "read_beat"
    /\ beats' = [beats EXCEPT ![s] =
                    1 + IF heartbeat.epoch = held[s] /\ heartbeat.instance = s
                        THEN heartbeat.sequence ELSE @]
    /\ MainAt(s, "first_beat")
    /\ Submit(s, "main")
    /\ UNCHANGED <<lease, receipts, heartbeat, now, loop, stamp, held, lost,
                   fences, faults>>

FirstHeartbeat(s) ==
    LET b == Beat(s, "running", stamp[s]["main"]) IN
    /\ main[s] = "first_beat" /\ Served(s, "main")
    /\ \/ /\ Advances(b)
          /\ heartbeat' = b
          /\ MainAt(s, "running")
          /\ LoopAt(s, "asleep")
          /\ Done(s)
       \/ /\ ~Advances(b)
          /\ MainAt(s, "undo")
          /\ Resubmit(s, "main")
          /\ UNCHANGED <<heartbeat, loop>>
    /\ UNCHANGED <<lease, receipts, now, stamp, held, lost, fences, beats, faults>>

(* A release, of the row if it is still this session's and never more. *)
ReleaseRow(s) ==
    \/ RL!Release(s, held[s], stamp[s]["main"])
    \/ ~RL!Holds(s, held[s], stamp[s]["main"]) /\ UNCHANGED <<lease, receipts>>

UndoAcquire(s) ==
    /\ main[s] = "undo" /\ Served(s, "main")
    /\ ReleaseRow(s)
    /\ held' = [held EXCEPT ![s] = 0]
    /\ MarkLost(s)
    /\ MainAt(s, "done")
    /\ Done(s)
    /\ UNCHANGED <<heartbeat, now, loop, stamp, fences, beats, faults>>

-----------------------------------------------------------------------------
(* require_current(): refused at once when the session knows it is lost. *)
BeginFence(s) ==
    /\ main[s] = "running" /\ ~lost[s]
    /\ fences[s] < MaxFences
    /\ fences' = [fences EXCEPT ![s] = @ + 1]
    /\ MainAt(s, "fence")
    /\ ReadClock(s, "main")
    /\ Submit(s, "main")
    /\ UNCHANGED <<lease, receipts, heartbeat, now, loop, held, lost, beats, faults>>

DecideFence(s) ==
    /\ main[s] = "fence" /\ Served(s, "main")
    /\ RL!RecordFence(<<s, fences[s]>>, s, held[s], stamp[s]["main"])
    /\ lost' = [lost EXCEPT ![s] = @ \/ receipts'[<<s, fences[s]>>].reason # "current"]
    /\ MainAt(s, "running")
    /\ Done(s)
    /\ UNCHANGED <<heartbeat, now, loop, stamp, held, fences, beats, faults>>

-----------------------------------------------------------------------------
(* _renew_loop: it wakes, gives up if the lease is lost, or renews. *)
Wake(s) ==
    /\ loop[s] = "asleep" /\ main[s] # "closing"
    /\ now >= stamp[s]["loop"] + RenewSeconds
    /\ \/ lost[s] /\ LoopAt(s, "off") /\ UNCHANGED <<stamp, queue>>
       \/ /\ ~lost[s]
          /\ LoopAt(s, "renew")
          /\ ReadClock(s, "loop")
          /\ Submit(s, "loop")
    /\ UNCHANGED <<lease, receipts, heartbeat, now, main, held, lost, fences,
                   beats, faults>>

(* renew_now(): the lease, and then the heartbeat in a second transaction. *)
RenewLease(s) ==
    /\ loop[s] = "renew" /\ main[s] # "closing" /\ Served(s, "loop")
    /\ \/ /\ RL!Renew(s, held[s], stamp[s]["loop"])
          /\ NextBeat(s)
          /\ LoopAt(s, "beat")
          /\ Resubmit(s, "loop")
          /\ UNCHANGED lost
       \/ /\ ~RL!Holds(s, held[s], stamp[s]["loop"])
          /\ MarkLost(s)
          /\ LoopAt(s, "off")
          /\ Done(s)
          /\ UNCHANGED <<lease, receipts, beats>>
    /\ UNCHANGED <<heartbeat, now, main, stamp, held, fences, faults>>

RenewHeartbeat(s) ==
    LET b == Beat(s, "running", stamp[s]["loop"]) IN
    /\ loop[s] = "beat" /\ main[s] # "closing" /\ Served(s, "loop")
    /\ \/ Advances(b) /\ heartbeat' = b /\ LoopAt(s, "asleep") /\ UNCHANGED lost
       \/ ~Advances(b) /\ MarkLost(s) /\ LoopAt(s, "off") /\ UNCHANGED heartbeat
    /\ Done(s)
    /\ UNCHANGED <<lease, receipts, now, main, stamp, held, fences, beats, faults>>

-----------------------------------------------------------------------------
(* close(): it cancels the keepalive, which asks for nothing more, and     *)
(* awaits its end, wherever the keepalive has got to.                      *)
Close(s) ==
    /\ main[s] = "running"
    /\ MainAt(s, "closing")
    /\ UNCHANGED <<lease, receipts, heartbeat, now, loop, stamp, queue, held,
                   lost, fences, beats, faults>>

(* The cancelled keepalive ends: it slept, or gives up its place in the    *)
(* queue, or its transaction is rolled back; or the transaction had its    *)
(* turn and is committed all the same, its result lost with the task.      *)
KeepaliveEnds(s) ==
    /\ main[s] = "closing" /\ loop[s] # "off"
    /\ LoopAt(s, "off")
    /\ queue' = [queue EXCEPT ![s] = Withdrawn(s)]
    /\ \/ UNCHANGED <<lease, receipts, heartbeat>>
       \/ /\ loop[s] = "renew" /\ Served(s, "loop")
          /\ RL!Renew(s, held[s], stamp[s]["loop"])
          /\ UNCHANGED heartbeat
       \/ LET b == Beat(s, "running", stamp[s]["loop"]) IN
          /\ loop[s] = "beat" /\ Served(s, "loop")
          /\ Advances(b) /\ heartbeat' = b
          /\ UNCHANGED <<lease, receipts>>
    /\ UNCHANGED <<now, main, stamp, held, lost, fences, beats, faults>>

(* close() goes on when the keepalive has ended; what it reads now decides *)
(* whether there is a lease to release.                                    *)
GiveUp(s) ==
    /\ main[s] = "closing" /\ loop[s] = "off"
    /\ \/ lost[s] /\ MainAt(s, "done") /\ UNCHANGED <<stamp, queue>>
       \/ /\ ~lost[s]
          /\ MainAt(s, "release")
          /\ ReadClock(s, "main")
          /\ Submit(s, "main")
    /\ UNCHANGED <<lease, receipts, heartbeat, now, loop, held, lost, fences,
                   beats, faults>>

ReleaseLease(s) ==
    /\ main[s] = "release" /\ Served(s, "main")
    /\ \/ /\ RL!Release(s, held[s], stamp[s]["main"])
          /\ NextBeat(s)
          /\ MainAt(s, "last_beat")
          /\ Resubmit(s, "main")
       \/ /\ ~RL!Holds(s, held[s], stamp[s]["main"])
          /\ MainAt(s, "done")
          /\ Done(s)
          /\ UNCHANGED <<lease, receipts, beats>>
    /\ UNCHANGED <<heartbeat, now, loop, stamp, held, lost, fences, faults>>

LastHeartbeat(s) ==
    LET b == Beat(s, "stopped", stamp[s]["main"]) IN
    /\ main[s] = "last_beat" /\ Served(s, "main")
    /\ \/ Advances(b) /\ heartbeat' = b
       \/ ~Advances(b) /\ UNCHANGED heartbeat
    /\ MainAt(s, "done")
    /\ Done(s)
    /\ UNCHANGED <<lease, receipts, now, loop, stamp, held, lost, fences, beats,
                   faults>>

SessionStep(s) ==
    \/ Start(s) \/ AcquireLease(s) \/ ReadHeartbeat(s) \/ FirstHeartbeat(s)
    \/ UndoAcquire(s) \/ BeginFence(s) \/ DecideFence(s)
    \/ Wake(s) \/ RenewLease(s) \/ RenewHeartbeat(s)
    \/ Close(s) \/ KeepaliveEnds(s) \/ GiveUp(s) \/ ReleaseLease(s) \/ LastHeartbeat(s)

-----------------------------------------------------------------------------
(* A store operation raises, its transaction rolled back. *)
MainStoreFails(s) ==
    /\ Len(faults) < MaxFaults
    /\ Served(s, "main")
    /\ faults' = Append(faults, s)
    /\ \/ /\ main[s] \in {"acquire", "release", "last_beat"}
          /\ MainAt(s, "done") /\ Done(s)
          /\ UNCHANGED <<held, lost>>
       \/ /\ main[s] = "first_beat"
          /\ MainAt(s, "undo") /\ Resubmit(s, "main")
          /\ UNCHANGED <<held, lost>>
       \/ /\ main[s] = "undo"
          /\ MainAt(s, "done") /\ Done(s) /\ MarkLost(s)
          /\ held' = [held EXCEPT ![s] = 0]
       \/ /\ main[s] = "fence"
          /\ MainAt(s, "running") /\ Done(s) /\ MarkLost(s)
          /\ UNCHANGED held
    /\ UNCHANGED <<lease, receipts, heartbeat, now, loop, stamp, fences, beats>>

LoopStoreFails(s) ==
    /\ Len(faults) < MaxFaults
    /\ Served(s, "loop")
    /\ faults' = Append(faults, s)
    /\ MarkLost(s) /\ LoopAt(s, "off") /\ Done(s)
    /\ UNCHANGED <<lease, receipts, heartbeat, now, main, stamp, held, fences, beats>>

(* The process dies; or the executor is cancelled before acquire() has     *)
(* returned, when no one holds the session and no one will close it.       *)
Stop(s) ==
    /\ main[s] \notin {"new", "done", "gone"}
    /\ MainAt(s, "gone") /\ LoopAt(s, "off")
    /\ queue' = [queue EXCEPT ![s] = <<>>]
    /\ UNCHANGED <<lease, receipts, heartbeat, now, stamp, held, lost, fences,
                   beats, faults>>

Tick ==
    /\ now < MaxTime
    /\ now' = now + 1
    /\ UNCHANGED <<lease, receipts, heartbeat, session, faults>>

Next ==
    \/ \E s \in Sessions :
          \/ SessionStep(s)
          \/ MainStoreFails(s) \/ LoopStoreFails(s) \/ Stop(s)
    \/ Tick

(* A session that is not stopped goes on; time passes. *)
Fairness ==
    /\ \A s \in Sessions : WF_vars(SessionStep(s))
    /\ WF_vars(Tick)

Spec == Init /\ [][Next]_vars /\ Fairness

-----------------------------------------------------------------------------
MainStates == {"new", "acquire", "read_beat", "first_beat", "undo", "running",
               "fence", "closing", "release", "last_beat", "done", "gone"}

(* Every variable stays in the domain of what it stands for; a write lock  *)
(* never has two requests of one task.                                     *)
TypeOK ==
    /\ lease \in RL!Lease
    /\ receipts \in [Fences -> RL!Receipt \cup {RL!NoReceipt}]
    /\ heartbeat \in [instance : Sessions \cup {NoSession}, epoch : Nat,
                      sequence : Nat, phase : {"none", "running", "stopped"},
                      observed_at : Nat]
    /\ now \in 0..MaxTime
    /\ main \in [Sessions -> MainStates]
    /\ loop \in [Sessions -> {"off", "asleep", "renew", "beat"}]
    /\ stamp \in [Sessions -> [Tasks -> 0..now]]
    /\ queue \in [Sessions -> {<<>>, <<"main">>, <<"loop">>, <<"main", "loop">>,
                               <<"loop", "main">>}]
    /\ held \in [Sessions -> Nat]
    /\ lost \in [Sessions -> BOOLEAN]
    /\ fences \in [Sessions -> 0..MaxFences]
    /\ beats \in [Sessions -> Nat]
    /\ faults \in Seq(Sessions) /\ Len(faults) <= MaxFaults

(* A session gives up its lease only for cause: unless the store failed    *)
(* it, a session that is marked lost, or that undoes its acquisition, has  *)
(* really lost the row (it expired, or a later epoch took it).  The two    *)
(* tasks of a live owner never defeat each other with clock readings that  *)
(* reach the row in the wrong order.                                       *)
LossHasCause ==
    \A s \in Sessions :
        (lost[s] \/ main[s] = "undo") /\ (\A i \in DOMAIN faults : faults[i] # s)
            => ~(RL!LiveFor(s, now) /\ lease.epoch = held[s])

(* The heartbeat row never runs ahead of the lease row, never shows an     *)
(* instance under an epoch that belongs to another session, and never      *)
(* reports a run stopped while its lease is in force, although the two     *)
(* rows are written in separate transactions.                              *)
HeartbeatMatchesLease ==
    /\ heartbeat.epoch <= lease.epoch
    /\ heartbeat.epoch = lease.epoch =>
          /\ heartbeat.instance = lease.owner
          /\ heartbeat.phase = "stopped" => lease.state = "released"

(* A run that reported "stopped" is reported "running" again only by a     *)
(* later epoch, and the row never goes back to an earlier epoch.           *)
HeartbeatMovesOn ==
    [][/\ heartbeat'.epoch >= heartbeat.epoch
       /\ heartbeat.phase = "stopped" => heartbeat'.epoch > heartbeat.epoch
       /\ heartbeat'.observed_at >= heartbeat.observed_at]_heartbeat

(* Fencing holds against delayed and concurrent requests too: checks are   *)
(* passed in the order of the epochs, each by the epoch's one owner.       *)
ChecksFollowEpochs == RL!OneOwnerPerEpoch /\ RL!EpochsDoNotInterleave

(* close() comes to an end, wherever it finds the keepalive: asleep, in    *)
(* the queue of the write lock, or with the lock in its hands.             *)
ClosingEnds ==
    \A s \in Sessions : main[s] = "closing" ~> main[s] \in {"done", "gone"}

=============================================================================
