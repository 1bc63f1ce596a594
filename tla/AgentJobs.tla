------------------------------ MODULE AgentJobs ------------------------------
(***************************************************************************)
(* Agent executions as durable jobs: AgentJobStore admits them under one   *)
(* capacity for all runtimes and keeps a publication of each result, the   *)
(* SubAgentManager of each runtime runs them, and its recovery worker      *)
(* delivers the publications that were left.                               *)
(*                                                                         *)
(* The delegation of a job is a coroutine, the recovery worker of a        *)
(* runtime is another; a step is one store transaction.  Its caller reads  *)
(* the clock before it waits for the write lock, so that a claim may be    *)
(* judged live after it has expired: see Start and RenewLate.  A claim of  *)
(* a publication that is judged so is as one that expires later, as only   *)
(* another claim, under another epoch, takes it away.  LateReceipts adds   *)
(* what such a reading does to the times of publication receipts.          *)
(* Independent agent workers are left out: all runtimes embed theirs.      *)
(***************************************************************************)
EXTENDS Naturals, FiniteSets, SequencesExt

CONSTANTS
    Jobs,
    Poison,       \* jobs whose publication cannot be recovered for delivery
    Runtimes,     \* processes with a SubAgentManager; a restarted one is another
    Nobody,
    MaxActive,    \* max_parallel_agents, the same in all runtimes
    MaxWaiters,   \* max_queued_agents
    MaxAttempts,  \* retry budget of a publication; attempts are counted up to it
    Faults,       \* whether store calls fail, claims expire early, runtimes die
    LateReceipts  \* whether others commit before a receipt and after its time

ASSUME AgentAssumption ==
    /\ MaxActive \in Nat \ {0} /\ MaxWaiters \in Nat /\ MaxAttempts \in Nat \ {0}
    /\ Faults \in BOOLEAN /\ LateReceipts \in BOOLEAN
    /\ IsFiniteSet(Jobs) /\ Poison \subseteq Jobs /\ Nobody \notin Runtimes

VARIABLES
    job,     \* the row of each job: its state, and whether its claim is live
    late,    \* the jobs that were started although their claim had expired
    fifo,    \* the admitted jobs in the order of their admission
    at,      \* where the delegation of each job is
    home,    \* the runtime that delegates it
    up,      \* the runtimes that are alive
    pub,     \* the publication of each job
    outbox,  \* publications in the order of their creation
    worker,  \* whose publication the recovery worker of each runtime has claimed
    holders, \* who was given the epoch of the live claim of a publication
    fresh,   \* who has read the clock since the last receipt of a publication
    broken   \* publications with a receipt that is older than the one before

jobs == <<job, late, fifo>>
pubs == <<pub, outbox, holders, fresh, broken>>
vars == <<jobs, at, home, up, worker, pubs>>

Delegation(j) == <<"job", j>>
Worker(r) == <<"worker", r>>

Under(j) == at[j] \notin {"idle", "done"}

Init ==
    /\ job = [j \in Jobs |-> [state |-> "none", live |-> FALSE]]
    /\ late = {} /\ fifo = <<>> /\ outbox = <<>>
    /\ at = [j \in Jobs |-> "idle"] /\ home = [j \in Jobs |-> Nobody]
    /\ up = Runtimes
    /\ pub = [j \in Jobs |-> [state |-> "none", attempts |-> 0]]
    /\ worker = [r \in Runtimes |-> Nobody]
    /\ holders = [j \in Jobs |-> {}] /\ fresh = [j \in Jobs |-> {}]
    /\ broken = {}

-----------------------------------------------------------------------------
(* Where a delegation goes on after a transaction.  Its caller may cancel  *)
(* it in the await of a commit that goes through: it ends not knowing.     *)
Ends(j) == at' = [at EXCEPT ![j] = "done"] /\ home' = [home EXCEPT ![j] = Nobody]
Goes(j, place) == Ends(j) \/ (at' = [at EXCEPT ![j] = place] /\ UNCHANGED home)

Sets(j, state, live) ==
    /\ job' = [job EXCEPT ![j] = [state |-> state, live |-> live]]
    /\ late' = IF state = "running" /\ ~live THEN late \cup {j} ELSE late

Active == {j \in Jobs : job[j].state \in {"claimed", "running"}}

(* Faulty variants, for mutation runs: a running job is not counted after  *)
(* its claim has expired; a claimed one still is.                          *)
CountedClaims == Active
CountedIfLive == {j \in Active : job[j].live}

(* _capacity_counts_locked: a running job counts although its claim has    *)
(* expired, a claimed one does not.                                        *)
Counted == {j \in Jobs : \/ job[j].state = "claimed" /\ job[j].live
                         \/ job[j].state = "running"}

HasRoom == Cardinality(Counted) < MaxActive

-----------------------------------------------------------------------------
(* delegate() with a slot of the runtime, a new request, and its           *)
(* admit_for_capacity: claimed at once, or a waiter, or refused.  A count  *)
(* by an old reading has a claim in it that has expired since.             *)
HasSlot(r) == Cardinality({k \in Jobs : home[k] = r}) < MaxActive

Admit(j, r) ==
    /\ at[j] = "idle" /\ r \in up /\ HasSlot(r)
    /\ LET mayWait == fifo # <<>> \/ Cardinality(Active) >= MaxActive
           Begins(place) == \/ Ends(j)
                            \/ /\ at' = [at EXCEPT ![j] = place]
                               /\ home' = [home EXCEPT ![j] = r]
       IN  \/ /\ HasRoom /\ fifo = <<>>
              /\ Sets(j, "claimed", TRUE) /\ Begins("start") /\ UNCHANGED fifo
           \/ /\ mayWait /\ Len(fifo) < MaxWaiters
              /\ Sets(j, "admitted", FALSE) /\ fifo' = Append(fifo, j) /\ Begins("wait")
           \/ /\ Faults \/ (mayWait /\ Len(fifo) >= MaxWaiters)
              /\ Ends(j) /\ UNCHANGED jobs
    /\ UNCHANGED <<up, worker, pubs>>

(* claim_for_capacity, by the poll of the head of the FIFO. *)
ClaimTurn(j) ==
    /\ at[j] = "wait" /\ fifo # <<>> /\ Head(fifo) = j /\ HasRoom
    /\ Sets(j, "claimed", TRUE) /\ fifo' = Tail(fifo) /\ Goes(j, "start")
    /\ UNCHANGED <<up, worker, pubs>>

(* Faulty variant, for a mutation run: the row stays in the FIFO. *)
CancelsOnly(j) == Sets(j, "cancelled", FALSE) /\ UNCHANGED fifo

(* cancel_before_claim *)
Withdraws(j) ==
    /\ Sets(j, "cancelled", FALSE)
    /\ \E i \in DOMAIN fifo : fifo[i] = j /\ fifo' = RemoveAt(fifo, i)

(* The user stops a waiter, its caller is cancelled, or its poll failed.   *)
(* If withdrawing fails too the row stays admitted.                        *)
GiveUp(j) ==
    /\ at[j] = "wait" /\ Ends(j)
    /\ Withdraws(j) \/ (Faults /\ UNCHANGED jobs)
    /\ UNCHANGED <<up, worker, pubs>>

(* recover_payload and mark_running.  The clock was read before the write  *)
(* lock was waited for: if the claim expires in between, it is started all *)
(* the same, and nobody asks whether its place was given away.  A claim    *)
(* that is not started is left to expire; a start that is cancelled leaves *)
(* a running job behind.                                                   *)
Start(j) ==
    /\ at[j] = "start"
    /\ \/ Sets(j, "running", job[j].live) /\ Goes(j, "model")
       \/ (Faults \/ ~job[j].live) /\ Ends(j) /\ UNCHANGED <<job, late>>
    /\ UNCHANGED <<fifo, up, worker, pubs>>

(* Whether the holder may have read the clock before the claim expired.  A *)
(* job that was started late has no such reading left.                     *)
JudgedLive(j) == job[j].live \/ j \notin late

(* renew_claim, by the renewal loop, with a reading from before the expiry *)
(* of a claim that expired in the wait for the lock.                       *)
RenewLate(j) ==
    /\ at[j] = "model" /\ job[j].state = "running" /\ JudgedLive(j)
    /\ Sets(j, "running", TRUE)
    /\ UNCHANGED <<fifo, at, home, up, worker, pubs>>

(* A claim expires: unattended, or because its renewals fail or come late. *)
Renewed(j) == at[j] \in {"start", "model"}

ExpireJob(j) ==
    /\ job[j].live /\ (Faults \/ ~Renewed(j))
    /\ job' = [job EXCEPT ![j].live = FALSE]
    /\ UNCHANGED <<late, fifo, at, home, up, worker, pubs>>

(* mark_recovery_unknown, when a person says so. *)
MarkUnknown(j) ==
    /\ job[j].state = "running" /\ ~job[j].live
    /\ Sets(j, "unknown", FALSE)
    /\ UNCHANGED <<fifo, at, home, up, worker, pubs>>

-----------------------------------------------------------------------------
(* Publication receipts.  What an actor writes is older than the receipt   *)
(* before it only if the actor did not read the clock after that one.      *)
Reads(a) == fresh' = IF LateReceipts THEN [j \in Jobs |-> fresh[j] \cup {a}] ELSE fresh

Receipt(a, j) ==
    /\ fresh' = IF LateReceipts THEN [k \in Jobs |-> IF k = j THEN {a} ELSE fresh[k] \cup {a}]
                ELSE fresh
    /\ \/ UNCHANGED broken
       \/ LateReceipts /\ a \notin fresh[j] /\ broken' = broken \cup {j}

(* _validate_publication_event_chain, before every use of a publication. *)
Readable(j) == j \notin broken

(* Faulty variant, for a mutation run: an expired claim is not taken over. *)
MayClaimPending(j) == pub[j].state = "pending"

(* The rows that claim_next_publication selects; it takes the oldest. *)
MayClaim(j) ==
    \/ pub[j].state = "pending"
    \/ pub[j].state = "claimed" /\ holders[j] = {}

IsNext(j) ==
    \E i \in DOMAIN outbox :
        /\ outbox[i] = j /\ MayClaim(j)
        /\ \A k \in 1 .. i - 1 : ~MayClaim(outbox[k])

Counts(n) == IF n < MaxAttempts THEN n + 1 ELSE n

(* _claim_publication_locked: a new epoch, for the actor alone. *)
Claims(a, j) ==
    /\ pub' = [pub EXCEPT ![j] = [state |-> "claimed", attempts |-> Counts(@.attempts)]]
    /\ holders' = [holders EXCEPT ![j] = {a}]
    /\ Receipt(a, j)
    /\ UNCHANGED outbox

(* _require_live_publication_owner, of the epoch the actor was given. *)
HasClaim(a, j) == Readable(j) /\ a \in holders[j]

(* _append_publication_transition to a state without a claim. *)
Settles(a, j, state) ==
    /\ pub' = [pub EXCEPT ![j].state = state] /\ holders' = [holders EXCEPT ![j] = {}]
    /\ Receipt(a, j)
    /\ UNCHANGED outbox

(* recover_publication_content and deliver_publication_to_inbox.  Where    *)
(* the other actor of the runtime has delivered under the same epoch the   *)
(* code replays that; here the actor goes on as after a failure that       *)
(* changes nothing.                                                        *)
Delivers(a, j) == j \notin Poison /\ HasClaim(a, j) /\ Settles(a, j, "published")

CannotDeliver(a, j) == Faults \/ j \in Poison \/ ~HasClaim(a, j)

(* release_publication_claim, best effort. *)
Releases(a, j) ==
    \/ HasClaim(a, j) /\ Settles(a, j, "pending")
    \/ (Faults \/ ~HasClaim(a, j)) /\ Reads(a) /\ UNCHANGED <<pub, outbox, holders, broken>>

-----------------------------------------------------------------------------
(* The end of an execution. *)

(* The model has answered, failed or been stopped.  _finish_execution:     *)
(* finish() ends the job and creates its publication in one transaction.   *)
(* A job whose finish fails twice stays running.                           *)
Finish(j) ==
    /\ at[j] = "model"
    /\ \/ /\ job[j].state = "running" /\ JudgedLive(j)
          /\ Sets(j, "ended", FALSE) /\ UNCHANGED fifo
          /\ pub' = [pub EXCEPT ![j].state = "pending"] /\ outbox' = Append(outbox, j)
          /\ Receipt(Delegation(j), j) /\ UNCHANGED holders
          /\ Goes(j, "publish")
       \/ /\ Faults \/ job[j].state # "running" \/ ~job[j].live
          /\ Ends(j) /\ UNCHANGED <<jobs, pubs>>
    /\ UNCHANGED <<up, worker>>

(* claim_publication: the live claim of the same runtime is joined. *)
Publish(j) ==
    LET a == Delegation(j)
        joins == Worker(home[j]) \in holders[j]
    IN  /\ at[j] = "publish"
        /\ \/ Readable(j) /\ MayClaim(j) /\ Claims(a, j) /\ Goes(j, "deliver")
           \/ /\ Readable(j) /\ joins
              /\ holders' = [holders EXCEPT ![j] = @ \cup {a}] /\ Goes(j, "deliver")
              /\ Reads(a) /\ UNCHANGED <<pub, outbox, broken>>
           \/ /\ Faults \/ ~Readable(j) \/ ~(MayClaim(j) \/ joins)
              /\ Ends(j) /\ UNCHANGED pubs
        /\ UNCHANGED <<jobs, up, worker>>

(* _deliver_execution_publication.  A failed delivery changes nothing, so  *)
(* it is one step with the release; a cancelled one does not release.      *)
Deliver(j) ==
    LET a == Delegation(j)
    IN  /\ at[j] = "deliver" /\ Ends(j)
        /\ \/ Delivers(a, j)
           \/ CannotDeliver(a, j) /\ Releases(a, j)
           \/ Reads(a) /\ UNCHANGED <<pub, outbox, holders, broken>>
        /\ UNCHANGED <<jobs, up, worker>>

-----------------------------------------------------------------------------
(* recover_pending_publications, by the worker of a runtime.  A failed     *)
(* delivery or quarantine is one step with what follows it.                *)

Delivering(r) == r \in up /\ worker[r] # Nobody
WorkerIdles(r) == worker' = [worker EXCEPT ![r] = Nobody]

(* A head that cannot be read ends the pass, and changes nothing. *)
ClaimNext(r) ==
    /\ r \in up /\ worker[r] = Nobody
    /\ \E j \in Jobs : /\ IsNext(j) /\ Readable(j)
                      /\ Claims(Worker(r), j)
                      /\ worker' = [worker EXCEPT ![r] = j]
    /\ UNCHANGED <<jobs, at, home, up>>

WorkerDelivers(r) ==
    /\ Delivering(r) /\ Delivers(Worker(r), worker[r]) /\ WorkerIdles(r)
    /\ UNCHANGED <<jobs, at, home, up>>

(* quarantine_publication *)
WorkerQuarantines(r) ==
    LET j == worker[r]
    IN  /\ Delivering(r) /\ CannotDeliver(Worker(r), j)
        /\ pub[j].attempts >= MaxAttempts /\ HasClaim(Worker(r), j)
        /\ Settles(Worker(r), j, "quarantined") /\ WorkerIdles(r)
        /\ UNCHANGED <<jobs, at, home, up>>

WorkerReleases(r) ==
    LET j == worker[r]
    IN  /\ Delivering(r) /\ CannotDeliver(Worker(r), j)
        /\ Faults \/ pub[j].attempts < MaxAttempts \/ ~HasClaim(Worker(r), j)
        /\ Releases(Worker(r), j) /\ WorkerIdles(r)
        /\ UNCHANGED <<jobs, at, home, up>>

(* Whether somebody with the claim is about to use it. *)
Attended(j) ==
    \/ Delegation(j) \in holders[j] /\ at[j] = "deliver"
    \/ \E r \in up : Worker(r) \in holders[j] /\ worker[r] = j

(* bound: a claim expires early only before the last counted attempt. *)
ExpirePublication(j) ==
    /\ holders[j] # {}
    /\ ~Attended(j) \/ (Faults /\ pub[j].attempts < MaxAttempts)
    /\ holders' = [holders EXCEPT ![j] = {}]
    /\ UNCHANGED <<jobs, at, home, up, worker, pub, outbox, fresh, broken>>

-----------------------------------------------------------------------------
(* The process of a runtime ends; another takes its place. *)
Crash(r) ==
    /\ Faults /\ r \in up
    /\ up' = up \ {r}
    /\ at' = [j \in Jobs |-> IF home[j] = r THEN "done" ELSE at[j]]
    /\ home' = [j \in Jobs |-> IF home[j] = r THEN Nobody ELSE home[j]]
    /\ WorkerIdles(r)
    /\ UNCHANGED <<jobs, pubs>>

Works(r) ==
    ClaimNext(r) \/ WorkerDelivers(r) \/ WorkerQuarantines(r) \/ WorkerReleases(r)

Executes(j) ==
    ClaimTurn(j) \/ Start(j) \/ Finish(j) \/ Publish(j) \/ Deliver(j)

Next ==
    \/ \E j \in Jobs, r \in Runtimes : Admit(j, r)
    \/ \E j \in Jobs : Executes(j) \/ GiveUp(j) \/ MarkUnknown(j)
                       \/ RenewLate(j) \/ ExpireJob(j) \/ ExpirePublication(j)
    \/ \E r \in Runtimes : Works(r) \/ Crash(r)

(* What nobody renews or uses expires, as clocks go on. *)
Expires(j) == (~Renewed(j) /\ ExpireJob(j)) \/ (~Attended(j) /\ ExpirePublication(j))

WorkerSettles(r, j) == worker[r] = j /\ (WorkerDelivers(r) \/ WorkerQuarantines(r))

(* Tasks of an event loop run.  The store does not fail every time: of     *)
(* workers that have again and again a live claim of a publication, and    *)
(* may deliver or quarantine it, one does.                                 *)
Fairness ==
    /\ \A j \in Jobs : /\ WF_vars(Executes(j)) /\ WF_vars(Expires(j))
                       /\ SF_vars(\E r \in Runtimes : WorkerSettles(r, j))
    /\ \A r \in Runtimes : WF_vars(Works(r))

Spec == Init /\ [][Next]_vars /\ Fairness

-----------------------------------------------------------------------------
States == {"none", "admitted", "claimed", "running", "ended", "cancelled", "unknown"}

TypeOK ==
    /\ \A j \in Jobs :
        /\ job[j].state \in States /\ job[j].live \in BOOLEAN
        /\ at[j] \in {"idle", "wait", "start", "model", "publish", "deliver", "done"}
        /\ pub[j].state \in {"none", "pending", "claimed", "published", "quarantined"}
        /\ holders[j] # {} => pub[j].state = "claimed"
        /\ pub[j].attempts \in 0 .. MaxAttempts
        /\ j \in late => job[j].state \in {"running", "unknown"} /\ ~job[j].live
    /\ late \subseteq Jobs
    /\ IsInjective(fifo) /\ ToSet(fifo) = {j \in Jobs : job[j].state = "admitted"}
    /\ Len(fifo) <= MaxWaiters
    /\ IsInjective(outbox) /\ ToSet(outbox) = {j \in Jobs : job[j].state = "ended"}
    /\ home \in [Jobs -> Runtimes \cup {Nobody}] /\ up \subseteq Runtimes

(* What runs, or has a claim that lets it be started. *)
Used == {j \in Jobs : job[j].state = "running" \/ job[j].live}

(* However claims expire and delegations end, all that runs or may be      *)
(* started beyond the capacity the runtimes share was started late: the    *)
(* store gives no place away that it counts (_claim_for_capacity_locked,   *)
(* _capacity_counts_locked and _require_live_owner together).              *)
CapacityHeld == Cardinality(Used \ late) <= MaxActive

(* A row nobody will move: a waiter without its delegation blocks the      *)
(* FIFO, a running job without one keeps its place.                        *)
Stranded == \E j \in Jobs : job[j].state \in {"admitted", "running"} /\ ~Under(j)

(* A waiter is claimed or gives up, unless rows are left that nobody moves *)
(* (the FIFO of admit_for_capacity and claim_for_capacity).                *)
WaitersAreServed ==
    \A j \in Jobs : job[j].state = "admitted" ~> job[j].state # "admitted" \/ Stranded

Settled(j) == pub[j].state \in {"published", "quarantined"}

(* What is delivered or quarantined stays so: nobody claims it again, and  *)
(* an actor that was late or in another runtime neither delivers it a      *)
(* second time nor gives it back (_require_live_publication_owner and the  *)
(* selections of claim_publication and claim_next_publication).            *)
SettledStays == [][\A j \in Jobs : Settled(j) => pub'[j] = pub[j]]_vars

(* The publication of every ended job is delivered or quarantined, as long *)
(* as a runtime lives: whoever crashed, was cancelled, or lost a claim in  *)
(* between.                                                                *)
PublicationsSettle ==
    \A j \in Jobs : job[j].state = "ended" ~> Settled(j) \/ up = {}

(* HAR-10-7g, section 8: a publication that fails for good does not block  *)
(* the FIFO, so the readable ones behind it settle.  A publication with a  *)
(* receipt older than the one before can be neither delivered, released    *)
(* nor quarantined, and is selected first again and again.                 *)
PoisonDoesNotBlock ==
    \A j \in Jobs : job[j].state = "ended" ~> Settled(j) \/ ~Readable(j)

=============================================================================
