-------------------------- MODULE PursuitRecovery --------------------------
(***************************************************************************)
(* What happens to the end of a resumed Pursuit run: the recovery attempts *)
(* of one run, the terminal outbox that the store creates with a terminal  *)
(* checkpoint, the workers and users who reconcile an attempt whose        *)
(* executor is gone, and the dead letters a person requeues or abandons.   *)
(*                                                                         *)
(* Each PursuitStore operation is one BEGIN IMMEDIATE transaction and one  *)
(* action here; the run lease is in another database.  Time is not a       *)
(* number: "after the admission" is a set of attempts admitted before, and *)
(* what a deadline decides is a flag that an action of the clock flips.    *)
(* A reconciler reads the clock once and uses the reading throughout:      *)
(* `old` tells that the lease row has changed since, `ahead` that an owner *)
(* has sent a heartbeat since, `late` that the run row or the checkpoint   *)
(* has changed.                                                            *)
(***************************************************************************)
EXTENDS Naturals, FiniteSets

CONSTANTS
    Attempts,     \* recovery attempts, each with the executor it admits
    Workers,      \* terminal outbox workers, one pass at a time
    Users,        \* people who call /pursue reconcile
    NoOne,        \* no holder; also a holder that will never come back
    Outcomes,     \* the boundary decisions that end a loop, named by their content
    MaxFailures,  \* max_attempts of the worker's policy
    MaxFaults,    \* bound: failing calls of the lease authority, and crashed passes;
                  \* what the clock readings cost is counted behind it
    MaxRequeues   \* bound: requeues of one outbox

Reconcilers == Workers \cup Users

ASSUME ActorsAssumption ==
    /\ IsFiniteSet(Attempts) /\ NoOne \notin Attempts \cup Reconcilers
    /\ Attempts \cap Reconcilers = {} /\ Workers \cap Users = {}
ASSUME OutcomesAssumption ==
    \A d \in Outcomes :
        d.status \in {"waiting", "blocked", "completed", "cancelled", "budget_exceeded"}
ASSUME BoundsAssumption ==
    MaxFailures \in Nat \ {0} /\ MaxFaults \in Nat /\ MaxRequeues \in Nat

VARIABLES
    run,        \* the pursuit_runs row: its decision, and phase checkpoint_error
    recorded,   \* pursuit_boundary_decisions: decision -> attempts admitted before
    checkpoint, \* the latest checkpoint
    attempt,    \* pursuit_recovery_attempts
    graced,     \* attempts whose grace period after the admission is over
    box,        \* terminal outbox, dispatch and failure head of each attempt
    lease,      \* the run's row in harness_run_leases
    beat,       \* whose heartbeat looks alive
    ex,         \* the executor of each attempt
    rc,         \* the pass of each reconciler
    faults      \* failing calls, crashed passes and overtaken readings so far

rows == <<run, recorded, checkpoint>>
vars == <<rows, attempt, graced, box, lease, beat, ex, rc, faults>>

-----------------------------------------------------------------------------
(* decide_pursuit_boundary: equal facts give the same decision_id.         *)
Going == [status |-> "running", facts |-> "going"]
Broken == [status |-> "blocked", facts |-> "checkpoint_persistence_error"]

Final == {"completed", "cancelled"}

(* The row of a decision no save_run has inserted yet. *)
Never == Attempts \cup {NoOne}

NoBox == [state |-> "none", dispatch |-> "none", due |-> FALSE, by |-> NoOne,
          live |-> FALSE, failures |-> 0, dead |-> FALSE, abandoned |-> FALSE,
          requeues |-> 0, disturbed |-> FALSE]
NewBox == [NoBox EXCEPT !.state = "pending", !.dispatch = "idle"]

(* An executor: where it is, the decision it is about to store, where it   *)
(* goes then, whether nobody else has written a checkpoint since it read   *)
(* or wrote one, and whether its session knows that the lease is lost.     *)
Fresh == [at |-> "new", decision |-> Going, then |-> "done", based |-> TRUE, lost |-> FALSE]

Idle == [at |-> "idle", target |-> NoOne, graced |-> FALSE, old |-> FALSE,
         ahead |-> FALSE, late |-> FALSE, class |-> "none"]

Admitted == {a \in Attempts : attempt[a] = "admitted"}

Init ==
    \E d \in Outcomes \cup {Going} :
        /\ d.status \notin Final
        /\ run = [decision |-> d, error |-> FALSE]
        /\ recorded = [c \in Outcomes \cup {Broken} |-> IF c = d THEN {} ELSE Never]
        /\ checkpoint = [status |-> d.status, after |-> {}, covers |-> {d} \cap Outcomes]
        /\ attempt = [a \in Attempts |-> "none"]
        /\ graced = {}
        /\ box = [a \in Attempts |-> NoBox]
        /\ lease = [holder |-> NoOne, live |-> FALSE]
        /\ beat = NoOne
        /\ ex = [a \in Attempts |-> Fresh]
        /\ rc = [r \in Reconcilers |-> Idle]
        /\ faults = 0

-----------------------------------------------------------------------------
(* Helpers. *)

Goes(a, place) == ex' = [ex EXCEPT ![a].at = place]
Leaves(a, place) == ex' = [ex EXCEPT ![a] = [Fresh EXCEPT !.at = place]]
(* Faulty variant, for a mutation run: waits for a live owner are charged. *)
ClassChargesWaits(code) ==
    IF code \in {"authority_failed", "clock_regression", "terminal_evidence_from_future",
                "safe_wait"}
    THEN "retryable" ELSE "permanent"

(* classify_terminal_outbox_failure *)
Class(code) ==
    IF code = "safe_wait" THEN "safe_wait"
    ELSE IF code \in {"authority_failed", "clock_regression",
                     "terminal_evidence_from_future"} THEN "retryable"
    ELSE "permanent"

(* A pass goes on; it ends; or it ends after releasing its lease.  What it *)
(* will not ask again is forgotten.                                        *)
Step(r, place) ==
    [rc EXCEPT ![r] = [@ EXCEPT !.at = place, !.graced = FALSE, !.old = FALSE, !.ahead = FALSE]]
EndsAt(r, place, code) ==
    [rc EXCEPT ![r] = [Idle EXCEPT !.at = place, !.target = rc[r].target, !.class = Class(code)]]
Ends(r, code) == EndsAt(r, "finish", code)

(* The lease row or the heartbeat changes after a reconciler's reading: it *)
(* still finds the owner alive, or its reading is too old to acquire the   *)
(* row (t >= updated_at).                                                  *)
AuthorityMoves(passes) ==
    [r \in Reconcilers |-> IF passes[r].at \in {"assess", "acquire"}
                           THEN [passes[r] EXCEPT !.old = TRUE] ELSE passes[r]]

(* A heartbeat is sent, together with a change of the lease row.           *)
OwnerBeats(passes) ==
    [r \in Reconcilers |-> IF passes[r].at = "assess"
                           THEN [passes[r] EXCEPT !.old = TRUE, !.ahead = TRUE]
                           ELSE AuthorityMoves(passes)[r]]

(* The run row or the checkpoint changes after a reconciler's reading. *)
FactsMove(passes) ==
    [r \in Reconcilers |-> IF passes[r].at \in {"assess", "acquire", "fence", "commit"}
                           THEN [passes[r] EXCEPT !.late = TRUE] ELSE passes[r]]

(* History: while the outbox was pending, the run moved on, or a stalled   *)
(* reconciler lost its lease to another.                                   *)
Disturbed(b) ==
    [a \in Attempts |-> IF b[a].state = "pending" THEN [b[a] EXCEPT !.disturbed = TRUE]
                        ELSE b[a]]

(* Faulty variant, for a mutation run. *)
DeliveredNever(a) == box

(* _deliver_terminal_outbox_with_connection, called in the transaction     *)
(* that closes the attempt.  It does not ask for an abandon receipt.       *)
Delivered(a) ==
    IF box[a].state # "pending" THEN box
    ELSE [box EXCEPT ![a] = [NoBox EXCEPT !.state = "delivered", !.dispatch = "delivered",
                                          !.abandoned = box[a].abandoned]]

(* save_run: a decision is inserted the first time only (INSERT OR IGNORE) *)
(* and keeps the time of that.  Nothing asks for the time of a running one. *)
SavedRun(d, error) ==
    /\ run' = [decision |-> d, error |-> error]
    /\ recorded' = [c \in DOMAIN recorded |->
                       IF c = d /\ recorded[c] = Never THEN Admitted ELSE recorded[c]]

-----------------------------------------------------------------------------
(* Faulty variants, for mutation runs: an outcome that a late executor may *)
(* replace; a checkpoint that never looks at the attempts; a wait that is  *)
(* not taken for an end; a claim that looks at the failure head only, or   *)
(* that never takes over an expired one; a report without the claim, or    *)
(* without a budget.                                                       *)
OpenOrReconciled == {"requested", "admitted", "reconciled"}
AcceptsAny(status) == TRUE
BoxesOfFinal(status, b) ==
    IF status \in {"running", "waiting"} THEN b
    ELSE [a \in Attempts |-> IF a \in Admitted THEN NewBox ELSE b[a]]
ClaimableByHead(a) ==
    /\ box[a].state = "pending" /\ ~box[a].dead
    /\ \/ box[a].dispatch = "idle" /\ box[a].due
       \/ box[a].dispatch = "claimed" /\ ~box[a].live
ClaimableIdle(a) ==
    /\ box[a].state = "pending" /\ ~box[a].dead /\ ~box[a].abandoned
    /\ box[a].dispatch = "idle" /\ box[a].due
OwnsAnyClaim(r) ==
    LET b == box[rc[r].target] IN b.state = "pending" /\ b.dispatch = "claimed"
ReportedForever(b, class) ==
    [b EXCEPT !.dispatch = "idle", !.by = NoOne, !.live = FALSE, !.dead = class = "permanent",
              !.failures = @ + (IF class = "safe_wait" THEN 0 ELSE 1)]

-----------------------------------------------------------------------------
(* The executor of an attempt. *)

Open == {"requested", "admitted"}

HoldsLease(a) == lease = [holder |-> a, live |-> TRUE]

(* resume_persisted and the reads before the lease: the attempt is on      *)
(* record first; a run that has ended or whose checkpoint failed is left.  *)
Request(a) ==
    /\ ex[a].at = "new"
    /\ attempt' = [attempt EXCEPT ![a] = "requested"]
    /\ Goes(a, IF run.error \/ run.decision.status \in Final THEN "settle" ELSE "open")
    /\ UNCHANGED <<rows, graced, box, lease, beat, rc, faults>>

(* _open_run_lease: the session and its first heartbeat. *)
OpenLease(a) ==
    /\ ex[a].at = "open"
    /\ \/ /\ ~lease.live
          /\ lease' = [holder |-> a, live |-> TRUE]
          /\ beat' = a
          /\ rc' = OwnerBeats(rc)
          /\ box' = Disturbed(box)
          /\ Goes(a, "resume")
       \/ /\ lease.live
          /\ Leaves(a, "settle")
          /\ UNCHANGED <<lease, beat, box, rc>>
    /\ UNCHANGED <<rows, attempt, graced, faults>>

(* _require_run_lease, and the decision to be stored at `first`; `then` is *)
(* where the executor goes when run row and checkpoint are written.        *)
Decide(a, place, d, first, then) ==
    /\ ex[a].at = place
    /\ \/ /\ HoldsLease(a)
          /\ ex' = [ex EXCEPT ![a] = [@ EXCEPT !.at = first, !.decision = d, !.then = then]]
       \/ /\ ~HoldsLease(a)
          /\ Leaves(a, "close")
    /\ UNCHANGED <<rows, attempt, graced, box, lease, beat, rc, faults>>

(* _resume_persisted_locked: the run is refused and the checkpoint left as *)
(* it is, it still waits, or it is continued.                              *)
Resume(a) ==
    \/ \E d \in Outcomes :
          \/ d.status = "blocked" /\ Decide(a, "resume", d, "save_only", "close")
          \/ d.status = "waiting" /\ Decide(a, "resume", d, "save_reconciled", "close")
    \/ Decide(a, "resume", Going, "save", "admit")

(* mark_recovery_attempt_admitted *)
Admit(a) ==
    /\ ex[a].at = "admit"
    /\ attempt' = [attempt EXCEPT ![a] = "admitted"]
    /\ Goes(a, "loop")
    /\ UNCHANGED <<rows, graced, box, lease, beat, rc, faults>>

(* _pursue_under_lease goes on, asks the user a question, or ends. *)
Loop(a) ==
    \/ Decide(a, "loop", Going, "save", "loop")
    \/ \E d \in Outcomes :
          \/ d.status = "waiting" /\ Decide(a, "loop", d, "save", "asked")
          \/ Decide(a, "loop", d, "save", "close")

(* _resolve_user_interaction; or the loop returns with the question open,  *)
(* after one more checkpoint, without a fence.                             *)
Asked(a) ==
    \/ Decide(a, "asked", Going, "save", "loop")
    \/ /\ ex[a].at = "asked"
       /\ ex' = [ex EXCEPT ![a].at = "checkpoint", ![a].then = "close"]
       /\ UNCHANGED <<rows, attempt, graced, box, lease, beat, rc, faults>>

(* _persist_run asks the session only. *)
SaveRun(a) ==
    /\ ex[a].at \in {"save", "save_only", "save_reconciled"}
    /\ \/ /\ ~ex[a].lost
          /\ SavedRun(ex[a].decision, FALSE)
          /\ box' = Disturbed(box)
          /\ rc' = FactsMove(rc)
          /\ Goes(a, CASE ex[a].at = "save" -> "checkpoint"
                       [] ex[a].at = "save_only" -> "close"
                       [] ex[a].at = "save_reconciled" -> "reconciled")
       \/ /\ ex[a].lost
          /\ Leaves(a, "close")
          /\ UNCHANGED <<run, recorded, box, rc>>
    /\ UNCHANGED <<checkpoint, attempt, graced, lease, beat, faults>>

(* _enqueue_terminal_outbox_with_connection: what a terminal checkpoint    *)
(* needs once an attempt is admitted, or else it is refused. *)
Accepts(status) ==
    status # "running" /\ Admitted # {} =>
        /\ Cardinality(Admitted) = 1
        /\ run.decision.status = status
        /\ Admitted \subseteq recorded[run.decision]
        /\ \A a \in Admitted : box[a].state = "none"

Boxes(status, b) ==
    IF status = "running" THEN b
    ELSE [a \in Attempts |-> IF a \in Admitted THEN NewBox ELSE b[a]]

(* save_checkpoint: _persist_checkpoint asks the session, and              *)
(* _persist_reconciled_checkpoint does not.  A number that is taken has    *)
(* other content.                                                          *)
SaveCheckpoint(a) ==
    LET status == ex[a].decision.status
        reconciled == ex[a].at = "reconciled"
        admitted == ex[a].based /\ Accepts(status)
    IN
    /\ ex[a].at \in {"checkpoint", "reconciled"}
    /\ \/ /\ ~reconciled /\ ex[a].lost
          /\ Leaves(a, "close")
          /\ UNCHANGED <<checkpoint, box, rc>>
       \/ /\ reconciled \/ ~ex[a].lost
          /\ admitted
          /\ checkpoint' = [status |-> status, after |-> Admitted,
                            covers |-> {d \in DOMAIN recorded : recorded[d] # Never}]
          /\ box' = Boxes(status, Disturbed(box))
          /\ rc' = FactsMove(rc)
          /\ ex' = [b \in Attempts |->
                       IF b = a THEN [ex[a] EXCEPT !.at = ex[a].then]
                       ELSE IF ex[b].at \in {"new", "close", "settle", "done", "dead"}
                       THEN ex[b] ELSE [ex[b] EXCEPT !.based = FALSE]]
       \/ /\ reconciled \/ ~ex[a].lost
          /\ ~admitted
          /\ Goes(a, "refused")
          /\ UNCHANGED <<checkpoint, box, rc>>
    /\ UNCHANGED <<run, recorded, attempt, graced, lease, beat, faults>>

(* _mark_checkpoint_error *)
MarkError(a) ==
    /\ ex[a].at = "refused"
    /\ \/ /\ ~ex[a].lost
          /\ SavedRun(Broken, TRUE)
          /\ box' = Disturbed(box)
          /\ rc' = FactsMove(rc)
       \/ /\ ex[a].lost
          /\ UNCHANGED <<run, recorded, box, rc>>
    /\ Leaves(a, "close")
    /\ UNCHANGED <<checkpoint, attempt, graced, lease, beat, faults>>

(* _close_run_lease: release, and the last heartbeat says stopped. *)
Close(a) ==
    /\ ex[a].at = "close"
    /\ lease' = IF HoldsLease(a) THEN [holder |-> NoOne, live |-> FALSE] ELSE lease
    /\ beat' = IF beat = a THEN NoOne ELSE beat
    /\ rc' = OwnerBeats(rc)
    /\ Leaves(a, "settle")
    /\ UNCHANGED <<rows, attempt, graced, box, faults>>

(* _resolve_recovery_attempt and _fail_recovery_attempt: an attempt that   *)
(* somebody else has closed is left as it is.                              *)
Settle(a) ==
    /\ ex[a].at = "settle"
    /\ \/ /\ attempt[a] \in Open
          /\ attempt' = [attempt EXCEPT ![a] = "closed"]
          /\ box' = Delivered(a)
       \/ /\ attempt[a] \notin Open
          /\ UNCHANGED <<attempt, box>>
    /\ Leaves(a, "done")
    /\ UNCHANGED <<rows, graced, lease, beat, rc, faults>>

Running(a) == ex[a].at \notin {"new", "settle", "done", "dead"}

(* renew_now(): the keepalive renews the lease and sends a heartbeat, until *)
(* _close_run_lease has stopped it.                                        *)
KeepAlive(a) ==
    /\ Running(a) /\ HoldsLease(a)
    /\ beat' = a
    /\ rc' = OwnerBeats(rc)
    /\ UNCHANGED <<rows, attempt, graced, box, lease, ex, faults>>

(* The keepalive finds out, as far as the executor asks its session only.  *)
Notice(a) ==
    /\ ex[a].at \in {"save", "save_only", "save_reconciled", "checkpoint", "refused"}
    /\ ~ex[a].lost /\ ~HoldsLease(a)
    /\ ex' = [ex EXCEPT ![a].lost = TRUE]
    /\ UNCHANGED <<rows, attempt, graced, box, lease, beat, rc, faults>>

(* The executor's task is cancelled where it awaits. *)
Cancel(a) ==
    /\ ex[a].at \in {"resume", "loop", "asked"}
    /\ Leaves(a, "close")
    /\ UNCHANGED <<rows, attempt, graced, box, lease, beat, rc, faults>>

Crash(a) ==
    /\ Running(a) \/ ex[a].at = "settle"
    /\ Leaves(a, "dead")
    /\ UNCHANGED <<rows, attempt, graced, box, lease, beat, rc, faults>>

Work(a) ==
    \/ Request(a) \/ OpenLease(a) \/ Resume(a) \/ Admit(a) \/ Loop(a) \/ Asked(a)
    \/ SaveRun(a) \/ SaveCheckpoint(a) \/ MarkError(a) \/ Close(a) \/ Settle(a)

-----------------------------------------------------------------------------
(* The clock.  Whose lease has expired is asked for reconcilers only: to   *)
(* release a lease or to renew it, an executor needs a live one.           *)

ExpireLease ==
    /\ lease.live
    /\ lease' = [lease EXCEPT !.live = FALSE, !.holder = IF @ \in Attempts THEN NoOne ELSE @]
    /\ rc' = AuthorityMoves(rc)
    /\ UNCHANGED <<rows, attempt, graced, box, beat, ex, faults>>

BeatStale ==
    /\ beat # NoOne
    /\ beat' = NoOne
    /\ rc' = AuthorityMoves(rc)
    /\ UNCHANGED <<rows, attempt, graced, box, lease, ex, faults>>

GraceOver(a) ==
    /\ attempt[a] = "admitted" /\ a \notin graced
    /\ graced' = graced \cup {a}
    /\ UNCHANGED <<rows, attempt, box, lease, beat, ex, rc, faults>>

(* next_attempt_at: at the earliest when the grace period is over. *)
BoxDue(a) ==
    /\ box[a].dispatch = "idle" /\ ~box[a].due /\ a \in graced
    /\ box' = [box EXCEPT ![a].due = TRUE]
    /\ UNCHANGED <<rows, attempt, graced, lease, beat, ex, rc, faults>>

ClaimExpires(a) ==
    /\ box[a].dispatch = "claimed" /\ box[a].live
    /\ box' = [box EXCEPT ![a].live = FALSE]
    /\ UNCHANGED <<rows, attempt, graced, lease, beat, ex, rc, faults>>

-----------------------------------------------------------------------------
(* reconcile_pursuit_recovery_attempt, by a worker or by a user. *)

(* claim_next_terminal_outbox *)
Claimable(a) ==
    /\ box[a].state = "pending" /\ ~box[a].dead /\ ~box[a].abandoned
    /\ \/ box[a].dispatch = "idle" /\ box[a].due
       \/ box[a].dispatch = "claimed" /\ ~box[a].live

Begins(r, a) == rc' = [rc EXCEPT ![r] = [Idle EXCEPT !.at = "assess", !.target = a,
                                                     !.graced = a \in graced]]

Claim(r, a) ==
    /\ r \in Workers /\ rc[r].at = "idle"
    /\ Claimable(a)
    /\ box' = [box EXCEPT ![a] = [@ EXCEPT !.dispatch = "claimed", !.by = r,
                                           !.live = TRUE, !.due = FALSE]]
    /\ Begins(r, a)
    /\ UNCHANGED <<rows, attempt, graced, lease, beat, ex, faults>>

(* A person asks about an attempt that looks orphaned; other questions are *)
(* answered without changing anything.                                     *)
Ask(r, a) ==
    /\ r \in Users /\ rc[r].at = "idle"
    /\ attempt[a] = "admitted" /\ a \in graced /\ beat = NoOne /\ ~lease.live
    /\ Begins(r, a)
    /\ UNCHANGED <<rows, attempt, graced, box, lease, beat, ex, faults>>

(* A call of the lease authority fails. *)
Fails(r, place) ==
    /\ faults < MaxFaults
    /\ faults' = faults + 1
    /\ rc' = EndsAt(r, place, "authority_failed")
    /\ UNCHANGED lease

(* assess_heartbeat: a heartbeat later than the reading looks like a clock *)
(* that was set back.  What this costs a worker is counted like a fault.   *)
Overtaken(r) ==
    /\ rc[r].ahead
    /\ faults' = IF r \in Workers /\ faults < MaxFaults + MaxFailures THEN faults + 1
                 ELSE faults
    /\ rc' = Ends(r, "clock_regression")
    /\ UNCHANGED lease

Assess(r) ==
    LET a == rc[r].target IN
    /\ rc[r].at = "assess"
    /\ \/ /\ attempt[a] \notin Open
          /\ rc' = Ends(r, "already_terminal")
          /\ UNCHANGED <<lease, faults>>
       \/ /\ attempt[a] = "requested"
          /\ rc' = Ends(r, "request_not_admitted")
          /\ UNCHANGED <<lease, faults>>
       \/ /\ attempt[a] = "admitted"
          /\ ~rc[r].graced \/ beat # NoOne \/ lease.live
          /\ rc' = Ends(r, "safe_wait")
          /\ UNCHANGED <<lease, faults>>
       \/ /\ attempt[a] = "admitted" /\ rc[r].graced
          /\ beat = NoOne /\ ~lease.live
          /\ rc' = [rc EXCEPT ![r].at = "acquire"]
          /\ UNCHANGED <<lease, faults>>
       \/ attempt[a] = "admitted" /\ rc[r].graced /\ (Overtaken(r) \/ Fails(r, "finish"))
    /\ UNCHANGED <<rows, attempt, graced, box, beat, ex>>

MayTake(r) == ~lease.live /\ ~rc[r].old

Acquire(r) ==
    /\ rc[r].at = "acquire"
    /\ \/ /\ MayTake(r)
          /\ lease' = [holder |-> r, live |-> TRUE]
          /\ rc' = AuthorityMoves(Step(r, "fence"))
          /\ box' = IF lease.holder = NoOne THEN box ELSE Disturbed(box)
          /\ UNCHANGED faults
       \/ /\ ~MayTake(r)
          /\ rc' = Ends(r, "safe_wait")
          /\ UNCHANGED <<lease, box, faults>>
       \/ Fails(r, "finish") /\ UNCHANGED box
    /\ UNCHANGED <<rows, attempt, graced, beat, ex>>

(* record_run_fence_decision with the old reading: it is accepted while    *)
(* nobody else has taken the row.                                          *)
Fence(r) ==
    /\ rc[r].at = "fence"
    /\ \/ /\ lease.holder = r
          /\ rc' = Step(r, "commit")
          /\ UNCHANGED <<lease, faults>>
       \/ /\ lease.holder # r
          /\ rc' = EndsAt(r, "release", "fence_rejected")
          /\ UNCHANGED <<lease, faults>>
       \/ Fails(r, "release")
    /\ UNCHANGED <<rows, attempt, graced, box, beat, ex>>

(* A terminal boundary and a checkpoint from after the admission. *)
EndedAfter(a) ==
    /\ run.decision.status # "running" /\ a \in recorded[run.decision]
    /\ a \in checkpoint.after

(* reconcile_admitted_recovery_attempt: what it finds, in its order. *)
Finding(r) ==
    LET a == rc[r].target IN
    CASE attempt[a] \notin Open -> "already_terminal"
      [] ~EndedAfter(a) -> "terminal_evidence_missing"
      [] rc[r].late -> "terminal_evidence_from_future"
      [] checkpoint.status # run.decision.status \/ run.decision \notin checkpoint.covers
            -> "terminal_evidence_inconsistent"
      [] OTHER -> "reconciled"

Commit(r) ==
    /\ rc[r].at = "commit"
    /\ \/ /\ Finding(r) = "reconciled"
          /\ attempt' = [attempt EXCEPT ![rc[r].target] = "reconciled"]
          /\ box' = Delivered(rc[r].target)
       \/ /\ Finding(r) # "reconciled"
          /\ UNCHANGED <<attempt, box>>
    /\ rc' = EndsAt(r, "release", Finding(r))
    /\ UNCHANGED <<rows, graced, lease, beat, ex, faults>>

Release(r) ==
    /\ rc[r].at = "release"
    /\ \/ /\ lease.holder = r
          /\ lease' = [holder |-> NoOne, live |-> FALSE]
          /\ rc' = AuthorityMoves([rc EXCEPT ![r].at = "finish"])
       \/ /\ lease.holder # r
          /\ rc' = [rc EXCEPT ![r].at = "finish"]
          /\ UNCHANGED lease
    /\ UNCHANGED <<rows, attempt, graced, box, beat, ex, faults>>

(* The check that record_terminal_outbox_failure and                       *)
(* release_terminal_outbox_claim share; an owner has one claim at a time,  *)
(* which stands for the claim epoch.                                       *)
OwnsClaim(r) ==
    LET b == box[rc[r].target] IN
    b.state = "pending" /\ b.dispatch = "claimed" /\ b.by = r /\ b.live

Reported(b, class) ==
    LET failures == b.failures + (IF class = "safe_wait" THEN 0 ELSE 1)
        dead == class = "permanent" \/ (class = "retryable" /\ failures >= MaxFailures)
    IN [b EXCEPT !.dispatch = "idle", !.by = NoOne, !.live = FALSE,
                 !.dead = dead, !.failures = IF dead THEN 0 ELSE failures]

(* The end of a pass: a worker gives its claim back, and a refusal of that *)
(* is only logged. *)
Finish(r) ==
    LET a == rc[r].target IN
    /\ rc[r].at = "finish"
    /\ \/ /\ r \in Workers /\ OwnsClaim(r)
          /\ box' = [box EXCEPT ![a] = Reported(@, rc[r].class)]
       \/ ~(r \in Workers /\ OwnsClaim(r)) /\ UNCHANGED box
    /\ rc' = [rc EXCEPT ![r] = Idle]
    /\ UNCHANGED <<rows, attempt, graced, lease, beat, ex, faults>>

(* The pass dies with its process: claim and lease stay until they expire. *)
PassDies(r) ==
    /\ rc[r].at # "idle" /\ faults < MaxFaults
    /\ faults' = faults + 1
    /\ rc' = [rc EXCEPT ![r] = Idle]
    /\ lease' = IF lease.holder = r THEN [lease EXCEPT !.holder = NoOne] ELSE lease
    /\ box' = [a \in Attempts |-> IF box[a].by = r THEN [box[a] EXCEPT !.by = NoOne]
                                  ELSE box[a]]
    /\ UNCHANGED <<rows, attempt, graced, beat, ex>>

(* requeue_terminal_outbox_dead_letter: a full budget, due at once.        *)
Requeue(a) ==
    /\ box[a].state = "pending" /\ box[a].dispatch = "idle" /\ box[a].dead
    /\ box[a].requeues < MaxRequeues
    /\ box' = [box EXCEPT ![a] = [@ EXCEPT !.dead = FALSE, !.due = TRUE,
                                           !.requeues = box[a].requeues + 1]]
    /\ UNCHANGED <<rows, attempt, graced, lease, beat, ex, rc, faults>>

(* abandon_terminal_outbox_dead_letter also clears the failure head. *)
Abandon(a) ==
    /\ box[a].state = "pending" /\ box[a].dispatch = "idle" /\ box[a].dead
    /\ box' = [box EXCEPT ![a] = [@ EXCEPT !.dead = FALSE, !.abandoned = TRUE]]
    /\ UNCHANGED <<rows, attempt, graced, lease, beat, ex, rc, faults>>

Pass(r) ==
    \/ \E a \in Attempts : Claim(r, a)
    \/ Assess(r) \/ Acquire(r) \/ Fence(r) \/ Commit(r) \/ Release(r) \/ Finish(r)

Next ==
    \/ \E a \in Attempts :
          \/ Work(a) \/ KeepAlive(a) \/ Notice(a) \/ Cancel(a) \/ Crash(a)
          \/ GraceOver(a) \/ BoxDue(a) \/ ClaimExpires(a)
          \/ Requeue(a) \/ Abandon(a)
          \/ \E r \in Reconcilers : Ask(r, a)
    \/ \E r \in Reconcilers : Pass(r) \/ PassDies(r)
    \/ ExpireLease \/ BeatStale

(* Time passes, and a worker that has a pass to make makes it.  Executors  *)
(* come to an end: an iteration budget bounds the loop.  Nobody has to     *)
(* start a recovery, answer, requeue or abandon.                           *)
Ending(a) ==
    \/ OpenLease(a) \/ Resume(a) \/ Admit(a) \/ SaveRun(a) \/ SaveCheckpoint(a)
    \/ MarkError(a) \/ Close(a) \/ Settle(a)

Fairness ==
    /\ WF_vars(ExpireLease) /\ WF_vars(BeatStale)
    /\ \A a \in Attempts :
          /\ WF_vars(Ending(a)) /\ SF_vars(Loop(a) /\ ex'[a].decision # Going)
          /\ WF_vars(Asked(a))
          /\ WF_vars(GraceOver(a)) /\ WF_vars(BoxDue(a)) /\ WF_vars(ClaimExpires(a))
    /\ \A r \in Reconcilers : WF_vars(Pass(r))

Spec == Init /\ [][Next]_vars /\ Fairness

-----------------------------------------------------------------------------
(* Properties. *)

(* Every row, executor and pass has its shape. *)
TypeOK ==
    LET all == Outcomes \cup {Going, Broken} IN
    /\ run \in [decision : all, error : BOOLEAN]
    /\ recorded \in [Outcomes \cup {Broken} -> (SUBSET Attempts) \cup {Never}]
    /\ checkpoint.status \in {d.status : d \in Outcomes \cup {Going}}
    /\ checkpoint.after \subseteq Attempts /\ checkpoint.covers \subseteq all
    /\ attempt \in [Attempts -> {"none", "requested", "admitted", "closed", "reconciled"}]
    /\ graced \subseteq Attempts
    /\ \A a \in Attempts :
          /\ box[a].state \in {"none", "pending", "delivered"}
          /\ box[a].dispatch \in {"none", "idle", "claimed", "delivered"}
          /\ box[a].failures \in 0..(MaxFailures - 1) /\ box[a].requeues \in 0..MaxRequeues
          /\ ex[a].decision \in Outcomes \cup {Going}
    /\ lease.holder \in Attempts \cup Reconcilers \cup {NoOne}
    /\ beat \in Attempts \cup {NoOne}
    /\ \A r \in Reconcilers : rc[r].target \in Attempts \cup {NoOne}
    /\ faults \in 0..(MaxFaults + MaxFailures)

(* An outbox is delivered exactly when its attempt has an outcome, whoever *)
(* brought it: the executor that comes back late, a worker or a user       *)
(* (_deliver_terminal_outbox_with_connection).                             *)
ClosedIffDelivered ==
    \A a \in Attempts : box[a].state # "none" =>
        (box[a].state = "delivered" <=> attempt[a] \in {"closed", "reconciled"})

(* "A complete terminal checkpoint and no outbox" does not happen, whoever *)
(* wrote the checkpoint: an attempt that is still admitted behind it can   *)
(* be found by a worker (_enqueue_terminal_outbox_with_connection).        *)
TerminalHasOutbox ==
    \A a \in checkpoint.after :
        checkpoint.status # "running" /\ attempt[a] = "admitted" => box[a].state # "none"

(* The orphans of one run do not pile up undelivered outboxes.             *)
AtMostOnePending == Cardinality({a \in Attempts : box[a].state = "pending"}) <= 1

(* An attempt has one outcome: an executor that wakes up behind its        *)
(* reconciliation does not replace it, and nobody reconciles what it has   *)
(* settled in the meantime.                                                *)
OutcomesStay ==
    [][\A a \in Attempts :
          attempt[a] \in {"closed", "reconciled"} => attempt'[a] = attempt[a]]_vars

(* A live claim of a worker ends in its own report or in the delivery, and *)
(* in nobody else's report: a pass that has outlived its claim does not    *)
(* give back the claim of the worker that took over.                       *)
ClaimsAreKept ==
    [][\A a \in Attempts, r \in Workers :
          /\ box[a].dispatch = "claimed" /\ box[a].by = r /\ box[a].live
          /\ box'[a].dispatch = "idle"
          => rc[r].at = "finish" /\ rc'[r].at = "idle"]_vars

(* What a person decides about is in nobody's hands: neither a dead letter *)
(* nor an abandoned outbox is claimed, however the claims, reports and     *)
(* decisions follow each other.                                            *)
DecidedAtRest ==
    \A a \in Attempts : box[a].dead \/ box[a].abandoned => box[a].dispatch # "claimed"

(* Waiting for a live owner or a grace period costs no attempt.  While     *)
(* nothing moves the run on, an outbox is dead only behind as many failing *)
(* calls, or heartbeats that overtook the reading of a pass, as it had     *)
(* attempts (classify_terminal_outbox_failure, assess_heartbeat).          *)
DeadLetterHasCause ==
    \A a \in Attempts :
        box[a].dead /\ faults < MaxFailures => box[a].disturbed

(* Every pending outbox comes to rest: delivered, dead or abandoned, also  *)
(* when the worker that had claimed it died; provided that passes are at   *)
(* last shorter than the claims and leases they work under.                *)
PassesGetPrompt ==
    <>[][/\ \A a \in Attempts : ClaimExpires(a) => box[a].by = NoOne
         /\ ExpireLease => lease.holder \notin Reconcilers]_vars

PendingSettles ==
    PassesGetPrompt => \A a \in Attempts :
        box[a].state = "pending"
        ~> (box[a].state = "delivered" \/ box[a].dead \/ box[a].abandoned)

=============================================================================
