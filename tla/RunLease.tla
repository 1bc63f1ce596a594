------------------------------ MODULE RunLease ------------------------------
(***************************************************************************)
(* The durable run lease of the Harness store: one row per                 *)
(* (workspace, run kind, run id) names the owner of a long-running         *)
(* execution and a fencing epoch; a ledger records, once per operation id, *)
(* whether a result presented with an owner and an epoch was current.      *)
(*                                                                         *)
(* Every operation of HarnessStore is one BEGIN IMMEDIATE transaction, so  *)
(* each is one action here.  Rows of different runs never interact; the    *)
(* module models one.  An owner passes its own reading of the wall clock.  *)
(* clock[o] is the reading owner o presents next: the owners' clocks are   *)
(* independent, which covers skew between machines as well as a reading    *)
(* that is old by the time its transaction gets the write lock.            *)
(***************************************************************************)
EXTENDS Naturals

CONSTANTS
    Owners,           \* owner ids (one per lease session or worker)
    NoOwner,          \* the owner of a row that does not exist yet
    Operations,       \* operation ids of fenced results
    LeaseSeconds,     \* the lease duration every caller passes
    ClocksStepBack,   \* may a wall clock be set back?
    MaxTime,          \* bound: clock readings
    MaxEpoch          \* bound: epochs ever granted

ASSUME OwnersAssumption == NoOwner \notin Owners
ASSUME LeaseAssumption  == LeaseSeconds \in Nat \ {0}
ASSUME BoundsAssumption ==
    MaxTime \in Nat /\ MaxEpoch \in Nat /\ ClocksStepBack \in BOOLEAN

VARIABLES
    lease,      \* the harness_run_leases row
    receipts,   \* harness_run_fence_events: operation id -> receipt
    clock       \* owner -> its next wall clock reading

vars == <<lease, receipts, clock>>

-----------------------------------------------------------------------------
Lease == [owner : Owners \cup {NoOwner}, epoch : Nat,
          state : {"missing", "active", "released"},
          acquired_at : Nat, expires_at : Nat, updated_at : Nat]

(* No row yet.  The fence check reports it as owner "" and epoch 0. *)
MissingLease ==
    [owner |-> NoOwner, epoch |-> 0, state |-> "missing",
     acquired_at |-> 0, expires_at |-> 0, updated_at |-> 0]

Reasons == {"current", "missing", "released", "clock_regression", "expired",
            "owner_mismatch", "epoch_mismatch"}

Receipt == [owner : Owners, epoch : Nat, active_owner : Owners \cup {NoOwner},
            active_epoch : Nat, reason : Reasons, checked_at : Nat]

(* No operation of this id has been fenced yet. *)
NoReceipt ==
    [owner |-> NoOwner, epoch |-> 0, active_owner |-> NoOwner,
     active_epoch |-> 0, reason |-> "missing", checked_at |-> 0]

Later(s, t) == IF s > t THEN s ELSE t

-----------------------------------------------------------------------------
(* The row belongs to o and has not expired at t. *)
LiveFor(o, t) ==
    /\ lease.state = "active"
    /\ lease.owner = o
    /\ lease.expires_at > t

(* Faulty variants of the operators below, for mutation runs: a lease that *)
(* is free before it expires; a takeover that keeps the epoch; a retry     *)
(* that starts the window again; a write that names a state no reader      *)
(* knows; a fence that compares no token.                                  *)
MayAcquireEarly(o, t) == lease.state = "missing" \/ t >= lease.updated_at

AcquiredLeaseSameEpoch(o, t) ==
    [owner |-> o, epoch |-> Later(lease.epoch, 1), state |-> "active",
     acquired_at |-> t, expires_at |-> t + LeaseSeconds, updated_at |-> t]

AcquiredLeaseAnew(o, t) ==
    [owner |-> o, epoch |-> IF LiveFor(o, t) THEN lease.epoch ELSE lease.epoch + 1,
     state |-> "active", acquired_at |-> t, expires_at |-> t + LeaseSeconds,
     updated_at |-> t]

UpdatedLeaseMisnamed(state, expiresAt, t) ==
    [lease EXCEPT !.state = IF state = "released" THEN "closed" ELSE state,
                  !.expires_at = expiresAt, !.updated_at = t]

FenceReasonNoToken(o, e, t) ==
    IF lease.state # "active" THEN lease.state
    ELSE IF lease.expires_at <= t THEN "expired" ELSE "current"

-----------------------------------------------------------------------------
(* acquire_run_lease: the conflict clause's WHERE, or no row to conflict with. *)
MayAcquire(o, t) ==
    \/ lease.state = "missing"
    \/ /\ t >= lease.updated_at
       /\ \/ lease.state = "released"
          \/ lease.expires_at <= t
          \/ lease.owner = o

(* The row an admitted acquire leaves: a retry of the live owner keeps the *)
(* epoch and never shortens the lease, everyone else starts a new epoch.   *)
AcquiredLease(o, t) ==
    [owner       |-> o,
     epoch       |-> IF LiveFor(o, t) THEN lease.epoch ELSE lease.epoch + 1,
     state       |-> "active",
     acquired_at |-> IF LiveFor(o, t) THEN lease.acquired_at ELSE t,
     expires_at  |-> IF LiveFor(o, t)
                     THEN Later(lease.expires_at, t + LeaseSeconds)
                     ELSE t + LeaseSeconds,
     updated_at  |-> t]

(* What renew_run_lease and release_run_lease set: the token stays. *)
UpdatedLease(state, expiresAt, t) ==
    [owner |-> lease.owner, epoch |-> lease.epoch, state |-> state,
     acquired_at |-> lease.acquired_at, expires_at |-> expiresAt,
     updated_at |-> t]

(* renew_run_lease and release_run_lease: the WHERE they share. *)
Holds(o, e, t) ==
    /\ LiveFor(o, t)
    /\ lease.epoch = e
    /\ lease.updated_at <= t

(* _decide_run_fence: the first reason that applies, in the code's order. *)
FenceReason(o, e, t) ==
    IF lease.state = "missing"         THEN "missing"
    ELSE IF lease.state = "released"   THEN "released"
    ELSE IF t < lease.updated_at       THEN "clock_regression"
    ELSE IF lease.expires_at <= t      THEN "expired"
    ELSE IF lease.owner # o            THEN "owner_mismatch"
    ELSE IF lease.epoch # e            THEN "epoch_mismatch"
    ELSE "current"

FenceReceipt(o, e, t) ==
    [owner |-> o, epoch |-> e,
     active_owner |-> lease.owner, active_epoch |-> lease.epoch,
     reason |-> FenceReason(o, e, t), checked_at |-> t]

(* The decision is "accepted" exactly when the reason is "current". *)
Accepted(op) == receipts[op].reason = "current"

-----------------------------------------------------------------------------
Init ==
    /\ lease = MissingLease
    /\ receipts = [op \in Operations |-> NoReceipt]
    /\ clock = [o \in Owners |-> 0]

Acquire(o, t) ==
    /\ MayAcquire(o, t)
    /\ lease' = AcquiredLease(o, t)
    /\ UNCHANGED receipts

Renew(o, e, t) ==
    /\ Holds(o, e, t)
    /\ lease' = UpdatedLease("active", Later(lease.expires_at, t + LeaseSeconds), t)
    /\ UNCHANGED receipts

Release(o, e, t) ==
    /\ Holds(o, e, t)
    /\ lease' = UpdatedLease("released", t, t)
    /\ UNCHANGED receipts

RecordFence(op, o, e, t) ==
    /\ receipts[op] = NoReceipt
    /\ receipts' = [receipts EXCEPT ![op] = FenceReceipt(o, e, t)]
    /\ UNCHANGED lease

(* A retry of an operation id is answered with its first receipt, or       *)
(* refused when the owner or the epoch differ: nothing is decided again.   *)
RetryFence(op) ==
    /\ receipts[op] # NoReceipt
    /\ UNCHANGED <<lease, receipts>>

-----------------------------------------------------------------------------
OwnerStep(o) ==
    /\ \/ Acquire(o, clock[o]) /\ lease'.epoch <= MaxEpoch
       \/ \E e \in 1..MaxEpoch :
             \/ Renew(o, e, clock[o])
             \/ Release(o, e, clock[o])
             \/ \E op \in Operations : RecordFence(op, o, e, clock[o])
       \/ \E op \in Operations : RetryFence(op)
    /\ UNCHANGED clock

(* The next reading of o's wall clock, which may have been set back.       *)
Tick(o) ==
    \E t \in 0..MaxTime :
        /\ t > clock[o] \/ (ClocksStepBack /\ t < clock[o])
        /\ clock' = [clock EXCEPT ![o] = t]
        /\ UNCHANGED <<lease, receipts>>

Next == \E o \in Owners : OwnerStep(o) \/ Tick(o)

Spec == Init /\ [][Next]_vars

-----------------------------------------------------------------------------
(* The row, the ledger and the clocks stay within their columns' domains. *)
TypeOK ==
    /\ lease \in Lease
    /\ receipts \in [Operations -> Receipt \cup {NoReceipt}]
    /\ clock \in [Owners -> 0..MaxTime]

(* The row is consistent: no row before the first epoch, an owner from     *)
(* then on, its three times in order, and no window left once released.    *)
RowWellFormed ==
    /\ lease.state = "missing" => lease = MissingLease
    /\ lease.state # "missing" => lease.epoch > 0 /\ lease.owner \in Owners
    /\ lease.acquired_at <= lease.updated_at
    /\ lease.updated_at <= lease.expires_at
    /\ lease.updated_at <= MaxTime
    /\ lease.expires_at <= MaxTime + LeaseSeconds
    /\ lease.state = "released" => lease.expires_at = lease.updated_at

(* An epoch is a token of one owner: no two results accepted under the     *)
(* same epoch came from different owners, and none under the row's epoch   *)
(* came from anyone but the row's owner.                                   *)
OneOwnerPerEpoch ==
    \A p \in Operations : Accepted(p) =>
        /\ receipts[p].epoch <= lease.epoch
        /\ receipts[p].epoch = lease.epoch => receipts[p].owner = lease.owner
        /\ \A q \in Operations :
              Accepted(q) /\ receipts[q].epoch = receipts[p].epoch
                  => receipts[q].owner = receipts[p].owner

(* Accepted results lie behind the row and behind their owner's clock.     *)
ReceiptsBehindRow ==
    \A p \in Operations : Accepted(p) =>
        /\ receipts[p].checked_at <= clock[receipts[p].owner]
        /\ receipts[p].epoch = lease.epoch
              => receipts[p].checked_at <= lease.expires_at
        /\ receipts[p].epoch < lease.epoch
              => receipts[p].checked_at <= lease.acquired_at

(* The accepted results of different epochs do not interleave: on the      *)
(* timeline of the presented readings every result of an earlier epoch     *)
(* comes no later than every result of a later one, whatever the skew      *)
(* between the owners' clocks.                                             *)
EpochsDoNotInterleave ==
    \A p, q \in Operations :
        Accepted(p) /\ Accepted(q) /\ receipts[p].epoch < receipts[q].epoch
            => receipts[p].checked_at <= receipts[q].checked_at

(* A change of owner, and every return from released, costs a new epoch,   *)
(* so a process that comes back under an old token is told apart; and an   *)
(* epoch is taken from a live owner only by the owner's own release.       *)
EpochAdvances ==
    [][/\ lease'.epoch >= lease.epoch
       /\ lease'.owner # lease.owner => lease'.epoch > lease.epoch
       /\ lease.state = "released" /\ lease'.state = "active"
             => lease'.epoch > lease.epoch
       /\ lease.state = "active" /\ lease'.epoch > lease.epoch
             => lease'.acquired_at >= lease.expires_at]_lease

(* Within one epoch the lease only grows, unless the owner gives it up: an *)
(* owner that was told "yours until t" is never cut short.                 *)
LeaseNotShortened ==
    [][/\ lease'.updated_at >= lease.updated_at
       /\ lease'.epoch = lease.epoch /\ lease'.state = "active"
             => /\ lease'.expires_at >= lease.expires_at
                /\ lease'.acquired_at = lease.acquired_at]_lease

(* The abstract service the row implements: a tenure is an epoch of the    *)
(* row, its window runs from the acquisition to expires_at (a release      *)
(* moves expires_at to its own time), and the committed results are the    *)
(* accepted receipts.                                                      *)
tenureBar == [holder |-> lease.owner, epoch |-> lease.epoch,
              since |-> lease.acquired_at, until |-> lease.expires_at]

resultsBar ==
    {[owner |-> receipts[op].owner, epoch |-> receipts[op].epoch,
      at |-> receipts[op].checked_at] :
        op \in {p \in Operations : Accepted(p)}}

Promise == INSTANCE FencedOwnership
               WITH Times <- 0..(MaxTime + LeaseSeconds),
                    tenure <- tenureBar, results <- resultsBar

(* With clocks that are never set back the rows behave as the abstract     *)
(* service: a tenure begins only after the window of the last one, and a   *)
(* result commits only under the holder's epoch and inside its window.     *)
ImplementsFencedOwnership == Promise!Spec

=============================================================================
