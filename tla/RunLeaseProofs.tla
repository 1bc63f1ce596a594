--------------------------- MODULE RunLeaseProofs ---------------------------
(***************************************************************************)
(* Proofs about RunLease for every set of owners and operations, every     *)
(* lease duration and every bound.                                         *)
(*                                                                         *)
(* The argument: an accepted receipt carries the owner, the epoch and a    *)
(* time inside the window of the row it was checked against (FenceFacts).  *)
(* The row then only moves forward: an epoch is left behind for good, with *)
(* everything accepted under it dated before the next acquisition.  AnyInv *)
(* holds whatever the clocks do; ClockInv needs clocks that are never set  *)
(* back, because a fence check does not advance updated_at and a release   *)
(* with an earlier reading would end the window before it.                 *)
(***************************************************************************)
EXTENDS RunLease, TLAPS

(* Inductive whatever the clocks do. *)
AnyInv == TypeOK /\ RowWellFormed /\ OneOwnerPerEpoch

(* Inductive when no clock is set back. *)
ClockInv == AnyInv /\ ReceiptsBehindRow /\ EpochsDoNotInterleave

-----------------------------------------------------------------------------
LEMMA NoReceiptFacts == \A o \in Owners : NoReceipt.owner # o
BY OwnersAssumption DEF NoReceipt

(* What an operation that has a receipt looks like. *)
LEMMA AcceptedFacts ==
    ASSUME TypeOK, NEW p \in Operations, Accepted(p)
    PROVE  receipts[p] \in Receipt
BY DEF TypeOK, Accepted, NoReceipt

(* An accepted fence check was made against a live row of that owner and   *)
(* epoch, at a time inside its window.                                     *)
LEMMA FenceFacts ==
    ASSUME TypeOK, RowWellFormed,
           NEW o \in Owners, NEW e \in Nat, NEW t \in Nat,
           FenceReceipt(o, e, t).reason = "current"
    PROVE  /\ lease.state = "active"
           /\ lease.owner = o
           /\ lease.epoch = e
           /\ lease.updated_at <= t
           /\ t < lease.expires_at
BY DEF FenceReceipt, FenceReason, TypeOK, Lease, RowWellFormed

LEMMA FenceTyped ==
    ASSUME TypeOK, NEW o \in Owners, NEW e \in Nat, NEW t \in Nat
    PROVE  FenceReceipt(o, e, t) \in Receipt
BY DEF FenceReceipt, FenceReason, TypeOK, Lease, Receipt, Reasons

LEMMA AcquiredTyped ==
    ASSUME TypeOK, NEW o \in Owners, NEW t \in Nat
    PROVE  AcquiredLease(o, t) \in Lease
BY LeaseAssumption DEF AcquiredLease, TypeOK, Lease, Later, LiveFor

-----------------------------------------------------------------------------
LEMMA InitAny == Init => AnyInv
<1> SUFFICES ASSUME Init PROVE AnyInv
    OBVIOUS
<1>1. TypeOK
    BY BoundsAssumption DEF Init, TypeOK, Lease, MissingLease
<1>2. RowWellFormed
    BY BoundsAssumption, LeaseAssumption DEF Init, RowWellFormed, MissingLease
<1>3. OneOwnerPerEpoch
    BY DEF Init, OneOwnerPerEpoch, Accepted, NoReceipt
<1> QED BY <1>1, <1>2, <1>3 DEF AnyInv

(* An acquisition: everything accepted so far stays at or below the row's  *)
(* epoch, and at it only if the epoch was kept for the same owner.         *)
LEMMA AcquireAny ==
    ASSUME AnyInv, NEW o \in Owners, Acquire(o, clock[o]), UNCHANGED clock
    PROVE  AnyInv'
<1> DEFINE t == clock[o]
<1> USE DEF AnyInv
<1>1. t \in Nat /\ t <= MaxTime
    BY BoundsAssumption DEF TypeOK
<1>2. TypeOK'
    BY <1>1, AcquiredTyped DEF Acquire, TypeOK
<1>3. RowWellFormed'
    BY <1>1, LeaseAssumption, BoundsAssumption
    DEF Acquire, AcquiredLease, MayAcquire, LiveFor, Later, RowWellFormed,
        TypeOK, Lease, MissingLease
<1>4. OneOwnerPerEpoch'
    <2>1. /\ lease'.epoch \in Nat /\ lease'.epoch >= lease.epoch
          /\ lease'.epoch = lease.epoch => lease'.owner = lease.owner
        BY <1>1 DEF Acquire, AcquiredLease, LiveFor, TypeOK, Lease
    <2> QED BY <2>1, AcceptedFacts
        DEF OneOwnerPerEpoch, Accepted, Acquire, TypeOK, Lease, Receipt
<1> QED BY <1>2, <1>3, <1>4

(* Renewals and releases keep owner and epoch. *)
LEMMA KeepAny ==
    ASSUME AnyInv, NEW o \in Owners, NEW e \in 1..MaxEpoch,
           Renew(o, e, clock[o]) \/ Release(o, e, clock[o]), UNCHANGED clock
    PROVE  AnyInv'
<1> DEFINE t == clock[o]
<1> USE DEF AnyInv
<1>1. t \in Nat /\ t <= MaxTime
    BY BoundsAssumption DEF TypeOK
<1>2. TypeOK'
    BY <1>1, LeaseAssumption
    DEF Renew, Release, UpdatedLease, Holds, LiveFor, Later, TypeOK, Lease
<1>3. RowWellFormed'
    BY <1>1, LeaseAssumption, BoundsAssumption
    DEF Renew, Release, UpdatedLease, Holds, LiveFor, Later, RowWellFormed,
        TypeOK, Lease
<1>4. OneOwnerPerEpoch'
    <2>1. lease'.epoch = lease.epoch /\ lease'.owner = lease.owner
        BY DEF Renew, Release, UpdatedLease
    <2> QED BY <2>1 DEF OneOwnerPerEpoch, Accepted, Renew, Release
<1> QED BY <1>2, <1>3, <1>4

(* A fence check: an accepted one agrees with the row, and through it with *)
(* everything accepted under the row's epoch.                              *)
LEMMA FenceAny ==
    ASSUME AnyInv, NEW o \in Owners, NEW e \in 1..MaxEpoch, NEW op \in Operations,
           RecordFence(op, o, e, clock[o]), UNCHANGED clock
    PROVE  AnyInv'
<1> DEFINE t == clock[o]
<1> USE DEF AnyInv
<1>1. t \in Nat /\ e \in Nat
    BY BoundsAssumption DEF TypeOK
<1>2. TypeOK'
    BY <1>1, FenceTyped DEF RecordFence, TypeOK
<1>3. RowWellFormed'
    BY DEF RecordFence, RowWellFormed
<1>4. OneOwnerPerEpoch'
    <2>1. \A p \in Operations \ {op} : receipts'[p] = receipts[p]
        BY DEF RecordFence, TypeOK
    <2>2. receipts'[op] = FenceReceipt(o, e, t)
        BY DEF RecordFence, TypeOK
    <2>3. /\ receipts'[op].owner = o
          /\ receipts'[op].epoch = e
          /\ receipts'[op].reason = "current" => lease.owner = o /\ lease.epoch = e
        BY <1>1, <2>2, FenceFacts DEF FenceReceipt
    <2>4. lease' = lease
        BY DEF RecordFence
    <2> QED BY <1>1, <2>1, <2>3, <2>4 DEF OneOwnerPerEpoch, Accepted
<1> QED BY <1>2, <1>3, <1>4

LEMMA ClockAny ==
    ASSUME AnyInv, NEW o \in Owners, Tick(o)
    PROVE  AnyInv'
<1> USE DEF AnyInv
<1>1. TypeOK'
    BY BoundsAssumption DEF Tick, TypeOK
<1>2. RowWellFormed' /\ OneOwnerPerEpoch'
    BY DEF Tick, RowWellFormed, OneOwnerPerEpoch, Accepted
<1> QED BY <1>1, <1>2

LEMMA StutterAny == AnyInv /\ UNCHANGED vars => AnyInv'
BY DEF AnyInv, vars, TypeOK, RowWellFormed, OneOwnerPerEpoch, Accepted

LEMMA StepAny == AnyInv /\ [Next]_vars => AnyInv'
<1> SUFFICES ASSUME AnyInv, [Next]_vars PROVE AnyInv'
    OBVIOUS
<1>1. ASSUME NEW o \in Owners, OwnerStep(o) PROVE AnyInv'
    <2>1. UNCHANGED clock
        BY <1>1 DEF OwnerStep
    <2>2. CASE Acquire(o, clock[o])
        BY <2>1, <2>2, AcquireAny
    <2>3. ASSUME NEW e \in 1..MaxEpoch,
                 Renew(o, e, clock[o]) \/ Release(o, e, clock[o])
          PROVE  AnyInv'
        BY <2>1, <2>3, KeepAny
    <2>4. ASSUME NEW e \in 1..MaxEpoch, NEW op \in Operations,
                 RecordFence(op, o, e, clock[o])
          PROVE  AnyInv'
        BY <2>1, <2>4, FenceAny
    <2>5. ASSUME NEW op \in Operations, RetryFence(op) PROVE AnyInv'
        BY <2>1, <2>5, StutterAny DEF RetryFence, vars
    <2> QED BY <1>1, <2>2, <2>3, <2>4, <2>5 DEF OwnerStep
<1>2. ASSUME NEW o \in Owners, Tick(o) PROVE AnyInv'
    BY <1>2, ClockAny
<1>3. CASE UNCHANGED vars
    BY <1>3, StutterAny
<1> QED BY <1>1, <1>2, <1>3 DEF Next

LEMMA AnyInvariant == Spec => []AnyInv
BY InitAny, StepAny, PTL DEF Spec

(* The lease store's rows and ledger keep their shape. *)
THEOREM TypeCorrect == Spec => []TypeOK
BY AnyInvariant, PTL DEF AnyInv

(* An epoch is a token of one owner, whatever the wall clocks do. *)
THEOREM EpochBelongsToOneOwner == Spec => []OneOwnerPerEpoch
BY AnyInvariant, PTL DEF AnyInv

-----------------------------------------------------------------------------
(* What every step does to the row, in the terms of the action properties. *)
LEMMA StepAdvances ==
    ASSUME AnyInv, Next, lease' # lease
    PROVE  /\ lease'.epoch >= lease.epoch
           /\ lease'.owner # lease.owner => lease'.epoch > lease.epoch
           /\ lease.state = "released" /\ lease'.state = "active"
                 => lease'.epoch > lease.epoch
           /\ lease.state = "active" /\ lease'.epoch > lease.epoch
                 => lease'.acquired_at >= lease.expires_at
           /\ lease'.updated_at >= lease.updated_at
           /\ lease'.epoch = lease.epoch /\ lease'.state = "active"
                 => /\ lease'.expires_at >= lease.expires_at
                    /\ lease'.acquired_at = lease.acquired_at
<1> USE DEF AnyInv
<1>1. PICK o \in Owners : OwnerStep(o)
    BY DEF Next, Tick
<1>2. clock[o] \in Nat
    BY <1>1, BoundsAssumption DEF TypeOK
<1>3. CASE Acquire(o, clock[o])
    BY <1>2, <1>3, LeaseAssumption
    DEF Acquire, AcquiredLease, MayAcquire, LiveFor, Later, TypeOK, Lease,
        RowWellFormed, MissingLease
<1>4. ASSUME NEW e \in 1..MaxEpoch, Renew(o, e, clock[o])
      PROVE  /\ lease'.epoch = lease.epoch
             /\ lease'.owner = lease.owner
             /\ lease.state = "active"
             /\ lease'.updated_at >= lease.updated_at
             /\ lease'.expires_at >= lease.expires_at
             /\ lease'.acquired_at = lease.acquired_at
    BY <1>2, <1>4, LeaseAssumption
    DEF Renew, UpdatedLease, Holds, LiveFor, Later, TypeOK, Lease
<1>5. ASSUME NEW e \in 1..MaxEpoch, Release(o, e, clock[o])
      PROVE  /\ lease'.epoch = lease.epoch
             /\ lease'.owner = lease.owner
             /\ lease.state = "active"
             /\ lease'.state = "released"
             /\ lease'.updated_at >= lease.updated_at
    BY <1>2, <1>5
    DEF Release, UpdatedLease, Holds, LiveFor, TypeOK, Lease
<1>6. \/ Acquire(o, clock[o])
      \/ \E e \in 1..MaxEpoch : Renew(o, e, clock[o]) \/ Release(o, e, clock[o])
    BY <1>1 DEF OwnerStep, RecordFence, RetryFence
<1>7. lease.epoch \in Nat
    BY DEF TypeOK, Lease
<1> QED BY <1>3, <1>4, <1>5, <1>6, <1>7

(* Ownership never moves without a new epoch, and never before the live    *)
(* owner's window has ended.                                               *)
THEOREM EpochsAdvance == Spec => EpochAdvances
<1>1. AnyInv /\ [Next]_vars =>
        [/\ lease'.epoch >= lease.epoch
         /\ lease'.owner # lease.owner => lease'.epoch > lease.epoch
         /\ lease.state = "released" /\ lease'.state = "active"
               => lease'.epoch > lease.epoch
         /\ lease.state = "active" /\ lease'.epoch > lease.epoch
               => lease'.acquired_at >= lease.expires_at]_lease
    BY StepAdvances DEF vars
<1> QED BY <1>1, AnyInvariant, PTL DEF Spec, EpochAdvances

(* A lease handed out is never cut short within its epoch. *)
THEOREM LeasesNotShortened == Spec => LeaseNotShortened
<1>1. AnyInv /\ [Next]_vars =>
        [/\ lease'.updated_at >= lease.updated_at
         /\ lease'.epoch = lease.epoch /\ lease'.state = "active"
               => /\ lease'.expires_at >= lease.expires_at
                  /\ lease'.acquired_at = lease.acquired_at]_lease
    BY StepAdvances DEF vars
<1> QED BY <1>1, AnyInvariant, PTL DEF Spec, LeaseNotShortened

-----------------------------------------------------------------------------
(* From here on the clocks are never set back. *)
LEMMA InitClock == Init => ClockInv
BY InitAny DEF Init, ClockInv, ReceiptsBehindRow, EpochsDoNotInterleave,
               Accepted, NoReceipt

(* The row after an acquisition leaves every accepted result behind it. *)
LEMMA AcquireClock ==
    ASSUME ClockInv, NEW o \in Owners, Acquire(o, clock[o]), UNCHANGED clock
    PROVE  ReceiptsBehindRow'
<1> DEFINE t == clock[o]
<1> USE DEF ClockInv, AnyInv
<1>1. t \in Nat
    BY BoundsAssumption DEF TypeOK
<1>2. receipts' = receipts
    BY DEF Acquire
<1> SUFFICES ASSUME NEW p \in Operations, Accepted(p)
             PROVE  /\ receipts[p].checked_at <= clock[receipts[p].owner]
                    /\ receipts[p].epoch = lease'.epoch
                          => receipts[p].checked_at <= lease'.expires_at
                    /\ receipts[p].epoch < lease'.epoch
                          => receipts[p].checked_at <= lease'.acquired_at
    BY <1>2 DEF ReceiptsBehindRow, Accepted
<1>3. receipts[p].checked_at \in Nat /\ receipts[p].epoch \in Nat
    BY AcceptedFacts DEF Receipt
<1>4. /\ receipts[p].checked_at <= clock[receipts[p].owner]
      /\ receipts[p].epoch = lease.epoch
            => receipts[p].checked_at <= lease.expires_at
      /\ receipts[p].epoch < lease.epoch
            => receipts[p].checked_at <= lease.acquired_at
      /\ receipts[p].epoch <= lease.epoch
      /\ receipts[p].epoch = lease.epoch => receipts[p].owner = lease.owner
    BY DEF ReceiptsBehindRow, OneOwnerPerEpoch
<1>5. CASE LiveFor(o, t)
    BY <1>1, <1>3, <1>4, <1>5, LeaseAssumption
    DEF Acquire, AcquiredLease, LiveFor, Later, TypeOK, Lease
<1>6. CASE ~LiveFor(o, t)
    <2>1. lease' = [owner |-> o, epoch |-> lease.epoch + 1, state |-> "active",
                    acquired_at |-> t, expires_at |-> t + LeaseSeconds,
                    updated_at |-> t]
        BY <1>6 DEF Acquire, AcquiredLease
    <2>2. lease.state = "missing" \/ (t >= lease.updated_at /\ lease.expires_at <= t)
        BY <1>1, <1>6 DEF Acquire, MayAcquire, LiveFor, RowWellFormed, TypeOK, Lease
    <2>3. lease.state # "missing"
        BY <1>3, <1>4, AcceptedFacts, OwnersAssumption
        DEF RowWellFormed, MissingLease, Receipt
    <2>4. lease.acquired_at <= lease.expires_at /\ lease.expires_at <= t
        BY <2>2, <2>3 DEF RowWellFormed, TypeOK, Lease
    <2> QED BY <1>1, <1>3, <1>4, <2>1, <2>4 DEF TypeOK, Lease
<1> QED BY <1>5, <1>6

(* A renewal moves the end of the window away; a release moves it to the   *)
(* owner's clock, which every result of the owner is behind.               *)
LEMMA KeepClock ==
    ASSUME ClockInv, NEW o \in Owners, NEW e \in 1..MaxEpoch,
           Renew(o, e, clock[o]) \/ Release(o, e, clock[o]), UNCHANGED clock
    PROVE  ReceiptsBehindRow'
<1> DEFINE t == clock[o]
<1> USE DEF ClockInv, AnyInv
<1>1. t \in Nat
    BY BoundsAssumption DEF TypeOK
<1>2. /\ receipts' = receipts /\ lease'.epoch = lease.epoch
      /\ lease'.acquired_at = lease.acquired_at /\ lease.owner = o
      /\ lease'.expires_at >= lease.expires_at \/ lease'.expires_at = t
    BY <1>1, LeaseAssumption
    DEF Renew, Release, UpdatedLease, Holds, LiveFor, Later, TypeOK, Lease
<1> SUFFICES ASSUME NEW p \in Operations, Accepted(p),
                    receipts[p].epoch = lease.epoch
             PROVE  receipts[p].checked_at <= lease'.expires_at
    BY <1>2 DEF ReceiptsBehindRow, Accepted
<1>3. /\ receipts[p].checked_at \in Nat
      /\ receipts[p].checked_at <= lease.expires_at
      /\ receipts[p].checked_at <= t
    BY <1>2, AcceptedFacts DEF ReceiptsBehindRow, OneOwnerPerEpoch, Receipt
<1>4. lease'.expires_at \in Nat /\ lease.expires_at \in Nat
    BY KeepAny DEF TypeOK, Lease
<1> QED BY <1>1, <1>2, <1>3, <1>4

(* A result accepted now is inside the current window, which lies after    *)
(* every result of an earlier epoch.                                       *)
LEMMA FenceClock ==
    ASSUME ClockInv, NEW o \in Owners, NEW e \in 1..MaxEpoch, NEW op \in Operations,
           RecordFence(op, o, e, clock[o]), UNCHANGED clock
    PROVE  ReceiptsBehindRow' /\ EpochsDoNotInterleave'
<1> DEFINE t == clock[o]
<1> USE DEF ClockInv, AnyInv
<1>1. t \in Nat /\ e \in Nat
    BY BoundsAssumption DEF TypeOK
<1>2. lease' = lease /\ \A p \in Operations \ {op} : receipts'[p] = receipts[p]
    BY DEF RecordFence, TypeOK
<1>3. receipts'[op] = FenceReceipt(o, e, t)
    BY DEF RecordFence, TypeOK
<1>4. /\ receipts'[op].owner = o /\ receipts'[op].epoch = e
      /\ receipts'[op].checked_at = t
    BY <1>3 DEF FenceReceipt
<1>5. receipts'[op].reason = "current" =>
          /\ lease.epoch = e
          /\ lease.updated_at <= t /\ t < lease.expires_at
    BY <1>1, <1>3, FenceFacts
<1>6. /\ lease.epoch \in Nat /\ lease.acquired_at \in Nat
      /\ lease.updated_at \in Nat /\ lease.expires_at \in Nat
      /\ lease.acquired_at <= lease.updated_at
    BY DEF RowWellFormed, TypeOK, Lease
<1>7. ReceiptsBehindRow'
    <2>1. ASSUME NEW p \in Operations \ {op}, Accepted(p)'
          PROVE  /\ receipts'[p].checked_at <= clock[receipts'[p].owner]
                 /\ receipts'[p].epoch = lease'.epoch
                       => receipts'[p].checked_at <= lease'.expires_at
                 /\ receipts'[p].epoch < lease'.epoch
                       => receipts'[p].checked_at <= lease'.acquired_at
        BY <1>2, <2>1 DEF ReceiptsBehindRow, Accepted
    <2>2. ASSUME Accepted(op)'
          PROVE  /\ receipts'[op].checked_at <= clock[receipts'[op].owner]
                 /\ receipts'[op].epoch = lease'.epoch
                       => receipts'[op].checked_at <= lease'.expires_at
                 /\ receipts'[op].epoch < lease'.epoch
                       => receipts'[op].checked_at <= lease'.acquired_at
        BY <1>1, <1>2, <1>4, <1>5, <1>6, <2>2 DEF Accepted
    <2> QED BY <2>1, <2>2 DEF ReceiptsBehindRow
<1>8. EpochsDoNotInterleave'
    <2>1. ASSUME NEW p \in Operations \ {op}, Accepted(p)'
          PROVE  /\ Accepted(p) /\ receipts'[p] = receipts[p]
                 /\ receipts[p].epoch \in Nat /\ receipts[p].checked_at \in Nat
                 /\ receipts[p].epoch <= lease.epoch
                 /\ receipts[p].epoch < lease.epoch
                       => receipts[p].checked_at <= lease.acquired_at
        BY <1>2, <2>1, AcceptedFacts
        DEF ReceiptsBehindRow, OneOwnerPerEpoch, Accepted, Receipt
    <2>2. Accepted(op)' => /\ receipts'[op].epoch = lease.epoch
                           /\ lease.acquired_at <= receipts'[op].checked_at
        BY <1>1, <1>4, <1>5, <1>6 DEF Accepted
    <2>3. ASSUME NEW p \in Operations, NEW q \in Operations,
                 Accepted(p)', Accepted(q)',
                 receipts'[p].epoch < receipts'[q].epoch
          PROVE  receipts'[p].checked_at <= receipts'[q].checked_at
        <3>1. CASE p = op
            BY <1>6, <2>1, <2>2, <2>3, <3>1
        <3>2. CASE p # op /\ q = op
            BY <1>1, <1>4, <1>6, <2>1, <2>2, <2>3, <3>2
        <3>3. CASE p # op /\ q # op
            BY <2>1, <2>3, <3>3 DEF EpochsDoNotInterleave
        <3> QED BY <3>1, <3>2, <3>3
    <2> QED BY <2>3 DEF EpochsDoNotInterleave
<1> QED BY <1>7, <1>8

LEMMA TickClock ==
    ASSUME ~ClocksStepBack, ClockInv, NEW o \in Owners, Tick(o)
    PROVE  ReceiptsBehindRow'
<1> USE DEF ClockInv, AnyInv
<1>1. \A w \in Owners : clock[w] \in Nat /\ clock'[w] \in Nat
                        /\ clock[w] <= clock'[w]
    BY BoundsAssumption DEF Tick, TypeOK
<1>2. lease' = lease /\ receipts' = receipts
    BY DEF Tick
<1> SUFFICES ASSUME NEW p \in Operations, Accepted(p)
             PROVE  receipts[p].checked_at <= clock'[receipts[p].owner]
    BY <1>2 DEF ReceiptsBehindRow, Accepted
<1>3. receipts[p].owner \in Owners /\ receipts[p].checked_at \in Nat
    BY AcceptedFacts DEF Receipt
<1> QED BY <1>1, <1>3 DEF ReceiptsBehindRow

LEMMA StepClock == ~ClocksStepBack /\ ClockInv /\ [Next]_vars => ClockInv'
<1> SUFFICES ASSUME ~ClocksStepBack, ClockInv, [Next]_vars PROVE ClockInv'
    OBVIOUS
<1>1. AnyInv'
    BY StepAny DEF ClockInv
<1>2. ASSUME receipts' = receipts PROVE EpochsDoNotInterleave'
    BY <1>2 DEF ClockInv, EpochsDoNotInterleave, Accepted
<1>3. ASSUME UNCHANGED vars PROVE ReceiptsBehindRow'
    BY <1>3 DEF vars, ClockInv, ReceiptsBehindRow, Accepted
<1>4. ASSUME NEW o \in Owners, OwnerStep(o)
      PROVE  ReceiptsBehindRow' /\ EpochsDoNotInterleave'
    <2>1. UNCHANGED clock
        BY <1>4 DEF OwnerStep
    <2>2. CASE Acquire(o, clock[o])
        BY <1>2, <2>1, <2>2, AcquireClock DEF Acquire
    <2>3. ASSUME NEW e \in 1..MaxEpoch,
                 Renew(o, e, clock[o]) \/ Release(o, e, clock[o])
          PROVE  ReceiptsBehindRow' /\ EpochsDoNotInterleave'
        BY <1>2, <2>1, <2>3, KeepClock DEF Renew, Release
    <2>4. ASSUME NEW e \in 1..MaxEpoch, NEW op \in Operations,
                 RecordFence(op, o, e, clock[o])
          PROVE  ReceiptsBehindRow' /\ EpochsDoNotInterleave'
        BY <2>1, <2>4, FenceClock
    <2>5. ASSUME NEW op \in Operations, RetryFence(op)
          PROVE  ReceiptsBehindRow' /\ EpochsDoNotInterleave'
        BY <1>2, <1>3, <2>1, <2>5 DEF RetryFence, vars
    <2> QED BY <1>4, <2>2, <2>3, <2>4, <2>5 DEF OwnerStep
<1>5. ASSUME NEW o \in Owners, Tick(o)
      PROVE  ReceiptsBehindRow' /\ EpochsDoNotInterleave'
    BY <1>2, <1>5, TickClock DEF Tick
<1>6. ReceiptsBehindRow' /\ EpochsDoNotInterleave'
    BY <1>2, <1>3, <1>4, <1>5 DEF Next, vars
<1> QED BY <1>1, <1>6 DEF ClockInv

LEMMA ClockInvariant == ~ClocksStepBack => (Spec => []ClockInv)
<1>1. CASE ~ClocksStepBack
    <2>1. ClockInv /\ [Next]_vars => ClockInv'
        BY <1>1, StepClock
    <2> QED BY <2>1, InitClock, PTL DEF Spec
<1> QED BY <1>1

(* Accepted results of different epochs never interleave on the timeline,  *)
(* however far the owners' clocks are apart.                               *)
THEOREM NoInterleaving == ~ClocksStepBack => (Spec => []EpochsDoNotInterleave)
<1>1. ClockInv => EpochsDoNotInterleave
    BY DEF ClockInv
<1> QED BY <1>1, ClockInvariant, PTL

-----------------------------------------------------------------------------
(* The abstract service.  Receipts that a step leaves alone are the same   *)
(* committed results.                                                      *)
LEMMA SameResults == receipts' = receipts => resultsBar' = resultsBar
BY DEF resultsBar, Accepted

LEMMA InitMaps == Init => Promise!Init
<1> SUFFICES ASSUME Init PROVE Promise!Init
    OBVIOUS
<1>1. tenureBar = [holder |-> NoOwner, epoch |-> 0, since |-> 0, until |-> 0]
    BY DEF Init, tenureBar, MissingLease
<1>2. resultsBar = {}
    BY DEF Init, resultsBar, Accepted, NoReceipt
<1> QED BY <1>1, <1>2 DEF Promise!Init

(* An acquisition begins a tenure, or extends the one its owner has. *)
LEMMA AcquireMaps ==
    ASSUME ClockInv, NEW o \in Owners, Acquire(o, clock[o])
    PROVE  \/ Promise!Extend
           \/ \E t \in 0..(MaxTime + LeaseSeconds) : Promise!Begin(o, t)
<1> DEFINE t == clock[o]
<1> USE DEF ClockInv, AnyInv
<1>1. t \in Nat /\ t <= MaxTime
    BY BoundsAssumption DEF TypeOK
<1>2. resultsBar' = resultsBar
    BY SameResults DEF Acquire
<1>3. t + LeaseSeconds \in 0..(MaxTime + LeaseSeconds)
    BY <1>1, LeaseAssumption, BoundsAssumption
<1>4. CASE LiveFor(o, t)
    <2>1. lease.expires_at \in 0..(MaxTime + LeaseSeconds)
        BY LeaseAssumption, BoundsAssumption DEF RowWellFormed, TypeOK, Lease
    <2> DEFINE u == Later(lease.expires_at, t + LeaseSeconds)
    <2>2. u \in 0..(MaxTime + LeaseSeconds) /\ u >= lease.expires_at
        BY <1>1, <1>3, <2>1, LeaseAssumption, BoundsAssumption DEF Later
    <2>3. tenureBar' = [tenureBar EXCEPT !.until = u]
        BY <1>4 DEF Acquire, AcquiredLease, LiveFor, tenureBar
    <2>4. tenureBar.until = lease.expires_at /\ tenureBar.holder # NoOwner
        BY <1>4, OwnersAssumption DEF tenureBar, LiveFor
    <2> HIDE DEF u
    <2> QED BY <1>2, <2>2, <2>3, <2>4 DEF Promise!Extend
<1>5. CASE ~LiveFor(o, t)
    <2>1. tenureBar' = [holder |-> o, epoch |-> tenureBar.epoch + 1,
                        since |-> t, until |-> t + LeaseSeconds]
        BY <1>5 DEF Acquire, AcquiredLease, tenureBar
    <2>2. t >= tenureBar.until
        BY <1>1, <1>5
        DEF Acquire, MayAcquire, LiveFor, RowWellFormed, MissingLease,
            tenureBar, TypeOK, Lease
    <2>3. t + LeaseSeconds > t /\ t \in 0..(MaxTime + LeaseSeconds)
        BY <1>1, LeaseAssumption, BoundsAssumption
    <2>4. Promise!Begin(o, t)
        BY <1>2, <1>3, <2>1, <2>2, <2>3 DEF Promise!Begin
    <2> QED BY <2>3, <2>4
<1> QED BY <1>4, <1>5

LEMMA RenewMaps ==
    ASSUME ClockInv, NEW o \in Owners, NEW e \in 1..MaxEpoch, Renew(o, e, clock[o])
    PROVE  Promise!Extend
<1> DEFINE t == clock[o]
           u == Later(lease.expires_at, t + LeaseSeconds)
<1> USE DEF ClockInv, AnyInv
<1>1. t \in Nat /\ t <= MaxTime
    BY BoundsAssumption DEF TypeOK
<1>2. u \in 0..(MaxTime + LeaseSeconds) /\ u >= lease.expires_at
    BY <1>1, LeaseAssumption, BoundsAssumption
    DEF Later, RowWellFormed, TypeOK, Lease
<1>3. tenureBar' = [tenureBar EXCEPT !.until = u]
    BY DEF Renew, UpdatedLease, tenureBar
<1>4. tenureBar.until = lease.expires_at /\ tenureBar.holder # NoOwner
    BY OwnersAssumption DEF Renew, Holds, LiveFor, tenureBar
<1>5. resultsBar' = resultsBar
    BY SameResults DEF Renew
<1> HIDE DEF u
<1> QED BY <1>2, <1>3, <1>4, <1>5 DEF Promise!Extend

LEMMA ReleaseMaps ==
    ASSUME ClockInv, NEW o \in Owners, NEW e \in 1..MaxEpoch, Release(o, e, clock[o])
    PROVE  \E t \in 0..(MaxTime + LeaseSeconds) : Promise!End(t)
<1> DEFINE t == clock[o]
<1> USE DEF ClockInv, AnyInv
<1>1. t \in Nat /\ t \in 0..(MaxTime + LeaseSeconds)
    BY BoundsAssumption, LeaseAssumption DEF TypeOK
<1>2. /\ lease.owner = o /\ lease.updated_at <= t /\ t < lease.expires_at
    BY DEF Release, Holds, LiveFor
<1>3. tenureBar.since <= t /\ t < tenureBar.until
    BY <1>1, <1>2 DEF tenureBar, RowWellFormed, TypeOK, Lease
<1>4. ASSUME NEW r \in resultsBar, r.epoch = tenureBar.epoch PROVE r.at <= t
    <2>1. PICK p \in Operations :
              /\ Accepted(p)
              /\ r = [owner |-> receipts[p].owner, epoch |-> receipts[p].epoch,
                      at |-> receipts[p].checked_at]
        BY DEF resultsBar
    <2>2. receipts[p].owner = o
        BY <1>2, <1>4, <2>1 DEF OneOwnerPerEpoch, tenureBar
    <2> QED BY <2>1, <2>2 DEF ReceiptsBehindRow
<1>5. tenureBar' = [tenureBar EXCEPT !.until = t]
    BY DEF Release, UpdatedLease, tenureBar
<1>6. resultsBar' = resultsBar
    BY SameResults DEF Release
<1> QED BY <1>1, <1>3, <1>4, <1>5, <1>6 DEF Promise!End

(* An accepted check commits a result; a rejected one is invisible. *)
LEMMA FenceMaps ==
    ASSUME ClockInv, NEW o \in Owners, NEW e \in 1..MaxEpoch, NEW op \in Operations,
           RecordFence(op, o, e, clock[o])
    PROVE  \/ \E t \in 0..(MaxTime + LeaseSeconds) : Promise!Commit(t)
           \/ UNCHANGED <<tenureBar, resultsBar>>
<1> DEFINE t == clock[o]
           made == [owner |-> o, epoch |-> e, at |-> t]
<1> USE DEF ClockInv, AnyInv
<1>1. t \in Nat /\ e \in Nat /\ t \in 0..(MaxTime + LeaseSeconds)
    BY BoundsAssumption, LeaseAssumption DEF TypeOK
<1>2. \A p \in Operations \ {op} : receipts'[p] = receipts[p]
    BY DEF RecordFence, TypeOK
<1>3. receipts'[op] = FenceReceipt(o, e, t) /\ ~Accepted(op)
    BY DEF RecordFence, TypeOK, Accepted, NoReceipt
<1>4. tenureBar' = tenureBar
    BY DEF RecordFence, tenureBar
<1>5. CASE FenceReceipt(o, e, t).reason = "current"
    <2>1. /\ lease.owner = o /\ lease.epoch = e
          /\ lease.updated_at <= t /\ t < lease.expires_at
        BY <1>1, <1>5, FenceFacts
    <2>2. tenureBar.since <= t /\ t < tenureBar.until
        BY <1>1, <2>1 DEF tenureBar, RowWellFormed, TypeOK, Lease
    <2>3. /\ receipts'[op].owner = o /\ receipts'[op].epoch = e
          /\ receipts'[op].checked_at = t /\ Accepted(op)'
        BY <1>3, <1>5 DEF FenceReceipt, Accepted
    <2>4. resultsBar' = resultsBar \cup {made}
        BY <1>2, <1>3, <2>3 DEF resultsBar, Accepted
    <2>5. made = [owner |-> tenureBar.holder, epoch |-> tenureBar.epoch, at |-> t]
        BY <2>1 DEF tenureBar
    <2> QED BY <1>1, <1>4, <2>2, <2>4, <2>5 DEF Promise!Commit
<1>6. CASE FenceReceipt(o, e, t).reason # "current"
    <2>1. ~Accepted(op)'
        BY <1>3, <1>6 DEF Accepted
    <2>2. resultsBar' = resultsBar
        BY <1>2, <1>3, <2>1 DEF resultsBar, Accepted
    <2> QED BY <1>4, <2>2
<1> QED BY <1>5, <1>6

LEMMA StepMaps ==
    ~ClocksStepBack /\ ClockInv /\ [Next]_vars => [Promise!Next]_(Promise!vars)
<1> SUFFICES ASSUME ~ClocksStepBack, ClockInv, [Next]_vars
             PROVE  [Promise!Next]_(Promise!vars)
    OBVIOUS
<1>1. ASSUME lease' = lease, receipts' = receipts
      PROVE  UNCHANGED Promise!vars
    BY <1>1, SameResults DEF Promise!vars, tenureBar
<1>2. ASSUME NEW o \in Owners, OwnerStep(o)
      PROVE  [Promise!Next]_(Promise!vars)
    <2>1. CASE Acquire(o, clock[o])
        BY <2>1, AcquireMaps DEF Promise!Next
    <2>2. ASSUME NEW e \in 1..MaxEpoch, Renew(o, e, clock[o])
          PROVE  [Promise!Next]_(Promise!vars)
        BY <2>2, RenewMaps DEF Promise!Next
    <2>3. ASSUME NEW e \in 1..MaxEpoch, Release(o, e, clock[o])
          PROVE  [Promise!Next]_(Promise!vars)
        BY <2>3, ReleaseMaps DEF Promise!Next
    <2>4. ASSUME NEW e \in 1..MaxEpoch, NEW op \in Operations,
                 RecordFence(op, o, e, clock[o])
          PROVE  [Promise!Next]_(Promise!vars)
        BY <2>4, FenceMaps DEF Promise!Next, Promise!vars
    <2>5. ASSUME NEW op \in Operations, RetryFence(op)
          PROVE  [Promise!Next]_(Promise!vars)
        BY <1>1, <2>5 DEF RetryFence
    <2> QED BY <1>2, <2>1, <2>2, <2>3, <2>4, <2>5 DEF OwnerStep
<1>3. ASSUME NEW o \in Owners, Tick(o)
      PROVE  [Promise!Next]_(Promise!vars)
    BY <1>1, <1>3 DEF Tick
<1> QED BY <1>1, <1>2, <1>3 DEF Next, vars

(* The rows and the ledger implement the abstract service of tenures. *)
THEOREM Refinement == ~ClocksStepBack => (Spec => ImplementsFencedOwnership)
<1>1. CASE ~ClocksStepBack
    <2>1. ClockInv /\ [Next]_vars => [Promise!Next]_(Promise!vars)
        BY <1>1, StepMaps
    <2>2. Spec => []ClockInv
        BY <1>1, ClockInvariant
    <2> QED BY <2>1, <2>2, InitMaps, PTL
            DEF Spec, ImplementsFencedOwnership, Promise!Spec
<1> QED BY <1>1

=============================================================================
