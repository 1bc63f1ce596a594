-------------------------- MODULE PursuitRunProofs --------------------------
(***************************************************************************)
(* For any number of executors and processes: the shape of a run's rows,   *)
(* the order of its checkpoints, actions that run once, commands that no   *)
(* checkpoint passes over; and tasks that none passes over while no two    *)
(* executors overlap.                                                      *)
(*                                                                         *)
(* The argument starts with the checkpoints: an executor numbers its next  *)
(* one after the one it read or wrote last, and the store admits only a    *)
(* number above the row's.  So the row that is replaced is the one the     *)
(* executor knows, which is older than its lease (Follows).  Each later    *)
(* chapter adds its own invariant: Once, Told, Accounted.                  *)
(***************************************************************************)
EXTENDS PursuitRun, SequenceTheorems, TLAPS

Checkpoint == [seq : Nat, row : Row]

Decision == [kind : {"none", "blocked", "waiting", "continue"},
             abandon : SUBSET Actions, finish : SUBSET Actions, waits : SUBSET Actions]

(* Where no lease is open yet, where an iteration has begun, and where an  *)
(* action is in hand.                                                      *)
Opening == {"new", "read_checkpoint", "open"}
Handling == {"prepare", "dispatch", "carry_out", "returning", "record", "started"}
Iterating == Handling \cup {"assessed", "planned", "act", "result"}
Resuming == {"collect", "collected", "gathered", "reconcile", "apply", "commit"}
Places == Opening \cup Iterating \cup Resuming
          \cup {"parse", "iterate", "begin", "close", "settle", "done", "gone"}

Boundary == {"fence", "save", "checkpoint", "reconciled", "admit"}

Memory == [at : Places, todo : Seq(Boundary), mine : Row, pending : SUBSET Actions,
           base : Checkpoint, action : Actions \cup {NoAction}, acted : Nat,
           recovery : BOOLEAN, decision : Decision, epoch : Nat, lost : BOOLEAN]

Placed(r) ==
    /\ r.at \in Opening => r.todo = <<>>
    /\ r.at = "new" => r.base = NoCheckpoint
    /\ r.at \in Iterating => r.mine.iteration > 0
    /\ r.at \in Handling => r.action \in Actions

(* The checkpoint an executor knows is the row, or has a lower number; and *)
(* it is not younger than the executor's lease.                            *)
Follows(r) ==
    /\ r.base.seq <= checkpoint.seq
    /\ r.base.seq = checkpoint.seq => r.base = checkpoint
    /\ r.base.row.epoch <= lease.epoch /\ r.epoch <= lease.epoch
    /\ r.at \notin Opening => r.base.row.epoch <= r.epoch

Fits(r) == r \in Memory /\ Placed(r) /\ Follows(r)

Typed ==
    /\ lease \in RL!Lease
    /\ now \in 0..MaxTime
    /\ run \in Row
    /\ checkpoint \in Checkpoint
    /\ ledger \in [Actions -> {"none", "prepared", "dispatched", "waiting"} \cup Closed]
    /\ attempt \in [Executors -> {"none", "requested", "admitted", "closed"}]
    /\ task \in [Actions -> [status : {"none", "running", "finished"},
                             runner : Processes \cup {NoProcess}]]
    /\ down \subseteq Processes
    /\ known \subseteq Actions

Inv ==
    /\ Typed
    /\ checkpoint.row.epoch <= lease.epoch
    /\ checkpoint.seq = 0 => checkpoint = NoCheckpoint
    /\ ex \in [Executors -> Memory]
    /\ \A e \in Executors : Fits(ex[e])

CheckpointFollows == checkpoint'.row.epoch >= checkpoint.row.epoch

-----------------------------------------------------------------------------
(* The values memories start from. *)
LEMMA Blank ==
    /\ NoRun \in Row /\ NoRun.epoch = 0
    /\ NoCheckpoint \in Checkpoint /\ NoCheckpoint.seq = 0 /\ NoCheckpoint.row.epoch = 0
    /\ NoDecision \in Decision /\ Fresh \in Memory
    /\ Fresh.todo = <<>> /\ Fresh.base = NoCheckpoint /\ Fresh.epoch = 0
    /\ Fresh.at = "new"
<1>1. NoRun \in Row /\ NoRun.epoch = 0
  BY BoundsAssumption DEF NoRun, Row
<1>2. NoDecision \in Decision
  BY DEF NoDecision, Decision
<1>3. <<>> \in Seq(Boundary) /\ "new" \in Places
  BY DEF Places, Opening
<1>4. NoCheckpoint \in Checkpoint /\ NoCheckpoint.seq = 0 /\ NoCheckpoint.row.epoch = 0
  BY <1>1 DEF NoCheckpoint, Checkpoint
<1>. QED  BY <1>1, <1>2, <1>3, <1>4 DEF Fresh, Memory

LEMMA Columns ==
    ASSUME Inv
    PROVE  /\ lease.epoch \in Nat /\ checkpoint.seq \in Nat /\ checkpoint.row.epoch \in Nat
           /\ checkpoint.row \in Row /\ now \in Nat
           /\ \A e \in Executors : /\ ex[e] \in Memory /\ Placed(ex[e]) /\ Follows(ex[e])
                                   /\ ex[e].mine \in Row /\ ex[e].pending \in SUBSET Actions
                                   /\ ex[e].base \in Checkpoint /\ ex[e].base.row \in Row
                                   /\ ex[e].epoch \in Nat /\ ex[e].base.seq \in Nat
                                   /\ ex[e].base.row.epoch \in Nat
<1>1. lease.epoch \in Nat /\ checkpoint \in Checkpoint /\ now \in Nat
  BY BoundsAssumption DEF Inv, Typed, RL!Lease
<1>2. \A e \in Executors : ex[e] \in Memory /\ Placed(ex[e]) /\ Follows(ex[e])
  BY DEF Inv, Fits
<1>3. \A e \in Executors : ex[e].mine \in Row /\ ex[e].pending \in SUBSET Actions
                           /\ ex[e].base \in Checkpoint /\ ex[e].epoch \in Nat
  BY <1>2 DEF Memory
<1>. QED  BY <1>1, <1>2, <1>3 DEF Checkpoint, Row

(* A step of one executor that leaves the checkpoint alone. *)
LEMMA Steps ==
    ASSUME Inv, NEW e \in Executors, NEW r, ex' = [ex EXCEPT ![e] = r], Fits(r),
           Typed', lease'.epoch >= lease.epoch, checkpoint' = checkpoint
    PROVE  Inv' /\ CheckpointFollows
<1>1. ex' \in [Executors -> Memory] /\ ex'[e] = r
      /\ \A f \in Executors : f # e => ex'[f] = ex[f]
  BY DEF Inv, Fits
<1>2. lease.epoch \in Nat /\ lease'.epoch \in Nat
  BY Columns DEF Typed, RL!Lease
<1>3. ASSUME NEW f \in Executors
      PROVE  Fits(ex[f])'
  <2>1. PICK x : x = ex'[f] /\ Fits(x)
    BY <1>1 DEF Inv
  <2>2. x.epoch \in Nat /\ x.base.row.epoch \in Nat
    BY <2>1 DEF Fits, Memory, Checkpoint, Row
  <2>3. x \in Memory /\ Placed(x) /\ Follows(x)
    BY <2>1 DEF Fits
  <2>4. x.base.row.epoch <= lease'.epoch /\ x.epoch <= lease'.epoch
    BY <1>2, <2>2, <2>3 DEF Follows
  <2>. QED  BY <2>1, <2>3, <2>4 DEF Fits, Placed, Follows
<1>4. checkpoint.row.epoch \in Nat /\ checkpoint.row.epoch <= lease'.epoch
  BY <1>2, Columns DEF Inv
<1>5. (checkpoint.seq = 0 => checkpoint = NoCheckpoint)'
  BY DEF Inv, NoCheckpoint, NoRun
<1>. QED  BY <1>1, <1>3, <1>4, <1>5 DEF Inv, CheckpointFollows

(* An executor that keeps its lease and the checkpoint it knows. *)
LEMMA Carries ==
    ASSUME Inv, NEW e \in Executors, NEW r \in Memory, Placed(r),
           r.base = ex[e].base, r.epoch = ex[e].epoch,
           r.at \in Opening \/ ex[e].at \notin Opening
    PROVE  Fits(r)
  BY Columns DEF Fits, Follows

(* So does one that is on its way out, and it forgets the checkpoint. *)
LEMMA Leaves ==
    ASSUME Inv, NEW e \in Executors, NEW place \in Places \ (Opening \cup Iterating)
    PROVE  /\ Fits(Leaving(e, place)) /\ Fits([Leaving(e, place) EXCEPT !.lost = TRUE])
           /\ Fits([Fresh EXCEPT !.at = place])
<1>. USE Blank, Columns
<1>1. ASSUME NEW r \in Memory, r.at = place, r.base = NoCheckpoint, r.epoch \in Nat,
             r.epoch <= lease.epoch
      PROVE  Fits(r)
  <2>1. Placed(r)
    BY <1>1 DEF Placed, Opening, Iterating, Handling
  <2>2. checkpoint.seq = 0 => checkpoint = NoCheckpoint
    BY DEF Inv
  <2>. QED  BY <1>1, <2>1, <2>2 DEF Fits, Follows
<1>2. ex[e].lost \in BOOLEAN /\ ex[e].epoch \in Nat /\ ex[e].epoch <= lease.epoch
  BY DEF Memory, Follows
<1>3. PICK r : r = Leaving(e, place)
  OBVIOUS
<1>4. r \in Memory /\ r.at = place /\ r.base = NoCheckpoint /\ r.epoch = ex[e].epoch
  BY <1>2, <1>3 DEF Leaving, Memory
<1>5. Fits(r)
  BY <1>1, <1>2, <1>4
<1>6. PICK x : x = [r EXCEPT !.lost = TRUE]
  OBVIOUS
<1>7. x \in Memory /\ x.at = place /\ x.base = NoCheckpoint /\ x.epoch = ex[e].epoch
  BY <1>4, <1>6 DEF Memory
<1>8. Fits(x)
  BY <1>1, <1>2, <1>7
<1>9. PICK y : y = [Fresh EXCEPT !.at = place]
  OBVIOUS
<1>10. y \in Memory /\ y.at = place /\ y.base = NoCheckpoint /\ y.epoch = 0
  BY <1>9 DEF Memory
<1>11. Fits(y)
  BY <1>1, <1>10
<1>. QED  BY <1>3, <1>5, <1>6, <1>8, <1>9, <1>11

(* So does one that has taken a step of its boundary. *)
LEMMA Rests ==
    ASSUME Inv, NEW e \in Executors, ex[e].todo # <<>>
    PROVE  Fits(Rest(e)) /\ ex[e].at \notin Opening
<1>1. ex[e].at \notin Opening /\ ex[e].todo \in Seq(Boundary)
  BY Columns DEF Placed, Memory
<1>2. Tail(ex[e].todo) \in Seq(Boundary)
  BY <1>1, HeadTailProperties
<1>3. PICK r : r = Rest(e)
  OBVIOUS
<1>4. r \in Memory /\ r.at = ex[e].at /\ r.mine = ex[e].mine /\ r.action = ex[e].action
      /\ r.base = ex[e].base /\ r.epoch = ex[e].epoch
  BY <1>2, <1>3, Columns DEF Rest, Memory
<1>5. Placed(r)
  BY <1>1, <1>4, Columns DEF Placed, Opening
<1>6. Fits(r)
  BY <1>1, <1>4, <1>5, Carries
<1>. QED  BY <1>1, <1>3, <1>6

(* Rows that no step touches keep their shape. *)
LEMMA RowsStay ==
    ASSUME Inv, UNCHANGED <<lease, run, checkpoint, ledger, attempt, outside>>
    PROVE  Typed' /\ lease' = lease /\ checkpoint' = checkpoint
  BY DEF Inv, Typed, outside

(* A step of one executor that leaves the lease and the checkpoint alone. *)
LEMMA Thinks ==
    ASSUME Inv, NEW e \in Executors, NEW r, ex' = [ex EXCEPT ![e] = r], Fits(r),
           Typed', lease' = lease, checkpoint' = checkpoint
    PROVE  Inv' /\ CheckpointFollows
<1>1. lease'.epoch >= lease.epoch
  BY Columns
<1>. QED  BY <1>1, Steps

(* A new status and phase in the copy of the run row. *)
LEMMA MineTyped ==
    ASSUME Inv, NEW e \in Executors,
           NEW status \in {"none", "running", "waiting", "blocked", "terminal"},
           NEW phase \in {"safe", "action_inflight", "checkpoint_error"},
           NEW m, m = Mine(e, status, phase)
    PROVE  /\ m \in Memory /\ m.base = ex[e].base /\ m.epoch = ex[e].epoch
           /\ m.mine.iteration = ex[e].mine.iteration /\ m.pending = ex[e].pending
           /\ m.mine \in Row /\ m.action = ex[e].action
<1>1. PICK x : x = [ex[e].mine EXCEPT !.status = status, !.phase = phase]
  OBVIOUS
<1>2. x \in Row /\ x.iteration = ex[e].mine.iteration
  BY <1>1, Columns DEF Row
<1>3. m = [ex[e] EXCEPT !.mine = x]
  BY <1>1, Columns DEF Mine, Memory, Row
<1>. QED  BY <1>2, <1>3, Columns DEF Memory

(* An executor that goes on elsewhere, with other memory and a boundary to *)
(* complete.                                                               *)
LEMMA GoesOnward ==
    ASSUME Inv, NEW e \in Executors, NEW m \in Memory, NEW place \in Places \ Opening,
           NEW steps \in Seq(Boundary), Goes(e, m, place, steps),
           m.base = ex[e].base, m.epoch = ex[e].epoch, ex[e].at \notin Opening,
           place \in Iterating => m.mine.iteration > 0,
           place \in Handling => m.action \in Actions,
           Typed', lease' = lease, checkpoint' = checkpoint
    PROVE  Inv' /\ CheckpointFollows
<1>1. PICK r : r = [m EXCEPT !.at = place, !.todo = steps]
  OBVIOUS
<1>2. /\ r \in Memory /\ r.at = place /\ r.base = m.base /\ r.epoch = m.epoch
      /\ r.mine = m.mine /\ r.action = m.action
  BY <1>1 DEF Memory
<1>3. Placed(r)
  BY <1>2 DEF Placed, Opening
<1>4. Fits(r)
  BY <1>2, <1>3, Carries
<1>. QED  BY <1>1, <1>4, Thinks DEF Goes, Becomes

(* An executor that leaves. *)
LEMMA GoesAway ==
    ASSUME Inv, NEW e \in Executors, NEW place \in Places \ (Opening \cup Iterating),
           \/ Becomes(e, Leaving(e, place))
           \/ Becomes(e, [Leaving(e, place) EXCEPT !.lost = TRUE])
           \/ Becomes(e, [Fresh EXCEPT !.at = place]),
           Typed', lease' = lease, checkpoint' = checkpoint
    PROVE  Inv' /\ CheckpointFollows
<1>1. PICK r : ex' = [ex EXCEPT ![e] = r] /\ Fits(r)
  BY Leaves DEF Becomes
<1>. QED  BY <1>1, Thinks

LEMMA CloseIsAway == "close" \in Places \ (Opening \cup Iterating)
  BY DEF Places, Opening, Iterating, Handling

-----------------------------------------------------------------------------
(* The steps of a boundary. *)

LEMMA FenceKeeps ==
    ASSUME Inv, NEW e \in Executors, Fence(e)
    PROVE  Inv' /\ CheckpointFollows
<1>1. Typed' /\ lease' = lease /\ checkpoint' = checkpoint
  BY RowsStay DEF Fence
<1>2. CASE Becomes(e, Rest(e))
  <2>1. PICK r : r = Rest(e)
    OBVIOUS
  <2>2. Fits(r)
    BY <2>1, Rests DEF Fence, Due
  <2>. QED  BY <1>1, <1>2, <2>1, <2>2, Thinks DEF Becomes
<1>3. CASE LosesLease(e)
  BY <1>1, <1>3, CloseIsAway, GoesAway DEF LosesLease
<1>. QED  BY <1>2, <1>3 DEF Fence

LEMMA SaveRunKeeps ==
    ASSUME Inv, NEW e \in Executors, SaveRun(e)
    PROVE  Inv' /\ CheckpointFollows
<1>1. [ex[e].mine EXCEPT !.epoch = ex[e].epoch] \in Row
  BY Columns DEF Row
<1>2. Typed' /\ lease' = lease /\ checkpoint' = checkpoint
  BY <1>1 DEF SaveRun, Inv, Typed, outside
<1>3. CASE Becomes(e, Rest(e))
  <2>1. PICK r : r = Rest(e)
    OBVIOUS
  <2>2. Fits(r)
    BY <2>1, Rests DEF SaveRun, Due
  <2>. QED  BY <1>2, <1>3, <2>1, <2>2, Thinks DEF Becomes
<1>4. CASE LosesLease(e)
  BY <1>2, <1>4, CloseIsAway, GoesAway DEF LosesLease
<1>. QED  BY <1>3, <1>4 DEF SaveRun

(* The row that is replaced is the one the executor knows. *)
LEMMA SaveCheckpointKeeps ==
    ASSUME Inv, NEW e \in Executors, SaveCheckpoint(e)
    PROVE  Inv' /\ CheckpointFollows
<1>1. <<"save">> \in Seq(Boundary)
  BY DEF Boundary
<1>2. Fits(Rest(e)) /\ ex[e].at \notin Opening
  BY Rests DEF SaveCheckpoint, Due
<1>3. CASE LosesLease(e) /\ UNCHANGED checkpoint
  <2>1. Typed' /\ lease' = lease /\ checkpoint' = checkpoint
    BY <1>3, RowsStay DEF SaveCheckpoint
  <2>. QED  BY <1>3, <2>1, CloseIsAway, GoesAway DEF LosesLease
<1>4. CASE /\ Goes(e, Mine(e, "blocked", "checkpoint_error"), "close", <<"save">>)
           /\ UNCHANGED checkpoint
  <2>1. Typed' /\ lease' = lease /\ checkpoint' = checkpoint
    BY <1>4, RowsStay DEF SaveCheckpoint
  <2>2. PICK m : m = Mine(e, "blocked", "checkpoint_error")
    OBVIOUS
  <2>3. m \in Memory /\ m.base = ex[e].base /\ m.epoch = ex[e].epoch
    BY <2>2, MineTyped
  <2>4. "close" \in Places \ Opening /\ "close" \notin Iterating /\ "close" \notin Handling
    BY CloseIsAway DEF Iterating
  <2>. QED  BY <1>1, <1>2, <1>4, <2>1, <2>2, <2>3, <2>4, GoesOnward
<1>5. ASSUME NEW new, new = [seq |-> ex[e].base.seq + 1,
                             row |-> [ex[e].mine EXCEPT !.epoch = ex[e].epoch]],
             Admits(new.seq), checkpoint' = new,
             Becomes(e, [Rest(e) EXCEPT !.base = new])
      PROVE  Inv' /\ CheckpointFollows
  <2>1. new \in Checkpoint /\ new.row.epoch = ex[e].epoch /\ new.seq = ex[e].base.seq + 1
    BY <1>5, Columns DEF Checkpoint, Row
  <2>2. new.seq > checkpoint.seq /\ checkpoint = ex[e].base
    BY <1>5, <2>1, Columns DEF Admits, Follows
  <2>3. new.row.epoch >= checkpoint.row.epoch /\ new.row.epoch <= lease.epoch
    BY <1>2, <2>1, <2>2, Columns DEF Follows
  <2>4. lease' = lease /\ Typed'
    BY <1>5, <2>1 DEF SaveCheckpoint, Inv, Typed, outside
  <2>5. PICK r : r = [Rest(e) EXCEPT !.base = new]
    OBVIOUS
  <2>6. /\ r \in Memory /\ r.at = ex[e].at /\ r.mine = ex[e].mine
        /\ r.action = ex[e].action /\ r.base = new /\ r.epoch = ex[e].epoch
    <3>1. Rest(e) \in Memory /\ Rest(e) = [ex[e] EXCEPT !.todo = Tail(ex[e].todo)]
      BY <1>2 DEF Fits, Rest
    <3>. QED  BY <2>1, <2>5, <3>1, Columns DEF Memory
  <2>7. Placed(r)
    BY <1>2, <2>6, Columns DEF Placed, Opening
  <2>8. ex' \in [Executors -> Memory] /\ ex'[e] = r
        /\ \A f \in Executors : f # e => ex'[f] = ex[f]
    BY <1>5, <2>5, <2>6 DEF Becomes, Inv
  <2>9. Fits(ex[e])'
    <3>1. r.epoch <= lease.epoch /\ r.base.row.epoch = r.epoch /\ r.base = checkpoint'
      BY <1>5, <2>1, <2>6, Columns DEF Follows
    <3>2. r.base.seq \in Nat /\ r.epoch \in Nat
      BY <2>1, <2>6, Columns DEF Checkpoint
    <3>. QED  BY <2>4, <2>6, <2>7, <2>8, <3>1, <3>2 DEF Fits, Placed, Follows
  <2>10. ASSUME NEW f \in Executors, f # e
         PROVE  Fits(ex[f])'
    <3>1. ex[f] \in Memory /\ Placed(ex[f]) /\ Follows(ex[f]) /\ ex'[f] = ex[f]
      BY <2>8, <2>10, Columns
    <3>2. ex[f].base.seq < new.seq /\ ex[f].base.seq \in Nat /\ new.seq \in Nat
      BY <2>1, <2>2, <3>1, Columns DEF Follows
    <3>. QED  BY <1>5, <2>4, <3>1, <3>2 DEF Fits, Placed, Follows
  <2>11. new.seq # 0
    BY <2>2, Columns
  <2>. QED
    BY <1>5, <2>3, <2>4, <2>8, <2>9, <2>10, <2>11 DEF Inv, CheckpointFollows
<1>. QED  BY <1>3, <1>4, <1>5 DEF SaveCheckpoint

LEMMA MarkAdmittedKeeps ==
    ASSUME Inv, NEW e \in Executors, MarkAdmitted(e)
    PROVE  Inv' /\ CheckpointFollows
<1>1. Typed' /\ lease' = lease /\ checkpoint' = checkpoint
  BY DEF MarkAdmitted, Inv, Typed, outside
<1>2. PICK r : r = Rest(e)
  OBVIOUS
<1>3. Fits(r) /\ ex' = [ex EXCEPT ![e] = r]
  BY <1>2, Rests DEF MarkAdmitted, Due, Becomes
<1>. QED  BY <1>1, <1>3, Thinks

LEMMA BoundaryKeeps ==
    ASSUME Inv, NEW e \in Executors, BoundaryStep(e)
    PROVE  Inv' /\ CheckpointFollows
  BY FenceKeeps, SaveRunKeeps, SaveCheckpointKeeps, MarkAdmittedKeeps DEF BoundaryStep

-----------------------------------------------------------------------------
(* Opening and closing the lease session. *)

(* The lease row keeps its shape, and its epoch never goes back.           *)
LEMMA LeaseForward ==
    ASSUME Inv, NEW e \in Executors, NEW epoch,
           RL!Acquire(e, now) \/ RL!Renew(e, epoch, now) \/ RL!Release(e, epoch, now)
    PROVE  lease' \in RL!Lease /\ lease'.epoch >= lease.epoch /\ lease'.epoch \in Nat
<1>1. /\ lease.epoch \in Nat /\ lease.acquired_at \in Nat /\ lease.expires_at \in Nat
      /\ lease.owner \in Executors \cup {NoExecutor}
      /\ now \in Nat /\ now + LeaseSeconds \in Nat
  BY Columns, BoundsAssumption DEF Inv, Typed, RL!Lease
<1>2. RL!Later(lease.expires_at, now + LeaseSeconds) \in Nat
  BY <1>1 DEF RL!Later
<1>3. CASE RL!Acquire(e, now)
  BY <1>1, <1>2, <1>3 DEF RL!Acquire, RL!AcquiredLease, RL!Lease
<1>4. CASE RL!Renew(e, epoch, now)
  BY <1>1, <1>2, <1>4 DEF RL!Renew, RL!UpdatedLease, RL!Lease
<1>5. CASE RL!Release(e, epoch, now)
  BY <1>1, <1>5 DEF RL!Release, RL!UpdatedLease, RL!Lease
<1>. QED  BY <1>3, <1>4, <1>5

(* A lease that is opened is not older than the row it is taken from.      *)
LEMMA OpensLease ==
    ASSUME Inv, NEW e \in Executors, ex[e].at \in Opening, RL!Acquire(e, now),
           NEW m \in Memory, m.base = ex[e].base, NEW place \in Places \ (Opening \cup Iterating),
           NEW steps \in Seq(Boundary),
           Goes(e, [m EXCEPT !.epoch = lease'.epoch], place, steps),
           UNCHANGED <<run, checkpoint, ledger, attempt, outside>>
    PROVE  Inv' /\ CheckpointFollows
<1>1. lease' \in RL!Lease /\ lease'.epoch >= lease.epoch /\ lease'.epoch \in Nat
  BY LeaseForward
<1>2. Typed' /\ checkpoint' = checkpoint
  BY <1>1 DEF Inv, Typed, outside
<1>3. PICK epoch : epoch = lease'.epoch
  OBVIOUS
<1>4. PICK r : r = [m EXCEPT !.epoch = epoch, !.at = place, !.todo = steps]
  OBVIOUS
<1>5. ex' = [ex EXCEPT ![e] = r]
  BY <1>3, <1>4 DEF Goes, Becomes, Memory
<1>6. /\ r \in Memory /\ r.at = place /\ r.base = ex[e].base /\ r.epoch = epoch
  BY <1>1, <1>3, <1>4 DEF Memory
<1>7. ex' \in [Executors -> Memory] /\ ex'[e] = r
      /\ \A f \in Executors : f # e => ex'[f] = ex[f]
  BY <1>5, <1>6 DEF Inv
<1>8. Placed(r)
  BY <1>6 DEF Placed, Opening, Iterating, Handling
<1>9. Fits(ex[e])'
  <2>1. r.base.row.epoch <= lease.epoch /\ r.base.seq <= checkpoint.seq
        /\ (r.base.seq = checkpoint.seq => r.base = checkpoint)
    BY <1>6, Columns DEF Follows
  <2>2. r.base.row.epoch <= epoch /\ r.base.row.epoch <= lease'.epoch
        /\ r.epoch <= lease'.epoch
    BY <2>1, <1>1, <1>3, <1>6, Columns
  <2>. QED  BY <1>2, <1>6, <1>7, <1>8, <2>1, <2>2 DEF Fits, Placed, Follows
<1>10. ASSUME NEW f \in Executors, f # e
       PROVE  Fits(ex[f])'
  <2>1. ex[f] \in Memory /\ Placed(ex[f]) /\ Follows(ex[f]) /\ ex'[f] = ex[f]
    BY <1>7, <1>10, Columns
  <2>2. ex[f].base.row.epoch <= lease'.epoch /\ ex[f].epoch <= lease'.epoch
    BY <2>1, <1>1, Columns DEF Follows
  <2>. QED  BY <1>2, <2>1, <2>2 DEF Fits, Placed, Follows
<1>11. checkpoint.row.epoch <= lease'.epoch
  BY <1>1, Columns DEF Inv
<1>. QED
  BY <1>2, <1>7, <1>9, <1>10, <1>11, Columns DEF Inv, CheckpointFollows, NoCheckpoint, NoRun

LEMMA StartKeeps ==
    ASSUME Inv, NEW e \in Executors, Start(e)
    PROVE  Inv' /\ CheckpointFollows
<1>1. ex[e].at \in Opening
  BY DEF Start, At, Opening
<1>2. PICK m : m = Mine(e, "running", "safe")
  OBVIOUS
<1>3. m \in Memory /\ m.base = ex[e].base
  BY <1>2, MineTyped
<1>4. "parse" \in Places \ (Opening \cup Iterating) /\ <<"fence", "save">> \in Seq(Boundary)
  BY DEF Places, Opening, Iterating, Handling, Boundary
<1>. QED  BY <1>1, <1>2, <1>3, <1>4, OpensLease DEF Start

LEMMA ReadRunKeeps ==
    ASSUME Inv, NEW e \in Executors, ReadRun(e)
    PROVE  Inv' /\ CheckpointFollows
<1>1. Typed' /\ lease' = lease /\ checkpoint' = checkpoint
  BY DEF ReadRun, Inv, Typed, outside
<1>2. ex[e].at = "new" /\ ex[e].base = NoCheckpoint
  BY Columns DEF ReadRun, At, Placed
<1>3. run \in Row /\ run.waits \in SUBSET Actions /\ <<>> \in Seq(Boundary)
  BY DEF Inv, Typed, Row
<1>4. PICK r : r = [ex[e] EXCEPT !.mine = run, !.pending = run.waits,
                                 !.at = "read_checkpoint", !.todo = <<>>]
  OBVIOUS
<1>5. /\ r \in Memory /\ r.at = "read_checkpoint" /\ r.todo = <<>>
      /\ r.base = ex[e].base /\ r.epoch = ex[e].epoch
  BY <1>3, <1>4, Columns DEF Memory, Places, Opening
<1>6. Fits(r)
  <2>1. Placed(r) /\ r.at \in Opening
    BY <1>5 DEF Placed, Opening, Iterating, Handling
  <2>. QED  BY <1>5, <2>1, Carries
<1>7. PICK x : x = [ex[e] EXCEPT !.at = "done", !.todo = <<>>]
  OBVIOUS
<1>8. /\ x \in Memory /\ x.at = "done" /\ x.base = NoCheckpoint /\ x.epoch = ex[e].epoch
  BY <1>2, <1>3, <1>7, Columns DEF Memory, Places
<1>9. Fits(x)
  <2>1. Placed(x)
    BY <1>8 DEF Placed, Opening, Iterating, Handling
  <2>2. Follows(x)
    BY <1>2, <1>8, Blank, Columns DEF Follows
  <2>. QED  BY <1>8, <2>1, <2>2 DEF Fits
<1>10. ex' = [ex EXCEPT ![e] = r] \/ ex' = [ex EXCEPT ![e] = x]
  BY <1>4, <1>7, Columns DEF ReadRun, Goes, GoesOn, Becomes, Memory
<1>. QED  BY <1>1, <1>6, <1>9, <1>10, Thinks

LEMMA ReadCheckpointKeeps ==
    ASSUME Inv, NEW e \in Executors, ReadCheckpoint(e)
    PROVE  Inv' /\ CheckpointFollows
<1>1. Typed' /\ lease' = lease /\ checkpoint' = checkpoint
  BY RowsStay DEF ReadCheckpoint
<1>2. CASE Becomes(e, Leaving(e, "settle"))
  BY <1>1, <1>2, GoesAway DEF Places, Opening, Iterating, Handling
<1>3. CASE Goes(e, [ex[e] EXCEPT !.base = checkpoint], "open", <<>>)
  <2>1. PICK r : r = [ex[e] EXCEPT !.base = checkpoint, !.at = "open", !.todo = <<>>]
    OBVIOUS
  <2>2. checkpoint \in Checkpoint /\ <<>> \in Seq(Boundary)
    BY DEF Inv, Typed
  <2>3. /\ r \in Memory /\ r.at = "open" /\ r.todo = <<>> /\ r.base = checkpoint
        /\ r.epoch = ex[e].epoch
    BY <2>1, <2>2, Columns DEF Memory, Places, Opening
  <2>4. Placed(r) /\ r.at \in Opening
    BY <2>3 DEF Placed, Opening, Iterating, Handling
  <2>5. Fits(r)
    BY <2>3, <2>4, Columns DEF Fits, Follows, Inv
  <2>6. ex' = [ex EXCEPT ![e] = r]
    BY <1>3, <2>1, Columns DEF Goes, Becomes, Memory
  <2>. QED  BY <1>1, <2>5, <2>6, Thinks
<1>. QED  BY <1>2, <1>3 DEF ReadCheckpoint

LEMMA OpenLeaseKeeps ==
    ASSUME Inv, NEW e \in Executors, OpenLease(e)
    PROVE  Inv' /\ CheckpointFollows
<1>1. CASE RL!Acquire(e, now)
           /\ Goes(e, [ex[e] EXCEPT !.epoch = lease'.epoch], "collect", <<"fence">>)
  <2>1. ex[e].at \in Opening /\ ex[e] \in Memory /\ <<"fence">> \in Seq(Boundary)
        /\ "collect" \in Places \ (Opening \cup Iterating)
    BY Columns DEF OpenLease, At, Places, Opening, Iterating, Handling, Resuming, Boundary
  <2>. QED  BY <1>1, <2>1, OpensLease DEF OpenLease
<1>2. CASE Becomes(e, Leaving(e, "settle")) /\ UNCHANGED lease
  <2>1. Typed' /\ lease' = lease /\ checkpoint' = checkpoint
    BY <1>2, RowsStay DEF OpenLease
  <2>. QED  BY <1>2, <2>1, GoesAway DEF Places, Opening, Iterating, Handling
<1>. QED  BY <1>1, <1>2 DEF OpenLease

LEMMA RenewKeeps ==
    ASSUME Inv, NEW e \in Executors, Renew(e)
    PROVE  Inv' /\ CheckpointFollows
<1>1. CASE RL!Renew(e, ex[e].epoch, now) /\ UNCHANGED ex
  <2>1. lease' \in RL!Lease /\ lease'.epoch >= lease.epoch
    BY <1>1, LeaseForward
  <2>2. Typed' /\ checkpoint' = checkpoint
    BY <2>1 DEF Renew, Inv, Typed, outside
  <2>3. PICK r : r = ex[e]
    OBVIOUS
  <2>4. Fits(r) /\ ex' = [ex EXCEPT ![e] = r]
    BY <1>1, <2>3 DEF Inv
  <2>. QED  BY <2>1, <2>2, <2>4, Steps
<1>2. CASE Becomes(e, [ex[e] EXCEPT !.lost = TRUE]) /\ UNCHANGED lease
  <2>1. Typed' /\ lease' = lease /\ checkpoint' = checkpoint
    BY <1>2, RowsStay DEF Renew
  <2>2. PICK r : r = [ex[e] EXCEPT !.lost = TRUE]
    OBVIOUS
  <2>3. /\ r \in Memory /\ r.at = ex[e].at /\ r.todo = ex[e].todo /\ r.base = ex[e].base
        /\ r.epoch = ex[e].epoch /\ r.mine = ex[e].mine /\ r.action = ex[e].action
    BY <2>2, Columns DEF Memory
  <2>4. Placed(r)
    BY <2>3, Columns DEF Placed
  <2>5. Fits(r)
    BY <2>3, <2>4, Carries
  <2>. QED  BY <1>2, <2>1, <2>2, <2>5, Thinks DEF Becomes
<1>. QED  BY <1>1, <1>2 DEF Renew

LEMMA CloseKeeps ==
    ASSUME Inv, NEW e \in Executors, Close(e)
    PROVE  Inv' /\ CheckpointFollows
<1>1. lease' \in RL!Lease /\ lease'.epoch >= lease.epoch
  BY LeaseForward, Columns DEF Close, Inv, Typed
<1>2. Typed' /\ checkpoint' = checkpoint
  BY <1>1 DEF Close, Inv, Typed, outside
<1>3. PICK place : place = IF attempt[e] = "none" THEN "done" ELSE "settle"
  OBVIOUS
<1>4. place \in Places \ (Opening \cup Iterating)
  BY <1>3 DEF Places, Opening, Iterating, Handling
<1>5. PICK r : r = [Fresh EXCEPT !.at = place]
  OBVIOUS
<1>6. Fits(r) /\ ex' = [ex EXCEPT ![e] = r]
  BY <1>3, <1>4, <1>5, Leaves DEF Close, Becomes
<1>. QED  BY <1>1, <1>2, <1>6, Steps

LEMMA SettleKeeps ==
    ASSUME Inv, NEW e \in Executors, Settle(e)
    PROVE  Inv' /\ CheckpointFollows
<1>1. Typed' /\ lease' = lease /\ checkpoint' = checkpoint
  BY DEF Settle, Inv, Typed, outside
<1>2. /\ "done" \in Places \ Opening /\ "done" \notin Iterating /\ "done" \notin Handling
      /\ <<>> \in Seq(Boundary) /\ ex[e].at \notin Opening /\ ex[e] \in Memory
  BY Columns DEF Settle, At, Places, Opening, Iterating, Handling
<1>. QED  BY <1>1, <1>2, GoesOnward DEF Settle, GoesOn

LEMMA SessionKeeps ==
    ASSUME Inv, NEW e \in Executors, SessionStep(e)
    PROVE  Inv' /\ CheckpointFollows
  BY StartKeeps, ReadRunKeeps, ReadCheckpointKeeps, OpenLeaseKeeps, RenewKeeps, CloseKeeps,
     SettleKeeps DEF SessionStep

-----------------------------------------------------------------------------
(* Resuming. *)

(* The lists of steps that boundaries are made of. *)
LEMMA Lists ==
    /\ <<>> \in Seq(Boundary) /\ <<"fence">> \in Seq(Boundary) /\ <<"save">> \in Seq(Boundary)
    /\ <<"fence", "save">> \in Seq(Boundary) /\ <<"save", "fence">> \in Seq(Boundary)
    /\ <<"save", "checkpoint">> \in Seq(Boundary)
    /\ <<"fence", "save", "checkpoint">> \in Seq(Boundary)
    /\ <<"save", "fence", "checkpoint", "fence">> \in Seq(Boundary)
    /\ <<"save", "fence", "save", "checkpoint">> \in Seq(Boundary)
    /\ <<"save", "fence", "save", "checkpoint", "fence">> \in Seq(Boundary)
    /\ <<"save", "reconciled", "fence">> \in Seq(Boundary)
    /\ <<"save", "reconciled", "save">> \in Seq(Boundary)
    /\ <<"fence", "save", "checkpoint", "fence", "checkpoint", "fence">> \in Seq(Boundary)
    /\ <<"save", "checkpoint", "admit", "fence", "save", "checkpoint", "fence">>
          \in Seq(Boundary)
  BY DEF Boundary

LEMMA CollectKeeps ==
    ASSUME Inv, NEW e \in Executors, Collect(e)
    PROVE  Inv' /\ CheckpointFollows
<1>1. Typed' /\ lease' = lease /\ checkpoint' = checkpoint
  BY RowsStay DEF Collect
<1>2. ex[e].at \in {"collect", "iterate"} /\ ex[e].at \notin Opening /\ ex[e] \in Memory
  BY Columns DEF Collect, At, Opening
<1>3. PICK place, steps :
         /\ place \in {"collected", "gathered"} /\ steps \in Seq(Boundary)
         /\ Goes(e, ex[e], place, steps)
  BY Lists DEF Collect, GoesOn
<1>4. place \in Places \ Opening /\ place \notin Iterating /\ place \notin Handling
  BY <1>3 DEF Places, Opening, Iterating, Handling, Resuming
<1>. QED  BY <1>1, <1>2, <1>3, <1>4, GoesOnward

LEMMA RecordCollectedKeeps ==
    ASSUME Inv, NEW e \in Executors, RecordCollected(e)
    PROVE  Inv' /\ CheckpointFollows
<1>. DEFINE got == Finished(ex[e].pending)
            waits == ex[e].pending \ got
<1>1. got \subseteq Actions /\ waits \in SUBSET Actions
  BY Columns DEF Finished
<1>2. known' \subseteq Actions
  BY <1>1 DEF RecordCollected, Inv, Typed
<1>3. ledger' \in [Actions -> {"none", "prepared", "dispatched", "waiting"} \cup Closed]
  BY DEF RecordCollected, Inv, Typed, Closed
<1>4. Typed' /\ lease' = lease /\ checkpoint' = checkpoint
  BY <1>2, <1>3 DEF RecordCollected, Inv, Typed
<1>5. PICK n : n = IF waits = {} /\ ex[e].mine.status = "waiting"
                   THEN Mine(e, "running", "safe") ELSE ex[e]
  OBVIOUS
<1>6. n \in Memory /\ n.base = ex[e].base /\ n.epoch = ex[e].epoch /\ n.mine \in Row
  BY <1>5, MineTyped, Columns
<1>7. PICK m : m = [n EXCEPT !.mine.waits = waits, !.pending = waits]
  OBVIOUS
<1>8. [n.mine EXCEPT !.waits = waits] \in Row
  BY <1>1, <1>6 DEF Row
<1>9. m = [n EXCEPT !.mine = [n.mine EXCEPT !.waits = waits], !.pending = waits]
  BY <1>6, <1>7 DEF Memory
<1>10. m \in Memory /\ m.base = ex[e].base /\ m.epoch = ex[e].epoch
  BY <1>1, <1>6, <1>8, <1>9 DEF Memory
<1>11. PICK place : place \in {"reconcile", "begin"} /\ Goes(e, m, place, <<"fence", "save">>)
  <2>. HIDE DEF waits
  <2>1. Goes(e, m, IF ex[e].at = "collected" THEN "reconcile" ELSE "begin",
             <<"fence", "save">>)
    BY <1>5, <1>7 DEF RecordCollected, waits
  <2>. QED  BY <2>1
<1>12. place \in Places \ Opening /\ place \notin Iterating /\ place \notin Handling
       /\ ex[e].at \notin Opening
  BY <1>11 DEF Places, Opening, Iterating, Handling, Resuming, RecordCollected, At
<1>. QED  BY <1>4, <1>10, <1>11, <1>12, Lists, GoesOnward

(* What a reconcile decides names actions of the ledger. *)
LEMMA DecisionTyped ==
    ASSUME NEW e
    PROVE  ReconcileDecision(e) \in Decision
<1>1. \A ks : ks \subseteq Actions => Finished(ks) \subseteq Actions
  BY DEF Finished
<1>2. Recorded(e) \subseteq Actions
  BY DEF Recorded
<1>. QED  BY <1>1, <1>2 DEF ReconcileDecision, Decision

LEMMA ReconcileKeeps ==
    ASSUME Inv, NEW e \in Executors, Reconcile(e)
    PROVE  Inv' /\ CheckpointFollows
<1>1. Typed' /\ lease' = lease /\ checkpoint' = checkpoint
  BY RowsStay DEF Reconcile
<1>2. ex[e].at \notin Opening /\ ex[e] \in Memory
  BY Columns DEF Reconcile, At, Opening
<1>3. /\ "apply" \in Places \ Opening /\ "apply" \notin Iterating /\ "apply" \notin Handling
      /\ "commit" \in Places \ Opening /\ "commit" \notin Iterating
      /\ "commit" \notin Handling
  BY DEF Places, Opening, Iterating, Handling, Resuming
<1>4. CASE GoesOn(e, "commit", <<"fence">>)
  BY <1>1, <1>2, <1>3, <1>4, Lists, GoesOnward DEF GoesOn
<1>5. CASE Goes(e, [ex[e] EXCEPT !.decision = ReconcileDecision(e)], "apply", <<"fence">>)
  <2>1. PICK d : d = ReconcileDecision(e) /\ d \in Decision
    BY DecisionTyped
  <2>2. PICK m : m = [ex[e] EXCEPT !.decision = d]
    OBVIOUS
  <2>3. m \in Memory /\ m.base = ex[e].base /\ m.epoch = ex[e].epoch
    BY <1>2, <2>1, <2>2 DEF Memory
  <2>. QED  BY <1>1, <1>2, <1>3, <1>5, <2>1, <2>2, <2>3, Lists, GoesOnward
<1>. QED  BY <1>4, <1>5 DEF Reconcile

LEMMA ApplyReconcileKeeps ==
    ASSUME Inv, NEW e \in Executors, ApplyReconcile(e)
    PROVE  Inv' /\ CheckpointFollows
<1>1. PICK d : d = ex[e].decision
  OBVIOUS
<1>2. d \in Decision /\ d.waits \in SUBSET Actions /\ d.finish \in SUBSET Actions
  BY <1>1, Columns DEF Memory, Decision
<1>3. known' \subseteq Actions
  BY <1>1, <1>2 DEF ApplyReconcile, Inv, Typed
<1>4. ledger' \in [Actions -> {"none", "prepared", "dispatched", "waiting"} \cup Closed]
  BY DEF ApplyReconcile, Inv, Typed, Closed
<1>5. Typed' /\ lease' = lease /\ checkpoint' = checkpoint
  BY <1>3, <1>4 DEF ApplyReconcile, Inv, Typed
<1>6. ex[e].at \notin Opening
  BY DEF ApplyReconcile, At, Opening
<1>7. CASE Aborts(e)
  BY <1>5, <1>7, CloseIsAway, GoesAway DEF Aborts
<1>8. PICK settled : settled = [ex[e] EXCEPT !.decision = NoDecision, !.mine.waits = d.waits,
                                             !.pending = d.waits]
  OBVIOUS
<1>9. /\ settled \in Memory /\ settled.base = ex[e].base /\ settled.epoch = ex[e].epoch
      /\ settled.mine \in Row
  <2>1. PICK x : x = [ex[e].mine EXCEPT !.waits = d.waits]
    OBVIOUS
  <2>2. settled = [ex[e] EXCEPT !.decision = NoDecision, !.mine = x, !.pending = d.waits]
    BY <1>8, <2>1, Columns DEF Memory
  <2>3. x \in Row
    BY <1>2, <2>1, Columns DEF Row
  <2>. QED  BY <1>2, <2>2, <2>3, Columns, Blank DEF Memory
<1>10. ASSUME NEW m, NEW steps \in Seq(Boundary),
              \/ m = [settled EXCEPT !.mine.waits = {}, !.pending = {}]
              \/ m = [settled EXCEPT !.mine.status = "waiting", !.mine.phase = "safe"]
              \/ m = [settled EXCEPT !.mine.status = "running", !.mine.phase = "safe",
                                     !.pending = ex[e].pending],
              Goes(e, m, "commit", steps)
       PROVE  Inv' /\ CheckpointFollows
  <2>1. PICK x, ks : x \in Row /\ ks \in SUBSET Actions
                     /\ m = [settled EXCEPT !.mine = x, !.pending = ks]
    <3>1. CASE m = [settled EXCEPT !.mine.waits = {}, !.pending = {}]
      <4>1. [settled.mine EXCEPT !.waits = {}] \in Row
        BY <1>9 DEF Row
      <4>2. m = [settled EXCEPT !.mine = [settled.mine EXCEPT !.waits = {}], !.pending = {}]
        BY <3>1, <1>9 DEF Memory
      <4>. QED  BY <4>1, <4>2
    <3>2. CASE m = [settled EXCEPT !.mine.status = "waiting", !.mine.phase = "safe"]
      <4>1. [settled.mine EXCEPT !.status = "waiting", !.phase = "safe"] \in Row
        BY <1>9 DEF Row
      <4>2. m = [settled EXCEPT !.mine = [settled.mine EXCEPT !.status = "waiting",
                                                              !.phase = "safe"],
                                !.pending = settled.pending]
        BY <3>2, <1>9 DEF Memory, Row
      <4>3. settled.pending \in SUBSET Actions
        BY <1>9 DEF Memory
      <4>. QED  BY <4>1, <4>2, <4>3
    <3>3. CASE m = [settled EXCEPT !.mine.status = "running", !.mine.phase = "safe",
                                   !.pending = ex[e].pending]
      <4>1. [settled.mine EXCEPT !.status = "running", !.phase = "safe"] \in Row
        BY <1>9 DEF Row
      <4>2. m = [settled EXCEPT !.mine = [settled.mine EXCEPT !.status = "running",
                                                              !.phase = "safe"],
                                !.pending = ex[e].pending]
        BY <3>3, <1>9 DEF Memory, Row
      <4>. QED  BY <4>1, <4>2, Columns
    <3>. QED  BY <1>10, <3>1, <3>2, <3>3
  <2>2. m \in Memory /\ m.base = ex[e].base /\ m.epoch = ex[e].epoch
    BY <1>9, <2>1 DEF Memory
  <2>3. "commit" \in Places \ Opening /\ "commit" \notin Iterating /\ "commit" \notin Handling
    BY DEF Places, Opening, Iterating, Handling, Resuming
  <2>. QED  BY <1>5, <1>6, <1>10, <2>2, <2>3, GoesOnward
<1>11. CASE \/ Goes(e, [settled EXCEPT !.mine.waits = {}, !.pending = {}], "commit",
                    <<"save", "fence">>)
            \/ Goes(e, [settled EXCEPT !.mine.status = "waiting", !.mine.phase = "safe"],
                    "commit", <<"save", "fence">>)
            \/ Goes(e, [settled EXCEPT !.mine.status = "running", !.mine.phase = "safe",
                                       !.pending = ex[e].pending],
                    "commit", <<"save", "reconciled", "fence">>)
  BY <1>10, <1>11, Lists
<1>. QED  BY <1>1, <1>7, <1>8, <1>11 DEF ApplyReconcile

LEMMA CommitResumeKeeps ==
    ASSUME Inv, NEW e \in Executors, CommitResume(e)
    PROVE  Inv' /\ CheckpointFollows
<1>1. Typed' /\ lease' = lease /\ checkpoint' = checkpoint
  BY RowsStay DEF CommitResume
<1>2. ex[e].at \notin Opening
  BY DEF CommitResume, At, Opening
<1>3. /\ "close" \in Places \ Opening /\ "close" \notin Iterating /\ "close" \notin Handling
      /\ "iterate" \in Places \ Opening /\ "iterate" \notin Iterating
      /\ "iterate" \notin Handling
  BY DEF Places, Opening, Iterating, Handling
<1>4. CASE Goes(e, [Mine(e, "waiting", "safe") EXCEPT !.mine.waits = ex[e].pending],
                "close", <<"save", "reconciled", "save">>)
  <2>1. PICK n : n = Mine(e, "waiting", "safe")
    OBVIOUS
  <2>2. n \in Memory /\ n.base = ex[e].base /\ n.epoch = ex[e].epoch /\ n.mine \in Row
    BY <2>1, MineTyped
  <2>3. PICK m : m = [n EXCEPT !.mine.waits = ex[e].pending]
    OBVIOUS
  <2>4. [n.mine EXCEPT !.waits = ex[e].pending] \in Row
    BY <2>2, Columns DEF Row
  <2>5. m = [n EXCEPT !.mine = [n.mine EXCEPT !.waits = ex[e].pending]]
    BY <2>2, <2>3 DEF Memory
  <2>6. m \in Memory /\ m.base = ex[e].base /\ m.epoch = ex[e].epoch
    BY <2>2, <2>4, <2>5 DEF Memory
  <2>. QED  BY <1>1, <1>2, <1>3, <1>4, <2>1, <2>3, <2>6, Lists, GoesOnward
<1>5. CASE Goes(e, Mine(e, "blocked", "safe"), "close", <<"save">>)
  <2>1. PICK m : m = Mine(e, "blocked", "safe")
    OBVIOUS
  <2>2. m \in Memory /\ m.base = ex[e].base /\ m.epoch = ex[e].epoch
    BY <2>1, MineTyped
  <2>. QED  BY <1>1, <1>2, <1>3, <1>5, <2>1, <2>2, Lists, GoesOnward
<1>6. CASE Goes(e, Mine(e, "running", "safe"), "iterate",
                <<"save", "checkpoint", "admit", "fence", "save", "checkpoint", "fence">>)
  <2>1. PICK m : m = Mine(e, "running", "safe")
    OBVIOUS
  <2>2. m \in Memory /\ m.base = ex[e].base /\ m.epoch = ex[e].epoch
    BY <2>1, MineTyped
  <2>. QED  BY <1>1, <1>2, <1>3, <1>6, <2>1, <2>2, Lists, GoesOnward
<1>. QED  BY <1>4, <1>5, <1>6 DEF CommitResume

LEMMA ResumeKeeps ==
    ASSUME Inv, NEW e \in Executors, ResumeStep(e)
    PROVE  Inv' /\ CheckpointFollows
  BY CollectKeeps, RecordCollectedKeeps, ReconcileKeeps, ApplyReconcileKeeps,
     CommitResumeKeeps DEF ResumeStep

-----------------------------------------------------------------------------
(* The loop. *)

LEMMA BeginIterationKeeps ==
    ASSUME Inv, NEW e \in Executors, BeginIteration(e)
    PROVE  Inv' /\ CheckpointFollows
<1>1. Typed' /\ lease' = lease /\ checkpoint' = checkpoint
  BY RowsStay DEF BeginIteration
<1>2. ex[e].at \notin Opening
  BY DEF BeginIteration, At, Opening
<1>3. PICK x : x = [ex[e].mine EXCEPT !.iteration = ex[e].mine.iteration + 1]
  OBVIOUS
<1>4. x \in Row /\ x.iteration > 0
  BY <1>3, Columns, BoundsAssumption DEF BeginIteration, Row
<1>5. PICK m : m = [ex[e] EXCEPT !.mine.iteration = @ + 1, !.acted = 0]
  OBVIOUS
<1>6. m = [ex[e] EXCEPT !.mine = x, !.acted = 0]
  BY <1>3, <1>5, Columns DEF Memory, Row
<1>7. m \in Memory /\ m.base = ex[e].base /\ m.epoch = ex[e].epoch /\ m.mine = x
  BY <1>4, <1>6, Columns DEF Memory
<1>8. Goes(e, m, "assessed", <<"save", "fence", "save", "checkpoint">>)
  BY <1>5 DEF BeginIteration
<1>9. "assessed" \in Places \ Opening /\ "assessed" \notin Handling
  BY DEF Places, Opening, Iterating, Handling
<1>. QED  BY <1>1, <1>2, <1>4, <1>7, <1>8, <1>9, Lists, GoesOnward

LEMMA StopKeeps ==
    ASSUME Inv, NEW e \in Executors, Stop(e)
    PROVE  Inv' /\ CheckpointFollows
<1>1. Typed' /\ lease' = lease /\ checkpoint' = checkpoint
  BY RowsStay DEF Stop
<1>2. ex[e].at \notin Opening
  BY DEF Stop, At, Opening
<1>3. PICK status \in {"terminal", "blocked"} :
         Goes(e, Mine(e, status, "safe"), "close", <<"fence", "save", "checkpoint">>)
  BY DEF Stop
<1>4. PICK m : m = Mine(e, status, "safe")
  OBVIOUS
<1>5. m \in Memory /\ m.base = ex[e].base /\ m.epoch = ex[e].epoch
  BY <1>4, MineTyped
<1>6. "close" \in Places \ Opening /\ "close" \notin Iterating /\ "close" \notin Handling
  BY DEF Places, Opening, Iterating, Handling
<1>. QED  BY <1>1, <1>2, <1>3, <1>4, <1>5, <1>6, Lists, GoesOnward

(* The steps of an iteration: the run goes from a place in it to another   *)
(* one, or to the next.                                                    *)
LEMMA IterationKeeps ==
    ASSUME Inv, NEW e \in Executors,
           ParseGoal(e) \/ Plan(e) \/ GoInFlight(e) \/ FinishActions(e) \/ AfterActions(e)
    PROVE  Inv' /\ CheckpointFollows
<1>1. Typed' /\ lease' = lease /\ checkpoint' = checkpoint
  BY RowsStay DEF ParseGoal, Plan, GoInFlight, FinishActions, AfterActions
<1>2. ex[e].at \notin Opening
  BY DEF ParseGoal, Plan, GoInFlight, FinishActions, AfterActions, At, Opening
<1>3. ex[e] \in Memory /\ ex[e].mine \in Row /\ ex[e].mine.iteration \in Nat
      /\ ex[e].pending \in SUBSET Actions
      /\ (ex[e].at \in Iterating => ex[e].mine.iteration > 0)
  BY Columns, BoundsAssumption DEF Placed, Row
<1>4. ASSUME NEW m, NEW place, NEW steps \in Seq(Boundary), Goes(e, m, place, steps),
             NEW x \in Row, x.iteration = ex[e].mine.iteration, NEW flag \in BOOLEAN,
             m = [ex[e] EXCEPT !.mine = x, !.recovery = flag],
             place \in {"planned", "act", "result", "iterate", "close"},
             place \in {"planned", "act", "result"} => ex[e].at \in Iterating
      PROVE  Inv' /\ CheckpointFollows
  <2>1. m \in Memory /\ m.base = ex[e].base /\ m.epoch = ex[e].epoch /\ m.mine = x
    BY <1>3, <1>4 DEF Memory
  <2>2. place \in Places \ Opening /\ place \notin Handling
        /\ (place \in Iterating => m.mine.iteration > 0)
    BY <1>3, <1>4, <2>1 DEF Places, Opening, Iterating, Handling
  <2>. QED  BY <1>1, <1>2, <1>4, <2>1, <2>2, GoesOnward
<1>5. ex[e].recovery \in BOOLEAN
      /\ ex[e] = [ex[e] EXCEPT !.mine = ex[e].mine, !.recovery = ex[e].recovery]
  BY <1>3 DEF Memory
<1>6. CASE ParseGoal(e)
  BY <1>3, <1>4, <1>5, <1>6, Lists DEF ParseGoal, GoesOn
<1>7. CASE Plan(e)
  <2>1. ex[e].at \in Iterating
    BY <1>7 DEF Plan, At, Iterating
  <2>2. CASE GoesOn(e, "planned", <<"save", "fence", "save", "checkpoint", "fence">>)
    BY <1>3, <1>4, <1>5, <2>1, <2>2, Lists DEF GoesOn
  <2>3. CASE Goes(e, [ex[e] EXCEPT !.recovery = TRUE], "planned",
                  <<"save", "fence", "checkpoint", "fence">>)
    <3>1. PICK m : m = [ex[e] EXCEPT !.recovery = TRUE]
      OBVIOUS
    <3>2. m = [ex[e] EXCEPT !.mine = ex[e].mine, !.recovery = TRUE]
      BY <1>3, <3>1 DEF Memory
    <3>. QED  BY <1>3, <1>4, <2>1, <2>3, <3>1, <3>2, Lists
  <2>. QED  BY <1>7, <2>2, <2>3 DEF Plan
<1>8. CASE GoInFlight(e) \/ FinishActions(e)
  <2>1. PICK place \in {"act", "result"}, phase \in {"action_inflight", "safe"},
             steps \in Seq(Boundary) :
           /\ Goes(e, [ex[e] EXCEPT !.mine.phase = phase], place, steps)
           /\ ex[e].at \in Iterating
    BY <1>8, Lists DEF GoInFlight, FinishActions, At, Iterating
  <2>2. PICK x : x = [ex[e].mine EXCEPT !.phase = phase]
    OBVIOUS
  <2>3. x \in Row /\ x.iteration = ex[e].mine.iteration
    BY <1>3, <2>1, <2>2 DEF Row
  <2>4. PICK m : m = [ex[e] EXCEPT !.mine.phase = phase]
    OBVIOUS
  <2>5. m = [ex[e] EXCEPT !.mine = x, !.recovery = ex[e].recovery]
    BY <1>3, <2>2, <2>4 DEF Memory
  <2>6. Goes(e, m, place, steps) /\ ex[e].at \in Iterating
    BY <2>1, <2>4
  <2>7. PICK flag \in BOOLEAN : flag = ex[e].recovery
    BY <1>5
  <2>8. m = [ex[e] EXCEPT !.mine = x, !.recovery = flag]
    BY <2>5, <2>7
  <2>9. place \in {"planned", "act", "result", "iterate", "close"}
    OBVIOUS
  <2>. QED  BY <1>4, <2>3, <2>6, <2>8, <2>9
<1>9. CASE AfterActions(e)
  <2>1. CASE Goes(e, [ex[e] EXCEPT !.mine.status = "waiting", !.mine.waits = ex[e].pending],
                  "close", <<"fence", "save", "checkpoint">>)
    <3>1. PICK x : x = [ex[e].mine EXCEPT !.status = "waiting", !.waits = ex[e].pending]
      OBVIOUS
    <3>2. x \in Row /\ x.iteration = ex[e].mine.iteration
      BY <1>3, <3>1 DEF Row
    <3>3. PICK m : m = [ex[e] EXCEPT !.mine.status = "waiting", !.mine.waits = ex[e].pending]
      OBVIOUS
    <3>4. m = [ex[e] EXCEPT !.mine = x, !.recovery = ex[e].recovery]
      BY <1>3, <3>1, <3>3 DEF Memory, Row
    <3>. QED  BY <1>4, <1>5, <2>1, <3>2, <3>3, <3>4, Lists
  <2>2. CASE GoesOn(e, "iterate", <<"save", "fence", "checkpoint", "fence">>)
    BY <1>3, <1>4, <1>5, <2>2, Lists DEF GoesOn
  <2>3. CASE Goes(e, [ex[e] EXCEPT !.recovery = FALSE], "iterate", <<"fence">>)
    <3>1. PICK m : m = [ex[e] EXCEPT !.recovery = FALSE]
      OBVIOUS
    <3>2. m = [ex[e] EXCEPT !.mine = ex[e].mine, !.recovery = FALSE]
      BY <1>3, <3>1 DEF Memory
    <3>. QED  BY <1>3, <1>4, <2>3, <3>1, <3>2, Lists
  <2>. QED  BY <1>9, <2>1, <2>2, <2>3 DEF AfterActions
<1>. QED  BY <1>6, <1>7, <1>8, <1>9

LEMMA LoopKeeps ==
    ASSUME Inv, NEW e \in Executors, LoopStep(e)
    PROVE  Inv' /\ CheckpointFollows
  BY BeginIterationKeeps, StopKeeps, IterationKeeps DEF LoopStep

-----------------------------------------------------------------------------
(* The actions of a plan. *)

LEMMA NextActionKeeps ==
    ASSUME Inv, NEW e \in Executors, NextAction(e)
    PROVE  Inv' /\ CheckpointFollows
<1>1. Typed' /\ lease' = lease /\ checkpoint' = checkpoint
  BY RowsStay DEF NextAction
<1>2. ex[e].at \notin Opening /\ ex[e].mine.iteration \in 1..MaxIterations
  BY Columns, BoundsAssumption DEF NextAction, At, Placed, Row, Opening, Iterating
<1>3. PICK id \in Ids, place \in {"prepare", "carry_out"}, steps \in Seq(Boundary) :
         Goes(e, [ex[e] EXCEPT !.action = <<ex[e].mine.iteration, id>>, !.acted = @ + 1],
              place, steps)
  BY Lists DEF NextAction
<1>4. PICK m : m = [ex[e] EXCEPT !.action = <<ex[e].mine.iteration, id>>, !.acted = @ + 1]
  OBVIOUS
<1>5. PICK k : k = <<ex[e].mine.iteration, id>>
  OBVIOUS
<1>6. k \in Actions
  BY <1>2, <1>3, <1>5 DEF Actions
<1>7. /\ m \in Memory /\ m.base = ex[e].base /\ m.epoch = ex[e].epoch
      /\ m.mine = ex[e].mine /\ m.action = k
  <2>1. ex[e] \in Memory /\ ex[e].acted \in Nat
    BY Columns DEF Memory
  <2>2. m = [ex[e] EXCEPT !.action = k, !.acted = ex[e].acted + 1]
    BY <1>4, <1>5, <2>1 DEF Memory
  <2>3. PICK n \in Nat : n = ex[e].acted + 1
    BY <2>1
  <2>. QED  BY <1>6, <2>1, <2>2, <2>3 DEF Memory
<1>8. place \in Places \ Opening /\ m.mine.iteration > 0 /\ m.action \in Actions
  BY <1>2, <1>3, <1>6, <1>7 DEF Places, Opening, Iterating, Handling
<1>. QED  BY <1>1, <1>2, <1>3, <1>4, <1>7, <1>8, GoesOnward

(* An executor with an action in hand goes on with it, or is answered.     *)
LEMMA HandlingKeeps ==
    ASSUME Inv, NEW e \in Executors, ex[e].at \in Handling,
           Typed', lease' = lease, checkpoint' = checkpoint,
           \/ \E place \in Handling : GoesOn(e, place, <<>>) \/ GoesOn(e, place, <<"fence">>)
           \/ Answered(e)
    PROVE  Inv' /\ CheckpointFollows
<1>1. /\ ex[e] \in Memory /\ ex[e].at \notin Opening /\ ex[e].mine.iteration > 0
      /\ ex[e].action \in Actions
  BY Columns DEF Placed, Opening, Iterating, Handling
<1>2. CASE \E place \in Handling : GoesOn(e, place, <<>>) \/ GoesOn(e, place, <<"fence">>)
  <2>1. PICK place \in Handling : GoesOn(e, place, <<>>) \/ GoesOn(e, place, <<"fence">>)
    BY <1>2
  <2>2. place \in Places \ Opening
    BY <2>1 DEF Places, Opening, Iterating, Handling
  <2>. QED  BY <1>1, <2>1, <2>2, Lists, GoesOnward DEF GoesOn
<1>3. CASE Answered(e)
  <2>1. PICK m : m = [ex[e] EXCEPT !.action = NoAction]
    OBVIOUS
  <2>2. m \in Memory /\ m.base = ex[e].base /\ m.epoch = ex[e].epoch /\ m.mine = ex[e].mine
    BY <1>1, <2>1 DEF Memory
  <2>3. "act" \in Places \ Opening /\ "act" \notin Handling
    BY DEF Places, Opening, Iterating, Handling
  <2>. QED  BY <1>1, <1>3, <2>1, <2>2, <2>3, Lists, GoesOnward DEF Answered
<1>. QED  BY <1>2, <1>3

(* Receipts stay within the states of the ledger. *)
LEMMA LedgerTyped ==
    ASSUME Inv, NEW k,
           NEW state \in {"none", "prepared", "dispatched", "waiting"} \cup Closed
    PROVE  [ledger EXCEPT ![k] = state]
              \in [Actions -> {"none", "prepared", "dispatched", "waiting"} \cup Closed]
  BY DEF Inv, Typed

LEMMA PrepareKeeps ==
    ASSUME Inv, NEW e \in Executors, Prepare(e) \/ Dispatch(e)
    PROVE  Inv' /\ CheckpointFollows
<1>1. ledger' \in [Actions -> {"none", "prepared", "dispatched", "waiting"} \cup Closed]
  <2>1. ledger \in [Actions -> {"none", "prepared", "dispatched", "waiting"} \cup Closed]
    BY DEF Inv, Typed
  <2>. QED  BY <2>1, LedgerTyped DEF Prepare, Dispatch
<1>2. Typed' /\ lease' = lease /\ checkpoint' = checkpoint
  BY <1>1 DEF Prepare, Dispatch, Inv, Typed, outside
<1>3. ex[e].at \in Handling
  BY DEF Prepare, Dispatch, At, Handling
<1>4. \/ \E place \in Handling : GoesOn(e, place, <<>>) \/ GoesOn(e, place, <<"fence">>)
      \/ Answered(e)
  BY DEF Prepare, Dispatch, Handling
<1>. QED  BY <1>2, <1>3, <1>4, HandlingKeeps

LEMMA RunToolKeeps ==
    ASSUME Inv, NEW e \in Executors, RunTool(e) \/ ToolReturns(e)
    PROVE  Inv' /\ CheckpointFollows
<1>1. ex[e].at \in Handling /\ ex[e].action \in Actions
  BY Columns DEF RunTool, ToolReturns, At, Handling, Placed
<1>2. known' \subseteq Actions
  BY <1>1 DEF RunTool, ToolReturns, Inv, Typed
<1>3. Typed' /\ lease' = lease /\ checkpoint' = checkpoint
  BY <1>2 DEF RunTool, ToolReturns, Inv, Typed
<1>4. \/ \E place \in Handling : GoesOn(e, place, <<>>) \/ GoesOn(e, place, <<"fence">>)
      \/ Answered(e)
  BY DEF RunTool, ToolReturns, Handling
<1>. QED  BY <1>1, <1>3, <1>4, HandlingKeeps

LEMMA RunTaskKeeps ==
    ASSUME Inv, NEW e \in Executors, RunTask(e)
    PROVE  Inv' /\ CheckpointFollows
<1>1. ex[e].at \in Handling /\ ex[e].action \in Actions
  BY Columns DEF RunTask, At, Handling, Placed
<1>2. known' \subseteq Actions
  BY <1>1 DEF RunTask, Inv, Typed
<1>3. task' \in [Actions -> [status : {"none", "running", "finished"},
                             runner : Processes \cup {NoProcess}]]
  <2>1. [status |-> "running", runner |-> ProcessOf[e]]
           \in [status : {"none", "running", "finished"}, runner : Processes \cup {NoProcess}]
    BY ProcessAssumption
  <2>. QED  BY <2>1 DEF RunTask, Inv, Typed
<1>4. Typed' /\ lease' = lease /\ checkpoint' = checkpoint
  BY <1>2, <1>3 DEF RunTask, Inv, Typed
<1>5. \/ \E place \in Handling : GoesOn(e, place, <<>>) \/ GoesOn(e, place, <<"fence">>)
      \/ Answered(e)
  BY DEF RunTask, Handling
<1>. QED  BY <1>1, <1>4, <1>5, HandlingKeeps

LEMMA RecordStartedKeeps ==
    ASSUME Inv, NEW e \in Executors, RecordStarted(e)
    PROVE  Inv' /\ CheckpointFollows
<1>1. ledger' \in [Actions -> {"none", "prepared", "dispatched", "waiting"} \cup Closed]
  <2>1. ledger \in [Actions -> {"none", "prepared", "dispatched", "waiting"} \cup Closed]
    BY DEF Inv, Typed
  <2>. QED  BY <2>1, LedgerTyped DEF RecordStarted
<1>2. Typed' /\ lease' = lease /\ checkpoint' = checkpoint
  BY <1>1 DEF RecordStarted, Inv, Typed, outside
<1>3. /\ ex[e].at \in Handling /\ ex[e].at \notin Opening /\ ex[e].action \in Actions
      /\ ex[e].mine.iteration > 0
  BY Columns DEF RecordStarted, At, Handling, Opening, Iterating, Placed
<1>4. CASE Answered(e)
  BY <1>2, <1>3, <1>4, HandlingKeeps
<1>5. ASSUME NEW waits, waits = ex[e].pending \cup {ex[e].action},
             Goes(e, [ex[e] EXCEPT !.action = NoAction, !.pending = waits,
                                   !.mine.waits = waits], "act", <<"save">>)
      PROVE  Inv' /\ CheckpointFollows
  <2>1. waits \in SUBSET Actions
    BY <1>3, <1>5, Columns
  <2>2. PICK x : x = [ex[e].mine EXCEPT !.waits = waits]
    OBVIOUS
  <2>3. x \in Row /\ x.iteration = ex[e].mine.iteration
    BY <2>1, <2>2, Columns DEF Row
  <2>4. PICK m : m = [ex[e] EXCEPT !.action = NoAction, !.pending = waits,
                                   !.mine.waits = waits]
    OBVIOUS
  <2>5. m = [ex[e] EXCEPT !.action = NoAction, !.pending = waits, !.mine = x]
    BY <2>2, <2>4, Columns DEF Memory
  <2>6. m \in Memory /\ m.base = ex[e].base /\ m.epoch = ex[e].epoch /\ m.mine = x
    BY <2>1, <2>3, <2>5, Columns DEF Memory
  <2>7. "act" \in Places \ Opening /\ "act" \notin Handling
    BY DEF Places, Opening, Iterating, Handling
  <2>. QED  BY <1>2, <1>3, <1>5, <2>3, <2>4, <2>6, <2>7, Lists, GoesOnward
<1>. QED  BY <1>4, <1>5 DEF RecordStarted

LEMMA RecordResultKeeps ==
    ASSUME Inv, NEW e \in Executors, RecordResult(e)
    PROVE  Inv' /\ CheckpointFollows
<1>1. ledger' \in [Actions -> {"none", "prepared", "dispatched", "waiting"} \cup Closed]
  BY DEF RecordResult, Inv, Typed
<1>2. Typed' /\ lease' = lease /\ checkpoint' = checkpoint
  BY <1>1 DEF RecordResult, Inv, Typed, outside
<1>3. ex[e].at \in Handling /\ Answered(e)
  BY DEF RecordResult, At, Handling
<1>. QED  BY <1>2, <1>3, HandlingKeeps

LEMMA ActionKeeps ==
    ASSUME Inv, NEW e \in Executors, ActionStep(e)
    PROVE  Inv' /\ CheckpointFollows
  BY NextActionKeeps, PrepareKeeps, RunToolKeeps, RunTaskKeeps, RecordStartedKeeps,
     RecordResultKeeps DEF ActionStep

-----------------------------------------------------------------------------
(* The world, and the whole. *)

LEMMA CancelKeeps ==
    ASSUME Inv, NEW e \in Executors, Cancel(e)
    PROVE  Inv' /\ CheckpointFollows
<1>1. Typed' /\ lease' = lease /\ checkpoint' = checkpoint
  BY RowsStay DEF Cancel
<1>. QED  BY <1>1, CloseIsAway, GoesAway DEF Cancel, Aborts

LEMMA CrashKeeps ==
    ASSUME Inv, NEW p \in Processes, Crash(p)
    PROVE  Inv' /\ CheckpointFollows
<1>1. Typed' /\ lease' = lease /\ checkpoint' = checkpoint
  BY DEF Crash, Inv, Typed
<1>2. PICK r : r = [Fresh EXCEPT !.at = "gone"]
  OBVIOUS
<1>3. ex' = [e \in Executors |-> IF ProcessOf[e] = p /\ Running(e) THEN r ELSE ex[e]]
  BY <1>2 DEF Crash
<1>4. "gone" \in Places \ (Opening \cup Iterating)
  BY DEF Places, Opening, Iterating, Handling
<1>5. ASSUME NEW e \in Executors
      PROVE  Fits(ex[e])' /\ ex'[e] \in Memory
  <2>1. PICK x : x = ex'[e] /\ Fits(x)
    BY <1>2, <1>3, <1>4, Leaves DEF Inv
  <2>. QED  BY <1>1, <2>1 DEF Fits, Placed, Follows
<1>6. ex' \in [Executors -> Memory]
  BY <1>3, <1>5
<1>. QED  BY <1>1, <1>5, <1>6, Columns DEF Inv, CheckpointFollows

LEMMA WorldKeeps ==
    ASSUME Inv, Tick \/ (\E k \in Actions : TaskFinishes(k)) \/ UNCHANGED vars
    PROVE  Inv' /\ CheckpointFollows
<1>1. now' \in 0..MaxTime
  BY BoundsAssumption DEF Tick, TaskFinishes, vars, outside, Inv, Typed
<1>2. task' \in [Actions -> [status : {"none", "running", "finished"},
                             runner : Processes \cup {NoProcess}]]
  BY DEF Tick, TaskFinishes, vars, outside, Inv, Typed
<1>3. /\ Typed' /\ lease' = lease /\ checkpoint' = checkpoint /\ ex' = ex
  BY <1>1, <1>2 DEF Tick, TaskFinishes, vars, outside, Inv, Typed
<1>4. \A e \in Executors : Fits(ex[e])'
  BY <1>3 DEF Inv, Fits, Placed, Follows
<1>. QED  BY <1>3, <1>4, Columns DEF Inv, CheckpointFollows

LEMMA InitHolds == Init => Inv
<1>. SUFFICES ASSUME Init
              PROVE  Inv
  OBVIOUS
<1>1. lease \in RL!Lease /\ lease.epoch = 0
  BY DEF Init, RL!MissingLease, RL!Lease
<1>2. Typed
  BY <1>1, Blank, BoundsAssumption DEF Init, Typed, NoTask
<1>3. Fits(Fresh)
  <2>1. Placed(Fresh)
    BY Blank DEF Placed, Opening, Iterating, Handling
  <2>2. Follows(Fresh)
    BY <1>1, Blank DEF Init, Follows, Opening
  <2>. QED  BY <2>1, <2>2, Blank DEF Fits
<1>4. \A e \in Executors : ex[e] = Fresh /\ Fits(ex[e])
  BY <1>3 DEF Init
<1>. QED  BY <1>1, <1>2, <1>4, Blank DEF Init, Inv

LEMMA NextKeeps == Inv /\ [Next]_vars => Inv' /\ CheckpointFollows
<1>. SUFFICES ASSUME Inv, [Next]_vars
              PROVE  Inv' /\ CheckpointFollows
  OBVIOUS
<1>1. ASSUME NEW e \in Executors,
             \/ BoundaryStep(e) \/ SessionStep(e) \/ ResumeStep(e)
             \/ LoopStep(e) \/ ActionStep(e) \/ Cancel(e)
      PROVE  Inv' /\ CheckpointFollows
  BY <1>1, BoundaryKeeps, SessionKeeps, ResumeKeeps, LoopKeeps, ActionKeeps, CancelKeeps
<1>2. ASSUME NEW p \in Processes, Crash(p)
      PROVE  Inv' /\ CheckpointFollows
  BY <1>2, CrashKeeps
<1>. QED  BY <1>1, <1>2, WorldKeeps DEF Next

LEMMA Invariance == Spec => []Inv
  BY InitHolds, NextKeeps, PTL DEF Spec

(* The rows and what the executors keep of them have their shape: no mix   *)
(* of stale copies, reconciles and crashes writes a row no reader knows.   *)
THEOREM RunTyped == Spec => []TypeOK
<1>1. Inv => TypeOK
  BY Columns DEF Inv, Typed, TypeOK, Checkpoint
<1>. QED  BY <1>1, Invariance, PTL

(* Once an owner has written a checkpoint, no earlier owner overwrites it: *)
(* however many executors stall, lose their lease and wake up again, and   *)
(* although none of these writes is in one transaction with its fence.     *)
THEOREM CheckpointsInOrder == Spec => CheckpointsFollowEpochs
<1>1. Inv /\ [Next]_vars => [checkpoint'.row.epoch >= checkpoint.row.epoch]_checkpoint
  BY NextKeeps DEF CheckpointFollows
<1>. QED  BY <1>1, Invariance, PTL DEF Spec, CheckpointsFollowEpochs

-----------------------------------------------------------------------------
(* Actions run once.  A command is carried out by the executor that finds  *)
(* it prepared when it dispatches it, so no second executor may find it    *)
(* so: the others that have prepared it are either stopped by their fence, *)
(* or the heirs of a checkpoint that says what is in flight, and an heir   *)
(* abandons what it finds prepared before it writes.                       *)

IsCommand(k) == k \in Actions /\ ~IsTask(k) /\ ~IsDirect(k)

Left == {"close", "settle", "done", "gone"}
Settling == {"collect", "collected", "reconcile", "apply"}

(* The checkpoint that says what is in flight is the executor's own.       *)
InHand(r) ==
    /\ r.base.row.phase = "action_inflight"
    /\ r.base.row.iteration = r.mine.iteration
    /\ r.base.row.epoch = r.epoch

(* What an executor has opened, has to write and has in hand where it is.  *)
Stationed(r) ==
    /\ r.at \in Opening => r.epoch = 0
    /\ r.at \notin Opening \cup Left => r.epoch > 0
    /\ r.at \in Settling =>
          r.todo \in {<<>>, <<"fence">>, <<"save">>, <<"fence", "save">>}
    /\ r.at = "act" =>
          \/ /\ r.todo \in {<<"save", "checkpoint">>, <<"checkpoint">>}
             /\ r.mine.phase = "action_inflight"
          \/ r.todo \in {<<"save">>, <<>>} /\ InHand(r)
    /\ r.at \in Handling =>
          r.todo \in {<<>>, <<"fence">>} /\ InHand(r) /\ r.action[1] = r.mine.iteration
    /\ r.at = "started" => IsTask(r.action)

(* No two executors have a lease of one epoch; one that has none yet does  *)
(* not own the row.                                                        *)
SessionsDiffer ==
    /\ \A e \in Executors : ex[e].at \in Opening => lease.owner # e
    /\ \A e, f \in Executors : e # f /\ ex[e].epoch = ex[f].epoch => ex[e].epoch = 0

(* An executor whose checkpoint was replaced was overtaken.                *)
OwnCheckpoints ==
    \A e \in Executors :
        ex[e].epoch > 0 /\ ex[e].base.row.epoch = ex[e].epoch
            => ex[e].base = checkpoint \/ ex[e].epoch < lease.epoch

(* The executor has passed its last fence and will dispatch a command.     *)
Armed(e) ==
    /\ ex[e].at = "dispatch" /\ ex[e].todo = <<>>
    /\ IsCommand(ex[e].action) /\ ledger[ex[e].action] = "prepared"

ArmedAreCurrent == \A e \in Executors : Armed(e) => ex[e].base = checkpoint

(* An executor that resumes from the checkpoint of an armed one has not    *)
(* reconciled yet, or is about to abandon its command.                     *)
HeirsAbandon ==
    \A e, f \in Executors :
        /\ Armed(f) /\ ex[f].base = ex[e].base
        /\ ex[e].epoch # ex[e].base.row.epoch
        => \/ ex[e].at \in Opening \cup {"collect", "collected", "reconcile"}
           \/ ex[e].at = "apply" /\ ex[f].action \in ex[e].decision.abandon

CarriesOut(e, k) == ex[e].at = "carry_out" /\ ex[e].action = k

PreparedHasNotRun ==
    \A k \in Actions :
        IsCommand(k) /\ ledger[k] \in {"none", "prepared"}
            => effects[k] = 0 /\ \A e \in Executors : ~CarriesOut(e, k)

CarriedOutOnce ==
    \A k \in Actions : IsCommand(k) =>
        /\ effects[k] <= 1
        /\ \A e \in Executors : CarriesOut(e, k) =>
              effects[k] = 0 /\ \A f \in Executors : CarriesOut(f, k) => e = f

(* A command that was dispatched is not dispatched by those who prepared   *)
(* it as well: their fence will stop them.                                 *)
DispatchedOnce ==
    \A e \in Executors :
        LET k == ex[e].action IN
        ex[e].at = "dispatch" /\ IsCommand(k) =>
            \/ ledger[k] \in {"prepared"} \cup Closed
            \/ ex[e].todo # <<>> /\ ex[e].epoch < lease.epoch /\ ledger[k] # "none"

TasksRunOnce ==
    \A k \in Actions : IsTask(k) =>
        effects[k] <= 1 /\ (task[k] = NoTask => effects[k] = 0)

Once ==
    /\ effects \in [Actions -> Nat]
    /\ \A e \in Executors : Stationed(ex[e])
    /\ SessionsDiffer /\ OwnCheckpoints /\ ArmedAreCurrent /\ HeirsAbandon
    /\ PreparedHasNotRun /\ CarriedOutOnce /\ DispatchedOnce /\ TasksRunOnce

(* Nothing happens to the checkpoint, the lease's token and what commands  *)
(* have done, and receipts of commands are closed only.                    *)
Steady(e) ==
    /\ \A f \in Executors : f # e => ex'[f] = ex[f]
    /\ checkpoint' = checkpoint
    /\ lease'.epoch = lease.epoch /\ lease'.owner = lease.owner
    /\ effects' \in [Actions -> Nat]
    /\ \A k \in Actions : IsCommand(k) =>
          effects'[k] = effects[k] /\ (ledger'[k] = ledger[k] \/ ledger'[k] \in Closed)
    /\ TasksRunOnce'

(* The executor is about to dispatch or to carry out a command.            *)
Commands(r) == r.at \in {"dispatch", "carry_out"} /\ IsCommand(r.action)

(* The executor keeps its lease session and checkpoint, gives them up, or  *)
(* reads a checkpoint before it has a lease; and it does not come closer   *)
(* to a command.                                                           *)
Harmless(x, y) ==
    /\ y.epoch \in {x.epoch, 0}
    /\ y.base \in {x.base, NoCheckpoint} \/ y.at \in Opening
    /\ y.at \in Opening => x.at \in Opening
    /\ Commands(y) => /\ y.at = x.at /\ y.action = x.action
                      /\ y.base = x.base /\ y.epoch = x.epoch
                      /\ y.at = "dispatch" => y.todo = x.todo

(* The executor does not leave the reconcile of what was in flight.        *)
Reconciles(x, y) ==
    \/ y.at \in Opening \cup {"collect", "collected", "reconcile"}
    \/ y.base.row.phase # "action_inflight"
    \/ x.at \notin Opening \cup Settling /\ y.epoch = x.epoch
    \/ y.at = x.at /\ y.decision = x.decision /\ y.base = x.base /\ y.epoch = x.epoch

(* What is in hand is a row of the checkpoint in flight. *)
LEMMA ArmedInHand ==
    ASSUME Once, NEW f \in Executors, Armed(f)
    PROVE  /\ ex[f].base.row.phase = "action_inflight"
           /\ ex[f].base.row.epoch = ex[f].epoch /\ ex[f].epoch > 0
           /\ ex[f].action[1] = ex[f].base.row.iteration
<1>1. Stationed(ex[f]) /\ ex[f].at = "dispatch"
  BY DEF Once, Armed
<1>. QED  BY <1>1 DEF Stationed, InHand, Handling, Opening, Left

LEMMA SteadyKeepsOnce ==
    ASSUME Inv, Inv', Once, NEW e \in Executors, Steady(e), Stationed(ex'[e]),
           Harmless(ex[e], ex'[e]), Reconciles(ex[e], ex'[e]) \/ HeirsAbandon'
    PROVE  Once'
<1>1. PICK x, y : x = ex[e] /\ y = ex'[e]
  OBVIOUS
<1>2. /\ Harmless(x, y) /\ Stationed(y) /\ Stationed(x)
      /\ \A f \in Executors : f # e => ex'[f] = ex[f]
  BY <1>1 DEF Once, Steady
<1>3. /\ x.epoch \in Nat /\ x.base.row.epoch \in Nat /\ lease.epoch \in Nat
      /\ y.epoch \in Nat /\ y.base.row.epoch \in Nat
      /\ NoCheckpoint.row.epoch = 0 /\ NoCheckpoint.row.phase = "safe"
  <2>1. ex' \in [Executors -> Memory]
    BY DEF Inv
  <2>2. y \in Memory
    BY <1>1, <2>1
  <2>3. y.epoch \in Nat /\ y.base \in Checkpoint
    BY <2>2 DEF Memory
  <2>. QED  BY <1>1, <2>3, Columns DEF Checkpoint, Row, NoCheckpoint, NoRun
<1>4. \A f \in Executors : Stationed(ex'[f])
  BY <1>2, <1>1 DEF Once
<1>5. SessionsDiffer'
  <2>1. \A f \in Executors : ex'[f].at \in Opening => ex[f].at \in Opening
    BY <1>1, <1>2 DEF Harmless
  <2>2. \A f \in Executors : ex'[f].epoch \in {ex[f].epoch, 0}
    BY <1>1, <1>2 DEF Harmless
  <2>. QED  BY <2>1, <2>2 DEF Once, SessionsDiffer, Steady
<1>6. OwnCheckpoints'
  <2>1. ASSUME NEW f \in Executors,
               ex'[f].epoch > 0 /\ ex'[f].base.row.epoch = ex'[f].epoch
        PROVE  ex'[f].base = checkpoint' \/ ex'[f].epoch < lease'.epoch
    <3>1. ex'[f].epoch = ex[f].epoch /\ ex'[f].base = ex[f].base
      BY <1>1, <1>2, <1>3, <2>1 DEF Harmless, Stationed
    <3>. QED  BY <2>1, <3>1 DEF Once, OwnCheckpoints, Steady
  <2>. QED  BY <2>1 DEF OwnCheckpoints
<1>7. \A f \in Executors : Armed(f)' =>
         /\ Armed(f) /\ ex'[f].base = ex[f].base /\ ex'[f].action = ex[f].action
         /\ ex'[f].epoch = ex[f].epoch
  <2>. SUFFICES ASSUME NEW f \in Executors, Armed(f)'
                PROVE  /\ Armed(f) /\ ex'[f].base = ex[f].base
                       /\ ex'[f].action = ex[f].action /\ ex'[f].epoch = ex[f].epoch
    OBVIOUS
  <2>1. ex'[f].at = "dispatch" /\ ex'[f].todo = <<>> /\ IsCommand(ex'[f].action)
        /\ ledger'[ex'[f].action] = "prepared"
    BY DEF Armed, IsCommand, IsTask, IsDirect
  <2>2. /\ ex'[f].at = ex[f].at /\ ex'[f].action = ex[f].action /\ ex'[f].todo = ex[f].todo
        /\ ex'[f].base = ex[f].base /\ ex'[f].epoch = ex[f].epoch
    BY <1>1, <1>2, <2>1 DEF Harmless, Commands
  <2>3. ex[f].action \in Actions /\ "prepared" \notin Closed
    BY <2>1, <2>2 DEF IsCommand, Closed
  <2>4. ledger[ex[f].action] = "prepared"
    BY <2>1, <2>2, <2>3 DEF Steady
  <2>. QED  BY <2>1, <2>2, <2>4 DEF Armed
<1>8. ArmedAreCurrent'
  BY <1>7 DEF Once, ArmedAreCurrent, Steady
<1>9. HeirsAbandon'
  <2>1. CASE HeirsAbandon'
    BY <2>1
  <2>2. CASE Reconciles(x, y)
    <3>. SUFFICES ASSUME NEW g \in Executors, NEW f \in Executors, Armed(f)',
                         ex'[f].base = ex'[g].base, ex'[g].epoch # ex'[g].base.row.epoch
                  PROVE  \/ ex'[g].at \in Opening \cup {"collect", "collected", "reconcile"}
                         \/ ex'[g].at = "apply" /\ ex'[f].action \in ex'[g].decision.abandon
      BY DEF HeirsAbandon
    <3>1. /\ Armed(f) /\ ex'[f].base = ex[f].base /\ ex'[f].action = ex[f].action
          /\ ex[f].base.row.phase = "action_inflight"
      BY <1>7, ArmedInHand
    <3>2. CASE g # e
      <4>1. ex'[g] = ex[g]
        BY <1>2, <3>2
      <4>. QED  BY <3>1, <4>1 DEF Once, HeirsAbandon
    <3>3. CASE g = e /\ y.at \notin Opening
      <4>1. y.base = x.base
        BY <1>1, <1>2, <1>3, <3>1, <3>3 DEF Harmless
      <4>2. CASE x.epoch = x.base.row.epoch
        <5>1. y.at \in Opening \cup {"collect", "collected", "reconcile"}
          BY <1>1, <2>2, <3>1, <3>3, <4>1, <4>2 DEF Reconciles
        <5>. QED  BY <1>1, <3>3, <5>1
      <4>3. CASE x.epoch # x.base.row.epoch
        <5>1. \/ x.at \in Opening \cup {"collect", "collected", "reconcile"}
              \/ x.at = "apply" /\ ex[f].action \in x.decision.abandon
          BY <1>1, <3>1, <3>3, <4>1, <4>3 DEF Once, HeirsAbandon
        <5>2. \/ y.at \in Opening \cup {"collect", "collected", "reconcile"}
              \/ y.at = x.at /\ y.decision = x.decision
          BY <1>1, <2>2, <3>1, <3>3, <5>1, <4>1 DEF Reconciles, Settling
        <5>. QED  BY <1>1, <3>1, <3>3, <5>1, <5>2
      <4>. QED  BY <4>2, <4>3
    <3>. QED  BY <1>1, <3>2, <3>3
  <2>. QED  BY <1>1, <2>1, <2>2
<1>10. \A f \in Executors, k \in Actions :
         IsCommand(k) /\ CarriesOut(f, k)' => CarriesOut(f, k)
  BY <1>1, <1>2 DEF CarriesOut, Harmless, Commands
<1>11. \A k : IsCommand(k)' <=> IsCommand(k)
  BY DEF IsCommand, IsTask, IsDirect
<1>12. PreparedHasNotRun' /\ CarriedOutOnce'
  <2>1. \A k \in Actions : IsCommand(k) /\ ledger'[k] \in {"none", "prepared"}
           => ledger[k] \in {"none", "prepared"}
    BY DEF Steady, Closed
  <2>2. \A k \in Actions : IsCommand(k) => effects'[k] = effects[k]
    BY DEF Steady
  <2>3. PreparedHasNotRun'
    BY <1>10, <1>11, <2>1, <2>2 DEF Once, PreparedHasNotRun
  <2>4. CarriedOutOnce'
    BY <1>10, <1>11, <2>2 DEF Once, CarriedOutOnce
  <2>. QED  BY <2>3, <2>4
<1>13. DispatchedOnce'
  <2>. SUFFICES ASSUME NEW f \in Executors, ex'[f].at = "dispatch", IsCommand(ex'[f].action)
                PROVE  \/ ledger'[ex'[f].action] \in {"prepared"} \cup Closed
                       \/ /\ ex'[f].todo # <<>> /\ ex'[f].epoch < lease'.epoch
                          /\ ledger'[ex'[f].action] # "none"
    BY <1>11 DEF DispatchedOnce, IsCommand, IsTask, IsDirect
  <2>1. /\ ex[f].at = "dispatch" /\ ex'[f].action = ex[f].action
        /\ ex'[f].todo = ex[f].todo /\ ex'[f].epoch = ex[f].epoch
    BY <1>1, <1>2 DEF Harmless, Commands
  <2>2. PICK k \in Actions : k = ex[f].action
    BY <2>1 DEF IsCommand
  <2>3. /\ IsCommand(k) /\ lease'.epoch = lease.epoch
        /\ ledger'[k] = ledger[k] \/ ledger'[k] \in Closed
    BY <2>1, <2>2 DEF Steady
  <2>4. \/ ledger[k] \in {"prepared"} \cup Closed
        \/ ex[f].todo # <<>> /\ ex[f].epoch < lease.epoch /\ ledger[k] # "none"
    BY <2>1, <2>2, <2>3 DEF Once, DispatchedOnce
  <2>. QED  BY <2>1, <2>2, <2>3, <2>4 DEF Closed
<1>14. effects' \in [Actions -> Nat] /\ TasksRunOnce'
  BY DEF Steady
<1>. QED
  BY <1>4, <1>5, <1>6, <1>8, <1>9, <1>12, <1>13, <1>14 DEF Once

(* Where a step goes.                                                      *)
LEMMA Moved ==
    ASSUME Inv, Inv', NEW e \in Executors, NEW m, NEW place, NEW steps,
           Goes(e, m, place, steps)
    PROVE  /\ ex'[e] = [m EXCEPT !.at = place, !.todo = steps]
           /\ ex[e] \in Memory /\ ex'[e] \in Memory
           /\ \A f \in Executors : f # e => ex'[f] = ex[f]
  BY DEF Inv, Goes, Becomes

(* Where a step that takes the next of a boundary goes.                    *)
LEMMA MovedOn ==
    ASSUME Inv, Inv', NEW e \in Executors, Becomes(e, Rest(e))
    PROVE  /\ ex'[e] = [ex[e] EXCEPT !.todo = Tail(ex[e].todo)]
           /\ ex[e] \in Memory /\ ex'[e] \in Memory
           /\ \A f \in Executors : f # e => ex'[f] = ex[f]
  BY DEF Inv, Becomes, Rest

(* What is left of the boundaries that matter here.                        *)
LEMMA Tails ==
    /\ Tail(<<"fence">>) = <<>> /\ Tail(<<"save">>) = <<>> /\ Tail(<<"checkpoint">>) = <<>>
    /\ Tail(<<"fence", "save">>) = <<"save">>
    /\ Tail(<<"save", "checkpoint">>) = <<"checkpoint">>
  OBVIOUS

(* A step that changes the memory of one executor only. *)
LEMMA QuietKeepsOnce ==
    ASSUME Inv, Inv', Once, NEW e \in Executors,
           \A f \in Executors : f # e => ex'[f] = ex[f],
           UNCHANGED <<lease, checkpoint, ledger, task, effects>>,
           Stationed(ex'[e]), Harmless(ex[e], ex'[e]),
           Reconciles(ex[e], ex'[e]) \/ HeirsAbandon'
    PROVE  Once'
<1>1. Steady(e)
  <2>1. TasksRunOnce'
    BY DEF Once, TasksRunOnce, IsTask
  <2>. QED  BY <2>1 DEF Once, Steady
<1>. QED  BY <1>1, SteadyKeepsOnce

(* An executor that leaves forgets what it had in hand. *)
LEMMA LeavingKeepsOnce ==
    ASSUME Inv, Inv', Once, NEW e \in Executors, NEW place \in Left,
           \/ Becomes(e, Leaving(e, place))
           \/ Becomes(e, [Leaving(e, place) EXCEPT !.lost = TRUE])
           \/ Becomes(e, [Fresh EXCEPT !.at = place]),
           UNCHANGED <<checkpoint, ledger, task, effects>>,
           lease'.epoch = lease.epoch, lease'.owner = lease.owner
    PROVE  Once'
<1>1. PICK y : ex' = [ex EXCEPT ![e] = y] /\ y.at = place /\ y.base = NoCheckpoint
               /\ y.epoch \in {ex[e].epoch, 0}
  <2>0. "at" \in DOMAIN Fresh /\ "epoch" \in DOMAIN Fresh /\ "base" \in DOMAIN Fresh
        /\ Fresh.base = NoCheckpoint /\ Fresh.epoch = 0
    BY DEF Fresh
  <2>1. PICK y : y = Leaving(e, place)
    OBVIOUS
  <2>2. y.at = place /\ y.base = NoCheckpoint /\ y.epoch = ex[e].epoch
    BY <2>1 DEF Leaving, Fresh
  <2>3. PICK z : z = [y EXCEPT !.lost = TRUE]
    OBVIOUS
  <2>4. z.at = place /\ z.base = NoCheckpoint /\ z.epoch = ex[e].epoch
    BY <2>1, <2>2, <2>3 DEF Leaving, Fresh
  <2>5. PICK u : u = [Fresh EXCEPT !.at = place]
    OBVIOUS
  <2>6. u.at = place /\ u.base = NoCheckpoint /\ u.epoch = 0
    BY <2>0, <2>5
  <2>7. ex' \in {[ex EXCEPT ![e] = y], [ex EXCEPT ![e] = z], [ex EXCEPT ![e] = u]}
    BY <2>1, <2>3, <2>5 DEF Becomes
  <2>. QED  BY <2>2, <2>4, <2>6, <2>7
<1>2. ex'[e] = y /\ \A f \in Executors : f # e => ex'[f] = ex[f]
  BY <1>1 DEF Inv
<1>3. Stationed(y)
  BY <1>1 DEF Stationed, Left, Opening, Settling, Handling
<1>4. Reconciles(ex[e], y)
  BY <1>1 DEF Reconciles, NoCheckpoint, NoRun
<1>5. Harmless(ex[e], y)
  BY <1>1 DEF Harmless, Left, Opening, Commands
<1>6. Steady(e)
  <2>1. TasksRunOnce'
    BY DEF Once, TasksRunOnce, IsTask
  <2>. QED  BY <1>2, <2>1 DEF Once, Steady
<1>. QED  BY <1>2, <1>3, <1>4, <1>5, <1>6, SteadyKeepsOnce

(* A step of the loop, or within a resume, that keeps lease and checkpoint. *)
LEMMA OnwardKeepsOnce ==
    ASSUME Inv, Inv', Once, NEW e \in Executors, NEW y, y = ex'[e],
           \A f \in Executors : f # e => ex'[f] = ex[f],
           UNCHANGED <<lease, checkpoint>>,
           effects' \in [Actions -> Nat], TasksRunOnce',
           \A k \in Actions : IsCommand(k) =>
              effects'[k] = effects[k] /\ (ledger'[k] = ledger[k] \/ ledger'[k] \in Closed),
           ex[e].at \notin Opening,
           y.base = ex[e].base, y.epoch = ex[e].epoch,
           y.at \notin Opening \cup {"apply"}, ~Commands(y),
           \/ ex[e].at \notin Settling
           \/ y.at \in {"collect", "collected", "reconcile"}
           \/ y.base.row.phase # "action_inflight",
           y.at \in Left \/ ex[e].at \notin Left,
           y.at \in Settling \cup {"act"} \cup Handling => Stationed(y)
    PROVE  Once'
<1>1. Stationed(ex[e])
  BY DEF Once
<1>2. Stationed(y)
  BY <1>1 DEF Stationed, Settling, Handling
<1>3. Harmless(ex[e], y) /\ Reconciles(ex[e], y)
  BY DEF Harmless, Reconciles
<1>4. Steady(e)
  BY DEF Once, Steady
<1>. QED  BY <1>2, <1>3, <1>4, SteadyKeepsOnce

(* The same when only the executor's memory changes. *)
LEMMA ThinkingKeepsOnce ==
    ASSUME Inv, Inv', Once, NEW e \in Executors, NEW y, y = ex'[e],
           \A f \in Executors : f # e => ex'[f] = ex[f],
           UNCHANGED <<lease, checkpoint, ledger, task, effects>>,
           ex[e].at \notin Opening,
           y.base = ex[e].base, y.epoch = ex[e].epoch,
           y.at \notin Opening \cup {"apply"}, ~Commands(y),
           \/ ex[e].at \notin Settling
           \/ y.at \in {"collect", "collected", "reconcile"}
           \/ y.base.row.phase # "action_inflight",
           y.at \in Left \/ ex[e].at \notin Left,
           y.at \in Settling \cup {"act"} \cup Handling => Stationed(y)
    PROVE  Once'
<1>1. TasksRunOnce'
  BY DEF Once, TasksRunOnce, IsTask
<1>2. effects' \in [Actions -> Nat]
      /\ \A k \in Actions : IsCommand(k) => effects'[k] = effects[k] /\ ledger'[k] = ledger[k]
  BY DEF Once
<1>. QED  BY <1>1, <1>2, OnwardKeepsOnce

(* A step of a boundary that is no fence before a dispatch. *)
LEMMA RestKeepsOnce ==
    ASSUME Inv, Inv', Once, NEW e \in Executors, ex[e].todo # <<>>, Becomes(e, Rest(e)),
           UNCHANGED <<lease, checkpoint, ledger, task, effects>>,
           ex[e].at = "dispatch" => ex'[e].todo = ex[e].todo,
           ex[e].at = "act" => Head(ex[e].todo) # "checkpoint"
    PROVE  Once'
<1>1. /\ ex'[e] = [ex[e] EXCEPT !.todo = Tail(ex[e].todo)] /\ ex[e] \in Memory
      /\ \A f \in Executors : f # e => ex'[f] = ex[f]
  BY MovedOn
<1>2. PICK x, y : x = ex[e] /\ y = ex'[e]
  OBVIOUS
<1>3. /\ y.at = x.at /\ y.todo = Tail(x.todo) /\ y.mine = x.mine /\ y.base = x.base
      /\ y.epoch = x.epoch /\ y.action = x.action /\ y.decision = x.decision
  BY <1>1, <1>2 DEF Memory
<1>4. Stationed(x) /\ x.at \notin Opening
  BY <1>2, Rests DEF Once
<1>5. Stationed(y)
  <2>1. CASE x.at = "act"
    <3>1. x.todo = <<"save", "checkpoint">> \/ x.todo = <<"save">>
      BY <1>2, <1>4, <2>1 DEF Stationed
    <3>2. \/ y.todo = <<"checkpoint">> /\ y.mine.phase = "action_inflight"
          \/ y.todo = <<>> /\ InHand(y)
      <4>1. CASE x.todo = <<"save", "checkpoint">>
        <5>1. x.mine.phase = "action_inflight"
          BY <1>4, <2>1, <4>1 DEF Stationed
        <5>. QED  BY <1>3, <4>1, <5>1, Tails
      <4>2. CASE x.todo = <<"save">>
        <5>1. InHand(x)
          BY <1>4, <2>1, <4>2 DEF Stationed
        <5>. QED  BY <1>3, <4>2, <5>1, Tails DEF InHand
      <4>. QED  BY <3>1, <4>1, <4>2
    <3>. QED
      BY <1>3, <1>4, <2>1, <3>2 DEF Stationed, Settling, Handling, Opening, Left
  <2>2. CASE x.at \in Handling
    BY <1>2, <1>3, <1>4, <2>2, Tails DEF Stationed, Settling, Handling, InHand
  <2>3. CASE x.at \in Settling
    BY <1>2, <1>3, <1>4, <2>3, Tails DEF Stationed, Settling, Handling
  <2>. QED  BY <1>3, <1>4, <2>1, <2>2, <2>3 DEF Stationed, Settling, Handling
<1>6. Harmless(x, y) /\ Reconciles(x, y)
  BY <1>2, <1>3, <1>4 DEF Harmless, Reconciles, Commands
<1>. QED  BY <1>1, <1>2, <1>5, <1>6, QuietKeepsOnce

(* The last fence before a dispatch: the lease is the executor's own, so   *)
(* is the checkpoint, and nobody has a lease to resume from it.            *)
LEMMA ArmingKeepsOnce ==
    ASSUME Inv, Inv', Once, NEW e \in Executors, Fence(e), Becomes(e, Rest(e)),
           RL!FenceReason(e, ex[e].epoch, now) = "current", ex[e].at = "dispatch"
    PROVE  Once'
<1>1. /\ ex'[e] = [ex[e] EXCEPT !.todo = Tail(ex[e].todo)] /\ ex[e] \in Memory
      /\ \A f \in Executors : f # e => ex'[f] = ex[f]
  BY MovedOn
<1>2. PICK x, y : x = ex[e] /\ y = ex'[e]
  OBVIOUS
<1>3. /\ y.at = x.at /\ y.todo = Tail(x.todo) /\ y.mine = x.mine /\ y.base = x.base
      /\ y.epoch = x.epoch /\ y.action = x.action /\ y.decision = x.decision
  BY <1>1, <1>2 DEF Memory
<1>4. UNCHANGED <<lease, checkpoint, ledger, effects, task>>
  BY DEF Fence, outside
<1>5. Stationed(x) /\ InHand(x) /\ x.todo = <<"fence">> /\ x.epoch > 0
  BY <1>2 DEF Once, Stationed, Handling, Fence, Due, Opening, Left
<1>6. x.epoch = lease.epoch
  BY <1>2 DEF RL!FenceReason
<1>7. x.base = checkpoint
  BY <1>2, <1>5, <1>6, Columns DEF Once, OwnCheckpoints, InHand
<1>8. \A f \in Executors : Stationed(ex'[f])
  <2>1. Stationed(y)
    BY <1>2, <1>3, <1>5, Tails DEF Stationed, Settling, Handling, InHand, Opening
  <2>. QED  BY <1>1, <1>2, <2>1 DEF Once
<1>9. \A f \in Executors : /\ ex'[f].at = ex[f].at /\ ex'[f].epoch = ex[f].epoch
                           /\ ex'[f].base = ex[f].base /\ ex'[f].action = ex[f].action
                           /\ ex'[f].decision = ex[f].decision
  BY <1>1, <1>2, <1>3
<1>10. SessionsDiffer' /\ OwnCheckpoints'
  BY <1>4, <1>9 DEF Once, SessionsDiffer, OwnCheckpoints
<1>11. \A f \in Executors : f # e /\ Armed(f)' => Armed(f)
  BY <1>1, <1>4 DEF Armed, IsCommand, IsTask, IsDirect
<1>12. ArmedAreCurrent'
  BY <1>2, <1>4, <1>7, <1>9, <1>11 DEF Once, ArmedAreCurrent
<1>13. HeirsAbandon'
  <2>. SUFFICES ASSUME NEW g \in Executors, NEW f \in Executors, Armed(f)',
                       ex[f].base = ex[g].base, ex[g].epoch # ex[g].base.row.epoch
                PROVE  \/ ex[g].at \in Opening \cup {"collect", "collected", "reconcile"}
                       \/ ex[g].at = "apply" /\ ex[f].action \in ex[g].decision.abandon
    BY <1>9 DEF HeirsAbandon
  <2>1. CASE f # e
    BY <1>11, <2>1 DEF Once, HeirsAbandon
  <2>2. CASE f = e
    <3>1. ex[g].base.row.epoch = lease.epoch
      BY <1>2, <1>5, <1>6, <2>2 DEF InHand
    <3>2. ex[g].at \in Opening
      BY <3>1, Columns DEF Follows
    <3>. QED  BY <3>2
  <2>. QED  BY <2>1, <2>2
<1>14. PreparedHasNotRun' /\ CarriedOutOnce'
  BY <1>4, <1>9 DEF Once, PreparedHasNotRun, CarriedOutOnce, CarriesOut, IsCommand, IsTask,
                    IsDirect
<1>15. DispatchedOnce'
  <2>. SUFFICES ASSUME NEW f \in Executors, ex[f].at = "dispatch", IsCommand(ex[f].action)
                PROVE  \/ ledger[ex[f].action] \in {"prepared"} \cup Closed
                       \/ /\ ex'[f].todo # <<>> /\ ex[f].epoch < lease.epoch
                          /\ ledger[ex[f].action] # "none"
    BY <1>4, <1>9 DEF DispatchedOnce, IsCommand, IsTask, IsDirect
  <2>1. CASE f # e
    BY <1>1, <2>1 DEF Once, DispatchedOnce
  <2>2. CASE f = e
    BY <1>2, <1>6, <2>2, Columns DEF Once, DispatchedOnce
  <2>. QED  BY <2>1, <2>2
<1>16. effects' \in [Actions -> Nat] /\ TasksRunOnce'
  BY <1>4 DEF Once, TasksRunOnce, IsTask
<1>. QED  BY <1>8, <1>10, <1>12, <1>13, <1>14, <1>15, <1>16 DEF Once

LEMMA FenceKeepsOnce ==
    ASSUME Inv, Inv', Once, NEW e \in Executors, Fence(e)
    PROVE  Once'
<1>1. UNCHANGED <<lease, checkpoint, ledger, effects, task>>
  BY DEF Fence, outside
<1>2. CASE LosesLease(e)
  BY <1>1, <1>2, LeavingKeepsOnce DEF LosesLease, Left
<1>3. CASE Becomes(e, Rest(e)) /\ RL!FenceReason(e, ex[e].epoch, now) = "current"
  <2>1. CASE ex[e].at = "dispatch"
    BY <1>3, <2>1, ArmingKeepsOnce
  <2>2. CASE ex[e].at # "dispatch"
    BY <1>1, <1>3, <2>2, RestKeepsOnce DEF Fence, Due
  <2>. QED  BY <2>1, <2>2
<1>. QED  BY <1>2, <1>3 DEF Fence

LEMMA SaveRunKeepsOnce ==
    ASSUME Inv, Inv', Once, NEW e \in Executors, SaveRun(e) \/ MarkAdmitted(e)
    PROVE  Once'
<1>1. UNCHANGED <<lease, checkpoint, ledger, effects, task>>
  BY DEF SaveRun, MarkAdmitted, outside
<1>2. CASE LosesLease(e)
  BY <1>1, <1>2, LeavingKeepsOnce DEF LosesLease, Left
<1>3. CASE Becomes(e, Rest(e))
  <2>1. ex[e].todo # <<>> /\ Head(ex[e].todo) \in {"save", "admit"}
    BY DEF SaveRun, MarkAdmitted, Due
  <2>2. ex[e].at # "dispatch"
    BY <2>1 DEF Once, Stationed, Handling
  <2>. QED  BY <1>1, <1>3, <2>1, <2>2, RestKeepsOnce
<1>. QED  BY <1>2, <1>3 DEF SaveRun, MarkAdmitted

(* The checkpoint that is written replaces the one the executor knows.  No *)
(* other executor is armed with that one: its heirs would have abandoned.  *)
LEMMA WritingKeepsOnce ==
    ASSUME Inv, Inv', Once, NEW e \in Executors, SaveCheckpoint(e),
           NEW new, new = [seq |-> ex[e].base.seq + 1,
                           row |-> [ex[e].mine EXCEPT !.epoch = ex[e].epoch]],
           Admits(new.seq), checkpoint' = new, Becomes(e, [Rest(e) EXCEPT !.base = new])
    PROVE  Once'
<1>1. PICK x, y : x = ex[e] /\ y = ex'[e]
  OBVIOUS
<1>2. x \in Memory /\ y = [Rest(e) EXCEPT !.base = new]
      /\ \A f \in Executors : f # e => ex'[f] = ex[f]
  BY <1>1 DEF Inv, Becomes
<1>3. /\ y.at = x.at /\ y.todo = Tail(x.todo) /\ y.mine = x.mine /\ y.base = new
      /\ y.epoch = x.epoch /\ y.action = x.action /\ y.decision = x.decision
  BY <1>1, <1>2 DEF Memory, Rest
<1>4. UNCHANGED <<lease, ledger, effects, task>>
  BY DEF SaveCheckpoint, outside
<1>5. /\ new.row.epoch = x.epoch /\ new.row.phase = x.mine.phase
      /\ new.row.iteration = x.mine.iteration
  BY <1>1, Columns DEF Row
<1>6. x.base = checkpoint
  BY <1>1, Columns DEF Follows, Admits
<1>7. x.todo # <<>> /\ Head(x.todo) \in {"checkpoint", "reconciled"} /\ Stationed(x)
  BY <1>1 DEF Once, SaveCheckpoint, Due
<1>8. x.at \notin Opening \cup Settling \cup Handling
  <2>1. x.at \notin Opening
    BY <1>1, <1>7, Columns DEF Placed
  <2>2. x.at \notin Settling
    BY <1>7 DEF Stationed
  <2>3. x.at \notin Handling
    BY <1>7 DEF Stationed
  <2>. QED  BY <2>1, <2>2, <2>3
<1>9. \A f \in Executors : Stationed(ex'[f])
  <2>1. CASE x.at = "act"
    <3>1. x.todo \in {<<"save", "checkpoint">>, <<"checkpoint">>, <<"save">>, <<>>}
      BY <1>7, <2>1 DEF Stationed
    <3>2. x.todo = <<"checkpoint">>
      BY <1>7, <3>1
    <3>3. x.mine.phase = "action_inflight"
      BY <1>7, <2>1, <3>2 DEF Stationed
    <3>4. InHand(y)
      BY <1>3, <1>5, <3>3 DEF InHand
    <3>5. Stationed(y)
      BY <1>3, <1>7, <2>1, <3>2, <3>4, Tails
      DEF Stationed, Settling, Handling, Opening, Left
    <3>. QED  BY <1>1, <1>2, <3>5 DEF Once
  <2>2. CASE x.at # "act"
    <3>1. Stationed(y)
      BY <1>3, <1>7, <1>8, <2>2 DEF Stationed, Handling
    <3>. QED  BY <1>1, <1>2, <3>1 DEF Once
  <2>. QED  BY <2>1, <2>2
<1>10. \A f \in Executors : ex'[f].at = ex[f].at /\ ex'[f].epoch = ex[f].epoch
                            /\ ex'[f].action = ex[f].action
  BY <1>1, <1>2, <1>3
<1>11. SessionsDiffer'
  BY <1>4, <1>10 DEF Once, SessionsDiffer
<1>12. OwnCheckpoints'
  <2>. SUFFICES ASSUME NEW f \in Executors,
                       ex'[f].epoch > 0 /\ ex'[f].base.row.epoch = ex'[f].epoch
                PROVE  ex'[f].base = checkpoint' \/ ex'[f].epoch < lease'.epoch
    BY DEF OwnCheckpoints
  <2>1. CASE f = e
    BY <1>1, <1>3, <2>1
  <2>2. CASE f # e
    <3>1. ex'[f] = ex[f]
      BY <1>2, <2>2
    <3>2. CASE ex[f].base = checkpoint
      <4>1. ex[f].epoch <= x.epoch
        BY <1>1, <1>6, <1>8, <3>1, <3>2, Columns DEF Follows
      <4>2. ex[f].epoch # x.epoch
        BY <1>1, <2>2, <3>1, Columns DEF Once, SessionsDiffer
      <4>3. x.epoch <= lease.epoch
        BY <1>1, Columns DEF Follows
      <4>. QED  BY <1>1, <1>4, <3>1, <4>1, <4>2, <4>3, Columns
    <3>. QED  BY <1>4, <3>1, <3>2 DEF Once, OwnCheckpoints
  <2>. QED  BY <2>1, <2>2
<1>13. \A f \in Executors : ~Armed(f)'
  <2>. SUFFICES ASSUME NEW f \in Executors, Armed(f)'
                PROVE  FALSE
    OBVIOUS
  <2>1. f # e /\ ex'[f] = ex[f]
    <3>1. ex'[f].at = "dispatch"
      BY DEF Armed
    <3>2. x.at # "dispatch"
      BY <1>8 DEF Handling
    <3>. QED  BY <1>1, <1>2, <1>3, <3>1, <3>2
  <2>2. Armed(f)
    BY <1>4, <2>1 DEF Armed, IsCommand, IsTask, IsDirect
  <2>3. ex[f].base = x.base /\ ex[f].base.row.epoch = ex[f].epoch /\ ex[f].epoch > 0
    BY <1>6, <2>2, ArmedInHand DEF Once, ArmedAreCurrent
  <2>4. x.epoch # x.base.row.epoch
    BY <1>1, <2>1, <2>3, Columns DEF Once, SessionsDiffer
  <2>5. x.at \in Opening \cup Settling
    BY <1>1, <2>2, <2>3, <2>4 DEF Once, HeirsAbandon, Settling
  <2>. QED  BY <1>8, <2>5
<1>14. ArmedAreCurrent' /\ HeirsAbandon'
  BY <1>13 DEF ArmedAreCurrent, HeirsAbandon
<1>15. PreparedHasNotRun' /\ CarriedOutOnce'
  BY <1>4, <1>10 DEF Once, PreparedHasNotRun, CarriedOutOnce, CarriesOut, IsCommand, IsTask,
                     IsDirect
<1>16. DispatchedOnce'
  <2>. SUFFICES ASSUME NEW f \in Executors, ex[f].at = "dispatch", IsCommand(ex[f].action)
                PROVE  \/ ledger[ex[f].action] \in {"prepared"} \cup Closed
                       \/ /\ ex'[f].todo # <<>> /\ ex[f].epoch < lease.epoch
                          /\ ledger[ex[f].action] # "none"
    BY <1>4, <1>10 DEF DispatchedOnce, IsCommand, IsTask, IsDirect
  <2>1. f # e
    BY <1>1, <1>8 DEF Handling
  <2>. QED  BY <1>2, <2>1 DEF Once, DispatchedOnce
<1>17. effects' \in [Actions -> Nat] /\ TasksRunOnce'
  BY <1>4 DEF Once, TasksRunOnce, IsTask
<1>. QED  BY <1>9, <1>11, <1>12, <1>14, <1>15, <1>16, <1>17 DEF Once

LEMMA SaveCheckpointKeepsOnce ==
    ASSUME Inv, Inv', Once, NEW e \in Executors, SaveCheckpoint(e)
    PROVE  Once'
<1>1. UNCHANGED <<lease, ledger, effects, task>>
  BY DEF SaveCheckpoint, outside
<1>2. CASE LosesLease(e) /\ UNCHANGED checkpoint
  BY <1>1, <1>2, LeavingKeepsOnce DEF LosesLease, Left
<1>3. CASE Goes(e, Mine(e, "blocked", "checkpoint_error"), "close", <<"save">>)
           /\ UNCHANGED checkpoint
  <2>1. PICK y : y = ex'[e]
    OBVIOUS
  <2>2. y.at = "close" /\ y.base = ex[e].base /\ y.epoch = ex[e].epoch
        /\ \A f \in Executors : f # e => ex'[f] = ex[f]
    BY <1>3, <2>1, Columns DEF Goes, Becomes, Inv, Memory, Row, Mine
  <2>3. ex[e].todo # <<>> /\ Head(ex[e].todo) \in {"checkpoint", "reconciled"}
    BY DEF SaveCheckpoint, Due
  <2>4. ex[e].at \notin Opening
    BY <2>3, Rests
  <2>5. ex[e].at \notin Settling
    BY <2>3 DEF Once, Stationed
  <2>. QED
    BY <1>1, <1>3, <2>1, <2>2, <2>4, <2>5, ThinkingKeepsOnce
    DEF Opening, Left, Settling, Handling, Commands
<1>. QED  BY <1>2, <1>3, WritingKeepsOnce DEF SaveCheckpoint

LEMMA BoundaryKeepsOnce ==
    ASSUME Inv, Inv', Once, NEW e \in Executors, BoundaryStep(e)
    PROVE  Once'
  BY FenceKeepsOnce, SaveRunKeepsOnce, SaveCheckpointKeepsOnce DEF BoundaryStep

(* An executor that opens a lease gets an epoch of its own. *)
LEMMA OpeningKeepsOnce ==
    ASSUME Inv, Inv', Once, NEW e \in Executors, NEW y, y = ex'[e],
           RL!Acquire(e, now), ex[e].at \in Opening,
           \A f \in Executors : f # e => ex'[f] = ex[f],
           UNCHANGED <<checkpoint, ledger, task, effects>>,
           y.epoch = lease'.epoch, y.base = ex[e].base,
           \/ y.at = "collect" /\ y.todo = <<"fence">>
           \/ y.at = "parse" /\ y.base = NoCheckpoint
    PROVE  Once'
<1>1. lease'.owner = e /\ lease'.epoch = lease.epoch + 1
  BY DEF Once, SessionsDiffer, RL!Acquire, RL!AcquiredLease, RL!LiveFor
<1>2. y.epoch > lease.epoch /\ \A f \in Executors : ex[f].epoch <= lease.epoch
      /\ ex[f].epoch < lease'.epoch
  BY <1>1, Columns DEF Follows
<1>3. \A f \in Executors : Stationed(ex'[f])
  <2>1. Stationed(y)
    <3>1. y.epoch > 0
      BY <1>1, Columns
    <3>. QED  BY <3>1 DEF Stationed, Opening, Left, Settling, Handling
  <2>. QED  BY <2>1 DEF Once
<1>4. SessionsDiffer'
  BY <1>1, <1>2, Columns DEF Once, SessionsDiffer, Opening
<1>5. y.base.row.epoch <= lease.epoch
  BY Columns DEF Follows
<1>6. OwnCheckpoints'
  BY <1>2, <1>5, Columns DEF OwnCheckpoints
<1>7. \A f \in Executors : Armed(f)' => f # e /\ Armed(f)
  BY DEF Armed, IsCommand, IsTask, IsDirect
<1>8. ArmedAreCurrent'
  BY <1>7 DEF Once, ArmedAreCurrent
<1>9. HeirsAbandon'
  <2>. SUFFICES ASSUME NEW g \in Executors, NEW f \in Executors, Armed(f)',
                       ex'[f].base = ex'[g].base, ex'[g].epoch # ex'[g].base.row.epoch
                PROVE  \/ ex'[g].at \in Opening \cup {"collect", "collected", "reconcile"}
                       \/ ex'[g].at = "apply" /\ ex'[f].action \in ex'[g].decision.abandon
    BY DEF HeirsAbandon
  <2>1. Armed(f) /\ ex'[f] = ex[f] /\ ex[f].base.row.phase = "action_inflight"
    BY <1>7, ArmedInHand
  <2>2. CASE g = e
    BY <2>1, <2>2 DEF NoCheckpoint, NoRun
  <2>3. CASE g # e
    BY <2>1, <2>3 DEF Once, HeirsAbandon
  <2>. QED  BY <2>2, <2>3
<1>10. PreparedHasNotRun' /\ CarriedOutOnce'
  BY DEF Once, PreparedHasNotRun, CarriedOutOnce, CarriesOut, IsCommand, IsTask, IsDirect
<1>11. DispatchedOnce'
  <2>. SUFFICES ASSUME NEW f \in Executors, ex'[f].at = "dispatch", IsCommand(ex'[f].action)
                PROVE  \/ ledger[ex'[f].action] \in {"prepared"} \cup Closed
                       \/ /\ ex'[f].todo # <<>> /\ ex'[f].epoch < lease'.epoch
                          /\ ledger[ex'[f].action] # "none"
    BY DEF DispatchedOnce, IsCommand, IsTask, IsDirect
  <2>1. f # e /\ ex'[f] = ex[f]
    OBVIOUS
  <2>. QED  BY <1>2, <2>1 DEF Once, DispatchedOnce
<1>12. effects' \in [Actions -> Nat] /\ TasksRunOnce'
  BY DEF Once, TasksRunOnce, IsTask
<1>. QED  BY <1>3, <1>4, <1>6, <1>8, <1>9, <1>10, <1>11, <1>12 DEF Once

LEMMA StartKeepsOnce ==
    ASSUME Inv, Inv', Once, NEW e \in Executors, Start(e)
    PROVE  Once'
<1>1. PICK y : y = ex'[e]
  OBVIOUS
<1>2. ex[e].at = "new" /\ ex[e].base = NoCheckpoint
  BY Columns DEF Start, At, Placed
<1>3. y.at = "parse" /\ y.base = ex[e].base /\ y.epoch = lease'.epoch
      /\ \A f \in Executors : f # e => ex'[f] = ex[f]
  <2>1. PICK m : m = Mine(e, "running", "safe")
    OBVIOUS
  <2>2. m \in Memory /\ m.base = ex[e].base
    BY <2>1, MineTyped
  <2>3. Goes(e, [m EXCEPT !.epoch = lease'.epoch], "parse", <<"fence", "save">>)
    BY <2>1 DEF Start
  <2>4. ex'[e] = [[m EXCEPT !.epoch = lease'.epoch]
                     EXCEPT !.at = "parse", !.todo = <<"fence", "save">>]
        /\ \A f \in Executors : f # e => ex'[f] = ex[f]
    BY <2>3 DEF Goes, Becomes, Inv
  <2>. QED  BY <1>1, <2>2, <2>4 DEF Memory
<1>. QED
  BY <1>1, <1>2, <1>3, OpeningKeepsOnce DEF Start, Opening, outside

LEMMA ReadRunKeepsOnce ==
    ASSUME Inv, Inv', Once, NEW e \in Executors, ReadRun(e) \/ ReadCheckpoint(e)
    PROVE  Once'
<1>1. PICK x, y : x = ex[e] /\ y = ex'[e]
  OBVIOUS
<1>2. UNCHANGED <<lease, checkpoint, ledger, task, effects>>
  BY DEF ReadRun, ReadCheckpoint, outside
<1>3. x.at \in Opening /\ x.epoch = 0 /\ (x.at = "new" => x.base = NoCheckpoint)
  BY <1>1, Columns DEF Once, Stationed, ReadRun, ReadCheckpoint, At, Opening, Placed
<1>4. CASE y.at = "done" /\ y.base = NoCheckpoint /\ y.epoch = 0
           /\ \A f \in Executors : f # e => ex'[f] = ex[f]
  <2>1. Stationed(y)
    BY <1>4 DEF Stationed, Left, Opening, Settling, Handling
  <2>2. Harmless(x, y) /\ Reconciles(x, y)
    BY <1>3, <1>4 DEF Harmless, Reconciles, Commands, Opening, NoCheckpoint, NoRun
  <2>. QED  BY <1>1, <1>2, <1>4, <2>1, <2>2, QuietKeepsOnce
<1>5. CASE y.at \in Opening /\ y.epoch = 0 /\ \A f \in Executors : f # e => ex'[f] = ex[f]
  <2>1. Stationed(y)
    BY <1>5 DEF Stationed, Left, Opening, Settling, Handling
  <2>2. Harmless(x, y) /\ Reconciles(x, y)
    BY <1>3, <1>5 DEF Harmless, Reconciles, Commands, Opening
  <2>. QED  BY <1>1, <1>2, <1>5, <2>1, <2>2, QuietKeepsOnce
<1>6. CASE ReadRun(e)
  <2>1. CASE Goes(e, [ex[e] EXCEPT !.mine = run, !.pending = run.waits],
                  "read_checkpoint", <<>>)
    <3>1. y.at = "read_checkpoint" /\ y.epoch = x.epoch
          /\ \A f \in Executors : f # e => ex'[f] = ex[f]
      BY <1>1, <2>1, Columns DEF Goes, Becomes, Inv, Memory
    <3>. QED  BY <1>3, <1>5, <3>1 DEF Opening
  <2>2. CASE GoesOn(e, "done", <<>>)
    <3>1. y.at = "done" /\ y.epoch = x.epoch /\ y.base = x.base
          /\ \A f \in Executors : f # e => ex'[f] = ex[f]
      BY <1>1, <2>2, Columns DEF Goes, Becomes, Inv, Memory, GoesOn
    <3>. QED  BY <1>3, <1>4, <1>6, <3>1, <1>1 DEF ReadRun, At
  <2>. QED  BY <1>6, <2>1, <2>2 DEF ReadRun
<1>7. CASE ReadCheckpoint(e)
  <2>1. CASE Becomes(e, Leaving(e, "settle"))
    BY <1>2, <2>1, LeavingKeepsOnce DEF Left
  <2>2. CASE Goes(e, [ex[e] EXCEPT !.base = checkpoint], "open", <<>>)
    <3>1. y.at = "open" /\ y.epoch = x.epoch
          /\ \A f \in Executors : f # e => ex'[f] = ex[f]
      BY <1>1, <2>2, Columns DEF Goes, Becomes, Inv, Memory
    <3>. QED  BY <1>3, <1>5, <3>1 DEF Opening
  <2>. QED  BY <1>7, <2>1, <2>2 DEF ReadCheckpoint
<1>. QED  BY <1>6, <1>7

LEMMA OpenLeaseKeepsOnce ==
    ASSUME Inv, Inv', Once, NEW e \in Executors, OpenLease(e)
    PROVE  Once'
<1>1. UNCHANGED <<checkpoint, ledger, task, effects>>
  BY DEF OpenLease, outside
<1>2. CASE Becomes(e, Leaving(e, "settle")) /\ UNCHANGED lease
  BY <1>1, <1>2, LeavingKeepsOnce DEF Left
<1>3. CASE RL!Acquire(e, now)
           /\ Goes(e, [ex[e] EXCEPT !.epoch = lease'.epoch], "collect", <<"fence">>)
  <2>1. PICK y : y = ex'[e]
    OBVIOUS
  <2>2. y.at = "collect" /\ y.todo = <<"fence">> /\ y.base = ex[e].base
        /\ y.epoch = lease'.epoch /\ \A f \in Executors : f # e => ex'[f] = ex[f]
    BY <1>3, <2>1, Columns DEF Goes, Becomes, Inv, Memory
  <2>. QED  BY <1>1, <1>3, <2>1, <2>2, OpeningKeepsOnce DEF OpenLease, At, Opening
<1>. QED  BY <1>2, <1>3 DEF OpenLease

LEMMA SameSessions ==
    ASSUME NEW e \in Executors,
           \/ UNCHANGED lease
           \/ RL!Renew(e, ex[e].epoch, now)
           \/ RL!Release(e, ex[e].epoch, now)
    PROVE  lease'.epoch = lease.epoch /\ lease'.owner = lease.owner
  BY DEF RL!Renew, RL!Release, RL!UpdatedLease

LEMMA RenewKeepsOnce ==
    ASSUME Inv, Inv', Once, NEW e \in Executors, Renew(e)
    PROVE  Once'
<1>1. UNCHANGED <<checkpoint, ledger, task, effects>>
  BY DEF Renew, outside
<1>2. lease'.epoch = lease.epoch /\ lease'.owner = lease.owner
  BY SameSessions DEF Renew
<1>3. PICK x, y : x = ex[e] /\ y = ex'[e]
  OBVIOUS
<1>4. /\ y.at = x.at /\ y.todo = x.todo /\ y.mine = x.mine /\ y.base = x.base
      /\ y.epoch = x.epoch /\ y.action = x.action /\ y.decision = x.decision
      /\ \A f \in Executors : f # e => ex'[f] = ex[f]
  BY <1>3, Columns DEF Renew, Becomes, Inv, Memory
<1>5. Stationed(y)
  BY <1>3, <1>4 DEF Once, Stationed, InHand
<1>6. Harmless(x, y) /\ Reconciles(x, y)
  BY <1>4 DEF Harmless, Reconciles
<1>7. Steady(e)
  <2>1. TasksRunOnce'
    BY <1>1 DEF Once, TasksRunOnce, IsTask
  <2>. QED  BY <1>1, <1>2, <1>4, <2>1 DEF Once, Steady
<1>. QED  BY <1>3, <1>5, <1>6, <1>7, SteadyKeepsOnce

LEMMA CloseKeepsOnce ==
    ASSUME Inv, Inv', Once, NEW e \in Executors, Close(e)
    PROVE  Once'
<1>1. UNCHANGED <<checkpoint, ledger, task, effects>>
  BY DEF Close, outside
<1>2. lease'.epoch = lease.epoch /\ lease'.owner = lease.owner
  BY SameSessions DEF Close
<1>3. PICK place : /\ place = IF attempt[e] = "none" THEN "done" ELSE "settle"
                   /\ place \in Left /\ Becomes(e, [Fresh EXCEPT !.at = place])
  BY DEF Close, Left
<1>. QED  BY <1>1, <1>2, <1>3, LeavingKeepsOnce

LEMMA SettleKeepsOnce ==
    ASSUME Inv, Inv', Once, NEW e \in Executors, Settle(e)
    PROVE  Once'
<1>1. PICK y : y = ex'[e]
  OBVIOUS
<1>2. y.at = "done" /\ y.base = ex[e].base /\ y.epoch = ex[e].epoch
      /\ \A f \in Executors : f # e => ex'[f] = ex[f]
  BY <1>1, Columns DEF Settle, GoesOn, Goes, Becomes, Inv, Memory
<1>. QED
  BY <1>1, <1>2, ThinkingKeepsOnce
  DEF Settle, At, Opening, Left, Settling, Handling, Commands, outside

LEMMA SessionKeepsOnce ==
    ASSUME Inv, Inv', Once, NEW e \in Executors, SessionStep(e)
    PROVE  Once'
  BY StartKeepsOnce, ReadRunKeepsOnce, OpenLeaseKeepsOnce, RenewKeepsOnce, CloseKeepsOnce,
     SettleKeepsOnce
  DEF SessionStep

(* Resuming. *)

LEMMA CollectKeepsOnce ==
    ASSUME Inv, Inv', Once, NEW e \in Executors, Collect(e)
    PROVE  Once'
<1>1. PICK x, y : x = ex[e] /\ y = ex'[e]
  OBVIOUS
<1>2. UNCHANGED <<lease, checkpoint, ledger, task, effects>>
  BY DEF Collect, outside
<1>3. PICK place, steps :
         /\ GoesOn(e, place, steps) /\ steps \in {<<>>, <<"fence">>}
         /\ \/ x.at = "collect" /\ place = "collected"
            \/ x.at = "iterate" /\ place = "gathered"
  <2>1. PICK next : next = IF ex[e].at = "collect" THEN "collected" ELSE "gathered"
    OBVIOUS
  <2>2. PICK steps : /\ steps \in {<<>>, <<"fence">>}
                     /\ GoesOn(e, next, steps)
    BY <2>1 DEF Collect
  <2>3. x.at \in {"collect", "iterate"}
    BY <1>1 DEF Collect, At
  <2>. QED  BY <1>1, <2>1, <2>2, <2>3
<1>4. /\ y.at = place /\ y.todo = steps /\ y.base = x.base /\ y.epoch = x.epoch
      /\ \A f \in Executors : f # e => ex'[f] = ex[f]
  BY <1>1, <1>3, Columns DEF GoesOn, Goes, Becomes, Inv, Memory
<1>5. Stationed(x) /\ x.epoch > 0
  BY <1>1, <1>3 DEF Once, Stationed, Opening, Left
<1>6. Stationed(y)
  BY <1>3, <1>4, <1>5 DEF Stationed, Settling, Handling, Opening, Left
<1>. QED
  BY <1>1, <1>2, <1>3, <1>4, <1>6, ThinkingKeepsOnce
  DEF Opening, Left, Settling, Handling, Commands

LEMMA RecordCollectedKeepsOnce ==
    ASSUME Inv, Inv', Once, NEW e \in Executors, RecordCollected(e)
    PROVE  Once'
<1>1. PICK x, y : x = ex[e] /\ y = ex'[e]
  OBVIOUS
<1>2. UNCHANGED <<lease, checkpoint, task, effects>>
  BY DEF RecordCollected, outside
<1>3. PICK waits, mine :
         /\ mine = x \/ mine = Mine(e, "running", "safe")
         /\ Goes(e, [mine EXCEPT !.mine.waits = waits, !.pending = waits],
                 IF x.at = "collected" THEN "reconcile" ELSE "begin", <<"fence", "save">>)
  BY <1>1 DEF RecordCollected
<1>4. mine \in Memory /\ mine.base = x.base /\ mine.epoch = x.epoch
  <2>1. CASE mine = Mine(e, "running", "safe")
    BY <1>1, <2>1, MineTyped
  <2>2. CASE mine = x
    BY <1>1, <2>2, Columns
  <2>. QED  BY <1>3, <2>1, <2>2
<1>5. /\ y.at = (IF x.at = "collected" THEN "reconcile" ELSE "begin")
      /\ y.todo = <<"fence", "save">> /\ y.base = x.base /\ y.epoch = x.epoch
      /\ \A f \in Executors : f # e => ex'[f] = ex[f]
  BY <1>1, <1>3, <1>4 DEF Goes, Becomes, Inv, Memory
<1>6. x.at \in {"collected", "gathered"} /\ Stationed(x) /\ x.epoch > 0
  BY <1>1 DEF RecordCollected, At, Once, Stationed, Opening, Left
<1>7. Stationed(y)
  BY <1>5, <1>6 DEF Stationed, Settling, Handling, Opening, Left
<1>8. \A k \in Actions : ledger'[k] = ledger[k] \/ ledger'[k] \in Closed
  BY DEF RecordCollected, Closed
<1>9. effects' \in [Actions -> Nat] /\ TasksRunOnce'
  BY <1>2 DEF Once, TasksRunOnce, IsTask
<1>. QED
  BY <1>1, <1>2, <1>5, <1>6, <1>7, <1>8, <1>9, OnwardKeepsOnce
  DEF Opening, Left, Settling, Handling, Commands

(* The heir of an armed executor finds its command prepared. *)
LEMMA ReconcileKeepsOnce ==
    ASSUME Inv, Inv', Once, NEW e \in Executors, Reconcile(e)
    PROVE  Once'
<1>1. PICK x, y : x = ex[e] /\ y = ex'[e]
  OBVIOUS
<1>2. UNCHANGED <<lease, checkpoint, ledger, task, effects>>
  BY DEF Reconcile, outside
<1>3. x.at \in {"reconcile", "collect"} /\ Stationed(x) /\ x.epoch > 0
  BY <1>1 DEF Reconcile, At, Once, Stationed, Opening, Left
<1>4. CASE ~(InFlight(e) /\ x.base # NoCheckpoint) /\ GoesOn(e, "commit", <<"fence">>)
  <2>1. y.at = "commit" /\ y.base = x.base /\ y.epoch = x.epoch
        /\ \A f \in Executors : f # e => ex'[f] = ex[f]
    BY <1>1, <1>4, Columns DEF GoesOn, Goes, Becomes, Inv, Memory
  <2>2. x.base.row.phase # "action_inflight"
    BY <1>1, <1>4 DEF InFlight, NoCheckpoint, NoRun
  <2>. QED
    BY <1>1, <1>2, <1>3, <2>1, <2>2, ThinkingKeepsOnce
    DEF Opening, Left, Settling, Handling, Commands
<1>5. CASE Goes(e, [ex[e] EXCEPT !.decision = ReconcileDecision(e)], "apply", <<"fence">>)
  <2>1. PICK d : d = ReconcileDecision(e)
    OBVIOUS
  <2>2. /\ y.at = "apply" /\ y.todo = <<"fence">> /\ y.base = x.base /\ y.epoch = x.epoch
        /\ y.decision = d /\ \A f \in Executors : f # e => ex'[f] = ex[f]
    BY <1>1, <1>5, <2>1, Columns DEF Goes, Becomes, Inv, Memory
  <2>3. Stationed(y)
    BY <1>3, <2>2 DEF Stationed, Settling, Handling, Opening, Left
  <2>4. Harmless(x, y)
    BY <2>2 DEF Harmless, Opening, Commands
  <2>5. HeirsAbandon'
    <3>. SUFFICES ASSUME NEW g \in Executors, NEW f \in Executors, Armed(f)',
                         ex'[f].base = ex'[g].base, ex'[g].epoch # ex'[g].base.row.epoch
                  PROVE  \/ ex'[g].at \in Opening \cup {"collect", "collected", "reconcile"}
                         \/ ex'[g].at = "apply" /\ ex'[f].action \in ex'[g].decision.abandon
      BY DEF HeirsAbandon
    <3>1. ex'[f].at = "dispatch"
      BY DEF Armed
    <3>2. f # e /\ ex'[f] = ex[f]
      BY <1>1, <2>2, <3>1
    <3>3. Armed(f)
      BY <1>2, <3>2 DEF Armed, IsCommand, IsTask, IsDirect
    <3>4. CASE g # e
      BY <2>2, <3>2, <3>3, <3>4 DEF Once, HeirsAbandon
    <3>5. CASE g = e
      <4>1. ex[f].action \in Actions /\ ledger[ex[f].action] = "prepared"
        BY <3>3 DEF Armed, IsCommand
      <4>2. ex[f].action[1] = ex[e].base.row.iteration
        BY <1>1, <2>2, <3>2, <3>3, <3>5, ArmedInHand
      <4>3. ex[f].action \in d.abandon
        BY <2>1, <4>1, <4>2 DEF ReconcileDecision, Recorded
      <4>. QED  BY <1>1, <2>2, <3>2, <3>5, <4>3
    <3>. QED  BY <3>4, <3>5
  <2>. QED  BY <1>1, <1>2, <2>2, <2>3, <2>4, <2>5, QuietKeepsOnce
<1>. QED  BY <1>1, <1>4, <1>5 DEF Reconcile

(* What the heir abandons is no longer prepared. *)
LEMMA ApplyReconcileKeepsOnce ==
    ASSUME Inv, Inv', Once, NEW e \in Executors, ApplyReconcile(e)
    PROVE  Once'
<1>1. PICK x, y, d : x = ex[e] /\ y = ex'[e] /\ d = ex[e].decision
  OBVIOUS
<1>2. UNCHANGED <<lease, checkpoint, task, effects>>
  BY DEF ApplyReconcile, outside
<1>3. CASE Aborts(e) /\ UNCHANGED ledger
  BY <1>2, <1>3, LeavingKeepsOnce DEF Aborts, Left
<1>4. CASE /\ ledger' = [k \in Actions |->
                            IF k \in d.abandon THEN "failed"
                            ELSE IF k \in d.finish THEN "succeeded" ELSE ledger[k]]
           /\ y.at = "commit" /\ y.base = x.base /\ y.epoch = x.epoch
           /\ \A f \in Executors : f # e => ex'[f] = ex[f]
  <2>1. x.at = "apply" /\ x.epoch > 0
    BY <1>1 DEF ApplyReconcile, At, Once, Stationed, Opening, Left
  <2>2. Stationed(y)
    BY <1>4, <2>1 DEF Stationed, Settling, Handling, Opening, Left
  <2>3. Harmless(x, y)
    BY <1>4 DEF Harmless, Opening, Commands
  <2>4. Steady(e)
    <3>1. TasksRunOnce' /\ effects' \in [Actions -> Nat]
      BY <1>2 DEF Once, TasksRunOnce, IsTask
    <3>2. \A k \in Actions : ledger'[k] = ledger[k] \/ ledger'[k] \in Closed
      BY <1>4 DEF Closed
    <3>. QED  BY <1>2, <1>4, <3>1, <3>2 DEF Steady
  <2>5. HeirsAbandon'
    <3>. SUFFICES ASSUME NEW g \in Executors, NEW f \in Executors, Armed(f)',
                         ex'[f].base = ex'[g].base, ex'[g].epoch # ex'[g].base.row.epoch
                  PROVE  \/ ex'[g].at \in Opening \cup {"collect", "collected", "reconcile"}
                         \/ ex'[g].at = "apply" /\ ex'[f].action \in ex'[g].decision.abandon
      BY DEF HeirsAbandon
    <3>1. ex'[f].at = "dispatch" /\ IsCommand(ex'[f].action)
          /\ ledger'[ex'[f].action] = "prepared"
      BY DEF Armed, IsCommand, IsTask, IsDirect
    <3>2. f # e /\ ex'[f] = ex[f]
      BY <1>1, <1>4, <3>1
    <3>3. PICK k \in Actions : k = ex[f].action
      BY <3>1, <3>2 DEF IsCommand
    <3>4. ledger[k] = "prepared" /\ k \notin d.abandon
      BY <1>4, <3>1, <3>2, <3>3
    <3>5. Armed(f)
      BY <3>1, <3>2, <3>3, <3>4 DEF Armed, IsCommand, IsTask, IsDirect
    <3>6. CASE g # e
      BY <1>4, <3>2, <3>5, <3>6 DEF Once, HeirsAbandon
    <3>7. CASE g = e
      <4>1. k \in d.abandon
        BY <1>1, <1>4, <2>1, <3>2, <3>3, <3>5, <3>7 DEF Once, HeirsAbandon, Opening
      <4>. QED  BY <3>4, <4>1
    <3>. QED  BY <3>6, <3>7
  <2>. QED  BY <1>1, <2>2, <2>3, <2>4, <2>5, SteadyKeepsOnce
<1>5. PICK settled : settled = [ex[e] EXCEPT !.decision = NoDecision, !.mine.waits = d.waits,
                                             !.pending = d.waits]
  OBVIOUS
<1>6. settled.base = x.base /\ settled.epoch = x.epoch
      /\ {"at", "todo", "base", "epoch", "mine", "pending"} \subseteq DOMAIN settled
  BY <1>1, <1>5, Columns DEF Memory
<1>7. CASE /\ ~Refused(d)
           /\ ledger' = [k \in Actions |->
                            IF k \in d.abandon THEN "failed"
                            ELSE IF k \in d.finish THEN "succeeded" ELSE ledger[k]]
  <2>1. CASE Goes(e, [settled EXCEPT !.mine.waits = {}, !.pending = {}],
                  "commit", <<"save", "fence">>)
    BY <1>1, <1>4, <1>6, <1>7, <2>1 DEF Goes, Becomes, Inv
  <2>2. CASE Goes(e, [settled EXCEPT !.mine.status = "waiting", !.mine.phase = "safe"],
                  "commit", <<"save", "fence">>)
    BY <1>1, <1>4, <1>6, <1>7, <2>2 DEF Goes, Becomes, Inv
  <2>3. CASE Goes(e, [settled EXCEPT !.mine.status = "running", !.mine.phase = "safe",
                                     !.pending = ex[e].pending],
                  "commit", <<"save", "reconciled", "fence">>)
    BY <1>1, <1>4, <1>6, <1>7, <2>3 DEF Goes, Becomes, Inv
  <2>. QED  BY <1>1, <1>5, <1>7, <2>1, <2>2, <2>3 DEF ApplyReconcile
<1>. QED  BY <1>1, <1>3, <1>7 DEF ApplyReconcile

LEMMA CommitResumeKeepsOnce ==
    ASSUME Inv, Inv', Once, NEW e \in Executors, CommitResume(e)
    PROVE  Once'
<1>1. PICK x, y : x = ex[e] /\ y = ex'[e]
  OBVIOUS
<1>2. UNCHANGED <<lease, checkpoint, ledger, task, effects>>
  BY DEF CommitResume, outside
<1>3. /\ y.at \in {"close", "iterate"} /\ y.base = x.base /\ y.epoch = x.epoch
      /\ \A f \in Executors : f # e => ex'[f] = ex[f]
  <2>1. CASE Goes(e, [Mine(e, "waiting", "safe") EXCEPT !.mine.waits = ex[e].pending],
                  "close", <<"save", "reconciled", "save">>)
    <3>1. PICK m : m = Mine(e, "waiting", "safe")
      OBVIOUS
    <3>2. m \in Memory /\ m.base = x.base /\ m.epoch = x.epoch
      BY <1>1, <3>1, MineTyped
    <3>. QED  BY <1>1, <2>1, <3>1, <3>2 DEF Goes, Becomes, Inv, Memory
  <2>2. CASE \/ Goes(e, Mine(e, "blocked", "safe"), "close", <<"save">>)
             \/ Goes(e, Mine(e, "running", "safe"), "iterate",
                     <<"save", "checkpoint", "admit", "fence", "save", "checkpoint",
                       "fence">>)
    <3>1. PICK m, place, steps :
             /\ m \in Memory /\ m.base = x.base /\ m.epoch = x.epoch
             /\ place \in {"close", "iterate"} /\ Goes(e, m, place, steps)
      BY <1>1, <2>2, MineTyped
    <3>. QED  BY <1>1, <3>1 DEF Goes, Becomes, Inv, Memory
  <2>. QED  BY <2>1, <2>2 DEF CommitResume
<1>. QED
  BY <1>1, <1>2, <1>3, ThinkingKeepsOnce
  DEF CommitResume, At, Opening, Left, Settling, Handling, Commands

LEMMA ResumeKeepsOnce ==
    ASSUME Inv, Inv', Once, NEW e \in Executors, ResumeStep(e)
    PROVE  Once'
  BY CollectKeepsOnce, RecordCollectedKeepsOnce, ReconcileKeepsOnce,
     ApplyReconcileKeepsOnce, CommitResumeKeepsOnce
  DEF ResumeStep

(* The loop. *)

LEMMA LoopKeepsOnce ==
    ASSUME Inv, Inv', Once, NEW e \in Executors, LoopStep(e)
    PROVE  Once'
<1>1. PICK x, y : x = ex[e] /\ y = ex'[e]
  OBVIOUS
<1>2. UNCHANGED <<lease, checkpoint, ledger, task, effects>>
  BY DEF LoopStep, ParseGoal, BeginIteration, Stop, Plan, GoInFlight, FinishActions,
         AfterActions, outside
<1>3. x \in Memory /\ x.mine \in Row /\ Stationed(x)
  BY <1>1, Columns DEF Once
<1>4. ASSUME y.base = x.base, y.epoch = x.epoch,
             \A f \in Executors : f # e => ex'[f] = ex[f],
             x.at \notin Opening \cup Settling \cup Left,
             y.at \notin Opening \cup Settling \cup Handling \cup {"act"}
      PROVE  Once'
  BY <1>1, <1>2, <1>4, ThinkingKeepsOnce DEF Settling, Handling, Commands
<1>5. ASSUME x.at \in {"parse", "iterate", "begin", "assessed", "act", "result"},
             y.at \in {"iterate", "assessed", "planned", "result", "close"},
             y.base = x.base, y.epoch = x.epoch,
             \A f \in Executors : f # e => ex'[f] = ex[f]
      PROVE  Once'
  BY <1>4, <1>5 DEF Opening, Settling, Handling, Left
<1>6. CASE ParseGoal(e)
  BY <1>1, <1>3, <1>5, <1>6 DEF ParseGoal, At, GoesOn, Goes, Becomes, Inv, Memory
<1>7. CASE BeginIteration(e)
  BY <1>1, <1>3, <1>5, <1>7 DEF BeginIteration, At, Goes, Becomes, Inv, Memory
<1>8. CASE Stop(e)
  <2>1. PICK status \in {"terminal", "blocked"} :
           Goes(e, Mine(e, status, "safe"), "close", <<"fence", "save", "checkpoint">>)
    BY <1>8 DEF Stop
  <2>2. PICK m : m = Mine(e, status, "safe")
    OBVIOUS
  <2>3. m \in Memory /\ m.base = x.base /\ m.epoch = x.epoch
    BY <1>1, <2>2, MineTyped
  <2>4. y.at = "close" /\ y.base = x.base /\ y.epoch = x.epoch
        /\ \A f \in Executors : f # e => ex'[f] = ex[f]
    BY <1>1, <2>1, <2>2, <2>3 DEF Goes, Becomes, Inv, Memory
  <2>. QED  BY <1>1, <1>5, <1>8, <2>4 DEF Stop, At
<1>9. CASE Plan(e)
  <2>1. y.at = "planned" /\ y.base = x.base /\ y.epoch = x.epoch
        /\ \A f \in Executors : f # e => ex'[f] = ex[f]
    BY <1>1, <1>3, <1>9 DEF Plan, GoesOn, Goes, Becomes, Inv, Memory
  <2>. QED  BY <1>1, <1>5, <1>9, <2>1 DEF Plan, At
<1>10. CASE GoInFlight(e)
  <2>1. /\ y.at = "act" /\ y.base = x.base /\ y.epoch = x.epoch
        /\ y.todo = <<"save", "checkpoint">> /\ y.mine.phase = "action_inflight"
        /\ \A f \in Executors : f # e => ex'[f] = ex[f]
    BY <1>1, <1>3, <1>10 DEF GoInFlight, Goes, Becomes, Inv, Memory, Row
  <2>2. x.at = "planned" /\ x.epoch > 0
    BY <1>1, <1>3, <1>10 DEF GoInFlight, At, Stationed, Opening, Left
  <2>3. Stationed(y)
    BY <2>1, <2>2 DEF Stationed, Settling, Handling, Opening, Left
  <2>. QED
    BY <1>1, <1>2, <2>1, <2>2, <2>3, ThinkingKeepsOnce
    DEF Opening, Left, Settling, Commands
<1>11. CASE FinishActions(e)
  <2>1. y.at = "result" /\ y.base = x.base /\ y.epoch = x.epoch
        /\ \A f \in Executors : f # e => ex'[f] = ex[f]
    BY <1>1, <1>3, <1>11 DEF FinishActions, Goes, Becomes, Inv, Memory
  <2>. QED  BY <1>1, <1>5, <1>11, <2>1 DEF FinishActions, At
<1>12. CASE AfterActions(e)
  <2>1. y.at \in {"close", "iterate"} /\ y.base = x.base /\ y.epoch = x.epoch
        /\ \A f \in Executors : f # e => ex'[f] = ex[f]
    <3>1. CASE Goes(e, [ex[e] EXCEPT !.mine.status = "waiting", !.mine.waits = ex[e].pending],
                    "close", <<"fence", "save", "checkpoint">>)
      BY <1>1, <1>3, <3>1 DEF Goes, Becomes, Inv, Memory
    <3>2. CASE GoesOn(e, "iterate", <<"save", "fence", "checkpoint", "fence">>)
      BY <1>1, <1>3, <3>2 DEF GoesOn, Goes, Becomes, Inv, Memory
    <3>3. CASE Goes(e, [ex[e] EXCEPT !.recovery = FALSE], "iterate", <<"fence">>)
      BY <1>1, <1>3, <3>3 DEF Goes, Becomes, Inv, Memory
    <3>. QED  BY <1>12, <3>1, <3>2, <3>3 DEF AfterActions
  <2>. QED  BY <1>1, <1>5, <1>12, <2>1 DEF AfterActions, At
<1>. QED  BY <1>6, <1>7, <1>8, <1>9, <1>10, <1>11, <1>12 DEF LoopStep

(* Actions.                                                                *)

(* An executor that has its next action, or is done with one.              *)
LEMMA HandKept ==
    ASSUME NEW x, NEW y, Stationed(x),
           x.at \in Handling \/ (x.at = "act" /\ x.todo = <<>>),
           y.base = x.base, y.epoch = x.epoch, y.mine.iteration = x.mine.iteration,
           \/ y.at = "act" /\ y.todo \in {<<>>, <<"save">>}
           \/ /\ y.at \in Handling /\ y.todo \in {<<>>, <<"fence">>}
              /\ y.action[1] = y.mine.iteration /\ (y.at = "started" => IsTask(y.action))
    PROVE  Stationed(y)
<1>1. x.epoch > 0
  BY DEF Stationed, Opening, Left, Handling
<1>2. InHand(x)
  <2>1. CASE x.at \in Handling
    BY <2>1 DEF Stationed
  <2>2. CASE x.at = "act" /\ x.todo = <<>>
    <3>1. <<>> # <<"save", "checkpoint">> /\ <<>> # <<"checkpoint">>
      OBVIOUS
    <3>. QED  BY <2>2, <3>1 DEF Stationed
  <2>. QED  BY <2>1, <2>2
<1>3. InHand(y)
  BY <1>2 DEF InHand
<1>. QED  BY <1>1, <1>3 DEF Stationed, Opening, Left, Settling, Handling

(* Where Answered goes. *)
LEMMA AnswersKept ==
    ASSUME Inv, Once, NEW e \in Executors, Answered(e),
           ex[e].at \in Handling
    PROVE  /\ ex'[e].at = "act" /\ ex'[e].base = ex[e].base /\ ex'[e].epoch = ex[e].epoch
           /\ Stationed(ex'[e]) /\ \A f \in Executors : f # e => ex'[f] = ex[f]
<1>1. PICK x, y : x = ex[e] /\ y = ex'[e]
  OBVIOUS
<1>2. /\ y.at = "act" /\ y.todo = <<>> /\ y.base = x.base /\ y.epoch = x.epoch
      /\ y.mine = x.mine /\ \A f \in Executors : f # e => ex'[f] = ex[f]
  BY <1>1, Columns DEF Answered, Goes, Becomes, Inv, Memory
<1>3. Stationed(y)
  BY <1>1, <1>2, HandKept DEF Once
<1>. QED  BY <1>1, <1>2, <1>3

LEMMA NextActionKeepsOnce ==
    ASSUME Inv, Inv', Once, NEW e \in Executors, NextAction(e)
    PROVE  Once'
<1>1. PICK x, y : x = ex[e] /\ y = ex'[e]
  OBVIOUS
<1>2. UNCHANGED <<lease, checkpoint, ledger, task, effects>>
  BY DEF NextAction, outside
<1>3. x \in Memory /\ Stationed(x) /\ x.at = "act" /\ x.todo = <<>>
  BY <1>1, Columns DEF Once, NextAction, At
<1>4. PICK id \in Ids :
         LET k == <<ex[e].mine.iteration, id>>
             chosen == [ex[e] EXCEPT !.action = k, !.acted = @ + 1]
         IN \/ ~IsDirect(k) /\ Goes(e, chosen, "prepare", <<"fence">>)
            \/ IsDirect(k) /\ Goes(e, chosen, "carry_out", <<>>)
  BY DEF NextAction
<1>5. PICK k : k = <<x.mine.iteration, id>>
  OBVIOUS
<1>6. /\ y.base = x.base /\ y.epoch = x.epoch /\ y.mine = x.mine /\ y.action = k
      /\ \A f \in Executors : f # e => ex'[f] = ex[f]
      /\ \/ y.at = "prepare" /\ y.todo = <<"fence">>
         \/ IsDirect(k) /\ y.at = "carry_out" /\ y.todo = <<>>
  <2>1. PICK m : m = [ex[e] EXCEPT !.action = k, !.acted = @ + 1]
    OBVIOUS
  <2>2. /\ {"at", "todo"} \subseteq DOMAIN m /\ m.base = x.base /\ m.epoch = x.epoch
        /\ m.mine = x.mine /\ m.action = k
    BY <1>1, <1>3, <2>1 DEF Memory
  <2>3. CASE Goes(e, m, "prepare", <<"fence">>)
    BY <1>1, <2>2, <2>3 DEF Goes, Becomes, Inv
  <2>4. CASE IsDirect(k) /\ Goes(e, m, "carry_out", <<>>)
    BY <1>1, <2>2, <2>4 DEF Goes, Becomes, Inv
  <2>. QED  BY <1>1, <1>4, <1>5, <2>1, <2>3, <2>4
<1>7. Stationed(y)
  <2>1. y.action[1] = y.mine.iteration
    BY <1>5, <1>6
  <2>2. y.at \in Handling /\ y.at # "started" /\ y.todo \in {<<>>, <<"fence">>}
    BY <1>6 DEF Handling
  <2>. QED  BY <1>3, <1>6, <2>1, <2>2, HandKept
<1>8. ~Commands(y)
  BY <1>6 DEF Commands, IsCommand
<1>. QED
  BY <1>1, <1>2, <1>3, <1>6, <1>7, <1>8, ThinkingKeepsOnce DEF Opening, Left, Settling

(* Nobody has prepared a command the ledger does not know, so nobody else  *)
(* becomes armed by its receipt.                                           *)
LEMMA PreparingKeepsOnce ==
    ASSUME Inv, Inv', Once, NEW e \in Executors, NEW k, k = ex[e].action, IsCommand(k),
           Prepare(e), ledger[k] \in {"none", "prepared"},
           ledger' = [ledger EXCEPT ![k] = "prepared"], GoesOn(e, "dispatch", <<"fence">>)
    PROVE  Once'
<1>1. PICK x, y : x = ex[e] /\ y = ex'[e]
  OBVIOUS
<1>2. UNCHANGED <<lease, checkpoint, task, effects>>
  BY DEF Prepare, outside
<1>3. k \in Actions /\ ledger'[k] = "prepared"
      /\ \A j \in Actions : j # k => ledger'[j] = ledger[j]
  BY DEF IsCommand, Inv, Typed
<1>4. /\ y.at = "dispatch" /\ y.todo = <<"fence">> /\ y.base = x.base /\ y.epoch = x.epoch
      /\ y.mine = x.mine /\ y.action = k /\ \A f \in Executors : f # e => ex'[f] = ex[f]
  BY <1>1, Columns DEF GoesOn, Goes, Becomes, Inv, Memory
<1>5. x.at = "prepare" /\ Stationed(x)
  BY <1>1 DEF Prepare, At, Once
<1>6. \A f \in Executors : Stationed(ex'[f])
  <2>1. x.action[1] = x.mine.iteration
    BY <1>5 DEF Stationed, Handling
  <2>2. Stationed(y)
    BY <1>1, <1>4, <1>5, <2>1, HandKept DEF Handling
  <2>. QED  BY <1>1, <1>4, <2>2 DEF Once
<1>7. SessionsDiffer' /\ OwnCheckpoints'
  <2>1. \A f \in Executors : /\ ex'[f].at \in Opening => ex[f].at \in Opening
                             /\ ex'[f].epoch = ex[f].epoch /\ ex'[f].base = ex[f].base
    BY <1>1, <1>4 DEF Opening
  <2>. QED  BY <1>2, <2>1 DEF Once, SessionsDiffer, OwnCheckpoints
<1>8. ASSUME NEW f \in Executors, Armed(f)'
      PROVE  f # e /\ Armed(f) /\ ex'[f] = ex[f]
  <2>1. ex'[f].at = "dispatch" /\ ex'[f].todo = <<>> /\ IsCommand(ex'[f].action)
        /\ ledger'[ex'[f].action] = "prepared"
    BY <1>8 DEF Armed, IsCommand, IsTask, IsDirect
  <2>2. f # e /\ ex'[f] = ex[f]
    <3>1. <<>> # <<"fence">>
      OBVIOUS
    <3>. QED  BY <1>1, <1>4, <2>1, <3>1
  <2>3. ledger[ex[f].action] = "prepared"
    <3>1. CASE ex[f].action # k
      BY <1>3, <2>1, <2>2, <3>1 DEF IsCommand
    <3>2. CASE ex[f].action = k
      BY <2>1, <2>2, <3>2 DEF Once, DispatchedOnce, Closed
    <3>. QED  BY <3>1, <3>2
  <2>. QED  BY <2>1, <2>2, <2>3 DEF Armed
<1>9. ArmedAreCurrent'
  BY <1>2, <1>8 DEF Once, ArmedAreCurrent
<1>10. HeirsAbandon'
  <2>. SUFFICES ASSUME NEW g \in Executors, NEW f \in Executors, Armed(f)',
                       ex'[f].base = ex'[g].base, ex'[g].epoch # ex'[g].base.row.epoch
                PROVE  \/ ex'[g].at \in Opening \cup {"collect", "collected", "reconcile"}
                       \/ ex'[g].at = "apply" /\ ex'[f].action \in ex'[g].decision.abandon
    BY DEF HeirsAbandon
  <2>1. Armed(f) /\ ex'[f] = ex[f]
    BY <1>8
  <2>2. CASE g # e
    BY <1>4, <2>1, <2>2 DEF Once, HeirsAbandon
  <2>3. CASE g = e
    <3>1. x.base.row.epoch = x.epoch
      BY <1>5 DEF Stationed, Handling, InHand
    <3>. QED  BY <1>1, <1>4, <2>3, <3>1
  <2>. QED  BY <2>2, <2>3
<1>11. \A f \in Executors, j \in Actions : CarriesOut(f, j)' => CarriesOut(f, j)
  BY <1>1, <1>4 DEF CarriesOut
<1>12. PreparedHasNotRun' /\ CarriedOutOnce'
  <2>1. PreparedHasNotRun'
    BY <1>2, <1>3, <1>11 DEF Once, PreparedHasNotRun, IsCommand, IsTask, IsDirect
  <2>2. CarriedOutOnce'
    BY <1>2, <1>11 DEF Once, CarriedOutOnce, IsCommand, IsTask, IsDirect
  <2>. QED  BY <2>1, <2>2
<1>13. DispatchedOnce'
  <2>. SUFFICES ASSUME NEW f \in Executors, ex'[f].at = "dispatch", IsCommand(ex'[f].action)
                PROVE  \/ ledger'[ex'[f].action] \in {"prepared"} \cup Closed
                       \/ /\ ex'[f].todo # <<>> /\ ex'[f].epoch < lease'.epoch
                          /\ ledger'[ex'[f].action] # "none"
    BY DEF DispatchedOnce, IsCommand, IsTask, IsDirect
  <2>1. CASE ex'[f].action = k
    BY <1>3, <2>1
  <2>2. CASE ex'[f].action # k
    <3>1. f # e /\ ex'[f] = ex[f]
      BY <1>1, <1>4, <2>2
    <3>. QED  BY <1>2, <1>3, <2>2, <3>1 DEF Once, DispatchedOnce, IsCommand
  <2>. QED  BY <2>1, <2>2
<1>14. effects' \in [Actions -> Nat] /\ TasksRunOnce'
  BY <1>2 DEF Once, TasksRunOnce, IsTask
<1>. QED  BY <1>6, <1>7, <1>9, <1>10, <1>12, <1>13, <1>14 DEF Once

LEMMA PrepareKeepsOnce ==
    ASSUME Inv, Inv', Once, NEW e \in Executors, Prepare(e)
    PROVE  Once'
<1>1. PICK x, y, k : x = ex[e] /\ y = ex'[e] /\ k = ex[e].action
  OBVIOUS
<1>2. UNCHANGED <<lease, checkpoint, task, effects>>
  BY DEF Prepare, outside
<1>3. /\ x \in Memory /\ x.at = "prepare" /\ Stationed(x) /\ k \in Actions
      /\ k[1] = x.mine.iteration
  BY <1>1, Columns DEF Prepare, At, Once, Placed, Handling, Stationed
<1>4. effects' \in [Actions -> Nat] /\ TasksRunOnce'
  BY <1>2 DEF Once, TasksRunOnce, IsTask
<1>5. CASE Answered(e) /\ UNCHANGED ledger
  BY <1>1, <1>2, <1>3, <1>4, <1>5, AnswersKept, ThinkingKeepsOnce
  DEF Handling, Opening, Left, Settling, Commands
<1>6. CASE GoesOn(e, "carry_out", <<>>) /\ IsTask(k) /\ UNCHANGED ledger
  <2>1. /\ y.at = "carry_out" /\ y.todo = <<>> /\ y.base = x.base /\ y.epoch = x.epoch
        /\ y.mine = x.mine /\ y.action = k /\ \A f \in Executors : f # e => ex'[f] = ex[f]
    BY <1>1, <1>3, <1>6 DEF GoesOn, Goes, Becomes, Inv, Memory
  <2>2. Stationed(y) /\ ~Commands(y)
    BY <1>3, <1>6, <2>1, HandKept DEF Handling, Commands, IsCommand
  <2>. QED
    BY <1>1, <1>2, <1>3, <1>6, <2>1, <2>2, ThinkingKeepsOnce
    DEF Opening, Left, Settling, Handling
<1>7. CASE /\ ledger[k] \in {"none", "prepared"}
           /\ ledger' = [ledger EXCEPT ![k] = "prepared"]
           /\ GoesOn(e, "dispatch", <<"fence">>)
  <2>1. CASE IsCommand(k)
    BY <1>1, <1>7, <2>1, PreparingKeepsOnce
  <2>2. CASE ~IsCommand(k)
    <3>1. /\ y.at = "dispatch" /\ y.todo = <<"fence">> /\ y.base = x.base
          /\ y.epoch = x.epoch /\ y.mine = x.mine /\ y.action = k
          /\ \A f \in Executors : f # e => ex'[f] = ex[f]
      BY <1>1, <1>3, <1>7 DEF GoesOn, Goes, Becomes, Inv, Memory
    <3>2. Stationed(y) /\ ~Commands(y)
      BY <1>3, <2>2, <3>1, HandKept DEF Handling, Commands
    <3>3. \A j \in Actions : IsCommand(j) => effects'[j] = effects[j] /\ ledger'[j] = ledger[j]
      BY <1>2, <1>7, <2>2 DEF Inv, Typed
    <3>. QED
      BY <1>1, <1>2, <1>3, <1>4, <3>1, <3>2, <3>3, OnwardKeepsOnce
      DEF Opening, Left, Settling, Handling
  <2>. QED  BY <2>1, <2>2
<1>. QED  BY <1>1, <1>5, <1>6, <1>7 DEF Prepare

(* The executor that dispatches a command is the only one armed with it:   *)
(* whoever else has prepared it has an older lease.                        *)
LEMMA DispatchingKeepsOnce ==
    ASSUME Inv, Inv', Once, NEW e \in Executors, NEW k, k = ex[e].action, IsCommand(k),
           Dispatch(e), ledger[k] \in {"prepared", "dispatched"},
           ledger' = [ledger EXCEPT ![k] = "dispatched"], GoesOn(e, "carry_out", <<>>)
    PROVE  Once'
<1>1. PICK x, y : x = ex[e] /\ y = ex'[e]
  OBVIOUS
<1>2. UNCHANGED <<lease, checkpoint, task, effects>>
  BY DEF Dispatch, outside
<1>3. k \in Actions /\ ledger'[k] = "dispatched"
      /\ \A j \in Actions : j # k => ledger'[j] = ledger[j]
  BY DEF IsCommand, Inv, Typed
<1>4. /\ y.at = "carry_out" /\ y.todo = <<>> /\ y.base = x.base /\ y.epoch = x.epoch
      /\ y.mine = x.mine /\ y.action = k /\ \A f \in Executors : f # e => ex'[f] = ex[f]
  BY <1>1, Columns DEF GoesOn, Goes, Becomes, Inv, Memory
<1>5. x.at = "dispatch" /\ x.todo = <<>> /\ Stationed(x)
  BY <1>1 DEF Dispatch, At, Once
<1>6. ledger[k] = "prepared"
  BY <1>1, <1>5 DEF Once, DispatchedOnce, Closed
<1>7. Armed(e)
  BY <1>1, <1>5, <1>6 DEF Armed
<1>8. x.base = checkpoint /\ x.base.row.epoch = x.epoch /\ x.epoch > 0
  BY <1>1, <1>7, ArmedInHand DEF Once, ArmedAreCurrent
<1>9. \A f \in Executors : Stationed(ex'[f])
  <2>1. x.action[1] = x.mine.iteration
    BY <1>5 DEF Stationed, Handling
  <2>2. y.at \in Handling /\ x.at \in Handling
    BY <1>4, <1>5 DEF Handling
  <2>3. Stationed(y)
    BY <1>1, <1>4, <1>5, <2>1, <2>2, HandKept
  <2>. QED  BY <1>1, <1>4, <2>3 DEF Once
<1>10. SessionsDiffer' /\ OwnCheckpoints'
  <2>1. \A f \in Executors : /\ ex'[f].at \in Opening => ex[f].at \in Opening
                             /\ ex'[f].epoch = ex[f].epoch /\ ex'[f].base = ex[f].base
    BY <1>1, <1>4 DEF Opening
  <2>. QED  BY <1>2, <2>1 DEF Once, SessionsDiffer, OwnCheckpoints
<1>11. ASSUME NEW f \in Executors, Armed(f)'
       PROVE  f # e /\ Armed(f) /\ ex'[f] = ex[f]
  <2>1. ex'[f].at = "dispatch" /\ ex'[f].todo = <<>> /\ IsCommand(ex'[f].action)
        /\ ledger'[ex'[f].action] = "prepared"
    BY <1>11 DEF Armed, IsCommand, IsTask, IsDirect
  <2>2. f # e /\ ex'[f] = ex[f]
    BY <1>1, <1>4, <2>1
  <2>3. ledger[ex[f].action] = "prepared"
    BY <1>3, <2>1, <2>2 DEF IsCommand
  <2>. QED  BY <2>1, <2>2, <2>3 DEF Armed
<1>12. ArmedAreCurrent'
  BY <1>2, <1>11 DEF Once, ArmedAreCurrent
<1>13. HeirsAbandon'
  <2>. SUFFICES ASSUME NEW g \in Executors, NEW f \in Executors, Armed(f)',
                       ex'[f].base = ex'[g].base, ex'[g].epoch # ex'[g].base.row.epoch
                PROVE  \/ ex'[g].at \in Opening \cup {"collect", "collected", "reconcile"}
                       \/ ex'[g].at = "apply" /\ ex'[f].action \in ex'[g].decision.abandon
    BY DEF HeirsAbandon
  <2>1. Armed(f) /\ ex'[f] = ex[f]
    BY <1>11
  <2>2. g # e
    BY <1>1, <1>4, <1>8
  <2>. QED  BY <1>4, <2>1, <2>2 DEF Once, HeirsAbandon
<1>14. \A f \in Executors, j \in Actions :
          CarriesOut(f, j)' => CarriesOut(f, j) \/ (f = e /\ j = k)
  BY <1>1, <1>4 DEF CarriesOut
<1>15. effects[k] = 0 /\ \A f \in Executors : ~CarriesOut(f, k)
  BY <1>3, <1>6 DEF Once, PreparedHasNotRun
<1>16. PreparedHasNotRun'
  <2>. SUFFICES ASSUME NEW j \in Actions, IsCommand(j), ledger'[j] \in {"none", "prepared"}
                PROVE  effects'[j] = 0 /\ \A f \in Executors : ~CarriesOut(f, j)'
    BY DEF PreparedHasNotRun, IsCommand, IsTask, IsDirect
  <2>1. j # k
    BY <1>3
  <2>. QED  BY <1>2, <1>3, <1>14, <2>1 DEF Once, PreparedHasNotRun
<1>17. CarriedOutOnce'
  <2>. SUFFICES ASSUME NEW j \in Actions, IsCommand(j)
                PROVE  /\ effects[j] <= 1
                       /\ \A f \in Executors : CarriesOut(f, j)' =>
                             effects[j] = 0 /\ \A g \in Executors : CarriesOut(g, j)' => f = g
    BY <1>2 DEF CarriedOutOnce, IsCommand, IsTask, IsDirect
  <2>1. CASE j = k
    BY <1>14, <1>15, <2>1
  <2>2. CASE j # k
    BY <1>14, <2>2 DEF Once, CarriedOutOnce
  <2>. QED  BY <2>1, <2>2
<1>18. DispatchedOnce'
  <2>. SUFFICES ASSUME NEW f \in Executors, ex'[f].at = "dispatch", IsCommand(ex'[f].action)
                PROVE  \/ ledger'[ex'[f].action] \in {"prepared"} \cup Closed
                       \/ /\ ex'[f].todo # <<>> /\ ex'[f].epoch < lease'.epoch
                          /\ ledger'[ex'[f].action] # "none"
    BY DEF DispatchedOnce, IsCommand, IsTask, IsDirect
  <2>1. f # e /\ ex'[f] = ex[f]
    BY <1>1, <1>4
  <2>2. CASE ex[f].action = k
    <3>1. Stationed(ex[f]) /\ ex[f].epoch > 0 /\ ex[f].base.row.epoch = ex[f].epoch
      BY <2>1 DEF Once, Stationed, Handling, InHand, Opening, Left
    <3>2. ex[f].epoch # x.epoch
      BY <1>1, <2>1, <3>1, Columns DEF Once, SessionsDiffer
    <3>3. ex[f].base # checkpoint
      BY <1>8, <3>1, <3>2
    <3>4. ex[f].epoch < lease.epoch
      BY <3>1, <3>3 DEF Once, OwnCheckpoints
    <3>5. ex[f].todo # <<>>
      BY <1>6, <2>1, <2>2, <3>3 DEF Once, ArmedAreCurrent, Armed
    <3>. QED  BY <1>2, <1>3, <2>1, <2>2, <3>4, <3>5
  <2>3. CASE ex[f].action # k
    BY <1>2, <1>3, <2>1, <2>3 DEF Once, DispatchedOnce, IsCommand
  <2>. QED  BY <2>2, <2>3
<1>19. effects' \in [Actions -> Nat] /\ TasksRunOnce'
  BY <1>2 DEF Once, TasksRunOnce, IsTask
<1>. QED
  BY <1>9, <1>10, <1>12, <1>13, <1>16, <1>17, <1>18, <1>19 DEF Once

LEMMA DispatchKeepsOnce ==
    ASSUME Inv, Inv', Once, NEW e \in Executors, Dispatch(e)
    PROVE  Once'
<1>1. PICK x, y, k : x = ex[e] /\ y = ex'[e] /\ k = ex[e].action
  OBVIOUS
<1>2. UNCHANGED <<lease, checkpoint, task, effects>>
  BY DEF Dispatch, outside
<1>3. /\ x \in Memory /\ x.at = "dispatch" /\ Stationed(x) /\ k \in Actions
      /\ k[1] = x.mine.iteration /\ x.at \in Handling
  BY <1>1, Columns DEF Dispatch, At, Once, Placed, Handling, Stationed
<1>4. effects' \in [Actions -> Nat] /\ TasksRunOnce'
  BY <1>2 DEF Once, TasksRunOnce, IsTask
<1>5. CASE Answered(e) /\ UNCHANGED ledger
  BY <1>1, <1>2, <1>3, <1>4, <1>5, AnswersKept, ThinkingKeepsOnce
  DEF Opening, Left, Settling, Commands
<1>6. CASE /\ ledger[k] \in {"prepared", "dispatched"}
           /\ ledger' = [ledger EXCEPT ![k] = "dispatched"]
           /\ GoesOn(e, "carry_out", <<>>)
  <2>1. CASE IsCommand(k)
    BY <1>1, <1>6, <2>1, DispatchingKeepsOnce
  <2>2. CASE ~IsCommand(k)
    <3>1. /\ y.at = "carry_out" /\ y.todo = <<>> /\ y.base = x.base
          /\ y.epoch = x.epoch /\ y.mine = x.mine /\ y.action = k
          /\ \A f \in Executors : f # e => ex'[f] = ex[f]
      BY <1>1, <1>3, <1>6 DEF GoesOn, Goes, Becomes, Inv, Memory
    <3>2. y.at \in Handling /\ y.at # "started" /\ ~Commands(y)
      BY <2>2, <3>1 DEF Handling, Commands
    <3>3. Stationed(y)
      BY <1>3, <3>1, <3>2, HandKept
    <3>4. \A j \in Actions : IsCommand(j) => effects'[j] = effects[j] /\ ledger'[j] = ledger[j]
      BY <1>2, <1>6, <2>2 DEF Inv, Typed
    <3>. QED
      BY <1>1, <1>2, <1>3, <1>4, <3>1, <3>2, <3>3, <3>4, OnwardKeepsOnce
      DEF Opening, Left, Settling
  <2>. QED  BY <2>1, <2>2
<1>. QED  BY <1>1, <1>5, <1>6 DEF Dispatch

(* A command is carried out by the one executor that dispatched it.        *)
LEMMA RunToolKeepsOnce ==
    ASSUME Inv, Inv', Once, NEW e \in Executors, RunTool(e)
    PROVE  Once'
<1>1. PICK x, y, k : x = ex[e] /\ y = ex'[e] /\ k = ex[e].action
  OBVIOUS
<1>2. UNCHANGED <<lease, checkpoint, ledger, task>>
  BY DEF RunTool
<1>3. /\ x \in Memory /\ x.at = "carry_out" /\ Stationed(x) /\ k \in Actions
      /\ k[1] = x.mine.iteration /\ x.at \in Handling
  BY <1>1, Columns DEF RunTool, At, Once, Placed, Handling, Stationed
<1>4. /\ y.at = "returning" /\ y.todo = <<>> /\ y.base = x.base /\ y.epoch = x.epoch
      /\ y.mine = x.mine /\ y.action = k /\ \A f \in Executors : f # e => ex'[f] = ex[f]
  BY <1>1, <1>3 DEF RunTool, GoesOn, Goes, Becomes, Inv, Memory
<1>5. y.at \in Handling /\ y.at \notin Opening /\ ~Commands(y)
  BY <1>4 DEF Handling, Commands, Opening
<1>6. Stationed(y)
  BY <1>3, <1>4, <1>5, HandKept
<1>7. /\ ~IsTask(k) /\ effects' = [effects EXCEPT ![k] = @ + 1]
      /\ effects' \in [Actions -> Nat] /\ effects'[k] = effects[k] + 1
      /\ \A j \in Actions : j # k => effects'[j] = effects[j]
  BY <1>1, <1>3 DEF RunTool, Once
<1>8. TasksRunOnce'
  BY <1>2, <1>7 DEF Once, TasksRunOnce, IsTask
<1>9. CASE ~IsCommand(k)
  <2>1. \A j \in Actions : IsCommand(j) => effects'[j] = effects[j] /\ ledger'[j] = ledger[j]
    BY <1>2, <1>7, <1>9
  <2>. QED
    BY <1>1, <1>2, <1>3, <1>4, <1>5, <1>6, <1>7, <1>8, <2>1, OnwardKeepsOnce
    DEF Opening, Left, Settling
<1>10. CASE IsCommand(k)
  <2>1. \A f \in Executors : Stationed(ex'[f])
    BY <1>1, <1>4, <1>6 DEF Once
  <2>2. SessionsDiffer' /\ OwnCheckpoints'
    <3>1. \A f \in Executors : /\ ex'[f].at \in Opening => ex[f].at \in Opening
                               /\ ex'[f].epoch = ex[f].epoch /\ ex'[f].base = ex[f].base
      BY <1>1, <1>4, <1>5
    <3>. QED  BY <1>2, <3>1 DEF Once, SessionsDiffer, OwnCheckpoints
  <2>3. ASSUME NEW f \in Executors, Armed(f)'
        PROVE  f # e /\ Armed(f) /\ ex'[f] = ex[f]
    <3>1. ex'[f].at = "dispatch" /\ ex'[f].todo = <<>> /\ IsCommand(ex'[f].action)
          /\ ledger'[ex'[f].action] = "prepared"
      BY <2>3 DEF Armed, IsCommand, IsTask, IsDirect
    <3>2. f # e /\ ex'[f] = ex[f]
      BY <1>1, <1>4, <3>1
    <3>. QED  BY <1>2, <3>1, <3>2 DEF Armed
  <2>4. ArmedAreCurrent'
    BY <1>2, <2>3 DEF Once, ArmedAreCurrent
  <2>5. HeirsAbandon'
    <3>. SUFFICES ASSUME NEW g \in Executors, NEW f \in Executors, Armed(f)',
                         ex'[f].base = ex'[g].base, ex'[g].epoch # ex'[g].base.row.epoch
                  PROVE  \/ ex'[g].at \in Opening \cup {"collect", "collected", "reconcile"}
                         \/ ex'[g].at = "apply" /\ ex'[f].action \in ex'[g].decision.abandon
      BY DEF HeirsAbandon
    <3>1. Armed(f) /\ ex'[f] = ex[f]
      BY <2>3
    <3>2. x.base.row.epoch = x.epoch
      BY <1>3 DEF Stationed, InHand
    <3>3. g # e
      BY <1>1, <1>4, <3>2
    <3>. QED  BY <1>4, <3>1, <3>3 DEF Once, HeirsAbandon
  <2>6. \A f \in Executors, j \in Actions :
           CarriesOut(f, j)' => CarriesOut(f, j) /\ f # e
    BY <1>1, <1>4 DEF CarriesOut
  <2>7. CarriesOut(e, k)
    BY <1>1, <1>3 DEF CarriesOut
  <2>8. effects[k] = 0 /\ (\A f \in Executors : CarriesOut(f, k) => f = e)
        /\ ledger[k] \notin {"none", "prepared"}
    BY <1>3, <1>10, <2>7 DEF Once, CarriedOutOnce, PreparedHasNotRun
  <2>9. PreparedHasNotRun'
    <3>. SUFFICES ASSUME NEW j \in Actions, IsCommand(j), ledger'[j] \in {"none", "prepared"}
                  PROVE  effects'[j] = 0 /\ \A f \in Executors : ~CarriesOut(f, j)'
      BY DEF PreparedHasNotRun, IsCommand, IsTask, IsDirect
    <3>1. j # k
      BY <1>2, <2>8
    <3>. QED  BY <1>2, <1>7, <2>6, <3>1 DEF Once, PreparedHasNotRun
  <2>10. CarriedOutOnce'
    <3>. SUFFICES ASSUME NEW j \in Actions, IsCommand(j)
                  PROVE  /\ effects'[j] <= 1
                         /\ \A f \in Executors : CarriesOut(f, j)' =>
                               effects'[j] = 0
                               /\ \A g \in Executors : CarriesOut(g, j)' => f = g
      BY DEF CarriedOutOnce, IsCommand, IsTask, IsDirect
    <3>1. CASE j = k
      BY <1>7, <2>6, <2>8, <3>1
    <3>2. CASE j # k
      BY <1>7, <2>6, <3>2 DEF Once, CarriedOutOnce
    <3>. QED  BY <3>1, <3>2
  <2>11. DispatchedOnce'
    <3>. SUFFICES ASSUME NEW f \in Executors, ex'[f].at = "dispatch",
                         IsCommand(ex'[f].action)
                  PROVE  \/ ledger'[ex'[f].action] \in {"prepared"} \cup Closed
                         \/ /\ ex'[f].todo # <<>> /\ ex'[f].epoch < lease'.epoch
                            /\ ledger'[ex'[f].action] # "none"
      BY DEF DispatchedOnce, IsCommand, IsTask, IsDirect
    <3>1. f # e /\ ex'[f] = ex[f]
      BY <1>1, <1>4
    <3>. QED  BY <1>2, <3>1 DEF Once, DispatchedOnce
  <2>. QED
    BY <1>7, <1>8, <2>1, <2>2, <2>4, <2>5, <2>9, <2>10, <2>11 DEF Once
<1>. QED  BY <1>9, <1>10

LEMMA ToolReturnsKeepsOnce ==
    ASSUME Inv, Inv', Once, NEW e \in Executors, ToolReturns(e)
    PROVE  Once'
<1>1. PICK x, y : x = ex[e] /\ y = ex'[e]
  OBVIOUS
<1>2. UNCHANGED <<lease, checkpoint, ledger, task, effects>>
  BY DEF ToolReturns
<1>3. /\ x \in Memory /\ x.at = "returning" /\ Stationed(x) /\ x.at \in Handling
      /\ x.action[1] = x.mine.iteration
  BY <1>1, Columns DEF ToolReturns, At, Once, Handling, Stationed
<1>4. CASE Answered(e)
  BY <1>1, <1>2, <1>3, <1>4, AnswersKept, ThinkingKeepsOnce
  DEF Opening, Left, Settling, Commands
<1>5. CASE GoesOn(e, "record", <<"fence">>)
  <2>1. /\ y.at = "record" /\ y.todo = <<"fence">> /\ y.base = x.base /\ y.epoch = x.epoch
        /\ y.mine = x.mine /\ y.action = x.action
        /\ \A f \in Executors : f # e => ex'[f] = ex[f]
    BY <1>1, <1>3, <1>5 DEF GoesOn, Goes, Becomes, Inv, Memory
  <2>2. y.at \in Handling
    BY <2>1 DEF Handling
  <2>3. Stationed(y)
    BY <1>3, <2>1, <2>2, HandKept
  <2>. QED
    BY <1>1, <1>2, <1>3, <2>1, <2>3, ThinkingKeepsOnce
    DEF Opening, Left, Settling, Commands
<1>. QED  BY <1>4, <1>5 DEF ToolReturns

(* The runner recognises the key of a task it has started.                 *)
LEMMA RunTaskKeepsOnce ==
    ASSUME Inv, Inv', Once, NEW e \in Executors, RunTask(e)
    PROVE  Once'
<1>1. PICK x, y, k : x = ex[e] /\ y = ex'[e] /\ k = ex[e].action
  OBVIOUS
<1>2. UNCHANGED <<lease, checkpoint, ledger>>
  BY DEF RunTask
<1>3. /\ x \in Memory /\ x.at = "carry_out" /\ Stationed(x) /\ x.at \in Handling
      /\ x.action[1] = x.mine.iteration /\ k \in Actions /\ IsTask(k)
  BY <1>1, Columns DEF RunTask, At, Once, Placed, Handling, Stationed
<1>4. effects' \in [Actions -> Nat] /\ TasksRunOnce'
      /\ \A j \in Actions : IsCommand(j) => effects'[j] = effects[j]
  <2>1. CASE UNCHANGED <<task, effects>>
    BY <2>1 DEF Once, TasksRunOnce, IsTask
  <2>2. CASE /\ ~Recognised(k)
             /\ task' = [task EXCEPT ![k] = [status |-> "running", runner |-> ProcessOf[e]]]
             /\ effects' = [effects EXCEPT ![k] = @ + 1]
    <3>1. effects' \in [Actions -> Nat] /\ effects'[k] = effects[k] + 1
          /\ \A j \in Actions : j # k => effects'[j] = effects[j] /\ task'[j] = task[j]
      BY <1>3, <2>2 DEF Once, Inv, Typed
    <3>2. task'[k].status = "running" /\ task[k] = NoTask
      BY <1>3, <2>2 DEF Inv, Typed, Recognised
    <3>3. task'[k] # NoTask
      BY <3>2 DEF NoTask
    <3>4. effects[k] = 0
      BY <1>3, <3>2 DEF Once, TasksRunOnce
    <3>5. TasksRunOnce'
      BY <3>1, <3>3, <3>4 DEF Once, TasksRunOnce, IsTask
    <3>6. ~IsCommand(k)
      BY <1>3 DEF IsCommand
    <3>. QED  BY <3>1, <3>5, <3>6
  <2>. QED  BY <1>1, <2>1, <2>2 DEF RunTask
<1>5. CASE Answered(e)
  BY <1>1, <1>2, <1>3, <1>4, <1>5, AnswersKept, OnwardKeepsOnce
  DEF Opening, Left, Settling, Commands
<1>6. ASSUME NEW place \in {"started", "record"}, GoesOn(e, place, <<"fence">>)
      PROVE  Once'
  <2>1. /\ y.at = place /\ y.todo = <<"fence">> /\ y.base = x.base /\ y.epoch = x.epoch
        /\ y.mine = x.mine /\ y.action = k
        /\ \A f \in Executors : f # e => ex'[f] = ex[f]
    BY <1>1, <1>3, <1>6 DEF GoesOn, Goes, Becomes, Inv, Memory
  <2>2. y.at \in Handling
    BY <2>1 DEF Handling
  <2>3. Stationed(y)
    BY <1>1, <1>3, <2>1, <2>2, HandKept
  <2>. QED
    BY <1>1, <1>2, <1>3, <1>4, <2>1, <2>3, OnwardKeepsOnce
    DEF Opening, Left, Settling, Commands
<1>. QED  BY <1>5, <1>6 DEF RunTask

LEMMA RecordStartedKeepsOnce ==
    ASSUME Inv, Inv', Once, NEW e \in Executors, RecordStarted(e)
    PROVE  Once'
<1>1. PICK x, y, k : x = ex[e] /\ y = ex'[e] /\ k = ex[e].action
  OBVIOUS
<1>2. UNCHANGED <<lease, checkpoint, task, effects>>
  BY DEF RecordStarted, outside
<1>3. /\ x \in Memory /\ x.mine \in Row /\ x.at = "started" /\ Stationed(x)
      /\ x.at \in Handling /\ IsTask(k)
  BY <1>1, Columns DEF RecordStarted, At, Once, Handling, Stationed
<1>4. effects' \in [Actions -> Nat] /\ TasksRunOnce'
  BY <1>2 DEF Once, TasksRunOnce, IsTask
<1>5. CASE Answered(e) /\ UNCHANGED ledger
  BY <1>1, <1>2, <1>3, <1>4, <1>5, AnswersKept, ThinkingKeepsOnce
  DEF Opening, Left, Settling, Commands
<1>6. CASE /\ ledger' = [ledger EXCEPT ![k] = "waiting"]
           /\ \E waits : Goes(e, [ex[e] EXCEPT !.action = NoAction, !.pending = waits,
                                               !.mine.waits = waits], "act", <<"save">>)
  <2>1. /\ y.at = "act" /\ y.todo = <<"save">> /\ y.base = x.base /\ y.epoch = x.epoch
        /\ y.mine.iteration = x.mine.iteration
        /\ \A f \in Executors : f # e => ex'[f] = ex[f]
    BY <1>1, <1>3, <1>6 DEF Goes, Becomes, Inv, Memory, Row
  <2>2. Stationed(y)
    BY <1>3, <2>1, HandKept
  <2>3. \A j \in Actions : IsCommand(j) => effects'[j] = effects[j] /\ ledger'[j] = ledger[j]
    BY <1>2, <1>3, <1>6 DEF Inv, Typed, IsCommand
  <2>. QED
    BY <1>1, <1>2, <1>3, <1>4, <2>1, <2>2, <2>3, OnwardKeepsOnce
    DEF Opening, Left, Settling, Commands
<1>. QED  BY <1>1, <1>5, <1>6 DEF RecordStarted

LEMMA RecordResultKeepsOnce ==
    ASSUME Inv, Inv', Once, NEW e \in Executors, RecordResult(e)
    PROVE  Once'
<1>1. PICK x, y, k : x = ex[e] /\ y = ex'[e] /\ k = ex[e].action
  OBVIOUS
<1>2. UNCHANGED <<lease, checkpoint, task, effects>> /\ Answered(e)
  BY DEF RecordResult, outside
<1>3. x.at = "record" /\ x.at \in Handling
  BY <1>1 DEF RecordResult, At, Handling
<1>4. effects' \in [Actions -> Nat] /\ TasksRunOnce'
  BY <1>2 DEF Once, TasksRunOnce, IsTask
<1>5. \A j \in Actions : ledger'[j] = ledger[j] \/ ledger'[j] \in Closed
  BY DEF RecordResult, Inv, Typed
<1>. QED
  BY <1>1, <1>2, <1>3, <1>4, <1>5, AnswersKept, OnwardKeepsOnce
  DEF Opening, Left, Settling, Commands

LEMMA ActionKeepsOnce ==
    ASSUME Inv, Inv', Once, NEW e \in Executors, ActionStep(e)
    PROVE  Once'
  BY NextActionKeepsOnce, PrepareKeepsOnce, DispatchKeepsOnce, RunToolKeepsOnce,
     ToolReturnsKeepsOnce, RunTaskKeepsOnce, RecordStartedKeepsOnce, RecordResultKeepsOnce
  DEF ActionStep

-----------------------------------------------------------------------------
(* The world. *)

LEMMA CancelKeepsOnce ==
    ASSUME Inv, Inv', Once, NEW e \in Executors, Cancel(e)
    PROVE  Once'
<1>1. UNCHANGED <<lease, checkpoint, ledger, task, effects>>
  BY DEF Cancel, outside
<1>. QED  BY <1>1, LeavingKeepsOnce DEF Cancel, Aborts, Left

LEMMA CrashKeepsOnce ==
    ASSUME Inv, Inv', Once, NEW p \in Processes, Crash(p)
    PROVE  Once'
<1>1. UNCHANGED <<lease, checkpoint, ledger, task, effects>>
  BY DEF Crash
<1>2. PICK z : z = [Fresh EXCEPT !.at = "gone"]
  OBVIOUS
<1>3. z.at = "gone" /\ z.base = NoCheckpoint /\ z.epoch = 0
  BY <1>2, Blank DEF Memory
<1>4. \A f \in Executors : ex'[f] \in {ex[f], z}
  BY <1>2 DEF Crash
<1>5. Stationed(z)
  BY <1>3 DEF Stationed, Left, Opening, Settling, Handling
<1>6. \A f \in Executors : Stationed(ex'[f])
  BY <1>4, <1>5 DEF Once
<1>7. SessionsDiffer'
  BY <1>1, <1>3, <1>4 DEF Once, SessionsDiffer, Opening
<1>8. OwnCheckpoints'
  BY <1>1, <1>3, <1>4 DEF Once, OwnCheckpoints
<1>9. \A f \in Executors : Armed(f)' => Armed(f) /\ ex'[f] = ex[f]
  BY <1>1, <1>3, <1>4 DEF Armed, IsCommand, IsTask, IsDirect
<1>10. ArmedAreCurrent'
  BY <1>1, <1>9 DEF Once, ArmedAreCurrent
<1>11. HeirsAbandon'
  <2>. SUFFICES ASSUME NEW g \in Executors, NEW f \in Executors, Armed(f)',
                       ex'[f].base = ex'[g].base, ex'[g].epoch # ex'[g].base.row.epoch
                PROVE  \/ ex'[g].at \in Opening \cup {"collect", "collected", "reconcile"}
                       \/ ex'[g].at = "apply" /\ ex'[f].action \in ex'[g].decision.abandon
    BY DEF HeirsAbandon
  <2>1. Armed(f) /\ ex'[f] = ex[f] /\ ex[f].base.row.phase = "action_inflight"
    BY <1>9, ArmedInHand
  <2>2. ex'[g] = ex[g]
    BY <1>3, <1>4, <2>1 DEF NoCheckpoint, NoRun
  <2>. QED  BY <2>1, <2>2 DEF Once, HeirsAbandon
<1>12. \A f \in Executors, j \in Actions : CarriesOut(f, j)' => CarriesOut(f, j)
  BY <1>3, <1>4 DEF CarriesOut
<1>13. PreparedHasNotRun' /\ CarriedOutOnce'
  <2>1. PreparedHasNotRun'
    BY <1>1, <1>12 DEF Once, PreparedHasNotRun, IsCommand, IsTask, IsDirect
  <2>2. CarriedOutOnce'
    BY <1>1, <1>12 DEF Once, CarriedOutOnce, IsCommand, IsTask, IsDirect
  <2>. QED  BY <2>1, <2>2
<1>14. DispatchedOnce'
  <2>. SUFFICES ASSUME NEW f \in Executors, ex'[f].at = "dispatch", IsCommand(ex'[f].action)
                PROVE  \/ ledger'[ex'[f].action] \in {"prepared"} \cup Closed
                       \/ /\ ex'[f].todo # <<>> /\ ex'[f].epoch < lease'.epoch
                          /\ ledger'[ex'[f].action] # "none"
    BY DEF DispatchedOnce, IsCommand, IsTask, IsDirect
  <2>1. ex'[f] = ex[f]
    BY <1>3, <1>4
  <2>. QED  BY <1>1, <2>1 DEF Once, DispatchedOnce
<1>15. effects' \in [Actions -> Nat] /\ TasksRunOnce'
  BY <1>1 DEF Once, TasksRunOnce, IsTask
<1>. QED
  BY <1>6, <1>7, <1>8, <1>10, <1>11, <1>13, <1>14, <1>15 DEF Once

LEMMA WorldKeepsOnce ==
    ASSUME Inv, Once,
           \/ \E k \in Actions : TaskFinishes(k)
           \/ Tick
           \/ UNCHANGED vars
    PROVE  Once'
<1>1. UNCHANGED <<lease, checkpoint, ledger, ex, effects>>
  BY DEF TaskFinishes, Tick, vars, outside
<1>2. TasksRunOnce'
  <2>1. CASE UNCHANGED task
    BY <1>1, <2>1 DEF Once, TasksRunOnce, IsTask
  <2>2. ASSUME NEW k \in Actions, TaskFinishes(k)
        PROVE  TasksRunOnce'
    <3>1. /\ task'[k].status = "finished" /\ task[k].status = "running"
          /\ \A j \in Actions : j # k => task'[j] = task[j]
      BY <2>2 DEF TaskFinishes, Inv, Typed
    <3>2. task'[k] # NoTask
      BY <3>1 DEF NoTask
    <3>. QED  BY <1>1, <3>1, <3>2 DEF Once, TasksRunOnce, IsTask
  <2>. QED  BY <2>1, <2>2 DEF Tick, vars, outside
<1>3. \A f \in Executors : Armed(f)' <=> Armed(f)
  BY <1>1 DEF Armed, IsCommand, IsTask, IsDirect
<1>4. SessionsDiffer' /\ OwnCheckpoints' /\ ArmedAreCurrent' /\ HeirsAbandon'
  BY <1>1, <1>3 DEF Once, SessionsDiffer, OwnCheckpoints, ArmedAreCurrent, HeirsAbandon
<1>5. PreparedHasNotRun' /\ CarriedOutOnce' /\ DispatchedOnce'
  BY <1>1 DEF Once, PreparedHasNotRun, CarriedOutOnce, DispatchedOnce, CarriesOut,
              IsCommand, IsTask, IsDirect
<1>. QED  BY <1>1, <1>2, <1>4, <1>5 DEF Once

LEMMA OnceHolds == Init => Once
<1>. SUFFICES ASSUME Init
              PROVE  Once
  OBVIOUS
<1>1. \A e \in Executors : ex[e].at = "new" /\ ex[e].epoch = 0
  BY Blank DEF Init
<1>2. \A e \in Executors : Stationed(ex[e])
  BY <1>1 DEF Stationed, Opening, Left, Settling, Handling
<1>3. SessionsDiffer /\ OwnCheckpoints
  BY <1>1, ExecutorsAssumption
  DEF Init, SessionsDiffer, OwnCheckpoints, RL!MissingLease
<1>4. ArmedAreCurrent /\ HeirsAbandon /\ DispatchedOnce
  BY <1>1 DEF ArmedAreCurrent, HeirsAbandon, DispatchedOnce, Armed
<1>5. PreparedHasNotRun /\ CarriedOutOnce /\ TasksRunOnce
  BY <1>1 DEF Init, PreparedHasNotRun, CarriedOutOnce, TasksRunOnce, CarriesOut
<1>6. effects \in [Actions -> Nat]
  BY DEF Init
<1>. QED  BY <1>2, <1>3, <1>4, <1>5, <1>6 DEF Once

LEMMA NextKeepsOnce == Inv /\ Inv' /\ Once /\ [Next]_vars => Once'
<1>. SUFFICES ASSUME Inv, Inv', Once, [Next]_vars
              PROVE  Once'
  OBVIOUS
<1>1. ASSUME NEW e \in Executors,
             \/ BoundaryStep(e) \/ SessionStep(e) \/ ResumeStep(e)
             \/ LoopStep(e) \/ ActionStep(e) \/ Cancel(e)
      PROVE  Once'
  BY <1>1, BoundaryKeepsOnce, SessionKeepsOnce, ResumeKeepsOnce, LoopKeepsOnce,
     ActionKeepsOnce, CancelKeepsOnce
<1>2. ASSUME NEW p \in Processes, Crash(p)
      PROVE  Once'
  BY <1>2, CrashKeepsOnce
<1>. QED  BY <1>1, <1>2, WorldKeepsOnce DEF Next

(* No action of the ledger is carried out twice, however many executors    *)
(* crash, stall past their lease or resume from a stale snapshot: a        *)
(* command never runs again under its key, and its task is started once.   *)
THEOREM LedgerActionsRunOnce == Spec => []ActionsRunOnce
<1>1. Once => ActionsRunOnce
  BY DEF Once, ActionsRunOnce, CarriedOutOnce, TasksRunOnce, IsCommand
<1>2. Inv /\ [Next]_vars => Inv'
  BY NextKeeps
<1>. QED  BY <1>1, <1>2, InitHolds, OnceHolds, NextKeepsOnce, PTL DEF Spec

-----------------------------------------------------------------------------
(* Commands are accounted for.  While nobody was told how a dispatched     *)
(* command went, the checkpoint is the one in flight that it was           *)
(* dispatched under: its owner is at work on the command, and an heir can  *)
(* only be on its way to find that the run is blocked.                     *)

Untold(k) == IsCommand(k) /\ ledger[k] = "dispatched" /\ k \notin known

(* The executor has found, or is about to find, that the run is blocked.   *)
Blocked(r, k) ==
    \/ r.at \in {"collect", "collected", "reconcile"}
    \/ r.at = "apply" /\ (r.decision.kind = "blocked" \/ k \in r.decision.abandon)
    \/ /\ r.at = "commit" /\ r.pending = {}
       /\ r.todo \in {<<"save", "fence">>, <<"fence">>, <<>>}
    \/ r.at = "close" /\ r.todo \in {<<"save">>, <<>>}

Answers(r, k) ==
    \/ /\ r.epoch = checkpoint.row.epoch
       /\ r.at \in {"carry_out", "returning"} /\ r.action = k
    \/ r.epoch # checkpoint.row.epoch /\ Blocked(r, k)

CommandsAreNoTasks == \A k \in Actions : IsCommand(k) => task[k] = NoTask

RecordsAreTold ==
    \A e \in Executors :
        ex[e].at = "record" /\ IsCommand(ex[e].action) => ex[e].action \in known

FinishesAreTasks == \A e \in Executors : \A k \in ex[e].decision.finish : ~IsCommand(k)

OutcomesAreKnown ==
    \A k \in Actions :
        /\ IsCommand(k) /\ k \notin known
        /\ effects[k] > 0 \/ \E e \in Executors : CarriesOut(e, k)
        => ledger[k] = "dispatched"

UntoldAreInFlight ==
    \A k \in Actions : Untold(k) =>
        checkpoint.row.phase = "action_inflight" /\ checkpoint.row.iteration = k[1]

UntoldAreAnswered ==
    \A k \in Actions, e \in Executors :
        Untold(k) /\ ex[e].base = checkpoint /\ ex[e].at \notin Opening
            => Answers(ex[e], k)

Told ==
    /\ CommandsAreNoTasks /\ RecordsAreTold /\ FinishesAreTasks /\ OutcomesAreKnown
    /\ UntoldAreInFlight /\ UntoldAreAnswered

(* A step that leaves the checkpoint and dispatches no command, closes     *)
(* only what is known, and does not lead the executor away from what is    *)
(* untold.                                                                 *)
LEMMA SteadyKeepsTold ==
    ASSUME Inv, Inv', Told, NEW e \in Executors, NEW y, y = ex'[e],
           \A f \in Executors : f # e => ex'[f] = ex[f],
           checkpoint' = checkpoint, known \subseteq known',
           \A k \in Actions : IsCommand(k) =>
              /\ task'[k] = task[k] /\ effects'[k] = effects[k]
              /\ \/ ledger'[k] = ledger[k]
                 \/ ledger'[k] # "dispatched" /\ (ledger[k] = "dispatched" => k \in known),
           y.at = "record" /\ IsCommand(y.action) => y.action \in known',
           \A k \in y.decision.finish : ~IsCommand(k),
           y.at = "carry_out" /\ IsCommand(y.action)
              => ex[e].at = "carry_out" /\ ex[e].action = y.action,
           \A k \in Actions :
              Untold(k) /\ k \notin known' /\ y.base = checkpoint /\ y.at \notin Opening
                 => Answers(y, k)
    PROVE  Told'
<1>1. \A k : IsCommand(k)' <=> IsCommand(k)
  BY DEF IsCommand, IsTask, IsDirect
<1>2. \A k \in Actions : Untold(k)' => Untold(k) /\ k \notin known'
  BY <1>1 DEF Untold
<1>3. CommandsAreNoTasks' /\ RecordsAreTold' /\ FinishesAreTasks'
  <2>1. CommandsAreNoTasks'
    BY <1>1 DEF Told, CommandsAreNoTasks
  <2>2. RecordsAreTold'
    BY <1>1 DEF Told, RecordsAreTold
  <2>3. FinishesAreTasks'
    BY <1>1 DEF Told, FinishesAreTasks
  <2>. QED  BY <2>1, <2>2, <2>3
<1>4. OutcomesAreKnown'
  <2>. SUFFICES ASSUME NEW k \in Actions, IsCommand(k), k \notin known',
                       effects'[k] > 0 \/ \E f \in Executors : CarriesOut(f, k)'
                PROVE  ledger'[k] = "dispatched"
    BY <1>1 DEF OutcomesAreKnown
  <2>1. effects[k] > 0 \/ \E f \in Executors : CarriesOut(f, k)
    BY DEF CarriesOut
  <2>2. ledger[k] = "dispatched" /\ k \notin known
    BY <2>1 DEF Told, OutcomesAreKnown
  <2>. QED  BY <2>2
<1>5. UntoldAreInFlight'
  BY <1>2 DEF Told, UntoldAreInFlight
<1>6. UntoldAreAnswered'
  <2>. SUFFICES ASSUME NEW k \in Actions, NEW f \in Executors, Untold(k)',
                       ex'[f].base = checkpoint, ex'[f].at \notin Opening
                PROVE  Answers(ex'[f], k)
    BY DEF UntoldAreAnswered, Answers, Blocked
  <2>1. CASE f = e
    BY <1>2, <2>1
  <2>2. CASE f # e
    BY <1>2, <2>2 DEF Told, UntoldAreAnswered
  <2>. QED  BY <2>1, <2>2
<1>. QED  BY <1>3, <1>4, <1>5, <1>6 DEF Told

(* An executor that is elsewhere knows another checkpoint, or nothing is   *)
(* untold.                                                                 *)
LEMMA ElsewhereKeepsTold ==
    ASSUME Inv, Inv', Told, NEW e \in Executors, NEW y, y = ex'[e],
           \A f \in Executors : f # e => ex'[f] = ex[f],
           checkpoint' = checkpoint, known \subseteq known',
           \A k \in Actions : IsCommand(k) =>
              /\ task'[k] = task[k] /\ effects'[k] = effects[k]
              /\ \/ ledger'[k] = ledger[k]
                 \/ ledger'[k] # "dispatched" /\ (ledger[k] = "dispatched" => k \in known),
           y.at \notin {"record", "carry_out"} \/ ~IsCommand(y.action),
           y.decision = ex[e].decision, y.base = ex[e].base, y.epoch = ex[e].epoch,
           ex[e].at \notin Opening \cup Settling \cup {"commit", "close", "carry_out", "returning"}
    PROVE  Told'
<1>1. \A k \in y.decision.finish : ~IsCommand(k)
  BY DEF Told, FinishesAreTasks
<1>2. ASSUME NEW k \in Actions, Untold(k), y.base = checkpoint
      PROVE  FALSE
  <2>1. Answers(ex[e], k)
    BY <1>2 DEF Told, UntoldAreAnswered
  <2>. QED  BY <2>1 DEF Answers, Blocked, Settling
<1>. QED  BY <1>1, <1>2, SteadyKeepsTold

(* A step of a boundary that writes no checkpoint. *)
LEMMA RestKeepsTold ==
    ASSUME Inv, Inv', Told, NEW e \in Executors, ex[e].todo # <<>>, Becomes(e, Rest(e)),
           UNCHANGED <<checkpoint, ledger, task, effects, known>>
    PROVE  Told'
<1>1. /\ ex'[e] = [ex[e] EXCEPT !.todo = Tail(ex[e].todo)] /\ ex[e] \in Memory
      /\ \A f \in Executors : f # e => ex'[f] = ex[f]
  BY MovedOn
<1>2. PICK x, y : x = ex[e] /\ y = ex'[e]
  OBVIOUS
<1>3. /\ y.at = x.at /\ y.todo = Tail(x.todo) /\ y.base = x.base /\ y.pending = x.pending
      /\ y.epoch = x.epoch /\ y.action = x.action /\ y.decision = x.decision
  BY <1>1, <1>2 DEF Memory
<1>4. \A k \in Actions : Answers(x, k) => Answers(y, k)
  <2>1. x.todo = <<"save", "fence">> => Tail(x.todo) = <<"fence">>
    OBVIOUS
  <2>2. x.todo = <<"fence">> \/ x.todo = <<"save">> => Tail(x.todo) = <<>>
    BY Tails
  <2>3. x.todo # <<>>
    BY <1>2
  <2>. QED  BY <1>3, <2>1, <2>2, <2>3 DEF Answers, Blocked
<1>5. \A k \in Actions : Untold(k) /\ y.base = checkpoint /\ y.at \notin Opening
         => Answers(y, k)
  BY <1>2, <1>3, <1>4 DEF Told, UntoldAreAnswered
<1>6. y.at = "record" /\ IsCommand(y.action) => y.action \in known
  BY <1>2, <1>3 DEF Told, RecordsAreTold
<1>7. \A k \in y.decision.finish : ~IsCommand(k)
  BY <1>2, <1>3 DEF Told, FinishesAreTasks
<1>. QED  BY <1>1, <1>2, <1>3, <1>5, <1>6, <1>7, SteadyKeepsTold

(* An executor that leaves forgets the checkpoint. *)
LEMMA LeavingKeepsTold ==
    ASSUME Inv, Inv', Told, NEW e \in Executors, NEW place \in Left,
           \/ Becomes(e, Leaving(e, place))
           \/ Becomes(e, [Leaving(e, place) EXCEPT !.lost = TRUE])
           \/ Becomes(e, [Fresh EXCEPT !.at = place]),
           UNCHANGED <<checkpoint, ledger, task, effects, known>>
    PROVE  Told'
<1>1. PICK y : ex' = [ex EXCEPT ![e] = y] /\ y.at = place /\ y.base = NoCheckpoint
               /\ y.decision = NoDecision
  <2>1. PICK u : u = Leaving(e, place)
    OBVIOUS
  <2>2. u.at = place /\ u.base = NoCheckpoint /\ u.decision = NoDecision
    BY <2>1 DEF Leaving, Fresh
  <2>3. PICK z : z = [u EXCEPT !.lost = TRUE]
    OBVIOUS
  <2>4. z.at = place /\ z.base = NoCheckpoint /\ z.decision = NoDecision
    BY <2>1, <2>2, <2>3 DEF Leaving, Fresh
  <2>5. PICK w : w = [Fresh EXCEPT !.at = place]
    OBVIOUS
  <2>6. w.at = place /\ w.base = NoCheckpoint /\ w.decision = NoDecision
    BY <2>5 DEF Fresh
  <2>7. ex' \in {[ex EXCEPT ![e] = u], [ex EXCEPT ![e] = z], [ex EXCEPT ![e] = w]}
    BY <2>1, <2>3, <2>5 DEF Becomes
  <2>. QED  BY <2>2, <2>4, <2>6, <2>7
<1>2. ex'[e] = y /\ \A f \in Executors : f # e => ex'[f] = ex[f]
  BY <1>1 DEF Inv
<1>3. \A k \in Actions : Untold(k) => y.base # checkpoint
  BY <1>1 DEF Told, UntoldAreInFlight, NoCheckpoint, NoRun
<1>4. y.at \notin {"record", "carry_out"} /\ \A k \in y.decision.finish : ~IsCommand(k)
  BY <1>1 DEF Left, NoDecision
<1>. QED  BY <1>2, <1>3, <1>4, SteadyKeepsTold

(* Whoever could replace the checkpoint would have it read or written, and *)
(* would not get as far while a command is untold.                         *)
LEMMA WritersFindNothing ==
    ASSUME Inv, Once, Told, NEW e \in Executors, ex[e].todo # <<>>,
           Head(ex[e].todo) \in {"checkpoint", "reconciled"}, ex[e].base = checkpoint,
           NEW k \in Actions, Untold(k)
    PROVE  FALSE
<1>1. PICK x : x = ex[e]
  OBVIOUS
<1>2. x.at \notin Opening /\ Stationed(x)
  BY <1>1, Columns DEF Placed, Once
<1>3. Answers(x, k)
  BY <1>1, <1>2 DEF Told, UntoldAreAnswered
<1>4. x.at \notin Settling \cup Handling
  BY <1>1, <1>2 DEF Stationed
<1>5. x.at \in {"commit", "close"} /\ x.todo \in {<<"save", "fence">>, <<"fence">>, <<"save">>}
  BY <1>1, <1>3, <1>4 DEF Answers, Blocked, Settling, Handling
<1>. QED  BY <1>1, <1>5

LEMMA BoundaryKeepsTold ==
    ASSUME Inv, Inv', Once, Told, NEW e \in Executors, BoundaryStep(e)
    PROVE  Told'
<1>1. UNCHANGED <<ledger, task, effects, known>>
  BY DEF BoundaryStep, Fence, SaveRun, SaveCheckpoint, MarkAdmitted, outside
<1>2. CASE LosesLease(e) /\ UNCHANGED checkpoint
  BY <1>1, <1>2, LeavingKeepsTold DEF LosesLease, Left
<1>3. CASE Fence(e) \/ SaveRun(e) \/ MarkAdmitted(e)
  <2>1. UNCHANGED checkpoint /\ ex[e].todo # <<>>
    BY <1>3 DEF Fence, SaveRun, MarkAdmitted, outside, Due
  <2>2. LosesLease(e) \/ Becomes(e, Rest(e))
    BY <1>3 DEF Fence, SaveRun, MarkAdmitted
  <2>. QED  BY <1>1, <1>2, <2>1, <2>2, RestKeepsTold
<1>4. CASE SaveCheckpoint(e)
  <2>1. PICK x, y : x = ex[e] /\ y = ex'[e]
    OBVIOUS
  <2>2. x \in Memory /\ x.todo # <<>> /\ Head(x.todo) \in {"checkpoint", "reconciled"}
        /\ x.at \notin Opening
    BY <1>4, <2>1, Columns DEF SaveCheckpoint, Due, Placed
  <2>3. CASE Goes(e, Mine(e, "blocked", "checkpoint_error"), "close", <<"save">>)
             /\ UNCHANGED checkpoint
    <3>1. y.at = "close" /\ y.base = x.base /\ y.epoch = x.epoch /\ y.decision = x.decision
          /\ \A f \in Executors : f # e => ex'[f] = ex[f]
      BY <2>1, <2>3, Columns DEF Goes, Becomes, Inv, Memory, Row, Mine
    <3>2. \A k \in Actions : Untold(k) => y.base # checkpoint
      BY <2>1, <2>2, <3>1, WritersFindNothing
    <3>3. \A k \in y.decision.finish : ~IsCommand(k)
      BY <2>1, <3>1 DEF Told, FinishesAreTasks
    <3>. QED  BY <1>1, <2>1, <2>3, <3>1, <3>2, <3>3, SteadyKeepsTold
  <2>4. ASSUME NEW new, new = [seq |-> ex[e].base.seq + 1,
                               row |-> [ex[e].mine EXCEPT !.epoch = ex[e].epoch]],
               Admits(new.seq), checkpoint' = new, Becomes(e, [Rest(e) EXCEPT !.base = new])
        PROVE  Told'
    <3>1. x.base = checkpoint
      BY <2>1, <2>4, Columns DEF Follows, Admits
    <3>2. \A k \in Actions : ~Untold(k)
      BY <2>1, <2>2, <3>1, WritersFindNothing
    <3>3. \A k \in Actions : ~Untold(k)'
      BY <1>1, <3>2 DEF Untold, IsCommand, IsTask, IsDirect
    <3>4. UntoldAreInFlight' /\ UntoldAreAnswered'
      BY <3>3 DEF UntoldAreInFlight, UntoldAreAnswered
    <3>5. y.at = x.at /\ y.action = x.action /\ y.decision = x.decision
          /\ \A f \in Executors : f # e => ex'[f] = ex[f]
      BY <2>1, <2>2, <2>4 DEF Rest, Becomes, Inv, Memory
    <3>6. \A f \in Executors : ex'[f].at = ex[f].at /\ ex'[f].action = ex[f].action
                               /\ ex'[f].decision = ex[f].decision
      BY <2>1, <3>5
    <3>7. CommandsAreNoTasks' /\ RecordsAreTold' /\ FinishesAreTasks'
      BY <1>1, <3>6 DEF Told, CommandsAreNoTasks, RecordsAreTold, FinishesAreTasks,
                        IsCommand, IsTask, IsDirect
    <3>8. OutcomesAreKnown'
      BY <1>1, <3>6 DEF Told, OutcomesAreKnown, CarriesOut, IsCommand, IsTask, IsDirect
    <3>. QED  BY <3>4, <3>7, <3>8 DEF Told
  <2>. QED  BY <1>2, <1>4, <2>3, <2>4 DEF SaveCheckpoint
<1>. QED  BY <1>3, <1>4 DEF BoundaryStep

(* An executor that has no lease yet, or has just opened one.              *)
LEMMA SessionKeepsTold ==
    ASSUME Inv, Inv', Once, Told, NEW e \in Executors, SessionStep(e)
    PROVE  Told'
<1>1. PICK x, y : x = ex[e] /\ y = ex'[e]
  OBVIOUS
<1>2. UNCHANGED <<checkpoint, ledger, task, effects, known>>
  BY DEF SessionStep, Start, ReadRun, ReadCheckpoint, OpenLease, Renew, Close, Settle,
         outside
<1>3. x \in Memory /\ (x.at = "new" => x.base = NoCheckpoint)
      /\ \A k \in x.decision.finish : ~IsCommand(k)
  BY <1>1, Columns DEF Placed, Told, FinishesAreTasks
<1>4. \A k \in Actions : Untold(k) => NoCheckpoint # checkpoint
  BY DEF Told, UntoldAreInFlight, NoCheckpoint, NoRun
<1>5. ASSUME y.at \in Opening \/ y.base = NoCheckpoint,
             y.at \notin {"record", "carry_out"}, y.decision = x.decision,
             \A f \in Executors : f # e => ex'[f] = ex[f]
      PROVE  Told'
  BY <1>1, <1>2, <1>3, <1>4, <1>5, SteadyKeepsTold
<1>6. CASE Start(e)
  <2>1. PICK m : m = Mine(e, "running", "safe")
    OBVIOUS
  <2>2. m \in Memory /\ m.base = x.base /\ m.decision = x.decision
    BY <1>1, <1>3, <2>1, MineTyped, ZenonT(60) DEF Mine, Memory
  <2>3. Goes(e, [m EXCEPT !.epoch = lease'.epoch], "parse", <<"fence", "save">>)
    BY <1>6, <2>1 DEF Start
  <2>4. y = [[m EXCEPT !.epoch = lease'.epoch]
                EXCEPT !.at = "parse", !.todo = <<"fence", "save">>]
        /\ \A f \in Executors : f # e => ex'[f] = ex[f]
    BY <1>1, <2>3 DEF Goes, Becomes, Inv
  <2>5. y.at = "parse" /\ y.base = x.base /\ y.decision = x.decision
    BY <2>2, <2>4 DEF Memory
  <2>6. x.at = "new"
    BY <1>1, <1>6 DEF Start, At
  <2>. QED  BY <1>3, <1>5, <2>4, <2>5, <2>6
<1>7. CASE ReadRun(e)
  <2>1. x.at = "new"
    BY <1>1, <1>7 DEF ReadRun, At
  <2>2. CASE Goes(e, [ex[e] EXCEPT !.mine = run, !.pending = run.waits],
                  "read_checkpoint", <<>>)
    <3>1. y.at = "read_checkpoint" /\ y.decision = x.decision
          /\ \A f \in Executors : f # e => ex'[f] = ex[f]
      BY <1>1, <1>3, <2>2 DEF Goes, Becomes, Inv, Memory
    <3>. QED  BY <1>5, <3>1 DEF Opening
  <2>3. CASE GoesOn(e, "done", <<>>)
    <3>1. y.at = "done" /\ y.decision = x.decision /\ y.base = x.base
          /\ \A f \in Executors : f # e => ex'[f] = ex[f]
      BY <1>1, <1>3, <2>3 DEF GoesOn, Goes, Becomes, Inv, Memory
    <3>. QED  BY <1>3, <1>5, <2>1, <3>1
  <2>. QED  BY <1>7, <2>2, <2>3 DEF ReadRun
<1>8. CASE ReadCheckpoint(e)
  <2>1. CASE Becomes(e, Leaving(e, "settle"))
    BY <1>2, <2>1, LeavingKeepsTold DEF Left
  <2>2. CASE Goes(e, [ex[e] EXCEPT !.base = checkpoint], "open", <<>>)
    <3>1. y.at = "open" /\ y.decision = x.decision
          /\ \A f \in Executors : f # e => ex'[f] = ex[f]
      BY <1>1, <1>3, <2>2 DEF Goes, Becomes, Inv, Memory
    <3>. QED  BY <1>5, <3>1 DEF Opening
  <2>. QED  BY <1>8, <2>1, <2>2 DEF ReadCheckpoint
<1>9. CASE OpenLease(e)
  <2>1. CASE Becomes(e, Leaving(e, "settle"))
    BY <1>2, <2>1, LeavingKeepsTold DEF Left
  <2>2. CASE RL!Acquire(e, now)
             /\ Goes(e, [ex[e] EXCEPT !.epoch = lease'.epoch], "collect", <<"fence">>)
    <3>1. /\ y.at = "collect" /\ y.decision = x.decision /\ y.epoch = lease'.epoch
          /\ \A f \in Executors : f # e => ex'[f] = ex[f]
      BY <1>1, <1>3, <2>2 DEF Goes, Becomes, Inv, Memory
    <3>2. lease'.epoch = lease.epoch + 1
      BY <1>9, <2>2 DEF OpenLease, At, Opening, Once, SessionsDiffer, RL!Acquire,
                        RL!AcquiredLease, RL!LiveFor
    <3>3. y.epoch # checkpoint.row.epoch
      BY <3>1, <3>2, Columns DEF Inv
    <3>4. \A k \in Actions : Answers(y, k)
      BY <3>1, <3>3 DEF Answers, Blocked
    <3>. QED  BY <1>1, <1>2, <1>3, <3>1, <3>4, SteadyKeepsTold
  <2>. QED  BY <1>9, <2>1, <2>2 DEF OpenLease
<1>10. CASE Renew(e)
  <2>1. /\ y.at = x.at /\ y.todo = x.todo /\ y.base = x.base /\ y.pending = x.pending
        /\ y.epoch = x.epoch /\ y.action = x.action /\ y.decision = x.decision
        /\ \A f \in Executors : f # e => ex'[f] = ex[f]
    BY <1>1, <1>3, <1>10 DEF Renew, Becomes, Inv, Memory
  <2>2. \A k \in Actions : Untold(k) /\ y.base = checkpoint /\ y.at \notin Opening
           => Answers(y, k)
    BY <1>1, <2>1, ZenonT(60) DEF Told, UntoldAreAnswered, Answers, Blocked
  <2>3. y.at = "record" /\ IsCommand(y.action) => y.action \in known
    BY <1>1, <2>1 DEF Told, RecordsAreTold
  <2>. QED  BY <1>1, <1>2, <1>3, <2>1, <2>2, <2>3, SteadyKeepsTold
<1>11. CASE Close(e)
  <2>1. PICK place : /\ place = IF attempt[e] = "none" THEN "done" ELSE "settle"
                     /\ place \in Left /\ Becomes(e, [Fresh EXCEPT !.at = place])
    BY <1>11 DEF Close, Left
  <2>. QED  BY <1>2, <2>1, LeavingKeepsTold
<1>12. CASE Settle(e)
  <2>1. /\ y.at = "done" /\ y.decision = x.decision /\ y.base = x.base
        /\ y.epoch = x.epoch /\ x.at = "settle"
        /\ \A f \in Executors : f # e => ex'[f] = ex[f]
    BY <1>1, <1>3, <1>12 DEF Settle, At, GoesOn, Goes, Becomes, Inv, Memory
  <2>. QED  BY <1>1, <1>2, <2>1, ElsewhereKeepsTold DEF Opening, Settling
<1>. QED
  BY <1>6, <1>7, <1>8, <1>9, <1>10, <1>11, <1>12 DEF SessionStep

LEMMA CollectKeepsTold ==
    ASSUME Inv, Inv', Once, Told, NEW e \in Executors, Collect(e)
    PROVE  Told'
<1>1. PICK x, y : x = ex[e] /\ y = ex'[e]
  OBVIOUS
<1>2. UNCHANGED <<checkpoint, ledger, task, effects, known>>
  BY DEF Collect, outside
<1>3. PICK place, steps :
         /\ GoesOn(e, place, steps)
         /\ \/ x.at = "collect" /\ place = "collected"
            \/ x.at = "iterate" /\ place = "gathered"
  <2>1. PICK next : next = IF ex[e].at = "collect" THEN "collected" ELSE "gathered"
    OBVIOUS
  <2>2. \E steps : GoesOn(e, next, steps)
    BY <2>1 DEF Collect
  <2>3. x.at \in {"collect", "iterate"}
    BY <1>1 DEF Collect, At
  <2>. QED  BY <1>1, <2>1, <2>2, <2>3
<1>4. /\ y.at = place /\ y.base = x.base /\ y.epoch = x.epoch /\ y.decision = x.decision
      /\ \A f \in Executors : f # e => ex'[f] = ex[f]
  BY <1>1, <1>3, Columns DEF GoesOn, Goes, Becomes, Inv, Memory
<1>5. CASE x.at = "iterate"
  BY <1>1, <1>2, <1>3, <1>4, <1>5, ElsewhereKeepsTold DEF Opening, Settling
<1>6. CASE x.at = "collect"
  <2>1. \A k \in Actions : Untold(k) /\ y.base = checkpoint => Answers(y, k)
    BY <1>1, <1>3, <1>4, <1>6 DEF Told, UntoldAreAnswered, Opening, Answers, Blocked
  <2>2. \A k \in y.decision.finish : ~IsCommand(k)
    BY <1>1, <1>4 DEF Told, FinishesAreTasks
  <2>. QED  BY <1>1, <1>2, <1>3, <1>4, <1>6, <2>1, <2>2, SteadyKeepsTold
<1>. QED  BY <1>3, <1>5, <1>6

LEMMA RecordCollectedKeepsTold ==
    ASSUME Inv, Inv', Once, Told, NEW e \in Executors, RecordCollected(e)
    PROVE  Told'
<1>1. PICK x, y : x = ex[e] /\ y = ex'[e]
  OBVIOUS
<1>2. UNCHANGED <<checkpoint, task, effects>> /\ known \subseteq known'
  BY DEF RecordCollected, outside
<1>3. PICK waits, mine :
         /\ mine = x \/ mine = Mine(e, "running", "safe")
         /\ Goes(e, [mine EXCEPT !.mine.waits = waits, !.pending = waits],
                 IF x.at = "collected" THEN "reconcile" ELSE "begin", <<"fence", "save">>)
  BY <1>1 DEF RecordCollected
<1>4. x \in Memory /\ mine \in Memory /\ mine.base = x.base /\ mine.epoch = x.epoch
      /\ mine.decision = x.decision
  <2>1. x \in Memory
    BY <1>1, Columns
  <2>2. CASE mine = Mine(e, "running", "safe")
    <3>1. mine \in Memory /\ mine.base = x.base /\ mine.epoch = x.epoch
      BY <1>1, <2>2, MineTyped
    <3>2. mine.decision = x.decision
      BY <1>1, <2>1, <2>2 DEF Mine, Memory
    <3>. QED  BY <2>1, <3>1, <3>2
  <2>. QED  BY <1>3, <2>1, <2>2
<1>5. /\ y.at = (IF x.at = "collected" THEN "reconcile" ELSE "begin")
      /\ y.base = x.base /\ y.epoch = x.epoch /\ y.decision = x.decision
      /\ \A f \in Executors : f # e => ex'[f] = ex[f]
  BY <1>1, <1>3, <1>4 DEF Goes, Becomes, Inv, Memory
<1>6. x.at \in {"collected", "gathered"}
  BY <1>1 DEF RecordCollected, At
<1>7. \A k \in Actions : IsCommand(k) =>
         task'[k] = task[k] /\ effects'[k] = effects[k] /\ ledger'[k] = ledger[k]
  <2>. SUFFICES ASSUME NEW k \in Actions, IsCommand(k)
                PROVE  ledger'[k] = ledger[k]
    BY <1>2
  <2>1. k \notin Finished(ex[e].pending)
    BY DEF Told, CommandsAreNoTasks, Finished, NoTask
  <2>. QED  BY <2>1 DEF RecordCollected
<1>8. CASE x.at = "gathered"
  BY <1>1, <1>2, <1>5, <1>7, <1>8, ElsewhereKeepsTold DEF Opening, Settling
<1>9. CASE x.at = "collected"
  <2>1. \A k \in Actions : Untold(k) /\ y.base = checkpoint => Answers(y, k)
    BY <1>1, <1>5, <1>9 DEF Told, UntoldAreAnswered, Opening, Answers, Blocked
  <2>2. \A k \in y.decision.finish : ~IsCommand(k)
    BY <1>1, <1>5 DEF Told, FinishesAreTasks
  <2>. QED  BY <1>1, <1>2, <1>5, <1>7, <1>9, <2>1, <2>2, SteadyKeepsTold
<1>. QED  BY <1>6, <1>8, <1>9

(* An untold command is dispatched, and no task: the run is blocked.       *)
LEMMA ReconcileKeepsTold ==
    ASSUME Inv, Inv', Once, Told, NEW e \in Executors, Reconcile(e)
    PROVE  Told'
<1>1. PICK x, y : x = ex[e] /\ y = ex'[e]
  OBVIOUS
<1>2. UNCHANGED <<checkpoint, ledger, task, effects, known>>
  BY DEF Reconcile, outside
<1>3. x.at \in {"reconcile", "collect"}
  BY <1>1 DEF Reconcile, At
<1>4. CASE ~(InFlight(e) /\ x.base # NoCheckpoint) /\ GoesOn(e, "commit", <<"fence">>)
  <2>1. y.at = "commit" /\ y.base = x.base /\ y.decision = x.decision
        /\ \A f \in Executors : f # e => ex'[f] = ex[f]
    BY <1>1, <1>4, Columns DEF GoesOn, Goes, Becomes, Inv, Memory
  <2>2. x.base.row.phase # "action_inflight"
    BY <1>1, <1>4 DEF InFlight, NoCheckpoint, NoRun
  <2>3. \A k \in Actions : Untold(k) => y.base # checkpoint
    BY <2>1, <2>2 DEF Told, UntoldAreInFlight
  <2>4. \A k \in y.decision.finish : ~IsCommand(k)
    BY <1>1, <2>1 DEF Told, FinishesAreTasks
  <2>. QED  BY <1>1, <1>2, <2>1, <2>3, <2>4, SteadyKeepsTold
<1>5. CASE Goes(e, [ex[e] EXCEPT !.decision = ReconcileDecision(e)], "apply", <<"fence">>)
  <2>1. PICK d : d = ReconcileDecision(e)
    OBVIOUS
  <2>2. /\ y.at = "apply" /\ y.base = x.base /\ y.epoch = x.epoch /\ y.decision = d
        /\ \A f \in Executors : f # e => ex'[f] = ex[f]
    BY <1>1, <1>5, <2>1, Columns DEF Goes, Becomes, Inv, Memory
  <2>3. \A k \in y.decision.finish : ~IsCommand(k)
    <3>1. \A k \in y.decision.finish : k \in Actions /\ task[k].status = "finished"
      BY <2>1, <2>2 DEF ReconcileDecision, Finished, Recorded
    <3>. QED  BY <3>1 DEF Told, CommandsAreNoTasks, NoTask
  <2>4. ASSUME NEW k \in Actions, Untold(k), y.base = checkpoint
        PROVE  Answers(y, k)
    <3>1. Answers(x, k)
      BY <1>1, <1>3, <2>2, <2>4 DEF Told, UntoldAreAnswered, Opening
    <3>2. y.epoch # checkpoint.row.epoch
      BY <1>3, <2>2, <3>1 DEF Answers
    <3>3. task[k] = NoTask /\ ledger[k] = "dispatched"
      BY <2>4 DEF Untold, Told, CommandsAreNoTasks
    <3>4. k \in Recorded(e)
      BY <1>1, <2>2, <2>4, <3>3 DEF Told, UntoldAreInFlight, Recorded
    <3>5. Ambiguous(e, k)
      BY <3>3 DEF Ambiguous, Managed, NoTask
    <3>6. d.kind = "blocked"
      BY <2>1, <3>3, <3>4, <3>5 DEF ReconcileDecision
    <3>. QED  BY <2>2, <3>2, <3>6 DEF Answers, Blocked
  <2>. QED  BY <1>1, <1>2, <2>2, <2>3, <2>4, SteadyKeepsTold
<1>. QED  BY <1>1, <1>4, <1>5 DEF Reconcile

LEMMA ApplyReconcileKeepsTold ==
    ASSUME Inv, Inv', Once, Told, NEW e \in Executors, ApplyReconcile(e)
    PROVE  Told'
<1>1. PICK x, y, d : x = ex[e] /\ y = ex'[e] /\ d = ex[e].decision
  OBVIOUS
<1>2. UNCHANGED <<checkpoint, task, effects>> /\ x.at = "apply"
  BY <1>1 DEF ApplyReconcile, outside, At
<1>3. CASE Aborts(e) /\ UNCHANGED <<ledger, known>>
  BY <1>2, <1>3, LeavingKeepsTold DEF Aborts, Left
<1>4. PICK settled : settled = [ex[e] EXCEPT !.decision = NoDecision, !.mine.waits = d.waits,
                                             !.pending = d.waits]
  OBVIOUS
<1>5. /\ settled.base = x.base /\ settled.epoch = x.epoch /\ settled.decision = NoDecision
      /\ {"at", "todo", "base", "epoch", "mine", "pending", "decision"} \subseteq DOMAIN settled
  BY <1>1, <1>4, Columns DEF Memory
<1>6. CASE /\ ~Refused(d) /\ known' = known \cup d.finish
           /\ ledger' = [k \in Actions |->
                            IF k \in d.abandon THEN "failed"
                            ELSE IF k \in d.finish THEN "succeeded" ELSE ledger[k]]
           /\ y.at = "commit" /\ y.base = x.base /\ y.epoch = x.epoch
           /\ y.decision = NoDecision
           /\ d.kind = "blocked" => y.pending = {} /\ y.todo = <<"save", "fence">>
           /\ \A f \in Executors : f # e => ex'[f] = ex[f]
  <2>1. \A k \in d.finish : ~IsCommand(k)
    BY <1>1 DEF Told, FinishesAreTasks
  <2>2. \A k \in d.abandon : ledger[k] # "dispatched"
    BY <1>6 DEF Refused
  <2>3. \A k \in Actions : IsCommand(k) =>
           /\ task'[k] = task[k] /\ effects'[k] = effects[k]
           /\ \/ ledger'[k] = ledger[k]
              \/ ledger'[k] # "dispatched" /\ (ledger[k] = "dispatched" => k \in known)
    BY <1>2, <1>6, <2>1, <2>2
  <2>4. ASSUME NEW k \in Actions, Untold(k), y.base = checkpoint
        PROVE  Answers(y, k)
    <3>1. Answers(x, k)
      BY <1>1, <1>2, <1>6, <2>4 DEF Told, UntoldAreAnswered, Opening
    <3>2. y.epoch # checkpoint.row.epoch /\ (d.kind = "blocked" \/ k \in d.abandon)
      BY <1>1, <1>2, <1>6, <3>1 DEF Answers, Blocked
    <3>3. k \notin d.abandon
      BY <2>2, <2>4 DEF Untold
    <3>. QED  BY <1>6, <3>2, <3>3 DEF Answers, Blocked
  <2>5. \A k \in y.decision.finish : ~IsCommand(k)
    BY <1>6 DEF NoDecision
  <2>. QED  BY <1>1, <1>2, <1>6, <2>3, <2>4, <2>5, SteadyKeepsTold
<1>7. CASE ~Refused(d)
  <2>1. /\ known' = known \cup d.finish
        /\ ledger' = [k \in Actions |->
                         IF k \in d.abandon THEN "failed"
                         ELSE IF k \in d.finish THEN "succeeded" ELSE ledger[k]]
    BY <1>1, <1>7 DEF ApplyReconcile
  <2>2. CASE Goes(e, [settled EXCEPT !.mine.waits = {}, !.pending = {}],
                  "commit", <<"save", "fence">>)
    BY <1>1, <1>5, <1>6, <1>7, <2>1, <2>2 DEF Goes, Becomes, Inv
  <2>3. CASE /\ d.kind = "waiting"
             /\ Goes(e, [settled EXCEPT !.mine.status = "waiting", !.mine.phase = "safe"],
                     "commit", <<"save", "fence">>)
    BY <1>1, <1>5, <1>6, <1>7, <2>1, <2>3 DEF Goes, Becomes, Inv
  <2>4. CASE /\ d.kind = "continue"
             /\ Goes(e, [settled EXCEPT !.mine.status = "running", !.mine.phase = "safe",
                                        !.pending = ex[e].pending],
                     "commit", <<"save", "reconciled", "fence">>)
    BY <1>1, <1>5, <1>6, <1>7, <2>1, <2>4 DEF Goes, Becomes, Inv
  <2>. QED  BY <1>1, <1>4, <1>7, <2>2, <2>3, <2>4 DEF ApplyReconcile
<1>. QED  BY <1>1, <1>3, <1>7 DEF ApplyReconcile

(* A resume that has found an untold command is refused.                   *)
LEMMA CommitResumeKeepsTold ==
    ASSUME Inv, Inv', Once, Told, NEW e \in Executors, CommitResume(e)
    PROVE  Told'
<1>1. PICK x, y : x = ex[e] /\ y = ex'[e]
  OBVIOUS
<1>2. UNCHANGED <<checkpoint, ledger, task, effects, known>> /\ x.at = "commit"
  BY <1>1 DEF CommitResume, At, outside
<1>3. x \in Memory /\ \A k \in x.decision.finish : ~IsCommand(k)
  BY <1>1, Columns DEF Told, FinishesAreTasks
<1>4. ASSUME NEW k \in Actions, Untold(k), x.base = checkpoint
      PROVE  x.epoch # checkpoint.row.epoch /\ x.pending = {} /\ ResumeBlocked(e)
  <2>1. Answers(x, k)
    BY <1>1, <1>2, <1>4 DEF Told, UntoldAreAnswered, Opening
  <2>2. InFlight(e)
    BY <1>1, <1>4 DEF Told, UntoldAreInFlight, InFlight
  <2>. QED  BY <1>2, <2>1, <2>2 DEF Answers, Blocked, ResumeBlocked
<1>5. CASE /\ x.pending # {}
           /\ Goes(e, [Mine(e, "waiting", "safe") EXCEPT !.mine.waits = ex[e].pending],
                   "close", <<"save", "reconciled", "save">>)
  <2>1. PICK m : m = Mine(e, "waiting", "safe")
    OBVIOUS
  <2>2. m \in Memory /\ m.base = x.base /\ m.epoch = x.epoch /\ m.decision = x.decision
    BY <1>1, <1>3, <2>1, MineTyped, ZenonT(60) DEF Mine, Memory
  <2>3. y.at = "close" /\ y.base = x.base /\ y.decision = x.decision
        /\ \A f \in Executors : f # e => ex'[f] = ex[f]
    BY <1>1, <1>5, <2>1, <2>2 DEF Goes, Becomes, Inv, Memory
  <2>. QED  BY <1>1, <1>2, <1>3, <1>4, <1>5, <2>3, SteadyKeepsTold
<1>6. CASE Goes(e, Mine(e, "blocked", "safe"), "close", <<"save">>)
  <2>1. PICK m : m = Mine(e, "blocked", "safe")
    OBVIOUS
  <2>2. m \in Memory /\ m.base = x.base /\ m.epoch = x.epoch /\ m.decision = x.decision
    BY <1>1, <1>3, <2>1, MineTyped, ZenonT(60) DEF Mine, Memory
  <2>3. y.at = "close" /\ y.todo = <<"save">> /\ y.base = x.base /\ y.epoch = x.epoch
        /\ y.decision = x.decision /\ \A f \in Executors : f # e => ex'[f] = ex[f]
    BY <1>1, <1>6, <2>1, <2>2 DEF Goes, Becomes, Inv, Memory
  <2>4. \A k \in Actions : Untold(k) /\ y.base = checkpoint => Answers(y, k)
    BY <1>4, <2>3 DEF Answers, Blocked
  <2>. QED  BY <1>1, <1>2, <1>3, <2>3, <2>4, SteadyKeepsTold
<1>7. CASE /\ ~ResumeBlocked(e)
           /\ Goes(e, Mine(e, "running", "safe"), "iterate",
                   <<"save", "checkpoint", "admit", "fence", "save", "checkpoint", "fence">>)
  <2>1. PICK m : m = Mine(e, "running", "safe")
    OBVIOUS
  <2>2. m \in Memory /\ m.base = x.base /\ m.epoch = x.epoch /\ m.decision = x.decision
    BY <1>1, <1>3, <2>1, MineTyped, ZenonT(60) DEF Mine, Memory
  <2>3. y.at = "iterate" /\ y.base = x.base /\ y.decision = x.decision
        /\ \A f \in Executors : f # e => ex'[f] = ex[f]
    BY <1>1, <1>7, <2>1, <2>2 DEF Goes, Becomes, Inv, Memory
  <2>. QED  BY <1>1, <1>2, <1>3, <1>4, <1>7, <2>3, SteadyKeepsTold
<1>. QED  BY <1>1, <1>5, <1>6, <1>7 DEF CommitResume

LEMMA ResumeKeepsTold ==
    ASSUME Inv, Inv', Once, Told, NEW e \in Executors, ResumeStep(e)
    PROVE  Told'
  BY CollectKeepsTold, RecordCollectedKeepsTold, ReconcileKeepsTold,
     ApplyReconcileKeepsTold, CommitResumeKeepsTold
  DEF ResumeStep

(* The loop. *)

LEMMA LoopKeepsTold ==
    ASSUME Inv, Inv', Once, Told, NEW e \in Executors, LoopStep(e)
    PROVE  Told'
<1>1. PICK x, y : x = ex[e] /\ y = ex'[e]
  OBVIOUS
<1>2. UNCHANGED <<checkpoint, ledger, task, effects, known>>
  BY DEF LoopStep, ParseGoal, BeginIteration, Stop, Plan, GoInFlight, FinishActions,
         AfterActions, outside
<1>3. x \in Memory /\ x.mine \in Row
  BY <1>1, Columns
<1>4. ASSUME y.at \in {"iterate", "assessed", "planned", "act", "result", "close"},
             x.at \in {"parse", "iterate", "begin", "assessed", "planned", "act", "result"},
             y.base = x.base, y.epoch = x.epoch, y.decision = x.decision,
             \A f \in Executors : f # e => ex'[f] = ex[f]
      PROVE  Told'
  BY <1>1, <1>2, <1>4, ElsewhereKeepsTold DEF Opening, Settling
<1>5. CASE ParseGoal(e)
  BY <1>1, <1>3, <1>4, <1>5 DEF ParseGoal, At, GoesOn, Goes, Becomes, Inv, Memory
<1>6. CASE BeginIteration(e)
  BY <1>1, <1>3, <1>4, <1>6 DEF BeginIteration, At, Goes, Becomes, Inv, Memory
<1>7. CASE Stop(e)
  <2>1. PICK status \in {"terminal", "blocked"} :
           Goes(e, Mine(e, status, "safe"), "close", <<"fence", "save", "checkpoint">>)
    BY <1>7 DEF Stop
  <2>2. PICK m : m = Mine(e, status, "safe")
    OBVIOUS
  <2>3. m \in Memory /\ m.base = x.base /\ m.epoch = x.epoch
    BY <1>1, <2>2, MineTyped
  <2>4. m.decision = x.decision
    BY <1>1, <1>3, <2>2 DEF Mine, Memory
  <2>5. y.at = "close" /\ y.base = x.base /\ y.epoch = x.epoch /\ y.decision = x.decision
        /\ \A f \in Executors : f # e => ex'[f] = ex[f]
    BY <1>1, <2>1, <2>2, <2>3, <2>4 DEF Goes, Becomes, Inv, Memory
  <2>. QED  BY <1>1, <1>4, <1>7, <2>5 DEF Stop, At
<1>8. CASE Plan(e)
  <2>1. y.at = "planned" /\ y.base = x.base /\ y.epoch = x.epoch /\ y.decision = x.decision
        /\ \A f \in Executors : f # e => ex'[f] = ex[f]
    BY <1>1, <1>3, <1>8, ZenonT(60) DEF Plan, GoesOn, Goes, Becomes, Inv, Memory
  <2>. QED  BY <1>1, <1>4, <1>8, <2>1 DEF Plan, At
<1>9. CASE GoInFlight(e)
  <2>1. y.at = "act" /\ y.base = x.base /\ y.epoch = x.epoch /\ y.decision = x.decision
        /\ \A f \in Executors : f # e => ex'[f] = ex[f]
    BY <1>1, <1>3, <1>9 DEF GoInFlight, Goes, Becomes, Inv, Memory
  <2>. QED  BY <1>1, <1>4, <1>9, <2>1 DEF GoInFlight, At
<1>10. CASE FinishActions(e)
  <2>1. y.at = "result" /\ y.base = x.base /\ y.epoch = x.epoch /\ y.decision = x.decision
        /\ \A f \in Executors : f # e => ex'[f] = ex[f]
    BY <1>1, <1>3, <1>10 DEF FinishActions, Goes, Becomes, Inv, Memory
  <2>. QED  BY <1>1, <1>4, <1>10, <2>1 DEF FinishActions, At
<1>11. CASE AfterActions(e)
  <2>1. y.at \in {"close", "iterate"} /\ y.base = x.base /\ y.epoch = x.epoch
        /\ y.decision = x.decision /\ \A f \in Executors : f # e => ex'[f] = ex[f]
    <3>1. CASE Goes(e, [ex[e] EXCEPT !.mine.status = "waiting", !.mine.waits = ex[e].pending],
                    "close", <<"fence", "save", "checkpoint">>)
      BY <1>1, <1>3, <3>1 DEF Goes, Becomes, Inv, Memory
    <3>2. CASE GoesOn(e, "iterate", <<"save", "fence", "checkpoint", "fence">>)
      BY <1>1, <1>3, <3>2 DEF GoesOn, Goes, Becomes, Inv, Memory
    <3>3. CASE Goes(e, [ex[e] EXCEPT !.recovery = FALSE], "iterate", <<"fence">>)
      BY <1>1, <1>3, <3>3 DEF Goes, Becomes, Inv, Memory
    <3>. QED  BY <1>11, <3>1, <3>2, <3>3 DEF AfterActions
  <2>. QED  BY <1>1, <1>4, <1>11, <2>1 DEF AfterActions, At
<1>. QED  BY <1>5, <1>6, <1>7, <1>8, <1>9, <1>10, <1>11 DEF LoopStep

(* Actions. *)

LEMMA NextActionKeepsTold ==
    ASSUME Inv, Inv', Once, Told, NEW e \in Executors, NextAction(e)
    PROVE  Told'
<1>1. PICK x, y : x = ex[e] /\ y = ex'[e]
  OBVIOUS
<1>2. UNCHANGED <<checkpoint, ledger, task, effects, known>>
  BY DEF NextAction, outside
<1>3. x \in Memory /\ x.at = "act"
  BY <1>1, Columns DEF NextAction, At
<1>4. PICK k, m :
         /\ m = [ex[e] EXCEPT !.action = k, !.acted = @ + 1]
         /\ \/ Goes(e, m, "prepare", <<"fence">>)
            \/ IsDirect(k) /\ Goes(e, m, "carry_out", <<>>)
  BY DEF NextAction
<1>5. /\ y.base = x.base /\ y.epoch = x.epoch /\ y.decision = x.decision /\ y.action = k
      /\ \A f \in Executors : f # e => ex'[f] = ex[f]
      /\ y.at = "prepare" \/ (IsDirect(k) /\ y.at = "carry_out")
  <2>1. /\ {"at", "todo"} \subseteq DOMAIN m /\ m.base = x.base /\ m.epoch = x.epoch
        /\ m.decision = x.decision /\ m.action = k
    BY <1>1, <1>3, <1>4 DEF Memory
  <2>2. CASE Goes(e, m, "prepare", <<"fence">>)
    BY <1>1, <2>1, <2>2 DEF Goes, Becomes, Inv
  <2>3. CASE IsDirect(k) /\ Goes(e, m, "carry_out", <<>>)
    BY <1>1, <2>1, <2>3 DEF Goes, Becomes, Inv
  <2>. QED  BY <1>4, <2>2, <2>3
<1>6. y.at \notin {"record", "carry_out"} \/ ~IsCommand(y.action)
  BY <1>5 DEF IsCommand
<1>. QED  BY <1>1, <1>2, <1>3, <1>5, <1>6, ElsewhereKeepsTold DEF Opening, Settling

(* An action that is over is not in hand any more.                         *)
LEMMA AnswersForget ==
    ASSUME Inv, NEW e \in Executors, Answered(e)
    PROVE  /\ ex'[e].at = "act" /\ ex'[e].base = ex[e].base /\ ex'[e].epoch = ex[e].epoch
           /\ ex'[e].decision = ex[e].decision
           /\ \A f \in Executors : f # e => ex'[f] = ex[f]
<1>1. PICK x, y : x = ex[e] /\ y = ex'[e]
  OBVIOUS
<1>2. /\ y.at = "act" /\ y.base = x.base /\ y.epoch = x.epoch /\ y.decision = x.decision
      /\ \A f \in Executors : f # e => ex'[f] = ex[f]
  BY <1>1, Columns DEF Answered, Goes, Becomes, Inv, Memory
<1>. QED  BY <1>1, <1>2

LEMMA PrepareKeepsTold ==
    ASSUME Inv, Inv', Once, Told, NEW e \in Executors, Prepare(e)
    PROVE  Told'
<1>1. PICK x, y, k : x = ex[e] /\ y = ex'[e] /\ k = ex[e].action
  OBVIOUS
<1>2. UNCHANGED <<checkpoint, task, effects, known>>
  BY DEF Prepare, outside
<1>3. x \in Memory /\ x.at = "prepare"
  BY <1>1, Columns DEF Prepare, At
<1>4. CASE Answered(e) /\ UNCHANGED ledger
  BY <1>1, <1>2, <1>3, <1>4, AnswersForget, ElsewhereKeepsTold DEF Opening, Settling
<1>5. CASE GoesOn(e, "carry_out", <<>>) /\ IsTask(k) /\ UNCHANGED ledger
  <2>1. /\ y.at = "carry_out" /\ y.base = x.base /\ y.epoch = x.epoch /\ y.action = k
        /\ y.decision = x.decision /\ \A f \in Executors : f # e => ex'[f] = ex[f]
    BY <1>1, <1>3, <1>5 DEF GoesOn, Goes, Becomes, Inv, Memory
  <2>2. ~IsCommand(y.action)
    BY <1>5, <2>1 DEF IsCommand
  <2>. QED  BY <1>1, <1>2, <1>3, <1>5, <2>1, <2>2, ElsewhereKeepsTold DEF Opening, Settling
<1>6. CASE /\ ledger[k] \in {"none", "prepared"}
           /\ ledger' = [ledger EXCEPT ![k] = "prepared"]
           /\ GoesOn(e, "dispatch", <<"fence">>)
  <2>1. /\ y.at = "dispatch" /\ y.base = x.base /\ y.epoch = x.epoch
        /\ y.decision = x.decision /\ \A f \in Executors : f # e => ex'[f] = ex[f]
    BY <1>1, <1>3, <1>6 DEF GoesOn, Goes, Becomes, Inv, Memory
  <2>2. \A j \in Actions :
           ledger'[j] = ledger[j] \/ (ledger'[j] # "dispatched" /\ ledger[j] # "dispatched")
    BY <1>6 DEF Inv, Typed
  <2>. QED  BY <1>1, <1>2, <1>3, <2>1, <2>2, ElsewhereKeepsTold DEF Opening, Settling
<1>. QED  BY <1>1, <1>4, <1>5, <1>6 DEF Prepare

(* The executor that dispatches a command has the checkpoint in flight; its *)
(* heirs are about to reconcile, or have decided on the command as prepared. *)
LEMMA DispatchingKeepsTold ==
    ASSUME Inv, Inv', Once, Told, NEW e \in Executors, NEW k, k = ex[e].action, IsCommand(k),
           Dispatch(e), ledger[k] \in {"prepared", "dispatched"},
           ledger' = [ledger EXCEPT ![k] = "dispatched"], GoesOn(e, "carry_out", <<>>)
    PROVE  Told'
<1>1. PICK x, y : x = ex[e] /\ y = ex'[e]
  OBVIOUS
<1>2. UNCHANGED <<checkpoint, task, effects, known>>
  BY DEF Dispatch, outside
<1>3. k \in Actions /\ ledger'[k] = "dispatched"
      /\ \A j \in Actions : j # k => ledger'[j] = ledger[j]
  BY DEF IsCommand, Inv, Typed
<1>4. /\ y.at = "carry_out" /\ y.base = x.base /\ y.epoch = x.epoch
      /\ y.decision = x.decision /\ y.action = k
      /\ \A f \in Executors : f # e => ex'[f] = ex[f]
  BY <1>1, Columns DEF GoesOn, Goes, Becomes, Inv, Memory
<1>5. x.at = "dispatch" /\ x.todo = <<>> /\ x.epoch \in Nat
  BY <1>1, Columns DEF Dispatch, At
<1>6. Armed(e)
  BY <1>1, <1>5 DEF Armed, Once, DispatchedOnce, Closed
<1>7. /\ x.base = checkpoint /\ x.base.row.phase = "action_inflight"
      /\ x.base.row.epoch = x.epoch /\ x.epoch > 0 /\ k[1] = x.base.row.iteration
  BY <1>1, <1>6, ArmedInHand DEF Once, ArmedAreCurrent
<1>8. \A j \in Actions : ~Untold(j)
  <2>. SUFFICES ASSUME NEW j \in Actions, Untold(j)
                PROVE  FALSE
    OBVIOUS
  <2>1. Answers(x, j)
    BY <1>1, <1>5, <1>7 DEF Told, UntoldAreAnswered, Opening
  <2>. QED  BY <1>5, <2>1 DEF Answers, Blocked
<1>9. \A j \in Actions : Untold(j)' => j = k
  BY <1>2, <1>3, <1>8 DEF Untold, IsCommand, IsTask, IsDirect
<1>10. CommandsAreNoTasks' /\ RecordsAreTold' /\ FinishesAreTasks'
  <2>1. CommandsAreNoTasks'
    BY <1>2 DEF Told, CommandsAreNoTasks, IsCommand, IsTask, IsDirect
  <2>2. RecordsAreTold'
    BY <1>1, <1>2, <1>4 DEF Told, RecordsAreTold, IsCommand, IsTask, IsDirect
  <2>3. FinishesAreTasks'
    BY <1>1, <1>4 DEF Told, FinishesAreTasks, IsCommand, IsTask, IsDirect
  <2>. QED  BY <2>1, <2>2, <2>3
<1>11. OutcomesAreKnown'
  <2>. SUFFICES ASSUME NEW j \in Actions, IsCommand(j), j \notin known',
                       effects'[j] > 0 \/ \E f \in Executors : CarriesOut(f, j)'
                PROVE  ledger'[j] = "dispatched"
    BY DEF OutcomesAreKnown, IsCommand, IsTask, IsDirect
  <2>1. ASSUME j # k
        PROVE  effects[j] > 0 \/ \E f \in Executors : CarriesOut(f, j)
    BY <1>1, <1>2, <1>4, <2>1 DEF CarriesOut
  <2>. QED  BY <1>2, <1>3, <2>1 DEF Told, OutcomesAreKnown
<1>12. UntoldAreInFlight'
  BY <1>2, <1>7, <1>9 DEF UntoldAreInFlight
<1>13. UntoldAreAnswered'
  <2>. SUFFICES ASSUME NEW f \in Executors, ex'[f].base = checkpoint,
                       ex'[f].at \notin Opening
                PROVE  Answers(ex'[f], k)
    BY <1>2, <1>9 DEF UntoldAreAnswered, Answers, Blocked
  <2>1. CASE f = e
    BY <1>1, <1>4, <1>7, <2>1 DEF Answers
  <2>2. CASE f # e
    <3>1. ex'[f] = ex[f] /\ ex[f].epoch # x.epoch
      BY <1>1, <1>4, <1>5, <1>7, <2>2 DEF Once, SessionsDiffer
    <3>2. \/ ex[f].at \in Opening \cup {"collect", "collected", "reconcile"}
          \/ ex[f].at = "apply" /\ k \in ex[f].decision.abandon
      BY <1>1, <1>6, <1>7, <3>1 DEF Once, HeirsAbandon
    <3>. QED  BY <1>7, <3>1, <3>2 DEF Answers, Blocked
  <2>. QED  BY <2>1, <2>2
<1>. QED  BY <1>10, <1>11, <1>12, <1>13 DEF Told

LEMMA DispatchKeepsTold ==
    ASSUME Inv, Inv', Once, Told, NEW e \in Executors, Dispatch(e)
    PROVE  Told'
<1>1. PICK x, y, k : x = ex[e] /\ y = ex'[e] /\ k = ex[e].action
  OBVIOUS
<1>2. UNCHANGED <<checkpoint, task, effects, known>>
  BY DEF Dispatch, outside
<1>3. x \in Memory /\ x.at = "dispatch"
  BY <1>1, Columns DEF Dispatch, At
<1>4. CASE Answered(e) /\ UNCHANGED ledger
  BY <1>1, <1>2, <1>3, <1>4, AnswersForget, ElsewhereKeepsTold DEF Opening, Settling
<1>5. CASE /\ ledger[k] \in {"prepared", "dispatched"}
           /\ ledger' = [ledger EXCEPT ![k] = "dispatched"]
           /\ GoesOn(e, "carry_out", <<>>)
  <2>1. CASE IsCommand(k)
    BY <1>1, <1>5, <2>1, DispatchingKeepsTold
  <2>2. CASE ~IsCommand(k)
    <3>1. /\ y.at = "carry_out" /\ y.base = x.base /\ y.epoch = x.epoch /\ y.action = k
          /\ y.decision = x.decision /\ \A f \in Executors : f # e => ex'[f] = ex[f]
      BY <1>1, <1>3, <1>5 DEF GoesOn, Goes, Becomes, Inv, Memory
    <3>2. \A j \in Actions : IsCommand(j) => ledger'[j] = ledger[j]
      BY <1>5, <2>2 DEF Inv, Typed
    <3>. QED
      BY <1>1, <1>2, <1>3, <2>2, <3>1, <3>2, ElsewhereKeepsTold DEF Opening, Settling
  <2>. QED  BY <2>1, <2>2
<1>. QED  BY <1>1, <1>4, <1>5 DEF Dispatch

(* A command that is carried out was dispatched, and its owner stays at it. *)
LEMMA RunToolKeepsTold ==
    ASSUME Inv, Inv', Once, Told, NEW e \in Executors, RunTool(e)
    PROVE  Told'
<1>1. PICK x, y, k : x = ex[e] /\ y = ex'[e] /\ k = ex[e].action
  OBVIOUS
<1>2. UNCHANGED <<checkpoint, ledger, task, known>>
  BY DEF RunTool
<1>3. x \in Memory /\ x.at = "carry_out" /\ k \in Actions
  BY <1>1, Columns DEF RunTool, At, Placed, Handling
<1>4. /\ y.at = "returning" /\ y.base = x.base /\ y.epoch = x.epoch /\ y.action = k
      /\ y.decision = x.decision /\ \A f \in Executors : f # e => ex'[f] = ex[f]
  BY <1>1, <1>3 DEF RunTool, GoesOn, Goes, Becomes, Inv, Memory
<1>5. \A j \in Actions : j # k => effects'[j] = effects[j]
  BY <1>1 DEF RunTool, Once
<1>6. \A j \in Actions : Untold(j)' <=> Untold(j)
  BY <1>2 DEF Untold, IsCommand, IsTask, IsDirect
<1>7. CommandsAreNoTasks' /\ UntoldAreInFlight'
  BY <1>2, <1>6 DEF Told, CommandsAreNoTasks, UntoldAreInFlight, IsCommand, IsTask, IsDirect
<1>8. RecordsAreTold' /\ FinishesAreTasks'
  <2>1. RecordsAreTold'
    BY <1>1, <1>2, <1>4 DEF Told, RecordsAreTold, IsCommand, IsTask, IsDirect
  <2>2. FinishesAreTasks'
    BY <1>1, <1>4 DEF Told, FinishesAreTasks, IsCommand, IsTask, IsDirect
  <2>. QED  BY <2>1, <2>2
<1>9. OutcomesAreKnown'
  <2>. SUFFICES ASSUME NEW j \in Actions, IsCommand(j), j \notin known',
                       effects'[j] > 0 \/ \E f \in Executors : CarriesOut(f, j)'
                PROVE  ledger'[j] = "dispatched"
    BY DEF OutcomesAreKnown, IsCommand, IsTask, IsDirect
  <2>1. effects[j] > 0 \/ \E f \in Executors : CarriesOut(f, j)
    BY <1>1, <1>3, <1>4, <1>5 DEF CarriesOut
  <2>. QED  BY <1>2, <2>1 DEF Told, OutcomesAreKnown
<1>10. UntoldAreAnswered'
  <2>. SUFFICES ASSUME NEW j \in Actions, NEW f \in Executors, Untold(j),
                       ex'[f].base = checkpoint, ex'[f].at \notin Opening
                PROVE  Answers(ex'[f], j)
    BY <1>2, <1>6 DEF UntoldAreAnswered, Answers, Blocked
  <2>1. CASE f = e
    <3>1. Answers(x, j)
      BY <1>1, <1>3, <1>4, <2>1 DEF Told, UntoldAreAnswered, Opening
    <3>. QED  BY <1>1, <1>3, <1>4, <2>1, <3>1 DEF Answers, Blocked
  <2>2. CASE f # e
    BY <1>4, <2>2 DEF Told, UntoldAreAnswered
  <2>. QED  BY <2>1, <2>2
<1>. QED  BY <1>7, <1>8, <1>9, <1>10 DEF Told

(* Once the executor has the outcome, nothing it knows of is untold.       *)
LEMMA ToolReturnsKeepsTold ==
    ASSUME Inv, Inv', Once, Told, NEW e \in Executors, ToolReturns(e)
    PROVE  Told'
<1>1. PICK x, y, k : x = ex[e] /\ y = ex'[e] /\ k = ex[e].action
  OBVIOUS
<1>2. UNCHANGED <<checkpoint, ledger, task, effects>> /\ known' = known \cup {k}
  BY <1>1 DEF ToolReturns
<1>3. x \in Memory /\ x.at = "returning" /\ \A j \in x.decision.finish : ~IsCommand(j)
  BY <1>1, Columns DEF ToolReturns, At, Told, FinishesAreTasks
<1>4. ASSUME NEW j \in Actions, Untold(j), j \notin known', x.base = checkpoint
      PROVE  FALSE
  <2>1. Answers(x, j)
    BY <1>1, <1>3, <1>4 DEF Told, UntoldAreAnswered, Opening
  <2>. QED  BY <1>1, <1>2, <1>3, <1>4, <2>1 DEF Answers, Blocked
<1>5. ASSUME y.at \in {"act", "record"}, y.at = "record" => y.action = k,
             y.base = x.base, y.decision = x.decision,
             \A f \in Executors : f # e => ex'[f] = ex[f]
      PROVE  Told'
  BY <1>1, <1>2, <1>3, <1>4, <1>5, SteadyKeepsTold
<1>6. CASE Answered(e)
  BY <1>1, <1>5, <1>6, AnswersForget
<1>7. CASE GoesOn(e, "record", <<"fence">>)
  <2>1. y.at = "record" /\ y.base = x.base /\ y.action = k /\ y.decision = x.decision
        /\ \A f \in Executors : f # e => ex'[f] = ex[f]
    BY <1>1, <1>3, <1>7 DEF GoesOn, Goes, Becomes, Inv, Memory
  <2>. QED  BY <1>5, <2>1
<1>. QED  BY <1>6, <1>7 DEF ToolReturns

(* An executor that starts a task has no untold command in its checkpoint. *)
LEMMA RunTaskKeepsTold ==
    ASSUME Inv, Inv', Once, Told, NEW e \in Executors, RunTask(e)
    PROVE  Told'
<1>1. PICK x, y, k : x = ex[e] /\ y = ex'[e] /\ k = ex[e].action
  OBVIOUS
<1>2. UNCHANGED <<checkpoint, ledger>> /\ known \subseteq known'
  BY <1>1 DEF RunTask
<1>3. /\ x \in Memory /\ x.at = "carry_out" /\ IsTask(k) /\ ~IsCommand(k)
      /\ \A j \in x.decision.finish : ~IsCommand(j)
  BY <1>1, Columns DEF RunTask, At, IsCommand, Told, FinishesAreTasks
<1>4. \A j \in Actions : j # k => task'[j] = task[j] /\ effects'[j] = effects[j]
  BY <1>1 DEF RunTask, Once, Inv, Typed
<1>5. \A j \in Actions : IsCommand(j) => task'[j] = task[j] /\ effects'[j] = effects[j]
  BY <1>3, <1>4
<1>6. ASSUME NEW j \in Actions, Untold(j), x.base = checkpoint
      PROVE  FALSE
  <2>1. Answers(x, j)
    BY <1>1, <1>3, <1>6 DEF Told, UntoldAreAnswered, Opening
  <2>. QED  BY <1>1, <1>3, <1>6, <2>1 DEF Answers, Blocked, Untold
<1>7. ASSUME y.at \in {"act", "record", "started"}, y.at = "record" => y.action = k,
             y.base = x.base, y.decision = x.decision,
             \A f \in Executors : f # e => ex'[f] = ex[f]
      PROVE  Told'
  BY <1>1, <1>2, <1>3, <1>5, <1>6, <1>7, SteadyKeepsTold
<1>8. CASE Answered(e)
  BY <1>1, <1>7, <1>8, AnswersForget
<1>9. ASSUME NEW place \in {"started", "record"}, GoesOn(e, place, <<"fence">>)
      PROVE  Told'
  <2>1. y.at = place /\ y.base = x.base /\ y.action = k /\ y.decision = x.decision
        /\ \A f \in Executors : f # e => ex'[f] = ex[f]
    BY <1>1, <1>3, <1>9 DEF GoesOn, Goes, Becomes, Inv, Memory
  <2>. QED  BY <1>7, <2>1
<1>. QED  BY <1>8, <1>9 DEF RunTask

LEMMA RecordStartedKeepsTold ==
    ASSUME Inv, Inv', Once, Told, NEW e \in Executors, RecordStarted(e)
    PROVE  Told'
<1>1. PICK x, y, k : x = ex[e] /\ y = ex'[e] /\ k = ex[e].action
  OBVIOUS
<1>2. UNCHANGED <<checkpoint, task, effects, known>>
  BY DEF RecordStarted, outside
<1>3. x \in Memory /\ x.mine \in Row /\ x.at = "started" /\ IsTask(k)
  BY <1>1, Columns DEF RecordStarted, At, Once, Stationed
<1>4. CASE Answered(e) /\ UNCHANGED ledger
  BY <1>1, <1>2, <1>3, <1>4, AnswersForget, ElsewhereKeepsTold DEF Opening, Settling
<1>5. CASE /\ ledger' = [ledger EXCEPT ![k] = "waiting"]
           /\ \E waits : Goes(e, [ex[e] EXCEPT !.action = NoAction, !.pending = waits,
                                               !.mine.waits = waits], "act", <<"save">>)
  <2>1. /\ y.at = "act" /\ y.base = x.base /\ y.epoch = x.epoch /\ y.decision = x.decision
        /\ \A f \in Executors : f # e => ex'[f] = ex[f]
    BY <1>1, <1>3, <1>5 DEF Goes, Becomes, Inv, Memory, Row
  <2>2. \A j \in Actions : IsCommand(j) => ledger'[j] = ledger[j]
    BY <1>3, <1>5 DEF Inv, Typed, IsCommand
  <2>. QED  BY <1>1, <1>2, <1>3, <2>1, <2>2, ElsewhereKeepsTold DEF Opening, Settling
<1>. QED  BY <1>1, <1>4, <1>5 DEF RecordStarted

LEMMA RecordResultKeepsTold ==
    ASSUME Inv, Inv', Once, Told, NEW e \in Executors, RecordResult(e)
    PROVE  Told'
<1>1. PICK x, y, k : x = ex[e] /\ y = ex'[e] /\ k = ex[e].action
  OBVIOUS
<1>2. UNCHANGED <<checkpoint, task, effects, known>> /\ Answered(e)
  BY DEF RecordResult, outside
<1>3. x.at = "record" /\ (IsCommand(k) => k \in known)
  BY <1>1 DEF RecordResult, At, Told, RecordsAreTold
<1>4. \A j \in Actions :
         ledger'[j] = ledger[j] \/ (j = k /\ ledger'[j] # "dispatched")
  BY <1>1 DEF RecordResult, Inv, Typed, Closed
<1>. QED
  BY <1>1, <1>2, <1>3, <1>4, AnswersForget, ElsewhereKeepsTold DEF Opening, Settling

LEMMA ActionKeepsTold ==
    ASSUME Inv, Inv', Once, Told, NEW e \in Executors, ActionStep(e)
    PROVE  Told'
  BY NextActionKeepsTold, PrepareKeepsTold, DispatchKeepsTold, RunToolKeepsTold,
     ToolReturnsKeepsTold, RunTaskKeepsTold, RecordStartedKeepsTold, RecordResultKeepsTold
  DEF ActionStep

(* The world. *)

LEMMA CrashKeepsTold ==
    ASSUME Inv, Inv', Once, Told, NEW p \in Processes, Crash(p)
    PROVE  Told'
<1>1. UNCHANGED <<checkpoint, ledger, task, effects, known>>
  BY DEF Crash
<1>2. PICK z : z = [Fresh EXCEPT !.at = "gone"]
  OBVIOUS
<1>3. z.at = "gone" /\ z.base = NoCheckpoint /\ z.decision = NoDecision
  BY <1>2 DEF Fresh
<1>4. \A f \in Executors : ex'[f] \in {ex[f], z}
  BY <1>2 DEF Crash
<1>5. \A k \in Actions : Untold(k)' <=> Untold(k)
  BY <1>1 DEF Untold, IsCommand, IsTask, IsDirect
<1>6. CommandsAreNoTasks' /\ UntoldAreInFlight'
  BY <1>1, <1>5 DEF Told, CommandsAreNoTasks, UntoldAreInFlight, IsCommand, IsTask, IsDirect
<1>7. RecordsAreTold' /\ FinishesAreTasks'
  <2>1. RecordsAreTold'
    BY <1>1, <1>3, <1>4 DEF Told, RecordsAreTold, IsCommand, IsTask, IsDirect
  <2>2. FinishesAreTasks'
    BY <1>3, <1>4 DEF Told, FinishesAreTasks, NoDecision, IsCommand, IsTask, IsDirect
  <2>. QED  BY <2>1, <2>2
<1>8. OutcomesAreKnown'
  <2>1. \A f \in Executors, k \in Actions : CarriesOut(f, k)' => CarriesOut(f, k)
    BY <1>3, <1>4 DEF CarriesOut
  <2>. QED  BY <1>1, <2>1 DEF Told, OutcomesAreKnown, IsCommand, IsTask, IsDirect
<1>9. UntoldAreAnswered'
  <2>. SUFFICES ASSUME NEW k \in Actions, NEW f \in Executors, Untold(k),
                       ex'[f].base = checkpoint, ex'[f].at \notin Opening
                PROVE  Answers(ex'[f], k)
    BY <1>1, <1>5 DEF UntoldAreAnswered, Answers, Blocked
  <2>1. NoCheckpoint # checkpoint
    BY DEF Told, UntoldAreInFlight, NoCheckpoint, NoRun
  <2>2. ex'[f] = ex[f]
    BY <1>3, <1>4, <2>1
  <2>. QED  BY <2>2 DEF Told, UntoldAreAnswered
<1>. QED  BY <1>6, <1>7, <1>8, <1>9 DEF Told

LEMMA WorldKeepsTold ==
    ASSUME Inv, Told,
           \/ \E k \in Actions : TaskFinishes(k)
           \/ Tick
           \/ UNCHANGED vars
    PROVE  Told'
<1>1. UNCHANGED <<checkpoint, ledger, ex, effects, known>>
  BY DEF TaskFinishes, Tick, vars, outside
<1>2. \A k \in Actions : IsCommand(k) => task'[k] = task[k]
  <2>1. ASSUME NEW j \in Actions, TaskFinishes(j)
        PROVE  \A k \in Actions : IsCommand(k) => task'[k] = task[k]
    <3>1. ~IsCommand(j)
      BY <2>1 DEF TaskFinishes, Told, CommandsAreNoTasks, NoTask
    <3>. QED  BY <2>1, <3>1 DEF TaskFinishes, Inv, Typed
  <2>. QED  BY <2>1 DEF Tick, vars, outside
<1>3. CommandsAreNoTasks' /\ RecordsAreTold' /\ FinishesAreTasks'
  BY <1>1, <1>2 DEF Told, CommandsAreNoTasks, RecordsAreTold, FinishesAreTasks, IsCommand,
                    IsTask, IsDirect
<1>4. OutcomesAreKnown' /\ UntoldAreInFlight' /\ UntoldAreAnswered'
  BY <1>1 DEF Told, OutcomesAreKnown, UntoldAreInFlight, UntoldAreAnswered, CarriesOut,
              Untold, Answers, Blocked, IsCommand, IsTask, IsDirect
<1>. QED  BY <1>3, <1>4 DEF Told

LEMMA ToldHolds == Init => Told
<1>. SUFFICES ASSUME Init
              PROVE  Told
  OBVIOUS
<1>1. \A e \in Executors : ex[e].at = "new" /\ ex[e].decision = NoDecision
  BY DEF Init, Fresh
<1>2. /\ \A k \in Actions : task[k] = NoTask /\ ledger[k] = "none" /\ effects[k] = 0
  BY DEF Init
<1>3. CommandsAreNoTasks /\ RecordsAreTold /\ FinishesAreTasks
  BY <1>1, <1>2 DEF CommandsAreNoTasks, RecordsAreTold, FinishesAreTasks, NoDecision
<1>4. OutcomesAreKnown /\ UntoldAreInFlight /\ UntoldAreAnswered
  BY <1>1, <1>2 DEF OutcomesAreKnown, UntoldAreInFlight, UntoldAreAnswered, Untold, CarriesOut
<1>. QED  BY <1>3, <1>4 DEF Told

LEMMA NextKeepsTold == Inv /\ Inv' /\ Once /\ Told /\ [Next]_vars => Told'
<1>. SUFFICES ASSUME Inv, Inv', Once, Told, [Next]_vars
              PROVE  Told'
  OBVIOUS
<1>1. ASSUME NEW e \in Executors, Cancel(e)
      PROVE  Told'
  <2>1. UNCHANGED <<checkpoint, ledger, task, effects, known>>
    BY <1>1 DEF Cancel, outside
  <2>. QED  BY <1>1, <2>1, LeavingKeepsTold DEF Cancel, Aborts, Left
<1>2. ASSUME NEW e \in Executors,
             \/ BoundaryStep(e) \/ SessionStep(e) \/ ResumeStep(e)
             \/ LoopStep(e) \/ ActionStep(e) \/ Cancel(e)
      PROVE  Told'
  BY <1>1, <1>2, BoundaryKeepsTold, SessionKeepsTold, ResumeKeepsTold, LoopKeepsTold,
     ActionKeepsTold
<1>3. ASSUME NEW p \in Processes, Crash(p)
      PROVE  Told'
  BY <1>3, CrashKeepsTold
<1>. QED  BY <1>2, <1>3, WorldKeepsTold DEF Next

(* While nobody was told how a command that has run went, the checkpoint   *)
(* says that the actions of its iteration are in flight.                   *)
CommandsAreAccounted ==
    \A k \in Actions :
        IsCommand(k) /\ effects[k] > 0 /\ k \notin known
            => checkpoint.row.phase = "action_inflight" /\ checkpoint.row.iteration = k[1]

(* However many processes resume the run, crash, or stall past their       *)
(* lease: no checkpoint that a resume continues from passes over a command *)
(* whose outcome is not known, and the run gets no further than its        *)
(* iteration (the part of SafeCheckpointsAreAccounted about commands).     *)
THEOREM NoCommandIsPassedOver == Spec => []CommandsAreAccounted
<1>1. Told => CommandsAreAccounted
  BY DEF Told, OutcomesAreKnown, UntoldAreInFlight, Untold, CommandsAreAccounted
<1>2. Inv /\ [Next]_vars => Inv'
  BY NextKeeps
<1>. QED
  BY <1>1, <1>2, InitHolds, OnceHolds, NextKeepsOnce, ToldHolds, NextKeepsTold, PTL DEF Spec

-----------------------------------------------------------------------------
(* Background tasks are accounted for while no two executors are at work   *)
(* at once, whatever crashes and restarts lie between them.  (When two     *)
(* overlap, the older one may write its copy of the run row over the waits *)
(* of the younger.)  What the executor at work knows is then the           *)
(* checkpoint; it holds every task of the checkpoint's iteration that      *)
(* nobody was told the outcome of, or the checkpoint is in flight and the  *)
(* ledger leads the executor to the task.                                  *)
Alone == \A e, f \in Executors : Running(e) /\ Running(f) => e = f

UnderWay == checkpoint.row.phase = "action_inflight"

(* A task that was started and whose outcome nobody was told.              *)
Loose(k) == task[k] # NoTask /\ k \notin known

(* The executor may still write something.                                 *)
Working(r) == r.at \notin {"new", "settle", "done", "gone"} /\ (r.at = "close" => r.todo # <<>>)

Writes(todo) == \E i \in 1..Len(todo) : todo[i] \in {"checkpoint", "reconciled"}

(* The next row the boundary writes is the checkpoint.                     *)
WritesNext(todo) ==
    \E i \in 1..Len(todo) :
        todo[i] \in {"checkpoint", "reconciled"} /\ \A j \in 1..(i - 1) : todo[j] # "save"

(* Nothing was recorded of the iteration. *)
Untouched(i) == \A k \in Actions : ledger[k] # "none" => k[1] # i

(* The executor's copy of the run row is as new as the row, and the        *)
(* iteration it puts in flight is a new one.                               *)
Abreast(r) ==
    /\ r.at # "read_checkpoint" => r.base = checkpoint
    /\ run.iteration <= r.mine.iteration
    /\ WritesNext(r.todo) => /\ run.phase = r.mine.phase /\ run.waits = r.mine.waits
                             /\ run.iteration = r.mine.iteration
    /\ r.mine.phase = "action_inflight" /\ ~UnderWay => Untouched(checkpoint.row.iteration)
    /\ r.at \in {"assessed", "planned"} =>
          \A k \in Actions : ledger[k] # "none" => k[1] < r.mine.iteration
    /\ r.at = "planned" \/ (r.at = "assessed" /\ ~Writes(r.todo))
          => checkpoint.row.iteration = r.mine.iteration

Held(r, k) == k \in r.mine.waits /\ k \in r.pending

Decided(d, k) == k \in d.finish \/ d.kind = "blocked" \/ (d.kind = "waiting" /\ k \in d.waits)

Holding(r, k) ==
    IF r.at = "apply" THEN Decided(r.decision, k)
    ELSE \/ Held(r, k)
         \/ r.at = "started" /\ r.action = k
         \/ /\ UnderWay
            /\ \/ r.at \in {"read_checkpoint", "open", "collect", "collected", "reconcile"}
               \/ r.at = "commit" /\ r.pending = {} /\ ~Writes(r.todo)
               \/ r.at = "close" /\ ~Writes(r.todo)

(* What the executor has in hand or has decided agrees with the ledger,    *)
(* and it holds what is loose.                                             *)
Attentive(r) ==
    /\ r.at = "carry_out" /\ IsTask(r.action) => ledger[r.action] = "dispatched"
    /\ r.at = "started" => ledger[r.action] = "dispatched"
    /\ r.at = "returning" => ~IsTask(r.action)
    /\ r.at = "record" => task[r.action] = NoTask
    /\ r.at = "apply" =>
          /\ \A k \in r.decision.abandon : ledger[k] # "none"
          /\ r.mine.phase = "action_inflight" \/ UnderWay
    /\ \A k \in Actions :
          Loose(k) /\ k[1] = checkpoint.row.iteration => Holding(r, k)

Idle == \A e \in Executors : ex[e].at \in {"new", "settle", "done", "gone"} => ex[e].todo = <<>>

NothingYet == (\A e \in Executors : ex[e].at = "new") => run = NoRun /\ checkpoint = NoCheckpoint

RowsBehind == \A k \in Actions : ledger[k] # "none" => k[1] <= checkpoint.row.iteration

CheckpointBehind == checkpoint.row.iteration <= run.iteration

TasksAreRecorded ==
    \A k \in Actions : task[k] # NoTask =>
        /\ IsTask(k) /\ ledger[k] \notin {"none", "prepared"}
        /\ Loose(k) => ledger[k] \in {"dispatched", "waiting"}

StartsClean ==
    run.phase = "action_inflight" /\ ~UnderWay => Untouched(checkpoint.row.iteration)

LooseAreWaitedFor ==
    ~UnderWay => \A k \in Actions :
                    Loose(k) /\ k[1] = checkpoint.row.iteration => k \in run.waits

Accounted ==
    /\ Idle /\ NothingYet /\ RowsBehind /\ CheckpointBehind /\ TasksAreRecorded
    /\ StartsClean /\ LooseAreWaitedFor
    /\ \A e \in Executors : Working(ex[e]) => Abreast(ex[e]) /\ Attentive(ex[e])

(* The numbers of iterations.                                              *)
LEMMA Numbers ==
    ASSUME Inv
    PROVE  /\ checkpoint.row.iteration \in Nat /\ run.iteration \in Nat
           /\ \A e \in Executors : ex[e].mine.iteration \in Nat
           /\ \A k \in Actions : k[1] \in Nat /\ k[1] > 0
<1>1. \A r \in Row : r.iteration \in Nat
  BY BoundsAssumption DEF Row
<1>2. \A k \in Actions : k[1] \in Nat /\ k[1] > 0
  BY BoundsAssumption DEF Actions
<1>. QED  BY <1>1, <1>2, Columns DEF Inv, Typed

(* What is left of a boundary. *)
LEMMA Shorter ==
    ASSUME NEW s \in Seq(Boundary), s # <<>>
    PROVE  /\ Writes(Tail(s)) => Writes(s)
           /\ Head(s) # "save" /\ WritesNext(Tail(s)) => WritesNext(s)
           /\ Head(s) \in {"checkpoint", "reconciled"} => Writes(s) /\ WritesNext(s)
           /\ Head(s) \notin {"checkpoint", "reconciled"} /\ Writes(s) => Writes(Tail(s))
<1>1. /\ Len(s) \in Nat \ {0} /\ Len(Tail(s)) = Len(s) - 1 /\ Head(s) = s[1]
      /\ \A i \in 1..Len(Tail(s)) : Tail(s)[i] = s[i + 1]
  BY HeadTailProperties
<1>2. \A i \in 1..Len(Tail(s)) : i + 1 \in 1..Len(s)
  BY <1>1
<1>3. ASSUME Writes(Tail(s))
      PROVE  Writes(s)
  BY <1>1, <1>2, <1>3 DEF Writes
<1>4. ASSUME Head(s) # "save", WritesNext(Tail(s))
      PROVE  WritesNext(s)
  <2>1. PICK i \in 1..Len(Tail(s)) : /\ Tail(s)[i] \in {"checkpoint", "reconciled"}
                                      /\ \A j \in 1..(i - 1) : Tail(s)[j] # "save"
    BY <1>4 DEF WritesNext
  <2>2. s[i + 1] \in {"checkpoint", "reconciled"} /\ i + 1 \in 1..Len(s)
    BY <1>1, <1>2, <2>1
  <2>3. ASSUME NEW j \in 1..i
        PROVE  s[j] # "save"
    <3>1. CASE j = 1
      BY <1>1, <1>4, <3>1
    <3>2. CASE j # 1
      <4>1. j - 1 \in 1..(i - 1) /\ j - 1 \in 1..Len(Tail(s))
        BY <1>1, <3>2
      <4>2. Tail(s)[j - 1] # "save" /\ Tail(s)[j - 1] = s[(j - 1) + 1]
        BY <1>1, <2>1, <4>1
      <4>3. (j - 1) + 1 = j
        OBVIOUS
      <4>. QED  BY <4>2, <4>3
    <3>. QED  BY <3>1, <3>2
  <2>. QED  BY <2>2, <2>3 DEF WritesNext
<1>5. ASSUME Head(s) \in {"checkpoint", "reconciled"}
      PROVE  Writes(s) /\ WritesNext(s)
  <2>1. 1 \in 1..Len(s) /\ s[1] \in {"checkpoint", "reconciled"} /\ 1..(1 - 1) = {}
    BY <1>1, <1>5
  <2>. QED  BY <2>1 DEF Writes, WritesNext
<1>6. ASSUME Head(s) \notin {"checkpoint", "reconciled"}, Writes(s)
      PROVE  Writes(Tail(s))
  <2>1. PICK i \in 1..Len(s) : s[i] \in {"checkpoint", "reconciled"}
    BY <1>6 DEF Writes
  <2>2. i - 1 \in 1..Len(Tail(s)) /\ (i - 1) + 1 = i
    BY <1>1, <1>6, <2>1
  <2>3. Tail(s)[i - 1] = s[i]
    BY <1>1, <2>2
  <2>. QED  BY <2>1, <2>2, <2>3 DEF Writes
<1>. QED  BY <1>3, <1>4, <1>5, <1>6

(* The boundaries of the code: the run row is written before the           *)
(* checkpoint.                                                             *)
LEMMA RowFirst ==
    /\ ~Writes(<<>>) /\ ~Writes(<<"fence">>) /\ ~Writes(<<"save">>)
    /\ ~Writes(<<"save", "fence">>) /\ Writes(<<"save", "fence", "save", "checkpoint">>)
    /\ \A s \in {<<>>, <<"fence">>, <<"save">>, <<"fence", "save">>, <<"save", "fence">>,
                  <<"fence", "save", "checkpoint", "fence", "checkpoint", "fence">>,
                  <<"save", "reconciled", "fence">>, <<"save", "reconciled", "save">>,
                  <<"save", "checkpoint", "admit", "fence", "save", "checkpoint", "fence">>,
                  <<"save", "fence", "save", "checkpoint">>,
                  <<"fence", "save", "checkpoint">>, <<"save", "checkpoint">>,
                  <<"save", "fence", "save", "checkpoint", "fence">>,
                  <<"save", "fence", "checkpoint", "fence">>} : ~WritesNext(s)
<1>1. /\ ~Writes(<<>>) /\ ~Writes(<<"fence">>) /\ ~Writes(<<"save">>)
      /\ ~Writes(<<"save", "fence">>)
  BY DEF Writes
<1>2. Writes(<<"save", "fence", "save", "checkpoint">>)
  <2>1. PICK s : s = <<"save", "fence", "save", "checkpoint">>
    OBVIOUS
  <2>2. Len(s) = 4 /\ s[4] = "checkpoint" /\ 4 \in 1..4
    BY <2>1
  <2>. QED  BY <2>1, <2>2 DEF Writes
<1>3. ~WritesNext(<<>>) /\ ~WritesNext(<<"fence">>)
  BY DEF WritesNext
<1>4. ASSUME NEW s, s[1] = "save", Len(s) \in Nat
      PROVE  ~WritesNext(s)
  <2>. SUFFICES ASSUME NEW i \in 1..Len(s), s[i] \in {"checkpoint", "reconciled"},
                       \A j \in 1..(i - 1) : s[j] # "save"
                PROVE  FALSE
    BY DEF WritesNext
  <2>1. i # 1
    BY <1>4
  <2>2. 1 \in 1..(i - 1)
    BY <1>4, <2>1
  <2>. QED  BY <1>4, <2>2
<1>5. ASSUME NEW s, s[1] = "fence", s[2] = "save", Len(s) \in Nat
      PROVE  ~WritesNext(s)
  <2>. SUFFICES ASSUME NEW i \in 1..Len(s), s[i] \in {"checkpoint", "reconciled"},
                       \A j \in 1..(i - 1) : s[j] # "save"
                PROVE  FALSE
    BY DEF WritesNext
  <2>1. i # 1 /\ i # 2
    BY <1>5
  <2>2. 2 \in 1..(i - 1)
    BY <1>5, <2>1
  <2>. QED  BY <1>5, <2>2
<1>6. \A s \in {<<"save">>, <<"save", "fence">>, <<"save", "reconciled", "fence">>,
                <<"save", "reconciled", "save">>,
                <<"save", "checkpoint", "admit", "fence", "save", "checkpoint", "fence">>,
                <<"save", "fence", "save", "checkpoint">>, <<"save", "checkpoint">>,
                <<"save", "fence", "save", "checkpoint", "fence">>,
                <<"save", "fence", "checkpoint", "fence">>} : s[1] = "save" /\ Len(s) \in Nat
  OBVIOUS
<1>7. \A s \in {<<"fence", "save">>, <<"fence", "save", "checkpoint">>,
                <<"fence", "save", "checkpoint", "fence", "checkpoint", "fence">>} :
         s[1] = "fence" /\ s[2] = "save" /\ Len(s) \in Nat
  OBVIOUS
<1>. QED  BY <1>1, <1>2, <1>3, <1>4, <1>5, <1>6, <1>7

(* When an executor is at work, it is the only one. *)
LEMMA Lone ==
    ASSUME Alone, Alone', NEW e \in Executors, Running(e) \/ Running(e)',
           \A f \in Executors : f # e => ex'[f] = ex[f],
           NEW f \in Executors, f # e
    PROVE  ~Working(ex'[f])
  BY DEF Alone, Running, Working

(* A step of the executor at work that leaves the run row and the          *)
(* checkpoint alone.                                                       *)
LEMMA AtWorkAccounts ==
    ASSUME Inv, Inv', Alone, Alone', Accounted, NEW e \in Executors, Running(e) \/ Running(e)',
           \A f \in Executors : f # e => ex'[f] = ex[f],
           UNCHANGED <<run, checkpoint>>, known \subseteq known',
           ex'[e].at # "new",
           ex'[e].at \in {"settle", "done", "gone"} => ex'[e].todo = <<>>,
           \A k \in Actions : ledger[k] = "none" /\ ledger'[k] # "none"
              => UnderWay /\ k[1] = checkpoint.row.iteration,
           TasksAreRecorded',
           \A k \in Actions : Loose(k)' => Loose(k) \/ UnderWay,
           Working(ex'[e]) => Abreast(ex[e])' /\ Attentive(ex[e])'
    PROVE  Accounted'
<1>1. Idle' /\ NothingYet'
  <2>1. Idle'
    BY DEF Accounted, Idle
  <2>2. NothingYet'
    BY DEF NothingYet
  <2>. QED  BY <2>1, <2>2
<1>2. RowsBehind' /\ CheckpointBehind'
  <2>1. \A k \in Actions : ledger'[k] # "none" => k[1] <= checkpoint.row.iteration
    BY Numbers DEF Accounted, RowsBehind
  <2>. QED  BY <2>1 DEF Accounted, RowsBehind, CheckpointBehind
<1>3. StartsClean'
  BY DEF Accounted, StartsClean, UnderWay, Untouched
<1>4. LooseAreWaitedFor'
  BY DEF Accounted, LooseAreWaitedFor, UnderWay
<1>5. ASSUME NEW f \in Executors, Working(ex'[f])
      PROVE  Abreast(ex[f])' /\ Attentive(ex[f])'
  BY <1>5, Lone
<1>. QED
  BY <1>1, <1>2, <1>3, <1>4, <1>5 DEF Accounted, Working

(* A step that changes the memory of one executor only. *)
LEMMA MemoryAccounts ==
    ASSUME Inv, Inv', Accounted, NEW e \in Executors, NEW y, y = ex'[e],
           \A f \in Executors : f # e => ex'[f] = ex[f],
           UNCHANGED <<run, checkpoint, ledger, task, known>>,
           y.at # "new",
           y.at \in {"settle", "done", "gone"} => y.todo = <<>>,
           Working(y) => Abreast(y) /\ Attentive(y)
    PROVE  Accounted'
<1>1. Idle' /\ NothingYet'
  BY DEF Accounted, Idle, NothingYet
<1>2. \A k : Loose(k)' <=> Loose(k)
  BY DEF Loose
<1>3. RowsBehind' /\ CheckpointBehind' /\ TasksAreRecorded' /\ StartsClean'
  BY <1>2 DEF Accounted, RowsBehind, CheckpointBehind, TasksAreRecorded, StartsClean, UnderWay,
              Untouched
<1>4. LooseAreWaitedFor'
  BY <1>2 DEF Accounted, LooseAreWaitedFor, UnderWay
<1>5. ASSUME NEW f \in Executors, Working(ex'[f])
      PROVE  Abreast(ex[f])' /\ Attentive(ex[f])'
  <2>1. PICK z : z = ex'[f]
    OBVIOUS
  <2>2. Abreast(z) /\ Attentive(z)
    BY <1>5, <2>1 DEF Accounted
  <2>3. Abreast(ex[f])'
    BY <2>1, <2>2 DEF Abreast, UnderWay, Untouched
  <2>4. Attentive(ex[f])'
    BY <1>2, <2>1, <2>2 DEF Attentive, Holding, UnderWay
  <2>. QED  BY <2>3, <2>4
<1>. QED  BY <1>1, <1>3, <1>4, <1>5 DEF Accounted, Working

(* An executor that leaves writes nothing any more. *)
LEMMA LeavingAccounts ==
    ASSUME Inv, Inv', Accounted, NEW e \in Executors, NEW place \in Left,
           \/ Becomes(e, Leaving(e, place))
           \/ Becomes(e, [Leaving(e, place) EXCEPT !.lost = TRUE])
           \/ Becomes(e, [Fresh EXCEPT !.at = place]),
           UNCHANGED <<run, checkpoint, ledger, task, known>>
    PROVE  Accounted'
<1>1. PICK y : ex' = [ex EXCEPT ![e] = y] /\ y.at = place /\ y.todo = <<>>
  <2>1. PICK u : u = Leaving(e, place)
    OBVIOUS
  <2>2. u.at = place /\ u.todo = <<>>
    BY <2>1 DEF Leaving, Fresh
  <2>3. PICK z : z = [u EXCEPT !.lost = TRUE]
    OBVIOUS
  <2>4. z.at = place /\ z.todo = <<>>
    BY <2>1, <2>2, <2>3 DEF Leaving, Fresh
  <2>5. PICK w : w = [Fresh EXCEPT !.at = place]
    OBVIOUS
  <2>6. w.at = place /\ w.todo = <<>>
    BY <2>5 DEF Fresh
  <2>7. ex' \in {[ex EXCEPT ![e] = u], [ex EXCEPT ![e] = z], [ex EXCEPT ![e] = w]}
    BY <2>1, <2>3, <2>5 DEF Becomes
  <2>. QED  BY <2>2, <2>4, <2>6, <2>7
<1>2. y = ex'[e] /\ \A f \in Executors : f # e => ex'[f] = ex[f]
  BY <1>1 DEF Inv
<1>3. ~Working(y) /\ y.at # "new"
  BY <1>1 DEF Working, Left
<1>. QED  BY <1>1, <1>2, <1>3, MemoryAccounts

(* A step of a boundary that writes neither row. *)
LEMMA RestAccounts ==
    ASSUME Inv, Inv', Accounted, NEW e \in Executors, ex[e].todo # <<>>,
           Head(ex[e].todo) \notin {"save", "checkpoint", "reconciled"},
           Becomes(e, Rest(e)), UNCHANGED <<run, checkpoint, ledger, task, known>>
    PROVE  Accounted'
<1>1. PICK x, y : x = ex[e] /\ y = ex'[e]
  OBVIOUS
<1>2. /\ y.at = x.at /\ y.todo = Tail(x.todo) /\ y.base = x.base /\ y.pending = x.pending
      /\ y.mine = x.mine /\ y.action = x.action /\ y.decision = x.decision
      /\ x.todo \in Seq(Boundary) /\ \A f \in Executors : f # e => ex'[f] = ex[f]
  BY <1>1, MovedOn DEF Memory
<1>3. x.at \notin {"new", "settle", "done", "gone"}
  BY <1>1 DEF Accounted, Idle
<1>4. Abreast(x) /\ Attentive(x)
  BY <1>1, <1>3 DEF Accounted, Working
<1>5. /\ Writes(y.todo) <=> Writes(x.todo)
      /\ WritesNext(y.todo) => WritesNext(x.todo)
  BY <1>1, <1>2, Shorter
<1>6. Abreast(y)
  BY <1>2, <1>4, <1>5 DEF Abreast
<1>7. Attentive(y)
  BY <1>2, <1>4, <1>5 DEF Attentive, Holding, Held
<1>. QED  BY <1>1, <1>2, <1>3, <1>6, <1>7, MemoryAccounts

(* The run row takes over what the executor holds.                         *)
LEMMA SaveRunAccounts ==
    ASSUME Inv, Inv', Once, Alone, Alone', Accounted, NEW e \in Executors, SaveRun(e)
    PROVE  Accounted'
<1>1. PICK x, y : x = ex[e] /\ y = ex'[e]
  OBVIOUS
<1>2. /\ UNCHANGED <<checkpoint, ledger, task, known>>
      /\ x.todo # <<>> /\ Head(x.todo) = "save" /\ x.todo \in Seq(Boundary)
  BY <1>1, Columns DEF SaveRun, outside, Due, Memory
<1>3. CASE LosesLease(e) /\ UNCHANGED run
  BY <1>2, <1>3, LeavingAccounts DEF LosesLease, Left
<1>4. CASE Becomes(e, Rest(e)) /\ run' = [ex[e].mine EXCEPT !.epoch = ex[e].epoch]
  <2>1. /\ y.at = x.at /\ y.todo = Tail(x.todo) /\ y.base = x.base /\ y.pending = x.pending
        /\ y.mine = x.mine /\ y.action = x.action /\ y.decision = x.decision
        /\ \A f \in Executors : f # e => ex'[f] = ex[f]
    BY <1>1, <1>4, MovedOn DEF Memory
  <2>2. run'.phase = x.mine.phase /\ run'.waits = x.mine.waits
        /\ run'.iteration = x.mine.iteration
    BY <1>1, <1>4, Columns DEF Row
  <2>3. x.at \notin {"new", "settle", "done", "gone"}
    BY <1>1, <1>2 DEF Accounted, Idle
  <2>4. Abreast(x) /\ Attentive(x)
    BY <1>1, <1>2, <2>3 DEF Accounted, Working
  <2>5. Writes(y.todo) <=> Writes(x.todo)
    BY <1>2, <2>1, Shorter
  <2>6. \A k : Loose(k)' <=> Loose(k)
    BY <1>2 DEF Loose
  <2>7. Abreast(ex[e])'
    <3>1. Abreast(y)' <=> /\ y.at # "read_checkpoint" => y.base = checkpoint
                          /\ x.mine.iteration <= y.mine.iteration
                          /\ y.mine.phase = "action_inflight" /\ ~UnderWay
                                => Untouched(checkpoint.row.iteration)
                          /\ y.at \in {"assessed", "planned"} =>
                                \A k \in Actions : ledger[k] # "none" => k[1] < y.mine.iteration
                          /\ y.at = "planned" \/ (y.at = "assessed" /\ ~Writes(y.todo))
                                => checkpoint.row.iteration = y.mine.iteration
      BY <1>2, <2>1, <2>2 DEF Abreast, UnderWay, Untouched
    <3>2. x.mine.iteration <= x.mine.iteration
      BY <1>1, Numbers
    <3>. QED  BY <1>1, <2>1, <2>4, <2>5, <3>1, <3>2 DEF Abreast
  <2>8. Attentive(ex[e])'
    BY <1>1, <1>2, <2>1, <2>4, <2>5, <2>6 DEF Attentive, Holding, Held, UnderWay
  <2>9. ASSUME NEW f \in Executors, Working(ex'[f])
        PROVE  Abreast(ex[f])' /\ Attentive(ex[f])'
    BY <1>1, <2>1, <2>3, <2>7, <2>8, <2>9, Lone DEF Running
  <2>10. Idle' /\ NothingYet'
    <3>1. Idle'
      BY <1>1, <2>1, <2>3 DEF Accounted, Idle
    <3>2. NothingYet'
      BY <1>1, <2>1, <2>3 DEF NothingYet
    <3>. QED  BY <3>1, <3>2
  <2>11. RowsBehind' /\ TasksAreRecorded'
    BY <1>2, <2>6 DEF Accounted, RowsBehind, TasksAreRecorded
  <2>12. CheckpointBehind'
    BY <1>1, <1>2, <2>2, <2>4, Numbers DEF Accounted, CheckpointBehind, Abreast
  <2>13. StartsClean'
    BY <1>2, <2>2, <2>4 DEF StartsClean, Abreast, UnderWay, Untouched
  <2>14. LooseAreWaitedFor'
    <3>. SUFFICES ASSUME ~UnderWay, NEW k \in Actions, Loose(k),
                         k[1] = checkpoint.row.iteration
                  PROVE  k \in x.mine.waits
      BY <1>2, <2>2, <2>6 DEF LooseAreWaitedFor, UnderWay
    <3>1. Holding(x, k) /\ ledger[k] # "none"
      BY <2>4 DEF Loose, Attentive, Accounted, TasksAreRecorded
    <3>2. x.at # "apply"
      BY <2>4, <3>1 DEF Attentive, Abreast, Untouched
    <3>3. x.at # "started"
      <4>1. x.at = "started" => x.base.row.phase = "action_inflight" /\ x.base = checkpoint
        BY <1>1, <2>4 DEF Once, Stationed, Handling, InHand, Abreast
      <4>. QED  BY <4>1 DEF UnderWay
    <3>. QED  BY <3>1, <3>2, <3>3 DEF Holding, Held
  <2>. QED
    BY <2>9, <2>10, <2>11, <2>12, <2>13, <2>14 DEF Accounted, Working
<1>. QED  BY <1>3, <1>4 DEF SaveRun

(* The checkpoint follows the run row, which has been written just before. *)
LEMMA SaveCheckpointAccounts ==
    ASSUME Inv, Inv', Once, Alone, Alone', Accounted, NEW e \in Executors, SaveCheckpoint(e)
    PROVE  Accounted'
<1>1. PICK x, y : x = ex[e] /\ y = ex'[e]
  OBVIOUS
<1>2. /\ UNCHANGED <<run, ledger, task, known>>
      /\ x.todo # <<>> /\ Head(x.todo) \in {"checkpoint", "reconciled"}
      /\ x.todo \in Seq(Boundary)
  BY <1>1, Columns DEF SaveCheckpoint, outside, Due, Memory
<1>3. CASE LosesLease(e) /\ UNCHANGED checkpoint
  BY <1>2, <1>3, LeavingAccounts DEF LosesLease, Left
<1>4. x.at \notin {"new", "settle", "done", "gone", "apply", "started", "collect", "collected",
                  "reconcile", "carry_out", "returning", "record", "read_checkpoint", "open"}
      /\ x.at \notin Handling
  <2>1. x.at \notin {"new", "settle", "done", "gone"}
    BY <1>1, <1>2 DEF Accounted, Idle
  <2>2. x.at \notin Opening /\ Stationed(x)
    BY <1>1, <1>2, Columns DEF Placed, Once
  <2>3. x.at \notin Settling \cup Handling
    BY <1>2, <2>2 DEF Stationed
  <2>. QED  BY <2>1, <2>2, <2>3 DEF Settling, Handling, Opening
<1>5. Abreast(x) /\ Attentive(x)
  BY <1>1, <1>2, <1>4 DEF Accounted, Working
<1>6. /\ Writes(x.todo) /\ x.base = checkpoint
      /\ run.phase = x.mine.phase /\ run.waits = x.mine.waits
      /\ run.iteration = x.mine.iteration
      /\ WritesNext(Tail(x.todo)) \in BOOLEAN
  BY <1>2, <1>4, <1>5, Shorter DEF Abreast, WritesNext
<1>7. ASSUME ~Admits(ex[e].base.seq + 1)
      PROVE  FALSE
  BY <1>1, <1>6, <1>7, Columns DEF Admits
<1>8. ASSUME NEW new, new = [seq |-> ex[e].base.seq + 1,
                             row |-> [ex[e].mine EXCEPT !.epoch = ex[e].epoch]],
             checkpoint' = new, Becomes(e, [Rest(e) EXCEPT !.base = new])
      PROVE  Accounted'
  <2>1. /\ y.at = x.at /\ y.todo = Tail(x.todo) /\ y.base = new /\ y.pending = x.pending
        /\ y.mine = x.mine /\ y.action = x.action /\ y.decision = x.decision
        /\ \A f \in Executors : f # e => ex'[f] = ex[f]
    BY <1>1, <1>8, Columns DEF Rest, Becomes, Inv, Memory
  <2>2. checkpoint'.row.phase = x.mine.phase /\ checkpoint'.row.iteration = x.mine.iteration
    BY <1>1, <1>8, Columns DEF Row
  <2>3. \A k : Loose(k)' <=> Loose(k)
    BY <1>2 DEF Loose
  <2>4. \A k \in Actions : ledger[k] # "none" => k[1] <= checkpoint.row.iteration
    BY DEF Accounted, RowsBehind
  <2>5. checkpoint.row.iteration <= x.mine.iteration
    BY <1>6 DEF Accounted, CheckpointBehind
  <2>6. ASSUME NEW k \in Actions, Loose(k), k[1] = x.mine.iteration
        PROVE  Held(x, k)
    <3>1. ledger[k] # "none"
      BY <2>6 DEF Loose, Accounted, TasksAreRecorded
    <3>2. k[1] = checkpoint.row.iteration
      BY <1>1, <2>4, <2>5, <2>6, <3>1, Numbers
    <3>3. Holding(x, k)
      BY <1>5, <2>6, <3>2 DEF Attentive
    <3>. QED  BY <1>4, <1>6, <3>3 DEF Holding
  <2>7. Abreast(ex[e])'
    <3>1. Abreast(y)' <=> /\ run.iteration <= y.mine.iteration
                          /\ WritesNext(y.todo) => /\ run.phase = y.mine.phase
                                                   /\ run.waits = y.mine.waits
                                                   /\ run.iteration = y.mine.iteration
                          /\ y.at \in {"assessed", "planned"} =>
                                \A k \in Actions : ledger[k] # "none" => k[1] < y.mine.iteration
      BY <1>2, <1>8, <2>1, <2>2 DEF Abreast, UnderWay, Untouched
    <3>. QED  BY <1>1, <1>5, <1>6, <2>1, <3>1 DEF Abreast
  <2>8. Attentive(ex[e])'
    <3>1. \A k \in Actions : Loose(k) /\ k[1] = x.mine.iteration => Held(y, k)
      BY <2>1, <2>6 DEF Held
    <3>2. y.at \notin {"apply", "started", "carry_out", "returning", "record"}
      BY <1>4, <2>1
    <3>. QED  BY <1>1, <2>2, <2>3, <3>1, <3>2 DEF Attentive, Holding, Held
  <2>9. ASSUME NEW f \in Executors, Working(ex'[f])
        PROVE  Abreast(ex[f])' /\ Attentive(ex[f])'
    BY <1>1, <1>4, <2>1, <2>7, <2>8, <2>9, Lone DEF Running
  <2>10. Idle' /\ NothingYet'
    <3>1. Idle'
      BY <1>1, <1>4, <2>1 DEF Accounted, Idle
    <3>2. NothingYet'
      BY <1>1, <1>4, <2>1 DEF NothingYet
    <3>. QED  BY <3>1, <3>2
  <2>11. TasksAreRecorded'
    BY <1>2, <2>3 DEF Accounted, TasksAreRecorded
  <2>12. RowsBehind' /\ CheckpointBehind'
    <3>1. \A k \in Actions : ledger[k] # "none" => k[1] <= x.mine.iteration
      BY <1>1, <2>4, <2>5, Numbers
    <3>2. x.mine.iteration <= run.iteration
      BY <1>1, <1>6, Numbers
    <3>. QED  BY <1>2, <2>2, <3>1, <3>2 DEF RowsBehind, CheckpointBehind
  <2>13. StartsClean'
    BY <1>2, <1>6, <2>2 DEF StartsClean, UnderWay
  <2>14. LooseAreWaitedFor'
    BY <1>2, <1>6, <2>2, <2>3, <2>6 DEF LooseAreWaitedFor, UnderWay, Held
  <2>. QED
    BY <2>9, <2>10, <2>11, <2>12, <2>13, <2>14 DEF Accounted, Working
<1>. QED  BY <1>3, <1>7, <1>8 DEF SaveCheckpoint

LEMMA BoundaryAccounts ==
    ASSUME Inv, Inv', Once, Alone, Alone', Accounted, NEW e \in Executors, BoundaryStep(e)
    PROVE  Accounted'
<1>1. ASSUME Fence(e) \/ MarkAdmitted(e)
      PROVE  Accounted'
  <2>1. /\ UNCHANGED <<run, checkpoint, ledger, task, known>>
        /\ ex[e].todo # <<>> /\ Head(ex[e].todo) \in {"fence", "admit"}
    BY <1>1 DEF Fence, MarkAdmitted, outside, Due
  <2>2. CASE Becomes(e, Rest(e))
    BY <2>1, <2>2, RestAccounts
  <2>3. CASE LosesLease(e)
    BY <2>1, <2>3, LeavingAccounts DEF LosesLease, Left
  <2>. QED  BY <1>1, <2>2, <2>3 DEF Fence, MarkAdmitted
<1>. QED  BY <1>1, SaveRunAccounts, SaveCheckpointAccounts DEF BoundaryStep

(* An executor that resumes reads what the run waits for.                  *)
LEMMA SessionAccounts ==
    ASSUME Inv, Inv', Once, Accounted, NEW e \in Executors, SessionStep(e)
    PROVE  Accounted'
<1>1. PICK x, y : x = ex[e] /\ y = ex'[e]
  OBVIOUS
<1>2. UNCHANGED <<run, checkpoint, ledger, task, known>>
  BY DEF SessionStep, Start, ReadRun, ReadCheckpoint, OpenLease, Renew, Close, Settle,
         outside
<1>3. x \in Memory /\ x.mine \in Row
  BY <1>1, Columns
<1>4. CASE Start(e)
  <2>1. run = NoRun /\ checkpoint = NoCheckpoint /\ x.at = "new" /\ x.base = NoCheckpoint
    BY <1>1, <1>4, Columns DEF Start, At, Accounted, NothingYet, Placed
  <2>2. PICK m : m = Mine(e, "running", "safe")
    OBVIOUS
  <2>3. m \in Memory /\ m.base = x.base /\ m.mine.iteration = x.mine.iteration
        /\ m.mine.phase = "safe" /\ m.mine \in Row
    <3>1. m.mine.phase = "safe"
      BY <1>1, <1>3, <2>2 DEF Mine, Memory, Row
    <3>. QED  BY <1>1, <2>2, <3>1, MineTyped
  <2>4. Goes(e, [m EXCEPT !.epoch = lease'.epoch], "parse", <<"fence", "save">>)
    BY <1>4, <2>2 DEF Start
  <2>5. y = [[m EXCEPT !.epoch = lease'.epoch]
                EXCEPT !.at = "parse", !.todo = <<"fence", "save">>]
        /\ \A f \in Executors : f # e => ex'[f] = ex[f]
    BY <1>1, <2>4 DEF Goes, Becomes, Inv
  <2>6. y.at = "parse" /\ y.todo = <<"fence", "save">> /\ y.base = x.base /\ y.mine = m.mine
    BY <2>3, <2>5 DEF Memory
  <2>7. Abreast(y)
    <3>1. run.iteration = 0 /\ 0 <= y.mine.iteration
      BY <1>1, <2>1, <2>3, <2>6, Numbers DEF NoRun
    <3>. QED  BY <2>1, <2>3, <2>6, <3>1, RowFirst DEF Abreast
  <2>8. Attentive(y)
    <3>1. checkpoint.row.iteration = 0
      BY <2>1 DEF NoCheckpoint, NoRun
    <3>. QED  BY <2>6, <3>1, Numbers DEF Attentive
  <2>. QED  BY <1>1, <1>2, <2>5, <2>6, <2>7, <2>8, MemoryAccounts
<1>5. CASE ReadRun(e)
  <2>1. CASE Goes(e, [ex[e] EXCEPT !.mine = run, !.pending = run.waits],
                  "read_checkpoint", <<>>)
    <3>1. /\ y.at = "read_checkpoint" /\ y.todo = <<>> /\ y.mine = run
          /\ y.pending = run.waits /\ \A f \in Executors : f # e => ex'[f] = ex[f]
      BY <1>1, <1>3, <2>1 DEF Goes, Becomes, Inv, Memory
    <3>2. run.iteration <= run.iteration
      BY Numbers
    <3>3. Abreast(y)
      BY <3>1, <3>2 DEF Abreast, Accounted, StartsClean
    <3>4. Attentive(y)
      BY <3>1 DEF Attentive, Holding, Held, Accounted, LooseAreWaitedFor
    <3>. QED  BY <1>1, <1>2, <3>1, <3>3, <3>4, MemoryAccounts
  <2>2. CASE GoesOn(e, "done", <<>>)
    <3>1. y.at = "done" /\ y.todo = <<>> /\ \A f \in Executors : f # e => ex'[f] = ex[f]
      BY <1>1, <1>3, <2>2 DEF GoesOn, Goes, Becomes, Inv, Memory
    <3>. QED  BY <1>1, <1>2, <3>1, MemoryAccounts DEF Working
  <2>. QED  BY <1>5, <2>1, <2>2 DEF ReadRun
<1>6. CASE ReadCheckpoint(e)
  <2>1. CASE Becomes(e, Leaving(e, "settle"))
    BY <1>2, <2>1, LeavingAccounts DEF Left
  <2>2. CASE Goes(e, [ex[e] EXCEPT !.base = checkpoint], "open", <<>>)
    <3>1. /\ y.at = "open" /\ y.todo = <<>> /\ y.base = checkpoint /\ y.mine = x.mine
          /\ y.pending = x.pending /\ \A f \in Executors : f # e => ex'[f] = ex[f]
      BY <1>1, <1>3, <2>2 DEF Goes, Becomes, Inv, Memory
    <3>2. x.at = "read_checkpoint" /\ Abreast(x) /\ Attentive(x)
      BY <1>1, <1>6 DEF ReadCheckpoint, At, Accounted, Working
    <3>3. Abreast(y)
      BY <3>1, <3>2, RowFirst DEF Abreast
    <3>4. Attentive(y)
      BY <3>1, <3>2 DEF Attentive, Holding, Held
    <3>. QED  BY <1>1, <1>2, <3>1, <3>3, <3>4, MemoryAccounts
  <2>. QED  BY <1>6, <2>1, <2>2 DEF ReadCheckpoint
<1>7. CASE OpenLease(e)
  <2>1. CASE Becomes(e, Leaving(e, "settle"))
    BY <1>2, <2>1, LeavingAccounts DEF Left
  <2>2. CASE Goes(e, [ex[e] EXCEPT !.epoch = lease'.epoch], "collect", <<"fence">>)
    <3>1. /\ y.at = "collect" /\ y.todo = <<"fence">> /\ y.base = x.base /\ y.mine = x.mine
          /\ y.pending = x.pending /\ \A f \in Executors : f # e => ex'[f] = ex[f]
      BY <1>1, <1>3, <2>2 DEF Goes, Becomes, Inv, Memory
    <3>2. x.at = "open" /\ Abreast(x) /\ Attentive(x)
      BY <1>1, <1>7 DEF OpenLease, At, Accounted, Working
    <3>3. Abreast(y)
      BY <3>1, <3>2, RowFirst DEF Abreast
    <3>4. Attentive(y)
      BY <3>1, <3>2 DEF Attentive, Holding, Held
    <3>. QED  BY <1>1, <1>2, <3>1, <3>3, <3>4, MemoryAccounts
  <2>. QED  BY <1>7, <2>1, <2>2 DEF OpenLease
<1>8. CASE Renew(e)
  <2>1. /\ y.at = x.at /\ y.todo = x.todo /\ y.base = x.base /\ y.pending = x.pending
        /\ y.mine = x.mine /\ y.action = x.action /\ y.decision = x.decision
        /\ x.at \notin {"new", "done", "gone"}
        /\ \A f \in Executors : f # e => ex'[f] = ex[f]
    BY <1>1, <1>3, <1>8 DEF Renew, Becomes, Inv, Memory, Running
  <2>2. x.at = "settle" => x.todo = <<>>
    BY <1>1 DEF Accounted, Idle
  <2>3. Working(y) => Abreast(x) /\ Attentive(x)
    BY <1>1, <2>1 DEF Working, Accounted
  <2>4. Working(y) => Abreast(y)
    BY <2>1, <2>3 DEF Abreast
  <2>5. Working(y) => Attentive(y)
    BY <2>1, <2>3 DEF Attentive, Holding, Held
  <2>. QED  BY <1>1, <1>2, <2>1, <2>2, <2>4, <2>5, MemoryAccounts
<1>9. CASE Close(e)
  <2>1. PICK place : place \in Left /\ Becomes(e, [Fresh EXCEPT !.at = place])
    BY <1>9 DEF Close, Left
  <2>. QED  BY <1>2, <2>1, LeavingAccounts
<1>10. CASE Settle(e)
  <2>1. y.at = "done" /\ y.todo = <<>> /\ \A f \in Executors : f # e => ex'[f] = ex[f]
    BY <1>1, <1>3, <1>10 DEF Settle, GoesOn, Goes, Becomes, Inv, Memory
  <2>. QED  BY <1>1, <1>2, <2>1, MemoryAccounts DEF Working
<1>. QED  BY <1>4, <1>5, <1>6, <1>7, <1>8, <1>9, <1>10 DEF SessionStep

LEMMA CollectAccounts ==
    ASSUME Inv, Inv', Accounted, NEW e \in Executors, Collect(e)
    PROVE  Accounted'
<1>1. PICK x, y : x = ex[e] /\ y = ex'[e]
  OBVIOUS
<1>2. UNCHANGED <<run, checkpoint, ledger, task, known>>
  BY DEF Collect, outside
<1>3. PICK place, steps :
         /\ GoesOn(e, place, steps) /\ steps \in {<<"fence">>, <<>>}
         /\ \/ x.at = "collect" /\ place = "collected"
            \/ x.at = "iterate" /\ place = "gathered"
  <2>1. PICK next : next = IF ex[e].at = "collect" THEN "collected" ELSE "gathered"
    OBVIOUS
  <2>2. \E steps \in {<<"fence">>, <<>>} : GoesOn(e, next, steps)
    BY <2>1 DEF Collect
  <2>3. x.at \in {"collect", "iterate"}
    BY <1>1 DEF Collect, At
  <2>. QED  BY <1>1, <2>1, <2>2, <2>3
<1>4. /\ y.at = place /\ y.todo = steps /\ y.base = x.base /\ y.mine = x.mine
      /\ y.pending = x.pending /\ \A f \in Executors : f # e => ex'[f] = ex[f]
  BY <1>1, <1>3, Columns DEF GoesOn, Goes, Becomes, Inv, Memory
<1>5. Abreast(x) /\ Attentive(x)
  BY <1>1, <1>3 DEF Accounted, Working
<1>6. Abreast(y)
  BY <1>3, <1>4, <1>5, RowFirst DEF Abreast
<1>7. Attentive(y)
  BY <1>3, <1>4, <1>5 DEF Attentive, Holding, Held
<1>. QED  BY <1>1, <1>2, <1>3, <1>4, <1>6, <1>7, MemoryAccounts

(* A result that was collected is known; the rest is waited for.           *)
LEMMA RecordCollectedAccounts ==
    ASSUME Inv, Inv', Alone, Alone', Accounted, NEW e \in Executors, RecordCollected(e)
    PROVE  Accounted'
<1>1. PICK x, y, got : x = ex[e] /\ y = ex'[e] /\ got = Finished(ex[e].pending)
  OBVIOUS
<1>2. UNCHANGED <<run, checkpoint, task>> /\ known' = known \cup got
      /\ ledger' = [k \in Actions |-> IF k \in got /\ ledger[k] \notin Closed
                                      THEN "succeeded" ELSE ledger[k]]
  BY <1>1 DEF RecordCollected, outside
<1>3. PICK mine :
         /\ mine = x \/ mine = Mine(e, "running", "safe")
         /\ Goes(e, [mine EXCEPT !.mine.waits = x.pending \ got, !.pending = x.pending \ got],
                 IF x.at = "collected" THEN "reconcile" ELSE "begin", <<"fence", "save">>)
  BY <1>1 DEF RecordCollected
<1>4. x.at \in {"collected", "gathered"} /\ Running(e)
  BY <1>1 DEF RecordCollected, At, Running
<1>5. Abreast(x) /\ Attentive(x)
  BY <1>1, <1>4 DEF Accounted, Working
<1>6. /\ mine \in Memory /\ mine.mine \in Row /\ mine.base = x.base
      /\ mine.mine.iteration = x.mine.iteration
      /\ mine.mine.phase \in {x.mine.phase, "safe"}
  <2>1. x \in Memory /\ x.mine \in Row
    BY <1>1, Columns
  <2>2. CASE mine = Mine(e, "running", "safe")
    <3>1. mine.mine.phase = "safe"
      BY <1>1, <2>1, <2>2 DEF Mine, Memory, Row
    <3>. QED  BY <1>1, <2>2, <3>1, MineTyped
  <2>. QED  BY <1>3, <2>1, <2>2
<1>7. /\ y.at = (IF x.at = "collected" THEN "reconcile" ELSE "begin")
      /\ y.todo = <<"fence", "save">> /\ y.base = x.base
      /\ y.mine.iteration = x.mine.iteration /\ y.mine.phase \in {x.mine.phase, "safe"}
      /\ y.mine.waits = x.pending \ got /\ y.pending = x.pending \ got
      /\ \A f \in Executors : f # e => ex'[f] = ex[f]
  BY <1>1, <1>3, <1>6 DEF Goes, Becomes, Inv, Memory, Row
<1>8. \A k \in Actions : k \in got => task[k] # NoTask
  BY <1>1 DEF Finished, NoTask
<1>9. \A k \in Actions : ledger'[k] = "none" <=> ledger[k] = "none"
  BY <1>2, <1>8 DEF Accounted, TasksAreRecorded
<1>10. \A k \in Actions : Loose(k)' => Loose(k) /\ k \notin got
  BY <1>2 DEF Loose
<1>11. TasksAreRecorded'
  BY <1>2, <1>8, <1>10 DEF Accounted, TasksAreRecorded
<1>12. Abreast(ex[e])'
  <2>1. Abreast(y)
    BY <1>4, <1>5, <1>7, RowFirst DEF Abreast
  <2>. QED  BY <1>1, <1>2, <1>4, <1>7, <1>9, <2>1 DEF Abreast, UnderWay, Untouched
<1>13. Attentive(ex[e])'
  <2>1. ASSUME NEW k \in Actions, Loose(k)', k[1] = checkpoint.row.iteration
        PROVE  Holding(ex[e], k)'
    <3>1. Loose(k) /\ k \notin got /\ Holding(x, k)
      BY <1>5, <1>10, <2>1 DEF Attentive
    <3>. QED  BY <1>1, <1>2, <1>4, <1>7, <3>1 DEF Holding, Held, UnderWay
  <2>2. y.at \in {"reconcile", "begin"}
    BY <1>7
  <2>. QED  BY <1>1, <1>2, <2>1, <2>2 DEF Attentive
<1>14. y.at \notin {"new", "settle", "done", "gone"} /\ known \subseteq known'
  BY <1>2, <1>7
<1>. QED
  BY <1>1, <1>2, <1>4, <1>7, <1>9, <1>10, <1>11, <1>12, <1>13, <1>14, AtWorkAccounts

(* A task that is loose is open in the ledger: it is finished, managed by  *)
(* this process, or ambiguous.                                             *)
LEMMA ReconcileAccounts ==
    ASSUME Inv, Inv', Accounted, NEW e \in Executors, Reconcile(e)
    PROVE  Accounted'
<1>1. PICK x, y : x = ex[e] /\ y = ex'[e]
  OBVIOUS
<1>2. UNCHANGED <<run, checkpoint, ledger, task, known>>
  BY DEF Reconcile, outside
<1>3. x.at \in {"reconcile", "collect"}
  BY <1>1 DEF Reconcile, At
<1>4. Abreast(x) /\ Attentive(x) /\ x.base = checkpoint
  BY <1>1, <1>3 DEF Accounted, Working, Abreast
<1>5. CASE ~(InFlight(e) /\ x.base # NoCheckpoint) /\ GoesOn(e, "commit", <<"fence">>)
  <2>1. /\ y.at = "commit" /\ y.todo = <<"fence">> /\ y.base = x.base /\ y.mine = x.mine
        /\ y.pending = x.pending /\ \A f \in Executors : f # e => ex'[f] = ex[f]
    BY <1>1, <1>5, Columns DEF GoesOn, Goes, Becomes, Inv, Memory
  <2>2. ~UnderWay
    BY <1>1, <1>4, <1>5 DEF InFlight, UnderWay, NoCheckpoint, NoRun
  <2>3. Abreast(y)
    BY <1>3, <1>4, <2>1, RowFirst DEF Abreast
  <2>4. Attentive(y)
    BY <1>3, <1>4, <2>1, <2>2 DEF Attentive, Holding, Held
  <2>. QED  BY <1>1, <1>2, <2>1, <2>3, <2>4, MemoryAccounts
<1>6. CASE InFlight(e)
           /\ Goes(e, [ex[e] EXCEPT !.decision = ReconcileDecision(e)], "apply", <<"fence">>)
  <2>1. PICK d : d = ReconcileDecision(e)
    OBVIOUS
  <2>2. /\ y.at = "apply" /\ y.todo = <<"fence">> /\ y.base = x.base /\ y.mine = x.mine
        /\ y.decision = d /\ \A f \in Executors : f # e => ex'[f] = ex[f]
    BY <1>1, <1>6, <2>1, Columns DEF Goes, Becomes, Inv, Memory
  <2>3. Abreast(y)
    BY <1>3, <1>4, <2>2, RowFirst DEF Abreast
  <2>4. \A k \in d.abandon : ledger[k] # "none"
    BY <2>1 DEF ReconcileDecision, Recorded
  <2>5. x.mine.phase = "action_inflight" \/ UnderWay
    BY <1>1, <1>4, <1>6 DEF InFlight, UnderWay
  <2>6. ASSUME NEW k \in Actions, Loose(k), k[1] = checkpoint.row.iteration
        PROVE  Decided(d, k)
    <3>1. ledger[k] \in {"dispatched", "waiting"}
      BY <2>6 DEF Loose, Accounted, TasksAreRecorded
    <3>2. k \in Recorded(e)
      BY <1>1, <1>4, <2>6, <3>1 DEF Recorded
    <3>3. CASE Ambiguous(e, k)
      BY <2>1, <3>1, <3>2, <3>3 DEF ReconcileDecision, Decided
    <3>4. CASE task[k].status = "finished"
      BY <2>1, <3>1, <3>2, <3>4 DEF ReconcileDecision, Decided, Finished
    <3>5. CASE Managed(e, k)
      <4>1. k \in d.waits /\ d.kind \in {"blocked", "waiting"}
        BY <2>1, <3>1, <3>2, <3>5 DEF ReconcileDecision
      <4>. QED  BY <4>1 DEF Decided
    <3>. QED  BY <3>3, <3>4, <3>5 DEF Ambiguous
  <2>7. Attentive(y)
    BY <2>2, <2>4, <2>5, <2>6 DEF Attentive, Holding
  <2>. QED  BY <1>1, <1>2, <2>2, <2>3, <2>7, MemoryAccounts
<1>. QED  BY <1>1, <1>5, <1>6 DEF Reconcile

(* What the decision closes is known, and what it leaves is waited for; if *)
(* the run is blocked, the checkpoint stays in flight.                     *)
LEMMA ApplyReconcileAccounts ==
    ASSUME Inv, Inv', Alone, Alone', Accounted, NEW e \in Executors, ApplyReconcile(e)
    PROVE  Accounted'
<1>1. PICK x, y, d : x = ex[e] /\ y = ex'[e] /\ d = ex[e].decision
  OBVIOUS
<1>2. UNCHANGED <<run, checkpoint, task>> /\ x.at = "apply" /\ Running(e)
  BY <1>1 DEF ApplyReconcile, outside, At, Running
<1>3. CASE Aborts(e) /\ UNCHANGED <<ledger, known>>
  BY <1>2, <1>3, LeavingAccounts DEF Aborts, Left
<1>4. PICK settled : settled = [ex[e] EXCEPT !.decision = NoDecision, !.mine.waits = d.waits,
                                             !.pending = d.waits]
  OBVIOUS
<1>5. Abreast(x) /\ Attentive(x)
  BY <1>1, <1>2 DEF Accounted, Working
<1>6. CASE /\ ~Refused(d) /\ known' = known \cup d.finish
           /\ ledger' = [k \in Actions |->
                            IF k \in d.abandon THEN "failed"
                            ELSE IF k \in d.finish THEN "succeeded" ELSE ledger[k]]
           /\ y.at = "commit" /\ y.base = x.base /\ y.mine.iteration = x.mine.iteration
           /\ y.mine.phase \in {x.mine.phase, "safe"}
           /\ \/ /\ d.kind = "blocked" /\ y.pending = {}
                 /\ y.todo = <<"save", "fence">>
              \/ /\ d.kind = "waiting" /\ y.pending = d.waits /\ y.mine.waits = d.waits
                 /\ y.todo = <<"save", "fence">>
              \/ /\ d.kind = "continue"
                 /\ y.todo = <<"save", "reconciled", "fence">>
           /\ \A f \in Executors : f # e => ex'[f] = ex[f]
  <2>1. \A k \in Actions : ledger'[k] = "none" <=> ledger[k] = "none"
    <3>1. \A k \in d.abandon : ledger[k] # "none"
      BY <1>1, <1>2, <1>5 DEF Attentive
    <3>2. \A k \in d.finish : ledger[k] # "none"
      BY <1>6 DEF Refused
    <3>. QED  BY <1>6, <3>1, <3>2
  <2>2. \A k \in Actions : Loose(k)' => Loose(k) /\ k \notin d.finish
    BY <1>2, <1>6 DEF Loose
  <2>3. \A k \in Actions : Loose(k)' => ledger'[k] = ledger[k]
    <3>1. \A k \in Actions : Loose(k) => k \notin d.abandon
      BY <1>6 DEF Loose, Accounted, TasksAreRecorded, Refused
    <3>. QED  BY <1>6, <2>2, <3>1
  <2>4. TasksAreRecorded'
    <3>1. \A k \in Actions : ledger'[k] \in {ledger[k], "failed", "succeeded"}
      BY <1>6
    <3>. QED  BY <1>2, <2>2, <2>3, <3>1 DEF Accounted, TasksAreRecorded
  <2>5. Abreast(ex[e])'
    <3>1. Abreast(y)
      BY <1>2, <1>5, <1>6, RowFirst DEF Abreast
    <3>. QED  BY <1>1, <1>2, <1>6, <2>1, <3>1 DEF Abreast, UnderWay, Untouched
  <2>6. Attentive(ex[e])'
    <3>1. ASSUME NEW k \in Actions, Loose(k)', k[1] = checkpoint.row.iteration
          PROVE  Holding(ex[e], k)'
      <4>1. Loose(k) /\ k \notin d.finish /\ Decided(d, k)
        BY <1>1, <1>2, <1>5, <2>2, <3>1 DEF Attentive, Holding
      <4>2. UnderWay
        BY <1>2, <1>5, <3>1, <4>1 DEF Loose, Attentive, Abreast, Untouched, Accounted,
                                      TasksAreRecorded
      <4>3. CASE d.kind = "blocked"
        BY <1>1, <1>2, <1>6, <4>2, <4>3, RowFirst DEF Holding, UnderWay
      <4>4. CASE d.kind = "waiting" /\ k \in d.waits
        BY <1>1, <1>6, <4>4 DEF Holding, Held
      <4>. QED  BY <4>1, <4>3, <4>4 DEF Decided
    <3>. QED  BY <1>1, <1>2, <1>6, <3>1 DEF Attentive
  <2>7. known \subseteq known'
    BY <1>6
  <2>. QED  BY <1>1, <1>2, <1>6, <2>1, <2>2, <2>4, <2>5, <2>6, <2>7, AtWorkAccounts
<1>7. CASE ~Refused(d)
  <2>1. /\ known' = known \cup d.finish
        /\ ledger' = [k \in Actions |->
                         IF k \in d.abandon THEN "failed"
                         ELSE IF k \in d.finish THEN "succeeded" ELSE ledger[k]]
    BY <1>1, <1>7 DEF ApplyReconcile
  <2>2. /\ settled.base = x.base /\ settled.mine.iteration = x.mine.iteration
        /\ settled.mine.phase = x.mine.phase /\ settled.mine.waits = d.waits
        /\ settled.pending = d.waits
        /\ {"at", "todo", "base", "mine", "pending"} \subseteq DOMAIN settled
        /\ {"iteration", "phase", "waits", "status"} \subseteq DOMAIN settled.mine
    BY <1>1, <1>4, Columns DEF Memory, Row
  <2>3. CASE /\ d.kind = "blocked"
             /\ Goes(e, [settled EXCEPT !.mine.waits = {}, !.pending = {}],
                     "commit", <<"save", "fence">>)
    <3>1. /\ y.at = "commit" /\ y.base = x.base /\ y.mine.iteration = x.mine.iteration
          /\ y.mine.phase = x.mine.phase /\ y.pending = {} /\ y.todo = <<"save", "fence">>
          /\ \A f \in Executors : f # e => ex'[f] = ex[f]
      BY <1>1, <2>2, <2>3 DEF Goes, Becomes, Inv
    <3>. QED  BY <1>6, <1>7, <2>1, <2>3, <3>1
  <2>4. CASE /\ d.kind = "waiting"
             /\ Goes(e, [settled EXCEPT !.mine.status = "waiting", !.mine.phase = "safe"],
                     "commit", <<"save", "fence">>)
    <3>1. /\ y.at = "commit" /\ y.base = x.base /\ y.mine.iteration = x.mine.iteration
          /\ y.mine.phase = "safe" /\ y.pending = d.waits /\ y.mine.waits = d.waits
          /\ y.todo = <<"save", "fence">> /\ \A f \in Executors : f # e => ex'[f] = ex[f]
      BY <1>1, <2>2, <2>4 DEF Goes, Becomes, Inv
    <3>. QED  BY <1>6, <1>7, <2>1, <2>4, <3>1
  <2>5. CASE /\ d.kind = "continue"
             /\ Goes(e, [settled EXCEPT !.mine.status = "running", !.mine.phase = "safe",
                                        !.pending = ex[e].pending],
                     "commit", <<"save", "reconciled", "fence">>)
    <3>1. /\ y.at = "commit" /\ y.base = x.base /\ y.mine.iteration = x.mine.iteration
          /\ y.mine.phase = "safe" /\ y.todo = <<"save", "reconciled", "fence">>
          /\ \A f \in Executors : f # e => ex'[f] = ex[f]
      BY <1>1, <2>2, <2>5 DEF Goes, Becomes, Inv
    <3>. QED  BY <1>6, <1>7, <2>1, <2>5, <3>1
  <2>. QED  BY <1>1, <1>4, <1>7, <2>3, <2>4, <2>5 DEF ApplyReconcile
<1>. QED  BY <1>1, <1>3, <1>7 DEF ApplyReconcile

(* A run that has to wait names what it waits for; one that is blocked     *)
(* leaves the checkpoint as it is.                                         *)
LEMMA CommitResumeAccounts ==
    ASSUME Inv, Inv', Accounted, NEW e \in Executors, CommitResume(e)
    PROVE  Accounted'
<1>1. PICK x, y : x = ex[e] /\ y = ex'[e]
  OBVIOUS
<1>2. UNCHANGED <<run, checkpoint, ledger, task, known>> /\ x.at = "commit" /\ x.todo = <<>>
  BY <1>1 DEF CommitResume, At, outside
<1>3. Abreast(x) /\ Attentive(x) /\ x.base = checkpoint /\ x \in Memory /\ x.mine \in Row
  BY <1>1, <1>2, Columns DEF Accounted, Working, Abreast
<1>4. ASSUME NEW k \in Actions, Loose(k), k[1] = checkpoint.row.iteration
      PROVE  Held(x, k) \/ (UnderWay /\ x.pending = {})
  BY <1>2, <1>3, <1>4 DEF Attentive, Holding
<1>5. ASSUME NEW place \in {"close", "iterate"}, NEW steps, ~WritesNext(steps),
             y.at = place, y.todo = steps, y.base = x.base,
             y.mine.iteration = x.mine.iteration, y.mine.phase = "safe",
             \A f \in Executors : f # e => ex'[f] = ex[f],
             \A k \in Actions : Loose(k) /\ k[1] = checkpoint.row.iteration
                => Held(y, k) \/ (UnderWay /\ place = "close" /\ ~Writes(steps))
      PROVE  Accounted'
  <2>1. Abreast(y)
    BY <1>2, <1>3, <1>5 DEF Abreast
  <2>2. Attentive(y)
    BY <1>5 DEF Attentive, Holding
  <2>. QED  BY <1>1, <1>2, <1>5, <2>1, <2>2, MemoryAccounts
<1>6. ASSUME NEW status \in {"waiting", "blocked", "running"}, NEW m,
             m = Mine(e, status, "safe")
      PROVE  /\ m \in Memory /\ m.mine \in Row /\ m.base = x.base
             /\ m.mine.iteration = x.mine.iteration /\ m.mine.phase = "safe"
             /\ m.mine.waits = x.mine.waits /\ m.pending = x.pending
  <2>1. m.mine.phase = "safe" /\ m.mine.waits = x.mine.waits
    BY <1>1, <1>3, <1>6 DEF Mine, Memory, Row
  <2>. QED  BY <1>1, <1>6, <2>1, MineTyped
<1>7. CASE /\ x.pending # {}
           /\ Goes(e, [Mine(e, "waiting", "safe") EXCEPT !.mine.waits = ex[e].pending],
                   "close", <<"save", "reconciled", "save">>)
  <2>1. PICK m : m = Mine(e, "waiting", "safe")
    OBVIOUS
  <2>2. /\ y.at = "close" /\ y.todo = <<"save", "reconciled", "save">> /\ y.base = x.base
        /\ y.mine.iteration = x.mine.iteration /\ y.mine.phase = "safe"
        /\ y.mine.waits = x.pending /\ y.pending = x.pending
        /\ \A f \in Executors : f # e => ex'[f] = ex[f]
    BY <1>1, <1>6, <1>7, <2>1 DEF Goes, Becomes, Inv, Memory, Row
  <2>3. \A k \in Actions : Loose(k) /\ k[1] = checkpoint.row.iteration => Held(y, k)
    BY <1>4, <1>7, <2>2 DEF Held
  <2>. QED  BY <1>5, <2>2, <2>3, RowFirst
<1>8. CASE x.pending = {} /\ Goes(e, Mine(e, "blocked", "safe"), "close", <<"save">>)
  <2>1. PICK m : m = Mine(e, "blocked", "safe")
    OBVIOUS
  <2>2. /\ y.at = "close" /\ y.todo = <<"save">> /\ y.base = x.base
        /\ y.mine.iteration = x.mine.iteration /\ y.mine.phase = "safe"
        /\ \A f \in Executors : f # e => ex'[f] = ex[f]
    BY <1>1, <1>6, <1>8, <2>1 DEF Goes, Becomes, Inv, Memory
  <2>3. \A k \in Actions : Loose(k) /\ k[1] = checkpoint.row.iteration => UnderWay
    BY <1>4, <1>8 DEF Held
  <2>. QED  BY <1>5, <2>2, <2>3, RowFirst
<1>9. CASE /\ x.pending = {} /\ ~ResumeBlocked(e)
           /\ Goes(e, Mine(e, "running", "safe"), "iterate",
                   <<"save", "checkpoint", "admit", "fence", "save", "checkpoint", "fence">>)
  <2>1. PICK m : m = Mine(e, "running", "safe")
    OBVIOUS
  <2>2. /\ y.at = "iterate" /\ y.base = x.base
        /\ y.todo = <<"save", "checkpoint", "admit", "fence", "save", "checkpoint", "fence">>
        /\ y.mine.iteration = x.mine.iteration /\ y.mine.phase = "safe"
        /\ \A f \in Executors : f # e => ex'[f] = ex[f]
    BY <1>1, <1>6, <1>9, <2>1 DEF Goes, Becomes, Inv, Memory
  <2>3. ~UnderWay
    BY <1>1, <1>3, <1>9 DEF ResumeBlocked, InFlight, UnderWay
  <2>4. \A k \in Actions : ~(Loose(k) /\ k[1] = checkpoint.row.iteration)
    BY <1>4, <1>9, <2>3 DEF Held
  <2>. QED  BY <1>5, <2>2, <2>4, RowFirst
<1>. QED  BY <1>1, <1>7, <1>8, <1>9 DEF CommitResume

LEMMA ResumeAccounts ==
    ASSUME Inv, Inv', Alone, Alone', Accounted, NEW e \in Executors, ResumeStep(e)
    PROVE  Accounted'
  BY CollectAccounts, RecordCollectedAccounts, ReconcileAccounts, ApplyReconcileAccounts,
     CommitResumeAccounts
  DEF ResumeStep

(* An executor in the loop, between boundaries.                            *)
LEMMA LoopingAccounts ==
    ASSUME Inv, Inv', Accounted, NEW e \in Executors, NEW x, NEW y, x = ex[e], y = ex'[e],
           \A f \in Executors : f # e => ex'[f] = ex[f],
           UNCHANGED <<run, checkpoint, ledger, task, known>>,
           x.at \in {"parse", "iterate", "begin", "assessed", "planned", "act", "result"},
           y.at \in {"iterate", "assessed", "planned", "act", "result", "close"},
           ~WritesNext(y.todo), y.base = x.base, y.pending = x.pending,
           y.mine.waits \in {x.mine.waits, x.pending},
           y.mine.iteration \in {x.mine.iteration, x.mine.iteration + 1},
           \/ y.mine.phase \in {x.mine.phase, "safe"}
           \/ Untouched(checkpoint.row.iteration),
           y.at \in {"assessed", "planned"} =>
              \A k \in Actions : ledger[k] # "none" => k[1] < y.mine.iteration,
           y.at = "planned" \/ (y.at = "assessed" /\ ~Writes(y.todo))
              => checkpoint.row.iteration = y.mine.iteration
    PROVE  Accounted'
<1>1. Abreast(x) /\ Attentive(x)
  BY DEF Accounted, Working
<1>2. run.iteration <= y.mine.iteration
  BY <1>1, Numbers DEF Abreast
<1>3. Abreast(y)
  BY <1>1, <1>2 DEF Abreast
<1>4. ASSUME NEW k \in Actions, Loose(k), k[1] = checkpoint.row.iteration
      PROVE  Holding(y, k)
  <2>1. Held(x, k)
    BY <1>1, <1>4 DEF Attentive, Holding
  <2>. QED  BY <2>1 DEF Holding, Held
<1>5. Attentive(y)
  BY <1>4 DEF Attentive
<1>. QED  BY <1>3, <1>5, MemoryAccounts

LEMMA LoopAccounts ==
    ASSUME Inv, Inv', Accounted, NEW e \in Executors, LoopStep(e)
    PROVE  Accounted'
<1>1. PICK x, y : x = ex[e] /\ y = ex'[e]
  OBVIOUS
<1>2. UNCHANGED <<run, checkpoint, ledger, task, known>>
  BY DEF LoopStep, ParseGoal, BeginIteration, Stop, Plan, GoInFlight, FinishActions,
         AfterActions, outside
<1>3. x \in Memory /\ x.mine \in Row
  BY <1>1, Columns
<1>4. CASE ParseGoal(e)
  <2>1. /\ x.at = "parse" /\ y.at = "iterate" /\ y.base = x.base /\ y.pending = x.pending
        /\ y.todo = <<"fence", "save", "checkpoint", "fence", "checkpoint", "fence">>
        /\ y.mine = x.mine /\ \A f \in Executors : f # e => ex'[f] = ex[f]
    BY <1>1, <1>3, <1>4 DEF ParseGoal, At, GoesOn, Goes, Becomes, Inv, Memory
  <2>. QED  BY <1>1, <1>2, <2>1, RowFirst, LoopingAccounts
<1>5. CASE BeginIteration(e)
  <2>1. /\ x.at \in {"iterate", "begin"} /\ y.at = "assessed" /\ y.base = x.base
        /\ y.pending = x.pending /\ y.mine.iteration = x.mine.iteration + 1
        /\ y.mine.phase = x.mine.phase /\ y.mine.waits = x.mine.waits
        /\ y.todo = <<"save", "fence", "save", "checkpoint">>
        /\ \A f \in Executors : f # e => ex'[f] = ex[f]
    BY <1>1, <1>3, <1>5 DEF BeginIteration, At, Goes, Becomes, Inv, Memory, Row
  <2>2. run.iteration <= x.mine.iteration
    BY <1>1, <2>1 DEF Accounted, Working, Abreast
  <2>3. \A k \in Actions : ledger[k] # "none" => k[1] < y.mine.iteration
    BY <1>1, <2>1, <2>2, Numbers DEF Accounted, RowsBehind, CheckpointBehind
  <2>. QED  BY <1>1, <1>2, <2>1, <2>3, RowFirst, LoopingAccounts
<1>6. CASE Stop(e)
  <2>1. PICK status \in {"terminal", "blocked"} :
           Goes(e, Mine(e, status, "safe"), "close", <<"fence", "save", "checkpoint">>)
    BY <1>6 DEF Stop
  <2>2. PICK m : m = Mine(e, status, "safe")
    OBVIOUS
  <2>3. /\ m \in Memory /\ m.base = x.base /\ m.pending = x.pending
        /\ m.mine.iteration = x.mine.iteration
    BY <1>1, <2>2, MineTyped
  <2>4. m.mine.phase = "safe" /\ m.mine.waits = x.mine.waits
    BY <1>1, <1>3, <2>2 DEF Mine, Memory, Row
  <2>5. /\ x.at \in {"iterate", "assessed"} /\ y.at = "close" /\ y.base = x.base
        /\ y.pending = x.pending /\ y.mine = m.mine
        /\ y.todo = <<"fence", "save", "checkpoint">>
        /\ \A f \in Executors : f # e => ex'[f] = ex[f]
    BY <1>1, <1>6, <2>1, <2>2, <2>3 DEF Stop, At, Goes, Becomes, Inv, Memory
  <2>. QED  BY <1>1, <1>2, <2>3, <2>4, <2>5, RowFirst, LoopingAccounts, ZenonT(60)
<1>7. CASE Plan(e)
  <2>1. x.at = "assessed" /\ x.todo = <<>>
    BY <1>1, <1>7 DEF Plan, At
  <2>2. /\ y.at = "planned" /\ y.base = x.base /\ y.pending = x.pending /\ y.mine = x.mine
        /\ y.todo \in {<<"save", "fence", "save", "checkpoint", "fence">>,
                       <<"save", "fence", "checkpoint", "fence">>}
        /\ \A f \in Executors : f # e => ex'[f] = ex[f]
    <3>1. CASE GoesOn(e, "planned", <<"save", "fence", "save", "checkpoint", "fence">>)
      BY <1>1, <1>3, <3>1 DEF GoesOn, Goes, Becomes, Inv, Memory
    <3>2. CASE Goes(e, [ex[e] EXCEPT !.recovery = TRUE], "planned",
                    <<"save", "fence", "checkpoint", "fence">>)
      BY <1>1, <1>3, <3>2 DEF Goes, Becomes, Inv, Memory
    <3>. QED  BY <1>7, <3>1, <3>2 DEF Plan
  <2>3. Abreast(x) /\ ~Writes(x.todo) /\ ~WritesNext(y.todo)
    BY <1>1, <2>1, <2>2, RowFirst DEF Accounted, Working
  <2>4. /\ checkpoint.row.iteration = x.mine.iteration
        /\ \A k \in Actions : ledger[k] # "none" => k[1] < x.mine.iteration
    BY <2>1, <2>3 DEF Abreast
  <2>. QED  BY <1>1, <1>2, <2>1, <2>2, <2>3, <2>4, LoopingAccounts
<1>8. CASE GoInFlight(e)
  <2>1. /\ x.at = "planned" /\ y.at = "act" /\ y.base = x.base
        /\ y.pending = x.pending /\ y.mine.iteration = x.mine.iteration
        /\ y.mine.waits = x.mine.waits /\ y.todo = <<"save", "checkpoint">>
        /\ \A f \in Executors : f # e => ex'[f] = ex[f]
    BY <1>1, <1>3, <1>8 DEF GoInFlight, At, Goes, Becomes, Inv, Memory, Row
  <2>2. Abreast(x)
    BY <1>1, <2>1 DEF Accounted, Working
  <2>3. Untouched(checkpoint.row.iteration)
    BY <1>1, <2>1, <2>2, Numbers DEF Abreast, Untouched
  <2>. QED  BY <1>1, <1>2, <2>1, <2>3, RowFirst, LoopingAccounts
<1>9. CASE FinishActions(e)
  <2>1. /\ x.at = "act" /\ y.at = "result" /\ y.base = x.base
        /\ y.pending = x.pending /\ y.mine.iteration = x.mine.iteration
        /\ y.mine.phase = "safe" /\ y.mine.waits = x.mine.waits
        /\ y.todo = <<"fence", "save", "checkpoint">>
        /\ \A f \in Executors : f # e => ex'[f] = ex[f]
    BY <1>1, <1>3, <1>9 DEF FinishActions, At, Goes, Becomes, Inv, Memory, Row
  <2>. QED  BY <1>1, <1>2, <2>1, RowFirst, LoopingAccounts
<1>10. CASE AfterActions(e)
  <2>1. /\ x.at = "result" /\ y.at \in {"close", "iterate"} /\ y.base = x.base
        /\ y.pending = x.pending /\ y.mine.iteration = x.mine.iteration
        /\ y.mine.phase = x.mine.phase /\ y.mine.waits \in {x.mine.waits, x.pending}
        /\ y.todo \in {<<"fence", "save", "checkpoint">>,
                       <<"save", "fence", "checkpoint", "fence">>, <<"fence">>}
        /\ \A f \in Executors : f # e => ex'[f] = ex[f]
    <3>1. CASE Goes(e, [ex[e] EXCEPT !.mine.status = "waiting", !.mine.waits = ex[e].pending],
                    "close", <<"fence", "save", "checkpoint">>)
      BY <1>1, <1>3, <1>10, <3>1 DEF AfterActions, At, Goes, Becomes, Inv, Memory, Row
    <3>2. CASE GoesOn(e, "iterate", <<"save", "fence", "checkpoint", "fence">>)
      BY <1>1, <1>3, <1>10, <3>2 DEF AfterActions, At, GoesOn, Goes, Becomes, Inv, Memory
    <3>3. CASE Goes(e, [ex[e] EXCEPT !.recovery = FALSE], "iterate", <<"fence">>)
      BY <1>1, <1>3, <1>10, <3>3 DEF AfterActions, At, Goes, Becomes, Inv, Memory
    <3>. QED  BY <1>10, <3>1, <3>2, <3>3 DEF AfterActions
  <2>2. ~WritesNext(y.todo)
    BY <2>1, RowFirst
  <2>. QED  BY <1>1, <1>2, <2>1, <2>2, LoopingAccounts
<1>. QED
  BY <1>4, <1>5, <1>6, <1>7, <1>8, <1>9, <1>10 DEF LoopStep

(* While an action is in hand the checkpoint is in flight, of its          *)
(* iteration.                                                              *)
LEMMA AtAction ==
    ASSUME Inv, Once, Accounted, NEW e \in Executors, NEW x, x = ex[e],
           x.at \in Handling \/ (x.at = "act" /\ x.todo = <<>>)
    PROVE  /\ UnderWay /\ x.base = checkpoint /\ x.mine.iteration = checkpoint.row.iteration
           /\ Running(e) /\ Abreast(x) /\ Attentive(x) /\ x \in Memory /\ x.mine \in Row
           /\ x.at \in Handling => x.action \in Actions
                                   /\ x.action[1] = checkpoint.row.iteration
           /\ \A k \in Actions :
                 Loose(k) /\ k[1] = checkpoint.row.iteration
                    => Held(x, k) \/ (x.at = "started" /\ x.action = k)
<1>1. /\ x \in Memory /\ x.mine \in Row /\ Running(e) /\ x.at # "read_checkpoint"
      /\ x.at \in Handling => x.action \in Actions
  BY Columns DEF Running, Handling, Placed
<1>2. Abreast(x) /\ Attentive(x)
  BY DEF Accounted, Working, Handling
<1>3. InHand(x) /\ (x.at \in Handling => x.action[1] = x.mine.iteration)
  <2>1. Stationed(x)
    BY DEF Once
  <2>2. CASE x.at = "act" /\ x.todo = <<>>
    <3>1. x.todo \notin {<<"save", "checkpoint">>, <<"checkpoint">>} /\ x.at \notin Handling
      BY <2>2 DEF Handling
    <3>. QED  BY <2>1, <2>2, <3>1 DEF Stationed
  <2>3. CASE x.at \in Handling
    BY <2>1, <2>3 DEF Stationed
  <2>. QED  BY <2>2, <2>3
<1>4. x.base = checkpoint
  BY <1>1, <1>2 DEF Abreast
<1>5. UnderWay /\ x.mine.iteration = checkpoint.row.iteration
  BY <1>3, <1>4 DEF InHand, UnderWay
<1>6. ASSUME NEW k \in Actions, Loose(k), k[1] = checkpoint.row.iteration
      PROVE  Held(x, k) \/ (x.at = "started" /\ x.action = k)
  BY <1>2, <1>6 DEF Attentive, Holding, Handling
<1>. QED  BY <1>1, <1>2, <1>3, <1>4, <1>5, <1>6

LEMMA ActingAccounts ==
    ASSUME Inv, Inv', Once, Alone, Alone', Accounted, NEW e \in Executors,
           NEW x, NEW y, x = ex[e], y = ex'[e],
           x.at \in Handling \/ (x.at = "act" /\ x.todo = <<>>),
           y.at \in Handling \cup {"act"}, y.base = x.base,
           y.mine.iteration = x.mine.iteration,
           y.todo \in {<<>>, <<"fence">>, <<"save">>},
           \A f \in Executors : f # e => ex'[f] = ex[f],
           UNCHANGED <<run, checkpoint>>, known \subseteq known',
           \A j \in Actions : ledger[j] = "none" /\ ledger'[j] # "none"
              => j[1] = checkpoint.row.iteration,
           TasksAreRecorded',
           y.at = "carry_out" /\ IsTask(y.action) => ledger'[y.action] = "dispatched",
           y.at = "started" => ledger'[y.action] = "dispatched",
           y.at = "returning" => ~IsTask(y.action),
           y.at = "record" => task'[y.action] = NoTask,
           \A j \in Actions : Loose(j)' /\ j[1] = checkpoint.row.iteration
              => Held(y, j) \/ (y.at = "started" /\ y.action = j)
    PROVE  Accounted'
<1>1. /\ UnderWay /\ x.base = checkpoint /\ x.mine.iteration = checkpoint.row.iteration
      /\ Running(e) /\ Abreast(x)
  BY AtAction
<1>2. y.at \notin {"new", "settle", "done", "gone", "apply", "assessed", "planned"}
  BY DEF Handling
<1>3. Abreast(ex[e])'
  <2>1. run'.iteration <= y.mine.iteration
    BY <1>1 DEF Abreast
  <2>2. ~WritesNext(y.todo)
    BY RowFirst
  <2>. QED  BY <1>1, <1>2, <2>1, <2>2 DEF Abreast, UnderWay
<1>4. Attentive(ex[e])'
  <2>1. \A j \in Actions : Loose(j)' /\ j[1] = checkpoint'.row.iteration => Holding(ex[e], j)'
    BY <1>2 DEF Holding, Held
  <2>. QED  BY <1>2, <2>1 DEF Attentive, IsTask
<1>. QED  BY <1>1, <1>2, <1>3, <1>4, AtWorkAccounts

LEMMA AnswersKeep ==
    ASSUME Inv, NEW e \in Executors, Answered(e), NEW x, NEW y, x = ex[e], y = ex'[e]
    PROVE  /\ y.at = "act" /\ y.todo = <<>> /\ y.base = x.base /\ y.mine = x.mine
           /\ y.pending = x.pending /\ \A f \in Executors : f # e => ex'[f] = ex[f]
  BY Columns DEF Answered, Goes, Becomes, Inv, Memory

(* An executor that goes on with the action in hand.                       *)
LEMMA HandsOn ==
    ASSUME Inv, NEW e \in Executors, NEW place, NEW steps, GoesOn(e, place, steps),
           NEW x, NEW y, x = ex[e], y = ex'[e]
    PROVE  /\ y.at = place /\ y.todo = steps /\ y.base = x.base /\ y.mine = x.mine
           /\ y.pending = x.pending /\ y.action = x.action
           /\ \A f \in Executors : f # e => ex'[f] = ex[f]
<1>1. x \in Memory
  BY Columns
<1>2. PICK z : z = [x EXCEPT !.at = place, !.todo = steps]
  OBVIOUS
<1>3. ex' = [ex EXCEPT ![e] = z]
  BY <1>2 DEF GoesOn, Goes, Becomes
<1>4. y = z /\ \A f \in Executors : f # e => ex'[f] = ex[f]
  BY <1>3 DEF Inv
<1>. QED  BY <1>1, <1>2, <1>4 DEF Memory

LEMMA NextActionAccounts ==
    ASSUME Inv, Inv', Once, Alone, Alone', Accounted, NEW e \in Executors, NextAction(e)
    PROVE  Accounted'
<1>1. PICK x, y : x = ex[e] /\ y = ex'[e]
  OBVIOUS
<1>2. UNCHANGED <<run, checkpoint, ledger, task, known>> /\ x.at = "act" /\ x.todo = <<>>
  BY <1>1 DEF NextAction, At, outside
<1>3. PICK k :
         /\ k[2] \in Ids
         /\ \/ Goes(e, [ex[e] EXCEPT !.action = k, !.acted = @ + 1], "prepare", <<"fence">>)
            \/ IsDirect(k)
               /\ Goes(e, [ex[e] EXCEPT !.action = k, !.acted = @ + 1], "carry_out", <<>>)
  BY DEF NextAction
<1>4. /\ y.at \in {"prepare", "carry_out"} /\ y.base = x.base /\ y.mine = x.mine
      /\ y.pending = x.pending /\ y.action = k /\ y.todo \in {<<>>, <<"fence">>}
      /\ y.at = "carry_out" => IsDirect(k)
      /\ \A f \in Executors : f # e => ex'[f] = ex[f]
  <2>1. CASE Goes(e, [ex[e] EXCEPT !.action = k, !.acted = @ + 1], "prepare", <<"fence">>)
    BY <1>1, <2>1, Columns DEF Goes, Becomes, Inv, Memory
  <2>2. CASE IsDirect(k)
             /\ Goes(e, [ex[e] EXCEPT !.action = k, !.acted = @ + 1], "carry_out", <<>>)
    BY <1>1, <2>2, Columns DEF Goes, Becomes, Inv, Memory
  <2>. QED  BY <1>3, <2>1, <2>2
<1>5. y.at = "carry_out" => ~IsTask(y.action)
  BY <1>4, ActionsAssumption DEF IsDirect, IsTask
<1>6. \A j \in Actions : Loose(j)' /\ j[1] = checkpoint.row.iteration => Held(y, j)
  <2>1. \A j \in Actions : Loose(j) /\ j[1] = checkpoint.row.iteration => Held(x, j)
    BY <1>1, <1>2, AtAction
  <2>. QED  BY <1>2, <1>4, <2>1 DEF Loose, Held
<1>7. TasksAreRecorded'
  BY <1>2 DEF Accounted, TasksAreRecorded, Loose, IsTask
<1>. QED  BY <1>1, <1>2, <1>4, <1>5, <1>6, <1>7, ActingAccounts DEF Handling

LEMMA PrepareAccounts ==
    ASSUME Inv, Inv', Once, Alone, Alone', Accounted, NEW e \in Executors, Prepare(e)
    PROVE  Accounted'
<1>1. PICK x, y, k : x = ex[e] /\ y = ex'[e] /\ k = ex[e].action
  OBVIOUS
<1>2. UNCHANGED <<run, checkpoint, task, known>> /\ x.at = "prepare" /\ x.at \in Handling
  BY <1>1 DEF Prepare, At, outside, Handling
<1>3. /\ k \in Actions /\ k[1] = checkpoint.row.iteration
      /\ \A j \in Actions : Loose(j) /\ j[1] = checkpoint.row.iteration => Held(x, j)
  BY <1>1, <1>2, AtAction
<1>4. \A j : Loose(j)' <=> Loose(j)
  BY <1>2 DEF Loose
<1>5. CASE UNCHANGED ledger /\ Answered(e)
  <2>1. TasksAreRecorded'
    BY <1>2, <1>4, <1>5 DEF Accounted, TasksAreRecorded, IsTask
  <2>2. /\ y.at = "act" /\ y.todo = <<>> /\ y.base = x.base /\ y.mine = x.mine
        /\ y.pending = x.pending /\ \A f \in Executors : f # e => ex'[f] = ex[f]
    BY <1>1, <1>5, AnswersKeep
  <2>3. \A j \in Actions : Loose(j)' /\ j[1] = checkpoint.row.iteration => Held(y, j)
    BY <1>3, <1>4, <2>2 DEF Held
  <2>. QED  BY <1>1, <1>2, <1>5, <2>1, <2>2, <2>3, ActingAccounts
<1>6. CASE UNCHANGED ledger /\ ledger[k] = "dispatched" /\ GoesOn(e, "carry_out", <<>>)
  <2>1. TasksAreRecorded'
    BY <1>2, <1>4, <1>6 DEF Accounted, TasksAreRecorded, IsTask
  <2>2. /\ y.at = "carry_out" /\ y.todo = <<>> /\ y.base = x.base /\ y.mine = x.mine
        /\ y.pending = x.pending /\ y.action = k
        /\ \A f \in Executors : f # e => ex'[f] = ex[f]
    BY <1>1, <1>6, HandsOn
  <2>3. \A j \in Actions : Loose(j)' /\ j[1] = checkpoint.row.iteration => Held(y, j)
    BY <1>3, <1>4, <2>2 DEF Held
  <2>. QED  BY <1>1, <1>2, <1>6, <2>1, <2>2, <2>3, ActingAccounts DEF Handling
<1>7. CASE /\ ledger[k] \in {"none", "prepared"}
           /\ ledger' = [ledger EXCEPT ![k] = "prepared"]
           /\ GoesOn(e, "dispatch", <<"fence">>)
  <2>1. \A j \in Actions : j # k => ledger'[j] = ledger[j]
    BY <1>7 DEF Inv, Typed
  <2>2. TasksAreRecorded'
    BY <1>2, <1>4, <1>7, <2>1 DEF Accounted, TasksAreRecorded, IsTask
  <2>3. /\ y.at = "dispatch" /\ y.todo = <<"fence">> /\ y.base = x.base /\ y.mine = x.mine
        /\ y.pending = x.pending /\ \A f \in Executors : f # e => ex'[f] = ex[f]
    BY <1>1, <1>7, HandsOn
  <2>4. \A j \in Actions : Loose(j)' /\ j[1] = checkpoint.row.iteration => Held(y, j)
    BY <1>3, <1>4, <2>3 DEF Held
  <2>. QED  BY <1>1, <1>2, <1>3, <2>1, <2>2, <2>3, <2>4, ActingAccounts DEF Handling
<1>. QED  BY <1>1, <1>5, <1>6, <1>7 DEF Prepare

LEMMA DispatchAccounts ==
    ASSUME Inv, Inv', Once, Alone, Alone', Accounted, NEW e \in Executors, Dispatch(e)
    PROVE  Accounted'
<1>1. PICK x, y, k : x = ex[e] /\ y = ex'[e] /\ k = ex[e].action
  OBVIOUS
<1>2. UNCHANGED <<run, checkpoint, task, known>> /\ x.at = "dispatch" /\ x.at \in Handling
  BY <1>1 DEF Dispatch, At, outside, Handling
<1>3. /\ k \in Actions /\ k[1] = checkpoint.row.iteration
      /\ \A j \in Actions : Loose(j) /\ j[1] = checkpoint.row.iteration => Held(x, j)
  BY <1>1, <1>2, AtAction
<1>4. \A j : Loose(j)' <=> Loose(j)
  BY <1>2 DEF Loose
<1>5. CASE UNCHANGED ledger /\ Answered(e)
  <2>1. TasksAreRecorded'
    BY <1>2, <1>4, <1>5 DEF Accounted, TasksAreRecorded, IsTask
  <2>2. /\ y.at = "act" /\ y.todo = <<>> /\ y.base = x.base /\ y.mine = x.mine
        /\ y.pending = x.pending /\ \A f \in Executors : f # e => ex'[f] = ex[f]
    BY <1>1, <1>5, AnswersKeep
  <2>3. \A j \in Actions : Loose(j)' /\ j[1] = checkpoint.row.iteration => Held(y, j)
    BY <1>3, <1>4, <2>2 DEF Held
  <2>. QED  BY <1>1, <1>2, <1>5, <2>1, <2>2, <2>3, ActingAccounts
<1>6. CASE /\ ledger[k] \in {"prepared", "dispatched"}
           /\ ledger' = [ledger EXCEPT ![k] = "dispatched"]
           /\ GoesOn(e, "carry_out", <<>>)
  <2>1. ledger'[k] = "dispatched" /\ \A j \in Actions : j # k => ledger'[j] = ledger[j]
    BY <1>3, <1>6 DEF Inv, Typed
  <2>2. TasksAreRecorded'
    BY <1>2, <1>4, <2>1 DEF Accounted, TasksAreRecorded, IsTask
  <2>3. /\ y.at = "carry_out" /\ y.todo = <<>> /\ y.base = x.base /\ y.mine = x.mine
        /\ y.pending = x.pending /\ y.action = k
        /\ \A f \in Executors : f # e => ex'[f] = ex[f]
    BY <1>1, <1>6, HandsOn
  <2>4. \A j \in Actions : Loose(j)' /\ j[1] = checkpoint.row.iteration => Held(y, j)
    BY <1>3, <1>4, <2>3 DEF Held
  <2>. QED  BY <1>1, <1>2, <1>3, <2>1, <2>2, <2>3, <2>4, ActingAccounts DEF Handling
<1>. QED  BY <1>1, <1>5, <1>6 DEF Dispatch

LEMMA RunToolAccounts ==
    ASSUME Inv, Inv', Once, Alone, Alone', Accounted, NEW e \in Executors, RunTool(e)
    PROVE  Accounted'
<1>1. PICK x, y, k : x = ex[e] /\ y = ex'[e] /\ k = ex[e].action
  OBVIOUS
<1>2. /\ UNCHANGED <<run, checkpoint, ledger, task, known>> /\ ~IsTask(k)
      /\ x.at = "carry_out" /\ x.at \in Handling /\ GoesOn(e, "returning", <<>>)
  BY <1>1 DEF RunTool, At, Handling
<1>3. \A j \in Actions : Loose(j) /\ j[1] = checkpoint.row.iteration => Held(x, j)
  BY <1>1, <1>2, AtAction
<1>4. /\ y.at = "returning" /\ y.todo = <<>> /\ y.base = x.base /\ y.mine = x.mine
      /\ y.pending = x.pending /\ y.action = k
      /\ \A f \in Executors : f # e => ex'[f] = ex[f]
  BY <1>1, <1>2, HandsOn
<1>5. TasksAreRecorded'
  BY <1>2 DEF Accounted, TasksAreRecorded, Loose, IsTask
<1>6. \A j \in Actions : Loose(j)' /\ j[1] = checkpoint.row.iteration => Held(y, j)
  BY <1>2, <1>3, <1>4 DEF Loose, Held
<1>. QED  BY <1>1, <1>2, <1>4, <1>5, <1>6, ActingAccounts DEF Handling

LEMMA ToolReturnsAccounts ==
    ASSUME Inv, Inv', Once, Alone, Alone', Accounted, NEW e \in Executors, ToolReturns(e)
    PROVE  Accounted'
<1>1. PICK x, y, k : x = ex[e] /\ y = ex'[e] /\ k = ex[e].action
  OBVIOUS
<1>2. /\ UNCHANGED <<run, checkpoint, ledger, task>> /\ known' = known \cup {k}
      /\ x.at = "returning" /\ x.at \in Handling
  BY <1>1 DEF ToolReturns, At, Handling
<1>3. /\ k \in Actions /\ Attentive(x)
      /\ \A j \in Actions : Loose(j) /\ j[1] = checkpoint.row.iteration => Held(x, j)
  BY <1>1, <1>2, AtAction
<1>4. task[k] = NoTask
  BY <1>1, <1>2, <1>3 DEF Attentive, Accounted, TasksAreRecorded
<1>5. \A j : Loose(j)' => Loose(j)
  BY <1>2 DEF Loose
<1>6. TasksAreRecorded'
  BY <1>2, <1>5 DEF Accounted, TasksAreRecorded, IsTask
<1>7. ASSUME y.at \in {"act", "record"}, y.at = "record" => y.action = k,
             y.todo \in {<<>>, <<"fence">>}, y.base = x.base, y.mine = x.mine,
             y.pending = x.pending, \A f \in Executors : f # e => ex'[f] = ex[f]
      PROVE  Accounted'
  <2>1. \A j \in Actions : Loose(j)' /\ j[1] = checkpoint.row.iteration => Held(y, j)
    BY <1>3, <1>5, <1>7 DEF Held
  <2>. QED
    BY <1>1, <1>2, <1>4, <1>6, <1>7, <2>1, ActingAccounts DEF Handling
<1>8. CASE Answered(e)
  BY <1>1, <1>7, <1>8, AnswersKeep
<1>9. CASE GoesOn(e, "record", <<"fence">>)
  BY <1>1, <1>7, <1>9, HandsOn
<1>. QED  BY <1>8, <1>9 DEF ToolReturns

(* A task that is started is in the ledger, and the executor has it in     *)
(* hand; or it was told that the call failed.                              *)
LEMMA RunTaskAccounts ==
    ASSUME Inv, Inv', Once, Alone, Alone', Accounted, NEW e \in Executors, RunTask(e)
    PROVE  Accounted'
<1>1. PICK x, y, k : x = ex[e] /\ y = ex'[e] /\ k = ex[e].action
  OBVIOUS
<1>2. /\ UNCHANGED <<run, checkpoint, ledger>> /\ IsTask(k)
      /\ x.at = "carry_out" /\ x.at \in Handling /\ known \subseteq known'
  BY <1>1 DEF RunTask, At, Handling
<1>3. /\ k \in Actions /\ Attentive(x)
      /\ \A j \in Actions : Loose(j) /\ j[1] = checkpoint.row.iteration => Held(x, j)
  BY <1>1, <1>2, AtAction
<1>4. ledger[k] = "dispatched"
  BY <1>1, <1>2, <1>3 DEF Attentive
<1>5. \A j \in Actions : j # k => task'[j] = task[j]
  BY <1>1 DEF RunTask, Inv, Typed
<1>6. \A j \in Actions : Loose(j)' => Loose(j) \/ j = k
  BY <1>2, <1>5 DEF Loose
<1>7. TasksAreRecorded'
  BY <1>2, <1>4, <1>5, <1>6 DEF Accounted, TasksAreRecorded, IsTask
<1>8. ASSUME Loose(k)' => y.at = "started" \/ Held(y, k),
             y.at \in {"act", "record", "started"}, y.at # "act" => y.action = k,
             y.at = "record" => task'[k] = NoTask,
             y.todo \in {<<>>, <<"fence">>}, y.base = x.base, y.mine = x.mine,
             y.pending = x.pending, \A f \in Executors : f # e => ex'[f] = ex[f]
      PROVE  Accounted'
  <2>1. \A j \in Actions : Loose(j)' /\ j[1] = checkpoint.row.iteration
           => Held(y, j) \/ (y.at = "started" /\ y.action = j)
    BY <1>3, <1>6, <1>8 DEF Held
  <2>. QED
    BY <1>1, <1>2, <1>4, <1>7, <1>8, <2>1, ActingAccounts DEF Handling
<1>9. CASE GoesOn(e, "started", <<"fence">>)
  BY <1>1, <1>8, <1>9, HandsOn
<1>10. CASE ~Recognised(k) /\ UNCHANGED task /\ GoesOn(e, "record", <<"fence">>)
  <2>1. task'[k] = NoTask /\ ~Loose(k)'
    BY <1>10 DEF Recognised, Loose
  <2>. QED  BY <1>1, <1>8, <1>10, <2>1, HandsOn
<1>11. CASE Answered(e) /\ known' = known \cup {k}
  <2>1. ~Loose(k)'
    BY <1>11 DEF Loose
  <2>. QED  BY <1>1, <1>8, <1>11, <2>1, AnswersKeep
<1>. QED  BY <1>1, <1>9, <1>10, <1>11 DEF RunTask

LEMMA RecordStartedAccounts ==
    ASSUME Inv, Inv', Once, Alone, Alone', Accounted, NEW e \in Executors, RecordStarted(e)
    PROVE  Accounted'
<1>1. PICK x, y, k : x = ex[e] /\ y = ex'[e] /\ k = ex[e].action
  OBVIOUS
<1>2. /\ UNCHANGED <<run, checkpoint, task, known>>
      /\ x.at = "started" /\ x.at \in Handling
  BY <1>1 DEF RecordStarted, At, outside, Handling
<1>3. /\ k \in Actions /\ Attentive(x) /\ x \in Memory /\ x.mine \in Row
      /\ \A j \in Actions :
            Loose(j) /\ j[1] = checkpoint.row.iteration => Held(x, j) \/ j = k
  BY <1>1, <1>2, AtAction
<1>4. ledger[k] = "dispatched"
  BY <1>1, <1>2, <1>3 DEF Attentive
<1>5. /\ ledger' = [ledger EXCEPT ![k] = "waiting"]
      /\ Goes(e, [ex[e] EXCEPT !.action = NoAction, !.pending = x.pending \cup {k},
                               !.mine.waits = x.pending \cup {k}], "act", <<"save">>)
  BY <1>1, <1>4 DEF RecordStarted
<1>6. ledger'[k] = "waiting" /\ \A j \in Actions : j # k => ledger'[j] = ledger[j]
  BY <1>3, <1>5 DEF Inv, Typed
<1>7. \A j : Loose(j)' <=> Loose(j)
  BY <1>2 DEF Loose
<1>8. TasksAreRecorded'
  BY <1>2, <1>6, <1>7 DEF Accounted, TasksAreRecorded, IsTask
<1>9. /\ y.at = "act" /\ y.todo = <<"save">> /\ y.base = x.base
      /\ y.mine.iteration = x.mine.iteration /\ y.mine.waits = x.pending \cup {k}
      /\ y.pending = x.pending \cup {k} /\ \A f \in Executors : f # e => ex'[f] = ex[f]
  BY <1>1, <1>3, <1>5 DEF Goes, Becomes, Inv, Memory, Row
<1>10. \A j \in Actions : Loose(j)' /\ j[1] = checkpoint.row.iteration => Held(y, j)
  BY <1>3, <1>7, <1>9 DEF Held
<1>11. \A j \in Actions : ledger[j] = "none" => ledger'[j] = "none"
  BY <1>4, <1>6
<1>. QED  BY <1>1, <1>2, <1>8, <1>9, <1>10, <1>11, ActingAccounts

LEMMA RecordResultAccounts ==
    ASSUME Inv, Inv', Once, Alone, Alone', Accounted, NEW e \in Executors, RecordResult(e)
    PROVE  Accounted'
<1>1. PICK x, y, k : x = ex[e] /\ y = ex'[e] /\ k = ex[e].action
  OBVIOUS
<1>2. /\ UNCHANGED <<run, checkpoint, task, known>> /\ Answered(e)
      /\ x.at = "record" /\ x.at \in Handling
  BY <1>1 DEF RecordResult, At, outside, Handling
<1>3. /\ k \in Actions /\ Attentive(x)
      /\ \A j \in Actions : Loose(j) /\ j[1] = checkpoint.row.iteration => Held(x, j)
  BY <1>1, <1>2, AtAction
<1>4. task[k] = NoTask
  BY <1>1, <1>2, <1>3 DEF Attentive
<1>5. /\ ledger[k] = "none" => ledger'[k] = "none"
      /\ \A j \in Actions : j # k => ledger'[j] = ledger[j]
  BY <1>1, <1>3 DEF RecordResult, Inv, Typed
<1>6. \A j : Loose(j)' <=> Loose(j)
  BY <1>2 DEF Loose
<1>7. TasksAreRecorded'
  BY <1>2, <1>4, <1>5, <1>6 DEF Accounted, TasksAreRecorded, IsTask
<1>8. /\ y.at = "act" /\ y.todo = <<>> /\ y.base = x.base /\ y.mine = x.mine
      /\ y.pending = x.pending /\ \A f \in Executors : f # e => ex'[f] = ex[f]
  BY <1>1, <1>2, AnswersKeep
<1>9. \A j \in Actions : Loose(j)' /\ j[1] = checkpoint.row.iteration => Held(y, j)
  BY <1>3, <1>6, <1>8 DEF Held
<1>10. \A j \in Actions : ledger[j] = "none" => ledger'[j] = "none"
  BY <1>5
<1>. QED  BY <1>1, <1>2, <1>7, <1>8, <1>9, <1>10, ActingAccounts

LEMMA ActionAccounts ==
    ASSUME Inv, Inv', Once, Alone, Alone', Accounted, NEW e \in Executors, ActionStep(e)
    PROVE  Accounted'
  BY NextActionAccounts, PrepareAccounts, DispatchAccounts, RunToolAccounts,
     ToolReturnsAccounts, RunTaskAccounts, RecordStartedAccounts, RecordResultAccounts
  DEF ActionStep

(* The world. *)

LEMMA CrashAccounts ==
    ASSUME Inv, Inv', Accounted, NEW p \in Processes, Crash(p)
    PROVE  Accounted'
<1>1. UNCHANGED <<run, checkpoint, ledger, task, known>>
  BY DEF Crash
<1>2. PICK z : z = [Fresh EXCEPT !.at = "gone"]
  OBVIOUS
<1>3. z.at = "gone" /\ z.todo = <<>>
  BY <1>2 DEF Fresh
<1>4. \A f \in Executors : ex'[f] \in {ex[f], z}
  BY <1>2 DEF Crash
<1>5. Idle' /\ NothingYet'
  <2>1. Idle'
    BY <1>3, <1>4 DEF Accounted, Idle
  <2>2. NothingYet'
    BY <1>1, <1>3, <1>4 DEF Accounted, NothingYet
  <2>. QED  BY <2>1, <2>2
<1>6. \A k : Loose(k)' <=> Loose(k)
  BY <1>1 DEF Loose
<1>7. RowsBehind' /\ CheckpointBehind' /\ TasksAreRecorded' /\ StartsClean'
  BY <1>1, <1>6 DEF Accounted, RowsBehind, CheckpointBehind, TasksAreRecorded, StartsClean,
                    UnderWay, Untouched, IsTask
<1>8. LooseAreWaitedFor'
  BY <1>1, <1>6 DEF Accounted, LooseAreWaitedFor, UnderWay
<1>9. ASSUME NEW f \in Executors, Working(ex'[f])
      PROVE  Abreast(ex[f])' /\ Attentive(ex[f])'
  <2>1. ex'[f] = ex[f]
    BY <1>3, <1>4, <1>9 DEF Working
  <2>2. Abreast(ex[f]) /\ Attentive(ex[f])
    BY <1>9, <2>1 DEF Accounted
  <2>3. Abreast(ex[f])'
    BY <1>1, <2>1, <2>2 DEF Abreast, UnderWay, Untouched
  <2>4. Attentive(ex[f])'
    BY <1>1, <1>6, <2>1, <2>2 DEF Attentive, Holding, UnderWay, IsTask
  <2>. QED  BY <2>3, <2>4
<1>. QED  BY <1>5, <1>7, <1>8, <1>9 DEF Accounted, Working

LEMMA WorldAccounts ==
    ASSUME Inv, Accounted,
           \/ \E k \in Actions : TaskFinishes(k)
           \/ Tick
           \/ UNCHANGED vars
    PROVE  Accounted'
<1>1. UNCHANGED <<run, checkpoint, ledger, ex, known>>
  BY DEF TaskFinishes, Tick, vars, outside
<1>2. \A k \in Actions : task'[k] = NoTask <=> task[k] = NoTask
  <2>1. ASSUME NEW j \in Actions, TaskFinishes(j)
        PROVE  \A k \in Actions : task'[k] = NoTask <=> task[k] = NoTask
    <3>1. \A k \in Actions : k # j => task'[k] = task[k]
      BY <2>1 DEF TaskFinishes, Inv, Typed
    <3>2. task[j].status = "running" /\ task'[j].status = "finished"
      BY <2>1 DEF TaskFinishes, Inv, Typed
    <3>. QED  BY <3>1, <3>2 DEF NoTask
  <2>. QED  BY <2>1 DEF Tick, vars, outside
<1>3. \A k \in Actions : Loose(k)' <=> Loose(k)
  BY <1>1, <1>2 DEF Loose
<1>4. Idle' /\ NothingYet' /\ RowsBehind' /\ CheckpointBehind' /\ StartsClean'
  BY <1>1 DEF Accounted, Idle, NothingYet, RowsBehind, CheckpointBehind, StartsClean,
              UnderWay, Untouched
<1>5. TasksAreRecorded' /\ LooseAreWaitedFor'
  BY <1>1, <1>2, <1>3 DEF Accounted, TasksAreRecorded, LooseAreWaitedFor, UnderWay, IsTask
<1>6. ASSUME NEW f \in Executors, Working(ex'[f])
      PROVE  Abreast(ex[f])' /\ Attentive(ex[f])'
  <2>1. Abreast(ex[f]) /\ Attentive(ex[f])
    BY <1>1, <1>6 DEF Accounted
  <2>2. Abreast(ex[f])'
    BY <1>1, <2>1 DEF Abreast, UnderWay, Untouched
  <2>3. Attentive(ex[f])'
    <3>1. ex[f].at = "record" => task'[ex[f].action] = NoTask
      <4>1. ex[f].at = "record" => ex[f].action \in Actions
        BY Columns DEF Placed, Handling
      <4>. QED  BY <1>2, <2>1, <4>1 DEF Attentive
    <3>2. \A k \in Actions : Loose(k)' /\ k[1] = checkpoint.row.iteration => Holding(ex[f], k)'
      BY <1>1, <1>3, <2>1 DEF Attentive, Holding, Held, UnderWay
    <3>. QED  BY <1>1, <2>1, <3>1, <3>2 DEF Attentive, UnderWay, IsTask
  <2>. QED  BY <2>2, <2>3
<1>. QED  BY <1>4, <1>5, <1>6 DEF Accounted, Working

LEMMA AccountedHolds == Init => Accounted
<1>. SUFFICES ASSUME Init
              PROVE  Accounted
  OBVIOUS
<1>1. \A e \in Executors : ex[e].at = "new" /\ ex[e].todo = <<>>
  BY DEF Init, Fresh
<1>2. \A k \in Actions : ledger[k] = "none" /\ task[k] = NoTask
  BY DEF Init
<1>3. run = NoRun /\ checkpoint = NoCheckpoint /\ run.iteration = 0
      /\ checkpoint.row.iteration = 0
  BY DEF Init, NoRun, NoCheckpoint
<1>4. Idle /\ NothingYet
  BY <1>1, <1>3 DEF Idle, NothingYet
<1>5. RowsBehind /\ CheckpointBehind /\ TasksAreRecorded /\ StartsClean /\ LooseAreWaitedFor
  BY <1>2, <1>3 DEF RowsBehind, CheckpointBehind, TasksAreRecorded, StartsClean, Untouched,
                    LooseAreWaitedFor, Loose
<1>6. \A e \in Executors : ~Working(ex[e])
  BY <1>1 DEF Working
<1>. QED  BY <1>4, <1>5, <1>6 DEF Accounted

LEMMA NextKeepsAccounted ==
    Inv /\ Inv' /\ Once /\ Alone /\ Alone' /\ Accounted /\ [Next]_vars => Accounted'
<1>. SUFFICES ASSUME Inv, Inv', Once, Alone, Alone', Accounted, [Next]_vars
              PROVE  Accounted'
  OBVIOUS
<1>1. ASSUME NEW e \in Executors, Cancel(e)
      PROVE  Accounted'
  <2>1. UNCHANGED <<run, checkpoint, ledger, task, known>>
    BY <1>1 DEF Cancel, outside
  <2>. QED  BY <1>1, <2>1, LeavingAccounts DEF Cancel, Aborts, Left
<1>2. ASSUME NEW e \in Executors,
             \/ BoundaryStep(e) \/ SessionStep(e) \/ ResumeStep(e)
             \/ LoopStep(e) \/ ActionStep(e) \/ Cancel(e)
      PROVE  Accounted'
  BY <1>1, <1>2, BoundaryAccounts, SessionAccounts, ResumeAccounts, LoopAccounts,
     ActionAccounts
<1>3. ASSUME NEW p \in Processes, Crash(p)
      PROVE  Accounted'
  BY <1>3, CrashAccounts
<1>. QED  BY <1>2, <1>3, WorldAccounts DEF Next

(* As long as no two executors are at work at once, a checkpoint that a    *)
(* resume may continue from leaves no effect of the ledger's actions       *)
(* unaccounted: whatever executors crash, are cancelled or lose their      *)
(* lease, its actions' outcomes were told, or the run waits for them.      *)
THEOREM LoneExecutorsAccount == Spec /\ []Alone => []SafeCheckpointsAreAccounted
<1>1. Once /\ Told /\ Accounted => SafeCheckpointsAreAccounted
  <2>. SUFFICES ASSUME Once, Told, Accounted, checkpoint.row.phase = "safe",
                       NEW k \in Actions, k[1] = checkpoint.row.iteration, ~IsDirect(k),
                       effects[k] > 0, k \notin known
                PROVE  k \in run.waits
    BY DEF SafeCheckpointsAreAccounted
  <2>1. CASE IsTask(k)
    <3>1. task[k] # NoTask
      BY <2>1 DEF Once, TasksRunOnce
    <3>. QED  BY <3>1 DEF Accounted, LooseAreWaitedFor, UnderWay, Loose
  <2>2. CASE ~IsTask(k)
    BY <2>2 DEF Told, OutcomesAreKnown, UntoldAreInFlight, Untold, IsCommand
  <2>. QED  BY <2>1, <2>2
<1>2. Inv /\ [Next]_vars => Inv'
  BY NextKeeps
<1>. QED
  BY <1>1, <1>2, InitHolds, OnceHolds, NextKeepsOnce, ToldHolds, NextKeepsTold,
     AccountedHolds, NextKeepsAccounted, PTL DEF Spec

(* In one process the loop's operation lock lets one executor work at a    *)
(* time; when a process takes over from one that crashed, executors are    *)
(* alone as well, unless an older one has survived.                        *)
OneProcess == \A e, f \in Executors : ProcessOf[e] = ProcessOf[f]

LEMMA OthersStay ==
    ASSUME Inv, NEW e \in Executors, \/ BoundaryStep(e) \/ SessionStep(e) \/ ResumeStep(e)
                                     \/ LoopStep(e) \/ ActionStep(e) \/ Cancel(e)
    PROVE  \A f \in Executors : f # e => ex'[f] = ex[f]
<1>. DEFINE Same == \A f \in Executors : f # e => ex'[f] = ex[f]
<1>1. \A r : Becomes(e, r) => Same
  BY DEF Becomes, Inv
<1>2. \A r, place, steps : Goes(e, r, place, steps) => Same
  BY <1>1 DEF Goes
<1>3. \A place, steps : GoesOn(e, place, steps) => Same
  BY <1>2 DEF GoesOn
<1>4. (Answered(e) => Same) /\ (LosesLease(e) => Same) /\ (Aborts(e) => Same)
      /\ (UNCHANGED ex => Same)
  BY <1>1, <1>2 DEF Answered, LosesLease, Aborts
<1>. HIDE DEF Same
<1>5. BoundaryStep(e) => Same
  BY <1>1, <1>2, <1>4
  DEF BoundaryStep, Fence, SaveRun, SaveCheckpoint, MarkAdmitted
<1>6. SessionStep(e) => Same
  BY <1>1, <1>2, <1>3, <1>4
  DEF SessionStep, Start, ReadRun, ReadCheckpoint, OpenLease, Renew, Close, Settle
<1>7. ResumeStep(e) => Same
  BY <1>1, <1>2, <1>3, <1>4
  DEF ResumeStep, Collect, RecordCollected, Reconcile, ApplyReconcile, CommitResume
<1>8. LoopStep(e) => Same
  BY <1>1, <1>2, <1>3, <1>4, SMTT(30)
  DEF LoopStep, ParseGoal, BeginIteration, Stop, Plan, GoInFlight, FinishActions, AfterActions
<1>9. ActionStep(e) => Same
  BY <1>1, <1>2, <1>3, <1>4
  DEF ActionStep, NextAction, Prepare, Dispatch, RunTool, ToolReturns, RunTask, RecordStarted,
      RecordResult
<1>10. Cancel(e) => Same
  BY <1>4 DEF Cancel
<1>. QED  BY <1>5, <1>6, <1>7, <1>8, <1>9, <1>10 DEF Same

LEMMA OneProcessIsAlone ==
    ASSUME OneProcess, Inv, Accounted, Alone, [Next]_vars
    PROVE  Alone'
<1>1. ASSUME NEW e \in Executors, \A f \in Executors : f # e => ex'[f] = ex[f],
             Running(e) \/ ~Running(e)' \/ \A f \in Executors : f # e => ~Running(f)
      PROVE  Alone'
  BY <1>1 DEF Alone, Running
<1>2. ASSUME NEW e \in Executors, Start(e)
      PROVE  \A f \in Executors : f # e => ~Running(f)
  BY <1>2 DEF Start, At, Running
<1>3. ASSUME NEW e \in Executors, ReadRun(e)
      PROVE  ~Running(e)' \/ \A f \in Executors : f # e => ~Running(f)
  <2>1. CASE ~Busy(e)
    BY <2>1 DEF Busy, OneProcess
  <2>2. CASE GoesOn(e, "done", <<>>)
    <3>1. ex'[e].at = "done"
      BY <2>2, Columns DEF GoesOn, Goes, Becomes, Inv, Memory
    <3>. QED  BY <3>1 DEF Running
  <2>. QED  BY <1>3, <2>1, <2>2 DEF ReadRun
<1>4. ASSUME NEW e \in Executors, ex[e].todo # <<>>
      PROVE  Running(e)
  BY <1>4 DEF Running, Accounted, Idle
<1>5. ASSUME NEW e \in Executors, BoundaryStep(e) \/ Cancel(e)
      PROVE  Running(e)
  <2>1. CASE ex[e].todo # <<>>
    BY <1>4, <2>1
  <2>2. CASE \E place \in {"parse", "open", "collect", "iterate", "assessed", "act",
                           "carry_out", "returning"} : At(e, place)
    BY <2>2, SMTT(30) DEF At, Running
  <2>. QED
    BY <1>5, <2>1, <2>2 DEF BoundaryStep, Fence, SaveRun, SaveCheckpoint, MarkAdmitted, Due,
                            Cancel, Awaits
<1>6. ASSUME NEW e \in Executors,
             \/ ReadCheckpoint(e) \/ OpenLease(e) \/ Renew(e) \/ Close(e) \/ Settle(e)
             \/ ResumeStep(e) \/ LoopStep(e) \/ ActionStep(e)
      PROVE  Running(e)
  BY <1>6 DEF ReadCheckpoint, OpenLease, Renew, Close, Settle, ResumeStep, Collect,
              RecordCollected, Reconcile, ApplyReconcile, CommitResume, LoopStep, ParseGoal,
              BeginIteration, Stop, Plan, GoInFlight, FinishActions, AfterActions, ActionStep,
              NextAction, Prepare, Dispatch, RunTool, ToolReturns, RunTask, RecordStarted,
              RecordResult, At, Running
<1>7. ASSUME NEW e \in Executors,
             \/ BoundaryStep(e) \/ SessionStep(e) \/ ResumeStep(e)
             \/ LoopStep(e) \/ ActionStep(e) \/ Cancel(e)
      PROVE  Alone'
  BY <1>1, <1>2, <1>3, <1>5, <1>6, <1>7, OthersStay DEF SessionStep
<1>8. ASSUME NEW p \in Processes, Crash(p)
      PROVE  Alone'
  <2>1. PICK z : z = [Fresh EXCEPT !.at = "gone"]
    OBVIOUS
  <2>2. z.at = "gone" /\ \A f \in Executors : ex'[f] \in {ex[f], z}
    BY <1>8, <2>1 DEF Crash, Fresh
  <2>. QED  BY <2>2 DEF Alone, Running
<1>9. ASSUME \/ \E k \in Actions : TaskFinishes(k)
             \/ Tick
             \/ UNCHANGED vars
      PROVE  Alone'
  BY <1>9 DEF TaskFinishes, Tick, vars, Alone, Running
<1>. QED  BY <1>7, <1>8, <1>9 DEF Next

(* So the executions of one process, cancelled, stalled past their lease   *)
(* and resumed one after the other, account for all that they started      *)
(* through the ledger (the run of PursuitRunOneProcess is an instance).    *)
THEOREM OneProcessAccounts == ASSUME OneProcess
                              PROVE  Spec => []SafeCheckpointsAreAccounted
<1>1. Init => Alone
  BY DEF Init, Fresh, Alone, Running
<1>2. Inv /\ Accounted /\ Alone /\ [Next]_vars => Alone'
  BY OneProcessIsAlone
<1>3. Inv /\ [Next]_vars => Inv'
  BY NextKeeps
<1>4. Spec => []Alone
  BY <1>1, <1>2, <1>3, InitHolds, OnceHolds, NextKeepsOnce, AccountedHolds,
     NextKeepsAccounted, PTL DEF Spec
<1>. QED  BY <1>4, LoneExecutorsAccount, PTL

=============================================================================
