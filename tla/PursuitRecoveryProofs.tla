------------------------ MODULE PursuitRecoveryProofs -----------------------
(***************************************************************************)
(* The end of a resumed run, for any number of attempts, workers, people,  *)
(* failures and requeues.  Few steps change an attempt, a checkpoint or    *)
(* whether an outbox is open (Request, Admit, SaveCheckpoint, Settle,      *)
(* Commit); the others are calm, and one lemma does for all of them.  The  *)
(* last chapter is about dead letters: each has its cause.                 *)
(***************************************************************************)
EXTENDS PursuitRecovery, FiniteSetTheorems, TLAPS

Decisions == Outcomes \cup {Going}

Box == [state : {"none", "pending", "delivered"},
        dispatch : {"none", "idle", "claimed", "delivered"},
        due : BOOLEAN, by : Reconcilers \cup {NoOne}, live : BOOLEAN,
        failures : 0..(MaxFailures - 1), dead : BOOLEAN, abandoned : BOOLEAN,
        requeues : 0..MaxRequeues, disturbed : BOOLEAN]

Executor == [at : {"new", "open", "resume", "admit", "loop", "asked", "save", "save_only",
                   "save_reconciled", "checkpoint", "reconciled", "refused", "close",
                   "settle", "done", "dead"},
             decision : Decisions, then : {"done", "close", "admit", "loop", "asked"},
             based : BOOLEAN, lost : BOOLEAN]

PassState == [at : {"idle", "assess", "acquire", "fence", "commit", "release", "finish"},
              target : Attempts \cup {NoOne}, graced : BOOLEAN, old : BOOLEAN,
              ahead : BOOLEAN, late : BOOLEAN, class : {"none", "safe_wait", "retryable", "permanent"}]

RowsShaped ==
    /\ run \in [decision : Decisions \cup {Broken}, error : BOOLEAN]
    /\ recorded \in [Outcomes \cup {Broken} -> (SUBSET Attempts) \cup {Never}]
    /\ checkpoint \in [status : {d.status : d \in Decisions}, after : SUBSET Attempts,
                       covers : SUBSET (Decisions \cup {Broken})]

Authority ==
    /\ lease \in [holder : Attempts \cup Reconcilers \cup {NoOne}, live : BOOLEAN]
    /\ beat \in Attempts \cup {NoOne}
    /\ graced \subseteq Attempts
    /\ faults \in 0..(MaxFaults + MaxFailures)

Passes ==
    /\ rc \in [Reconcilers -> PassState]
    /\ \A r \in Reconcilers :
          /\ rc[r].at \in {"release", "finish"} => rc[r].class # "none"
          /\ rc[r].at # "idle" => rc[r].target \in Attempts

Executors == ex \in [Attempts -> Executor]

Attempted == attempt \in [Attempts -> {"none", "requested", "admitted", "closed", "reconciled"}]

Boxed == box \in [Attempts -> Box]

Shapes == RowsShaped /\ Authority /\ Passes /\ Executors /\ Attempted /\ Boxed

(* An executor that has not yet marked its attempt as admitted. *)
Unadmitted(e) ==
    \/ e.at \in {"open", "resume", "admit"}
    \/ e.at \in {"save", "save_only", "save_reconciled", "checkpoint", "reconciled"}
       /\ e.then = "admit"

(* What an executor does next fits its attempt, and only an attempt that   *)
(* was admitted is behind a terminal checkpoint or has an outbox. *)
Stages ==
    \A a \in Attempts :
        /\ ex[a].at = "new" => attempt[a] = "none"
        /\ Unadmitted(ex[a]) => attempt[a] = "requested"
        /\ box[a].state # "none" \/ a \in checkpoint.after
               => attempt[a] \in {"admitted", "closed", "reconciled"}

(* AtMostOnePending without counting. *)
OnePending ==
    \A a, b \in Attempts : box[a].state = "pending" /\ box[b].state = "pending" => a = b

Ended == ClosedIffDelivered /\ TerminalHasOutbox /\ OnePending

(* A claim is one of a pending outbox. *)
ClaimedIsPending ==
    \A a \in Attempts : box[a].dispatch = "claimed" => box[a].state = "pending"

Inv == Shapes /\ Stages /\ Ended /\ DecidedAtRest /\ ClaimedIsPending

(* What a step may do to an attempt that has its outcome, and to a claim. *)
Kept ==
    /\ \A a \in Attempts :
          attempt[a] \in {"closed", "reconciled"} => attempt'[a] = attempt[a]
    /\ \A a \in Attempts, r \in Workers :
          /\ box[a].dispatch = "claimed" /\ box[a].by = r /\ box[a].live
          /\ box'[a].dispatch = "idle"
          => rc[r].at = "finish" /\ rc'[r].at = "idle"

Good == Inv' /\ Kept

-----------------------------------------------------------------------------
(* The helpers keep the shapes. *)

(* The shapes are what TypeOK asks for. *)
LEMMA ShapesAreTypes == Shapes => TypeOK
<1>. SUFFICES ASSUME Shapes PROVE TypeOK
  OBVIOUS
<1>1. /\ run \in [decision : Outcomes \cup {Going, Broken}, error : BOOLEAN]
      /\ recorded \in [Outcomes \cup {Broken} -> (SUBSET Attempts) \cup {Never}]
      /\ checkpoint.status \in {d.status : d \in Outcomes \cup {Going}}
      /\ checkpoint.after \subseteq Attempts
      /\ checkpoint.covers \subseteq Outcomes \cup {Going, Broken}
  <2>. Decisions \cup {Broken} = Outcomes \cup {Going, Broken}
    BY DEF Decisions
  <2>. QED  BY DEF Shapes, RowsShaped, Decisions
<1>2. \A a \in Attempts :
        /\ box[a].state \in {"none", "pending", "delivered"}
        /\ box[a].dispatch \in {"none", "idle", "claimed", "delivered"}
        /\ box[a].failures \in 0..(MaxFailures - 1) /\ box[a].requeues \in 0..MaxRequeues
  BY DEF Shapes, Boxed, Box
<1>3. \A a \in Attempts : ex[a].decision \in Outcomes \cup {Going}
  BY DEF Shapes, Executors, Executor, Decisions
<1>4. \A r \in Reconcilers : rc[r].target \in Attempts \cup {NoOne}
  BY DEF Shapes, Passes, PassState
<1>5. lease.holder \in Attempts \cup Reconcilers \cup {NoOne}
  BY DEF Shapes, Authority
<1>. QED
  BY <1>1, <1>2, <1>3, <1>4, <1>5 DEF Shapes, Authority, Attempted, TypeOK

(* AuthorityMoves only marks passes as based on an old reading. *)
LEMMA AuthorityMovesKeeps ==
    ASSUME NEW p \in [Reconcilers -> PassState]
    PROVE  /\ AuthorityMoves(p) \in [Reconcilers -> PassState]
           /\ \A r \in Reconcilers :
                 AuthorityMoves(p)[r].at = p[r].at /\ AuthorityMoves(p)[r].class = p[r].class
                 /\ AuthorityMoves(p)[r].target = p[r].target
  BY DEF AuthorityMoves, PassState

LEMMA OwnerBeatsKeeps ==
    ASSUME NEW p \in [Reconcilers -> PassState]
    PROVE  /\ OwnerBeats(p) \in [Reconcilers -> PassState]
           /\ \A r \in Reconcilers :
                 OwnerBeats(p)[r].at = p[r].at /\ OwnerBeats(p)[r].class = p[r].class
                 /\ OwnerBeats(p)[r].target = p[r].target /\ OwnerBeats(p)[r].late = p[r].late
<1>. DEFINE q == AuthorityMoves(p)
<1>1. /\ q \in [Reconcilers -> PassState]
      /\ \A r \in Reconcilers : q[r].at = p[r].at /\ q[r].class = p[r].class
                                /\ q[r].target = p[r].target /\ q[r].late = p[r].late
  BY AuthorityMovesKeeps DEF AuthorityMoves, PassState
<1>2. OwnerBeats(p) = [r \in Reconcilers |->
         IF p[r].at = "assess" THEN [p[r] EXCEPT !.old = TRUE, !.ahead = TRUE] ELSE q[r]]
  BY DEF OwnerBeats
<1>. DEFINE marked(e) == [e EXCEPT !.old = TRUE, !.ahead = TRUE]
<1>3. \A e \in PassState : /\ marked(e) \in PassState /\ marked(e).at = e.at
                            /\ marked(e).class = e.class /\ marked(e).target = e.target
                            /\ marked(e).late = e.late
  BY DEF PassState
<1>. HIDE DEF q, marked, PassState
<1>4. OwnerBeats(p) = [r \in Reconcilers |-> IF p[r].at = "assess" THEN marked(p[r]) ELSE q[r]]
  BY <1>2 DEF marked
<1>. QED  BY <1>1, <1>3, <1>4

(* FactsMove only marks passes as behind the facts. *)
LEMMA FactsMoveKeeps ==
    ASSUME NEW p \in [Reconcilers -> PassState]
    PROVE  /\ FactsMove(p) \in [Reconcilers -> PassState]
           /\ \A r \in Reconcilers :
                 FactsMove(p)[r].at = p[r].at /\ FactsMove(p)[r].class = p[r].class
                 /\ FactsMove(p)[r].target = p[r].target
  BY DEF FactsMove, PassState

(* So they keep Passes. *)
LEMMA MovesKeepPasses ==
    ASSUME Passes,
           \/ rc' = AuthorityMoves(rc) \/ rc' = OwnerBeats(rc)
           \/ rc' = FactsMove(rc) \/ rc' = rc
    PROVE  Passes'
  BY AuthorityMovesKeeps, OwnerBeatsKeeps, FactsMoveKeeps DEF Passes

(* The same outbox but for what tells who may claim it. *)
SameEnd(b, c) ==
    \A a \in Attempts : /\ c[a].state = b[a].state /\ c[a].dispatch = b[a].dispatch
                        /\ c[a].dead = b[a].dead /\ c[a].abandoned = b[a].abandoned

(* Disturbed is history only. *)
LEMMA DisturbedKeeps ==
    ASSUME Boxed
    PROVE  Disturbed(box) \in [Attempts -> Box] /\ SameEnd(box, Disturbed(box))
  BY ZenonT(60) DEF Boxed, Box, Disturbed, SameEnd

(* Goes and Leaves keep the shape of the executors. *)
LEMMA LeavesKeeps ==
    ASSUME Executors, NEW a \in Attempts,
           NEW place \in {"close", "settle", "done", "dead"}, Leaves(a, place)
    PROVE  /\ Executors'
           /\ \A b \in Attempts : /\ ex'[b].at = "new" => ex[b].at = "new"
                                  /\ Unadmitted(ex'[b]) => Unadmitted(ex[b])
<1>1. [Fresh EXCEPT !.at = place] \in Executor
  BY DEF Fresh, Executor, Decisions
<1>2. ~Unadmitted([Fresh EXCEPT !.at = place]) /\ [Fresh EXCEPT !.at = place].at # "new"
  BY DEF Fresh, Unadmitted
<1>. QED  BY <1>1, <1>2 DEF Executors, Leaves

-----------------------------------------------------------------------------
(* Calm steps: no attempt, checkpoint or open outbox changes.              *)

(* A calm step keeps everything, if it dispatches outboxes properly. *)
LEMMA Calm ==
    ASSUME Inv, Shapes',
           attempt' = attempt, checkpoint' = checkpoint,
           \A a \in Attempts : box'[a].state = box[a].state,
           \A a \in Attempts : /\ ex'[a].at = "new" => ex[a].at = "new"
                               /\ Unadmitted(ex'[a]) => Unadmitted(ex[a])
    PROVE  Stages' /\ Ended'
<1>1. Stages'
  BY DEF Inv, Stages, Unadmitted
<1>2. ClosedIffDelivered' /\ TerminalHasOutbox'
  <2>. checkpoint.after \subseteq Attempts
    BY DEF Inv, Shapes, RowsShaped
  <2>. QED  BY DEF Inv, Ended, ClosedIffDelivered, TerminalHasOutbox
<1>3. OnePending'
  BY DEF Inv, Ended, OnePending
<1>. QED  BY <1>1, <1>2, <1>3 DEF Ended

(* A calm step after which every outbox is dispatched as before. *)
LEMMA Undispatched ==
    ASSUME Inv, Shapes', SameEnd(box, box'),
           attempt' = attempt, checkpoint' = checkpoint,
           \A a \in Attempts : /\ ex'[a].at = "new" => ex[a].at = "new"
                               /\ Unadmitted(ex'[a]) => Unadmitted(ex[a])
    PROVE  Good
<1>1. Stages' /\ Ended'
  BY Calm DEF SameEnd
<1>2. DecidedAtRest' /\ ClaimedIsPending'
  BY DEF SameEnd, Inv, DecidedAtRest, ClaimedIsPending
<1>3. Kept
  BY DEF SameEnd, Kept
<1>. QED  BY <1>1, <1>2, <1>3 DEF Good, Inv

(* A step of the rows, clocks and passes that leaves the outboxes alone. *)
LEMMA Aside ==
    ASSUME Inv, RowsShaped', Authority', Passes',
           UNCHANGED <<checkpoint, attempt, box, ex>>
    PROVE  Good
<1>1. Shapes' /\ SameEnd(box, box')
  BY DEF Inv, Shapes, Executors, Attempted, Boxed, SameEnd
<1>. QED  BY <1>1, Undispatched

(* OpenLease: the first heartbeat follows the lease at once. *)
LEMMA OpenLeaseGood == ASSUME Inv, NEW a \in Attempts, OpenLease(a) PROVE Good
<1>1. CASE lease' = [holder |-> a, live |-> TRUE] /\ beat' = a /\ rc' = OwnerBeats(rc)
           /\ box' = Disturbed(box) /\ Goes(a, "resume")
  <2>1. RowsShaped' /\ Authority' /\ Attempted'
    BY <1>1 DEF OpenLease, Inv, Shapes, RowsShaped, Authority, Attempted, rows
  <2>2. Passes'
    BY <1>1, MovesKeepPasses DEF Inv, Shapes
  <2>3. Boxed' /\ SameEnd(box, box')
    BY <1>1, DisturbedKeeps DEF Inv, Shapes, Boxed
  <2>4. ex' = [ex EXCEPT ![a] = [@ EXCEPT !.at = "resume"]] /\ ex[a].at = "open"
    BY <1>1 DEF OpenLease, Goes
  <2>5. Executors'
    BY <2>4 DEF Inv, Shapes, Executors, Executor
  <2>6. \A b \in Attempts : /\ ex'[b].at = "new" => ex[b].at = "new"
                            /\ Unadmitted(ex'[b]) => Unadmitted(ex[b])
    BY <2>4 DEF Inv, Shapes, Executors, Executor, Unadmitted
  <2>. QED
    BY <2>1, <2>2, <2>3, <2>5, <2>6, Undispatched DEF OpenLease, rows, Shapes
<1>2. CASE Leaves(a, "settle") /\ UNCHANGED <<lease, beat, box, rc>>
  <2>1. RowsShaped' /\ Authority' /\ Passes' /\ Attempted' /\ Boxed' /\ SameEnd(box, box')
    BY <1>2 DEF OpenLease, Inv, Shapes, RowsShaped, Authority, Passes, Attempted, Boxed,
                SameEnd, rows
  <2>2. /\ Executors'
        /\ \A b \in Attempts : /\ ex'[b].at = "new" => ex[b].at = "new"
                               /\ Unadmitted(ex'[b]) => Unadmitted(ex[b])
    BY <1>2, LeavesKeeps DEF Inv, Shapes
  <2>. QED  BY <2>1, <2>2, Undispatched DEF OpenLease, rows, Shapes
<1>. QED  BY <1>1, <1>2 DEF OpenLease

(* A step of one executor and nothing else that does not bring it before   *)
(* its admission. *)
LEMMA ExecutorMoves ==
    ASSUME Inv, Executors',
           UNCHANGED <<rows, attempt, graced, box, lease, beat, rc, faults>>,
           \A b \in Attempts : /\ ex'[b].at = "new" => ex[b].at = "new"
                               /\ Unadmitted(ex'[b]) => Unadmitted(ex[b])
    PROVE  Good
<1>1. Shapes' /\ SameEnd(box, box')
  BY DEF Inv, Shapes, RowsShaped, Authority, Passes, Attempted, Boxed, SameEnd, rows
<1>. QED  BY <1>1, Undispatched DEF rows

(* Decide: an executor decides what to store, or leaves. *)
LEMMA DecideGood ==
    ASSUME Inv, NEW a \in Attempts,
           NEW place \in {"resume", "loop", "asked"}, NEW d \in Decisions,
           NEW first \in {"save", "save_only", "save_reconciled"},
           NEW then \in {"close", "admit", "loop", "asked"},
           then = "admit" => place = "resume",
           Decide(a, place, d, first, then)
    PROVE  Good
<1>1. CASE ex' = [ex EXCEPT ![a] = [@ EXCEPT !.at = first, !.decision = d, !.then = then]]
  <2>1. Executors'
    BY <1>1, ZenonT(60) DEF Inv, Shapes, Executors, Executor
  <2>2. \A b \in Attempts : /\ ex'[b].at = "new" => ex[b].at = "new"
                            /\ Unadmitted(ex'[b]) => Unadmitted(ex[b])
    BY <1>1 DEF Inv, Shapes, Executors, Executor, Unadmitted, Decide
  <2>. QED  BY <2>1, <2>2, ExecutorMoves DEF Decide
<1>2. CASE Leaves(a, "close")
  BY <1>2, LeavesKeeps, ExecutorMoves DEF Inv, Shapes, Decide
<1>. QED  BY <1>1, <1>2 DEF Decide

(* Resume, Loop and Asked are decisions; a question that stays open is     *)
(* written down once more. *)
LEMMA DecisionsGood ==
    ASSUME Inv, NEW a \in Attempts, Resume(a) \/ Loop(a) \/ Asked(a)
    PROVE  Good
<1>1. Outcomes \subseteq Decisions /\ Going \in Decisions
  BY DEF Decisions
<1>2. CASE Resume(a)
  BY <1>1, <1>2, DecideGood DEF Resume
<1>3. CASE Loop(a)
  BY <1>1, <1>3, DecideGood DEF Loop
<1>4. CASE Asked(a)
  <2>1. CASE Decide(a, "asked", Going, "save", "loop")
    BY <1>1, <2>1, DecideGood
  <2>2. CASE /\ ex[a].at = "asked"
             /\ ex' = [ex EXCEPT ![a].at = "checkpoint", ![a].then = "close"]
             /\ UNCHANGED <<rows, attempt, graced, box, lease, beat, rc, faults>>
    <3>. DEFINE e == [ex[a] EXCEPT !.at = "checkpoint", !.then = "close"]
    <3>3. e \in Executor /\ e.at = "checkpoint" /\ e.then = "close"
      BY DEF Inv, Shapes, Executors, Executor
    <3>4. ex' = [ex EXCEPT ![a] = e]
      BY <2>2 DEF Inv, Shapes, Executors, Executor
    <3>. HIDE DEF e
    <3>1. Executors'
      BY <3>3, <3>4 DEF Inv, Shapes, Executors
    <3>2. \A b \in Attempts : /\ ex'[b].at = "new" => ex[b].at = "new"
                              /\ Unadmitted(ex'[b]) => Unadmitted(ex[b])
      BY <3>3, <3>4 DEF Inv, Shapes, Executors, Unadmitted
    <3>. QED  BY <2>2, <3>1, <3>2, ExecutorMoves
  <2>. QED  BY <1>4, <2>1, <2>2 DEF Asked
<1>. QED  BY <1>2, <1>3, <1>4

(* SavedRun keeps the rows. *)
LEMMA SavedRunKeeps ==
    ASSUME Inv, NEW d \in Decisions \cup {Broken}, NEW e \in BOOLEAN, SavedRun(d, e),
           checkpoint' = checkpoint
    PROVE  RowsShaped'
<1>1. run' \in [decision : Decisions \cup {Broken}, error : BOOLEAN]
  BY DEF SavedRun
<1>2. Admitted \in SUBSET Attempts
  BY DEF Admitted
<1>3. recorded' \in [Outcomes \cup {Broken} -> (SUBSET Attempts) \cup {Never}]
  BY <1>2 DEF SavedRun, Inv, Shapes, RowsShaped
<1>. QED  BY <1>1, <1>3 DEF Inv, Shapes, RowsShaped

(* SaveRun changes the run row only. *)
LEMMA SaveRunGood == ASSUME Inv, NEW a \in Attempts, SaveRun(a) PROVE Good
<1>1. CASE ~ex[a].lost
  <2>. DEFINE place == CASE ex[a].at = "save" -> "checkpoint"
                         [] ex[a].at = "save_only" -> "close"
                         [] ex[a].at = "save_reconciled" -> "reconciled"
  <2>1. /\ SavedRun(ex[a].decision, FALSE) /\ box' = Disturbed(box) /\ rc' = FactsMove(rc)
        /\ Goes(a, place) /\ ex[a].at \in {"save", "save_only", "save_reconciled"}
        /\ UNCHANGED <<checkpoint, attempt, graced, lease, beat, faults>>
    BY <1>1 DEF SaveRun
  <2>2. RowsShaped'
    BY <2>1, SavedRunKeeps DEF Inv, Shapes, Executors, Executor
  <2>3. Passes'
    BY <2>1, MovesKeepPasses DEF Inv, Shapes
  <2>4. Boxed' /\ SameEnd(box, box')
    BY <2>1, DisturbedKeeps DEF Inv, Shapes, Boxed
  <2>5. Authority' /\ Attempted'
    BY <2>1 DEF Inv, Shapes, Authority, Attempted
  <2>6. place \in {"checkpoint", "close", "reconciled"}
    BY <2>1
  <2>7. ex' = [ex EXCEPT ![a] = [@ EXCEPT !.at = place]]
    BY <2>1 DEF Goes
  <2>. HIDE DEF place
  <2>8. Executors'
    BY <2>6, <2>7 DEF Inv, Shapes, Executors, Executor
  <2>9. \A b \in Attempts : /\ ex'[b].at = "new" => ex[b].at = "new"
                            /\ Unadmitted(ex'[b]) => Unadmitted(ex[b])
    BY <2>1, <2>6, <2>7 DEF Inv, Shapes, Executors, Executor, Unadmitted
  <2>. QED  BY <2>1, <2>2, <2>3, <2>4, <2>5, <2>8, <2>9, Undispatched DEF Shapes
<1>2. CASE ex[a].lost
  <2>1. Leaves(a, "close") /\ UNCHANGED <<rows, attempt, graced, box, lease, beat, rc, faults>>
    BY <1>2 DEF SaveRun, rows
  <2>. QED  BY <2>1, LeavesKeeps, ExecutorMoves DEF Inv, Shapes
<1>. QED  BY <1>1, <1>2

(* MarkError changes the run row only. *)
LEMMA MarkErrorGood == ASSUME Inv, NEW a \in Attempts, MarkError(a) PROVE Good
<1>1. /\ Executors'
      /\ \A b \in Attempts : /\ ex'[b].at = "new" => ex[b].at = "new"
                             /\ Unadmitted(ex'[b]) => Unadmitted(ex[b])
  BY LeavesKeeps DEF MarkError, Inv, Shapes
<1>2. CASE SavedRun(Broken, TRUE) /\ box' = Disturbed(box) /\ rc' = FactsMove(rc)
  <2>1. RowsShaped'
    BY <1>2, SavedRunKeeps DEF MarkError
  <2>2. Passes'
    BY <1>2, MovesKeepPasses DEF Inv, Shapes
  <2>3. Boxed' /\ SameEnd(box, box')
    BY <1>2, DisturbedKeeps DEF Inv, Shapes, Boxed
  <2>4. Authority' /\ Attempted'
    BY DEF MarkError, Inv, Shapes, Authority, Attempted
  <2>. QED  BY <1>1, <2>1, <2>2, <2>3, <2>4, Undispatched DEF MarkError, Shapes
<1>3. CASE UNCHANGED <<run, recorded, box, rc>>
  BY <1>1, <1>3, ExecutorMoves DEF MarkError, rows
<1>. QED  BY <1>2, <1>3 DEF MarkError

(* Close gives the lease and the heartbeat back. *)
LEMMA CloseGood == ASSUME Inv, NEW a \in Attempts, Close(a) PROVE Good
<1>1. /\ Executors'
      /\ \A b \in Attempts : /\ ex'[b].at = "new" => ex[b].at = "new"
                             /\ Unadmitted(ex'[b]) => Unadmitted(ex[b])
  BY LeavesKeeps DEF Close, Inv, Shapes
<1>2. Passes'
  BY MovesKeepPasses DEF Close, Inv, Shapes
<1>3. RowsShaped' /\ Authority' /\ Attempted' /\ Boxed' /\ SameEnd(box, box')
  BY DEF Close, Inv, Shapes, RowsShaped, Authority, Attempted, Boxed, SameEnd, rows
<1>. QED  BY <1>1, <1>2, <1>3, Undispatched DEF Close, Shapes, rows

(* KeepAlive sends a heartbeat. *)
LEMMA KeepAliveGood == ASSUME Inv, NEW a \in Attempts, KeepAlive(a) PROVE Good
<1>1. Passes'
  BY MovesKeepPasses DEF KeepAlive, Inv, Shapes
<1>2. RowsShaped' /\ Authority'
  BY DEF KeepAlive, Inv, Shapes, RowsShaped, Authority, rows
<1>. QED  BY <1>1, <1>2, Aside DEF KeepAlive, rows

(* The keepalive notices; the task is cancelled; the process dies. *)
LEMMA LeavingGood ==
    ASSUME Inv, NEW a \in Attempts, Notice(a) \/ Cancel(a) \/ Crash(a)
    PROVE  Good
<1>1. CASE Notice(a)
  <2>1. ex' = [ex EXCEPT ![a] = [@ EXCEPT !.lost = TRUE]]
    BY <1>1 DEF Notice
  <2>2. Executors'
    BY <2>1 DEF Inv, Shapes, Executors, Executor
  <2>3. \A b \in Attempts : /\ ex'[b].at = "new" => ex[b].at = "new"
                            /\ Unadmitted(ex'[b]) => Unadmitted(ex[b])
    BY <2>1 DEF Inv, Shapes, Executors, Executor, Unadmitted
  <2>. QED  BY <1>1, <2>2, <2>3, ExecutorMoves DEF Notice
<1>2. CASE Cancel(a)
  BY <1>2, LeavesKeeps, ExecutorMoves DEF Inv, Shapes, Cancel
<1>3. CASE Crash(a)
  BY <1>3, LeavesKeeps, ExecutorMoves DEF Inv, Shapes, Crash
<1>. QED  BY <1>1, <1>2, <1>3

-----------------------------------------------------------------------------
(* The clock, the passes and the decisions of people.                      *)

(* A step that changes one outbox, and neither delivers nor creates it.    *)
LEMMA OneBox ==
    ASSUME Inv, NEW a \in Attempts, NEW e \in Box, box' = [box EXCEPT ![a] = e],
           RowsShaped', Authority', Passes', UNCHANGED <<checkpoint, attempt, ex>>,
           e.state = box[a].state,
           e.dead \/ e.abandoned => e.dispatch # "claimed",
           e.dispatch = "claimed" => e.state = "pending",
           \A r \in Workers :
              box[a].dispatch = "claimed" /\ box[a].by = r /\ box[a].live /\ e.dispatch = "idle"
              => rc[r].at = "finish" /\ rc'[r].at = "idle"
    PROVE  Good
<1>1. Boxed'
  BY DEF Inv, Shapes, Boxed
<1>2. \A b \in Attempts : box'[b] = IF b = a THEN e ELSE box[b]
  BY DEF Inv, Shapes, Boxed
<1>. HIDE DEF Box
<1>3. Shapes'
  BY <1>1 DEF Inv, Shapes, Executors, Attempted
<1>4. Stages' /\ Ended'
  BY <1>2, <1>3, Calm
<1>5. DecidedAtRest' /\ ClaimedIsPending'
  BY <1>2 DEF Inv, DecidedAtRest, ClaimedIsPending
<1>6. Kept
  <2>1. \A b \in Attempts, r \in Workers :
          /\ box[b].dispatch = "claimed" /\ box[b].by = r /\ box[b].live
          /\ box'[b].dispatch = "idle"
          => rc[r].at = "finish" /\ rc'[r].at = "idle"
    BY <1>2
  <2>. QED  BY <2>1 DEF Kept
<1>. QED  BY <1>3, <1>4, <1>5, <1>6 DEF Good, Inv

(* The pass that ends has a class of failure. *)
LEMMA EndsAtKeeps ==
    ASSUME Passes, NEW r \in Reconcilers, rc[r].at # "idle",
           NEW place \in {"release", "finish"}, NEW code, rc' = EndsAt(r, place, code)
    PROVE  Passes'
<1>1. Class(code) \in {"safe_wait", "retryable", "permanent"}
  BY DEF Class
<1>2. rc[r].target \in Attempts
  BY DEF Passes
<1>. DEFINE c == Class(code)
            t == rc[r].target
            p == [Idle EXCEPT !.at = place, !.target = t, !.class = c]
<1>3. rc' = [rc EXCEPT ![r] = p] /\ c \in {"safe_wait", "retryable", "permanent"} /\ t \in Attempts
  BY <1>1, <1>2 DEF EndsAt
<1>. HIDE DEF c, t
<1>4. p \in PassState /\ p.at = place /\ p.class = c /\ p.target = t
  BY <1>3 DEF Idle, PassState
<1>. HIDE DEF p
<1>. QED  BY <1>3, <1>4 DEF Passes

(* Step keeps a pass on its way. *)
LEMMA StepKeeps ==
    ASSUME Passes, NEW r \in Reconcilers, rc[r].at # "idle",
           NEW place \in {"acquire", "fence", "commit"},
           rc' = Step(r, place) \/ rc' = AuthorityMoves(Step(r, place))
    PROVE  Passes'
<1>. DEFINE p == Step(r, place)
<1>1. /\ p \in [Reconcilers -> PassState]
      /\ \A q \in Reconcilers :
            /\ p[q].at \in {"release", "finish"} => p[q].class # "none"
            /\ p[q].at # "idle" => p[q].target \in Attempts
  BY ZenonT(60) DEF Passes, PassState, Step
<1>. HIDE DEF p
<1>2. CASE rc' = p
  BY <1>1, <1>2 DEF Passes
<1>3. CASE rc' = AuthorityMoves(p)
  BY <1>1, <1>3, AuthorityMovesKeeps DEF Passes
<1>. QED  BY <1>2, <1>3 DEF p

(* ExpireLease, BeatStale and GraceOver. *)
LEMMA ClockGood ==
    ASSUME Inv, ExpireLease \/ BeatStale \/ \E a \in Attempts : GraceOver(a)
    PROVE  Good
<1>1. CASE ExpireLease
  <2>1. Passes'
    BY <1>1, MovesKeepPasses DEF ExpireLease, Inv, Shapes
  <2>2. RowsShaped' /\ Authority'
    BY <1>1 DEF ExpireLease, Inv, Shapes, RowsShaped, Authority, rows
  <2>. QED  BY <1>1, <2>1, <2>2, Aside DEF ExpireLease, rows
<1>2. CASE BeatStale
  <2>1. Passes'
    BY <1>2, MovesKeepPasses DEF BeatStale, Inv, Shapes
  <2>2. RowsShaped' /\ Authority'
    BY <1>2 DEF BeatStale, Inv, Shapes, RowsShaped, Authority, rows
  <2>. QED  BY <1>2, <2>1, <2>2, Aside DEF BeatStale, rows
<1>3. ASSUME NEW a \in Attempts, GraceOver(a) PROVE Good
  <2>1. RowsShaped' /\ Authority' /\ Passes'
    BY <1>3 DEF GraceOver, Inv, Shapes, RowsShaped, Authority, Passes, rows
  <2>. QED  BY <1>3, <2>1, Aside DEF GraceOver, rows
<1>. QED  BY <1>1, <1>2, <1>3

(* BoxDue, ClaimExpires, Requeue and Abandon change one outbox. *)
LEMMA BoxGood ==
    ASSUME Inv, NEW a \in Attempts,
           BoxDue(a) \/ ClaimExpires(a) \/ Requeue(a) \/ Abandon(a)
    PROVE  Good
<1>1. box[a] \in Box
  BY DEF Inv, Shapes, Boxed
<1>2. /\ RowsShaped' /\ Authority' /\ Passes'
      /\ UNCHANGED <<checkpoint, attempt, ex>>
  BY DEF BoxDue, ClaimExpires, Requeue, Abandon, Inv, Shapes, RowsShaped, Authority, Passes, rows
<1>3. /\ box[a].dead \/ box[a].abandoned => box[a].dispatch # "claimed"
      /\ box[a].dispatch = "claimed" => box[a].state = "pending"
  BY DEF Inv, DecidedAtRest, ClaimedIsPending
<1>4. CASE BoxDue(a)
  <2>. DEFINE e == [box[a] EXCEPT !.due = TRUE]
  <2>1. e \in Box /\ e.dispatch = box[a].dispatch /\ e.state = box[a].state
        /\ e.dead = box[a].dead /\ e.abandoned = box[a].abandoned
    BY <1>1 DEF Box
  <2>2. box' = [box EXCEPT ![a] = e] /\ box[a].dispatch = "idle"
    BY <1>4 DEF BoxDue
  <2>. HIDE DEF e
  <2>. QED  BY <1>2, <1>3, <2>1, <2>2, OneBox
<1>5. CASE ClaimExpires(a)
  <2>. DEFINE e == [box[a] EXCEPT !.live = FALSE]
  <2>1. e \in Box /\ e.dispatch = box[a].dispatch /\ e.state = box[a].state
        /\ e.dead = box[a].dead /\ e.abandoned = box[a].abandoned
    BY <1>1 DEF Box
  <2>2. box' = [box EXCEPT ![a] = e] /\ box[a].dispatch = "claimed"
    BY <1>5 DEF ClaimExpires
  <2>. HIDE DEF e
  <2>3. /\ e.dead \/ e.abandoned => e.dispatch # "claimed"
        /\ e.dispatch = "claimed" => e.state = "pending"
        /\ \A r \in Workers :
              box[a].dispatch = "claimed" /\ box[a].by = r /\ box[a].live /\ e.dispatch = "idle"
              => rc[r].at = "finish" /\ rc'[r].at = "idle"
    BY <1>3, <2>1, <2>2
  <2>. HIDE DEF Box
  <2>. QED  BY <1>2, <2>1, <2>2, <2>3, OneBox
<1>6. CASE Requeue(a)
  <2>. DEFINE e == [box[a] EXCEPT !.dead = FALSE, !.due = TRUE, !.requeues = box[a].requeues + 1]
  <2>1. e \in Box /\ e.dispatch = box[a].dispatch /\ e.state = box[a].state
        /\ e.dead = FALSE /\ e.abandoned = box[a].abandoned
    <3>1. box[a].requeues + 1 \in 0..MaxRequeues
      BY <1>1, <1>6, BoundsAssumption DEF Box, Requeue
    <3>. QED  BY <1>1, <3>1 DEF Box
  <2>2. box' = [box EXCEPT ![a] = e] /\ box[a].dispatch = "idle"
    BY <1>6 DEF Requeue
  <2>. HIDE DEF e
  <2>. QED  BY <1>2, <1>3, <2>1, <2>2, OneBox
<1>7. CASE Abandon(a)
  <2>. DEFINE e == [box[a] EXCEPT !.dead = FALSE, !.abandoned = TRUE]
  <2>1. e \in Box /\ e.dispatch = box[a].dispatch /\ e.state = box[a].state
    BY <1>1 DEF Box
  <2>2. box' = [box EXCEPT ![a] = e] /\ box[a].dispatch = "idle"
    BY <1>7 DEF Abandon
  <2>. HIDE DEF e
  <2>. QED  BY <1>2, <1>3, <2>1, <2>2, OneBox
<1>. QED  BY <1>4, <1>5, <1>6, <1>7

(* A pass that begins has its target. *)
LEMMA BeginsKeeps ==
    ASSUME Passes, NEW r \in Reconcilers, NEW a \in Attempts, Begins(r, a)
    PROVE  Passes'
<1>. DEFINE g == a \in graced
            p == [Idle EXCEPT !.at = "assess", !.target = a, !.graced = g]
<1>1. rc' = [rc EXCEPT ![r] = p] /\ g \in BOOLEAN
  BY DEF Begins
<1>. HIDE DEF g
<1>2. p \in PassState /\ p.at = "assess" /\ p.target = a
  BY <1>1 DEF Idle, PassState
<1>. HIDE DEF p
<1>. QED  BY <1>1, <1>2 DEF Passes

(* A claim takes an outbox nobody has decided about. *)
LEMMA ClaimGood ==
    ASSUME Inv, NEW r \in Reconcilers, NEW a \in Attempts, Claim(r, a)
    PROVE  Good
<1>. DEFINE e == [box[a] EXCEPT !.dispatch = "claimed", !.by = r, !.live = TRUE, !.due = FALSE]
<1>1. box[a] \in Box
  BY DEF Inv, Shapes, Boxed
<1>2. e \in Box /\ e.dispatch = "claimed" /\ e.state = box[a].state
      /\ e.dead = box[a].dead /\ e.abandoned = box[a].abandoned
  BY <1>1 DEF Box
<1>3. box' = [box EXCEPT ![a] = e]
  BY DEF Claim
<1>4. box[a].state = "pending" /\ ~box[a].dead /\ ~box[a].abandoned
  BY DEF Claim, Claimable
<1>5. Passes'
  BY BeginsKeeps DEF Claim, Inv, Shapes
<1>6. RowsShaped' /\ Authority' /\ UNCHANGED <<checkpoint, attempt, ex>>
  BY DEF Claim, Inv, Shapes, RowsShaped, Authority, rows
<1>. HIDE DEF e
<1>. QED  BY <1>2, <1>3, <1>4, <1>5, <1>6, OneBox

(* A pass goes to another place without ending. *)
LEMMA GoesOn ==
    ASSUME Passes, NEW r \in Reconcilers, NEW place \in {"acquire", "finish"},
           rc[r].at # "idle", place = "finish" => rc[r].at = "release",
           \/ rc' = [rc EXCEPT ![r].at = place]
           \/ rc' = AuthorityMoves([rc EXCEPT ![r].at = place])
    PROVE  Passes'
<1>. DEFINE p == [rc EXCEPT ![r].at = place]
<1>1. /\ p \in [Reconcilers -> PassState]
      /\ \A q \in Reconcilers :
            /\ p[q].at \in {"release", "finish"} => p[q].class # "none"
            /\ p[q].at # "idle" => p[q].target \in Attempts
  BY DEF Passes, PassState
<1>2. rc' = p \/ rc' = AuthorityMoves(p)
  OBVIOUS
<1>. HIDE DEF p
<1>3. CASE rc' = p
  BY <1>1, <1>3 DEF Passes
<1>4. CASE rc' = AuthorityMoves(p)
  BY <1>1, <1>4, AuthorityMovesKeeps DEF Passes
<1>. QED  BY <1>2, <1>3, <1>4

(* Ask, Assess, Fence and Release change the pass and the lease at most. *)
LEMMA PassGood ==
    ASSUME Inv, NEW r \in Reconcilers,
           (\E a \in Attempts : Ask(r, a)) \/ Assess(r) \/ Fence(r) \/ Release(r)
    PROVE  Good
<1>. USE DEF rows
<1>1. RowsShaped' /\ UNCHANGED <<checkpoint, attempt, box, ex>>
  BY DEF Ask, Assess, Fence, Release, Inv, Shapes, RowsShaped
<1>2. CASE \E a \in Attempts : Ask(r, a)
  <2>1. Authority' /\ Passes'
    BY <1>2, BeginsKeeps DEF Ask, Inv, Shapes, Authority
  <2>. QED  BY <1>1, <2>1, Aside
<1>3. CASE Assess(r)
  <2>1. PICK code : rc' = [rc EXCEPT ![r].at = "acquire"] \/ rc' = EndsAt(r, "finish", code)
    BY <1>3 DEF Assess, Ends, Fails, Overtaken
  <2>6. Passes /\ rc[r].at = "assess"
    BY <1>3 DEF Assess, Inv, Shapes
  <2>2. ASSUME rc' = [rc EXCEPT ![r].at = "acquire"] PROVE Passes'
    BY <2>6, <2>2, GoesOn
  <2>3. ASSUME rc' = EndsAt(r, "finish", code) PROVE Passes'
    BY <2>6, <2>3, EndsAtKeeps
  <2>4. lease' = lease /\ beat' = beat /\ graced' = graced
    BY <1>3 DEF Assess, Fails, Overtaken
  <2>5. faults' \in 0..(MaxFaults + MaxFailures)
    BY <1>3, BoundsAssumption DEF Assess, Fails, Overtaken, Inv, Shapes, Authority
  <2>. QED  BY <1>1, <2>1, <2>2, <2>3, <2>4, <2>5, Aside DEF Inv, Shapes, Authority
<1>4. CASE Fence(r)
  <2>1. rc[r].at = "fence" /\ lease' = lease /\ beat' = beat /\ graced' = graced
    BY <1>4 DEF Fence, Fails
  <2>2. PICK code : rc' = Step(r, "commit") \/ rc' = EndsAt(r, "release", code)
    BY <1>4 DEF Fence, Fails
  <2>3. Passes'
    BY <2>1, <2>2, StepKeeps, EndsAtKeeps DEF Inv, Shapes
  <2>4. faults' \in 0..(MaxFaults + MaxFailures)
    BY <1>4, BoundsAssumption DEF Fence, Fails, Inv, Shapes, Authority
  <2>. QED  BY <1>1, <2>1, <2>3, <2>4, Aside DEF Inv, Shapes, Authority
<1>5. CASE Release(r)
  <2>1. Passes'
    BY <1>5, GoesOn DEF Release, Inv, Shapes
  <2>2. Authority'
    <3>1. lease' \in {lease, [holder |-> NoOne, live |-> FALSE]}
      BY <1>5 DEF Release
    <3>2. UNCHANGED <<graced, beat, faults>>
      BY <1>5 DEF Release
    <3>3. lease' \in [holder : Attempts \cup Reconcilers \cup {NoOne}, live : BOOLEAN]
      <4>1. lease \in [holder : Attempts \cup Reconcilers \cup {NoOne}, live : BOOLEAN]
        BY DEF Inv, Shapes, Authority
      <4>2. [holder |-> NoOne, live |-> FALSE]
              \in [holder : Attempts \cup Reconcilers \cup {NoOne}, live : BOOLEAN]
        OBVIOUS
      <4>. QED  BY <3>1, <4>1, <4>2
    <3>. QED  BY <3>2, <3>3 DEF Inv, Shapes, Authority
  <2>. QED  BY <1>1, <2>1, <2>2, Aside
<1>. QED  BY <1>2, <1>3, <1>4, <1>5

(* Acquire takes the lease; it may disturb who depends on it. *)
LEMMA AcquireGood == ASSUME Inv, NEW r \in Reconcilers, Acquire(r) PROVE Good
<1>. USE DEF rows
<1>1. /\ rc[r].at = "acquire" /\ Passes
      /\ UNCHANGED <<rows, attempt, graced, beat, ex>>
  BY DEF Acquire, Inv, Shapes
<1>2. lease' \in {lease, [holder |-> r, live |-> TRUE]}
  BY DEF Acquire, Fails
<1>3. PICK code : \/ rc' = AuthorityMoves(Step(r, "fence"))
                  \/ rc' = EndsAt(r, "finish", code)
  BY DEF Acquire, Ends, Fails
<1>4. Passes'
  BY <1>1, <1>3, StepKeeps, EndsAtKeeps
<1>5. faults' \in 0..(MaxFaults + MaxFailures)
  BY BoundsAssumption DEF Acquire, Fails, Inv, Shapes, Authority
<1>6. lease' \in [holder : Attempts \cup Reconcilers \cup {NoOne}, live : BOOLEAN]
  <2>1. lease \in [holder : Attempts \cup Reconcilers \cup {NoOne}, live : BOOLEAN]
    BY DEF Inv, Shapes, Authority
  <2>2. [holder |-> r, live |-> TRUE]
          \in [holder : Attempts \cup Reconcilers \cup {NoOne}, live : BOOLEAN]
    OBVIOUS
  <2>. QED  BY <1>2, <2>1, <2>2
<1>7. RowsShaped' /\ Authority' /\ Attempted' /\ Executors'
  BY <1>1, <1>5, <1>6 DEF Inv, Shapes, RowsShaped, Authority, Attempted, Executors
<1>8. Boxed' /\ SameEnd(box, box')
  <2>1. box' = box \/ box' = Disturbed(box)
    BY DEF Acquire
  <2>2. Boxed
    BY DEF Inv, Shapes
  <2>. QED  BY <2>1, <2>2, DisturbedKeeps DEF Boxed, SameEnd
<1>. QED  BY <1>1, <1>4, <1>7, <1>8, Undispatched DEF Shapes

(* A pass that ends gives its own claim back, and no other. *)
LEMMA FinishGood == ASSUME Inv, NEW r \in Reconcilers, Finish(r) PROVE Good
<1>. DEFINE a == rc[r].target
            e == Reported(box[a], rc[r].class)
<1>1. /\ rc[r].at = "finish" /\ rc' = [rc EXCEPT ![r] = Idle]
      /\ UNCHANGED <<rows, attempt, graced, lease, beat, ex, faults>>
  BY DEF Finish
<1>2. a \in Attempts /\ rc[r].class \in {"safe_wait", "retryable", "permanent"}
  BY <1>1 DEF Inv, Shapes, Passes, PassState
<1>3. RowsShaped' /\ Authority' /\ UNCHANGED <<checkpoint, attempt, ex>>
  BY <1>1 DEF Inv, Shapes, RowsShaped, Authority, rows
<1>4. Passes'
  BY <1>1 DEF Inv, Shapes, Passes, PassState, Idle
<1>5. CASE r \in Workers /\ OwnsClaim(r) /\ box' = [box EXCEPT ![a] = e]
  <2>1. box[a] \in Box /\ box[a].by = r /\ box[a].state = "pending"
    BY <1>2, <1>5 DEF OwnsClaim, Inv, Shapes, Boxed
  <2>2. e \in Box /\ e.state = box[a].state /\ e.dispatch = "idle"
    <3>. HIDE DEF a
    <3>. DEFINE failures == box[a].failures + (IF rc[r].class = "safe_wait" THEN 0 ELSE 1)
                dead == rc[r].class = "permanent"
                        \/ (rc[r].class = "retryable" /\ failures >= MaxFailures)
                left == IF dead THEN 0 ELSE failures
    <3>1. left \in 0..(MaxFailures - 1)
      BY <1>2, <2>1, BoundsAssumption DEF Box
    <3>2. dead \in BOOLEAN
      OBVIOUS
    <3>3. e = [box[a] EXCEPT !.dispatch = "idle", !.by = NoOne, !.live = FALSE,
                             !.dead = dead, !.failures = left]
      BY DEF Reported
    <3>. HIDE DEF dead, left, e
    <3>. QED  BY <2>1, <3>1, <3>2, <3>3 DEF Box
  <2>3. \A q \in Workers :
          box[a].dispatch = "claimed" /\ box[a].by = q /\ box[a].live /\ e.dispatch = "idle"
          => rc[q].at = "finish" /\ rc'[q].at = "idle"
    BY <1>1, <2>1 DEF Idle, Inv, Shapes, Passes, Reconcilers
  <2>. HIDE DEF a, e
  <2>. QED  BY <1>2, <1>3, <1>4, <1>5, <2>2, <2>3, OneBox
<1>6. CASE box' = box
  BY <1>3, <1>4, <1>6, Aside
<1>. QED  BY <1>5, <1>6 DEF Finish

(* A pass that dies leaves its claim and its lease to expire. *)
LEMMA PassDiesGood == ASSUME Inv, NEW r \in Reconcilers, PassDies(r) PROVE Good
<1>1. UNCHANGED <<rows, attempt, graced, beat, ex>>
  BY DEF PassDies
<1>2. Boxed' /\ SameEnd(box, box')
  <2>1. \A a \in Attempts : [box[a] EXCEPT !.by = NoOne] \in Box
    BY DEF Inv, Shapes, Boxed, Box
  <2>2. \A a \in Attempts :
          /\ [box[a] EXCEPT !.by = NoOne].state = box[a].state
          /\ [box[a] EXCEPT !.by = NoOne].dispatch = box[a].dispatch
          /\ [box[a] EXCEPT !.by = NoOne].dead = box[a].dead
          /\ [box[a] EXCEPT !.by = NoOne].abandoned = box[a].abandoned
    BY DEF Inv, Shapes, Boxed, Box
  <2>3. box' = [a \in Attempts |-> IF box[a].by = r THEN [box[a] EXCEPT !.by = NoOne]
                                   ELSE box[a]]
    BY DEF PassDies
  <2>4. \A a \in Attempts : box[a] \in Box
    BY DEF Inv, Shapes, Boxed
  <2>. HIDE DEF Box
  <2>. QED  BY <2>1, <2>2, <2>3, <2>4 DEF Boxed, SameEnd
<1>3. Passes'
  <2>1. Idle \in PassState /\ Idle.at = "idle"
    BY DEF Idle, PassState
  <2>. QED  BY <2>1 DEF PassDies, Inv, Shapes, Passes
<1>4. Authority'
  <2>1. lease' \in {lease, [lease EXCEPT !.holder = NoOne]}
    BY DEF PassDies
  <2>2. lease' \in [holder : Attempts \cup Reconcilers \cup {NoOne}, live : BOOLEAN]
    <3>1. lease \in [holder : Attempts \cup Reconcilers \cup {NoOne}, live : BOOLEAN]
      BY DEF Inv, Shapes, Authority
    <3>2. [lease EXCEPT !.holder = NoOne]
            \in [holder : Attempts \cup Reconcilers \cup {NoOne}, live : BOOLEAN]
      BY <3>1
    <3>. QED  BY <2>1, <3>1, <3>2
  <2>3. faults' \in 0..(MaxFaults + MaxFailures)
    BY BoundsAssumption DEF PassDies, Inv, Shapes, Authority
  <2>. QED  BY <1>1, <2>2, <2>3 DEF Inv, Shapes, Authority
<1>5. RowsShaped' /\ Attempted' /\ Executors'
  BY <1>1 DEF Inv, Shapes, RowsShaped, Attempted, Executors, rows
<1>. QED  BY <1>1, <1>2, <1>3, <1>4, <1>5, Undispatched DEF Shapes, rows

-----------------------------------------------------------------------------
(* The steps that change an attempt or create or deliver an outbox.        *)

(* Request: the attempt is on record before anything else.                 *)
LEMMA RequestGood == ASSUME Inv, NEW a \in Attempts, Request(a) PROVE Good
<1>. USE DEF rows
<1>1. /\ attempt[a] = "none" /\ attempt' = [attempt EXCEPT ![a] = "requested"]
      /\ UNCHANGED <<rows, graced, box, lease, beat, rc, faults>>
  BY DEF Request, Inv, Stages
<1>2. PICK place \in {"settle", "open"} : ex' = [ex EXCEPT ![a] = [@ EXCEPT !.at = place]]
  BY DEF Request, Goes
<1>3. Shapes'
  <2>1. Executors'
    BY <1>2 DEF Inv, Shapes, Executors, Executor
  <2>2. Attempted'
    BY <1>1 DEF Inv, Shapes, Attempted
  <2>. QED
    BY <1>1, <2>1, <2>2 DEF Inv, Shapes, RowsShaped, Authority, Passes, Boxed
<1>4. \A b \in Attempts : /\ attempt'[b] = IF b = a THEN "requested" ELSE attempt[b]
                          /\ b # a => ex'[b] = ex[b]
  BY <1>1, <1>2 DEF Inv, Shapes, Attempted, Executors
<1>5. ex'[a].at # "new"
  BY <1>2 DEF Inv, Shapes, Executors, Executor
<1>6. box[a].state = "none" /\ a \notin checkpoint.after
  BY <1>1 DEF Inv, Stages
<1>7. Stages'
  BY <1>1, <1>4, <1>5, <1>6 DEF Inv, Stages
<1>8. Ended'
  <2>1. ClosedIffDelivered' /\ TerminalHasOutbox'
    <3>. checkpoint.after \subseteq Attempts
      BY DEF Inv, Shapes, RowsShaped
    <3>. QED  BY <1>1, <1>4, <1>6 DEF Inv, Ended, ClosedIffDelivered, TerminalHasOutbox
  <2>2. OnePending'
    BY <1>1 DEF Inv, Ended, OnePending
  <2>. QED  BY <2>1, <2>2 DEF Ended
<1>9. Kept /\ DecidedAtRest' /\ ClaimedIsPending'
  BY <1>1, <1>4 DEF Inv, Kept, DecidedAtRest, ClaimedIsPending
<1>. QED  BY <1>3, <1>7, <1>8, <1>9 DEF Good, Inv

(* Admit: no checkpoint so far knows the attempt. *)
LEMMA AdmitGood == ASSUME Inv, NEW a \in Attempts, Admit(a) PROVE Good
<1>. USE DEF rows
<1>1. /\ attempt[a] = "requested" /\ attempt' = [attempt EXCEPT ![a] = "admitted"]
      /\ ex' = [ex EXCEPT ![a] = [@ EXCEPT !.at = "loop"]]
      /\ UNCHANGED <<rows, graced, box, lease, beat, rc, faults>>
  BY DEF Admit, Goes, Inv, Stages, Unadmitted
<1>3. Shapes'
  <2>1. Executors'
    BY <1>1 DEF Inv, Shapes, Executors, Executor
  <2>2. Attempted'
    BY <1>1 DEF Inv, Shapes, Attempted
  <2>. QED
    BY <1>1, <2>1, <2>2 DEF Inv, Shapes, RowsShaped, Authority, Passes, Boxed
<1>4. \A b \in Attempts : /\ attempt'[b] = IF b = a THEN "admitted" ELSE attempt[b]
                          /\ b # a => ex'[b] = ex[b]
  BY <1>1 DEF Inv, Shapes, Attempted, Executors
<1>5. ex'[a].at # "new" /\ ~Unadmitted(ex'[a])
  BY <1>1 DEF Inv, Shapes, Executors, Executor, Unadmitted
<1>6. box[a].state = "none" /\ a \notin checkpoint.after
  BY <1>1 DEF Inv, Stages
<1>7. Stages'
  BY <1>1, <1>4, <1>5, <1>6 DEF Inv, Stages
<1>8. Ended'
  <2>1. ClosedIffDelivered' /\ TerminalHasOutbox'
    <3>. checkpoint.after \subseteq Attempts
      BY DEF Inv, Shapes, RowsShaped
    <3>. QED  BY <1>1, <1>4, <1>6 DEF Inv, Ended, ClosedIffDelivered, TerminalHasOutbox
  <2>2. OnePending'
    BY <1>1 DEF Inv, Ended, OnePending
  <2>. QED  BY <2>1, <2>2 DEF Ended
<1>9. Kept /\ DecidedAtRest' /\ ClaimedIsPending'
  BY <1>1, <1>4 DEF Inv, Kept, DecidedAtRest, ClaimedIsPending
<1>. QED  BY <1>3, <1>7, <1>8, <1>9 DEF Good, Inv

(* An outbox that does not exist has its shape. *)
LEMMA NoBoxShape ==
    /\ NoBox \in Box /\ NoBox.state = "none" /\ NoBox.dispatch = "none"
    /\ NoBox.dead = FALSE /\ NoBox.abandoned = FALSE
  BY BoundsAssumption DEF NoBox, Box

(* So has a new one. *)
LEMMA NewBoxShape ==
    /\ NewBox \in Box /\ NewBox.state = "pending" /\ NewBox.dispatch = "idle"
    /\ NewBox.dead = FALSE /\ NewBox.abandoned = FALSE
  BY NoBoxShape DEF NewBox, Box

(* An open attempt gets its outcome, and its outbox is delivered with it.  *)
LEMMA Closes ==
    ASSUME Inv, NEW a \in Attempts, NEW o \in {"closed", "reconciled"}, attempt[a] \in Open,
           attempt' = [attempt EXCEPT ![a] = o], box' = Delivered(a),
           RowsShaped', Authority', Passes', Executors', checkpoint' = checkpoint,
           ex'[a].at # "new", ~Unadmitted(ex'[a]),
           \A b \in Attempts : /\ ex'[b].at = "new" => ex[b].at = "new"
                               /\ Unadmitted(ex'[b]) => Unadmitted(ex[b])
    PROVE  Good
<1>1. Attempted' /\ \A b \in Attempts : attempt'[b] = IF b = a THEN o ELSE attempt[b]
  BY DEF Inv, Shapes, Attempted
<1>2. attempt[a] \in {"requested", "admitted"} /\ box[a].state \in {"none", "pending"}
  <2>1. attempt[a] \in {"requested", "admitted"}
    BY DEF Open
  <2>2. box[a].state \in {"none", "pending", "delivered"}
    BY DEF Inv, Shapes, Boxed, Box
  <2>3. box[a].state # "delivered"
    BY <2>1 DEF Inv, Ended, ClosedIffDelivered
  <2>. QED  BY <2>1, <2>2, <2>3
<1>. DEFINE given == box[a].abandoned
            e == [NoBox EXCEPT !.state = "delivered", !.dispatch = "delivered",
                               !.abandoned = given]
<1>3. e \in Box /\ e.state = "delivered" /\ e.dispatch = "delivered" /\ e.dead = FALSE
  <2>1. given \in BOOLEAN
    BY DEF Inv, Shapes, Boxed, Box
  <2>. HIDE DEF given
  <2>. QED  BY <2>1, NoBoxShape DEF Box
<1>4. box' = IF box[a].state = "pending" THEN [box EXCEPT ![a] = e] ELSE box
  BY DEF Delivered
<1>. HIDE DEF e, Box
<1>5. /\ Boxed'
      /\ \A b \in Attempts : b # a => box'[b] = box[b]
      /\ box[a].state = "pending" => box'[a] = e
      /\ box[a].state # "pending" => box'[a] = box[a]
  BY <1>3, <1>4 DEF Inv, Shapes, Boxed
<1>6. Stages'
  BY <1>1, <1>2, <1>3, <1>5 DEF Inv, Stages
<1>7. ClosedIffDelivered'
  BY <1>1, <1>2, <1>3, <1>5 DEF Inv, Ended, ClosedIffDelivered
<1>8. TerminalHasOutbox'
  <2>1. checkpoint.after \subseteq Attempts
    BY DEF Inv, Shapes, RowsShaped
  <2>. QED  BY <1>1, <1>2, <1>3, <1>5, <2>1 DEF Inv, Ended, TerminalHasOutbox
<1>9. OnePending'
  BY <1>3, <1>5 DEF Inv, Ended, OnePending
<1>10. DecidedAtRest' /\ ClaimedIsPending'
  BY <1>3, <1>5 DEF Inv, DecidedAtRest, ClaimedIsPending
<1>11. Kept
  <2>1. \A b \in Attempts :
          attempt[b] \in {"closed", "reconciled"} => attempt'[b] = attempt[b]
    BY <1>1, <1>2
  <2>2. \A b \in Attempts, r \in Workers :
          ~(box[b].dispatch = "claimed" /\ box'[b].dispatch = "idle")
    BY <1>3, <1>5
  <2>. QED  BY <2>1, <2>2 DEF Kept
<1>. QED  BY <1>1, <1>5, <1>6, <1>7, <1>8, <1>9, <1>10, <1>11 DEF Good, Inv, Shapes, Ended

(* Settle: the executor brings the outcome, if nobody else has.            *)
LEMMA SettleGood == ASSUME Inv, NEW a \in Attempts, Settle(a) PROVE Good
<1>. USE DEF rows
<1>1. /\ Executors'
      /\ \A b \in Attempts : /\ ex'[b].at = "new" => ex[b].at = "new"
                             /\ Unadmitted(ex'[b]) => Unadmitted(ex[b])
  BY LeavesKeeps DEF Settle, Inv, Shapes
<1>2. ex'[a].at # "new" /\ ~Unadmitted(ex'[a])
  BY DEF Settle, Leaves, Fresh, Unadmitted, Inv, Shapes, Executors
<1>3. RowsShaped' /\ Authority' /\ Passes' /\ checkpoint' = checkpoint
  BY DEF Settle, Inv, Shapes, RowsShaped, Authority, Passes
<1>4. CASE attempt[a] \in Open
  BY <1>1, <1>2, <1>3, <1>4, Closes DEF Settle
<1>5. CASE attempt[a] \notin Open
  BY <1>1, <1>5, ExecutorMoves DEF Settle
<1>. QED  BY <1>4, <1>5

(* Commit: a reconciler brings the outcome of an attempt that was admitted *)
(* and whose executor will find it closed. *)
LEMMA CommitGood == ASSUME Inv, NEW r \in Reconcilers, Commit(r) PROVE Good
<1>. USE DEF rows
<1>. DEFINE a == rc[r].target
<1>1. /\ rc[r].at = "commit" /\ rc' = EndsAt(r, "release", Finding(r))
      /\ UNCHANGED <<rows, graced, lease, beat, ex, faults>>
  BY DEF Commit
<1>2. a \in Attempts
  BY <1>1 DEF Inv, Shapes, Passes
<1>3. RowsShaped' /\ Authority' /\ Passes' /\ Executors' /\ checkpoint' = checkpoint
  <2>1. Passes'
    BY <1>1, EndsAtKeeps DEF Inv, Shapes
  <2>. QED
    BY <1>1, <2>1 DEF Inv, Shapes, RowsShaped, Authority, Executors
<1>4. CASE Finding(r) = "reconciled"
  <2>1. attempt[a] \in Open /\ EndedAfter(a)
    BY <1>4 DEF Finding
  <2>2. attempt[a] = "admitted"
    BY <1>2, <2>1 DEF EndedAfter, Open, Inv, Stages
  <2>3. ex[a].at # "new" /\ ~Unadmitted(ex[a])
    BY <1>2, <2>2 DEF Inv, Stages
  <2>4. attempt' = [attempt EXCEPT ![a] = "reconciled"] /\ box' = Delivered(a)
    BY <1>4 DEF Commit
  <2>. HIDE DEF a
  <2>. QED  BY <1>1, <1>2, <1>3, <2>1, <2>3, <2>4, Closes
<1>5. CASE Finding(r) # "reconciled"
  BY <1>1, <1>3, <1>5, Aside DEF Commit
<1>. QED  BY <1>4, <1>5

(* SaveCheckpoint: a terminal checkpoint and the outbox of the one attempt *)
(* that is admitted, or neither. *)
LEMMA SaveCheckpointGood == ASSUME Inv, NEW a \in Attempts, SaveCheckpoint(a) PROVE Good
<1>. USE DEF rows
<1>. DEFINE status == ex[a].decision.status
<1>1. /\ ex[a].at \in {"checkpoint", "reconciled"}
      /\ UNCHANGED <<run, recorded, attempt, graced, lease, beat, faults>>
  BY DEF SaveCheckpoint
<1>2. CASE Leaves(a, "close") /\ UNCHANGED <<checkpoint, box, rc>>
  BY <1>1, <1>2, LeavesKeeps, ExecutorMoves DEF Inv, Shapes
<1>3. CASE Goes(a, "refused") /\ UNCHANGED <<checkpoint, box, rc>>
  <2>1. Executors'
    BY <1>3 DEF Goes, Inv, Shapes, Executors, Executor
  <2>2. \A b \in Attempts : /\ ex'[b].at = "new" => ex[b].at = "new"
                            /\ Unadmitted(ex'[b]) => Unadmitted(ex[b])
    BY <1>3 DEF Goes, Inv, Shapes, Executors, Executor, Unadmitted
  <2>. QED  BY <1>1, <1>3, <2>1, <2>2, ExecutorMoves
<1>4. CASE /\ Accepts(status)
           /\ checkpoint' = [status |-> status, after |-> Admitted,
                             covers |-> {d \in DOMAIN recorded : recorded[d] # Never}]
           /\ box' = Boxes(status, Disturbed(box))
           /\ rc' = FactsMove(rc)
           /\ ex' = [b \in Attempts |->
                       IF b = a THEN [ex[a] EXCEPT !.at = ex[a].then]
                       ELSE IF ex[b].at \in {"new", "close", "settle", "done", "dead"}
                       THEN ex[b] ELSE [ex[b] EXCEPT !.based = FALSE]]
  <2>1. Executors'
    <3>1. [ex[a] EXCEPT !.at = ex[a].then] \in Executor
      BY DEF Inv, Shapes, Executors, Executor
    <3>2. \A b \in Attempts : ex[b] \in Executor /\ [ex[b] EXCEPT !.based = FALSE] \in Executor
      BY DEF Inv, Shapes, Executors, Executor
    <3>. HIDE DEF Executor
    <3>. QED  BY <1>4, <3>1, <3>2 DEF Executors
  <2>2. \A b \in Attempts : /\ ex'[b].at = "new" => ex[b].at = "new"
                            /\ Unadmitted(ex'[b]) => Unadmitted(ex[b])
    BY <1>1, <1>4 DEF Inv, Shapes, Executors, Executor, Unadmitted
  <2>3. RowsShaped'
    <3>1. status \in {d.status : d \in Decisions}
      BY DEF Inv, Shapes, Executors, Executor
    <3>2. Admitted \in SUBSET Attempts
      BY DEF Admitted
    <3>3. {d \in DOMAIN recorded : recorded[d] # Never} \in SUBSET (Decisions \cup {Broken})
      BY DEF Inv, Shapes, RowsShaped, Decisions
    <3>. HIDE DEF status
    <3>. QED  BY <1>1, <1>4, <3>1, <3>2, <3>3 DEF Inv, Shapes, RowsShaped
  <2>4. Passes' /\ Authority' /\ Attempted'
    BY <1>1, <1>4, MovesKeepPasses DEF Inv, Shapes, Authority, Attempted
  <2>5. NewBox \in Box /\ NewBox.state = "pending" /\ NewBox.dispatch = "idle"
        /\ NewBox.dead = FALSE /\ NewBox.abandoned = FALSE
    BY NewBoxShape
  <2>. DEFINE new == IF status = "running" THEN {} ELSE Admitted
              b1 == Disturbed(box)
  <2>6. new \subseteq Admitted /\ (status # "running" => new = Admitted)
    OBVIOUS
  <2>7. b1 \in [Attempts -> Box] /\ SameEnd(box, b1)
    BY DisturbedKeeps DEF Inv, Shapes
  <2>8. \A b \in Attempts : box'[b] = IF b \in new THEN NewBox ELSE b1[b]
    BY <1>4 DEF Boxes
  <2>9. Boxed'
    <3>1. box' = b1 \/ box' = [b \in Attempts |-> IF b \in Admitted THEN NewBox ELSE b1[b]]
      BY <1>4 DEF Boxes
    <3>. HIDE DEF b1, Box
    <3>. QED  BY <2>5, <2>7, <3>1 DEF Boxed
  <2>10. \A b \in new : box[b].state = "none" /\ attempt[b] = "admitted" /\ b \in Attempts
    BY <1>4 DEF Accepts, Admitted
  <2>11. \A b, c \in new : b = c
    <3>1. CASE status = "running"
      BY <3>1
    <3>2. CASE status # "running" /\ Admitted # {}
      <4>1. Cardinality(Admitted) = 1
        BY <1>4, <3>2 DEF Accepts
      <4>2. IsFiniteSet(Admitted)
        BY ActorsAssumption, FS_Subset DEF Admitted
      <4>3. PICK x : Admitted = {x}
        BY <4>1, <4>2, FS_Singleton
      <4>. QED  BY <3>2, <4>3
    <3>3. CASE Admitted = {}
      BY <3>3
    <3>. QED  BY <3>1, <3>2, <3>3
  <2>. HIDE DEF b1, new, Box, status
  <2>12. \A b \in Attempts : b \notin new =>
            /\ box'[b].state = box[b].state /\ box'[b].dispatch = box[b].dispatch
            /\ box'[b].dead = box[b].dead /\ box'[b].abandoned = box[b].abandoned
    BY <2>7, <2>8 DEF SameEnd
  <2>13. \A b \in new : box'[b] = NewBox
    BY <2>8, <2>10
  <2>14. Stages'
    BY <1>1, <1>4, <2>2, <2>5, <2>10, <2>12, <2>13 DEF Inv, Stages, Admitted
  <2>15. ClosedIffDelivered'
    BY <1>1, <2>5, <2>10, <2>12, <2>13 DEF Inv, Ended, ClosedIffDelivered
  <2>16. TerminalHasOutbox'
    <3>1. checkpoint'.after = Admitted /\ checkpoint'.status = status
      BY <1>4
    <3>2. status # "running" => \A b \in Admitted : box'[b].state = "pending"
      BY <2>5, <2>6, <2>13
    <3>. QED  BY <3>1, <3>2 DEF TerminalHasOutbox
  <2>17. OnePending'
    <3>. SUFFICES ASSUME NEW b \in Attempts, NEW c \in Attempts,
                         box'[b].state = "pending", box'[c].state = "pending"
                  PROVE  b = c
      BY DEF OnePending
    <3>1. CASE b \notin new /\ c \notin new
      BY <2>12, <3>1 DEF Inv, Ended, OnePending
    <3>2. CASE b \in new \/ c \in new
      <4>1. \A x \in Attempts : x \notin new /\ box'[x].state = "pending" => x \in Admitted
        <5>. SUFFICES ASSUME NEW x \in Attempts, x \notin new, box[x].state = "pending"
                      PROVE  x \in Admitted
          BY <2>12
        <5>1. attempt[x] \in {"admitted", "closed", "reconciled"}
          BY DEF Inv, Stages
        <5>2. attempt[x] \notin {"closed", "reconciled"}
          BY DEF Inv, Ended, ClosedIffDelivered
        <5>. QED  BY <5>1, <5>2 DEF Admitted
      <4>2. new = Admitted
        BY <2>6, <3>2 DEF new
      <4>. QED  BY <2>11, <4>1, <4>2
    <3>. QED  BY <3>1, <3>2
  <2>18. DecidedAtRest' /\ ClaimedIsPending'
    BY <2>5, <2>12, <2>13 DEF Inv, DecidedAtRest, ClaimedIsPending
  <2>19. Kept
    <3>1. \A b \in Attempts : box[b].dispatch = "claimed" => b \notin new
      BY <2>10 DEF Inv, ClaimedIsPending
    <3>. QED  BY <1>1, <2>12, <3>1 DEF Kept
  <2>. QED
    BY <2>1, <2>3, <2>4, <2>9, <2>14, <2>15, <2>16, <2>17, <2>18, <2>19
       DEF Good, Inv, Shapes, Ended
<1>. QED  BY <1>2, <1>3, <1>4 DEF SaveCheckpoint

-----------------------------------------------------------------------------
(* All together. *)

(* A run that has not been resumed yet has no attempt and no outbox. *)
LEMMA InvInit == Init => Inv
<1>. SUFFICES ASSUME Init PROVE Inv
  OBVIOUS
<1>. PICK d \in Outcomes \cup {Going} :
        /\ d.status \notin Final
        /\ run = [decision |-> d, error |-> FALSE]
        /\ recorded = [c \in Outcomes \cup {Broken} |-> IF c = d THEN {} ELSE Never]
        /\ checkpoint = [status |-> d.status, after |-> {}, covers |-> {d} \cap Outcomes]
  BY DEF Init
<1>1. RowsShaped
  <2>1. d \in Decisions
    BY DEF Decisions
  <2>2. recorded \in [Outcomes \cup {Broken} -> (SUBSET Attempts) \cup {Never}]
    <3>1. {} \in (SUBSET Attempts) \cup {Never} /\ Never \in (SUBSET Attempts) \cup {Never}
      OBVIOUS
    <3>. HIDE DEF Never
    <3>. QED  BY <3>1
  <2>3. {d} \cap Outcomes \in SUBSET (Decisions \cup {Broken})
    BY DEF Decisions
  <2>. QED  BY <2>1, <2>2, <2>3 DEF RowsShaped
<1>2. Authority /\ Passes
  <2>1. lease = [holder |-> NoOne, live |-> FALSE] /\ beat = NoOne /\ graced = {} /\ faults = 0
        /\ rc = [r \in Reconcilers |-> Idle]
    BY DEF Init
  <2>2. Idle \in PassState /\ Idle.at = "idle"
    BY DEF Idle, PassState
  <2>. QED  BY <2>1, <2>2, BoundsAssumption DEF Authority, Passes
<1>3. attempt = [a \in Attempts |-> "none"] /\ box = [a \in Attempts |-> NoBox]
      /\ ex = [a \in Attempts |-> Fresh]
  BY DEF Init
<1>4. Fresh \in Executor /\ Fresh.at = "new" /\ ~Unadmitted(Fresh)
  BY DEF Fresh, Executor, Unadmitted, Decisions
<1>5. NoBox \in Box /\ NoBox.state = "none" /\ NoBox.dispatch = "none"
      /\ NoBox.dead = FALSE /\ NoBox.abandoned = FALSE
  BY NoBoxShape
<1>6. Shapes
  BY <1>1, <1>2, <1>3, <1>4, <1>5 DEF Shapes, Executors, Attempted, Boxed
<1>7. Stages
  BY <1>3, <1>4, <1>5 DEF Stages
<1>8. Ended /\ DecidedAtRest /\ ClaimedIsPending
  BY <1>3, <1>5 DEF Ended, ClosedIffDelivered, TerminalHasOutbox, OnePending, DecidedAtRest,
                    ClaimedIsPending
<1>. QED  BY <1>6, <1>7, <1>8 DEF Inv

(* Every step keeps the invariant, the outcomes and the claims. *)
LEMMA EveryStep == Inv /\ [Next]_vars => Good
<1>. SUFFICES ASSUME Inv, [Next]_vars PROVE Good
  OBVIOUS
<1>1. CASE UNCHANGED vars
  BY <1>1, Aside DEF vars, rows, Inv, Shapes, RowsShaped, Authority, Passes
<1>2. ASSUME NEW a \in Attempts, Work(a) PROVE Good
  BY <1>2, RequestGood, OpenLeaseGood, DecisionsGood, AdmitGood, SaveRunGood,
     SaveCheckpointGood, MarkErrorGood, CloseGood, SettleGood DEF Work
<1>3. ASSUME NEW a \in Attempts,
             \/ KeepAlive(a) \/ Notice(a) \/ Cancel(a) \/ Crash(a) \/ GraceOver(a)
             \/ BoxDue(a) \/ ClaimExpires(a) \/ Requeue(a) \/ Abandon(a)
      PROVE  Good
  BY <1>3, KeepAliveGood, LeavingGood, ClockGood, BoxGood
<1>4. ASSUME NEW r \in Reconcilers,
             (\E a \in Attempts : Ask(r, a)) \/ Pass(r) \/ PassDies(r)
      PROVE  Good
  BY <1>4, PassGood, ClaimGood, AcquireGood, CommitGood, FinishGood, PassDiesGood DEF Pass
<1>5. CASE ExpireLease \/ BeatStale
  BY <1>5, ClockGood
<1>. QED  BY <1>1, <1>2, <1>3, <1>4, <1>5 DEF Next

(* The shapes and the outboxes are those of the properties. *)
LEMMA InvImplies == Inv => TypeOK /\ AtMostOnePending
<1>. SUFFICES ASSUME Inv PROVE AtMostOnePending
  BY ShapesAreTypes DEF Inv
<1>. DEFINE pending == {a \in Attempts : box[a].state = "pending"}
<1>1. CASE pending = {}
  BY <1>1, FS_EmptySet DEF AtMostOnePending
<1>2. CASE pending # {}
  <2>1. PICK a \in pending : TRUE
    BY <1>2
  <2>2. pending = {a}
    <3>1. \A b \in pending : b = a
      BY <2>1 DEF Inv, Ended, OnePending
    <3>. HIDE DEF pending
    <3>. QED  BY <2>1, <3>1
  <2>3. Cardinality(pending) = 1
    BY <2>2, FS_Singleton
  <2>. QED  BY <2>3 DEF AtMostOnePending
<1>. QED  BY <1>1, <1>2

(* Inv holds in every state. *)
LEMMA InvHolds == Spec => []Inv
<1>1. Inv /\ [Next]_vars => Inv'
  BY EveryStep DEF Good
<1>. QED  BY <1>1, InvInit, PTL DEF Spec

(* Rows, executors and passes keep their shapes. *)
THEOREM RecoveryTyped == Spec => []TypeOK
<1>1. Inv => TypeOK
  BY InvImplies
<1>. QED  BY <1>1, InvHolds, PTL

(* An outbox is delivered exactly with the outcome of its attempt, whoever *)
(* brought it: _deliver_terminal_outbox_with_connection. *)
THEOREM DeliveredWithItsOutcome == Spec => []ClosedIffDelivered
<1>1. Inv => ClosedIffDelivered
  BY DEF Inv, Ended
<1>. QED  BY <1>1, InvHolds, PTL

(* A terminal checkpoint has its outbox, so that a worker finds an attempt *)
(* whose executor is gone: _enqueue_terminal_outbox_with_connection. *)
THEOREM EveryEndHasItsOutbox == Spec => []TerminalHasOutbox
<1>1. Inv => TerminalHasOutbox
  BY DEF Inv, Ended
<1>. QED  BY <1>1, InvHolds, PTL

(* The attempts of one run have one undelivered outbox at most. *)
THEOREM OneIsPending == Spec => []AtMostOnePending
<1>1. Inv => AtMostOnePending
  BY InvImplies
<1>. QED  BY <1>1, InvHolds, PTL

(* An outbox a person has to decide about is in nobody's hands. *)
THEOREM DecisionsAtRest == Spec => []DecidedAtRest
<1>1. Inv => DecidedAtRest
  BY DEF Inv
<1>. QED  BY <1>1, InvHolds, PTL

(* An attempt has one outcome, although executors that were taken for dead *)
(* come back and reconcilers may be late. *)
THEOREM OneOutcome == Spec => OutcomesStay
<1>1. Inv /\ [Next]_vars
        => \A a \in Attempts :
              attempt[a] \in {"closed", "reconciled"} => attempt'[a] = attempt[a]
  BY EveryStep DEF Good, Kept
<1>. QED  BY <1>1, InvHolds, PTL DEF Spec, OutcomesStay

(* The live claim of a worker is given back by that worker alone:          *)
(* record_terminal_outbox_failure and release_terminal_outbox_claim. *)
THEOREM OwnClaimsOnly == Spec => ClaimsAreKept
<1>1. Inv /\ [Next]_vars
        => \A a \in Attempts, r \in Workers :
             /\ box[a].dispatch = "claimed" /\ box[a].by = r /\ box[a].live
             /\ box'[a].dispatch = "idle"
             => rc[r].at = "finish" /\ rc'[r].at = "idle"
  BY EveryStep DEF Good, Kept
<1>. QED  BY <1>1, InvHolds, PTL DEF Spec, ClaimsAreKept

-----------------------------------------------------------------------------
(* Why an outbox is dead.  While the run of a pending outbox stands still, *)
(* row and checkpoint agree on its end, and they are what a commit of its  *)
(* reconciler asks for; so a pass over it fails by a failing call or by a  *)
(* heartbeat that has overtaken its reading, and every charge has one.     *)
Undisturbed(a) == box[a].state = "pending" /\ ~box[a].disturbed

RunIsRecorded == run.decision \in Outcomes \cup {Broken} => recorded[run.decision] # Never

Covered ==
    \A a \in Attempts : Undisturbed(a) =>
        /\ EndedAfter(a) /\ checkpoint.status = run.decision.status
        /\ run.decision \in checkpoint.covers

Charged ==
    \A a \in Attempts :
        /\ Undisturbed(a) => /\ box[a].failures <= faults
                             /\ box[a].dead => MaxFailures <= faults
        /\ box[a].dead => box[a].state = "pending"

(* The pass of a worker, unless its outbox is delivered or disturbed: it   *)
(* is not behind the facts, has not failed for good, keeps the lease it    *)
(* has taken, and its failure has been counted.                            *)
Timely(r) ==
    LET a == rc[r].target IN
    rc[r].at # "idle" =>
        /\ box[a].state # "none"
        /\ Undisturbed(a) =>
              /\ ~rc[r].late /\ rc[r].class # "permanent"
              /\ rc[r].at \in {"fence", "commit"} => lease.holder = r
              /\ rc[r].class = "retryable" /\ OwnsClaim(r) => box[a].failures < faults

Cause == RunIsRecorded /\ Covered /\ Charged /\ \A r \in Workers : Timely(r)

(* A step that leaves an outbox as disturbed and as far as it was, charges *)
(* none, and lets no dead one arise. *)
Settles ==
    \A a \in Attempts :
        /\ box[a].state # "none" => box'[a].state # "none"
        /\ box'[a].state = "pending" /\ ~box'[a].disturbed => Undisturbed(a)

Uncharged ==
    /\ faults \in Nat /\ faults' \in Nat /\ faults <= faults'
    /\ \A a \in Attempts :
          /\ box'[a].state = "pending" /\ ~box'[a].disturbed =>
                /\ box'[a].failures = box[a].failures /\ box[a].failures \in Nat
                /\ box'[a].dead => box[a].dead
          /\ box'[a].dead => box'[a].state = "pending"

(* What another's step leaves of a worker's pass. *)
Untouched(r) ==
    rc'[r].at # "idle" =>
        /\ rc[r].at # "idle" /\ rc'[r].target = rc[r].target /\ rc[r].target \in Attempts
        /\ box'[rc[r].target].state = "pending" /\ ~box'[rc[r].target].disturbed =>
              /\ rc'[r].late = rc[r].late /\ rc'[r].class = rc[r].class
              /\ rc'[r].at \in {"fence", "commit"} =>
                    rc[r].at \in {"fence", "commit"} /\ (lease.holder = r => lease'.holder = r)
              /\ OwnsClaim(r)' =>
                    OwnsClaim(r) /\ box'[rc[r].target].failures = box[rc[r].target].failures

LEMMA UnchargedKeepsCharged ==
    ASSUME Cause, Settles, Uncharged
    PROVE  Charged' /\ faults' \in Nat /\ faults <= faults'
<1>. SUFFICES ASSUME NEW a \in Attempts, Undisturbed(a)'
              PROVE  /\ box'[a].failures <= faults'
                     /\ box'[a].dead => MaxFailures <= faults'
  BY DEF Charged, Uncharged
<1>1. Undisturbed(a) /\ box'[a].failures = box[a].failures /\ (box'[a].dead => box[a].dead)
  BY DEF Settles, Uncharged, Undisturbed
<1>2. box[a].failures <= faults /\ (box[a].dead => MaxFailures <= faults)
  BY <1>1 DEF Cause, Charged
<1>3. /\ faults \in Nat /\ faults' \in Nat /\ faults <= faults' /\ MaxFailures \in Nat
      /\ box[a].failures \in Nat
  BY BoundsAssumption DEF Uncharged, Undisturbed
<1>. QED  BY <1>1, <1>2, <1>3

(* A step of somebody else, as far as a worker's pass goes. *)
LEMMA UntouchedKeepsTimely ==
    ASSUME Inv, NEW r \in Workers, Timely(r), Settles, faults' \in Nat, faults <= faults',
           Untouched(r)
    PROVE  Timely(r)'
<1>. SUFFICES ASSUME rc'[r].at # "idle" PROVE Timely(r)'
  BY DEF Timely
<1>. PICK a \in Attempts : rc[r].target = a /\ rc'[r].target = a
  BY DEF Untouched
<1>1. rc[r].at # "idle"
  BY DEF Untouched
<1>2. box'[a].state # "none"
  BY <1>1 DEF Timely, Settles
<1>3. ASSUME Undisturbed(a)'
      PROVE  /\ ~rc'[r].late /\ rc'[r].class # "permanent"
             /\ rc'[r].at \in {"fence", "commit"} => lease'.holder = r
             /\ rc'[r].class = "retryable" /\ OwnsClaim(r)' => box'[a].failures < faults'
  <2>1. Undisturbed(a)
    BY <1>3 DEF Settles, Undisturbed
  <2>2. /\ rc'[r].late = rc[r].late /\ rc'[r].class = rc[r].class
        /\ rc'[r].at \in {"fence", "commit"} =>
              rc[r].at \in {"fence", "commit"} /\ (lease.holder = r => lease'.holder = r)
        /\ OwnsClaim(r)' => OwnsClaim(r) /\ box'[a].failures = box[a].failures
    BY <1>3 DEF Untouched, Undisturbed
  <2>3. /\ ~rc[r].late /\ rc[r].class # "permanent"
        /\ rc[r].at \in {"fence", "commit"} => lease.holder = r
        /\ rc[r].class = "retryable" /\ OwnsClaim(r) => box[a].failures < faults
    BY <1>1, <2>1 DEF Timely
  <2>4. box[a].failures \in Nat /\ faults \in Nat
    BY BoundsAssumption DEF Inv, Shapes, Authority, Boxed, Box
  <2>. QED  BY <2>2, <2>3, <2>4
<1>. QED  BY <1>2, <1>3 DEF Timely

LEMMA QuietKeepsCause ==
    ASSUME Inv, Cause, UNCHANGED rows, Settles, Charged', faults' \in Nat, faults <= faults',
           \A r \in Workers : Untouched(r) \/ Timely(r)'
    PROVE  Cause'
<1>1. RunIsRecorded'
  BY DEF Cause, RunIsRecorded, rows
<1>2. Covered'
  BY DEF Cause, Covered, Settles, Undisturbed, EndedAfter, rows
<1>. QED  BY <1>1, <1>2, UntouchedKeepsTimely DEF Cause

(* A step that leaves every outbox alone. *)
LEMMA SameBoxes ==
    ASSUME Inv, Cause, UNCHANGED box, faults' \in Nat, faults <= faults'
    PROVE  Settles /\ Uncharged
<1>1. Settles
  BY DEF Settles, Undisturbed
<1>2. faults \in Nat /\ \A a \in Attempts : box[a].failures \in Nat
  BY BoundsAssumption DEF Inv, Shapes, Authority, Boxed, Box
<1>. QED  BY <1>1, <1>2 DEF Uncharged, Cause, Charged

(* A step that disturbs every pending outbox. *)
LEMMA DisturbedBoxes ==
    ASSUME Inv, Cause, box' = Disturbed(box), UNCHANGED faults
    PROVE  /\ Settles /\ Uncharged
           /\ \A a \in Attempts : ~(box'[a].state = "pending" /\ ~box'[a].disturbed)
<1>1. \A a \in Attempts : /\ box'[a].state = box[a].state /\ box'[a].dead = box[a].dead
                          /\ box'[a].state = "pending" => box'[a].disturbed = TRUE
  BY DEF Disturbed, Inv, Shapes, Boxed, Box
<1>2. faults \in Nat
  BY BoundsAssumption DEF Inv, Shapes, Authority
<1>. QED  BY <1>1, <1>2 DEF Settles, Uncharged, Cause, Charged

(* The executors and the clock while they leave outboxes, rows and passes  *)
(* alone. *)
LEMMA ElsewhereKeepsCause ==
    ASSUME Inv, Cause, UNCHANGED <<rows, box, lease, rc, faults>>
    PROVE  Cause'
<1>1. Settles /\ Uncharged
  BY SameBoxes, BoundsAssumption DEF Inv, Shapes, Authority
<1>2. \A r \in Workers : Untouched(r)
  BY DEF Untouched, OwnsClaim, Inv, Shapes, Passes, Reconcilers
<1>. QED  BY <1>1, <1>2, QuietKeepsCause, UnchargedKeepsCharged

(* The lease or the heartbeat changes, but no worker loses the lease by it *)
(* that stands in the way of a pending outbox. *)
LEMMA AuthorityKeepsCause ==
    ASSUME Inv, Cause, UNCHANGED <<rows, faults>>,
           rc' = AuthorityMoves(rc) \/ rc' = OwnerBeats(rc),
           \/ UNCHANGED box /\ \A r \in Workers : lease.holder = r => lease'.holder = r
           \/ box' = Disturbed(box)
    PROVE  Cause'
<1>1. Settles /\ Uncharged
  BY SameBoxes, DisturbedBoxes, BoundsAssumption DEF Inv, Shapes, Authority
<1>2. \A r \in Reconcilers :
         /\ rc'[r].at = rc[r].at /\ rc'[r].class = rc[r].class /\ rc'[r].late = rc[r].late
         /\ rc'[r].target = rc[r].target
         /\ rc[r].at # "idle" => rc[r].target \in Attempts
  BY OwnerBeatsKeeps DEF AuthorityMoves, Inv, Shapes, Passes, PassState
<1>3. ASSUME NEW r \in Workers PROVE Untouched(r)
  <2>1. CASE box' = Disturbed(box)
    BY <1>2, <2>1, DisturbedBoxes DEF Untouched, Reconcilers
  <2>2. CASE UNCHANGED box /\ (lease.holder = r => lease'.holder = r)
    BY <1>2, <2>2 DEF Untouched, OwnsClaim, Reconcilers
  <2>. QED  BY <2>1, <2>2
<1>. QED  BY <1>1, <1>3, QuietKeepsCause, UnchargedKeepsCharged

(* A step of one outbox that is neither charged nor claimed by it. *)
LEMMA BoxKeepsCause ==
    ASSUME Inv, Cause, UNCHANGED <<rows, lease, rc, faults>>, NEW a \in Attempts, NEW b,
           box' = [box EXCEPT ![a] = b],
           b.state # "none" \/ box[a].state = "none",
           b.dead => b.state = "pending",
           b.state = "pending" /\ ~b.disturbed =>
              Undisturbed(a) /\ b.failures = box[a].failures /\ (b.dead => box[a].dead),
           b.state = "pending" /\ b.dispatch = "claimed" /\ b.live =>
              box[a].dispatch = "claimed" /\ box[a].live /\ box[a].by = b.by
    PROVE  Cause'
<1>1. \A c \in Attempts : box'[c] = IF c = a THEN b ELSE box[c]
  BY DEF Inv, Shapes, Boxed
<1>2. Settles
  BY <1>1 DEF Settles, Undisturbed
<1>3. faults \in Nat /\ \A c \in Attempts : box[c].failures \in Nat
  BY BoundsAssumption DEF Inv, Shapes, Authority, Boxed, Box
<1>4. Uncharged
  BY <1>1, <1>3 DEF Uncharged, Cause, Charged
<1>5. ASSUME NEW r \in Workers PROVE Untouched(r)
  <2>1. rc[r].at # "idle" => rc[r].target \in Attempts
    BY DEF Inv, Shapes, Passes, Reconcilers
  <2>. QED  BY <1>1, <2>1 DEF Untouched, OwnsClaim, Undisturbed
<1>. QED  BY <1>2, <1>4, <1>5, QuietKeepsCause, UnchargedKeepsCharged

LEMMA BoxesKeepCause ==
    ASSUME Inv, Cause, NEW a \in Attempts,
           BoxDue(a) \/ ClaimExpires(a) \/ Requeue(a) \/ Abandon(a) \/ Settle(a)
    PROVE  Cause'
<1>. USE DEF rows
<1>1. box[a] \in Box /\ box[a] = [box[a] EXCEPT !.state = box[a].state]
  BY DEF Inv, Shapes, Boxed, Box
<1>2. box[a].dead => box[a].state = "pending"
  BY DEF Cause, Charged
<1>3. CASE BoxDue(a)
  <2>. DEFINE b == [box[a] EXCEPT !.due = TRUE]
  <2>1. /\ b.state = box[a].state /\ b.dead = box[a].dead /\ b.disturbed = box[a].disturbed
        /\ b.failures = box[a].failures /\ b.dispatch = box[a].dispatch
        /\ b.live = box[a].live /\ b.by = box[a].by
    BY <1>1 DEF Box
  <2>2. box' = [box EXCEPT ![a] = b]
    BY <1>3 DEF BoxDue
  <2>3. box[a].dispatch = "idle" /\ UNCHANGED <<rows, lease, rc, faults>>
    BY <1>3 DEF BoxDue
  <2>. HIDE DEF b
  <2>4. /\ b.state # "none" \/ box[a].state = "none"
        /\ b.dead => b.state = "pending"
        /\ b.state = "pending" /\ ~b.disturbed =>
              Undisturbed(a) /\ b.failures = box[a].failures /\ (b.dead => box[a].dead)
        /\ ~(b.dispatch = "claimed")
    BY <1>2, <2>1, <2>3 DEF Undisturbed
  <2>. QED  BY <2>2, <2>3, <2>4, BoxKeepsCause
<1>4. CASE ClaimExpires(a)
  <2>. DEFINE b == [box[a] EXCEPT !.live = FALSE]
  <2>1. /\ b.state = box[a].state /\ b.dead = box[a].dead /\ b.disturbed = box[a].disturbed
        /\ b.failures = box[a].failures /\ ~b.live
    BY <1>1 DEF Box
  <2>2. box' = [box EXCEPT ![a] = b]
    BY <1>4 DEF ClaimExpires
  <2>3. UNCHANGED <<rows, lease, rc, faults>>
    BY <1>4 DEF ClaimExpires
  <2>. HIDE DEF b
  <2>4. /\ b.state # "none" \/ box[a].state = "none"
        /\ b.dead => b.state = "pending"
        /\ b.state = "pending" /\ ~b.disturbed =>
              Undisturbed(a) /\ b.failures = box[a].failures /\ (b.dead => box[a].dead)
        /\ ~b.live
    BY <1>2, <2>1 DEF Undisturbed
  <2>. QED  BY <2>2, <2>3, <2>4, BoxKeepsCause
<1>5. CASE Requeue(a)
  <2>. DEFINE b == [box[a] EXCEPT !.dead = FALSE, !.due = TRUE,
                                  !.requeues = box[a].requeues + 1]
  <2>1. /\ b.state = box[a].state /\ ~b.dead /\ b.disturbed = box[a].disturbed
        /\ b.failures = box[a].failures /\ b.dispatch = box[a].dispatch
    BY <1>1 DEF Box
  <2>2. box' = [box EXCEPT ![a] = b] /\ box[a].dispatch = "idle"
    BY <1>5 DEF Requeue
  <2>. HIDE DEF b
  <2>. QED  BY <1>5, <2>1, <2>2, BoxKeepsCause DEF Requeue, Undisturbed
<1>6. CASE Abandon(a)
  <2>. DEFINE b == [box[a] EXCEPT !.dead = FALSE, !.abandoned = TRUE]
  <2>1. /\ b.state = box[a].state /\ ~b.dead /\ b.disturbed = box[a].disturbed
        /\ b.failures = box[a].failures /\ b.dispatch = box[a].dispatch
    BY <1>1 DEF Box
  <2>2. box' = [box EXCEPT ![a] = b] /\ box[a].dispatch = "idle"
    BY <1>6 DEF Abandon
  <2>. HIDE DEF b
  <2>. QED  BY <1>6, <2>1, <2>2, BoxKeepsCause DEF Abandon, Undisturbed
<1>7. CASE Settle(a)
  <2>1. CASE UNCHANGED box
    BY <1>7, <2>1, ElsewhereKeepsCause DEF Settle
  <2>2. CASE box[a].state = "pending" /\ box' = Delivered(a)
    <3>. DEFINE b == [NoBox EXCEPT !.state = "delivered", !.dispatch = "delivered",
                                   !.abandoned = box[a].abandoned]
    <3>1. b.state = "delivered" /\ ~b.dead
      BY NoBoxShape DEF NoBox
    <3>2. box' = [box EXCEPT ![a] = b]
      BY <2>2 DEF Delivered
    <3>. HIDE DEF b
    <3>. QED  BY <1>7, <3>1, <3>2, BoxKeepsCause DEF Settle
  <2>. QED  BY <1>7, <2>1, <2>2 DEF Settle, Delivered
<1>. QED  BY <1>3, <1>4, <1>5, <1>6, <1>7

(* The run row or the checkpoint changes: every pending outbox is          *)
(* disturbed, and a new one finds the rows that brought it.                *)
LEMMA FactsKeepCause ==
    ASSUME Inv, Cause, UNCHANGED <<lease, faults>>, rc' = FactsMove(rc), RunIsRecorded',
           \A a \in Attempts : box[a].state # "none" =>
               box'[a].state = box[a].state /\ (box'[a].state = "pending" => box'[a].disturbed),
           \A a \in Attempts : box'[a].state = "pending" /\ ~box'[a].disturbed =>
               /\ box'[a].failures = 0 /\ ~box'[a].dead
               /\ EndedAfter(a)' /\ checkpoint'.status = run'.decision.status
               /\ run'.decision \in checkpoint'.covers,
           \A a \in Attempts : box'[a].dead => box'[a].state = "pending"
    PROVE  Cause'
<1>1. Covered' /\ Charged'
  BY BoundsAssumption DEF Covered, Charged, Undisturbed, Inv, Shapes, Authority
<1>2. \A r \in Reconcilers :
         rc'[r].at = rc[r].at /\ rc'[r].target = rc[r].target
         /\ (rc[r].at # "idle" => rc[r].target \in Attempts)
  BY DEF FactsMove, Inv, Shapes, Passes, PassState
<1>3. ASSUME NEW r \in Workers PROVE Timely(r)'
  <2>1. Timely(r) /\ r \in Reconcilers
    BY DEF Cause, Reconcilers
  <2>. QED  BY <1>2, <2>1 DEF Timely, Undisturbed
<1>. QED  BY <1>1, <1>3 DEF Cause

(* save_run: a decision that has a row is on record. *)
LEMMA SavedRunKeepsCause ==
    ASSUME Inv, Cause, NEW d \in Decisions \cup {Broken}, NEW e, SavedRun(d, e),
           box' = Disturbed(box), rc' = FactsMove(rc), UNCHANGED <<lease, faults>>
    PROVE  Cause'
<1>1. RunIsRecorded'
  <2>1. Admitted # Never
    BY ActorsAssumption DEF Admitted, Never
  <2>2. run'.decision = d /\ recorded \in [Outcomes \cup {Broken} -> (SUBSET Attempts) \cup {Never}]
    BY DEF SavedRun, Inv, Shapes, RowsShaped
  <2>3. recorded' = [c \in Outcomes \cup {Broken} |->
                        IF c = d /\ recorded[c] = Never THEN Admitted ELSE recorded[c]]
    BY <2>2 DEF SavedRun
  <2>. HIDE DEF Never, Admitted, Broken
  <2>. QED  BY <2>1, <2>2, <2>3 DEF RunIsRecorded
<1>2. Uncharged /\ \A a \in Attempts : ~(box'[a].state = "pending" /\ ~box'[a].disturbed)
  BY DisturbedBoxes
<1>3. \A a \in Attempts : box'[a].state = box[a].state
  BY DisturbedKeeps DEF SameEnd, Inv, Shapes
<1>4. \A a \in Attempts : box'[a].dead => box'[a].state = "pending"
  BY <1>2 DEF Uncharged
<1>. QED  BY <1>1, <1>2, <1>3, <1>4, FactsKeepCause

LEMMA SaveRunKeepsCause ==
    ASSUME Inv, Cause, NEW a \in Attempts, SaveRun(a) \/ MarkError(a)
    PROVE  Cause'
<1>1. ex[a].decision \in Decisions
  BY DEF Inv, Shapes, Executors, Executor
<1>2. CASE UNCHANGED <<run, recorded, box, rc>>
  BY <1>2, ElsewhereKeepsCause DEF SaveRun, MarkError, rows
<1>3. CASE /\ SavedRun(ex[a].decision, FALSE) \/ SavedRun(Broken, TRUE)
           /\ box' = Disturbed(box) /\ rc' = FactsMove(rc)
  BY <1>1, <1>3, SavedRunKeepsCause DEF SaveRun, MarkError
<1>. QED  BY <1>2, <1>3 DEF SaveRun, MarkError

(* save_checkpoint: the outbox it creates agrees with the run row. *)
LEMMA SaveCheckpointKeepsCause ==
    ASSUME Inv, Cause, NEW a \in Attempts, SaveCheckpoint(a)
    PROVE  Cause'
<1>. DEFINE status == ex[a].decision.status
            covers == {d \in DOMAIN recorded : recorded[d] # Never}
<1>1. CASE UNCHANGED <<checkpoint, box, rc>>
  BY <1>1, ElsewhereKeepsCause DEF SaveCheckpoint, rows
<1>2. CASE /\ Accepts(status)
           /\ checkpoint' = [status |-> status, after |-> Admitted, covers |-> covers]
           /\ box' = Boxes(status, Disturbed(box))
           /\ rc' = FactsMove(rc)
  <2>. DEFINE b1 == Disturbed(box)
              new == IF status = "running" THEN {} ELSE Admitted
  <2>1. UNCHANGED <<run, recorded, lease, faults>>
    BY DEF SaveCheckpoint
  <2>2. RunIsRecorded'
    BY <2>1 DEF Cause, RunIsRecorded
  <2>3. \A b \in Attempts : /\ b1[b].state = box[b].state /\ b1[b].dead = box[b].dead
                            /\ b1[b].state = "pending" => b1[b].disturbed = TRUE
    BY DEF Disturbed, Inv, Shapes, Boxed, Box
  <2>4. \A b \in Attempts : box'[b] = IF b \in new THEN NewBox ELSE b1[b]
    <3>1. box' = IF status = "running" THEN b1
                 ELSE [b \in Attempts |-> IF b \in Admitted THEN NewBox ELSE b1[b]]
      BY <1>2 DEF Boxes
    <3>. HIDE DEF b1, status
    <3>. QED  BY <3>1
  <2>5. \A b \in new : box[b].state = "none" /\ b \in Admitted /\ status # "running"
    BY <1>2 DEF Accepts
  <2>6. NewBox.state = "pending" /\ NewBox.failures = 0 /\ ~NewBox.dead
    BY NewBoxShape DEF NewBox, NoBox
  <2>7. \A b \in Attempts : box[b].dead => box[b].state = "pending"
    BY DEF Cause, Charged
  <2>8. /\ checkpoint'.status = status /\ checkpoint'.after = Admitted
        /\ checkpoint'.covers = covers
    BY <1>2
  <2>9. new # {} => /\ run.decision.status = status /\ Admitted \subseteq recorded[run.decision]
                    /\ status # "running"
    BY <1>2 DEF Accepts
  <2>10. new # {} => run.decision \in covers
    <3>. SUFFICES ASSUME new # {} PROVE run.decision \in covers
      OBVIOUS
    <3>1. run.decision \in Outcomes \cup {Going, Broken} /\ run.decision.status # "running"
      BY <2>9 DEF Inv, Shapes, RowsShaped, Decisions
    <3>2. run.decision \in Outcomes \cup {Broken}
      BY <3>1 DEF Going
    <3>3. DOMAIN recorded = Outcomes \cup {Broken}
      BY DEF Inv, Shapes, RowsShaped
    <3>. QED  BY <3>2, <3>3 DEF Cause, RunIsRecorded
  <2>. HIDE DEF b1, new, status, covers
  <2>11. \A b \in Attempts : box[b].state # "none" =>
            box'[b].state = box[b].state /\ (box'[b].state = "pending" => box'[b].disturbed)
    BY <2>3, <2>4, <2>5
  <2>12. ASSUME NEW b \in Attempts, box'[b].state = "pending", ~box'[b].disturbed
         PROVE  /\ box'[b].failures = 0 /\ ~box'[b].dead
                /\ EndedAfter(b)' /\ checkpoint'.status = run'.decision.status
                /\ run'.decision \in checkpoint'.covers
    <3>1. b \in new
      BY <2>3, <2>4, <2>12
    <3>2. box'[b].failures = 0 /\ ~box'[b].dead
      BY <2>4, <2>6, <3>1
    <3>. QED
      BY <2>1, <2>5, <2>8, <2>9, <2>10, <3>1, <3>2 DEF EndedAfter
  <2>13. \A b \in Attempts : box'[b].dead => box'[b].state = "pending"
    BY <2>3, <2>4, <2>6, <2>7
  <2>. QED  BY <1>2, <2>1, <2>2, <2>11, <2>12, <2>13, FactsKeepCause
<1>. QED  BY <1>1, <1>2 DEF SaveCheckpoint

(* The lease of the run changes hands. *)
LEMMA LeaseKeepsCause ==
    ASSUME Inv, Cause, ExpireLease \/ BeatStale \/ \E a \in Attempts : OpenLease(a) \/ Close(a) \/ KeepAlive(a)
    PROVE  Cause'
<1>. USE DEF rows
<1>1. lease \in [holder : Attempts \cup Reconcilers \cup {NoOne}, live : BOOLEAN]
  BY DEF Inv, Shapes, Authority
<1>2. CASE ExpireLease
  <2>1. lease.holder \notin Attempts => lease'.holder = lease.holder
    BY <1>1, <1>2 DEF ExpireLease
  <2>2. \A r \in Workers : r \notin Attempts
    BY ActorsAssumption DEF Reconcilers
  <2>. QED  BY <1>2, <2>1, <2>2, AuthorityKeepsCause DEF ExpireLease
<1>3. CASE BeatStale
  BY <1>3, AuthorityKeepsCause DEF BeatStale
<1>4. ASSUME NEW a \in Attempts, OpenLease(a) PROVE Cause'
  <2>1. CASE UNCHANGED <<lease, beat, box, rc>>
    BY <1>4, <2>1, ElsewhereKeepsCause DEF OpenLease
  <2>2. CASE rc' = OwnerBeats(rc) /\ box' = Disturbed(box)
    BY <1>4, <2>2, AuthorityKeepsCause DEF OpenLease
  <2>. QED  BY <1>4, <2>1, <2>2 DEF OpenLease
<1>5. ASSUME NEW a \in Attempts, Close(a) PROVE Cause'
  <2>1. \A r \in Workers : lease.holder = r => lease' = lease
    BY <1>5, ActorsAssumption, SMTT(30) DEF Close, HoldsLease, Reconcilers
  <2>. QED  BY <1>5, <2>1, AuthorityKeepsCause DEF Close
<1>6. ASSUME NEW a \in Attempts, KeepAlive(a) PROVE Cause'
  BY <1>6, AuthorityKeepsCause DEF KeepAlive
<1>. QED  BY <1>2, <1>3, <1>4, <1>5, <1>6

LEMMA ExecutorKeepsCause ==
    ASSUME Inv, Cause, NEW a \in Attempts,
           \/ Request(a) \/ Resume(a) \/ Loop(a) \/ Asked(a) \/ Admit(a)
           \/ Notice(a) \/ Cancel(a) \/ Crash(a) \/ GraceOver(a)
    PROVE  Cause'
  BY ElsewhereKeepsCause DEF Request, Resume, Loop, Asked, Decide, Admit, Notice, Cancel, Crash,
     GraceOver

(* A step of one pass, as far as the passes of the others go: they keep    *)
(* their lease, and their claims, where an outbox is not disturbed. *)
LEMMA OthersUntouched ==
    ASSUME Inv, NEW r \in Reconcilers,
           \A q \in Reconcilers : q # r =>
               /\ rc'[q].at = rc[q].at /\ rc'[q].target = rc[q].target
               /\ rc'[q].late = rc[q].late /\ rc'[q].class = rc[q].class
               /\ (\A a \in Attempts : ~Undisturbed(a)')
                     \/ (lease.holder = q => lease'.holder = q),
           \A a \in Attempts, q \in Reconcilers :
               /\ q # r /\ box'[a].state = "pending" /\ ~box'[a].disturbed
               /\ box'[a].dispatch = "claimed" /\ box'[a].by = q /\ box'[a].live
               => /\ box[a].state = "pending" /\ box[a].dispatch = "claimed"
                  /\ box[a].by = q /\ box[a].live /\ box'[a].failures = box[a].failures
    PROVE  \A q \in Workers : q # r => Untouched(q)
<1>. SUFFICES ASSUME NEW q \in Workers, q # r PROVE Untouched(q)
  OBVIOUS
<1>1. q \in Reconcilers /\ (rc[q].at # "idle" => rc[q].target \in Attempts)
  BY DEF Reconcilers, Inv, Shapes, Passes
<1>. DEFINE a == rc[q].target
<1>2. OwnsClaim(q)' <=> /\ box'[a].state = "pending" /\ box'[a].dispatch = "claimed"
                        /\ box'[a].by = q /\ box'[a].live
  BY <1>1 DEF OwnsClaim
<1>. QED  BY <1>1, <1>2 DEF Untouched, OwnsClaim, Undisturbed

(* So a step of a pass is fine if it leaves the rows alone, charges with   *)
(* cause, and leaves its own pass timely. *)
LEMMA PassKeepsCause ==
    ASSUME Inv, Cause, NEW r \in Reconcilers, UNCHANGED rows, Settles, Charged',
           faults' \in Nat, faults <= faults',
           \A q \in Workers : q # r => Untouched(q),
           r \in Workers => Timely(r)'
    PROVE  Cause'
  BY QuietKeepsCause

(* A pass that stays with its outbox and keeps its class. *)
LEMMA StaysTimely ==
    ASSUME Inv, Cause, NEW r \in Workers, Settles, UNCHANGED faults,
           rc[r].at # "idle", rc'[r].target = rc[r].target, rc'[r].late = rc[r].late,
           rc'[r].class = rc[r].class,
           rc'[r].at \in {"fence", "commit"} => lease'.holder = r,
           \A a \in Attempts : /\ box'[a].failures = box[a].failures
                               /\ box'[a].dispatch = box[a].dispatch
                               /\ box'[a].by = box[a].by /\ box'[a].live = box[a].live
    PROVE  Timely(r)'
<1>. PICK a \in Attempts : rc[r].target = a /\ rc'[r].target = a
  BY DEF Inv, Shapes, Passes, Reconcilers
<1>1. Timely(r)
  BY DEF Cause
<1>2. OwnsClaim(r)' /\ Undisturbed(a)' => OwnsClaim(r) /\ box'[a].failures = box[a].failures
  BY DEF OwnsClaim, Undisturbed, Settles
<1>. QED  BY <1>1, <1>2 DEF Timely, Settles, Undisturbed

(* A code a pass over an undisturbed outbox may end with: a wait, or a     *)
(* retryable failure that is counted.                                      *)
Excused(code) ==
    \/ code = "safe_wait"
    \/ /\ code \in {"authority_failed", "clock_regression"}
       /\ faults < faults' \/ MaxFailures <= faults'

(* A pass that ends with such a code stays timely. *)
LEMMA EndsTimely ==
    ASSUME Inv, Cause, NEW r \in Workers, Settles, UNCHANGED box, faults' \in Nat,
           rc[r].at # "idle", NEW place \in {"release", "finish"}, NEW code,
           rc' = EndsAt(r, place, code),
           Undisturbed(rc[r].target) => Excused(code)
    PROVE  Timely(r)'
<1>. PICK a \in Attempts : rc[r].target = a
  BY DEF Inv, Shapes, Passes, Reconcilers
<1>1. /\ rc'[r].target = a /\ rc'[r].late = FALSE /\ rc'[r].class = Class(code)
      /\ rc'[r].at = place
  BY DEF EndsAt, Idle, Inv, Shapes, Passes, Reconcilers
<1>2. /\ code = "safe_wait" => Class(code) = "safe_wait"
      /\ code \in {"authority_failed", "clock_regression"} => Class(code) = "retryable"
  BY DEF Class
<1>3. Undisturbed(a) => /\ box[a].failures <= faults /\ faults \in Nat
                        /\ box[a].failures \in Nat /\ box[a].failures < MaxFailures
                        /\ MaxFailures \in Nat
  BY BoundsAssumption DEF Cause, Charged, Inv, Shapes, Authority, Boxed, Box
<1>4. box[a].state # "none"
  BY DEF Cause, Timely
<1>5. Undisturbed(a)' => Undisturbed(a)
  BY DEF Undisturbed
<1>. HIDE DEF Undisturbed
<1>. QED  BY <1>1, <1>2, <1>3, <1>4, <1>5 DEF Timely, Excused

(* What EndsAt leaves of the others. *)
LEMMA EndsAtOthers ==
    ASSUME Inv, NEW r \in Reconcilers, NEW place, NEW code, rc' = EndsAt(r, place, code)
    PROVE  \A q \in Reconcilers : q # r => rc'[q] = rc[q]
  BY DEF EndsAt, Inv, Shapes, Passes

(* A failing call, or a code, ends a pass that leaves all else alone. *)
LEMMA EndKeepsCause ==
    ASSUME Inv, Cause, NEW r \in Reconcilers, UNCHANGED <<rows, box, lease>>,
           faults' \in Nat, faults <= faults', rc[r].at # "idle",
           NEW place \in {"release", "finish"}, NEW code, rc' = EndsAt(r, place, code),
           Undisturbed(rc[r].target) /\ r \in Workers => Excused(code)
    PROVE  Cause'
<1>1. Settles /\ Uncharged
  BY SameBoxes
<1>2. \A q \in Workers : q # r => Untouched(q)
  BY EndsAtOthers, OthersUntouched
<1>3. r \in Workers => Timely(r)'
  BY <1>1, EndsTimely
<1>. QED  BY <1>1, <1>2, <1>3, PassKeepsCause, UnchargedKeepsCharged

(* A failing call of the lease authority has a fault to itself. *)
LEMMA FailsKeepsCause ==
    ASSUME Inv, Cause, NEW r \in Reconcilers, rc[r].at # "idle", UNCHANGED <<rows, box>>,
           NEW place \in {"release", "finish"}, Fails(r, place)
    PROVE  Cause'
<1>1. faults \in Nat /\ faults' = faults + 1
  BY BoundsAssumption DEF Fails, Inv, Shapes, Authority
<1>. QED  BY <1>1, EndKeepsCause DEF Fails, Excused

(* A reading that a heartbeat has overtaken is counted, too. *)
LEMMA OvertakenKeepsCause ==
    ASSUME Inv, Cause, NEW r \in Reconcilers, rc[r].at # "idle", UNCHANGED <<rows, box>>,
           Overtaken(r)
    PROVE  Cause'
<1>1. /\ faults \in Nat /\ faults' \in Nat /\ faults <= faults'
      /\ r \in Workers => faults < faults' \/ MaxFailures <= faults'
  BY BoundsAssumption DEF Overtaken, Inv, Shapes, Authority
<1>. QED  BY <1>1, EndKeepsCause DEF Overtaken, Ends, Excused

(* Only an admitted attempt has a pending outbox. *)
LEMMA PendingIsAdmitted ==
    ASSUME Inv, NEW a \in Attempts, box[a].state = "pending"
    PROVE  attempt[a] = "admitted"
  BY DEF Inv, Stages, Ended, ClosedIffDelivered

(* A pass begins. *)
LEMMA BeginKeepsCause ==
    ASSUME Inv, Cause, NEW r \in Reconcilers, NEW a \in Attempts, Claim(r, a) \/ Ask(r, a)
    PROVE  Cause'
<1>. USE DEF rows
<1>1. /\ rc'[r].at = "assess" /\ rc'[r].target = a /\ rc'[r].late = FALSE
      /\ rc'[r].class = "none"
      /\ \A q \in Reconcilers : q # r => rc'[q] = rc[q]
  <2>. DEFINE g == a \in graced
              p == [Idle EXCEPT !.at = "assess", !.target = a, !.graced = g]
  <2>1. rc' = [rc EXCEPT ![r] = p] /\ rc \in [Reconcilers -> PassState]
    BY DEF Claim, Ask, Begins, Inv, Shapes, Passes
  <2>. HIDE DEF g
  <2>2. p.at = "assess" /\ p.target = a /\ p.late = FALSE /\ p.class = "none"
    BY DEF Idle
  <2>. HIDE DEF p, PassState
  <2>. QED  BY <2>1, <2>2
<1>2. UNCHANGED <<rows, lease, faults>> /\ faults \in Nat
  BY BoundsAssumption DEF Claim, Ask, Inv, Shapes, Authority
<1>3. CASE Claim(r, a)
  <2>. DEFINE b == [box[a] EXCEPT !.dispatch = "claimed", !.by = r, !.live = TRUE, !.due = FALSE]
  <2>1. box[a] \in Box /\ box[a].state = "pending" /\ box' = [box EXCEPT ![a] = b]
    BY <1>3 DEF Claim, Claimable, Inv, Shapes, Boxed
  <2>2. /\ b.state = "pending" /\ b.disturbed = box[a].disturbed /\ b.dead = box[a].dead
        /\ b.failures = box[a].failures /\ b.failures \in Nat /\ b.by = r
    BY <2>1, BoundsAssumption DEF Box
  <2>3. \A c \in Attempts : box'[c] = IF c = a THEN b ELSE box[c]
    BY <2>1 DEF Inv, Shapes, Boxed
  <2>4. \A c \in Attempts : box[c].failures \in Nat
    BY BoundsAssumption DEF Inv, Shapes, Boxed, Box
  <2>. HIDE DEF b, Box
  <2>5. Settles
    BY <2>1, <2>2, <2>3 DEF Settles, Undisturbed
  <2>6. Uncharged
    BY <1>2, <2>1, <2>2, <2>3, <2>4 DEF Uncharged, Cause, Charged
  <2>7. \A q \in Workers : q # r => Untouched(q)
    <3>1. \A c \in Attempts, q \in Reconcilers :
            q # r /\ box'[c].by = q => box'[c] = box[c]
      BY <2>2, <2>3
    <3>. QED  BY <1>1, <1>2, <3>1, OthersUntouched
  <2>8. Timely(r)'
    BY <1>1, <2>2, <2>3 DEF Timely
  <2>. QED  BY <1>2, <2>5, <2>6, <2>7, <2>8, PassKeepsCause, UnchargedKeepsCharged
<1>4. CASE Ask(r, a)
  <2>1. UNCHANGED box /\ r \notin Workers
    BY <1>4, ActorsAssumption DEF Ask
  <2>2. Settles /\ Uncharged
    BY <1>2, <2>1, SameBoxes
  <2>3. \A q \in Workers : q # r => Untouched(q)
    BY <1>1, <1>2, <2>1, OthersUntouched
  <2>. QED  BY <1>2, <2>1, <2>2, <2>3, PassKeepsCause, UnchargedKeepsCharged
<1>. QED  BY <1>3, <1>4

(* Assess: an undisturbed outbox has an admitted attempt. *)
LEMMA AssessKeepsCause == ASSUME Inv, Cause, NEW r \in Reconcilers, Assess(r) PROVE Cause'
<1>. DEFINE a == rc[r].target
<1>1. rc[r].at = "assess" /\ a \in Attempts /\ UNCHANGED <<rows, box>> /\ faults \in Nat
  BY BoundsAssumption DEF Assess, Inv, Shapes, Passes, Authority
<1>2. Undisturbed(a) => attempt[a] = "admitted"
  BY <1>1, PendingIsAdmitted DEF Undisturbed
<1>3. CASE attempt[a] \notin Open /\ rc' = Ends(r, "already_terminal") /\ UNCHANGED <<lease, faults>>
  BY <1>1, <1>2, <1>3, EndKeepsCause DEF Ends, Open, Excused
<1>4. CASE attempt[a] = "requested" /\ rc' = Ends(r, "request_not_admitted")
           /\ UNCHANGED <<lease, faults>>
  BY <1>1, <1>2, <1>4, EndKeepsCause DEF Ends, Excused
<1>5. CASE rc' = Ends(r, "safe_wait") /\ UNCHANGED <<lease, faults>>
  BY <1>1, <1>5, EndKeepsCause DEF Ends, Excused
<1>6. CASE Fails(r, "finish")
  BY <1>1, <1>6, FailsKeepsCause
<1>7. CASE rc' = [rc EXCEPT ![r].at = "acquire"] /\ UNCHANGED <<lease, faults>>
  <2>1. /\ rc'[r].at = "acquire" /\ rc'[r].target = rc[r].target
        /\ rc'[r].late = rc[r].late /\ rc'[r].class = rc[r].class
        /\ \A q \in Reconcilers : q # r => rc'[q] = rc[q]
    BY <1>7 DEF Inv, Shapes, Passes, PassState
  <2>2. Settles /\ Uncharged
    BY <1>1, <1>7, SameBoxes
  <2>3. \A q \in Workers : q # r => Untouched(q)
    BY <1>1, <1>7, <2>1, OthersUntouched
  <2>4. r \in Workers => Timely(r)'
    BY <1>1, <1>7, <2>1, <2>2, StaysTimely
  <2>. QED  BY <1>1, <1>7, <2>2, <2>3, <2>4, PassKeepsCause, UnchargedKeepsCharged
<1>8. CASE Overtaken(r)
  BY <1>1, <1>8, OvertakenKeepsCause
<1>. QED  BY <1>3, <1>4, <1>5, <1>6, <1>7, <1>8 DEF Assess

(* Acquire: taking the lease from somebody disturbs. *)
LEMMA AcquireKeepsCause == ASSUME Inv, Cause, NEW r \in Reconcilers, Acquire(r) PROVE Cause'
<1>1. rc[r].at = "acquire" /\ UNCHANGED rows /\ faults \in Nat
  BY BoundsAssumption DEF Acquire, Inv, Shapes, Authority, rows
<1>2. CASE rc' = Ends(r, "safe_wait") /\ UNCHANGED <<lease, box, faults>>
  BY <1>1, <1>2, EndKeepsCause DEF Ends, Excused
<1>3. CASE Fails(r, "finish") /\ UNCHANGED box
  BY <1>1, <1>3, FailsKeepsCause
<1>4. CASE /\ lease' = [holder |-> r, live |-> TRUE]
           /\ rc' = AuthorityMoves(Step(r, "fence"))
           /\ box' = IF lease.holder = NoOne THEN box ELSE Disturbed(box)
           /\ UNCHANGED faults
  <2>1. /\ rc'[r].target = rc[r].target /\ rc'[r].late = rc[r].late
        /\ rc'[r].class = rc[r].class
        /\ \A q \in Reconcilers : q # r =>
              /\ rc'[q].at = rc[q].at /\ rc'[q].target = rc[q].target
              /\ rc'[q].late = rc[q].late /\ rc'[q].class = rc[q].class
    BY <1>4 DEF AuthorityMoves, Step, Inv, Shapes, Passes, PassState
  <2>2. Settles /\ Uncharged
    BY <1>1, <1>4, SameBoxes, DisturbedBoxes
  <2>3. \A b \in Attempts : /\ box'[b].failures = box[b].failures
                            /\ box'[b].dispatch = box[b].dispatch
                            /\ box'[b].by = box[b].by /\ box'[b].live = box[b].live
                            /\ box'[b].state = box[b].state
    BY <1>4 DEF Disturbed, Inv, Shapes, Boxed, Box
  <2>4. \A q \in Workers : q # r => Untouched(q)
    <3>1. CASE lease.holder = NoOne
      <4>1. \A q \in Reconcilers : lease.holder # q
        BY <3>1, ActorsAssumption
      <4>. QED  BY <2>1, <2>3, <4>1, OthersUntouched
    <3>2. CASE box' = Disturbed(box)
      <4>1. \A b \in Attempts : ~Undisturbed(b)'
        BY <1>4, <3>2, DisturbedBoxes DEF Undisturbed
      <4>. QED  BY <2>1, <2>3, <4>1, OthersUntouched
    <3>. QED  BY <1>4, <3>1, <3>2
  <2>5. r \in Workers => Timely(r)'
    <3>1. lease'.holder = r
      BY <1>4
    <3>. QED  BY <1>1, <1>4, <2>1, <2>2, <2>3, <3>1, StaysTimely
  <2>. QED  BY <1>1, <1>4, <2>2, <2>4, <2>5, PassKeepsCause, UnchargedKeepsCharged
<1>. QED  BY <1>2, <1>3, <1>4 DEF Acquire

(* Fence: the lease is there, or the outbox is disturbed. *)
LEMMA FenceKeepsCause == ASSUME Inv, Cause, NEW r \in Reconcilers, Fence(r) PROVE Cause'
<1>1. rc[r].at = "fence" /\ UNCHANGED <<rows, box>> /\ faults \in Nat
  BY BoundsAssumption DEF Fence, Inv, Shapes, Authority
<1>2. CASE Fails(r, "release")
  BY <1>1, <1>2, FailsKeepsCause
<1>3. CASE lease.holder # r /\ rc' = EndsAt(r, "release", "fence_rejected")
           /\ UNCHANGED <<lease, faults>>
  <2>1. r \in Workers => ~Undisturbed(rc[r].target)
    BY <1>1, <1>3 DEF Cause, Timely
  <2>. QED  BY <1>1, <1>3, <2>1, EndKeepsCause
<1>4. CASE lease.holder = r /\ rc' = Step(r, "commit") /\ UNCHANGED <<lease, faults>>
  <2>1. /\ rc'[r].target = rc[r].target /\ rc'[r].late = rc[r].late
        /\ rc'[r].class = rc[r].class
        /\ \A q \in Reconcilers : q # r => rc'[q] = rc[q]
    BY <1>4 DEF Step, Inv, Shapes, Passes, PassState
  <2>2. Settles /\ Uncharged
    BY <1>1, <1>4, SameBoxes
  <2>3. \A q \in Workers : q # r => Untouched(q)
    BY <1>1, <1>4, <2>1, OthersUntouched
  <2>4. r \in Workers => Timely(r)'
    BY <1>1, <1>4, <2>1, <2>2, StaysTimely
  <2>. QED  BY <1>1, <1>4, <2>2, <2>3, <2>4, PassKeepsCause, UnchargedKeepsCharged
<1>. QED  BY <1>2, <1>3, <1>4 DEF Fence

(* Commit: a worker that comes to an undisturbed outbox reconciles it. *)
LEMMA CommitKeepsCause == ASSUME Inv, Cause, NEW r \in Reconcilers, Commit(r) PROVE Cause'
<1>1. /\ rc[r].at = "commit" /\ UNCHANGED <<rows, lease, faults>> /\ faults \in Nat
      /\ rc' = EndsAt(r, "release", Finding(r))
  BY BoundsAssumption DEF Commit, Inv, Shapes, Authority
<1>. PICK a \in Attempts : rc[r].target = a
  BY <1>1 DEF Inv, Shapes, Passes
<1>2. CASE Finding(r) # "reconciled"
  <2>1. ASSUME r \in Workers, Undisturbed(a) PROVE FALSE
    <3>1. attempt[a] \in Open
      BY <2>1, PendingIsAdmitted DEF Undisturbed, Open
    <3>2. EndedAfter(a) /\ checkpoint.status = run.decision.status
          /\ run.decision \in checkpoint.covers
      BY <2>1 DEF Cause, Covered
    <3>3. ~rc[r].late
      BY <1>1, <2>1 DEF Cause, Timely
    <3>. QED  BY <1>2, <3>1, <3>2, <3>3 DEF Finding
  <2>2. UNCHANGED box
    BY <1>2 DEF Commit
  <2>. DEFINE code == Finding(r)
  <2>. HIDE DEF code
  <2>3. rc' = EndsAt(r, "release", code)
    BY <1>1 DEF code
  <2>. QED  BY <1>1, <2>1, <2>2, <2>3, EndKeepsCause
<1>3. CASE Finding(r) = "reconciled"
  <2>1. box' = Delivered(a)
    BY <1>3 DEF Commit
  <2>. DEFINE given == box[a].abandoned
              b == [NoBox EXCEPT !.state = "delivered", !.dispatch = "delivered",
                                 !.abandoned = given]
  <2>2. b.state = "delivered" /\ ~b.dead
    BY DEF NoBox
  <2>3. /\ \A c \in Attempts : c # a => box'[c] = box[c]
        /\ box[a].state = "pending" => box'[a] = b
        /\ box[a].state # "pending" => box'[a] = box[a]
    BY <2>1 DEF Delivered, Inv, Shapes, Boxed
  <2>. HIDE DEF b
  <2>4. Settles
    BY <2>2, <2>3 DEF Settles, Undisturbed
  <2>5. \A c \in Attempts : box[c].failures \in Nat
    BY BoundsAssumption DEF Inv, Shapes, Boxed, Box
  <2>6. Uncharged
    BY <1>1, <2>2, <2>3, <2>5 DEF Uncharged, Cause, Charged
  <2>7. \A c \in Attempts : box'[c].state = "pending" => box'[c] = box[c]
    BY <2>2, <2>3
  <2>8. \A q \in Workers : q # r => Untouched(q)
    BY <1>1, <2>7, EndsAtOthers, OthersUntouched
  <2>9. r \in Workers => Timely(r)'
    <3>1. rc'[r].target = a
      BY <1>1 DEF EndsAt, Idle, Inv, Shapes, Passes
    <3>2. r \in Workers => box[a].state # "none"
      BY <1>1 DEF Cause, Timely
    <3>3. box'[a].state # "pending"
      BY <2>2, <2>3
    <3>4. r \in Workers => box'[a].state # "none"
      BY <2>2, <2>3, <3>2
    <3>. QED  BY <3>1, <3>3, <3>4 DEF Timely, Undisturbed
  <2>. QED  BY <1>1, <2>4, <2>6, <2>8, <2>9, PassKeepsCause, UnchargedKeepsCharged
<1>. QED  BY <1>2, <1>3

(* Release: the lease of a pass that is over. *)
LEMMA ReleaseKeepsCause == ASSUME Inv, Cause, NEW r \in Reconcilers, Release(r) PROVE Cause'
<1>1. rc[r].at = "release" /\ UNCHANGED <<rows, box, faults>> /\ faults \in Nat
  BY BoundsAssumption DEF Release, Inv, Shapes, Authority
<1>2. lease' = lease \/ lease.holder = r
  BY DEF Release
<1>3. /\ rc'[r].at = "finish" /\ rc'[r].target = rc[r].target
      /\ rc'[r].late = rc[r].late /\ rc'[r].class = rc[r].class
      /\ \A q \in Reconcilers : q # r =>
            /\ rc'[q].at = rc[q].at /\ rc'[q].target = rc[q].target
            /\ rc'[q].late = rc[q].late /\ rc'[q].class = rc[q].class
  <2>. DEFINE p == [rc EXCEPT ![r].at = "finish"]
  <2>1. /\ p \in [Reconcilers -> PassState]
        /\ p[r].at = "finish" /\ p[r].target = rc[r].target
        /\ p[r].late = rc[r].late /\ p[r].class = rc[r].class
        /\ \A q \in Reconcilers : q # r => p[q] = rc[q]
    BY DEF Inv, Shapes, Passes, PassState
  <2>2. rc' = p \/ rc' = AuthorityMoves(p)
    BY DEF Release
  <2>. HIDE DEF p
  <2>3. \A q \in Reconcilers : /\ rc'[q].at = p[q].at /\ rc'[q].target = p[q].target
                               /\ rc'[q].late = p[q].late /\ rc'[q].class = p[q].class
    BY <2>1, <2>2 DEF AuthorityMoves, PassState
  <2>. QED  BY <2>1, <2>3
<1>4. Settles /\ Uncharged
  BY <1>1, SameBoxes
<1>5. \A q \in Workers : q # r => Untouched(q)
  BY <1>1, <1>2, <1>3, OthersUntouched
<1>6. r \in Workers => Timely(r)'
  BY <1>1, <1>3, <1>4, StaysTimely
<1>. QED  BY <1>1, <1>4, <1>5, <1>6, PassKeepsCause, UnchargedKeepsCharged

(* Finish: what is charged has had its failing call. *)
LEMMA FinishKeepsCause == ASSUME Inv, Cause, NEW r \in Reconcilers, Finish(r) PROVE Cause'
<1>. DEFINE class == rc[r].class
<1>1. /\ rc[r].at = "finish" /\ rc' = [rc EXCEPT ![r] = Idle]
      /\ UNCHANGED <<rows, lease, faults>> /\ faults \in Nat
  BY BoundsAssumption DEF Finish, Inv, Shapes, Authority
<1>2. /\ rc'[r].at = "idle"
      /\ \A q \in Reconcilers : q # r => rc'[q] = rc[q]
  BY <1>1 DEF Idle, Inv, Shapes, Passes
<1>3. Timely(r)'
  BY <1>2 DEF Timely
<1>. PICK a \in Attempts : rc[r].target = a
  BY <1>1 DEF Inv, Shapes, Passes
<1>4. CASE UNCHANGED box
  <2>1. Settles /\ Uncharged
    BY <1>1, <1>4, SameBoxes
  <2>2. \A q \in Workers : q # r => Untouched(q)
    BY <1>1, <1>2, <1>4, OthersUntouched
  <2>. QED  BY <1>1, <1>3, <2>1, <2>2, PassKeepsCause, UnchargedKeepsCharged
<1>5. CASE r \in Workers /\ OwnsClaim(r) /\ box' = [box EXCEPT ![a] = Reported(box[a], class)]
  <2>. DEFINE failures == box[a].failures + (IF class = "safe_wait" THEN 0 ELSE 1)
              dead == class = "permanent" \/ (class = "retryable" /\ failures >= MaxFailures)
              left == IF dead THEN 0 ELSE failures
              b == [box[a] EXCEPT !.dispatch = "idle", !.by = NoOne, !.live = FALSE,
                                  !.dead = dead, !.failures = left]
  <2>1. box[a] \in Box /\ box[a].state = "pending" /\ box' = [box EXCEPT ![a] = b]
    BY <1>5 DEF OwnsClaim, Reported, Inv, Shapes, Boxed
  <2>2. box[a].failures \in Nat /\ class \in {"safe_wait", "retryable", "permanent"}
        /\ MaxFailures \in Nat
    BY <1>1, <2>1, BoundsAssumption DEF Box, Inv, Shapes, Passes, PassState
  <2>3. Undisturbed(a) => left <= faults /\ (dead => MaxFailures <= faults)
    <3>. SUFFICES ASSUME Undisturbed(a) PROVE left <= faults /\ (dead => MaxFailures <= faults)
      OBVIOUS
    <3>1. class # "permanent" /\ (class = "retryable" => box[a].failures < faults)
      BY <1>1, <1>5 DEF Cause, Timely
    <3>2. box[a].failures <= faults
      BY DEF Cause, Charged
    <3>. HIDE DEF class
    <3>. QED  BY <1>1, <2>2, <3>1, <3>2
  <2>. HIDE DEF dead, left
  <2>4. /\ b.state = "pending" /\ b.disturbed = box[a].disturbed /\ b.dead = dead
        /\ b.failures = left /\ b.dispatch = "idle"
    BY <2>1 DEF Box
  <2>5. \A c \in Attempts : box'[c] = IF c = a THEN b ELSE box[c]
    BY <2>1 DEF Inv, Shapes, Boxed
  <2>. HIDE DEF b, Box
  <2>6. Settles
    BY <2>1, <2>4, <2>5 DEF Settles, Undisturbed
  <2>7. Charged'
    <3>. SUFFICES ASSUME NEW c \in Attempts
                  PROVE  /\ Undisturbed(c)' => /\ box'[c].failures <= faults'
                                               /\ box'[c].dead => MaxFailures <= faults'
                         /\ box'[c].dead => box'[c].state = "pending"
      BY DEF Charged
    <3>1. CASE c = a
      BY <1>1, <2>1, <2>3, <2>4, <2>5, <3>1 DEF Undisturbed
    <3>2. CASE c # a
      <4>1. box'[c] = box[c] /\ faults' = faults
        BY <1>1, <2>5, <3>2
      <4>. QED  BY <4>1 DEF Cause, Charged, Undisturbed
    <3>. QED  BY <3>1, <3>2
  <2>8. \A q \in Workers : q # r => Untouched(q)
    <3>1. \A c \in Attempts : box'[c].dispatch = "claimed" => box'[c] = box[c]
      BY <2>4, <2>5
    <3>. QED  BY <1>1, <1>2, <3>1, OthersUntouched
  <2>. QED  BY <1>1, <1>3, <2>6, <2>7, <2>8, PassKeepsCause
<1>. QED  BY <1>4, <1>5 DEF Finish

(* A pass that dies leaves a claim nobody owns. *)
LEMMA PassDiesKeepsCause == ASSUME Inv, Cause, NEW r \in Reconcilers, PassDies(r) PROVE Cause'
<1>1. /\ UNCHANGED rows /\ faults \in Nat /\ faults' = faults + 1
      /\ rc'[r].at = "idle"
      /\ \A q \in Reconcilers : q # r => rc'[q] = rc[q]
  BY BoundsAssumption DEF PassDies, Idle, Inv, Shapes, Authority, Passes
<1>2. \A c \in Attempts :
         /\ box'[c].state = box[c].state /\ box'[c].disturbed = box[c].disturbed
         /\ box'[c].failures = box[c].failures /\ box'[c].dead = box[c].dead
         /\ box[c].failures \in Nat
         /\ box'[c] = box[c] \/ box'[c].by = NoOne
  <2>1. \A c \in Attempts : box[c] \in Box
    BY DEF Inv, Shapes, Boxed
  <2>2. \A c \in Attempts :
          box'[c] = IF box[c].by = r THEN [box[c] EXCEPT !.by = NoOne] ELSE box[c]
    BY DEF PassDies
  <2>3. \A b \in Box : LET c == [b EXCEPT !.by = NoOne] IN
          /\ c.state = b.state /\ c.disturbed = b.disturbed /\ c.failures = b.failures
          /\ c.dead = b.dead /\ c.by = NoOne
    BY DEF Box
  <2>4. \A b \in Box : b.failures \in Nat
    BY BoundsAssumption DEF Box
  <2>. HIDE DEF Box
  <2>. TAKE c \in Attempts
  <2>5. PICK b \in Box : b = box[c]
    BY <2>1
  <2>6. PICK d : d = [b EXCEPT !.by = NoOne]
    OBVIOUS
  <2>7. /\ d.state = b.state /\ d.disturbed = b.disturbed /\ d.failures = b.failures
        /\ d.dead = b.dead /\ d.by = NoOne /\ b.failures \in Nat
    BY <2>3, <2>4, <2>6
  <2>8. box'[c] = b \/ box'[c] = d
    BY <2>2, <2>5, <2>6
  <2>. QED  BY <2>5, <2>7, <2>8
<1>3. \A q \in Reconcilers : q # r /\ lease.holder = q => lease'.holder = q
  BY DEF PassDies
<1>4. Settles
  BY <1>2 DEF Settles, Undisturbed
<1>5. Uncharged
  <2>1. \A c \in Attempts : box[c].dead => box[c].state = "pending"
    BY DEF Cause, Charged
  <2>. QED  BY <1>1, <1>2, <2>1 DEF Uncharged
<1>6. \A q \in Workers : q # r => Untouched(q)
  <2>1. \A q \in Reconcilers : q # NoOne
    BY ActorsAssumption
  <2>. QED  BY <1>1, <1>2, <1>3, <2>1, OthersUntouched
<1>7. Timely(r)'
  BY <1>1 DEF Timely
<1>. QED  BY <1>1, <1>4, <1>5, <1>6, <1>7, PassKeepsCause, UnchargedKeepsCharged

LEMMA CauseInit == Init => Cause
<1>. SUFFICES ASSUME Init PROVE Cause
  OBVIOUS
<1>. PICK d \in Outcomes \cup {Going} :
        /\ run = [decision |-> d, error |-> FALSE]
        /\ recorded = [c \in Outcomes \cup {Broken} |-> IF c = d THEN {} ELSE Never]
  BY DEF Init
<1>1. RunIsRecorded
  <2>1. Never # {}
    BY DEF Never
  <2>. HIDE DEF Never, Broken
  <2>. QED  BY <2>1 DEF RunIsRecorded
<1>2. \A a \in Attempts : box[a].state = "none" /\ ~box[a].dead
  BY DEF Init, NoBox
<1>3. \A r \in Workers : rc[r].at = "idle"
  BY DEF Init, Idle, Reconcilers
<1>. QED  BY <1>1, <1>2, <1>3 DEF Cause, Covered, Charged, Timely, Undisturbed

(* Every step keeps the cause. *)
LEMMA StepKeepsCause == Inv /\ Cause /\ [Next]_vars => Cause'
<1>. SUFFICES ASSUME Inv, Cause, [Next]_vars PROVE Cause'
  OBVIOUS
<1>1. CASE UNCHANGED vars
  BY <1>1, ElsewhereKeepsCause DEF vars
<1>2. ASSUME NEW a \in Attempts, Work(a) PROVE Cause'
  BY <1>2, ExecutorKeepsCause, LeaseKeepsCause, SaveRunKeepsCause, SaveCheckpointKeepsCause,
     BoxesKeepCause DEF Work
<1>3. ASSUME NEW a \in Attempts,
             \/ KeepAlive(a) \/ Notice(a) \/ Cancel(a) \/ Crash(a) \/ GraceOver(a)
             \/ BoxDue(a) \/ ClaimExpires(a) \/ Requeue(a) \/ Abandon(a)
      PROVE  Cause'
  BY <1>3, ExecutorKeepsCause, LeaseKeepsCause, BoxesKeepCause
<1>4. ASSUME NEW r \in Reconcilers,
             (\E a \in Attempts : Ask(r, a)) \/ Pass(r) \/ PassDies(r)
      PROVE  Cause'
  BY <1>4, BeginKeepsCause, AssessKeepsCause, AcquireKeepsCause, FenceKeepsCause,
     CommitKeepsCause, ReleaseKeepsCause, FinishKeepsCause, PassDiesKeepsCause DEF Pass
<1>5. CASE ExpireLease \/ BeatStale
  BY <1>5, LeaseKeepsCause
<1>. QED  BY <1>1, <1>2, <1>3, <1>4, <1>5 DEF Next

(* No attempt is charged for a live owner or a grace period as such: an     *)
(* outbox is dead because the run moved on, or behind MaxFailures failing   *)
(* calls and heartbeats that overtook a reading, however the passes of the  *)
(* workers and users, the clock and the executors interleave                *)
(* (record_terminal_outbox_failure, classify_terminal_outbox_failure).      *)
THEOREM DeadLettersHaveACause == Spec => []DeadLetterHasCause
<1>1. Inv /\ Cause => DeadLetterHasCause
  <2>. SUFFICES ASSUME Inv, Cause, NEW a \in Attempts, box[a].dead, faults < MaxFailures
                PROVE  box[a].disturbed
    BY DEF DeadLetterHasCause
  <2>1. ~Undisturbed(a)
    BY BoundsAssumption DEF Cause, Charged, Inv, Shapes, Authority
  <2>. QED  BY <2>1 DEF Undisturbed, Cause, Charged
<1>2. Spec => []Cause
  BY CauseInit, StepKeepsCause, InvHolds, PTL DEF Spec
<1>. QED  BY <1>1, <1>2, InvHolds, PTL

=============================================================================
