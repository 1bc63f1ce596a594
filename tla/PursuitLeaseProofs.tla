------------------------- MODULE PursuitLeaseProofs -------------------------
(***************************************************************************)
(* The lease sessions of a run, for any number of sessions, any interval,  *)
(* and any number of fences and store failures.                            *)
(*                                                                         *)
(* The argument: the write lock serves a session's two tasks in the order  *)
(* of their clock readings (Stamps), so a live owner's reading is never    *)
(* refused as old; an acquisition always starts a new epoch (Tokens), so   *)
(* the row of a session is changed by that session only (Others).          *)
(***************************************************************************)
EXTENDS PursuitLease, SequenceTheorems, TLAPS

(* The lease row is that of the session. *)
Current(s) == held[s] > 0 /\ held[s] = lease.epoch

Faulted(s) == \E i \in DOMAIN faults : faults[i] = s

-----------------------------------------------------------------------------
(* The inductive invariant.                                                *)

(* The queue of a write lock holds the tasks that wait for it.             *)
MainWaits(s) ==
    main[s] \in {"acquire", "first_beat", "undo", "fence", "release", "last_beat"}
LoopWaits(s) == loop[s] \in {"renew", "beat"}

Tasking(s) ==
    /\ MainWaits(s) /\ LoopWaits(s)
          => queue[s] = <<"main", "loop">> \/ queue[s] = <<"loop", "main">>
    /\ MainWaits(s) /\ ~LoopWaits(s) => queue[s] = <<"main">>
    /\ ~MainWaits(s) /\ LoopWaits(s) => queue[s] = <<"loop">>
    /\ ~MainWaits(s) /\ ~LoopWaits(s) => queue[s] = <<>>
    /\ loop[s] # "off" => main[s] \in {"running", "fence", "closing"}
    /\ main[s] = "fence" => fences[s] > 0

Row ==
    /\ lease.state = "missing" => lease = RL!MissingLease
    /\ lease.state # "missing" => lease.epoch > 0 /\ lease.owner \in Sessions
    /\ lease.acquired_at <= lease.updated_at /\ lease.updated_at <= lease.expires_at
    /\ lease.updated_at <= now
    /\ lease.state = "released" => lease.expires_at = lease.updated_at

(* The epochs the sessions hold.                                           *)
Distinct == \A s, t \in Sessions : held[s] > 0 /\ held[t] = held[s] => t = s

Token(s) ==
    /\ held[s] <= lease.epoch
    /\ Current(s) => lease.owner = s
    /\ main[s] \in {"new", "acquire"} => held[s] = 0 /\ lease.owner # s /\ ~lost[s]
    /\ main[s] \in {"read_beat", "first_beat"} => ~lost[s]
    /\ main[s] \notin {"new", "acquire", "done", "gone"} => held[s] > 0
    /\ main[s] = "last_beat" /\ Current(s) => lease.state = "released"

(* The clock readings that are on their way to the store.                  *)
Stamps(s) ==
    /\ main[s] \in {"read_beat", "first_beat", "last_beat"}
          => stamp[s]["main"] <= lease.updated_at
    /\ loop[s] = "beat" => stamp[s]["loop"] <= lease.updated_at
    /\ Current(s) /\ main[s] \in {"read_beat", "first_beat", "fence", "release"}
          => lease.updated_at <= stamp[s]["main"]
    /\ Current(s) /\ loop[s] \in {"renew", "beat"}
          => lease.updated_at <= stamp[s]["loop"]
    /\ loop[s] = "renew" /\ queue[s] = <<"loop", "main">>
          => stamp[s]["loop"] <= stamp[s]["main"]
    /\ loop[s] = "renew" /\ queue[s] = <<"main", "loop">>
          => stamp[s]["main"] <= stamp[s]["loop"]

(* The heartbeat row and the sequence numbers.                             *)
BeatRow ==
    /\ heartbeat.epoch = 0 => heartbeat.phase = "none"
    /\ heartbeat.observed_at <= lease.updated_at

Beats(s) ==
    held[s] > 0 /\ heartbeat.epoch = held[s] =>
        /\ heartbeat.instance = s
        /\ heartbeat.sequence <= beats[s]
        /\ main[s] \in {"first_beat", "last_beat"} \/ loop[s] = "beat"
              => heartbeat.sequence < beats[s]
        /\ heartbeat.phase = "stopped" => main[s] \in {"done", "gone"}

(* A session that is lost for cause does not renew the lease after all.    *)
Losses(s) ==
    ~Faulted(s) =>
        /\ lost[s] \/ main[s] = "undo" => ~(RL!LiveFor(s, now) /\ lease.epoch = held[s])
        /\ lost[s] /\ loop[s] = "renew" => ~RL!Holds(s, held[s], stamp[s]["loop"])

(* Accepted checks lie behind the row and behind their session.            *)
Checks ==
    \A p \in Fences : RL!Accepted(p) =>
        /\ receipts[p].checked_at <= stamp[receipts[p].owner]["main"]
        /\ receipts[p].epoch = lease.epoch => receipts[p].checked_at <= lease.expires_at
        /\ receipts[p].epoch < lease.epoch => receipts[p].checked_at <= lease.acquired_at

Private(s) == Tasking(s) /\ Token(s) /\ Stamps(s) /\ Beats(s) /\ Losses(s)

Rows == Row /\ Distinct /\ BeatRow /\ HeartbeatMatchesLease

Ledger == Checks /\ ChecksFollowEpochs

Inv == TypeOK /\ Rows /\ (\A s \in Sessions : Private(s)) /\ Ledger

-----------------------------------------------------------------------------
(* The queues of the write locks. *)

LEMMA QueueFacts ==
    /\ <<"main">> # <<>> /\ <<"loop">> # <<>>
    /\ <<"main", "loop">> # <<>> /\ <<"loop", "main">> # <<>>
    /\ <<"main">> # <<"loop">> /\ <<"main", "loop">> # <<"loop", "main">>
    /\ <<"main">> # <<"main", "loop">> /\ <<"main">> # <<"loop", "main">>
    /\ <<"loop">> # <<"main", "loop">> /\ <<"loop">> # <<"loop", "main">>
    /\ Head(<<"main">>) = "main" /\ Head(<<"loop">>) = "loop"
    /\ Head(<<"main", "loop">>) = "main" /\ Head(<<"loop", "main">>) = "loop"
    /\ Tail(<<"main">>) = <<>> /\ Tail(<<"loop">>) = <<>>
    /\ Tail(<<"main", "loop">>) = <<"loop">> /\ Tail(<<"loop", "main">>) = <<"main">>
    /\ Append(<<>>, "main") = <<"main">> /\ Append(<<>>, "loop") = <<"loop">>
    /\ Append(<<"main">>, "loop") = <<"main", "loop">>
    /\ Append(<<"loop">>, "main") = <<"loop", "main">>
<1>1. <<"main">> # <<>> /\ <<"loop">> # <<>>
  OBVIOUS
<1>2. <<"main", "loop">> # <<>> /\ <<"loop", "main">> # <<>>
  OBVIOUS
<1>3. <<"main">> # <<"loop">> /\ <<"main", "loop">> # <<"loop", "main">>
  OBVIOUS
<1>4. <<"main">> # <<"main", "loop">> /\ <<"main">> # <<"loop", "main">>
  OBVIOUS
<1>5. <<"loop">> # <<"main", "loop">> /\ <<"loop">> # <<"loop", "main">>
  OBVIOUS
<1>6. Head(<<"main">>) = "main" /\ Head(<<"loop">>) = "loop"
  OBVIOUS
<1>7. Head(<<"main", "loop">>) = "main" /\ Head(<<"loop", "main">>) = "loop"
  OBVIOUS
<1>8. Tail(<<"main">>) = <<>> /\ Tail(<<"loop">>) = <<>>
  OBVIOUS
<1>9. Tail(<<"main", "loop">>) = <<"loop">> /\ Tail(<<"loop", "main">>) = <<"main">>
  OBVIOUS
<1>10. Append(<<>>, "main") = <<"main">> /\ Append(<<>>, "loop") = <<"loop">>
  OBVIOUS
<1>11. Append(<<"main">>, "loop") = <<"main", "loop">>
  <2>1. /\ <<"main">> \in Seq(Tasks) /\ <<"main", "loop">> \in Seq(Tasks) /\ "loop" \in Tasks
        /\ Len(<<"main">>) = 1 /\ Len(<<"main", "loop">>) = 2
        /\ <<"main">>[1] = "main" /\ <<"main", "loop">>[1] = "main" /\ <<"main", "loop">>[2] = "loop"
    BY DEF Tasks
  <2>2. /\ Append(<<"main">>, "loop") \in Seq(Tasks) /\ Len(Append(<<"main">>, "loop")) = 2
        /\ Append(<<"main">>, "loop")[1] = "main" /\ Append(<<"main">>, "loop")[2] = "loop"
    BY <2>1
  <2>3. \A i \in 1..2 : Append(<<"main">>, "loop")[i] = <<"main", "loop">>[i]
    <3>. TAKE i \in 1..2
    <3>. i = 1 \/ i = 2
      OBVIOUS
    <3>. QED  BY <2>1, <2>2
  <2>. QED  BY <2>1, <2>2, <2>3, SeqEqual
<1>12. Append(<<"loop">>, "main") = <<"loop", "main">>
  <2>1. /\ <<"loop">> \in Seq(Tasks) /\ <<"loop", "main">> \in Seq(Tasks) /\ "main" \in Tasks
        /\ Len(<<"loop">>) = 1 /\ Len(<<"loop", "main">>) = 2
        /\ <<"loop">>[1] = "loop" /\ <<"loop", "main">>[1] = "loop" /\ <<"loop", "main">>[2] = "main"
    BY DEF Tasks
  <2>2. /\ Append(<<"loop">>, "main") \in Seq(Tasks) /\ Len(Append(<<"loop">>, "main")) = 2
        /\ Append(<<"loop">>, "main")[1] = "loop" /\ Append(<<"loop">>, "main")[2] = "main"
    BY <2>1
  <2>3. \A i \in 1..2 : Append(<<"loop">>, "main")[i] = <<"loop", "main">>[i]
    <3>. TAKE i \in 1..2
    <3>. i = 1 \/ i = 2
      OBVIOUS
    <3>. QED  BY <2>1, <2>2
  <2>. QED  BY <2>1, <2>2, <2>3, SeqEqual
<1>. QED
  BY <1>1, <1>2, <1>3, <1>4, <1>5, <1>6, <1>7, <1>8, <1>9, <1>10, <1>11, <1>12

(* A failure that is recorded concerns one session. *)
LEMMA FaultRecorded ==
    ASSUME faults \in Seq(Sessions), NEW s \in Sessions, faults' = Append(faults, s)
    PROVE  /\ faults' \in Seq(Sessions) /\ Len(faults') = Len(faults) + 1
           /\ Faulted(s)'
           /\ \A t \in Sessions : t # s => (Faulted(t)' <=> Faulted(t))
<1>1. /\ Len(faults) \in Nat /\ faults' \in Seq(Sessions) /\ Len(faults') = Len(faults) + 1
      /\ DOMAIN faults = 1..Len(faults) /\ DOMAIN faults' = 1..(Len(faults) + 1)
      /\ faults'[Len(faults) + 1] = s
  OBVIOUS
<1>2. \A i \in 1..Len(faults) : faults'[i] = faults[i]
  OBVIOUS
<1>. QED  BY <1>1, <1>2 DEF Faulted

-----------------------------------------------------------------------------
(* What a step of session a may do to the rows.                            *)

Took(a, t) ==
    /\ lease.updated_at <= t /\ lease.expires_at <= t /\ lease.owner # a
    /\ lease' = [owner |-> a, epoch |-> lease.epoch + 1, state |-> "active",
                 acquired_at |-> t, expires_at |-> t + LeaseSeconds, updated_at |-> t]

Extended(a, t) ==
    /\ RL!Holds(a, held[a], t)
    /\ lease' = RL!UpdatedLease("active", RL!Later(lease.expires_at, t + LeaseSeconds), t)

Ended(a, t) ==
    /\ RL!Holds(a, held[a], t) /\ t = stamp[a]["main"]
    /\ lease' = RL!UpdatedLease("released", t, t)

RowMoves(a) ==
    \/ lease' = lease
    \/ \E t \in 0..now : Took(a, t) \/ Extended(a, t) \/ Ended(a, t)

HeldMoves(a) ==
    held'[a] \in {held[a], 0} \/ (lease'.epoch > lease.epoch /\ held'[a] = lease'.epoch)

BeatMoves(a) ==
    \/ heartbeat' = heartbeat
    \/ /\ lease' = lease /\ held[a] > 0 /\ main[a] \notin {"done", "gone"}
       /\ \E phase \in {"running", "stopped"}, t \in 0..now :
             /\ heartbeat' = Beat(a, phase, t) /\ Advances(Beat(a, phase, t))
             /\ t <= lease.updated_at
             /\ phase = "stopped" /\ Current(a) => lease.state = "released"

Framed(a) ==
    \A s \in Sessions \ {a} :
        /\ main'[s] = main[s] /\ loop'[s] = loop[s] /\ stamp'[s] = stamp[s]
        /\ queue'[s] = queue[s] /\ held'[s] = held[s] /\ lost'[s] = lost[s]
        /\ fences'[s] = fences[s] /\ beats'[s] = beats[s]
        /\ Faulted(s)' <=> Faulted(s)

Step(a) == RowMoves(a) /\ HeldMoves(a) /\ BeatMoves(a) /\ Framed(a) /\ now' = now

MovesOn ==
    /\ heartbeat'.epoch >= heartbeat.epoch
    /\ heartbeat.phase = "stopped" => heartbeat'.epoch > heartbeat.epoch
    /\ heartbeat'.observed_at >= heartbeat.observed_at

BeatTyped ==
    heartbeat \in [instance : Sessions \cup {NoSession}, epoch : Nat, sequence : Nat,
                   phase : {"none", "running", "stopped"}, observed_at : Nat]

(* The columns of the row are numbers and states. *)
LEMMA Columns ==
    ASSUME lease \in RL!Lease
    PROVE  /\ lease.epoch \in Nat /\ lease.updated_at \in Nat /\ lease.expires_at \in Nat
           /\ lease.acquired_at \in Nat /\ lease.owner \in Sessions \cup {NoSession}
           /\ lease.state \in {"missing", "active", "released"}
  BY DEF RL!Lease

LEMMA Clocks ==
    ASSUME TypeOK
    PROVE  /\ now \in Nat /\ now <= MaxTime /\ LeaseSeconds \in Nat /\ LeaseSeconds > 0
           /\ RenewSeconds \in Nat
           /\ \A s \in Sessions, task \in Tasks :
                 stamp[s][task] \in Nat /\ stamp[s][task] <= now
           /\ \A s \in Sessions : held[s] \in Nat /\ beats[s] \in Nat
  BY IntervalAssumption, BoundsAssumption DEF TypeOK

(* A row that moves stays well formed, and moves forward. *)
LEMMA RowForward ==
    ASSUME lease \in RL!Lease, now \in Nat, Row, NEW a \in Sessions, RowMoves(a), now' = now
    PROVE  /\ lease' \in RL!Lease /\ Row'
           /\ lease'.epoch >= lease.epoch /\ lease'.updated_at >= lease.updated_at
           /\ lease' # lease => lease'.owner = a
           /\ lease'.epoch = lease.epoch => lease'.owner = lease.owner
           /\ lease.state = "released" /\ lease'.epoch = lease.epoch => lease'.state = "released"
<1>1. CASE lease' = lease
  BY <1>1, Columns DEF Row
<1>2. ASSUME NEW t \in 0..now, Took(a, t)
      PROVE  /\ lease' \in RL!Lease /\ Row' /\ lease'.epoch > lease.epoch
             /\ lease'.updated_at >= lease.updated_at /\ lease'.owner = a
  <2>1. lease' = [owner |-> a, epoch |-> lease.epoch + 1, state |-> "active",
                  acquired_at |-> t, expires_at |-> t + LeaseSeconds, updated_at |-> t]
        /\ lease.updated_at <= t
    BY <1>2 DEF Took
  <2>2. t \in Nat /\ t + LeaseSeconds \in Nat /\ t <= now /\ t <= t + LeaseSeconds
    BY IntervalAssumption
  <2>3. lease' \in RL!Lease
    BY <2>1, <2>2, Columns DEF RL!Lease
  <2>4. Row'
    BY <2>1, <2>2, Columns DEF Row
  <2>. QED  BY <2>1, <2>2, <2>3, <2>4, Columns
<1>3. ASSUME NEW t \in 0..now, Extended(a, t)
      PROVE  /\ lease' \in RL!Lease /\ Row' /\ lease'.epoch = lease.epoch
             /\ lease'.updated_at >= lease.updated_at /\ lease'.owner = a
             /\ lease.owner = a /\ lease.state = "active"
  <2>. DEFINE x == RL!Later(lease.expires_at, t + LeaseSeconds)
  <2>1. /\ lease' = RL!UpdatedLease("active", x, t)
        /\ lease.state = "active" /\ lease.owner = a /\ lease.updated_at <= t
    BY <1>3 DEF Extended, RL!Holds, RL!LiveFor
  <2>2. t \in Nat /\ x \in Nat /\ t <= now /\ t <= x
    BY IntervalAssumption, Columns DEF RL!Later
  <2>. HIDE DEF x
  <2>3. lease' \in RL!Lease
    BY <2>1, <2>2, Columns DEF RL!Lease, RL!UpdatedLease
  <2>4. Row'
    BY <2>1, <2>2, Columns DEF Row, RL!UpdatedLease
  <2>. QED  BY <2>1, <2>2, <2>3, <2>4, Columns DEF RL!UpdatedLease
<1>4. ASSUME NEW t \in 0..now, Ended(a, t)
      PROVE  /\ lease' \in RL!Lease /\ Row' /\ lease'.epoch = lease.epoch
             /\ lease'.updated_at >= lease.updated_at /\ lease'.owner = a
             /\ lease.owner = a /\ lease.state = "active"
  <2>1. /\ lease' = RL!UpdatedLease("released", t, t)
        /\ lease.state = "active" /\ lease.owner = a /\ lease.updated_at <= t
    BY <1>4 DEF Ended, RL!Holds, RL!LiveFor
  <2>2. t \in Nat /\ t <= now
    OBVIOUS
  <2>3. lease' \in RL!Lease
    BY <2>1, <2>2, Columns DEF RL!Lease, RL!UpdatedLease
  <2>4. Row'
    BY <2>1, <2>2, Columns DEF Row, RL!UpdatedLease
  <2>. QED  BY <2>1, <2>2, <2>3, <2>4, Columns DEF RL!UpdatedLease
<1>5. lease.epoch \in Nat
  BY Columns
<1>6. ASSUME NEW t \in 0..now, Took(a, t)
      PROVE  lease'.epoch # lease.epoch /\ lease'.epoch >= lease.epoch
  BY <1>2, <1>5, <1>6, Columns DEF Took
<1>. QED  BY <1>1, <1>2, <1>3, <1>4, <1>5, <1>6 DEF RowMoves

(* The heartbeat row stays behind the lease row, and moves on. *)
LEMMA BeatForward ==
    ASSUME TypeOK, Rows, NEW a \in Sessions, Beats(a), Token(a),
           RowMoves(a), BeatMoves(a), now' = now
    PROVE  /\ BeatTyped' /\ BeatRow' /\ HeartbeatMatchesLease'
           /\ MovesOn \/ UNCHANGED heartbeat
<1>1. /\ lease'.epoch \in Nat /\ lease.epoch \in Nat
      /\ lease'.updated_at \in Nat /\ lease.updated_at \in Nat
      /\ lease'.epoch >= lease.epoch /\ lease'.updated_at >= lease.updated_at
      /\ lease'.epoch = lease.epoch => lease'.owner = lease.owner
      /\ lease.state = "released" /\ lease'.epoch = lease.epoch => lease'.state = "released"
  <2>1. lease \in RL!Lease /\ now \in Nat
    BY BoundsAssumption DEF TypeOK
  <2>2. lease' \in RL!Lease
    BY <2>1, RowForward DEF Rows
  <2>. QED  BY <2>1, <2>2, RowForward DEF Rows, RL!Lease
<1>2. /\ heartbeat.epoch \in Nat /\ heartbeat.observed_at \in Nat /\ BeatTyped
  BY DEF TypeOK, BeatTyped
<1>3. CASE heartbeat' = heartbeat
  <2>1. BeatTyped'
    BY <1>2, <1>3 DEF BeatTyped
  <2>2. BeatRow'
    BY <1>1, <1>2, <1>3 DEF BeatRow, Rows
  <2>3. HeartbeatMatchesLease'
    BY <1>1, <1>2, <1>3 DEF HeartbeatMatchesLease, Rows
  <2>. QED  BY <1>3, <2>1, <2>2, <2>3
<1>4. ASSUME NEW phase \in {"running", "stopped"}, NEW t \in 0..now,
             heartbeat' = Beat(a, phase, t), Advances(Beat(a, phase, t)),
             t <= lease.updated_at, lease' = lease, held[a] > 0,
             main[a] \notin {"done", "gone"},
             phase = "stopped" /\ Current(a) => lease.state = "released"
      PROVE  BeatTyped' /\ BeatRow' /\ HeartbeatMatchesLease' /\ MovesOn
  <2>1. /\ heartbeat'.instance = a /\ heartbeat'.epoch = held[a]
        /\ heartbeat'.sequence = beats[a] /\ heartbeat'.phase = phase
        /\ heartbeat'.observed_at = t
    BY <1>4 DEF Beat
  <2>2. /\ held[a] >= heartbeat.epoch /\ t >= heartbeat.observed_at
        /\ held[a] = heartbeat.epoch => beats[a] > heartbeat.sequence
    BY <1>4 DEF Advances, Beat
  <2>3. t \in Nat /\ held[a] \in Nat /\ beats[a] \in Nat
    BY BoundsAssumption DEF TypeOK
  <2>4. BeatTyped'
    BY <1>4, <2>3 DEF Beat, BeatTyped
  <2>5. BeatRow'
    BY <1>1, <1>4, <2>1, <2>3 DEF BeatRow
  <2>6. held[a] <= lease.epoch /\ (held[a] = lease.epoch => lease.owner = a)
    BY <1>4 DEF Token, Current
  <2>7. HeartbeatMatchesLease'
    BY <1>4, <2>1, <2>6 DEF HeartbeatMatchesLease, Current
  <2>8. heartbeat.phase = "stopped" => held[a] # heartbeat.epoch
    BY <1>4 DEF Beats
  <2>9. MovesOn
    BY <2>1, <2>2, <2>3, <2>8, <1>2 DEF MovesOn
  <2>. QED  BY <2>4, <2>5, <2>7, <2>9
<1>. QED  BY <1>3, <1>4 DEF BeatMoves

(* No two sessions hold one epoch. *)
LEMMA DistinctKept ==
    ASSUME TypeOK, Rows, \A s \in Sessions : Token(s), NEW a \in Sessions,
           HeldMoves(a), Framed(a)
    PROVE  Distinct'
<1>1. \A s \in Sessions : held[s] \in Nat /\ held[s] <= lease.epoch
  BY DEF Token, TypeOK
<1>2. lease.epoch \in Nat
  BY Columns DEF TypeOK
<1>3. \A s \in Sessions \ {a} : held'[s] = held[s]
  BY DEF Framed
<1>. SUFFICES ASSUME NEW s \in Sessions, NEW t \in Sessions,
                     held'[s] > 0, held'[t] = held'[s]
              PROVE  t = s
  BY DEF Distinct
<1>4. CASE held'[a] = held[a]
  BY <1>3, <1>4 DEF Distinct, Rows
<1>5. CASE held'[a] = 0
  BY <1>3, <1>5 DEF Distinct, Rows
<1>6. CASE lease'.epoch > lease.epoch /\ held'[a] = lease'.epoch
  BY <1>1, <1>2, <1>3, <1>6 DEF Distinct, Rows
<1>. QED  BY <1>4, <1>5, <1>6 DEF HeldMoves

(* What a session does leaves the others' part of the invariant alone. *)
LEMMA Others ==
    ASSUME Inv, NEW a \in Sessions, Step(a), NEW s \in Sessions, s # a
    PROVE  Private(s)'
<1>1. /\ main'[s] = main[s] /\ loop'[s] = loop[s] /\ stamp'[s] = stamp[s]
      /\ queue'[s] = queue[s] /\ held'[s] = held[s] /\ lost'[s] = lost[s]
      /\ fences'[s] = fences[s] /\ beats'[s] = beats[s]
      /\ Faulted(s)' <=> Faulted(s)
      /\ now' = now
  BY DEF Step, Framed
<1>2. Tasking(s) /\ Token(s) /\ Stamps(s) /\ Beats(s) /\ Losses(s)
  BY DEF Inv, Private
<1>3. /\ lease'.epoch \in Nat /\ lease.epoch \in Nat
      /\ lease'.updated_at \in Nat /\ lease.updated_at \in Nat
      /\ lease'.epoch >= lease.epoch /\ lease'.updated_at >= lease.updated_at
      /\ lease' # lease => lease'.owner = a
      /\ lease'.epoch = lease.epoch => lease'.owner = lease.owner
  <2>1. lease \in RL!Lease /\ now \in Nat /\ Row
    BY BoundsAssumption DEF TypeOK, Inv, Rows
  <2>2. lease' \in RL!Lease
    BY <2>1, RowForward DEF Step
  <2>. QED  BY <2>1, <2>2, RowForward DEF Step, RL!Lease
<1>4. /\ held[s] \in Nat /\ held[s] <= lease.epoch
      /\ stamp[s]["main"] \in Nat /\ stamp[s]["loop"] \in Nat
  BY <1>2, Clocks DEF Inv, Token, Tasks
<1>5. Current(s)' => Current(s) /\ lease' = lease
  BY <1>1, <1>2, <1>3, <1>4 DEF Current, Token
<1>6. Tasking(s)'
  BY <1>1, <1>2 DEF Tasking, MainWaits, LoopWaits
<1>7. Token(s)'
  <2>1. held'[s] <= lease'.epoch
    BY <1>1, <1>3, <1>4
  <2>2. lease'.owner # s \/ lease'.owner = lease.owner
    BY <1>3
  <2>. QED  BY <1>1, <1>2, <1>5, <2>1, <2>2 DEF Token
<1>8. Stamps(s)'
  BY <1>1, <1>2, <1>3, <1>4, <1>5 DEF Stamps
<1>9. Beats(s)'
  <2>1. CASE heartbeat' = heartbeat
    BY <1>1, <1>2, <2>1 DEF Beats
  <2>2. CASE held[a] > 0 /\ heartbeat'.epoch = held[a]
    <3>1. held[s] # held[a]
      BY <2>2 DEF Inv, Rows, Distinct
    <3>. QED  BY <1>1, <2>2, <3>1 DEF Beats
  <2>3. BeatMoves(a)
    BY DEF Step
  <2>4. heartbeat' = heartbeat \/ (held[a] > 0 /\ heartbeat'.epoch = held[a])
    <3>1. ASSUME NEW phase \in {"running", "stopped"}, NEW t \in 0..now,
                 heartbeat' = Beat(a, phase, t)
          PROVE  heartbeat'.epoch = held[a]
      BY <3>1 DEF Beat
    <3>. QED  BY <2>3, <3>1 DEF BeatMoves
  <2>. QED  BY <2>1, <2>2, <2>4
<1>10. Losses(s)'
  <2>1. CASE lease' = lease
    BY <1>1, <1>2, <2>1 DEF Losses, RL!LiveFor, RL!Holds
  <2>2. CASE lease'.owner = a
    BY <2>2 DEF Losses, RL!LiveFor, RL!Holds
  <2>. QED  BY <1>3, <2>1, <2>2
<1>. QED  BY <1>6, <1>7, <1>8, <1>9, <1>10 DEF Private

-----------------------------------------------------------------------------
(* The ledger of checks. *)

LEMMA AcceptedTyped ==
    ASSUME TypeOK, NEW p \in Fences, RL!Accepted(p)
    PROVE  /\ receipts[p].owner \in Sessions /\ receipts[p].epoch \in Nat
           /\ receipts[p].checked_at \in Nat
<1>1. receipts[p] \in RL!Receipt
  BY DEF TypeOK, RL!Accepted, RL!NoReceipt
<1>. QED  BY <1>1 DEF RL!Receipt

(* Without a new check: the row leaves what was accepted behind. *)
LEMMA LedgerKept ==
    ASSUME Inv, NEW a \in Sessions, Step(a), receipts' = receipts,
           stamp'[a]["main"] \in Nat, stamp[a]["main"] <= stamp'[a]["main"]
    PROVE  Ledger'
<1>2. /\ lease \in RL!Lease /\ now \in Nat /\ Row /\ RowMoves(a) /\ now' = now
      /\ LeaseSeconds \in Nat
  BY Clocks DEF TypeOK, Inv, Rows, Step
<1>3. /\ lease.epoch \in Nat /\ lease.updated_at \in Nat /\ lease.expires_at \in Nat
      /\ lease.acquired_at \in Nat
      /\ lease.acquired_at <= lease.updated_at /\ lease.updated_at <= lease.expires_at
  BY <1>2, Columns DEF Row
<1>4. /\ lease'.epoch \in Nat /\ lease'.expires_at \in Nat /\ lease'.acquired_at \in Nat
      /\ lease'.epoch >= lease.epoch
      /\ lease'.epoch = lease.epoch => lease'.owner = lease.owner
  BY <1>2, RowForward DEF RL!Lease
<1>5. ASSUME NEW p \in Fences, RL!Accepted(p)
      PROVE  /\ receipts[p].owner \in Sessions /\ receipts[p].epoch \in Nat
             /\ receipts[p].checked_at \in Nat
             /\ receipts[p].checked_at <= stamp[receipts[p].owner]["main"]
             /\ receipts[p].epoch = lease.epoch => receipts[p].checked_at <= lease.expires_at
             /\ receipts[p].epoch < lease.epoch => receipts[p].checked_at <= lease.acquired_at
             /\ receipts[p].epoch <= lease.epoch
             /\ receipts[p].epoch = lease.epoch => receipts[p].owner = lease.owner
  BY <1>5, AcceptedTyped DEF Inv, Ledger, Checks, ChecksFollowEpochs, RL!OneOwnerPerEpoch
<1>6. ASSUME NEW p \in Fences, RL!Accepted(p)
      PROVE  /\ receipts[p].epoch = lease'.epoch => receipts[p].checked_at <= lease'.expires_at
             /\ receipts[p].epoch < lease'.epoch => receipts[p].checked_at <= lease'.acquired_at
  <2>1. CASE lease' = lease
    BY <1>5, <1>6, <2>1
  <2>2. ASSUME NEW t \in 0..now, Took(a, t)
        PROVE  /\ receipts[p].epoch = lease'.epoch => receipts[p].checked_at <= lease'.expires_at
               /\ receipts[p].epoch < lease'.epoch => receipts[p].checked_at <= lease'.acquired_at
    <3>1. /\ lease'.epoch = lease.epoch + 1 /\ lease'.acquired_at = t
          /\ lease.expires_at <= t
      BY <2>2 DEF Took
    <3>. QED  BY <1>3, <1>5, <1>6, <3>1
  <2>3. ASSUME NEW t \in 0..now, Extended(a, t)
        PROVE  /\ receipts[p].epoch = lease'.epoch => receipts[p].checked_at <= lease'.expires_at
               /\ receipts[p].epoch < lease'.epoch => receipts[p].checked_at <= lease'.acquired_at
    <3>1. /\ lease'.epoch = lease.epoch /\ lease'.acquired_at = lease.acquired_at
          /\ lease'.expires_at >= lease.expires_at
      BY <1>2, <1>3, <2>3 DEF Extended, RL!UpdatedLease, RL!Later
    <3>. QED  BY <1>3, <1>4, <1>5, <1>6, <3>1
  <2>4. ASSUME NEW t \in 0..now, Ended(a, t)
        PROVE  /\ receipts[p].epoch = lease'.epoch => receipts[p].checked_at <= lease'.expires_at
               /\ receipts[p].epoch < lease'.epoch => receipts[p].checked_at <= lease'.acquired_at
    <3>1. /\ lease'.epoch = lease.epoch /\ lease'.acquired_at = lease.acquired_at
          /\ lease'.expires_at = stamp[a]["main"] /\ lease.owner = a
      BY <2>4 DEF Ended, RL!UpdatedLease, RL!Holds, RL!LiveFor
    <3>. QED  BY <1>3, <1>4, <1>5, <1>6, <3>1
  <2>. QED  BY <1>2, <2>1, <2>2, <2>3, <2>4 DEF RowMoves
<1>7. Checks'
  <2>. SUFFICES ASSUME NEW p \in Fences, RL!Accepted(p)
                PROVE  /\ receipts[p].checked_at <= stamp'[receipts[p].owner]["main"]
                       /\ receipts[p].epoch = lease'.epoch
                             => receipts[p].checked_at <= lease'.expires_at
                       /\ receipts[p].epoch < lease'.epoch
                             => receipts[p].checked_at <= lease'.acquired_at
    BY DEF Checks, RL!Accepted
  <2>1. /\ receipts[p].owner \in Sessions /\ receipts[p].checked_at \in Nat
        /\ receipts[p].checked_at <= stamp[receipts[p].owner]["main"]
    BY <1>5
  <2>2. \A s \in Sessions : /\ stamp[s]["main"] \in Nat /\ stamp'[s]["main"] \in Nat
                             /\ stamp[s]["main"] <= stamp'[s]["main"]
    BY Clocks DEF Inv, Tasks, Step, Framed
  <2>. QED  BY <1>6, <2>1, <2>2
<1>8. RL!OneOwnerPerEpoch'
  BY <1>3, <1>4, <1>5 DEF Inv, Ledger, ChecksFollowEpochs, RL!OneOwnerPerEpoch, RL!Accepted
<1>9. RL!EpochsDoNotInterleave'
  BY DEF Inv, Ledger, ChecksFollowEpochs, RL!EpochsDoNotInterleave, RL!Accepted
<1>. QED  BY <1>7, <1>8, <1>9 DEF Ledger, ChecksFollowEpochs

(* An accepted check was made against a live row of that session. *)
LEMMA FenceFacts ==
    ASSUME Row, lease \in RL!Lease, NEW a \in Sessions, NEW e \in Nat, NEW t \in Nat,
           RL!FenceReceipt(a, e, t).reason = "current"
    PROVE  /\ lease.state = "active" /\ lease.owner = a /\ lease.epoch = e
           /\ lease.updated_at <= t /\ t < lease.expires_at
<1>1. RL!FenceReason(a, e, t) = "current"
  BY DEF RL!FenceReceipt
<1>. QED  BY <1>1, Columns DEF RL!FenceReason

(* A new check: it is inside the window of the row, which lies after       *)
(* everything accepted under an earlier epoch.                             *)
LEMMA LedgerExtended ==
    ASSUME Inv, NEW a \in Sessions, NEW op \in Fences, NEW t, t = stamp[a]["main"],
           receipts' = [receipts EXCEPT ![op] = RL!FenceReceipt(a, held[a], t)],
           lease' = lease, stamp' = stamp
    PROVE  Ledger'
<1>1. t \in Nat /\ held[a] \in Nat
  BY Clocks DEF Inv, Tasks
<1>2. /\ lease.epoch \in Nat /\ lease.updated_at \in Nat /\ lease.expires_at \in Nat
      /\ lease.acquired_at \in Nat /\ lease.acquired_at <= lease.updated_at
      /\ lease \in RL!Lease /\ Row
  BY Columns DEF Inv, Rows, Row, TypeOK
<1>3. \A p \in Fences : p # op => receipts'[p] = receipts[p]
  BY DEF Inv, TypeOK
<1>4. receipts'[op] = RL!FenceReceipt(a, held[a], t)
  BY DEF Inv, TypeOK
<1>5. /\ receipts'[op].owner = a /\ receipts'[op].epoch = held[a]
      /\ receipts'[op].checked_at = t
  BY <1>4 DEF RL!FenceReceipt
<1>6. receipts'[op].reason = "current" =>
          /\ lease.owner = a /\ lease.epoch = held[a]
          /\ lease.updated_at <= t /\ t < lease.expires_at
  BY <1>1, <1>2, <1>4, FenceFacts
<1>7. ASSUME NEW p \in Fences, p # op, RL!Accepted(p)'
      PROVE  /\ receipts'[p] = receipts[p] /\ RL!Accepted(p)
             /\ receipts[p].owner \in Sessions /\ receipts[p].epoch \in Nat
             /\ receipts[p].checked_at \in Nat
             /\ receipts[p].checked_at <= stamp[receipts[p].owner]["main"]
             /\ receipts[p].epoch = lease.epoch => receipts[p].checked_at <= lease.expires_at
             /\ receipts[p].epoch < lease.epoch => receipts[p].checked_at <= lease.acquired_at
             /\ receipts[p].epoch <= lease.epoch
             /\ receipts[p].epoch = lease.epoch => receipts[p].owner = lease.owner
  <2>1. receipts'[p] = receipts[p] /\ RL!Accepted(p)
    BY <1>3, <1>7 DEF RL!Accepted
  <2>. QED
    BY <2>1, AcceptedTyped DEF Inv, Ledger, Checks, ChecksFollowEpochs, RL!OneOwnerPerEpoch
<1>8. RL!Accepted(op)' => receipts'[op].reason = "current"
  BY DEF RL!Accepted
<1>9. Checks'
  <2>1. ASSUME NEW p \in Fences, RL!Accepted(p)'
        PROVE  /\ receipts'[p].checked_at <= stamp[receipts'[p].owner]["main"]
               /\ receipts'[p].epoch = lease.epoch
                     => receipts'[p].checked_at <= lease.expires_at
               /\ receipts'[p].epoch < lease.epoch
                     => receipts'[p].checked_at <= lease.acquired_at
    <3>1. CASE p = op
      BY <1>1, <1>2, <1>5, <1>6, <1>8, <2>1, <3>1
    <3>2. CASE p # op
      BY <1>7, <2>1, <3>2
    <3>. QED  BY <3>1, <3>2
  <2>. QED  BY <2>1 DEF Checks
<1>10. RL!OneOwnerPerEpoch'
  <2>. SUFFICES ASSUME NEW p \in Fences, RL!Accepted(p)'
                PROVE  /\ receipts'[p].epoch <= lease.epoch
                       /\ receipts'[p].epoch = lease.epoch => receipts'[p].owner = lease.owner
                       /\ \A q \in Fences :
                             RL!Accepted(q)' /\ receipts'[q].epoch = receipts'[p].epoch
                                 => receipts'[q].owner = receipts'[p].owner
    BY DEF RL!OneOwnerPerEpoch
  <2>1. /\ receipts'[p].epoch <= lease.epoch
        /\ receipts'[p].epoch = lease.epoch => receipts'[p].owner = lease.owner
    BY <1>2, <1>5, <1>6, <1>7, <1>8
  <2>2. ASSUME NEW q \in Fences, RL!Accepted(q)', receipts'[q].epoch = receipts'[p].epoch
        PROVE  receipts'[q].owner = receipts'[p].owner
    <3>1. CASE p = op \/ q = op
      BY <1>2, <1>5, <1>6, <1>7, <1>8, <2>2, <3>1
    <3>2. CASE p # op /\ q # op
      BY <1>7, <2>2, <3>2 DEF Inv, Ledger, ChecksFollowEpochs, RL!OneOwnerPerEpoch
    <3>. QED  BY <3>1, <3>2
  <2>. QED  BY <2>1, <2>2
<1>11. RL!EpochsDoNotInterleave'
  <2>. SUFFICES ASSUME NEW p \in Fences, NEW q \in Fences, RL!Accepted(p)', RL!Accepted(q)',
                       receipts'[p].epoch < receipts'[q].epoch
                PROVE  receipts'[p].checked_at <= receipts'[q].checked_at
    BY DEF RL!EpochsDoNotInterleave
  <2>1. CASE p = op
    BY <1>1, <1>2, <1>5, <1>6, <1>7, <1>8, <2>1
  <2>2. CASE p # op /\ q = op
    BY <1>1, <1>2, <1>5, <1>6, <1>7, <1>8, <2>2
  <2>3. CASE p # op /\ q # op
    BY <1>7, <2>3 DEF Inv, Ledger, ChecksFollowEpochs, RL!EpochsDoNotInterleave
  <2>. QED  BY <2>1, <2>2, <2>3
<1>. QED  BY <1>9, <1>10, <1>11 DEF Ledger, ChecksFollowEpochs

-----------------------------------------------------------------------------
(* The steps of a session.                                                 *)

Queues == {<<>>, <<"main">>, <<"loop">>, <<"main", "loop">>, <<"loop", "main">>}

Typed ==
    /\ receipts \in [Fences -> RL!Receipt \cup {RL!NoReceipt}]
    /\ main \in [Sessions -> MainStates]
    /\ loop \in [Sessions -> {"off", "asleep", "renew", "beat"}]
    /\ stamp \in [Sessions -> [Tasks -> 0..now]]
    /\ queue \in [Sessions -> Queues]
    /\ held \in [Sessions -> Nat]
    /\ lost \in [Sessions -> BOOLEAN]
    /\ fences \in [Sessions -> 0..MaxFences]
    /\ beats \in [Sessions -> Nat]
    /\ faults \in Seq(Sessions) /\ Len(faults) <= MaxFaults

(* What is left to show of a step: its types, its own session, the ledger. *)
LEMMA Compose ==
    ASSUME Inv, NEW a \in Sessions, Step(a), Typed', Private(a)', Ledger'
    PROVE  Inv' /\ (MovesOn \/ UNCHANGED heartbeat)
<1>1. /\ lease \in RL!Lease /\ now \in Nat /\ now \in 0..MaxTime /\ Row /\ now' = now
      /\ RowMoves(a) /\ HeldMoves(a) /\ BeatMoves(a) /\ Framed(a)
  BY BoundsAssumption DEF Inv, Rows, TypeOK, Step
<1>2. lease' \in RL!Lease /\ Row'
  BY <1>1, RowForward
<1>3. BeatTyped' /\ BeatRow' /\ HeartbeatMatchesLease' /\ (MovesOn \/ UNCHANGED heartbeat)
  BY <1>1, BeatForward DEF Inv, Private
<1>4. Distinct'
  BY <1>1, DistinctKept DEF Inv, Private
<1>5. TypeOK'
  BY <1>1, <1>2, <1>3 DEF TypeOK, Typed, BeatTyped, Queues
<1>6. \A s \in Sessions : Private(s)'
  BY Others
<1>. QED  BY <1>2, <1>3, <1>4, <1>5, <1>6 DEF Inv, Rows

LEMMA StartKeeps ==
    ASSUME Inv, NEW a \in Sessions, Start(a)
    PROVE  Inv' /\ (MovesOn \/ UNCHANGED heartbeat)
<1>1. /\ UNCHANGED <<lease, receipts, heartbeat, now, loop, held, lost, fences, beats, faults>>
      /\ main[a] = "new" /\ main' = [main EXCEPT ![a] = "acquire"]
      /\ stamp' = [stamp EXCEPT ![a] = [task \in Tasks |-> now]]
      /\ queue' = [queue EXCEPT ![a] = Append(queue[a], "main")]
  BY DEF Start, MainAt, Submit
<1>2. TypeOK /\ Typed /\ Tasking(a) /\ Token(a) /\ Stamps(a) /\ Beats(a) /\ Losses(a)
  BY DEF Inv, Private, TypeOK, Typed, Queues
<1>3. loop[a] = "off" /\ queue[a] = <<>> /\ queue' = [queue EXCEPT ![a] = <<"main">>]
  BY <1>1, <1>2, QueueFacts DEF Tasking, MainWaits, LoopWaits
<1>4. /\ main'[a] = "acquire" /\ queue'[a] = <<"main">>
      /\ stamp'[a] = [task \in Tasks |-> now]
  BY <1>1, <1>2, <1>3 DEF Typed
<1>5. Typed'
  BY <1>1, <1>2, <1>3, BoundsAssumption DEF Typed, Queues, MainStates, TypeOK
<1>6. Step(a)
  BY <1>1, <1>3 DEF Step, RowMoves, HeldMoves, BeatMoves, Framed, Faulted
<1>7. Ledger'
  <2>. stamp'[a]["main"] \in Nat /\ stamp[a]["main"] <= stamp'[a]["main"]
    BY <1>2, <1>4, Clocks DEF Tasks
  <2>. QED  BY <1>1, <1>6, LedgerKept
<1>8. Tasking(a)'
  BY <1>1, <1>3, <1>4 DEF Tasking, MainWaits, LoopWaits
<1>9. Token(a)'
  BY <1>1, <1>2, <1>4 DEF Token, Current
<1>10. Stamps(a)'
  BY <1>1, <1>3, <1>4 DEF Stamps
<1>11. Beats(a)'
  BY <1>1, <1>2, <1>3, <1>4 DEF Beats
<1>12. Losses(a)'
  BY <1>1, <1>2, <1>3, <1>4 DEF Losses, Token, Faulted, RL!LiveFor
<1>. QED  BY <1>5, <1>6, <1>7, <1>8, <1>9, <1>10, <1>11, <1>12, Compose DEF Private

LEMMA LedgerStill ==
    ASSUME Inv, NEW a \in Sessions, Step(a), receipts' = receipts,
           stamp'[a]["main"] = stamp[a]["main"]
    PROVE  Ledger'
<1>. stamp'[a]["main"] \in Nat /\ stamp[a]["main"] <= stamp'[a]["main"]
  BY Clocks DEF Inv, Tasks
<1>. QED  BY LedgerKept

(* The row a session may acquire is one whose window is over. *)
LEMMA AcquireTakes ==
    ASSUME lease \in RL!Lease, Row, NEW a \in Sessions, NEW t \in Nat,
           lease.owner # a, RL!Acquire(a, t)
    PROVE  Took(a, t)
<1>1. ~RL!LiveFor(a, t)
  BY DEF RL!LiveFor
<1>2. lease' = [owner |-> a, epoch |-> lease.epoch + 1, state |-> "active",
                acquired_at |-> t, expires_at |-> t + LeaseSeconds, updated_at |-> t]
  BY <1>1 DEF RL!Acquire, RL!AcquiredLease
<1>3. CASE lease.state = "missing"
  BY <1>2, <1>3 DEF Took, Row, RL!MissingLease
<1>4. CASE t >= lease.updated_at /\ (lease.state = "released" \/ lease.expires_at <= t)
  BY <1>2, <1>4, Columns DEF Took, Row
<1>. QED  BY <1>3, <1>4 DEF RL!Acquire, RL!MayAcquire

LEMMA AcquireKeeps ==
    ASSUME Inv, NEW a \in Sessions, AcquireLease(a)
    PROVE  Inv' /\ (MovesOn \/ UNCHANGED heartbeat)
<1>. DEFINE t == stamp[a]["main"]
<1>1. /\ UNCHANGED <<receipts, heartbeat, now, loop, stamp, lost, fences, beats, faults>>
      /\ main[a] = "acquire" /\ queue' = [queue EXCEPT ![a] = Tail(queue[a])]
  BY DEF AcquireLease, Done, RL!Acquire
<1>2. TypeOK /\ Typed /\ Tasking(a) /\ Token(a) /\ Stamps(a) /\ Beats(a) /\ Losses(a)
  BY DEF Inv, Private, TypeOK, Typed, Queues
<1>3. loop[a] = "off" /\ queue[a] = <<"main">> /\ queue' = [queue EXCEPT ![a] = <<>>]
  BY <1>1, <1>2, QueueFacts DEF Tasking, MainWaits, LoopWaits
<1>4. t \in Nat /\ t \in 0..now /\ now \in Nat /\ lease \in RL!Lease /\ Row
  BY Clocks DEF Inv, Rows, TypeOK, Tasks
<1>5. queue'[a] = <<>> /\ lease.owner # a /\ held[a] = 0 /\ ~lost[a]
  BY <1>1, <1>2, <1>3 DEF Typed, Token
<1>6. ASSUME RL!Acquire(a, t), held' = [held EXCEPT ![a] = lease'.epoch],
             main' = [main EXCEPT ![a] = "read_beat"]
      PROVE  Inv' /\ (MovesOn \/ UNCHANGED heartbeat)
  <2>1. Took(a, t)
    BY <1>4, <1>5, <1>6, AcquireTakes
  <2>2. RowMoves(a)
    BY <1>4, <2>1 DEF RowMoves
  <2>3. lease' \in RL!Lease
    BY <1>1, <1>4, <2>2, RowForward
  <2>4. /\ lease'.epoch \in Nat /\ lease'.epoch > lease.epoch /\ lease'.epoch > 0
        /\ lease'.owner = a /\ lease'.updated_at = t
    BY <1>4, <2>1, Columns DEF Took
  <2>5. main'[a] = "read_beat" /\ held'[a] = lease'.epoch
    BY <1>2, <1>6 DEF Typed
  <2>6. Typed'
    BY <1>1, <1>2, <1>3, <1>6, <2>4 DEF Typed, Queues, MainStates
  <2>7. Step(a)
    BY <1>1, <1>3, <1>6, <2>2, <2>4, <2>5 DEF Step, HeldMoves, BeatMoves, Framed, Faulted
  <2>8. Ledger'
    BY <1>1, <2>7, LedgerStill
  <2>9. Tasking(a)'
    BY <1>1, <1>3, <1>5, <2>5 DEF Tasking, MainWaits, LoopWaits
  <2>10. Token(a)'
    BY <1>1, <1>5, <2>4, <2>5 DEF Token, Current
  <2>11. Stamps(a)'
    BY <1>1, <1>3, <1>4, <2>4, <2>5 DEF Stamps
  <2>12. heartbeat.epoch \in Nat /\ heartbeat.epoch <= lease.epoch
    BY DEF Inv, Rows, HeartbeatMatchesLease, TypeOK
  <2>13. Beats(a)'
    BY <1>1, <1>4, <2>4, <2>5, <2>12, Columns DEF Beats
  <2>14. Losses(a)'
    BY <1>1, <1>5, <2>5 DEF Losses
  <2>. QED  BY <2>6, <2>7, <2>8, <2>9, <2>10, <2>11, <2>13, <2>14, Compose DEF Private
<1>7. ASSUME UNCHANGED <<lease, held>>, main' = [main EXCEPT ![a] = "done"]
      PROVE  Inv' /\ (MovesOn \/ UNCHANGED heartbeat)
  <2>1. main'[a] = "done"
    BY <1>2, <1>7 DEF Typed
  <2>2. Typed'
    BY <1>1, <1>2, <1>3, <1>7 DEF Typed, Queues, MainStates
  <2>3. Step(a)
    BY <1>1, <1>3, <1>7 DEF Step, RowMoves, HeldMoves, BeatMoves, Framed, Faulted
  <2>4. Ledger'
    BY <1>1, <2>3, LedgerStill
  <2>5. Tasking(a)'
    BY <1>1, <1>3, <1>5, <2>1 DEF Tasking, MainWaits, LoopWaits
  <2>6. Token(a)'
    BY <1>1, <1>2, <1>7, <2>1 DEF Token, Current
  <2>7. Stamps(a)'
    BY <1>1, <1>3, <1>7, <2>1 DEF Stamps
  <2>8. Beats(a)'
    BY <1>1, <1>5, <1>7 DEF Beats
  <2>9. Losses(a)'
    BY <1>1, <1>5, <2>1 DEF Losses
  <2>. QED  BY <2>2, <2>3, <2>4, <2>5, <2>6, <2>7, <2>8, <2>9, Compose DEF Private
<1>. QED  BY <1>6, <1>7 DEF AcquireLease, MainAt

LEMMA ReadKeeps ==
    ASSUME Inv, NEW a \in Sessions, ReadHeartbeat(a)
    PROVE  Inv' /\ (MovesOn \/ UNCHANGED heartbeat)
<1>. DEFINE n == 1 + IF heartbeat.epoch = held[a] /\ heartbeat.instance = a
                     THEN heartbeat.sequence ELSE beats[a]
<1>1. /\ UNCHANGED <<lease, receipts, heartbeat, now, loop, stamp, held, lost, fences, faults>>
      /\ main[a] = "read_beat" /\ main' = [main EXCEPT ![a] = "first_beat"]
      /\ queue' = [queue EXCEPT ![a] = Append(queue[a], "main")]
      /\ beats' = [beats EXCEPT ![a] = n]
  BY DEF ReadHeartbeat, MainAt, Submit
<1>2. TypeOK /\ Typed /\ Tasking(a) /\ Token(a) /\ Stamps(a) /\ Beats(a) /\ Losses(a)
  BY DEF Inv, Private, TypeOK, Typed, Queues
<1>3. loop[a] = "off" /\ queue[a] = <<>> /\ queue' = [queue EXCEPT ![a] = <<"main">>]
  BY <1>1, <1>2, QueueFacts DEF Tasking, MainWaits, LoopWaits
<1>4. /\ heartbeat.sequence \in Nat /\ beats[a] \in Nat /\ n \in Nat
      /\ held[a] > 0 /\ heartbeat.epoch = held[a] => heartbeat.sequence < n
  BY <1>2 DEF TypeOK, Beats
<1>. HIDE DEF n
<1>5. main'[a] = "first_beat" /\ queue'[a] = <<"main">> /\ beats'[a] = n
  BY <1>1, <1>2, <1>3 DEF Typed
<1>6. Typed'
  BY <1>1, <1>2, <1>3, <1>4 DEF Typed, Queues, MainStates
<1>7. Step(a)
  BY <1>1, <1>3 DEF Step, RowMoves, HeldMoves, BeatMoves, Framed, Faulted
<1>8. Ledger'
  BY <1>1, <1>7, LedgerStill
<1>9. Tasking(a)'
  BY <1>1, <1>3, <1>5 DEF Tasking, MainWaits, LoopWaits
<1>10. Token(a)'
  BY <1>1, <1>2, <1>5 DEF Token, Current
<1>11. Stamps(a)'
  BY <1>1, <1>2, <1>3, <1>5 DEF Stamps, Current
<1>12. Beats(a)'
  BY <1>1, <1>2, <1>3, <1>4, <1>5 DEF Beats
<1>13. Losses(a)'
  BY <1>1, <1>2, <1>5 DEF Losses, Token, Faulted, RL!LiveFor
<1>. QED  BY <1>6, <1>7, <1>8, <1>9, <1>10, <1>11, <1>12, <1>13, Compose DEF Private

(* The heartbeat of a session that holds the row is accepted. *)
LEMMA OwnBeatAdvances ==
    ASSUME Inv, NEW a \in Sessions, Current(a),
           main[a] \in {"first_beat", "last_beat"} \/ loop[a] = "beat",
           NEW phase, NEW t \in Nat, lease.updated_at <= t
    PROVE  Advances(Beat(a, phase, t))
<1>. DEFINE b == Beat(a, phase, t)
<1>1. /\ b.epoch = held[a] /\ b.instance = a /\ b.sequence = beats[a] /\ b.observed_at = t
  BY DEF Beat
<1>2. /\ held[a] = lease.epoch /\ held[a] > 0 /\ heartbeat.epoch <= lease.epoch
      /\ lease.epoch \in Nat /\ heartbeat.epoch \in Nat
      /\ heartbeat.observed_at <= lease.updated_at /\ heartbeat.observed_at \in Nat
      /\ lease.updated_at \in Nat
  BY Columns DEF Inv, Rows, Current, HeartbeatMatchesLease, BeatRow, TypeOK
<1>3. heartbeat.epoch = held[a] => heartbeat.instance = a /\ heartbeat.sequence < beats[a]
  BY <1>2 DEF Inv, Private, Beats
<1>4. heartbeat.sequence \in Nat /\ beats[a] \in Nat
  BY DEF Inv, TypeOK
<1>. HIDE DEF b
<1>5. b.epoch >= heartbeat.epoch /\ b.observed_at >= heartbeat.observed_at
  BY <1>1, <1>2
<1>6. b.epoch = heartbeat.epoch => b.instance = heartbeat.instance /\ b.sequence > heartbeat.sequence
  BY <1>1, <1>3, <1>4
<1>7. Advances(b)
  BY <1>5, <1>6 DEF Advances
<1>. QED  BY <1>7 DEF b

LEMMA FirstBeatKeeps ==
    ASSUME Inv, NEW a \in Sessions, FirstHeartbeat(a)
    PROVE  Inv' /\ (MovesOn \/ UNCHANGED heartbeat)
<1>. DEFINE t == stamp[a]["main"]
            b == Beat(a, "running", t)
<1>1. /\ UNCHANGED <<lease, receipts, now, stamp, held, lost, fences, beats, faults>>
      /\ main[a] = "first_beat"
  BY DEF FirstHeartbeat
<1>2. TypeOK /\ Typed /\ Tasking(a) /\ Token(a) /\ Stamps(a) /\ Beats(a) /\ Losses(a)
  BY DEF Inv, Private, TypeOK, Typed, Queues
<1>3. loop[a] = "off" /\ queue[a] = <<"main">> /\ held[a] > 0 /\ ~lost[a]
  BY <1>1, <1>2 DEF Tasking, MainWaits, LoopWaits, Token
<1>4. /\ t \in Nat /\ t \in 0..now /\ t <= lease.updated_at
      /\ Current(a) => lease.updated_at <= t
  BY <1>1, <1>2, Clocks DEF Tasks, Stamps
<1>5. ASSUME Advances(b), heartbeat' = b, main' = [main EXCEPT ![a] = "running"],
             loop' = [loop EXCEPT ![a] = "asleep"], queue' = [queue EXCEPT ![a] = Tail(queue[a])]
      PROVE  Inv' /\ (MovesOn \/ UNCHANGED heartbeat)
  <2>1. queue' = [queue EXCEPT ![a] = <<>>]
    BY <1>3, <1>5, QueueFacts
  <2>2. main'[a] = "running" /\ loop'[a] = "asleep" /\ queue'[a] = <<>>
    BY <1>2, <1>5, <2>1 DEF Typed
  <2>3. Typed'
    BY <1>1, <1>2, <1>5, <2>1 DEF Typed, Queues, MainStates
  <2>4. BeatMoves(a)
    BY <1>1, <1>3, <1>4, <1>5 DEF BeatMoves
  <2>5. Step(a)
    BY <1>1, <1>5, <2>1, <2>4 DEF Step, RowMoves, HeldMoves, Framed, Faulted
  <2>6. Ledger'
    BY <1>1, <2>5, LedgerStill
  <2>7. Tasking(a)'
    BY <2>2 DEF Tasking, MainWaits, LoopWaits
  <2>8. Token(a)'
    BY <1>1, <1>2, <2>2 DEF Token, Current
  <2>9. Stamps(a)'
    BY <1>1, <2>2 DEF Stamps
  <2>10. heartbeat'.instance = a /\ heartbeat'.sequence = beats[a] /\ heartbeat'.phase = "running"
    BY <1>5 DEF Beat
  <2>11. Beats(a)'
    BY <1>1, <1>2, <2>2, <2>10 DEF Beats, Typed
  <2>12. Losses(a)'
    BY <1>1, <1>3, <2>2 DEF Losses
  <2>. QED  BY <2>3, <2>5, <2>6, <2>7, <2>8, <2>9, <2>11, <2>12, Compose DEF Private
<1>6. ASSUME ~Advances(b), UNCHANGED <<heartbeat, loop>>, main' = [main EXCEPT ![a] = "undo"],
             queue' = [queue EXCEPT ![a] = Append(Tail(queue[a]), "main")]
      PROVE  Inv' /\ (MovesOn \/ UNCHANGED heartbeat)
  <2>1. queue' = [queue EXCEPT ![a] = <<"main">>]
    BY <1>3, <1>6, QueueFacts
  <2>2. main'[a] = "undo" /\ loop'[a] = "off" /\ queue'[a] = <<"main">>
    BY <1>2, <1>3, <1>6, <2>1 DEF Typed
  <2>3. Typed'
    BY <1>1, <1>2, <1>6, <2>1 DEF Typed, Queues, MainStates
  <2>4. Step(a)
    BY <1>1, <1>6, <2>1 DEF Step, RowMoves, HeldMoves, BeatMoves, Framed, Faulted
  <2>5. Ledger'
    BY <1>1, <2>4, LedgerStill
  <2>6. Tasking(a)'
    BY <2>2 DEF Tasking, MainWaits, LoopWaits
  <2>7. Token(a)'
    BY <1>1, <1>2, <1>3, <2>2 DEF Token, Current
  <2>8. Stamps(a)'
    BY <1>1, <2>2 DEF Stamps
  <2>9. Beats(a)'
    BY <1>1, <1>2, <1>6, <2>2 DEF Beats
  <2>10. ~Current(a)
    BY <1>1, <1>4, <1>6, OwnBeatAdvances
  <2>11. Losses(a)'
    BY <1>1, <1>3, <2>2, <2>10 DEF Losses, Current
  <2>. QED  BY <2>3, <2>4, <2>5, <2>6, <2>7, <2>8, <2>9, <2>11, Compose DEF Private
<1>. QED  BY <1>5, <1>6 DEF FirstHeartbeat, MainAt, LoopAt, Done, Resubmit

(* A release ends the window of the row, or finds that it is not its own. *)
LEMMA ReleaseEnds ==
    ASSUME NEW a \in Sessions, RL!Release(a, held[a], stamp[a]["main"])
    PROVE  Ended(a, stamp[a]["main"])
  BY DEF RL!Release, Ended

LEMMA UndoKeeps ==
    ASSUME Inv, NEW a \in Sessions, UndoAcquire(a)
    PROVE  Inv' /\ (MovesOn \/ UNCHANGED heartbeat)
<1>1. /\ UNCHANGED <<receipts, heartbeat, now, loop, stamp, fences, beats, faults>>
      /\ main[a] = "undo" /\ main' = [main EXCEPT ![a] = "done"]
      /\ held' = [held EXCEPT ![a] = 0] /\ lost' = [lost EXCEPT ![a] = TRUE]
      /\ queue' = [queue EXCEPT ![a] = Tail(queue[a])] /\ ReleaseRow(a)
  BY DEF UndoAcquire, MainAt, MarkLost, Done, ReleaseRow, RL!Release
<1>2. TypeOK /\ Typed /\ Tasking(a) /\ Token(a) /\ Stamps(a) /\ Beats(a) /\ Losses(a)
  BY DEF Inv, Private, TypeOK, Typed, Queues
<1>3. loop[a] = "off" /\ queue[a] = <<"main">> /\ queue' = [queue EXCEPT ![a] = <<>>]
  BY <1>1, <1>2, QueueFacts DEF Tasking, MainWaits, LoopWaits
<1>4. main'[a] = "done" /\ queue'[a] = <<>> /\ held'[a] = 0
  BY <1>1, <1>2, <1>3 DEF Typed
<1>5. /\ stamp[a]["main"] \in 0..now /\ now \in Nat
      /\ lease \in RL!Lease /\ Row
  BY Clocks DEF Inv, Rows, TypeOK, Tasks
<1>6. RowMoves(a)
  BY <1>1, <1>5, ReleaseEnds DEF RowMoves, ReleaseRow
<1>7. lease' \in RL!Lease /\ Row'
  BY <1>1, <1>5, <1>6, RowForward
<1>8. Typed'
  BY <1>1, <1>2, <1>3 DEF Typed, Queues, MainStates
<1>9. Step(a)
  BY <1>1, <1>3, <1>4, <1>6 DEF Step, HeldMoves, BeatMoves, Framed, Faulted
<1>10. Ledger'
  BY <1>1, <1>9, LedgerStill
<1>11. Tasking(a)'
  BY <1>1, <1>3, <1>4 DEF Tasking, MainWaits, LoopWaits
<1>12. lease'.epoch \in Nat
  BY <1>7 DEF RL!Lease
<1>13. Token(a)'
  BY <1>4, <1>12 DEF Token, Current
<1>14. Stamps(a)'
  BY <1>1, <1>3, <1>4 DEF Stamps
<1>15. Beats(a)'
  BY <1>4 DEF Beats
<1>16. Losses(a)'
  BY <1>1, <1>3, <1>4, <1>7, <1>12 DEF Losses, RL!LiveFor, Row
<1>. QED  BY <1>8, <1>9, <1>10, <1>11, <1>13, <1>14, <1>15, <1>16, Compose DEF Private

(* A task that reads the clock changes its own stamp only. *)
LEMMA ClockRead ==
    ASSUME stamp \in [Sessions -> [Tasks -> 0..now]], now \in Nat, NEW a \in Sessions,
           NEW task \in Tasks, stamp' = [stamp EXCEPT ![a][task] = now]
    PROVE  /\ stamp' \in [Sessions -> [Tasks -> 0..now]]
           /\ stamp'[a][task] = now
           /\ \A u \in Tasks : u # task => stamp'[a][u] = stamp[a][u]
           /\ \A s \in Sessions \ {a} : stamp'[s] = stamp[s]
<1>1. stamp[a] \in [Tasks -> 0..now] /\ now \in 0..now
  OBVIOUS
<1>. DEFINE own == [stamp[a] EXCEPT ![task] = now]
<1>2. /\ own \in [Tasks -> 0..now] /\ own[task] = now
      /\ \A u \in Tasks : u # task => own[u] = stamp[a][u]
  BY <1>1
<1>3. stamp' = [stamp EXCEPT ![a] = own]
  OBVIOUS
<1>. HIDE DEF own
<1>. QED  BY <1>2, <1>3

LEMMA BeginFenceKeeps ==
    ASSUME Inv, NEW a \in Sessions, BeginFence(a)
    PROVE  Inv' /\ (MovesOn \/ UNCHANGED heartbeat)
<1>1. /\ UNCHANGED <<lease, receipts, heartbeat, now, loop, held, lost, beats, faults>>
      /\ main[a] = "running" /\ ~lost[a] /\ fences[a] < MaxFences
      /\ main' = [main EXCEPT ![a] = "fence"] /\ fences' = [fences EXCEPT ![a] = fences[a] + 1]
      /\ queue' = [queue EXCEPT ![a] = Append(queue[a], "main")]
      /\ stamp' = [stamp EXCEPT ![a]["main"] = now]
  BY DEF BeginFence, MainAt, ReadClock, Submit
<1>2. TypeOK /\ Typed /\ Tasking(a) /\ Token(a) /\ Stamps(a) /\ Beats(a) /\ Losses(a)
  BY DEF Inv, Private, TypeOK, Typed, Queues
<1>3. /\ queue[a] = IF LoopWaits(a) THEN <<"loop">> ELSE <<>>
      /\ queue' = [queue EXCEPT ![a] = IF LoopWaits(a) THEN <<"loop", "main">> ELSE <<"main">>]
  BY <1>1, <1>2, QueueFacts DEF Tasking, MainWaits
<1>. now \in Nat /\ stamp \in [Sessions -> [Tasks -> 0..now]]
  BY <1>2, Clocks DEF Typed
<1>4. /\ main'[a] = "fence"
      /\ queue'[a] = IF LoopWaits(a) THEN <<"loop", "main">> ELSE <<"main">>
      /\ stamp'[a]["main"] = now /\ stamp'[a]["loop"] = stamp[a]["loop"]
      /\ fences'[a] \in 0..MaxFences /\ fences'[a] > 0
  <2>1. stamp'[a]["main"] = now /\ stamp'[a]["loop"] = stamp[a]["loop"]
    BY <1>1, ClockRead DEF Tasks
  <2>2. fences[a] \in Nat /\ MaxFences \in Nat /\ fences'[a] = fences[a] + 1
    BY <1>1, <1>2, BoundsAssumption DEF Typed
  <2>3. fences'[a] \in 0..MaxFences /\ fences'[a] > 0
    BY <1>1, <2>2
  <2>. QED  BY <1>1, <1>2, <1>3, <2>1, <2>3 DEF Typed
<1>5. /\ stamp[a]["loop"] \in Nat /\ stamp[a]["loop"] <= now /\ stamp[a]["main"] \in Nat
      /\ stamp[a]["main"] <= now /\ now \in Nat /\ lease.updated_at <= now
  BY Clocks DEF Inv, Rows, Row, Tasks
<1>6. Typed'
  <2>1. stamp' \in [Sessions -> [Tasks -> 0..now]]
    BY <1>1, ClockRead DEF Tasks
  <2>2. fences' \in [Sessions -> 0..MaxFences]
    BY <1>1, <1>2, <1>4 DEF Typed
  <2>. QED  BY <1>1, <1>2, <1>3, <2>1, <2>2 DEF Typed, Queues, MainStates
<1>7. Step(a)
  <2>. \A s \in Sessions \ {a} : stamp'[s] = stamp[s]
    BY <1>1, ClockRead DEF Tasks
  <2>. QED  BY <1>1, <1>3 DEF Step, RowMoves, HeldMoves, BeatMoves, Framed, Faulted
<1>8. Ledger'
  BY <1>1, <1>4, <1>5, <1>7, LedgerKept
<1>9. Tasking(a)'
  BY <1>1, <1>2, <1>4 DEF Tasking, MainWaits, LoopWaits
<1>10. Token(a)'
  BY <1>1, <1>2, <1>4 DEF Token, Current
<1>11. Stamps(a)'
  BY <1>1, <1>2, <1>4, <1>5, QueueFacts DEF Stamps, Current
<1>12. Beats(a)'
  BY <1>1, <1>2, <1>4 DEF Beats
<1>13. Losses(a)'
  BY <1>1, <1>4 DEF Losses
<1>. QED  BY <1>6, <1>7, <1>8, <1>9, <1>10, <1>11, <1>12, <1>13, Compose DEF Private

LEMMA DecideFenceKeeps ==
    ASSUME Inv, NEW a \in Sessions, DecideFence(a)
    PROVE  Inv' /\ (MovesOn \/ UNCHANGED heartbeat)
<1>. DEFINE t == stamp[a]["main"]
            op == <<a, fences[a]>>
            refused == receipts'[op].reason # "current"
<1>1. /\ UNCHANGED <<lease, heartbeat, now, loop, stamp, held, fences, beats, faults>>
      /\ main[a] = "fence" /\ Served(a, "main")
      /\ main' = [main EXCEPT ![a] = "running"]
      /\ queue' = [queue EXCEPT ![a] = Tail(queue[a])]
      /\ receipts' = [receipts EXCEPT ![op] = RL!FenceReceipt(a, held[a], t)]
      /\ lost' = [lost EXCEPT ![a] = lost[a] \/ refused]
  BY DEF DecideFence, MainAt, Done, RL!RecordFence
<1>2. TypeOK /\ Typed /\ Tasking(a) /\ Token(a) /\ Stamps(a) /\ Beats(a) /\ Losses(a)
  BY DEF Inv, Private, TypeOK, Typed, Queues
<1>3. /\ queue[a] = IF LoopWaits(a) THEN <<"main", "loop">> ELSE <<"main">>
      /\ queue' = [queue EXCEPT ![a] = IF LoopWaits(a) THEN <<"loop">> ELSE <<>>]
  BY <1>1, <1>2, QueueFacts DEF Tasking, MainWaits, Served
<1>4. op \in Fences
  BY <1>1, <1>2, BoundsAssumption DEF Tasking, Typed, Fences
<1>5. /\ t \in Nat /\ held[a] \in Nat /\ now \in Nat /\ t <= now
      /\ lease \in RL!Lease /\ Row /\ stamp[a]["loop"] \in Nat
      /\ lease.state \in {"missing", "active", "released"}
      /\ lease.updated_at \in Nat /\ lease.expires_at \in Nat
  BY Clocks, Columns DEF Inv, Rows, TypeOK, Tasks
<1>6. RL!FenceReceipt(a, held[a], t) \in RL!Receipt
  <2>1. RL!FenceReason(a, held[a], t) \in RL!Reasons
    BY <1>5 DEF RL!FenceReason, RL!Reasons
  <2>. QED  BY <1>5, <2>1, Columns DEF RL!FenceReceipt, RL!Receipt
<1>7. receipts'[op] = RL!FenceReceipt(a, held[a], t)
  BY <1>1, <1>2, <1>4 DEF Typed
<1>8. (lost[a] \/ refused) \in BOOLEAN
  BY <1>2 DEF Typed
<1>9. refused /\ Current(a) =>
        lease.state # "active" \/ lease.owner # a \/ lease.expires_at <= t
  <2>. SUFFICES ASSUME Current(a), lease.state = "active", lease.owner = a, lease.expires_at > t
                PROVE  ~refused
    BY <1>5
  <2>1. lease.updated_at <= t /\ lease.epoch = held[a]
    BY <1>1, <1>2 DEF Stamps, Current
  <2>. QED  BY <1>5, <1>7, <2>1 DEF RL!FenceReceipt, RL!FenceReason
<1>. HIDE DEF refused
<1>10. /\ main'[a] = "running" /\ queue'[a] = IF LoopWaits(a) THEN <<"loop">> ELSE <<>>
       /\ lost'[a] = (lost[a] \/ refused)
  BY <1>1, <1>2, <1>3 DEF Typed
<1>11. lost' \in [Sessions -> BOOLEAN]
  BY <1>1, <1>2, <1>8 DEF Typed
<1>12. Typed'
  BY <1>1, <1>2, <1>3, <1>4, <1>6, <1>11 DEF Typed, Queues, MainStates
<1>13. \A s \in Sessions \ {a} : lost'[s] = lost[s]
  BY <1>1, <1>2 DEF Typed
<1>14. Step(a)
  BY <1>1, <1>3, <1>13 DEF Step, RowMoves, HeldMoves, BeatMoves, Framed, Faulted
<1>15. Ledger'
  BY <1>1, <1>4, LedgerExtended
<1>16. Tasking(a)'
  BY <1>1, <1>2, <1>10 DEF Tasking, MainWaits, LoopWaits
<1>17. Token(a)'
  BY <1>1, <1>2, <1>10 DEF Token, Current
<1>18. Stamps(a)'
  BY <1>1, <1>2, <1>10, QueueFacts DEF Stamps, Current
<1>19. Beats(a)'
  BY <1>1, <1>2, <1>10 DEF Beats
<1>20. held[a] > 0
  BY <1>1, <1>2 DEF Token
<1>21. ASSUME lease.epoch = held[a], RL!LiveFor(a, now), refused PROVE FALSE
  BY <1>5, <1>9, <1>20, <1>21 DEF Current, RL!LiveFor
<1>22. ASSUME RL!Holds(a, held[a], stamp[a]["loop"]), refused, loop[a] = "renew" PROVE FALSE
  <2>1. queue[a] = <<"main", "loop">>
    BY <1>3, <1>22 DEF LoopWaits
  <2>2. t <= stamp[a]["loop"]
    BY <1>2, <1>22, <2>1 DEF Stamps
  <2>. QED  BY <1>5, <1>9, <1>20, <1>22, <2>2 DEF Current, RL!Holds, RL!LiveFor
<1>23. Losses(a)'
  <2>. SUFFICES ASSUME ~Faulted(a)
                PROVE  /\ lost'[a] => ~(RL!LiveFor(a, now) /\ lease.epoch = held[a])
                       /\ lost'[a] /\ loop[a] = "renew" => ~RL!Holds(a, held[a], stamp[a]["loop"])
    BY <1>1, <1>10 DEF Losses, Faulted, RL!LiveFor, RL!Holds
  <2>. QED  BY <1>2, <1>10, <1>21, <1>22 DEF Losses
<1>. QED  BY <1>12, <1>14, <1>15, <1>16, <1>17, <1>18, <1>19, <1>23, Compose DEF Private

LEMMA WakeKeeps ==
    ASSUME Inv, NEW a \in Sessions, Wake(a)
    PROVE  Inv' /\ (MovesOn \/ UNCHANGED heartbeat)
<1>1. /\ UNCHANGED <<lease, receipts, heartbeat, now, main, held, lost, fences, beats, faults>>
      /\ loop[a] = "asleep" /\ main[a] # "closing"
  BY DEF Wake
<1>2. TypeOK /\ Typed /\ Tasking(a) /\ Token(a) /\ Stamps(a) /\ Beats(a) /\ Losses(a)
  BY DEF Inv, Private, TypeOK, Typed, Queues
<1>3. /\ main[a] \in {"running", "fence"}
      /\ queue[a] = IF main[a] = "fence" THEN <<"main">> ELSE <<>>
  BY <1>1, <1>2 DEF Tasking, MainWaits, LoopWaits
<1>4. ASSUME loop' = [loop EXCEPT ![a] = "off"], UNCHANGED <<stamp, queue>>
      PROVE  Inv' /\ (MovesOn \/ UNCHANGED heartbeat)
  <2>1. loop'[a] = "off"
    BY <1>2, <1>4 DEF Typed
  <2>2. Typed'
    BY <1>1, <1>2, <1>4 DEF Typed
  <2>3. Step(a)
    BY <1>1, <1>4 DEF Step, RowMoves, HeldMoves, BeatMoves, Framed, Faulted
  <2>4. Ledger'
    BY <1>1, <1>4, <2>3, LedgerStill
  <2>5. Tasking(a)'
    BY <1>1, <1>2, <1>3, <1>4, <2>1 DEF Tasking, MainWaits, LoopWaits
  <2>6. Token(a)'
    BY <1>1, <1>2 DEF Token, Current
  <2>7. Stamps(a)'
    BY <1>1, <1>2, <1>4, <2>1 DEF Stamps, Current
  <2>8. Beats(a)'
    BY <1>1, <1>2, <2>1 DEF Beats
  <2>9. Losses(a)'
    BY <1>1, <1>2, <1>3, <2>1 DEF Losses, Faulted, RL!LiveFor
  <2>. QED  BY <2>2, <2>3, <2>4, <2>5, <2>6, <2>7, <2>8, <2>9, Compose DEF Private
<1>5. ASSUME ~lost[a], loop' = [loop EXCEPT ![a] = "renew"],
             stamp' = [stamp EXCEPT ![a]["loop"] = now],
             queue' = [queue EXCEPT ![a] = Append(queue[a], "loop")]
      PROVE  Inv' /\ (MovesOn \/ UNCHANGED heartbeat)
  <2>. now \in Nat /\ stamp \in [Sessions -> [Tasks -> 0..now]]
    BY <1>2, Clocks DEF Typed
  <2>1. queue' = [queue EXCEPT ![a] = IF main[a] = "fence" THEN <<"main", "loop">> ELSE <<"loop">>]
    BY <1>3, <1>5, QueueFacts
  <2>2. /\ loop'[a] = "renew" /\ stamp'[a]["main"] = stamp[a]["main"] /\ stamp'[a]["loop"] = now
        /\ queue'[a] = IF main[a] = "fence" THEN <<"main", "loop">> ELSE <<"loop">>
    <3>1. stamp'[a]["main"] = stamp[a]["main"] /\ stamp'[a]["loop"] = now
      BY <1>5, ClockRead DEF Tasks
    <3>. QED  BY <1>2, <1>5, <2>1, <3>1 DEF Typed
  <2>3. /\ stamp[a]["main"] \in Nat /\ stamp[a]["main"] <= now /\ now \in Nat
        /\ lease.updated_at <= now
    BY Clocks DEF Inv, Rows, Row, Tasks
  <2>4. Typed'
    <3>1. stamp' \in [Sessions -> [Tasks -> 0..now]]
      BY <1>5, ClockRead DEF Tasks
    <3>. QED  BY <1>1, <1>2, <1>5, <2>1, <3>1 DEF Typed, Queues
  <2>5. Step(a)
    <3>. \A s \in Sessions \ {a} : stamp'[s] = stamp[s]
      BY <1>5, ClockRead DEF Tasks
    <3>. QED  BY <1>1, <1>5, <2>1 DEF Step, RowMoves, HeldMoves, BeatMoves, Framed, Faulted
  <2>6. Ledger'
    BY <1>1, <2>2, <2>5, LedgerStill
  <2>7. Tasking(a)'
    BY <1>1, <1>2, <1>3, <2>2 DEF Tasking, MainWaits, LoopWaits
  <2>8. Token(a)'
    BY <1>1, <1>2 DEF Token, Current
  <2>9. Stamps(a)'
    BY <1>1, <1>2, <1>3, <2>2, <2>3, QueueFacts DEF Stamps, Current
  <2>10. Beats(a)'
    BY <1>1, <1>2, <2>2 DEF Beats
  <2>11. Losses(a)'
    BY <1>1, <1>3, <1>5 DEF Losses
  <2>. QED  BY <2>4, <2>5, <2>6, <2>7, <2>8, <2>9, <2>10, <2>11, Compose DEF Private
<1>. QED  BY <1>4, <1>5 DEF Wake, LoopAt, ReadClock, Submit

(* A renewal leaves the token as it is. *)
LEMMA RenewExtends ==
    ASSUME lease \in RL!Lease, NEW a \in Sessions, NEW t \in Nat, RL!Renew(a, held[a], t)
    PROVE  /\ Extended(a, t) /\ lease'.epoch = lease.epoch /\ lease'.owner = a
           /\ lease.epoch = held[a] /\ lease'.updated_at = t /\ RL!Holds(a, held[a], t)
  BY DEF RL!Renew, Extended, RL!UpdatedLease, RL!Holds, RL!LiveFor

LEMMA RenewKeeps ==
    ASSUME Inv, NEW a \in Sessions, RenewLease(a)
    PROVE  Inv' /\ (MovesOn \/ UNCHANGED heartbeat)
<1>. DEFINE t == stamp[a]["loop"]
<1>1. /\ UNCHANGED <<receipts, heartbeat, now, main, stamp, held, fences, faults>>
      /\ loop[a] = "renew" /\ main[a] # "closing" /\ Served(a, "loop")
  BY DEF RenewLease, RL!Renew
<1>2. TypeOK /\ Typed /\ Tasking(a) /\ Token(a) /\ Stamps(a) /\ Beats(a) /\ Losses(a)
  BY DEF Inv, Private, TypeOK, Typed, Queues
<1>3. /\ main[a] \in {"running", "fence"}
      /\ queue[a] = IF main[a] = "fence" THEN <<"loop", "main">> ELSE <<"loop">>
  BY <1>1, <1>2, QueueFacts DEF Tasking, MainWaits, LoopWaits, Served
<1>4. /\ t \in Nat /\ t \in 0..now /\ t <= now /\ now \in Nat /\ held[a] > 0
      /\ lease \in RL!Lease /\ Row /\ lease.expires_at \in Nat /\ lease.epoch \in Nat
      /\ beats[a] \in Nat /\ heartbeat.sequence \in Nat
      /\ Current(a) => lease.updated_at <= t
      /\ main[a] = "fence" => t <= stamp[a]["main"]
  <2>1. t \in Nat /\ t \in 0..now /\ t <= now /\ now \in Nat /\ beats[a] \in Nat
    BY <1>2, Clocks DEF Tasks
  <2>2. /\ lease \in RL!Lease /\ Row /\ lease.expires_at \in Nat /\ lease.epoch \in Nat
        /\ heartbeat.sequence \in Nat
    BY <1>2, Columns DEF Inv, Rows, TypeOK
  <2>3. held[a] > 0
    BY <1>2, <1>3 DEF Token
  <2>. QED  BY <1>1, <1>2, <1>3, <2>1, <2>2, <2>3 DEF Stamps
<1>5. ASSUME RL!Renew(a, held[a], t), beats' = [beats EXCEPT ![a] = beats[a] + 1],
             loop' = [loop EXCEPT ![a] = "beat"], lost' = lost,
             queue' = [queue EXCEPT ![a] = Append(Tail(queue[a]), "loop")]
      PROVE  Inv' /\ (MovesOn \/ UNCHANGED heartbeat)
  <2>1. queue' = [queue EXCEPT ![a] = IF main[a] = "fence" THEN <<"main", "loop">> ELSE <<"loop">>]
    BY <1>3, <1>5, QueueFacts
  <2>2. /\ loop'[a] = "beat" /\ beats'[a] = beats[a] + 1
        /\ queue'[a] = IF main[a] = "fence" THEN <<"main", "loop">> ELSE <<"loop">>
    BY <1>2, <1>5, <2>1 DEF Typed
  <2>3. /\ Extended(a, t) /\ lease'.epoch = lease.epoch /\ lease'.owner = a
        /\ lease.epoch = held[a] /\ lease'.updated_at = t /\ RL!Holds(a, held[a], t)
    BY <1>4, <1>5, RenewExtends
  <2>4. Typed'
    <3>. beats' \in [Sessions -> Nat]
      BY <1>2, <1>4, <1>5 DEF Typed
    <3>. QED  BY <1>1, <1>2, <1>5, <2>1 DEF Typed, Queues
  <2>5. RowMoves(a)
    BY <1>4, <2>3 DEF RowMoves
  <2>6. Step(a)
    BY <1>1, <1>5, <2>1, <2>5 DEF Step, HeldMoves, BeatMoves, Framed, Faulted
  <2>7. Ledger'
    BY <1>1, <2>6, LedgerStill
  <2>8. Tasking(a)'
    BY <1>1, <1>2, <1>3, <2>2 DEF Tasking, MainWaits, LoopWaits
  <2>9. Token(a)'
    BY <1>1, <1>2, <1>3, <1>4, <1>5, <2>3 DEF Token, Current
  <2>10. Stamps(a)'
    BY <1>1, <1>3, <1>4, <2>2, <2>3 DEF Stamps
  <2>11. Beats(a)'
    BY <1>1, <1>2, <1>4, <2>2 DEF Beats
  <2>12. ~Faulted(a) => ~lost[a]
    BY <1>1, <1>2, <2>3 DEF Losses
  <2>13. Losses(a)'
    BY <1>1, <1>3, <1>5, <2>12 DEF Losses, Faulted
  <2>. QED  BY <2>4, <2>6, <2>7, <2>8, <2>9, <2>10, <2>11, <2>13, Compose DEF Private
<1>6. ASSUME ~RL!Holds(a, held[a], t), UNCHANGED <<lease, beats>>,
             loop' = [loop EXCEPT ![a] = "off"], lost' = [lost EXCEPT ![a] = TRUE],
             queue' = [queue EXCEPT ![a] = Tail(queue[a])]
      PROVE  Inv' /\ (MovesOn \/ UNCHANGED heartbeat)
  <2>1. queue' = [queue EXCEPT ![a] = IF main[a] = "fence" THEN <<"main">> ELSE <<>>]
    BY <1>3, <1>6, QueueFacts
  <2>2. loop'[a] = "off" /\ queue'[a] = IF main[a] = "fence" THEN <<"main">> ELSE <<>>
    BY <1>2, <1>6, <2>1 DEF Typed
  <2>3. Typed'
    BY <1>1, <1>2, <1>6, <2>1 DEF Typed, Queues
  <2>4. Step(a)
    BY <1>1, <1>6, <2>1 DEF Step, RowMoves, HeldMoves, BeatMoves, Framed, Faulted
  <2>5. Ledger'
    BY <1>1, <2>4, LedgerStill
  <2>6. Tasking(a)'
    BY <1>1, <1>2, <1>3, <2>2 DEF Tasking, MainWaits, LoopWaits
  <2>7. Token(a)'
    BY <1>1, <1>2, <1>3, <1>6 DEF Token, Current
  <2>8. Stamps(a)'
    BY <1>1, <1>2, <1>3, <1>6, <2>2 DEF Stamps, Current
  <2>9. Beats(a)'
    BY <1>1, <1>2, <1>6, <2>2 DEF Beats
  <2>10. ~(RL!LiveFor(a, now) /\ lease.epoch = held[a])
    BY <1>4, <1>6 DEF RL!Holds, RL!LiveFor, Current
  <2>11. Losses(a)'
    BY <1>1, <1>6, <2>2, <2>10 DEF Losses, RL!LiveFor
  <2>. QED  BY <2>3, <2>4, <2>5, <2>6, <2>7, <2>8, <2>9, <2>11, Compose DEF Private
<1>. QED  BY <1>5, <1>6 DEF RenewLease, LoopAt, NextBeat, Resubmit, MarkLost, Done

LEMMA RenewBeatKeeps ==
    ASSUME Inv, NEW a \in Sessions, RenewHeartbeat(a)
    PROVE  Inv' /\ (MovesOn \/ UNCHANGED heartbeat)
<1>. DEFINE t == stamp[a]["loop"]
            b == Beat(a, "running", t)
<1>1. /\ UNCHANGED <<lease, receipts, now, main, stamp, held, fences, beats, faults>>
      /\ loop[a] = "beat" /\ main[a] # "closing" /\ Served(a, "loop")
      /\ queue' = [queue EXCEPT ![a] = Tail(queue[a])]
  BY DEF RenewHeartbeat, Done
<1>2. TypeOK /\ Typed /\ Tasking(a) /\ Token(a) /\ Stamps(a) /\ Beats(a) /\ Losses(a)
  BY DEF Inv, Private, TypeOK, Typed, Queues
<1>3. /\ main[a] \in {"running", "fence"}
      /\ queue[a] = IF main[a] = "fence" THEN <<"loop", "main">> ELSE <<"loop">>
  BY <1>1, <1>2, QueueFacts DEF Tasking, MainWaits, LoopWaits, Served
<1>4. queue' = [queue EXCEPT ![a] = IF main[a] = "fence" THEN <<"main">> ELSE <<>>]
  BY <1>1, <1>3, QueueFacts
<1>5. /\ t \in Nat /\ t \in 0..now /\ t <= lease.updated_at /\ held[a] > 0
      /\ Current(a) => lease.updated_at <= t
  <2>1. t \in Nat /\ t \in 0..now
    BY <1>2, Clocks DEF Tasks
  <2>. QED  BY <1>1, <1>2, <1>3, <2>1 DEF Stamps, Token
<1>6. queue'[a] = IF main[a] = "fence" THEN <<"main">> ELSE <<>>
  BY <1>2, <1>4 DEF Typed
<1>7. ASSUME Advances(b), heartbeat' = b, loop' = [loop EXCEPT ![a] = "asleep"], lost' = lost
      PROVE  Inv' /\ (MovesOn \/ UNCHANGED heartbeat)
  <2>1. loop'[a] = "asleep"
    BY <1>2, <1>7 DEF Typed
  <2>2. Typed'
    BY <1>1, <1>2, <1>4, <1>7 DEF Typed, Queues
  <2>3. BeatMoves(a)
    BY <1>1, <1>3, <1>5, <1>7 DEF BeatMoves
  <2>4. Step(a)
    BY <1>1, <1>4, <1>7, <2>3 DEF Step, RowMoves, HeldMoves, Framed, Faulted
  <2>5. Ledger'
    BY <1>1, <2>4, LedgerStill
  <2>6. Tasking(a)'
    BY <1>1, <1>2, <1>3, <1>6, <2>1 DEF Tasking, MainWaits, LoopWaits
  <2>7. Token(a)'
    BY <1>1, <1>2, <1>7 DEF Token, Current
  <2>8. Stamps(a)'
    BY <1>1, <1>2, <1>3, <2>1 DEF Stamps, Current
  <2>9. heartbeat'.instance = a /\ heartbeat'.sequence = beats[a] /\ heartbeat'.phase = "running"
    BY <1>7 DEF Beat
  <2>10. Beats(a)'
    BY <1>1, <1>2, <1>3, <2>1, <2>9 DEF Beats, Typed
  <2>11. Losses(a)'
    BY <1>1, <1>2, <1>7, <2>1 DEF Losses, Faulted, RL!LiveFor
  <2>. QED  BY <2>2, <2>4, <2>5, <2>6, <2>7, <2>8, <2>10, <2>11, Compose DEF Private
<1>8. ASSUME ~Advances(b), heartbeat' = heartbeat, loop' = [loop EXCEPT ![a] = "off"],
             lost' = [lost EXCEPT ![a] = TRUE]
      PROVE  Inv' /\ (MovesOn \/ UNCHANGED heartbeat)
  <2>1. loop'[a] = "off"
    BY <1>2, <1>8 DEF Typed
  <2>2. Typed'
    BY <1>1, <1>2, <1>4, <1>8 DEF Typed, Queues
  <2>3. Step(a)
    BY <1>1, <1>4, <1>8 DEF Step, RowMoves, HeldMoves, BeatMoves, Framed, Faulted
  <2>4. Ledger'
    BY <1>1, <2>3, LedgerStill
  <2>5. Tasking(a)'
    BY <1>1, <1>2, <1>3, <1>6, <2>1 DEF Tasking, MainWaits, LoopWaits
  <2>6. Token(a)'
    BY <1>1, <1>2, <1>3, <1>8 DEF Token, Current
  <2>7. Stamps(a)'
    BY <1>1, <1>2, <1>3, <2>1 DEF Stamps, Current
  <2>8. Beats(a)'
    BY <1>1, <1>2, <1>8, <2>1 DEF Beats
  <2>9. ~Current(a)
    BY <1>1, <1>5, <1>8, OwnBeatAdvances
  <2>10. Losses(a)'
    BY <1>1, <1>5, <2>1, <2>9 DEF Losses, Current
  <2>. QED  BY <2>2, <2>3, <2>4, <2>5, <2>6, <2>7, <2>8, <2>10, Compose DEF Private
<1>. QED  BY <1>7, <1>8 DEF RenewHeartbeat, LoopAt, MarkLost

LEMMA CloseKeeps ==
    ASSUME Inv, NEW a \in Sessions, Close(a)
    PROVE  Inv' /\ (MovesOn \/ UNCHANGED heartbeat)
<1>1. /\ UNCHANGED <<lease, receipts, heartbeat, now, loop, stamp, queue, held, lost,
                     fences, beats, faults>>
      /\ main[a] = "running" /\ main' = [main EXCEPT ![a] = "closing"]
  BY DEF Close, MainAt
<1>2. TypeOK /\ Typed /\ Tasking(a) /\ Token(a) /\ Stamps(a) /\ Beats(a) /\ Losses(a)
  BY DEF Inv, Private, TypeOK, Typed, Queues
<1>3. main'[a] = "closing"
  BY <1>1, <1>2 DEF Typed
<1>4. Typed'
  BY <1>1, <1>2 DEF Typed, Queues, MainStates
<1>5. Step(a)
  BY <1>1 DEF Step, RowMoves, HeldMoves, BeatMoves, Framed, Faulted
<1>6. Ledger'
  BY <1>1, <1>5, LedgerStill
<1>7. Tasking(a)'
  BY <1>1, <1>2, <1>3 DEF Tasking, MainWaits, LoopWaits
<1>8. Token(a)'
  BY <1>1, <1>2, <1>3 DEF Token, Current
<1>9. Stamps(a)'
  BY <1>1, <1>2, <1>3 DEF Stamps, Current
<1>10. Beats(a)'
  BY <1>1, <1>2, <1>3 DEF Beats
<1>11. Losses(a)'
  BY <1>1, <1>2, <1>3 DEF Losses, Faulted, RL!LiveFor, RL!Holds
<1>. QED  BY <1>4, <1>5, <1>6, <1>7, <1>8, <1>9, <1>10, <1>11, Compose DEF Private

(* The cancelled keepalive writes nothing, or one row of a live owner.     *)
LEMMA KeepaliveEndsKeeps ==
    ASSUME Inv, NEW a \in Sessions, KeepaliveEnds(a)
    PROVE  Inv' /\ (MovesOn \/ UNCHANGED heartbeat)
<1>. DEFINE t == stamp[a]["loop"]
            b == Beat(a, "running", t)
<1>1. /\ UNCHANGED <<receipts, now, main, stamp, held, lost, fences, beats, faults>>
      /\ main[a] = "closing" /\ loop[a] # "off" /\ loop' = [loop EXCEPT ![a] = "off"]
      /\ queue' = [queue EXCEPT ![a] = <<>>]
  BY DEF KeepaliveEnds, LoopAt, Withdrawn, RL!Renew
<1>2. TypeOK /\ Typed /\ Tasking(a) /\ Token(a) /\ Stamps(a) /\ Beats(a) /\ Losses(a)
  BY DEF Inv, Private, TypeOK, Typed, Queues
<1>3. loop'[a] = "off" /\ queue'[a] = <<>>
  BY <1>1, <1>2 DEF Typed
<1>4. t \in Nat /\ t \in 0..now /\ t <= now /\ now \in Nat /\ held[a] > 0 /\ lease \in RL!Lease
  BY <1>1, <1>2, Clocks DEF Tasks, Token, TypeOK
<1>5. Tasking(a)'
  BY <1>1, <1>3 DEF Tasking, MainWaits, LoopWaits
<1>6. ASSUME UNCHANGED <<lease, heartbeat>>
      PROVE  Inv' /\ (MovesOn \/ UNCHANGED heartbeat)
  <2>1. Typed'
    BY <1>1, <1>2, <1>6 DEF Typed, Queues
  <2>2. Step(a)
    BY <1>1, <1>6 DEF Step, RowMoves, HeldMoves, BeatMoves, Framed, Faulted
  <2>3. Ledger'
    BY <1>1, <2>2, LedgerStill
  <2>4. Token(a)'
    BY <1>1, <1>2, <1>6 DEF Token, Current
  <2>5. Stamps(a)'
    BY <1>1, <1>3 DEF Stamps
  <2>6. Beats(a)'
    BY <1>1, <1>2, <1>3, <1>6 DEF Beats
  <2>7. Losses(a)'
    BY <1>1, <1>2, <1>3, <1>6 DEF Losses, Faulted, RL!LiveFor
  <2>. QED  BY <1>5, <2>1, <2>2, <2>3, <2>4, <2>5, <2>6, <2>7, Compose DEF Private
<1>7. ASSUME loop[a] = "renew", RL!Renew(a, held[a], t), heartbeat' = heartbeat
      PROVE  Inv' /\ (MovesOn \/ UNCHANGED heartbeat)
  <2>1. /\ Extended(a, t) /\ lease'.epoch = lease.epoch /\ lease'.owner = a
        /\ lease.epoch = held[a] /\ RL!Holds(a, held[a], t)
    BY <1>4, <1>7, RenewExtends
  <2>2. Typed'
    BY <1>1, <1>2, <1>7 DEF Typed, Queues
  <2>3. RowMoves(a)
    BY <1>4, <2>1 DEF RowMoves
  <2>4. Step(a)
    BY <1>1, <1>7, <2>3 DEF Step, HeldMoves, BeatMoves, Framed, Faulted
  <2>5. Ledger'
    BY <1>1, <2>4, LedgerStill
  <2>6. Token(a)'
    BY <1>1, <1>2, <2>1 DEF Token, Current
  <2>7. Stamps(a)'
    BY <1>1, <1>3 DEF Stamps
  <2>8. Beats(a)'
    BY <1>1, <1>2, <1>3, <1>7 DEF Beats
  <2>9. ~Faulted(a) => ~lost[a]
    BY <1>2, <1>7, <2>1 DEF Losses
  <2>10. Losses(a)'
    BY <1>1, <1>3, <2>9 DEF Losses, Faulted
  <2>. QED  BY <1>5, <2>2, <2>4, <2>5, <2>6, <2>7, <2>8, <2>10, Compose DEF Private
<1>8. ASSUME loop[a] = "beat", Advances(b), heartbeat' = b, lease' = lease
      PROVE  Inv' /\ (MovesOn \/ UNCHANGED heartbeat)
  <2>1. Typed'
    BY <1>1, <1>2, <1>8 DEF Typed, Queues
  <2>2. t <= lease.updated_at
    BY <1>2, <1>8 DEF Stamps
  <2>3. BeatMoves(a)
    BY <1>1, <1>4, <1>8, <2>2 DEF BeatMoves
  <2>4. Step(a)
    BY <1>1, <1>8, <2>3 DEF Step, RowMoves, HeldMoves, Framed, Faulted
  <2>5. Ledger'
    BY <1>1, <2>4, LedgerStill
  <2>6. Token(a)'
    BY <1>1, <1>2, <1>8 DEF Token, Current
  <2>7. Stamps(a)'
    BY <1>1, <1>3 DEF Stamps
  <2>8. heartbeat'.instance = a /\ heartbeat'.sequence = beats[a] /\ heartbeat'.phase = "running"
    BY <1>8 DEF Beat
  <2>9. Beats(a)'
    BY <1>1, <1>2, <1>3, <2>8 DEF Beats, Typed
  <2>10. Losses(a)'
    BY <1>1, <1>2, <1>3, <1>8 DEF Losses, Faulted, RL!LiveFor
  <2>. QED  BY <1>5, <2>1, <2>4, <2>5, <2>6, <2>7, <2>9, <2>10, Compose DEF Private
<1>9. \/ UNCHANGED <<lease, heartbeat>>
      \/ loop[a] = "renew" /\ RL!Renew(a, held[a], t) /\ heartbeat' = heartbeat
      \/ loop[a] = "beat" /\ Advances(b) /\ heartbeat' = b /\ lease' = lease
  BY DEF KeepaliveEnds
<1>. QED  BY <1>6, <1>7, <1>8, <1>9

LEMMA GiveUpKeeps ==
    ASSUME Inv, NEW a \in Sessions, GiveUp(a)
    PROVE  Inv' /\ (MovesOn \/ UNCHANGED heartbeat)
<1>1. /\ UNCHANGED <<lease, receipts, heartbeat, now, loop, held, lost, fences, beats, faults>>
      /\ main[a] = "closing" /\ loop[a] = "off"
  BY DEF GiveUp
<1>2. TypeOK /\ Typed /\ Tasking(a) /\ Token(a) /\ Stamps(a) /\ Beats(a) /\ Losses(a)
  BY DEF Inv, Private, TypeOK, Typed, Queues
<1>3. /\ loop'[a] = "off" /\ now \in Nat /\ stamp \in [Sessions -> [Tasks -> 0..now]]
      /\ queue[a] = <<>>
  BY <1>1, <1>2, Clocks DEF Typed, Tasking, MainWaits, LoopWaits
<1>4. ASSUME main' = [main EXCEPT ![a] = "done"], UNCHANGED <<stamp, queue>>
      PROVE  Inv' /\ (MovesOn \/ UNCHANGED heartbeat)
  <2>1. main'[a] = "done" /\ queue'[a] = <<>>
    BY <1>2, <1>3, <1>4 DEF Typed
  <2>2. Typed'
    BY <1>1, <1>2, <1>4 DEF Typed, Queues, MainStates
  <2>3. Step(a)
    BY <1>1, <1>4 DEF Step, RowMoves, HeldMoves, BeatMoves, Framed, Faulted
  <2>4. Ledger'
    BY <1>1, <1>4, <2>3, LedgerStill
  <2>5. Tasking(a)'
    BY <1>3, <2>1 DEF Tasking, MainWaits, LoopWaits
  <2>6. Token(a)'
    BY <1>1, <1>2, <2>1 DEF Token, Current
  <2>7. Stamps(a)'
    BY <1>3, <2>1 DEF Stamps
  <2>8. Beats(a)'
    BY <1>1, <1>2, <1>3, <2>1 DEF Beats
  <2>9. Losses(a)'
    BY <1>1, <1>2, <1>3, <2>1 DEF Losses, Faulted, RL!LiveFor
  <2>. QED  BY <2>2, <2>3, <2>4, <2>5, <2>6, <2>7, <2>8, <2>9, Compose DEF Private
<1>5. ASSUME main' = [main EXCEPT ![a] = "release"], ~lost[a],
             stamp' = [stamp EXCEPT ![a]["main"] = now],
             queue' = [queue EXCEPT ![a] = Append(queue[a], "main")]
      PROVE  Inv' /\ (MovesOn \/ UNCHANGED heartbeat)
  <2>1. queue' = [queue EXCEPT ![a] = <<"main">>]
    BY <1>3, <1>5, QueueFacts
  <2>2. /\ main'[a] = "release" /\ queue'[a] = <<"main">> /\ stamp'[a]["main"] = now
        /\ stamp' \in [Sessions -> [Tasks -> 0..now]]
        /\ \A s \in Sessions \ {a} : stamp'[s] = stamp[s]
    <3>1. /\ stamp'[a]["main"] = now /\ stamp' \in [Sessions -> [Tasks -> 0..now]]
          /\ \A s \in Sessions \ {a} : stamp'[s] = stamp[s]
      BY <1>3, <1>5, ClockRead DEF Tasks
    <3>. QED  BY <1>2, <1>5, <2>1, <3>1 DEF Typed
  <2>3. /\ stamp[a]["main"] \in Nat /\ stamp[a]["main"] <= now /\ lease.updated_at <= now
    BY Clocks DEF Inv, Rows, Row, Tasks
  <2>4. Typed'
    BY <1>1, <1>2, <1>5, <2>1, <2>2 DEF Typed, Queues, MainStates
  <2>5. Step(a)
    BY <1>1, <1>5, <2>1, <2>2 DEF Step, RowMoves, HeldMoves, BeatMoves, Framed, Faulted
  <2>6. Ledger'
    BY <1>1, <1>3, <2>2, <2>3, <2>5, LedgerKept
  <2>7. Tasking(a)'
    BY <1>3, <2>2 DEF Tasking, MainWaits, LoopWaits
  <2>8. Token(a)'
    BY <1>1, <1>2, <2>2 DEF Token, Current
  <2>9. Stamps(a)'
    BY <1>1, <1>3, <2>2, <2>3 DEF Stamps
  <2>10. Beats(a)'
    BY <1>1, <1>2, <1>3, <2>2 DEF Beats
  <2>11. Losses(a)'
    BY <1>1, <1>5, <2>2 DEF Losses
  <2>. QED  BY <2>4, <2>5, <2>6, <2>7, <2>8, <2>9, <2>10, <2>11, Compose DEF Private
<1>. QED  BY <1>4, <1>5 DEF GiveUp, MainAt, ReadClock, Submit

LEMMA ReleaseKeeps ==
    ASSUME Inv, NEW a \in Sessions, ReleaseLease(a)
    PROVE  Inv' /\ (MovesOn \/ UNCHANGED heartbeat)
<1>. DEFINE t == stamp[a]["main"]
<1>1. /\ UNCHANGED <<receipts, heartbeat, now, loop, stamp, held, lost, fences, faults>>
      /\ main[a] = "release"
  BY DEF ReleaseLease, RL!Release
<1>2. TypeOK /\ Typed /\ Tasking(a) /\ Token(a) /\ Stamps(a) /\ Beats(a) /\ Losses(a)
  BY DEF Inv, Private, TypeOK, Typed, Queues
<1>3. loop[a] = "off" /\ queue[a] = <<"main">> /\ held[a] > 0
  BY <1>1, <1>2 DEF Tasking, MainWaits, LoopWaits, Token
<1>4. /\ t \in Nat /\ t \in 0..now /\ beats[a] \in Nat /\ heartbeat.sequence \in Nat
      /\ lease \in RL!Lease /\ lease.epoch \in Nat
  BY <1>2, Clocks, Columns DEF TypeOK, Tasks
<1>5. ASSUME RL!Release(a, held[a], t), beats' = [beats EXCEPT ![a] = beats[a] + 1],
             main' = [main EXCEPT ![a] = "last_beat"],
             queue' = [queue EXCEPT ![a] = Append(Tail(queue[a]), "main")]
      PROVE  Inv' /\ (MovesOn \/ UNCHANGED heartbeat)
  <2>1. queue' = [queue EXCEPT ![a] = <<"main">>]
    BY <1>3, <1>5, QueueFacts
  <2>2. main'[a] = "last_beat" /\ queue'[a] = <<"main">> /\ beats'[a] = beats[a] + 1
    BY <1>2, <1>5, <2>1 DEF Typed
  <2>3. /\ Ended(a, t) /\ lease'.epoch = lease.epoch /\ lease'.owner = a
        /\ lease'.updated_at = t /\ lease'.state = "released"
    <3>1. Ended(a, t)
      BY <1>5, ReleaseEnds
    <3>. QED  BY <3>1 DEF Ended, RL!UpdatedLease, RL!Holds, RL!LiveFor
  <2>4. Typed'
    <3>. beats' \in [Sessions -> Nat]
      BY <1>2, <1>4, <1>5 DEF Typed
    <3>. QED  BY <1>1, <1>2, <1>5, <2>1 DEF Typed, Queues, MainStates
  <2>5. RowMoves(a)
    BY <1>4, <2>3 DEF RowMoves
  <2>6. Step(a)
    BY <1>1, <1>5, <2>1, <2>5 DEF Step, HeldMoves, BeatMoves, Framed, Faulted
  <2>7. Ledger'
    BY <1>1, <2>6, LedgerStill
  <2>8. Tasking(a)'
    BY <1>1, <1>3, <2>2 DEF Tasking, MainWaits, LoopWaits
  <2>9. Token(a)'
    BY <1>1, <1>2, <1>3, <2>2, <2>3 DEF Token, Current
  <2>10. Stamps(a)'
    BY <1>1, <1>3, <1>4, <2>2, <2>3 DEF Stamps
  <2>11. Beats(a)'
    BY <1>1, <1>2, <1>4, <2>2 DEF Beats
  <2>12. Losses(a)'
    BY <1>1, <1>3, <2>3 DEF Losses, RL!LiveFor
  <2>. QED  BY <2>4, <2>6, <2>7, <2>8, <2>9, <2>10, <2>11, <2>12, Compose DEF Private
<1>6. ASSUME UNCHANGED <<lease, beats>>, main' = [main EXCEPT ![a] = "done"],
             queue' = [queue EXCEPT ![a] = Tail(queue[a])]
      PROVE  Inv' /\ (MovesOn \/ UNCHANGED heartbeat)
  <2>1. queue' = [queue EXCEPT ![a] = <<>>]
    BY <1>3, <1>6, QueueFacts
  <2>2. main'[a] = "done" /\ queue'[a] = <<>>
    BY <1>2, <1>6, <2>1 DEF Typed
  <2>3. Typed'
    BY <1>1, <1>2, <1>6, <2>1 DEF Typed, Queues, MainStates
  <2>4. Step(a)
    BY <1>1, <1>6, <2>1 DEF Step, RowMoves, HeldMoves, BeatMoves, Framed, Faulted
  <2>5. Ledger'
    BY <1>1, <2>4, LedgerStill
  <2>6. Tasking(a)'
    BY <1>1, <1>3, <2>2 DEF Tasking, MainWaits, LoopWaits
  <2>7. Token(a)'
    BY <1>1, <1>2, <1>6, <2>2 DEF Token, Current
  <2>8. Stamps(a)'
    BY <1>1, <1>3, <2>2 DEF Stamps
  <2>9. Beats(a)'
    BY <1>1, <1>2, <1>3, <1>6, <2>2 DEF Beats
  <2>10. Losses(a)'
    BY <1>1, <1>2, <1>3, <1>6, <2>2 DEF Losses, Faulted, RL!LiveFor
  <2>. QED  BY <2>3, <2>4, <2>5, <2>6, <2>7, <2>8, <2>9, <2>10, Compose DEF Private
<1>. QED  BY <1>5, <1>6 DEF ReleaseLease, MainAt, NextBeat, Resubmit, Done

LEMMA LastBeatKeeps ==
    ASSUME Inv, NEW a \in Sessions, LastHeartbeat(a)
    PROVE  Inv' /\ (MovesOn \/ UNCHANGED heartbeat)
<1>. DEFINE t == stamp[a]["main"]
            b == Beat(a, "stopped", t)
<1>1. /\ UNCHANGED <<lease, receipts, now, loop, stamp, held, lost, fences, beats, faults>>
      /\ main[a] = "last_beat" /\ main' = [main EXCEPT ![a] = "done"]
      /\ queue' = [queue EXCEPT ![a] = Tail(queue[a])]
      /\ (Advances(b) /\ heartbeat' = b) \/ heartbeat' = heartbeat
  BY DEF LastHeartbeat, MainAt, Done
<1>2. TypeOK /\ Typed /\ Tasking(a) /\ Token(a) /\ Stamps(a) /\ Beats(a) /\ Losses(a)
  BY DEF Inv, Private, TypeOK, Typed, Queues
<1>3. /\ loop[a] = "off" /\ queue[a] = <<"main">> /\ held[a] > 0
      /\ Current(a) => lease.state = "released"
  BY <1>1, <1>2 DEF Tasking, MainWaits, LoopWaits, Token
<1>4. t \in 0..now /\ t <= lease.updated_at
  BY <1>1, <1>2, Clocks DEF Tasks, Stamps
<1>5. queue' = [queue EXCEPT ![a] = <<>>]
  BY <1>1, <1>3, QueueFacts
<1>6. main'[a] = "done" /\ queue'[a] = <<>>
  BY <1>1, <1>2, <1>5 DEF Typed
<1>7. Typed'
  BY <1>1, <1>2, <1>5 DEF Typed, Queues, MainStates
<1>8. BeatMoves(a)
  <2>1. CASE heartbeat' = heartbeat
    BY <2>1 DEF BeatMoves
  <2>2. CASE Advances(b) /\ heartbeat' = b
    BY <1>1, <1>3, <1>4, <2>2 DEF BeatMoves
  <2>. QED  BY <1>1, <2>1, <2>2
<1>9. Step(a)
  BY <1>1, <1>5, <1>8 DEF Step, RowMoves, HeldMoves, Framed, Faulted
<1>10. Ledger'
  BY <1>1, <1>9, LedgerStill
<1>11. Tasking(a)'
  BY <1>1, <1>3, <1>6 DEF Tasking, MainWaits, LoopWaits
<1>12. Token(a)'
  BY <1>1, <1>2, <1>6 DEF Token, Current
<1>13. Stamps(a)'
  BY <1>1, <1>3, <1>6 DEF Stamps
<1>14. b.instance = a /\ b.sequence = beats[a] /\ beats[a] \in Nat
  BY <1>2 DEF Beat, Typed
<1>. HIDE DEF b
<1>15. Beats(a)'
  BY <1>1, <1>2, <1>3, <1>6, <1>14 DEF Beats
<1>16. Losses(a)'
  BY <1>1, <1>2, <1>3, <1>6 DEF Losses, Faulted, RL!LiveFor
<1>. QED  BY <1>7, <1>9, <1>10, <1>11, <1>12, <1>13, <1>15, <1>16, Compose DEF Private

(* A failed operation of the executor: nothing reaches the rows. *)
LEMMA MainFailureKeeps ==
    ASSUME Inv, NEW a \in Sessions, MainStoreFails(a)
    PROVE  Inv' /\ (MovesOn \/ UNCHANGED heartbeat)
<1>1. /\ UNCHANGED <<lease, receipts, heartbeat, now, loop, stamp, fences, beats>>
      /\ faults' = Append(faults, a) /\ Len(faults) < MaxFaults /\ Served(a, "main")
  BY DEF MainStoreFails
<1>2. TypeOK /\ Typed /\ Tasking(a) /\ Token(a) /\ Stamps(a) /\ Beats(a) /\ Losses(a)
  BY DEF Inv, Private, TypeOK, Typed, Queues
<1>3. /\ faults' \in Seq(Sessions) /\ Len(faults') <= MaxFaults /\ Faulted(a)'
      /\ \A s \in Sessions \ {a} : Faulted(s)' <=> Faulted(s)
  <2>1. faults \in Seq(Sessions) /\ Len(faults) \in Nat /\ MaxFaults \in Nat
    BY <1>2, BoundsAssumption DEF Typed
  <2>. QED  BY <1>1, <2>1, FaultRecorded
<1>4. Losses(a)'
  BY <1>3 DEF Losses
<1>5. ASSUME Typed', Framed(a), held'[a] \in {held[a], 0}, Tasking(a)', Token(a)', Stamps(a)',
             Beats(a)'
      PROVE  Inv' /\ (MovesOn \/ UNCHANGED heartbeat)
  <2>1. Step(a)
    BY <1>1, <1>5 DEF Step, RowMoves, HeldMoves, BeatMoves
  <2>2. Ledger'
    BY <1>1, <2>1, LedgerStill
  <2>. QED  BY <1>4, <1>5, <2>1, <2>2, Compose DEF Private
<1>6. ASSUME main[a] \in {"acquire", "release", "last_beat"}, UNCHANGED <<held, lost>>,
             main' = [main EXCEPT ![a] = "done"], queue' = [queue EXCEPT ![a] = Tail(queue[a])]
      PROVE  Inv' /\ (MovesOn \/ UNCHANGED heartbeat)
  <2>1. loop[a] = "off" /\ queue' = [queue EXCEPT ![a] = <<>>]
    BY <1>2, <1>6, QueueFacts DEF Tasking, MainWaits, LoopWaits
  <2>2. main'[a] = "done" /\ queue'[a] = <<>>
    BY <1>2, <1>6, <2>1 DEF Typed
  <2>3. Typed' /\ Framed(a)
    BY <1>1, <1>2, <1>3, <1>6, <2>1 DEF Typed, Queues, MainStates, Framed
  <2>4. Tasking(a)'
    BY <1>1, <2>1, <2>2 DEF Tasking, MainWaits, LoopWaits
  <2>5. Token(a)'
    BY <1>1, <1>2, <1>6, <2>2 DEF Token, Current
  <2>6. Stamps(a)'
    BY <1>1, <2>1, <2>2 DEF Stamps
  <2>7. Beats(a)'
    BY <1>1, <1>2, <1>6, <2>1, <2>2 DEF Beats
  <2>. QED  BY <1>5, <1>6, <2>3, <2>4, <2>5, <2>6, <2>7
<1>7. ASSUME main[a] = "first_beat", UNCHANGED <<held, lost>>,
             main' = [main EXCEPT ![a] = "undo"],
             queue' = [queue EXCEPT ![a] = Append(Tail(queue[a]), "main")]
      PROVE  Inv' /\ (MovesOn \/ UNCHANGED heartbeat)
  <2>1. loop[a] = "off" /\ queue' = [queue EXCEPT ![a] = <<"main">>]
    BY <1>2, <1>7, QueueFacts DEF Tasking, MainWaits, LoopWaits
  <2>2. main'[a] = "undo" /\ queue'[a] = <<"main">>
    BY <1>2, <1>7, <2>1 DEF Typed
  <2>3. Typed' /\ Framed(a)
    BY <1>1, <1>2, <1>3, <1>7, <2>1 DEF Typed, Queues, MainStates, Framed
  <2>4. Tasking(a)'
    BY <1>1, <2>1, <2>2 DEF Tasking, MainWaits, LoopWaits
  <2>5. Token(a)'
    BY <1>1, <1>2, <1>7, <2>2 DEF Token, Current
  <2>6. Stamps(a)'
    BY <1>1, <2>1, <2>2 DEF Stamps
  <2>7. Beats(a)'
    BY <1>1, <1>2, <1>7, <2>1, <2>2 DEF Beats
  <2>. QED  BY <1>5, <1>7, <2>3, <2>4, <2>5, <2>6, <2>7
<1>8. ASSUME main[a] = "undo", held' = [held EXCEPT ![a] = 0], lost' = [lost EXCEPT ![a] = TRUE],
             main' = [main EXCEPT ![a] = "done"], queue' = [queue EXCEPT ![a] = Tail(queue[a])]
      PROVE  Inv' /\ (MovesOn \/ UNCHANGED heartbeat)
  <2>1. loop[a] = "off" /\ queue' = [queue EXCEPT ![a] = <<>>]
    BY <1>2, <1>8, QueueFacts DEF Tasking, MainWaits, LoopWaits
  <2>2. main'[a] = "done" /\ queue'[a] = <<>> /\ held'[a] = 0
    BY <1>2, <1>8, <2>1 DEF Typed
  <2>3. Typed' /\ Framed(a)
    BY <1>1, <1>2, <1>3, <1>8, <2>1 DEF Typed, Queues, MainStates, Framed
  <2>4. Tasking(a)'
    BY <1>1, <2>1, <2>2 DEF Tasking, MainWaits, LoopWaits
  <2>5. lease.epoch \in Nat
    BY <1>2, Columns DEF TypeOK
  <2>6. Token(a)'
    BY <1>1, <2>2, <2>5 DEF Token, Current
  <2>7. Stamps(a)'
    BY <1>1, <2>1, <2>2 DEF Stamps
  <2>8. Beats(a)'
    BY <2>2 DEF Beats
  <2>. QED  BY <1>5, <2>2, <2>3, <2>4, <2>6, <2>7, <2>8
<1>9. ASSUME main[a] = "fence", held' = held, lost' = [lost EXCEPT ![a] = TRUE],
             main' = [main EXCEPT ![a] = "running"], queue' = [queue EXCEPT ![a] = Tail(queue[a])]
      PROVE  Inv' /\ (MovesOn \/ UNCHANGED heartbeat)
  <2>1. queue' = [queue EXCEPT ![a] = IF LoopWaits(a) THEN <<"loop">> ELSE <<>>]
    BY <1>1, <1>2, <1>9, QueueFacts DEF Tasking, MainWaits, Served
  <2>2. main'[a] = "running" /\ queue'[a] = IF LoopWaits(a) THEN <<"loop">> ELSE <<>>
    BY <1>2, <1>9, <2>1 DEF Typed
  <2>3. Typed' /\ Framed(a)
    BY <1>1, <1>2, <1>3, <1>9, <2>1 DEF Typed, Queues, MainStates, Framed
  <2>4. Tasking(a)'
    BY <1>1, <1>2, <2>2 DEF Tasking, MainWaits, LoopWaits
  <2>5. Token(a)'
    BY <1>1, <1>2, <1>9, <2>2 DEF Token, Current
  <2>6. Stamps(a)'
    BY <1>1, <1>2, <1>9, <2>2, QueueFacts DEF Stamps, Current
  <2>7. Beats(a)'
    BY <1>1, <1>2, <1>9, <2>2 DEF Beats
  <2>. QED  BY <1>5, <1>9, <2>3, <2>4, <2>5, <2>6, <2>7
<1>. QED  BY <1>6, <1>7, <1>8, <1>9 DEF MainStoreFails, MainAt, Done, Resubmit, MarkLost

LEMMA LoopFailureKeeps ==
    ASSUME Inv, NEW a \in Sessions, LoopStoreFails(a)
    PROVE  Inv' /\ (MovesOn \/ UNCHANGED heartbeat)
<1>1. /\ UNCHANGED <<lease, receipts, heartbeat, now, main, stamp, held, fences, beats>>
      /\ faults' = Append(faults, a) /\ Len(faults) < MaxFaults /\ Served(a, "loop")
      /\ lost' = [lost EXCEPT ![a] = TRUE] /\ loop' = [loop EXCEPT ![a] = "off"]
      /\ queue' = [queue EXCEPT ![a] = Tail(queue[a])]
  BY DEF LoopStoreFails, MarkLost, LoopAt, Done
<1>2. TypeOK /\ Typed /\ Tasking(a) /\ Token(a) /\ Stamps(a) /\ Beats(a) /\ Losses(a)
  BY DEF Inv, Private, TypeOK, Typed, Queues
<1>3. /\ faults' \in Seq(Sessions) /\ Len(faults') <= MaxFaults /\ Faulted(a)'
      /\ \A s \in Sessions \ {a} : Faulted(s)' <=> Faulted(s)
  <2>1. faults \in Seq(Sessions) /\ Len(faults) \in Nat /\ MaxFaults \in Nat
    BY <1>2, BoundsAssumption DEF Typed
  <2>. QED  BY <1>1, <2>1, FaultRecorded
<1>4. /\ main[a] \in {"running", "fence", "closing"}
      /\ queue[a] = IF main[a] = "fence" THEN <<"loop", "main">> ELSE <<"loop">>
  BY <1>1, <1>2, QueueFacts DEF Tasking, MainWaits, LoopWaits, Served
<1>5. queue' = [queue EXCEPT ![a] = IF main[a] = "fence" THEN <<"main">> ELSE <<>>]
  BY <1>1, <1>4, QueueFacts
<1>6. loop'[a] = "off" /\ queue'[a] = IF main[a] = "fence" THEN <<"main">> ELSE <<>>
  BY <1>1, <1>2, <1>5 DEF Typed
<1>7. Typed'
  BY <1>1, <1>2, <1>3, <1>5 DEF Typed, Queues
<1>8. Step(a)
  BY <1>1, <1>3, <1>5 DEF Step, RowMoves, HeldMoves, BeatMoves, Framed
<1>9. Ledger'
  BY <1>1, <1>8, LedgerStill
<1>10. Tasking(a)'
  BY <1>1, <1>2, <1>4, <1>6 DEF Tasking, MainWaits, LoopWaits
<1>11. Token(a)'
  BY <1>1, <1>2, <1>4 DEF Token, Current
<1>12. Stamps(a)'
  BY <1>1, <1>2, <1>4, <1>6 DEF Stamps, Current
<1>13. Beats(a)'
  BY <1>1, <1>2, <1>6 DEF Beats
<1>14. Losses(a)'
  BY <1>3 DEF Losses
<1>. QED  BY <1>7, <1>8, <1>9, <1>10, <1>11, <1>12, <1>13, <1>14, Compose DEF Private

LEMMA StopKeeps ==
    ASSUME Inv, NEW a \in Sessions, Stop(a)
    PROVE  Inv' /\ (MovesOn \/ UNCHANGED heartbeat)
<1>1. /\ UNCHANGED <<lease, receipts, heartbeat, now, stamp, held, lost, fences, beats, faults>>
      /\ main[a] \notin {"new", "done", "gone"} /\ main' = [main EXCEPT ![a] = "gone"]
      /\ loop' = [loop EXCEPT ![a] = "off"] /\ queue' = [queue EXCEPT ![a] = <<>>]
  BY DEF Stop, MainAt, LoopAt
<1>2. TypeOK /\ Typed /\ Tasking(a) /\ Token(a) /\ Stamps(a) /\ Beats(a) /\ Losses(a)
  BY DEF Inv, Private, TypeOK, Typed, Queues
<1>3. main'[a] = "gone" /\ loop'[a] = "off" /\ queue'[a] = <<>>
  BY <1>1, <1>2 DEF Typed
<1>4. Typed'
  BY <1>1, <1>2 DEF Typed, Queues, MainStates
<1>5. Step(a)
  BY <1>1 DEF Step, RowMoves, HeldMoves, BeatMoves, Framed, Faulted
<1>6. Ledger'
  BY <1>1, <1>5, LedgerStill
<1>7. Tasking(a)'
  BY <1>3 DEF Tasking, MainWaits, LoopWaits
<1>8. Token(a)'
  BY <1>1, <1>2, <1>3 DEF Token, Current
<1>9. Stamps(a)'
  BY <1>3 DEF Stamps
<1>10. Beats(a)'
  BY <1>1, <1>2, <1>3 DEF Beats
<1>11. Losses(a)'
  BY <1>1, <1>2, <1>3 DEF Losses, Faulted, RL!LiveFor
<1>. QED  BY <1>4, <1>5, <1>6, <1>7, <1>8, <1>9, <1>10, <1>11, Compose DEF Private

(* Time passes: a window that is over stays over. *)
LEMMA TickKeeps ==
    ASSUME Inv, Tick
    PROVE  Inv' /\ (MovesOn \/ UNCHANGED heartbeat)
<1>1. /\ UNCHANGED <<lease, receipts, heartbeat, main, loop, stamp, queue, held, lost, fences,
                     beats, faults>>
      /\ now < MaxTime /\ now' = now + 1
  BY DEF Tick, session
<1>2. /\ now \in Nat /\ MaxTime \in Nat /\ lease.updated_at \in Nat /\ lease.expires_at \in Nat
      /\ TypeOK
  BY Clocks, Columns, BoundsAssumption DEF Inv, TypeOK
<1>3. TypeOK'
  <2>1. now' \in 0..MaxTime /\ 0..now \subseteq 0..now'
    BY <1>1, <1>2
  <2>2. stamp' \in [Sessions -> [Tasks -> 0..now']]
    BY <1>1, <1>2, <2>1 DEF TypeOK
  <2>. QED  BY <1>1, <1>2, <2>1, <2>2 DEF TypeOK
<1>4. Rows'
  BY <1>1, <1>2 DEF Inv, Rows, Row, Distinct, BeatRow, HeartbeatMatchesLease
<1>5. ASSUME NEW s \in Sessions PROVE Private(s)'
  <2>1. Tasking(s) /\ Token(s) /\ Stamps(s) /\ Beats(s) /\ Losses(s)
    BY DEF Inv, Private
  <2>2. Tasking(s)' /\ Token(s)' /\ Stamps(s)' /\ Beats(s)'
    BY <1>1, <2>1 DEF Tasking, Token, Stamps, Beats, MainWaits, LoopWaits, Current
  <2>3. Losses(s)'
    BY <1>1, <1>2, <2>1 DEF Losses, Faulted, RL!LiveFor, RL!Holds
  <2>. QED  BY <2>2, <2>3 DEF Private
<1>6. Ledger'
  BY <1>1 DEF Inv, Ledger, Checks, ChecksFollowEpochs, RL!Accepted, RL!OneOwnerPerEpoch,
              RL!EpochsDoNotInterleave
<1>. QED  BY <1>1, <1>3, <1>4, <1>5, <1>6 DEF Inv

LEMMA StutterKeeps == Inv /\ UNCHANGED vars => Inv'
<1>. SUFFICES ASSUME Inv, UNCHANGED vars PROVE Inv'
  OBVIOUS
<1>1. UNCHANGED <<lease, receipts, heartbeat, now, main, loop, stamp, queue, held, lost, fences,
                  beats, faults>>
  BY DEF vars, session
<1>2. TypeOK' /\ Rows'
  BY <1>1 DEF Inv, TypeOK, Rows, Row, Distinct, BeatRow, HeartbeatMatchesLease
<1>3. ASSUME NEW s \in Sessions PROVE Private(s)'
  BY <1>1 DEF Inv, Private, Tasking, Token, Stamps, Beats, Losses, MainWaits, LoopWaits, Current,
              Faulted, RL!LiveFor, RL!Holds
<1>4. Ledger'
  BY <1>1 DEF Inv, Ledger, Checks, ChecksFollowEpochs, RL!Accepted, RL!OneOwnerPerEpoch,
              RL!EpochsDoNotInterleave
<1>. QED  BY <1>2, <1>3, <1>4 DEF Inv

-----------------------------------------------------------------------------
LEMMA InitInv == Init => Inv
<1>. SUFFICES ASSUME Init PROVE Inv
  OBVIOUS
<1>1. TypeOK
  <2>1. lease \in RL!Lease
    BY DEF Init, RL!Lease, RL!MissingLease
  <2>2. /\ faults \in Seq(Sessions) /\ Len(faults) <= MaxFaults
    BY BoundsAssumption DEF Init
  <2>3. stamp \in [Sessions -> [Tasks -> 0..now]] /\ now \in 0..MaxTime
    BY BoundsAssumption DEF Init
  <2>. QED  BY <2>1, <2>2, <2>3, BoundsAssumption DEF Init, TypeOK, NoBeat, MainStates
<1>2. Rows
  BY SessionsAssumption
  DEF Init, Rows, Row, Distinct, BeatRow, HeartbeatMatchesLease, RL!MissingLease, NoBeat
<1>3. ASSUME NEW s \in Sessions PROVE Private(s)
  <2>1. Tasking(s)
    BY DEF Init, Tasking, MainWaits, LoopWaits
  <2>2. Token(s) /\ Stamps(s) /\ Beats(s)
    BY SessionsAssumption DEF Init, Token, Stamps, Beats, Current, RL!MissingLease
  <2>3. Losses(s)
    BY DEF Init, Losses
  <2>. QED  BY <2>1, <2>2, <2>3 DEF Private
<1>4. Ledger
  BY DEF Init, Ledger, Checks, ChecksFollowEpochs, RL!Accepted, RL!NoReceipt,
         RL!OneOwnerPerEpoch, RL!EpochsDoNotInterleave
<1>. QED  BY <1>1, <1>2, <1>3, <1>4 DEF Inv

LEMMA NextKeeps == Inv /\ [Next]_vars => Inv' /\ (MovesOn \/ UNCHANGED heartbeat)
<1>. SUFFICES ASSUME Inv, [Next]_vars PROVE Inv' /\ (MovesOn \/ UNCHANGED heartbeat)
  OBVIOUS
<1>1. ASSUME NEW s \in Sessions, SessionStep(s)
      PROVE  Inv' /\ (MovesOn \/ UNCHANGED heartbeat)
  BY <1>1, StartKeeps, AcquireKeeps, ReadKeeps, FirstBeatKeeps, UndoKeeps, BeginFenceKeeps,
     DecideFenceKeeps, WakeKeeps, RenewKeeps, RenewBeatKeeps, CloseKeeps,
     KeepaliveEndsKeeps, GiveUpKeeps, ReleaseKeeps, LastBeatKeeps DEF SessionStep
<1>2. ASSUME NEW s \in Sessions, MainStoreFails(s) \/ LoopStoreFails(s) \/ Stop(s)
      PROVE  Inv' /\ (MovesOn \/ UNCHANGED heartbeat)
  BY <1>2, MainFailureKeeps, LoopFailureKeeps, StopKeeps
<1>3. CASE Tick
  BY <1>3, TickKeeps
<1>4. CASE UNCHANGED vars
  BY <1>4, StutterKeeps DEF vars
<1>. QED  BY <1>1, <1>2, <1>3, <1>4 DEF Next

LEMMA Invariance == Spec => []Inv
<1>. QED  BY InitInv, NextKeeps, PTL DEF Spec

(* Whatever the sessions do, every variable stays in its domain, and a     *)
(* write lock never has two requests of one task (asyncio.Lock).           *)
THEOREM SessionsTyped == Spec => []TypeOK
<1>1. Inv => TypeOK
  BY DEF Inv
<1>. QED  BY <1>1, Invariance, PTL

(* A session that the store has not failed is lost only when its row is:   *)
(* executor and keepalive of a live owner never defeat each other          *)
(* (PursuitLeaseSession.require_current and renew_now).                    *)
THEOREM LostForCause == Spec => []LossHasCause
<1>1. Inv => LossHasCause
  BY DEF Inv, Private, Losses, Faulted, LossHasCause
<1>. QED  BY <1>1, Invariance, PTL

(* The heartbeat row fits the lease row, though they are written in        *)
(* separate transactions (_record_heartbeat).                              *)
THEOREM HeartbeatFitsLease == Spec => []HeartbeatMatchesLease
<1>1. Inv => HeartbeatMatchesLease
  BY DEF Inv, Rows
<1>. QED  BY <1>1, Invariance, PTL

(* The heartbeat row never goes back, and leaves "stopped" only for a      *)
(* later epoch (_validate_heartbeat_advance).                              *)
THEOREM HeartbeatsMoveOn == Spec => HeartbeatMovesOn
<1>1. Inv /\ [Next]_vars =>
        [/\ heartbeat'.epoch >= heartbeat.epoch
         /\ heartbeat.phase = "stopped" => heartbeat'.epoch > heartbeat.epoch
         /\ heartbeat'.observed_at >= heartbeat.observed_at]_heartbeat
  BY NextKeeps DEF MovesOn
<1>. QED  BY <1>1, Invariance, PTL DEF Spec, HeartbeatMovesOn

(* Checks are passed in the order of the epochs, each by the epoch's one   *)
(* session (require_current).                                              *)
THEOREM ChecksInOrder == Spec => []ChecksFollowEpochs
<1>1. Inv => ChecksFollowEpochs
  BY DEF Inv, Ledger
<1>. QED  BY <1>1, Invariance, PTL

=============================================================================
