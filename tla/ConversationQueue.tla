------------------------- MODULE ConversationQueue -------------------------
(***************************************************************************)
(* The messages a user sends while a run is going on: the durable queue in *)
(* the Harness store, the claim that a message needs before it is given to *)
(* the engine, and the bridges that keep a copy of the queue in memory.    *)
(*                                                                         *)
(* A bridge has two tasks: "cmd" handles one command after the other       *)
(* (serve_stdio), "run" is the run in progress, which at its end starts    *)
(* the next message.  A step is what a task does between two awaits; a     *)
(* store operation is one transaction.  The rows of the queue are          *)
(* outcome[r] = "queued", their positions the order of `queue`.            *)
(***************************************************************************)
EXTENDS Naturals, FiniteSets, SequencesExt

CONSTANTS
    Bridges,     \* processes with the session open; a restarted one is another
    Messages,    \* what users write, each under a request id of its own
    MaxRetries,  \* bound: retries of one message that a user decides on
    MaxLeft,     \* bound: queued messages that a dead process has left
    QueueLimit,  \* _MAX_DURABLE_CONVERSATION_QUEUE_ITEMS
    Commands,    \* which of "promote", "cancel", "resolve", "stop", "shutdown" users give
    Faults,      \* whether processes die, claims expire and store calls fail
    Nobody, None

ASSUME QueueAssumption ==
    /\ MaxRetries \in Nat /\ Faults \in BOOLEAN
    /\ MaxLeft \in Nat /\ QueueLimit \in Nat /\ MaxLeft <= QueueLimit
    /\ Nobody \notin Bridges /\ None \notin Messages \X Nat

(* A retry has the id that follows from the request it retries.            *)
Requests == Messages \X (0..MaxRetries)
Retry(r) == <<r[1], r[2] + 1>>

Tasks == Bridges \X {"cmd", "run"}
Cmd(b) == <<b, "cmd">>
Run(b) == <<b, "run">>

VARIABLES
    outcome,   \* state and reason of every row; "direct" went without a row
    queue,     \* the queued rows in the order of their positions
    untouched, \* claimed rows that nothing has renumbered since the claim read them
    lease,     \* the claim of each request: a run lease
    up,        \* the processes
    waiting,   \* _queued_chat_submissions of each bridge
    at, req,   \* where each task is, and the request it is about
    seen,      \* what the command in progress has read from the store or the deque
    claim,     \* _active_queue_claim, and whether renewing it has failed
    runs       \* history: how often a request was given to the engine

rows == <<outcome, queue, untouched, lease>>
vars == <<rows, up, waiting, at, req, seen, claim, runs>>

NoLease == [owner |-> Nobody, state |-> "none"]

(* Some messages may be left in the queue by a process that died. *)
Init ==
    /\ queue \in BoundedSeq(Messages \X {0}, MaxLeft) /\ IsInjective(queue)
    /\ outcome = [r \in Requests |-> IF Contains(queue, r) THEN "queued" ELSE "none"]
    /\ untouched = {}
    /\ lease = [r \in Requests |-> NoLease]
    /\ up = [b \in Bridges |-> "new"]
    /\ waiting = [b \in Bridges |-> <<>>]
    /\ at = [t \in Tasks |-> "idle"] /\ req = [t \in Tasks |-> None]
    /\ seen = [b \in Bridges |-> <<>>]
    /\ claim = [b \in Bridges |-> [req |-> None, lost |-> FALSE]]
    /\ runs = [r \in Requests |-> 0]

-----------------------------------------------------------------------------
(* Faulty variants, for mutation runs: a message that is claimed, but not  *)
(* yet running, is dropped; a dead claim is taken over; any row is taken   *)
(* for a queued one; a row keeps its position when it leaves; a request    *)
(* stays queued next to its retry; the engine swallows a cancellation.     *)
UnclaimedOrStarting(r) == lease[r].state = "none" \/ runs[r] = 0
MayClaimDead(r) == lease[r].state \in {"none", "expired"}
StillQueuedOnce(r) == outcome[r] # "none"
LeavesPosition(r, how) ==
    outcome' = [outcome EXCEPT ![r] = how] /\ untouched' = {} /\ UNCHANGED queue
RetriedAsWell(r) == [outcome EXCEPT ![Retry(r)] = "queued"]
InterruptsNobody(b, next) == at' = [at EXCEPT ![Cmd(b)] = next] /\ UNCHANGED <<rows, req>>

-----------------------------------------------------------------------------
(* Helpers. *)

Goes(t, place) == at' = [at EXCEPT ![t] = place]
Ends(t) ==
    /\ at' = [at EXCEPT ![t] = "idle"]
    /\ req' = [req EXCEPT ![t] = None]

(* A store call may fail; it also fails when a later clock reading than    *)
(* its own has come to the row first.                                      *)
Fails == Faults

Unclaimed(r) == lease[r].state = "none"
StillQueued(r) == outcome[r] = "queued"

(* The bridge takes commands; its run task is not done. *)
Ready(b) == up[b] = "open" /\ at[Cmd(b)] = "idle"
Busy(b) == at[Run(b)] # "idle"

(* acquire_run_lease with the clock reading from before the look for an    *)
(* earlier claim: a row that was taken or given up since is newer than it. *)
MayClaim(r) == lease[r].state = "none"
Claimed(b, r) == [lease EXCEPT ![r] = [owner |-> b, state |-> "live"]]
Released(r) == [lease EXCEPT ![r] = [owner |-> Nobody, state |-> "released"]]

(* _decide_run_fence *)
Holds(b, r) == lease[r].owner = b /\ lease[r].state = "live"

(* finish_queued_conversation: the row leaves, the others are renumbered.  *)
Leaves(r, how) ==
    /\ outcome' = [outcome EXCEPT ![r] = how]
    /\ queue' = RemoveFirst(queue, r)
    /\ untouched' = {}

(* resolve_ambiguous_queued_conversation: the retry has the position of    *)
(* its request.                                                            *)
Retried(r) == [outcome EXCEPT ![r] = "resolved", ![Retry(r)] = "queued"]

-----------------------------------------------------------------------------
(* _start_next_queued_chat, by the run task at its end or by a command.    *)

Pick(t) ==
    LET b == t[1]
        more == up[b] = "open" /\ waiting[b] # <<>> /\ (t = Cmd(b) => ~Busy(b))
    IN
    /\ at[t] = "pick"
    /\ \/ more /\ Goes(t, "claim") /\ req' = [req EXCEPT ![t] = Head(waiting[b])]
       \/ ~more /\ Ends(t)
    /\ UNCHANGED <<rows, up, waiting, seen, claim, runs>>

(* DurableConversationQueueAuthority.claim: any earlier claim stops it.    *)
(* The look for one finds nothing that the acquisition would accept.       *)
Acquire(t) ==
    /\ at[t] = "claim"
    /\ \/ MayClaim(req[t]) /\ lease' = Claimed(t[1], req[t]) /\ Goes(t, "relist") /\ UNCHANGED req
       \/ (~MayClaim(req[t]) \/ Fails) /\ Ends(t) /\ UNCHANGED lease
    /\ UNCHANGED <<outcome, queue, untouched, up, waiting, seen, claim, runs>>

(* The row again; a row that has left the queue gives its claim back.      *)
Relist(t) ==
    /\ at[t] = "relist"
    /\ \/ /\ StillQueued(req[t])
          /\ untouched' = untouched \cup {req[t]}
          /\ Goes(t, "pop")
          /\ UNCHANGED <<lease, req>>
       \/ /\ ~StillQueued(req[t])
          /\ lease' = Released(req[t])
          /\ Ends(t)
          /\ UNCHANGED untouched
       \/ Fails /\ Ends(t) /\ UNCHANGED <<untouched, lease>>
    /\ UNCHANGED <<outcome, queue, up, waiting, seen, claim, runs>>

(* popleft takes the first message, which need not be the claimed one.     *)
Pop(t) ==
    LET b == t[1] IN
    /\ at[t] = "pop"
    /\ \/ /\ waiting[b] # <<>>
          /\ waiting' = [waiting EXCEPT ![b] = Tail(@)]
          /\ Goes(t, "start")
          /\ UNCHANGED req
       \/ waiting[b] = <<>> /\ Ends(t) /\ UNCHANGED waiting
    /\ UNCHANGED <<rows, up, seen, claim, runs>>

(* _start_chat_submission: the run task of the next message replaces this  *)
(* one, and a cancel_run that means this one is late.                      *)
Start(t) ==
    LET b == t[1]
        command == IF at[Cmd(b)] = "stop" THEN "stop late" ELSE at[Cmd(b)]
    IN
    /\ at[t] = "start"
    /\ at' = [at EXCEPT ![Run(b)] = "engine",
                       ![Cmd(b)] = IF t = Cmd(b) THEN "idle" ELSE command]
    /\ req' = [req EXCEPT ![t] = None, ![Run(b)] = req[t]]
    /\ runs' = [runs EXCEPT ![req[t]] = @ + 1]
    /\ claim' = [claim EXCEPT ![b] = [req |-> req[t], lost |-> FALSE]]
    /\ UNCHANGED <<rows, up, waiting, seen>>

StartNext(t) == Pick(t) \/ Acquire(t) \/ Relist(t) \/ Pop(t) \/ Start(t)

-----------------------------------------------------------------------------
(* The run task. *)

Direct(b) == claim[b].req # req[Run(b)]

(* run_streaming returns or fails; a message without a row has nothing to  *)
(* commit.                                                                 *)
RunReturns(b) ==
    /\ at[Run(b)] = "engine"
    /\ \/ Direct(b) /\ at' = [at EXCEPT ![Run(b)] = "pick"]
       \/ ~Direct(b) /\ at' = [at EXCEPT ![Run(b)] = "commit"]
    /\ UNCHANGED <<rows, up, waiting, req, seen, claim, runs>>

(* The transaction of finish(). *)
Finished(b) ==
    LET r == req[Run(b)] IN
    /\ StillQueued(r) /\ Holds(b, r)
    /\ Leaves(r, "ended")
    /\ lease' = Released(r)

(* finish(): a result that is not accepted stops the queue, and so does a  *)
(* cancellation, at "abort"; a run whose claim is lost does not ask.       *)
Commit(b) ==
    LET r == req[Run(b)]
        refused == claim[b].lost \/ ~StillQueued(r) \/ ~Holds(b, r) \/ Fails
    IN
    /\ at[Run(b)] \in {"commit", "abort"}
    /\ \/ ~claim[b].lost /\ Finished(b)
       \/ refused /\ UNCHANGED rows
    /\ IF at[Run(b)] = "commit" /\ lease' # lease
       THEN Goes(Run(b), "pick") /\ req' = [req EXCEPT ![Run(b)] = None]
       ELSE Ends(Run(b))
    /\ claim' = [claim EXCEPT ![b].req = None]
    /\ UNCHANGED <<up, waiting, seen, runs>>

(* keepalive: a claim that cannot be renewed cancels the run.              *)
LosesClaim(b) ==
    /\ at[Run(b)] = "engine" /\ ~Direct(b)
    /\ (~Holds(b, req[Run(b)]) \/ Fails)
    /\ claim' = [claim EXCEPT ![b].lost = TRUE]
    /\ at' = [at EXCEPT ![Run(b)] = "abort"]
    /\ UNCHANGED <<rows, up, waiting, req, seen, runs>>

(* run_task.cancel(): CancelledError at the await the task is in.  What    *)
(* the store has been asked for happens or not.  `next` is where the       *)
(* command that cancelled goes.                                            *)
Interrupts(b, next) ==
    LET r == req[Run(b)]
        place == at[Run(b)]
        commits == place = "engine" /\ ~Direct(b)
    IN
    /\ at' = [at EXCEPT ![Cmd(b)] = next, ![Run(b)] = IF commits THEN "abort" ELSE "idle"]
    /\ req' = [req EXCEPT ![Run(b)] = IF commits THEN @ ELSE None]
    /\ \/ UNCHANGED rows
       \/ place \in {"commit", "abort"} /\ ~claim[b].lost /\ Finished(b)
       \/ /\ place = "claim" /\ MayClaim(r)
          /\ lease' = Claimed(b, r)
          /\ UNCHANGED <<outcome, queue, untouched>>

-----------------------------------------------------------------------------
(* The commands. *)

(* submit: a message is queued while the run task is not done.             *)
Submit(b, r) ==
    /\ Ready(b) /\ r[2] = 0 /\ outcome[r] = "none"
    /\ \A t \in Tasks : req[t] # r
    /\ \/ /\ Busy(b)
          /\ Goes(Cmd(b), "enqueue") /\ req' = [req EXCEPT ![Cmd(b)] = r]
          /\ UNCHANGED <<outcome, claim, runs>>
       \/ /\ ~Busy(b)
          /\ Goes(Run(b), "engine") /\ req' = [req EXCEPT ![Run(b)] = r]
          /\ outcome' = [outcome EXCEPT ![r] = "direct"]
          /\ claim' = [claim EXCEPT ![b] = [req |-> None, lost |-> FALSE]]
          /\ runs' = [runs EXCEPT ![r] = @ + 1]
    /\ UNCHANGED <<queue, untouched, lease, up, waiting, seen>>

Enqueue(b) ==
    LET r == req[Cmd(b)] IN
    /\ at[Cmd(b)] = "enqueue"
    /\ \/ /\ Len(queue) < QueueLimit
          /\ outcome' = [outcome EXCEPT ![r] = "queued"]
          /\ queue' = Append(queue, r)
          /\ Goes(Cmd(b), "append") /\ UNCHANGED req
       \/ (Len(queue) >= QueueLimit \/ Fails) /\ Ends(Cmd(b)) /\ UNCHANGED <<outcome, queue>>
    /\ UNCHANGED <<untouched, lease, up, waiting, seen, claim, runs>>

(* The copy in memory follows, whatever the run task has done meanwhile.   *)
AppendWaiting(b) ==
    /\ at[Cmd(b)] = "append"
    /\ waiting' = [waiting EXCEPT ![b] = Append(@, req[Cmd(b)])]
    /\ Ends(Cmd(b))
    /\ UNCHANGED <<rows, up, seen, claim, runs>>

(* promote() and _validate_live_active_claim_for_promotion: nothing is     *)
(* claimed, or the active claim only, as its claim has read it, with       *)
(* unclaimed rows behind it.                                               *)
MayPromote(b, r) ==
    \/ \A i \in DOMAIN queue : Unclaimed(queue[i])
    \/ \E i \in DOMAIN queue :
          /\ queue[i] = claim[b].req /\ queue[i] # r
          /\ queue[i] \in untouched /\ Holds(b, queue[i])
          /\ \A j \in DOMAIN queue \ {i} : Unclaimed(queue[j])

Promote(b, r) ==
    /\ "promote" \in Commands
    /\ Ready(b) /\ Contains(waiting[b], r)
    /\ MayPromote(b, r)
    /\ Goes(Cmd(b), "promote") /\ req' = [req EXCEPT ![Cmd(b)] = r]
    /\ UNCHANGED <<rows, up, waiting, seen, claim, runs>>

PromoteRow(b) ==
    LET r == req[Cmd(b)] IN
    /\ at[Cmd(b)] = "promote"
    /\ \/ /\ StillQueued(r)
          /\ queue' = Cons(r, RemoveFirst(queue, r))
          /\ untouched' = {}
          /\ Goes(Cmd(b), "promoted") /\ UNCHANGED req
       \/ (~StillQueued(r) \/ Fails) /\ Ends(Cmd(b)) /\ UNCHANGED <<queue, untouched>>
    /\ UNCHANGED <<outcome, lease, up, waiting, seen, claim, runs>>

(* deque.remove raises where the message is gone.                          *)
PromoteWaiting(b) ==
    LET r == req[Cmd(b)] IN
    /\ at[Cmd(b)] = "promoted"
    /\ waiting' = [waiting EXCEPT ![b] = IF Contains(@, r) THEN Cons(r, RemoveFirst(@, r)) ELSE @]
    /\ Ends(Cmd(b))
    /\ UNCHANGED <<rows, up, seen, claim, runs>>

(* cancel_unclaimed_request: a look, and a transaction that looks again.   *)
Cancel(b, r) ==
    /\ "cancel" \in Commands
    /\ Ready(b) /\ Contains(waiting[b], r)
    /\ StillQueued(r) /\ Unclaimed(r)
    /\ Goes(Cmd(b), "drop") /\ req' = [req EXCEPT ![Cmd(b)] = r]
    /\ UNCHANGED <<rows, up, waiting, seen, claim, runs>>

(* A row another bridge has cancelled is answered with what it is.         *)
DropRow(b) ==
    LET r == req[Cmd(b)] IN
    /\ at[Cmd(b)] = "drop"
    /\ \/ /\ StillQueued(r) /\ Unclaimed(r)
          /\ Leaves(r, "cancelled")
          /\ Goes(Cmd(b), "dropped") /\ UNCHANGED req
       \/ /\ outcome[r] = "cancelled"
          /\ Goes(Cmd(b), "dropped") /\ UNCHANGED <<outcome, queue, untouched, req>>
       \/ /\ ~(StillQueued(r) /\ Unclaimed(r)) /\ outcome[r] # "cancelled"
          /\ Ends(Cmd(b)) /\ UNCHANGED <<outcome, queue, untouched>>
       \/ /\ Fails
          /\ Ends(Cmd(b)) /\ UNCHANGED <<outcome, queue, untouched>>
    /\ UNCHANGED <<lease, up, waiting, seen, claim, runs>>

DropWaiting(b) ==
    /\ at[Cmd(b)] = "dropped"
    /\ waiting' = [waiting EXCEPT ![b] = RemoveFirst(@, req[Cmd(b)])]
    /\ Ends(Cmd(b))
    /\ UNCHANGED <<rows, up, seen, claim, runs>>

(* /queue resolve of a claim that has ended without a result; whether or   *)
(* not it is accepted, the copy in memory is read again.                   *)
Resolve(b) ==
    /\ "resolve" \in Commands
    /\ Ready(b)
    /\ \/ \E r \in Requests :
          /\ StillQueued(r) /\ lease[r].state \in {"expired", "released"}
          /\ lease' = Released(r) /\ untouched' = {}
          /\ \/ /\ outcome' = [outcome EXCEPT ![r] = "resolved"]
                /\ queue' = RemoveFirst(queue, r)
             \/ /\ r[2] < MaxRetries /\ outcome[Retry(r)] = "none"
                /\ outcome' = Retried(r)
                /\ queue' = ReplaceAll(queue, r, Retry(r))
       \/ /\ \E r \in Requests : StillQueued(r) /\ ~Unclaimed(r)
          /\ UNCHANGED rows
    /\ Goes(Cmd(b), "recover")
    /\ UNCHANGED <<up, waiting, req, seen, claim, runs>>

(* A process opens the session. *)
Open(b) ==
    /\ up[b] = "new"
    /\ up' = [up EXCEPT ![b] = "open"]
    /\ Goes(Cmd(b), "recover")
    /\ UNCHANGED <<rows, waiting, req, seen, claim, runs>>

(* recover(): the queued rows, of which the first must never have been     *)
(* claimed if one is to be started.                                        *)
Recover(b) ==
    /\ at[Cmd(b)] = "recover"
    /\ \/ /\ seen' = [seen EXCEPT ![b] = queue]
          /\ Goes(Cmd(b), IF queue # <<>> /\ Unclaimed(queue[1]) THEN "merge ready" ELSE "merge")
       \/ Fails /\ Ends(Cmd(b)) /\ UNCHANGED seen
    /\ UNCHANGED <<rows, up, waiting, req, claim, runs>>

(* The entries of a sequence that are in a set, in their order: SelectSeq, *)
(* in a form that proofs can expand.                                       *)
Kept(s, S) ==
    LET places == {i \in 1..Len(s) : s[i] \in S}
        place(n) == CHOOSE i \in places : Cardinality(places \cap (1..i)) = n
    IN [n \in 1..Cardinality(places) |-> s[place(n)]]

(* Messages that are no longer rows are dropped from memory, and new rows  *)
(* come behind those that stay.                                            *)
Merged(b) ==
    Kept(waiting[b], ToSet(seen[b])) \o Kept(seen[b], Requests \ ToSet(waiting[b]))

Merge(b) ==
    /\ at[Cmd(b)] \in {"merge", "merge ready"}
    /\ waiting' = [waiting EXCEPT ![b] = Merged(b)]
    /\ seen' = [seen EXCEPT ![b] = <<>>]
    /\ Goes(Cmd(b), IF at[Cmd(b)] = "merge ready" /\ ~Busy(b) THEN "pick" ELSE "idle")
    /\ UNCHANGED <<rows, up, req, claim, runs>>

(* cancel_run: it means the run task it finds, and is then in the await of *)
(* the acknowledgement.                                                    *)
CancelRun(b) ==
    /\ "stop" \in Commands
    /\ Ready(b) /\ Busy(b)
    /\ Goes(Cmd(b), "stop")
    /\ UNCHANGED <<rows, up, waiting, req, seen, claim, runs>>

(* run_task.cancel(), of a task that may have ended meanwhile.             *)
StopRun(b) ==
    /\ at[Cmd(b)] = "stop"
    /\ \/ Busy(b) /\ Interrupts(b, "stopping")
       \/ ~Busy(b) /\ Goes(Cmd(b), "stopping") /\ UNCHANGED <<rows, req>>
    /\ UNCHANGED <<up, waiting, seen, claim, runs>>

(* It has awaited the run task and starts the next message.  A task that   *)
(* another has replaced is over; nobody cancels the other.                 *)
AfterCancel(b) ==
    /\ at[Cmd(b)] = "stop late" \/ (at[Cmd(b)] = "stopping" /\ ~Busy(b))
    /\ Goes(Cmd(b), IF claim[b].lost THEN "idle" ELSE "pick")
    /\ UNCHANGED <<rows, up, waiting, req, seen, claim, runs>>

(* shutdown: what nobody has claimed is cancelled, then the run. *)
Shutdown(b) ==
    /\ "shutdown" \in Commands
    /\ Ready(b)
    /\ up' = [up EXCEPT ![b] = "closed"]
    /\ seen' = [seen EXCEPT ![b] = waiting[b]]
    /\ waiting' = [waiting EXCEPT ![b] = <<>>]
    /\ Goes(Cmd(b), "closing")
    /\ UNCHANGED <<rows, req, claim, runs>>

CloseNext(b) ==
    /\ at[Cmd(b)] = "closing" /\ seen[b] # <<>>
    /\ LET r == Head(seen[b]) IN
       \/ StillQueued(r) /\ Unclaimed(r) /\ Leaves(r, "closed")
       \/ ~(StillQueued(r) /\ Unclaimed(r)) /\ UNCHANGED <<outcome, queue, untouched>>
       \/ Fails /\ UNCHANGED <<outcome, queue, untouched>>
    /\ seen' = [seen EXCEPT ![b] = Tail(@)]
    /\ UNCHANGED <<lease, up, waiting, at, req, claim, runs>>

CloseRun(b) ==
    /\ at[Cmd(b)] = "closing" /\ seen[b] = <<>>
    /\ \/ Busy(b) /\ Interrupts(b, "closed")
       \/ ~Busy(b) /\ Goes(Cmd(b), "closed") /\ UNCHANGED <<rows, req>>
    /\ UNCHANGED <<up, waiting, seen, claim, runs>>

Exit(b) ==
    /\ at[Cmd(b)] = "closed" /\ ~Busy(b)
    /\ up' = [up EXCEPT ![b] = "down"]
    /\ Ends(Cmd(b))
    /\ UNCHANGED <<rows, waiting, seen, claim, runs>>

-----------------------------------------------------------------------------
(* Faults. *)

Crash(b) ==
    /\ Faults /\ up[b] \in {"open", "closed"}
    /\ up' = [up EXCEPT ![b] = "down"]
    /\ waiting' = [waiting EXCEPT ![b] = <<>>]
    /\ seen' = [seen EXCEPT ![b] = <<>>]
    /\ at' = [t \in Tasks |-> IF t[1] = b THEN "idle" ELSE at[t]]
    /\ req' = [t \in Tasks |-> IF t[1] = b THEN None ELSE req[t]]
    /\ claim' = [claim EXCEPT ![b] = [req |-> None, lost |-> FALSE]]
    /\ UNCHANGED <<rows, runs>>

(* A claim expires behind an owner that has died or stalls. *)
Expire(r) ==
    /\ Faults /\ lease[r].state = "live"
    /\ lease' = [lease EXCEPT ![r] = [owner |-> Nobody, state |-> "expired"]]
    /\ UNCHANGED <<outcome, queue, untouched, up, waiting, at, req, seen, claim, runs>>

-----------------------------------------------------------------------------
Works(b) ==
    \/ \E t \in {Cmd(b), Run(b)} : StartNext(t)
    \/ Commit(b)
    \/ Enqueue(b) \/ AppendWaiting(b) \/ PromoteRow(b) \/ PromoteWaiting(b)
    \/ DropRow(b) \/ DropWaiting(b) \/ Recover(b) \/ Merge(b)
    \/ StopRun(b) \/ AfterCancel(b) \/ CloseNext(b) \/ CloseRun(b) \/ Exit(b)

Commanded(b) ==
    \/ \E r \in Requests : Submit(b, r) \/ Promote(b, r) \/ Cancel(b, r)
    \/ Resolve(b) \/ Open(b) \/ CancelRun(b) \/ Shutdown(b)

Next ==
    \/ \E b \in Bridges :
          Works(b) \/ Commanded(b) \/ RunReturns(b) \/ LosesClaim(b) \/ Crash(b)
    \/ \E r \in Requests : Expire(r)

(* The event loop resumes a task whose await is over.  The engine need not *)
(* return, and nobody has to give a command. *)
Fairness == \A b \in Bridges : WF_vars(Works(b))

Spec == Init /\ [][Next]_vars /\ Fairness

-----------------------------------------------------------------------------
(* Properties. *)

(* The queue holds every queued row once, within its limit, and claims,    *)
(* tasks and the copies in memory have their shape.                        *)
RowsOK ==
    /\ outcome \in [Requests -> {"none", "direct", "queued", "ended", "cancelled", "closed",
                                 "resolved"}]
    /\ queue \in Seq(Requests) /\ IsInjective(queue) /\ Len(queue) <= QueueLimit
    /\ \A r \in Requests : Contains(queue, r) <=> outcome[r] = "queued"
    /\ untouched \subseteq ToSet(queue)
    /\ lease \in [Requests -> [owner : Bridges \cup {Nobody},
                              state : {"none", "live", "expired", "released"}]]

TasksOK ==
    /\ up \in [Bridges -> {"new", "open", "closed", "down"}]
    /\ req \in [Tasks -> Requests \cup {None}]
    /\ claim \in [Bridges -> [req : Requests \cup {None}, lost : BOOLEAN]]

CopiesOK == waiting \in [Bridges -> Seq(Requests)] /\ seen \in [Bridges -> Seq(Requests)]

TypeOK == RowsOK /\ TasksOK /\ CopiesOK

(* A request is given to the engine once, whatever copies of the queue the *)
(* bridges keep, and whatever process died with it; what is sent again is  *)
(* a retry that a user decided on (DurableConversationQueueAuthority.claim *)
(* and resolve).                                                           *)
RunsOnce == \A r \in Requests : runs[r] <= 1

(* HAR-10-3b5:22 "no window in which the store has marked it as not        *)
(* executed, and a worker gets the claim all the same": a message that was *)
(* cancelled, by a user or a shutdown, has not run, and no task has passed *)
(* the claim with it. *)
Starting(t) == at[t] \in {"pop", "start", "engine", "commit", "abort"}
UnsentNeverRuns ==
    \A r \in Requests : outcome[r] \in {"cancelled", "closed"} =>
        runs[r] = 0 /\ \A t \in Tasks : ~(Starting(t) /\ req[t] = r)

(* A result is recorded for the one claim under which the message ran: a   *)
(* run that a user has given up for lost, by a retry or a cancel, does not *)
(* end the row afterwards (finish and its fence).                          *)
OutcomesStay ==
    [][\A r \in Requests :
          outcome[r] \notin {"none", "queued"} => outcome'[r] = outcome[r]]_vars

(* However many bridges resolve a message, of all its versions one is      *)
(* queued at most; resolving is no way to multiply a message.              *)
OneVersionQueued ==
    \A m \in Messages :
        Cardinality({k \in 0..MaxRetries : outcome[<<m, k>>] = "queued"}) <= 1

(* A command comes to its end, also one that cancels the run and waits for *)
(* its task, wherever that is in its own start of the next message.        *)
CommandsEnd ==
    \A b \in Bridges : at[Cmd(b)] # "idle" ~> at[Cmd(b)] = "idle"

=============================================================================
