--------------------------- MODULE FencedOwnership --------------------------
(***************************************************************************)
(* What the run lease promises its callers, without rows, states or        *)
(* receipts: ownership of a run is a sequence of tenures, each with one    *)
(* holder and one window [since, until) of the timeline; a result commits  *)
(* only inside the current tenure, and a tenure starts only once the       *)
(* window of the one before has ended.                                     *)
(***************************************************************************)
EXTENDS Naturals

CONSTANTS
    Owners,     \* who may hold a tenure
    NoOwner,    \* the holder before the first tenure
    Times       \* the points of the timeline, natural numbers

VARIABLES
    tenure,     \* [holder, epoch, since, until]
    results     \* committed results: a set of [owner, epoch, at]

vars == <<tenure, results>>

Init ==
    /\ tenure = [holder |-> NoOwner, epoch |-> 0, since |-> 0, until |-> 0]
    /\ results = {}

(* A new tenure begins at t, after the window of the last one. *)
Begin(o, t) ==
    /\ t >= tenure.until
    /\ \E u \in Times :
          /\ u > t
          /\ tenure' = [holder |-> o, epoch |-> tenure.epoch + 1,
                        since |-> t, until |-> u]
    /\ UNCHANGED results

(* The holder moves the end of its window further away. *)
Extend ==
    /\ tenure.holder # NoOwner
    /\ \E u \in Times : /\ u >= tenure.until
                        /\ tenure' = [tenure EXCEPT !.until = u]
    /\ UNCHANGED results

(* The holder ends its window early, after everything it committed. *)
End(t) ==
    /\ tenure.since <= t
    /\ t < tenure.until
    /\ \A r \in results : r.epoch = tenure.epoch => r.at <= t
    /\ tenure' = [tenure EXCEPT !.until = t]
    /\ UNCHANGED results

(* A result of the holder, dated inside its window. *)
Commit(t) ==
    /\ tenure.since <= t
    /\ t < tenure.until
    /\ results' = results \cup
                    {[owner |-> tenure.holder, epoch |-> tenure.epoch, at |-> t]}
    /\ UNCHANGED tenure

Next ==
    \/ \E o \in Owners, t \in Times : Begin(o, t)
    \/ Extend
    \/ \E t \in Times : End(t) \/ Commit(t)

Spec == Init /\ [][Next]_vars

=============================================================================
