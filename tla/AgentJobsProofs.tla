-------------------------- MODULE AgentJobsProofs --------------------------
(***************************************************************************)
(* The capacity of agent jobs, for any number of jobs and runtimes.  The   *)
(* store refuses by what it counts (Counted); the property is about what   *)
(* is used (Used).  They agree because only a claimed or running row ever  *)
(* has a live claim, which is what the inductive invariant adds.  A late   *)
(* start is the one step that uses more without a count: it adds the same  *)
(* job to late.  Then the lists, delegations and publications (Types), the *)
(* jobs that were started late (LateRows), and that a settled publication  *)
(* stays settled.                                                          *)
(***************************************************************************)
EXTENDS AgentJobs, FiniteSetTheorems, SequenceTheorems, TLAPS

Rows ==
    /\ job \in [Jobs -> [state : States, live : BOOLEAN]]
    /\ \A j \in Jobs : job[j].live => job[j].state \in {"claimed", "running"}

Inv == Rows /\ CapacityHeld

-----------------------------------------------------------------------------
(* What _capacity_counts_locked counts is what is used. *)
LEMMA CountedIsUsed == Rows => Counted = Used
  BY DEF Rows, Counted, Used

(* A set of jobs that grows by one job at most has at most one more. *)
LEMMA OneMore ==
    ASSUME NEW S \in SUBSET Jobs, NEW T \in SUBSET Jobs, NEW j \in Jobs,
           T \subseteq S \cup {j}
    PROVE  Cardinality(T) <= Cardinality(S) + 1
<1>1. IsFiniteSet(S)
  BY AgentAssumption, FS_Subset
<1>2. IsFiniteSet(S \cup {j}) /\ Cardinality(S \cup {j}) <= Cardinality(S) + 1
  <2>1. /\ IsFiniteSet(S \cup {j})
        /\ Cardinality(S \cup {j}) = IF j \in S THEN Cardinality(S) ELSE Cardinality(S) + 1
    BY <1>1, FS_AddElement
  <2>2. Cardinality(S) \in Nat
    BY <1>1, FS_CardinalityType
  <2>. QED  BY <2>1, <2>2
<1>3. Cardinality(T) <= Cardinality(S \cup {j})
  BY <1>2, FS_Subset
<1>. QED  BY <1>1, <1>2, <1>3, FS_CardinalityType, FS_Subset, AgentAssumption

(* A claim taken while there is room (ClaimTurn, Admit) keeps the capacity. *)
LEMMA ClaimWithRoom ==
    ASSUME Rows, HasRoom, NEW j \in Jobs, Sets(j, "claimed", TRUE)
    PROVE  Inv'
<1>1. Rows'
  BY DEF Rows, Sets, States
<1>2. Used' \ late' \subseteq Used \cup {j}
  BY DEF Rows, Sets, Used
<1>3. Cardinality(Used' \ late') <= Cardinality(Used) + 1
  BY <1>2, OneMore DEF Used
<1>4. Cardinality(Used) < MaxActive
  BY CountedIsUsed DEF HasRoom
<1>5. Cardinality(Used) \in Nat /\ Cardinality(Used' \ late') \in Nat
  <2>1. IsFiniteSet(Used) /\ IsFiniteSet(Used' \ late')
    BY AgentAssumption, FS_Subset DEF Used
  <2>. QED  BY <2>1, FS_CardinalityType
<1>. QED  BY <1>1, <1>3, <1>4, <1>5, AgentAssumption DEF Inv, CapacityHeld

(* Rows that stay well formed and use no more in time keep the capacity.   *)
LEMMA NoMoreUsed ==
    ASSUME Inv, Rows', Used' \ late' \subseteq Used \ late
    PROVE  Inv'
<1>. DEFINE now == Used \ late
            next == Used' \ late'
<1>1. IsFiniteSet(now)
  BY AgentAssumption, FS_Subset DEF Used
<1>2. IsFiniteSet(next) /\ Cardinality(next) <= Cardinality(now)
  BY <1>1, FS_Subset
<1>3. Cardinality(now) \in Nat /\ Cardinality(next) \in Nat
  BY <1>1, <1>2, FS_CardinalityType
<1>4. Cardinality(now) <= MaxActive
  BY DEF Inv, CapacityHeld
<1>5. Cardinality(next) <= MaxActive
  BY <1>2, <1>3, <1>4, AgentAssumption
<1>. QED  BY <1>5 DEF Inv, CapacityHeld

(* A row that is given up, ended, or left to expire (cancel_before_claim,  *)
(* finish, mark_recovery_unknown) uses no more.                            *)
LEMMA LetGo ==
    ASSUME Inv, NEW j \in Jobs, NEW s \in States \ {"running"}, Sets(j, s, FALSE)
    PROVE  Inv'
<1>1. Rows'
  BY DEF Inv, Rows, Sets
<1>2. Used' \ late' \subseteq Used \ late
  BY DEF Inv, Rows, Sets, Used
<1>. QED  BY <1>1, <1>2, NoMoreUsed

(* The invariant holds at the beginning, when nothing is used. *)
LEMMA InvInit == Init => Inv
<1>. SUFFICES ASSUME Init PROVE Inv
  OBVIOUS
<1>1. Rows
  BY DEF Init, Rows, States
<1>2. Used \ late = {}
  BY DEF Init, Used
<1>. QED  BY <1>1, <1>2, FS_EmptySet, AgentAssumption DEF Inv, CapacityHeld

(* Every step keeps the invariant. *)
LEMMA InvStep == Inv /\ [Next]_vars => Inv'
<1>. SUFFICES ASSUME Inv, [Next]_vars PROVE Inv'
  OBVIOUS
<1>1. ASSUME UNCHANGED <<job, late>> PROVE Inv'
  BY <1>1 DEF Inv, Rows, CapacityHeld, Used
<1>2. ASSUME NEW j \in Jobs, NEW r \in Runtimes, Admit(j, r) PROVE Inv'
  <2>1. CASE HasRoom /\ Sets(j, "claimed", TRUE)
    BY <2>1, ClaimWithRoom DEF Inv
  <2>2. CASE Sets(j, "admitted", FALSE)
    BY <2>2, LetGo DEF States
  <2>3. CASE UNCHANGED <<job, late>>
    BY <2>3, <1>1
  <2>. QED  BY <1>2, <2>1, <2>2, <2>3 DEF Admit, jobs
<1>3. ASSUME NEW j \in Jobs, ClaimTurn(j) PROVE Inv'
  BY <1>3, ClaimWithRoom DEF Inv, ClaimTurn
<1>4. ASSUME NEW j \in Jobs, GiveUp(j) PROVE Inv'
  BY <1>1, <1>4, LetGo DEF GiveUp, Withdraws, jobs, States
<1>5. ASSUME NEW j \in Jobs, Start(j) PROVE Inv'
  <2>1. CASE Sets(j, "running", job[j].live)
    <3>1. Rows'
      BY <2>1 DEF Inv, Rows, Sets, States
    <3>2. Used' \ late' \subseteq Used \ late
      BY <2>1 DEF Inv, Rows, Sets, Used
    <3>. QED  BY <3>1, <3>2, NoMoreUsed
  <2>2. CASE UNCHANGED <<job, late>>
    BY <2>2, <1>1
  <2>. QED  BY <1>5, <2>1, <2>2 DEF Start
<1>6. ASSUME NEW j \in Jobs, Finish(j) PROVE Inv'
  BY <1>1, <1>6, LetGo DEF Finish, jobs, States
<1>7. ASSUME NEW j \in Jobs, ExpireJob(j) PROVE Inv'
  <2>1. Rows'
    BY <1>7 DEF ExpireJob, Inv, Rows
  <2>2. Used' \ late' \subseteq Used \ late
    BY <1>7 DEF ExpireJob, Inv, Rows, Used
  <2>. QED  BY <2>1, <2>2, NoMoreUsed
<1>8. ASSUME NEW j \in Jobs, MarkUnknown(j) PROVE Inv'
  BY <1>8, LetGo DEF MarkUnknown, States
<1>9. ASSUME NEW j \in Jobs, Publish(j) \/ Deliver(j) \/ ExpirePublication(j) PROVE Inv'
  BY <1>1, <1>9 DEF Publish, Deliver, ExpirePublication, jobs
<1>10. ASSUME NEW r \in Runtimes, Works(r) \/ Crash(r) PROVE Inv'
  BY <1>1, <1>10 DEF Works, ClaimNext, WorkerDelivers, WorkerQuarantines, WorkerReleases,
                     Crash, jobs
<1>11. CASE UNCHANGED vars
  BY <1>1, <1>11 DEF vars, jobs
<1>12. ASSUME NEW j \in Jobs, RenewLate(j) PROVE Inv'
  <2>1. job[j].state = "running" /\ Sets(j, "running", TRUE)
    BY <1>12 DEF RenewLate
  <2>2. Rows'
    BY <2>1 DEF Inv, Rows, Sets, States
  <2>3. Used' \ late' \subseteq Used \ late
    BY <2>1 DEF Inv, Rows, Sets, Used
  <2>. QED  BY <2>2, <2>3, NoMoreUsed
<1>. QED
  BY <1>2, <1>3, <1>4, <1>5, <1>6, <1>7, <1>8, <1>9, <1>10, <1>11, <1>12 DEF Next, Executes

(* For any number of jobs and runtimes, and however their delegations end  *)
(* and their claims expire, what runs beyond the shared capacity is only   *)
(* what was started after its claim had expired.                           *)
THEOREM CapacityIsHeld == Spec => []CapacityHeld
<1>1. Inv => CapacityHeld
  BY DEF Inv
<1>. QED  BY <1>1, InvInit, InvStep, PTL DEF Spec

-----------------------------------------------------------------------------
(* The FIFO and the outbox list the jobs in a state, each once.            *)
Lists(s, S) == s \in Seq(Jobs) /\ IsInjective(s) /\ ToSet(s) = S

(* RemoveAt leaves every other entry, in order. *)
LEMMA RemoveAtEntries ==
    ASSUME NEW T, NEW s \in Seq(T), NEW i \in 1..Len(s)
    PROVE  /\ RemoveAt(s, i) \in Seq(T)
           /\ Len(RemoveAt(s, i)) = Len(s) - 1
           /\ \A j \in 1..Len(s) - 1 :
                 RemoveAt(s, i)[j] = IF j < i THEN s[j] ELSE s[j + 1]
<1> DEFINE front == SubSeq(s, 1, i - 1)
           back == SubSeq(s, i + 1, Len(s))
<1>1. Len(s) \in Nat /\ i \in Nat /\ i - 1 \in Nat /\ i + 1 \in Nat
    OBVIOUS
<1>2. front \in Seq(T) /\ Len(front) = i - 1 /\ \A j \in 1..i - 1 : front[j] = s[j]
    BY <1>1, SubSeqProperties
<1>3. /\ back \in Seq(T) /\ Len(back) = Len(s) - i
      /\ \A j \in 1..Len(s) - i : back[j] = s[i + j]
    BY <1>1, SubSeqProperties
<1> HIDE DEF front, back
<1> DEFINE all == front \o back
<1>4. /\ all \in Seq(T) /\ Len(all) = Len(front) + Len(back)
      /\ \A j \in 1..Len(front) + Len(back) :
            all[j] = IF j <= Len(front) THEN front[j] ELSE back[j - Len(front)]
    BY <1>2, <1>3, ConcatProperties
<1> HIDE DEF all
<1>5. Len(all) = Len(s) - 1
    BY <1>1, <1>2, <1>3, <1>4
<1>6. ASSUME NEW j \in 1..Len(s) - 1 PROVE all[j] = IF j < i THEN s[j] ELSE s[j + 1]
    <2>1. all[j] = IF j <= i - 1 THEN front[j] ELSE back[j - (i - 1)]
        BY <1>1, <1>2, <1>3, <1>4
    <2>2. CASE j < i
        BY <1>1, <1>2, <2>1, <2>2
    <2>3. CASE ~(j < i)
        <3>1. j - (i - 1) \in 1..Len(s) - i /\ i + (j - (i - 1)) = j + 1
            BY <1>1, <2>3
        <3>2. all[j] = s[i + (j - (i - 1))]
            BY <1>1, <1>3, <2>1, <2>3, <3>1
        <3> QED BY <2>3, <3>1, <3>2
    <2> QED BY <2>2, <2>3
<1> QED BY <1>4, <1>5, <1>6 DEF RemoveAt, front, back, all

(* An entry taken out: the head of the FIFO, or a waiter that gives up.    *)
LEMMA ListsRemove ==
    ASSUME NEW S, NEW s, Lists(s, S), NEW i \in 1..Len(s), NEW c, c \in Seq(Jobs),
           Len(c) = Len(s) - 1,
           \A k \in 1..Len(s) - 1 : c[k] = IF k < i THEN s[k] ELSE s[k + 1]
    PROVE  Lists(c, S \ {s[i]})
<1>. DEFINE n == Len(s)
<1>1. n \in Nat /\ DOMAIN s = 1..n /\ DOMAIN c = 1..n - 1
  BY DEF Lists
<1>2. \A k, m \in 1..n : s[k] = s[m] => k = m
  BY <1>1 DEF Lists, IsInjective
<1>3. \A x : x \in S <=> \E k \in 1..n : s[k] = x
  BY <1>1 DEF Lists, ToSet
<1>4. \A k \in 1..n - 1 : \E m \in 1..n : m # i /\ c[k] = s[m] /\ m = IF k < i THEN k ELSE k + 1
  BY <1>1
<1>. HIDE DEF n
<1>5. IsInjective(c)
  <2>. SUFFICES ASSUME NEW k \in 1..n - 1, NEW l \in 1..n - 1, c[k] = c[l] PROVE k = l
    BY <1>1 DEF IsInjective
  <2>1. (IF k < i THEN k ELSE k + 1) = (IF l < i THEN l ELSE l + 1)
    BY <1>2, <1>4
  <2>. QED  BY <1>1, <2>1
<1>6. \A x : x \in ToSet(c) <=> x \in S /\ x # s[i]
  <2>1. ASSUME NEW k \in 1..n - 1 PROVE c[k] \in S /\ c[k] # s[i]
    BY <1>2, <1>3, <1>4 DEF n
  <2>2. ASSUME NEW m \in 1..n, m # i PROVE \E k \in 1..n - 1 : c[k] = s[m]
    <3>1. CASE m < i
      <4>1. m \in 1..n - 1
        BY <1>1, <3>1 DEF n
      <4>. QED  BY <3>1, <4>1 DEF n
    <3>2. CASE ~(m < i)
      <4>1. m - 1 \in 1..n - 1 /\ ~(m - 1 < i) /\ (m - 1) + 1 = m
        BY <1>1, <2>2, <3>2 DEF n
      <4>. QED  BY <4>1 DEF n
    <3>. QED  BY <3>1, <3>2
  <2>3. ToSet(c) = {c[k] : k \in 1..n - 1}
    BY <1>1 DEF ToSet
  <2>4. ASSUME NEW x \in S, x # s[i] PROVE x \in ToSet(c)
    <3>1. PICK m \in 1..n : s[m] = x
      BY <1>3
    <3>. QED  BY <2>2, <2>3, <2>4, <3>1
  <2>. QED  BY <2>1, <2>3, <2>4
<1>. QED  BY <1>5, <1>6 DEF Lists

(* A waiter that gives up leaves the FIFO. *)
LEMMA ListsRemoveAt ==
    ASSUME NEW S, NEW s, Lists(s, S), NEW i \in DOMAIN s
    PROVE  Lists(RemoveAt(s, i), S \ {s[i]}) /\ Len(RemoveAt(s, i)) <= Len(s)
<1>1. s \in Seq(Jobs) /\ i \in 1..Len(s) /\ Len(s) \in Nat
  BY DEF Lists
<1>. DEFINE c == RemoveAt(s, i)
<1>2. /\ c \in Seq(Jobs) /\ Len(c) = Len(s) - 1
      /\ \A k \in 1..Len(s) - 1 : c[k] = IF k < i THEN s[k] ELSE s[k + 1]
  BY <1>1, RemoveAtEntries
<1>. HIDE DEF c
<1>3. Lists(c, S \ {s[i]})
  BY <1>1, <1>2, ListsRemove, Zenon
<1>4. Len(c) <= Len(s)
  BY <1>1, <1>2
<1>. QED  BY <1>3, <1>4 DEF c

(* The head of the FIFO is claimed. *)
LEMMA ListsTail ==
    ASSUME NEW S, NEW s, Lists(s, S), s # <<>>
    PROVE  /\ Head(s) \in S /\ Lists(Tail(s), S \ {Head(s)}) /\ Len(Tail(s)) <= Len(s)
<1>1. s \in Seq(Jobs) /\ 1 \in 1..Len(s) /\ Len(s) \in Nat /\ DOMAIN s = 1..Len(s)
  BY DEF Lists
<1>2. Head(s) = s[1] /\ Tail(s) \in Seq(Jobs) /\ Len(Tail(s)) = Len(s) - 1
      /\ \A k \in 1..Len(s) - 1 : Tail(s)[k] = s[k + 1]
  BY <1>1, HeadTailProperties
<1>3. \A k \in 1..Len(s) - 1 : Tail(s)[k] = IF k < 1 THEN s[k] ELSE s[k + 1]
  BY <1>1, <1>2
<1>4. Lists(Tail(s), S \ {s[1]})
  BY <1>1, <1>2, <1>3, ListsRemove
<1>. QED  BY <1>1, <1>2, <1>4 DEF Lists, ToSet

(* A new waiter, or a new publication. *)
LEMMA ListsAppend ==
    ASSUME NEW S, NEW s, Lists(s, S), NEW j \in Jobs, j \notin S
    PROVE  Lists(Append(s, j), S \cup {j}) /\ Len(Append(s, j)) = Len(s) + 1
<1>. DEFINE c == Append(s, j)
            n == Len(s)
<1>1. n \in Nat /\ DOMAIN s = 1..n /\ s \in Seq(Jobs)
  BY DEF Lists
<1>2. /\ c \in Seq(Jobs) /\ Len(c) = n + 1 /\ DOMAIN c = 1..n + 1
      /\ c[n + 1] = j /\ \A k \in 1..n : c[k] = s[k]
  BY <1>1, AppendProperties
<1>. HIDE DEF c, n
<1>3. \A k \in 1..n + 1 : k \in 1..n \/ k = n + 1
  BY <1>1
<1>4. \A x : x \in S <=> \E k \in 1..n : s[k] = x
  BY <1>1 DEF Lists, ToSet
<1>5. \A x : x \in ToSet(c) <=> x \in S \/ x = j
  <2>1. \A k \in 1..n : k \in 1..n + 1
    BY <1>1
  <2>2. n + 1 \in 1..n + 1
    BY <1>1
  <2>. QED  BY <1>2, <1>3, <1>4, <2>1, <2>2 DEF ToSet
<1>6. IsInjective(c)
  <2>. SUFFICES ASSUME NEW k \in 1..n + 1, NEW l \in 1..n + 1, c[k] = c[l] PROVE k = l
    BY <1>2 DEF IsInjective
  <2>1. \A m \in 1..n : s[m] # j
    BY <1>4
  <2>2. \A m, o \in 1..n : s[m] = s[o] => m = o
    BY <1>1 DEF Lists, IsInjective
  <2>. QED  BY <1>2, <1>3, <2>1, <2>2
<1>. QED  BY <1>2, <1>5, <1>6 DEF Lists, c, n

-----------------------------------------------------------------------------
(* The shapes.  A delegation that waits has an admitted row, one that is   *)
(* about to start a claimed one; so no two coroutines move one row.  Only  *)
(* an ended job has a publication, and only a claimed one has holders.     *)
Places == {"idle", "wait", "start", "model", "publish", "deliver", "done"}
PubStates == {"none", "pending", "claimed", "published", "quarantined"}
Actors == {Delegation(j) : j \in Jobs} \cup {Worker(r) : r \in Runtimes}

Waiters == {j \in Jobs : job[j].state = "admitted"}
Finished == {j \in Jobs : job[j].state = "ended"}

Delegated ==
    /\ at \in [Jobs -> Places] /\ home \in [Jobs -> Runtimes \cup {Nobody}]
    /\ up \subseteq Runtimes
    /\ \A j \in Jobs : /\ at[j] = "idle" => job[j].state = "none"
                       /\ at[j] = "wait" => job[j].state = "admitted"
                       /\ at[j] = "start" => job[j].state = "claimed"

Queued == Lists(fifo, Waiters) /\ Len(fifo) <= MaxWaiters

PubsShaped ==
    /\ pub \in [Jobs -> [state : PubStates, attempts : 0..MaxAttempts]]
    /\ holders \in [Jobs -> SUBSET Actors]
    /\ worker \in [Runtimes -> Jobs \cup {Nobody}]
    /\ \A j \in Jobs : holders[j] # {} => pub[j].state = "claimed"

Published ==
    /\ PubsShaped
    /\ Lists(outbox, Finished)
    /\ \A j \in Jobs : pub[j].state # "none" => job[j].state = "ended"

Types == Delegated /\ Queued /\ Published

(* A job that was started late has no reading of the clock left by which   *)
(* its claim could be renewed or its result be finished.                   *)
LateRows ==
    /\ late \subseteq Jobs
    /\ \A j \in late : job[j].state \in {"running", "unknown"} /\ ~job[j].live

(* The invariants give the type invariant. *)
LEMMA TypesAreTypes == Rows /\ Types /\ LateRows => TypeOK
  BY DEF Rows, Types, LateRows, Delegated, Queued, Published, PubsShaped, Lists, Waiters, Finished, TypeOK, Places,
         PubStates

(* A row that changes its state. *)
LEMMA SetsStates ==
    ASSUME Rows, NEW j \in Jobs, NEW s \in States, NEW live \in BOOLEAN, Sets(j, s, live)
    PROVE  /\ job'[j].state = s
           /\ \A k \in Jobs : k # j => job'[k] = job[k]
           /\ Waiters' = IF s = "admitted" THEN Waiters \cup {j}
                                     ELSE Waiters \ {j}
           /\ Finished' = IF s = "ended" THEN Finished \cup {j}
                                  ELSE Finished \ {j}
<1>1. \A k \in Jobs : job'[k] = IF k = j THEN [state |-> s, live |-> live] ELSE job[k]
  BY DEF Rows, Sets
<1>. QED  BY <1>1 DEF Waiters, Finished

(* A delegation that goes on or ends. *)
LEMMA GoesMoves ==
    ASSUME Delegated, NEW j \in Jobs, NEW place \in Places, Goes(j, place)
    PROVE  /\ at' \in [Jobs -> Places] /\ home' \in [Jobs -> Runtimes \cup {Nobody}]
           /\ at'[j] \in {place, "done"}
           /\ \A k \in Jobs : k # j => at'[k] = at[k]
  BY DEF Delegated, Goes, Ends, Places

(* A step of one delegation, its row, or both. *)
LEMMA DelegationStep ==
    ASSUME Delegated, NEW j \in Jobs, up' \subseteq up,
           at' \in [Jobs -> Places], home' \in [Jobs -> Runtimes \cup {Nobody}],
           \A k \in Jobs : k # j => at'[k] = at[k] /\ job'[k] = job[k],
           /\ at'[j] = "idle" => job'[j].state = "none"
           /\ at'[j] = "wait" => job'[j].state = "admitted"
           /\ at'[j] = "start" => job'[j].state = "claimed"
    PROVE  Delegated'
  BY DEF Delegated

(* A step that leaves the publications alone. *)
LEMMA SamePublished ==
    ASSUME Published, UNCHANGED <<pub, outbox, holders, worker>>,
           Finished' = Finished
    PROVE  Published'
<1>1. PubsShaped' /\ Lists(outbox, Finished)'
  BY DEF Published, PubsShaped
<1>2. \A j \in Jobs : pub'[j].state # "none" => job'[j].state = "ended"
  <2>. SUFFICES ASSUME NEW j \in Jobs, pub'[j].state # "none" PROVE job'[j].state = "ended"
    OBVIOUS
  <2>1. j \in Finished
    BY DEF Published, Finished
  <2>2. j \in Finished'
    BY <2>1
  <2>. QED  BY <2>2 DEF Waiters, Finished
<1>. QED  BY <1>1, <1>2 DEF Published

(* Admit: the row and the waiter are new. *)
LEMMA AdmitTypes ==
    ASSUME Rows, Types, NEW j \in Jobs, NEW r \in Runtimes, Admit(j, r)
    PROVE  Types'
<1>. USE DEF jobs, pubs
<1>1. /\ at[j] = "idle" /\ job[j].state = "none"
      /\ UNCHANGED <<up, worker, pub, outbox, holders>>
  BY DEF Admit, Types, Delegated
<1>2. j \notin Waiters /\ j \notin Finished
  BY <1>1 DEF Waiters, Finished
<1>3. ASSUME NEW place \in Places,
             Ends(j) \/ (at' = [at EXCEPT ![j] = place] /\ home' = [home EXCEPT ![j] = r])
      PROVE  /\ at' \in [Jobs -> Places] /\ home' \in [Jobs -> Runtimes \cup {Nobody}]
             /\ at'[j] \in {place, "done"}
             /\ \A k \in Jobs : k # j => at'[k] = at[k]
  BY <1>3 DEF Types, Delegated, Ends, Places
<1>4. CASE /\ Sets(j, "claimed", TRUE) /\ UNCHANGED fifo
           /\ Ends(j) \/ (at' = [at EXCEPT ![j] = "start"] /\ home' = [home EXCEPT ![j] = r])
  <2>1. Delegated'
    <3>1. job'[j].state = "claimed" /\ \A k \in Jobs : k # j => job'[k] = job[k]
      BY <1>4, SetsStates DEF States
    <3>2. "start" \in Places
      BY DEF Places
    <3>. QED  BY <1>1, <1>3, <1>4, <3>1, <3>2, DelegationStep DEF Types
  <2>2. Waiters' = Waiters /\ Finished' = Finished
    <3>1. Waiters' = Waiters \ {j} /\ Finished' = Finished \ {j}
      BY <1>4, SetsStates DEF States
    <3>. QED  BY <1>2, <3>1
  <2>3. Queued'
    BY <1>4, <2>2 DEF Types, Queued
  <2>. QED  BY <1>1, <2>1, <2>2, <2>3, SamePublished DEF Types
<1>5. CASE /\ Sets(j, "admitted", FALSE) /\ fifo' = Append(fifo, j) /\ Len(fifo) < MaxWaiters
           /\ Ends(j) \/ (at' = [at EXCEPT ![j] = "wait"] /\ home' = [home EXCEPT ![j] = r])
  <2>1. Delegated'
    <3>1. job'[j].state = "admitted" /\ \A k \in Jobs : k # j => job'[k] = job[k]
      BY <1>5, SetsStates DEF States
    <3>2. "wait" \in Places
      BY DEF Places
    <3>. QED  BY <1>1, <1>3, <1>5, <3>1, <3>2, DelegationStep DEF Types
  <2>2. /\ Waiters' = Waiters \cup {j}
        /\ Finished' = Finished
    <3>1. Waiters' = Waiters \cup {j} /\ Finished' = Finished \ {j}
      BY <1>5, SetsStates DEF States
    <3>. QED  BY <1>2, <3>1
  <2>3. Queued'
    <3>1. Lists(Append(fifo, j), Waiters \cup {j})
          /\ Len(Append(fifo, j)) = Len(fifo) + 1
      BY <1>2, ListsAppend DEF Types, Queued
    <3>2. Len(fifo) \in Nat
      BY DEF Types, Queued, Lists
    <3>. QED  BY <1>5, <2>2, <3>1, <3>2, AgentAssumption DEF Queued, Lists
  <2>. QED  BY <1>1, <2>1, <2>2, <2>3, SamePublished DEF Types
<1>6. CASE Ends(j) /\ UNCHANGED <<job, fifo>>
  <2>1. Delegated'
    <3>1. "done" \in Places
      BY DEF Places
    <3>2. at' \in [Jobs -> Places] /\ home' \in [Jobs -> Runtimes \cup {Nobody}]
          /\ at'[j] = "done" /\ \A k \in Jobs : k # j => at'[k] = at[k]
      BY <1>3, <1>6, <3>1
    <3>. QED  BY <1>1, <1>6, <3>2, DelegationStep DEF Types
  <2>2. Waiters' = Waiters /\ Finished' = Finished
    BY <1>6 DEF Waiters, Finished
  <2>. QED  BY <1>1, <1>6, <2>1, <2>2, SamePublished DEF Types, Queued
<1>. QED  BY <1>4, <1>5, <1>6 DEF Admit

(* A delegation that goes on without its row. *)
LEMMA SameRow ==
    ASSUME Types, NEW j \in Jobs, NEW place \in {"publish", "deliver", "done"},
           Goes(j, place) \/ Ends(j), UNCHANGED <<job, fifo, up>>
    PROVE  Delegated' /\ Queued' /\ Finished' = Finished
<1>1. place \in Places /\ (Goes(j, place) \/ Ends(j) => Goes(j, place))
  BY DEF Places, Goes
<1>2. Delegated'
  BY <1>1, GoesMoves, DelegationStep DEF Types
<1>. QED  BY <1>2 DEF Types, Queued, Waiters, Finished

(* ClaimTurn: the head of the FIFO is claimed. *)
LEMMA ClaimTurnTypes ==
    ASSUME Rows, Types, NEW j \in Jobs, ClaimTurn(j)
    PROVE  Types'
<1>. USE DEF jobs, pubs
<1>1. /\ fifo # <<>> /\ Head(fifo) = j /\ fifo' = Tail(fifo) /\ Sets(j, "claimed", TRUE)
      /\ Goes(j, "start") /\ UNCHANGED <<up, worker, pub, outbox, holders>>
  BY DEF ClaimTurn
<1>2. "start" \in Places
  BY DEF Places
<1>3. /\ job'[j].state = "claimed" /\ \A k \in Jobs : k # j => job'[k] = job[k]
      /\ Waiters' = Waiters \ {j} /\ Finished' = Finished \ {j}
  BY <1>1, SetsStates DEF States
<1>4. j \in Waiters /\ Lists(Tail(fifo), Waiters \ {j}) /\ Len(Tail(fifo)) <= Len(fifo)
  BY <1>1, ListsTail DEF Types, Queued
<1>5. Finished' = Finished
  BY <1>3, <1>4 DEF Waiters, Finished
<1>6. Delegated'
  BY <1>1, <1>2, <1>3, GoesMoves, DelegationStep DEF Types
<1>7. Queued'
  <2>1. Len(fifo) \in Nat /\ Len(Tail(fifo)) \in Nat /\ Len(fifo) <= MaxWaiters
    BY <1>4 DEF Types, Queued, Lists
  <2>. QED  BY <1>1, <1>3, <1>4, <2>1, AgentAssumption DEF Queued
<1>. QED  BY <1>1, <1>5, <1>6, <1>7, SamePublished DEF Types

(* GiveUp: the waiter leaves the FIFO, or its row stays admitted. *)
LEMMA GiveUpTypes ==
    ASSUME Rows, Types, NEW j \in Jobs, GiveUp(j)
    PROVE  Types'
<1>. USE DEF jobs, pubs
<1>1. /\ at[j] = "wait" /\ Ends(j) /\ UNCHANGED <<up, worker, pub, outbox, holders>>
  BY DEF GiveUp
<1>2. CASE UNCHANGED <<job, fifo>>
  BY <1>1, <1>2, SameRow, SamePublished DEF Types
<1>3. CASE Withdraws(j)
  <2>1. Sets(j, "cancelled", FALSE)
    BY <1>3 DEF Withdraws
  <2>2. /\ job'[j].state = "cancelled" /\ \A k \in Jobs : k # j => job'[k] = job[k]
        /\ Waiters' = Waiters \ {j} /\ Finished' = Finished \ {j}
    BY <2>1, SetsStates DEF States
  <2>3. j \notin Finished
    BY <1>1 DEF Types, Delegated, Finished
  <2>4. "done" \in Places /\ Goes(j, "done")
    BY <1>1 DEF Places, Goes
  <2>5. Delegated'
    BY <1>1, <2>2, <2>4, GoesMoves, DelegationStep DEF Types
  <2>6. Queued'
    <3>1. PICK i \in DOMAIN fifo : fifo[i] = j /\ fifo' = RemoveAt(fifo, i)
      BY <1>3 DEF Withdraws
    <3>2. Lists(RemoveAt(fifo, i), Waiters \ {j}) /\ Len(RemoveAt(fifo, i)) <= Len(fifo)
      BY <3>1, ListsRemoveAt DEF Types, Queued
    <3>3. Len(fifo) \in Nat /\ Len(RemoveAt(fifo, i)) \in Nat /\ Len(fifo) <= MaxWaiters
      BY <3>2 DEF Types, Queued, Lists
    <3>. QED  BY <2>2, <3>1, <3>2, <3>3, AgentAssumption DEF Queued
  <2>. QED  BY <1>1, <2>2, <2>3, <2>5, <2>6, SamePublished DEF Types
<1>. QED  BY <1>2, <1>3 DEF GiveUp

(* A step of a row that does not wait and has no publication. *)
LEMMA RowTypes ==
    ASSUME Types, Delegated', UNCHANGED <<fifo, pub, outbox, holders, worker>>,
           Waiters' = Waiters, Finished' = Finished
    PROVE  Types'
  BY SamePublished DEF Types, Queued

(* Start, RenewLate, ExpireJob and MarkUnknown. *)
LEMMA RunningTypes ==
    ASSUME Rows, Types, NEW j \in Jobs,
           Start(j) \/ RenewLate(j) \/ ExpireJob(j) \/ MarkUnknown(j)
    PROVE  Types'
<1>. USE DEF pubs
<1>1. CASE Start(j)
  <2>1. /\ at[j] = "start" /\ UNCHANGED <<fifo, up, worker, pub, outbox, holders>>
    BY <1>1 DEF Start
  <2>2. CASE Sets(j, "running", job[j].live) /\ Goes(j, "model")
    <3>1. /\ job'[j].state = "running" /\ \A k \in Jobs : k # j => job'[k] = job[k]
          /\ Waiters' = Waiters \ {j} /\ Finished' = Finished \ {j}
      <4>1. job[j].live \in BOOLEAN /\ "running" \in States
        BY DEF Rows, States
      <4>. QED  BY <2>2, <4>1, SetsStates
    <3>2. j \notin Waiters /\ j \notin Finished
      BY <2>1 DEF Types, Delegated, Waiters, Finished
    <3>3. "model" \in Places
      BY DEF Places
    <3>4. Delegated'
      BY <2>1, <2>2, <3>1, <3>3, GoesMoves, DelegationStep DEF Types
    <3>. QED  BY <2>1, <3>1, <3>2, <3>4, RowTypes
  <2>3. CASE Ends(j) /\ UNCHANGED job
    BY <2>1, <2>3, SameRow, SamePublished DEF Types
  <2>. QED  BY <1>1, <2>2, <2>3 DEF Start
<1>2. CASE ExpireJob(j)
  <2>1. \A k \in Jobs : job'[k].state = job[k].state
    BY <1>2 DEF ExpireJob, Rows
  <2>. QED  BY <1>2, <2>1, RowTypes DEF ExpireJob, Types, Delegated, Waiters, Finished
<1>3. CASE MarkUnknown(j)
  <2>1. /\ job'[j].state = "unknown" /\ \A k \in Jobs : k # j => job'[k] = job[k]
        /\ Waiters' = Waiters \ {j} /\ Finished' = Finished \ {j}
    BY <1>3, SetsStates DEF MarkUnknown, States
  <2>2. job[j].state = "running" /\ j \notin Waiters /\ j \notin Finished
    BY <1>3 DEF MarkUnknown, Waiters, Finished
  <2>3. Delegated'
    BY <1>3, <2>1, <2>2 DEF MarkUnknown, Types, Delegated
  <2>. QED  BY <1>3, <2>1, <2>2, <2>3, RowTypes DEF MarkUnknown
<1>4. CASE RenewLate(j)
  <2>1. /\ job'[j].state = "running" /\ \A k \in Jobs : k # j => job'[k] = job[k]
        /\ Waiters' = Waiters \ {j} /\ Finished' = Finished \ {j}
    BY <1>4, SetsStates DEF RenewLate, States
  <2>2. job[j].state = "running" /\ j \notin Waiters /\ j \notin Finished
    BY <1>4 DEF RenewLate, Waiters, Finished
  <2>3. Delegated'
    BY <1>4, <2>1, <2>2 DEF RenewLate, Types, Delegated
  <2>. QED  BY <1>4, <2>1, <2>2, <2>3, RowTypes DEF RenewLate
<1>. QED  BY <1>1, <1>2, <1>3, <1>4

(* Finish: the publication is new, and comes behind the others. *)
LEMMA FinishTypes ==
    ASSUME Rows, Types, NEW j \in Jobs, Finish(j)
    PROVE  Types'
<1>. USE DEF jobs, pubs
<1>1. at[j] = "model" /\ UNCHANGED <<up, worker>>
  BY DEF Finish
<1>2. CASE Ends(j) /\ UNCHANGED <<jobs, pubs>>
  BY <1>1, <1>2, SameRow, SamePublished DEF Types
<1>3. CASE /\ job[j].state = "running" /\ Sets(j, "ended", FALSE) /\ UNCHANGED fifo
           /\ pub' = [pub EXCEPT ![j].state = "pending"] /\ outbox' = Append(outbox, j)
           /\ UNCHANGED holders /\ Goes(j, "publish")
  <2>1. /\ job'[j].state = "ended" /\ \A k \in Jobs : k # j => job'[k] = job[k]
        /\ Waiters' = Waiters \ {j} /\ Finished' = Finished \cup {j}
    BY <1>3, SetsStates DEF States
  <2>2. j \notin Waiters /\ j \notin Finished /\ pub[j].state = "none" /\ holders[j] = {}
    BY <1>3 DEF Types, Published, PubsShaped, Waiters, Finished
  <2>3. "publish" \in Places
    BY DEF Places
  <2>4. Delegated'
    BY <1>1, <1>3, <2>1, <2>3, GoesMoves, DelegationStep DEF Types
  <2>5. Queued'
    <3>1. Waiters' = Waiters
      BY <2>1, <2>2
    <3>. QED  BY <1>3, <3>1 DEF Types, Queued
  <2>6. PubsShaped'
    BY <1>1, <1>3, <2>2 DEF Types, Published, PubsShaped, PubStates
  <2>7. Lists(outbox', Finished')
    BY <1>3, <2>1, <2>2, ListsAppend DEF Types, Published
  <2>8. \A k \in Jobs : pub'[k].state # "none" => job'[k].state = "ended"
    BY <1>3, <2>1 DEF Types, Published, PubsShaped
  <2>9. Published'
    BY <2>6, <2>7, <2>8 DEF Published
  <2>. QED  BY <2>4, <2>5, <2>9 DEF Types
<1>. QED  BY <1>2, <1>3 DEF Finish

-----------------------------------------------------------------------------
(* The publications.                                                       *)

(* A step of one publication that is already there. *)
LEMMA PubStep ==
    ASSUME Published, NEW j \in Jobs, UNCHANGED outbox, Finished' = Finished,
           pub' \in [Jobs -> [state : PubStates, attempts : 0..MaxAttempts]],
           holders' \in [Jobs -> SUBSET Actors], worker' \in [Runtimes -> Jobs \cup {Nobody}],
           \A k \in Jobs : k # j => pub'[k] = pub[k] /\ holders'[k] = holders[k],
           holders'[j] # {} => pub'[j].state = "claimed",
           pub[j].state = "none" => pub'[j].state = "none"
    PROVE  Published'
<1>1. PubsShaped'
  BY DEF Published, PubsShaped
<1>2. Lists(outbox', Finished')
  BY DEF Published
<1>3. ASSUME NEW k \in Jobs, pub'[k].state # "none" PROVE job'[k].state = "ended"
  <2>1. pub[k].state # "none"
    BY <1>3
  <2>2. k \in Finished
    BY <2>1 DEF Published, Finished
  <2>3. k \in Finished'
    BY <2>2
  <2>. QED  BY <2>3 DEF Finished
<1>. QED  BY <1>1, <1>2, <1>3 DEF Published

(* A claim, a settlement or a release of a publication. *)
LEMMA ClaimOrSettle ==
    ASSUME Published, NEW j \in Jobs, NEW a \in Actors, Finished' = Finished,
           worker' \in [Runtimes -> Jobs \cup {Nobody}],
           \/ MayClaim(j) /\ Claims(a, j)
           \/ \E s \in {"pending", "published", "quarantined"} : HasClaim(a, j) /\ Settles(a, j, s)
    PROVE  Published'
<1>1. CASE MayClaim(j) /\ Claims(a, j)
  <2>. DEFINE n == Counts(pub[j].attempts)
              p == [state |-> "claimed", attempts |-> n]
  <2>1. n \in 0..MaxAttempts
    BY AgentAssumption DEF Counts, Published, PubsShaped
  <2>2. pub' = [pub EXCEPT ![j] = p] /\ holders' = [holders EXCEPT ![j] = {a}] /\ UNCHANGED outbox
    BY <1>1 DEF Claims
  <2>. HIDE DEF n
  <2>3. p \in [state : PubStates, attempts : 0..MaxAttempts] /\ p.state = "claimed"
    BY <2>1 DEF PubStates
  <2>. HIDE DEF p
  <2>4. pub[j].state # "none"
    BY <1>1 DEF MayClaim
  <2>. QED  BY <2>2, <2>3, <2>4, PubStep DEF Published, PubsShaped
<1>2. ASSUME NEW s \in {"pending", "published", "quarantined"}, HasClaim(a, j), Settles(a, j, s)
      PROVE  Published'
  <2>1. pub' = [pub EXCEPT ![j] = [@ EXCEPT !.state = s]]
        /\ holders' = [holders EXCEPT ![j] = {}] /\ UNCHANGED outbox
    BY <1>2 DEF Settles
  <2>2. pub[j].state = "claimed"
    BY <1>2 DEF HasClaim, Published, PubsShaped
  <2>3. pub' \in [Jobs -> [state : PubStates, attempts : 0..MaxAttempts]]
    BY <2>1 DEF Published, PubsShaped, PubStates
  <2>. QED  BY <2>1, <2>2, <2>3, PubStep DEF Published, PubsShaped
<1>. QED  BY <1>1, <1>2

LEMMA SamePubs ==
    ASSUME Published, Finished' = Finished, UNCHANGED <<pub, outbox, holders>>,
           worker' \in [Runtimes -> Jobs \cup {Nobody}]
    PROVE  Published'
<1>1. PubsShaped'
  BY DEF Published, PubsShaped
<1>2. \A k \in Jobs : pub'[k].state # "none" => job'[k].state = "ended"
  <2>. SUFFICES ASSUME NEW k \in Jobs, pub'[k].state # "none" PROVE job'[k].state = "ended"
    OBVIOUS
  <2>1. k \in Finished
    BY DEF Published, Finished
  <2>2. k \in Finished'
    BY <2>1
  <2>. QED  BY <2>2 DEF Finished
<1>. QED  BY <1>1, <1>2 DEF Published

(* Publish: the delegation claims, joins its runtime's worker, or ends. *)
LEMMA PublishTypes ==
    ASSUME Types, NEW j \in Jobs, Publish(j)
    PROVE  Types'
<1>. USE DEF jobs, pubs
<1>. DEFINE a == Delegation(j)
<1>1. UNCHANGED <<job, fifo, up, worker>> /\ a \in Actors
  BY DEF Publish, Actors
<1>2. Goes(j, "deliver") \/ Ends(j)
  BY DEF Publish
<1>3. Delegated' /\ Queued' /\ Finished' = Finished
  BY <1>1, <1>2, SameRow
<1>4. worker' \in [Runtimes -> Jobs \cup {Nobody}]
  BY <1>1 DEF Types, Published, PubsShaped
<1>5. CASE MayClaim(j) /\ Claims(a, j)
  BY <1>1, <1>3, <1>4, <1>5, ClaimOrSettle DEF Types
<1>6. CASE UNCHANGED <<pub, outbox, holders>>
  BY <1>3, <1>4, <1>6, SamePubs DEF Types
<1>7. CASE /\ Worker(home[j]) \in holders[j]
           /\ holders' = [holders EXCEPT ![j] = @ \cup {a}] /\ UNCHANGED <<pub, outbox>>
  <2>1. pub[j].state = "claimed"
    BY <1>7 DEF Types, Published, PubsShaped
  <2>2. holders' \in [Jobs -> SUBSET Actors]
    BY <1>1, <1>7 DEF Types, Published, PubsShaped
  <2>. HIDE DEF a
  <2>3. Published'
    BY <1>3, <1>4, <1>7, <2>1, <2>2, PubStep DEF Types, Published, PubsShaped
  <2>. QED  BY <1>3, <2>3 DEF Types
<1>. QED  BY <1>5, <1>6, <1>7 DEF Publish

(* Deliver and the worker: publications settle, are released, or stay. *)
LEMMA DeliverTypes ==
    ASSUME Types, NEW j \in Jobs, Deliver(j)
    PROVE  Types'
<1>. USE DEF jobs, pubs
<1>. DEFINE a == Delegation(j)
<1>1. UNCHANGED <<job, fifo, up, worker>> /\ a \in Actors /\ Ends(j)
  BY DEF Deliver, Actors
<1>2. Delegated' /\ Queued' /\ Finished' = Finished
  BY <1>1, SameRow
<1>3. worker' \in [Runtimes -> Jobs \cup {Nobody}]
  BY <1>1 DEF Types, Published, PubsShaped
<1>4. CASE \E s \in {"pending", "published", "quarantined"} : HasClaim(a, j) /\ Settles(a, j, s)
  BY <1>1, <1>2, <1>3, <1>4, ClaimOrSettle DEF Types
<1>5. CASE UNCHANGED <<pub, outbox, holders>>
  BY <1>2, <1>3, <1>5, SamePubs DEF Types
<1>. QED  BY <1>4, <1>5 DEF Deliver, Delivers, Releases

LEMMA WorkerTypes ==
    ASSUME Types, NEW r \in Runtimes, Works(r)
    PROVE  Types'
<1>. USE DEF jobs, pubs
<1>1. UNCHANGED <<job, fifo, at, home, up>> /\ Worker(r) \in Actors
  BY DEF Works, ClaimNext, WorkerDelivers, WorkerQuarantines, WorkerReleases, Actors
<1>2. Delegated' /\ Queued' /\ Finished' = Finished
  BY <1>1 DEF Types, Delegated, Queued, Waiters, Finished
<1>3. worker' \in [Runtimes -> Jobs \cup {Nobody}]
  BY DEF Works, ClaimNext, WorkerDelivers, WorkerQuarantines, WorkerReleases, WorkerIdles,
         Types, Published, PubsShaped
<1>4. CASE ClaimNext(r)
  <2>1. PICK j \in Jobs : MayClaim(j) /\ Claims(Worker(r), j)
    BY <1>4 DEF ClaimNext, IsNext
  <2>. QED  BY <1>1, <1>2, <1>3, <2>1, ClaimOrSettle DEF Types
<1>5. CASE WorkerDelivers(r) \/ WorkerQuarantines(r) \/ WorkerReleases(r)
  <2>1. worker[r] \in Jobs
    BY <1>5 DEF WorkerDelivers, WorkerQuarantines, WorkerReleases, Delivering, Types, Published,
                PubsShaped
  <2>. DEFINE j == worker[r]
  <2>2. CASE \E s \in {"pending", "published", "quarantined"} :
                HasClaim(Worker(r), j) /\ Settles(Worker(r), j, s)
    BY <1>1, <1>2, <1>3, <2>1, <2>2, ClaimOrSettle DEF Types
  <2>3. CASE UNCHANGED <<pub, outbox, holders>>
    BY <1>2, <1>3, <2>3, SamePubs DEF Types
  <2>. QED
    BY <1>5, <2>2, <2>3 DEF WorkerDelivers, WorkerQuarantines, WorkerReleases, Delivers, Releases
<1>. QED  BY <1>4, <1>5 DEF Works

(* A claim expires, or a runtime dies with its delegations. *)
LEMMA LossTypes ==
    ASSUME Types, (\E j \in Jobs : ExpirePublication(j)) \/ \E r \in Runtimes : Crash(r)
    PROVE  Types'
<1>. USE DEF jobs, pubs
<1>1. ASSUME NEW j \in Jobs, ExpirePublication(j) PROVE Types'
  <2>1. UNCHANGED <<job, fifo, at, home, up, worker, pub, outbox>>
        /\ holders' = [holders EXCEPT ![j] = {}]
    BY <1>1 DEF ExpirePublication
  <2>2. Delegated' /\ Queued' /\ Finished' = Finished
    BY <2>1 DEF Types, Delegated, Queued, Waiters, Finished
  <2>. QED  BY <2>1, <2>2, PubStep DEF Types, Published, PubsShaped
<1>2. ASSUME NEW r \in Runtimes, Crash(r) PROVE Types'
  <2>1. UNCHANGED <<job, fifo, pub, outbox, holders>>
        /\ worker' = [worker EXCEPT ![r] = Nobody]
    BY <1>2 DEF Crash, WorkerIdles
  <2>2. Delegated'
    BY <1>2 DEF Crash, Types, Delegated, Places
  <2>3. Queued' /\ Finished' = Finished
    BY <2>1 DEF Types, Queued, Waiters, Finished
  <2>4. worker' \in [Runtimes -> Jobs \cup {Nobody}]
    BY <2>1 DEF Types, Published, PubsShaped
  <2>. QED  BY <2>1, <2>2, <2>3, <2>4, SamePubs DEF Types
<1>. QED  BY <1>1, <1>2

LEMMA TypesInit == Init => Types
<1>. SUFFICES ASSUME Init PROVE Types
  OBVIOUS
<1>1. Waiters = {} /\ Finished = {}
  BY DEF Init, Waiters, Finished
<1>2. Lists(<<>>, {})
  BY DEF Lists, IsInjective, ToSet
<1>3. Queued
  BY <1>1, <1>2, AgentAssumption DEF Init, Queued
<1>4. Delegated
  BY DEF Init, Delegated, Places
<1>5. PubsShaped
  <2>1. [state |-> "none", attempts |-> 0] \in [state : PubStates, attempts : 0..MaxAttempts]
    BY AgentAssumption DEF PubStates
  <2>. QED  BY <2>1 DEF Init, PubsShaped
<1>6. Published
  BY <1>1, <1>2, <1>5 DEF Init, Published
<1>. QED  BY <1>3, <1>4, <1>6 DEF Types

LEMMA TypesStep == Rows /\ Types /\ [Next]_vars => Types'
<1>. SUFFICES ASSUME Rows, Types, [Next]_vars PROVE Types'
  OBVIOUS
<1>1. CASE UNCHANGED vars
  BY <1>1 DEF vars, jobs, pubs, Types, Delegated, Queued, Published, PubsShaped, Waiters, Finished
<1>2. ASSUME NEW j \in Jobs, NEW r \in Runtimes, Admit(j, r) PROVE Types'
  BY <1>2, AdmitTypes
<1>3. ASSUME NEW j \in Jobs,
             Executes(j) \/ GiveUp(j) \/ MarkUnknown(j) \/ RenewLate(j) \/ ExpireJob(j)
      PROVE  Types'
  BY <1>3, ClaimTurnTypes, GiveUpTypes, RunningTypes, FinishTypes, PublishTypes, DeliverTypes
     DEF Executes
<1>4. ASSUME NEW j \in Jobs, ExpirePublication(j) PROVE Types'
  BY <1>4, LossTypes
<1>5. ASSUME NEW r \in Runtimes, Works(r) \/ Crash(r) PROVE Types'
  BY <1>5, WorkerTypes, LossTypes
<1>. QED  BY <1>1, <1>2, <1>3, <1>4, <1>5 DEF Next

-----------------------------------------------------------------------------
(* A row that changes its state, of a job that was not started late or     *)
(* whose outcome is declared unknown.                                      *)
LEMMA SetsLate ==
    ASSUME Rows, LateRows, NEW j \in Jobs, NEW s \in States, NEW live \in BOOLEAN,
           Sets(j, s, live), j \in late => s = "unknown" /\ ~live
    PROVE  LateRows'
<1>1. \A k \in Jobs : job'[k] = IF k = j THEN [state |-> s, live |-> live] ELSE job[k]
  BY DEF Rows, Sets
<1>2. late' = IF s = "running" /\ ~live THEN late \cup {j} ELSE late
  BY DEF Sets
<1>. QED  BY <1>1, <1>2 DEF LateRows

LEMMA LateInit == Init => LateRows
  BY DEF Init, LateRows

LEMMA LateStep == Rows /\ Types /\ LateRows /\ [Next]_vars => LateRows'
<1>. SUFFICES ASSUME Rows, Types, LateRows, [Next]_vars PROVE LateRows'
  OBVIOUS
<1>. USE DEF jobs
<1>1. ASSUME UNCHANGED <<job, late>> PROVE LateRows'
  BY <1>1 DEF LateRows
<1>2. ASSUME NEW j \in Jobs,
             NEW s \in {"claimed", "admitted", "cancelled", "running", "ended", "unknown"},
             NEW live \in BOOLEAN, Sets(j, s, live), j \in late => s = "unknown" /\ ~live
      PROVE  LateRows'
  BY <1>2, SetsLate DEF States
<1>3. ASSUME NEW j \in Jobs, at[j] \in {"idle", "wait", "start"} PROVE j \notin late
  BY <1>3 DEF Types, Delegated, LateRows
<1>4. ASSUME NEW j \in Jobs, NEW r \in Runtimes, Admit(j, r) PROVE LateRows'
  BY <1>1, <1>2, <1>3, <1>4 DEF Admit
<1>5. ASSUME NEW j \in Jobs, ClaimTurn(j) \/ GiveUp(j) PROVE LateRows'
  BY <1>1, <1>2, <1>3, <1>5 DEF ClaimTurn, GiveUp, Withdraws
<1>6. ASSUME NEW j \in Jobs, Start(j) PROVE LateRows'
  <2>1. job[j].live \in BOOLEAN /\ j \notin late
    BY <1>3, <1>6 DEF Start, Rows
  <2>2. CASE Sets(j, "running", job[j].live)
    BY <1>2, <2>1, <2>2
  <2>. QED  BY <1>1, <1>6, <2>2 DEF Start
<1>7. ASSUME NEW j \in Jobs, Finish(j) \/ RenewLate(j) PROVE LateRows'
  <2>1. CASE JudgedLive(j) /\ (Sets(j, "ended", FALSE) \/ Sets(j, "running", TRUE))
    <3>1. j \notin late
      BY <2>1 DEF JudgedLive, LateRows
    <3>. QED  BY <1>2, <2>1, <3>1
  <2>. QED  BY <1>1, <1>7, <2>1 DEF Finish, RenewLate
<1>8. ASSUME NEW j \in Jobs, MarkUnknown(j) PROVE LateRows'
  BY <1>2, <1>8 DEF MarkUnknown
<1>9. ASSUME NEW j \in Jobs, ExpireJob(j) PROVE LateRows'
  BY <1>9 DEF ExpireJob, Rows, LateRows
<1>10. ASSUME NEW j \in Jobs, Publish(j) \/ Deliver(j) \/ ExpirePublication(j) PROVE LateRows'
  BY <1>1, <1>10 DEF Publish, Deliver, ExpirePublication
<1>11. ASSUME NEW r \in Runtimes, Works(r) \/ Crash(r) PROVE LateRows'
  BY <1>1, <1>11 DEF Works, ClaimNext, WorkerDelivers, WorkerQuarantines, WorkerReleases, Crash
<1>12. CASE UNCHANGED vars
  BY <1>1, <1>12 DEF vars
<1>. QED
  BY <1>4, <1>5, <1>6, <1>7, <1>8, <1>9, <1>10, <1>11, <1>12 DEF Next, Executes

(* The FIFO lists exactly the admitted jobs and the outbox the ended ones, *)
(* each once, whoever gives up, crashes or fails; a publication has        *)
(* holders only while it is claimed; and a job that was started late never *)
(* ends with a result.                                                     *)
THEOREM RowsAreListed == Spec => []TypeOK
<1>1. Rows /\ Types /\ LateRows => TypeOK
  BY TypesAreTypes
<1>2. Inv => Rows
  BY DEF Inv
<1>. QED
  BY <1>1, <1>2, InvInit, InvStep, TypesInit, TypesStep, LateInit, LateStep, PTL DEF Spec

(* What is delivered or quarantined stays so: a late actor, or one of      *)
(* another runtime, neither delivers a result again nor gives it back.     *)
THEOREM SettledForGood == Spec => SettledStays
<1>1. ASSUME Types, [Next]_vars, NEW j \in Jobs, Settled(j) PROVE pub'[j] = pub[j]
  <2>. USE DEF pubs
  <2>1. pub[j].state \in {"published", "quarantined"} /\ holders[j] = {}
    BY <1>1 DEF Settled, Types, Published, PubsShaped
  <2>2. ~MayClaim(j) /\ \A a : ~HasClaim(a, j)
    BY <2>1 DEF MayClaim, HasClaim
  <2>3. job[j].state = "ended"
    BY <1>1, <2>1 DEF Types, Published
  <2>4. ASSUME NEW k \in Jobs, NEW a, MayClaim(k), Claims(a, k) PROVE pub'[j] = pub[j]
    BY <1>1, <2>2, <2>4 DEF Claims, Types, Published, PubsShaped
  <2>5. ASSUME NEW k \in Jobs, NEW a, NEW s, HasClaim(a, k), Settles(a, k, s)
        PROVE  pub'[j] = pub[j]
    BY <1>1, <2>2, <2>5 DEF Settles, Types, Published, PubsShaped
  <2>6. ASSUME NEW k \in Jobs, Finish(k) PROVE pub'[j] = pub[j]
    BY <1>1, <2>3, <2>6 DEF Finish, Types, Published, PubsShaped
  <2>7. ASSUME NEW k \in Jobs, Publish(k) \/ Deliver(k) PROVE pub'[j] = pub[j]
    BY <2>4, <2>5, <2>7 DEF Publish, Deliver, Delivers, Releases
  <2>8. ASSUME NEW r \in Runtimes, Works(r) PROVE pub'[j] = pub[j]
    <3>1. worker[r] \in Jobs \/ worker[r] = Nobody
      BY <1>1, <2>8 DEF Types, Published, PubsShaped
    <3>. QED
      BY <2>4, <2>5, <2>8, <3>1 DEF Works, ClaimNext, IsNext, WorkerDelivers, WorkerQuarantines,
         WorkerReleases, Delivering, Delivers, Releases
  <2>9. CASE UNCHANGED pub
    BY <2>9
  <2>. QED
    BY <1>1, <2>6, <2>7, <2>8, <2>9 DEF Next, Executes, Admit, ClaimTurn, GiveUp, Start, ExpireJob,
       MarkUnknown, RenewLate, ExpirePublication, Crash, vars
<1>2. Types /\ [Next]_vars => \A j \in Jobs : Settled(j) => pub'[j] = pub[j]
  BY <1>1
<1>3. Inv => Rows
  BY DEF Inv
<1>. QED
  BY <1>2, <1>3, InvInit, InvStep, TypesInit, TypesStep, PTL DEF Spec, SettledStays

=============================================================================
