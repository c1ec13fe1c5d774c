----------------------------- MODULE PermitProofs -----------------------------
(***************************************************************************)
(* Theorems about the two modules in which tasks wait for a permit: that of *)
(* execution (ExecutionScheduler) and those of the RPC gate (RpcGate).  The *)
(* two share no state.                                                     *)
(***************************************************************************)
EXTENDS ExecutionScheduler, RpcGate, FiniteSetTheorems, TLAPS

-----------------------------------------------------------------------------
(***************************************************************************)
(* Theorems about ExecutionScheduler for any number of tasks, any requests *)
(* the callers may make, any deferral and any number of acquisitions.      *)
(*                                                                         *)
(* Types first; then the invariants the safety of the queue rests on: who  *)
(* owns the permit, and that the queue is exactly the tasks inside acquire *)
(* under distinct ids.  From these two follow that no emergency is left    *)
(* asleep beside a free permit and that none is overtaken.                 *)
(***************************************************************************)

(* Types *)

\* What a caller registers is a waiter: only entries carry a deadline.
LEMMA RequestIsWaiter ==
  ASSUME NEW r \in Request, NEW t \in Nat
  PROVE  [id |-> 0, class |-> r.class, enqueued |-> t, deadline |-> r.deadline] \in Waiter
BY RequestAssumption DEF Waiter

LEMMA NoWaiterIsWaiter == NoWaiter \in Waiter
BY RequestAssumption DEF NoWaiter, Waiter, OperationClass, Emergency, DeadlineEntry

\* Every variable keeps its type: the model's state is one the code can be in.
THEOREM TypeCorrect == Spec => []TypeOK
<1>1. Init => TypeOK
  <2> SUFFICES ASSUME Init
               PROVE  TypeOK
    OBVIOUS
  <2>1. now \in Nat /\ owned \in BOOLEAN /\ next_id \in Nat /\ waiters \subseteq Waiter
    BY DEF Init
  <2>2. pc \in [Task -> PC] /\ seen \in [Task -> Nat] /\ woken \in [Task -> BOOLEAN]
    BY DEF Init, PC
  <2>3. reg \in [Task -> Waiter]
    BY NoWaiterIsWaiter DEF Init
  <2> QED
    BY <2>1, <2>2, <2>3 DEF TypeOK
<1>2. TypeOK /\ [Next]_vars => TypeOK'
  <2> SUFFICES ASSUME TypeOK, [Next]_vars
               PROVE  TypeOK'
    OBVIOUS
  <2> USE DEF TypeOK, PC
  <2>1. ASSUME NEW p \in Task, NEW r \in Request, Enter(p, r)
        PROVE  TypeOK'
    BY <2>1, RequestIsWaiter DEF Enter
  <2>2. ASSUME NEW p \in Task, Register(p)
        PROVE  TypeOK'
    <3> DEFINE w == [reg[p] EXCEPT !.id = next_id]
    <3>1. w \in Waiter
      BY DEF Waiter
    <3> QED
      BY <2>2, <3>1 DEF Register
  <2>3. ASSUME NEW p \in Task, Arm(p)
        PROVE  TypeOK'
    BY <2>3 DEF Arm
  <2>4. ASSUME NEW p \in Task, Expire(p)
        PROVE  TypeOK'
    BY <2>4, NoWaiterIsWaiter DEF Expire, Leave
  <2>5. ASSUME NEW p \in Task, Grant(p)
        PROVE  TypeOK'
    BY <2>5, NoWaiterIsWaiter DEF Grant, Leave
  <2>6. ASSUME NEW p \in Task, Sleep(p)
        PROVE  TypeOK'
    BY <2>6 DEF Sleep
  <2>7. ASSUME NEW p \in Task, Wake(p)
        PROVE  TypeOK'
    BY <2>7 DEF Wake
  <2>8. ASSUME NEW p \in Task, Cancel(p)
        PROVE  TypeOK'
    BY <2>8, NoWaiterIsWaiter DEF Cancel, Leave
  <2>9. ASSUME NEW p \in Task, Release(p)
        PROVE  TypeOK'
    BY <2>9 DEF Release
  <2>10. ASSUME NEW p \in Task, NotifyWaiters(p)
         PROVE  TypeOK'
    BY <2>10 DEF NotifyWaiters
  <2>11. CASE Tick
    BY <2>11 DEF Tick
  <2>12. CASE UNCHANGED vars
    BY <2>12 DEF vars
  <2> QED
    BY <2>1, <2>2, <2>3, <2>4, <2>5, <2>6, <2>7, <2>8, <2>9, <2>10, <2>11, <2>12 DEF Next
<1> QED
  BY <1>1, <1>2, PTL DEF Spec

-----------------------------------------------------------------------------
(* The permit *)

\* However tasks acquire, expire, are cancelled and release, one task at most
\* holds the permit and `owned` says exactly whether one does.
THEOREM OneOwner == Spec => []SingleOwner
<1>1. Init => SingleOwner
  BY DEF Init, SingleOwner
<1>2. TypeOK /\ SingleOwner /\ [Next]_vars => SingleOwner'
  <2> SUFFICES ASSUME TypeOK, SingleOwner, [Next]_vars
               PROVE  SingleOwner'
    OBVIOUS
  <2> USE DEF TypeOK, SingleOwner
  <2>1. ASSUME NEW p \in Task, NEW r \in Request, Enter(p, r)
        PROVE  SingleOwner'
    BY <2>1 DEF Enter
  <2>2. ASSUME NEW p \in Task, Register(p)
        PROVE  SingleOwner'
    BY <2>2 DEF Register
  <2>3. ASSUME NEW p \in Task, Arm(p)
        PROVE  SingleOwner'
    BY <2>3 DEF Arm
  <2>4. ASSUME NEW p \in Task, Expire(p)
        PROVE  SingleOwner'
    BY <2>4 DEF Expire
  <2>5. ASSUME NEW p \in Task, Grant(p)
        PROVE  SingleOwner'
    BY <2>5 DEF Grant
  <2>6. ASSUME NEW p \in Task, Sleep(p)
        PROVE  SingleOwner'
    BY <2>6 DEF Sleep
  <2>7. ASSUME NEW p \in Task, Wake(p)
        PROVE  SingleOwner'
    BY <2>7 DEF Wake
  <2>8. ASSUME NEW p \in Task, Cancel(p)
        PROVE  SingleOwner'
    BY <2>8 DEF Cancel
  <2>9. ASSUME NEW p \in Task, Release(p)
        PROVE  SingleOwner'
    BY <2>9 DEF Release
  <2>10. ASSUME NEW p \in Task, NotifyWaiters(p)
         PROVE  SingleOwner'
    BY <2>10 DEF NotifyWaiters
  <2>11. CASE Tick \/ UNCHANGED vars
    BY <2>11 DEF Tick, vars
  <2> QED
    BY <2>1, <2>2, <2>3, <2>4, <2>5, <2>6, <2>7, <2>8, <2>9, <2>10, <2>11 DEF Next
<1> QED
  BY <1>1, <1>2, TypeCorrect, PTL DEF Spec

-----------------------------------------------------------------------------
(* The queue *)

\* A task that leaves takes its own record with it and nobody else's.
LEMMA LeaveKeepsQueue ==
  ASSUME TypeOK, QueueMatchesTasks, NEW p \in Queued, Leave(p),
         pc' \in [Task -> PC], Queued' = Queued \ {p}, next_id' = next_id
  PROVE  QueueMatchesTasks'
BY DEF TypeOK, QueueMatchesTasks, Leave, Queued

\* A step that moves a task inside acquire leaves the queue alone.
LEMMA StayKeepsQueue ==
  ASSUME QueueMatchesTasks, Queued' = Queued,
         waiters' = waiters, reg' = reg, next_id' = next_id
  PROVE  QueueMatchesTasks'
BY DEF QueueMatchesTasks

\* The queue holds exactly the records of the tasks inside acquire, under
\* distinct ids: expiry, cancellation and grant leave no orphan behind.
THEOREM QueueExact == Spec => []QueueMatchesTasks
<1>1. Init => QueueMatchesTasks
  BY DEF Init, QueueMatchesTasks, Queued
<1>2. TypeOK /\ TypeOK' /\ QueueMatchesTasks /\ [Next]_vars => QueueMatchesTasks'
  <2> SUFFICES ASSUME TypeOK, TypeOK', QueueMatchesTasks, [Next]_vars
               PROVE  QueueMatchesTasks'
    OBVIOUS
  <2>1. ASSUME NEW p \in Task, NEW r \in Request, Enter(p, r)
        PROVE  QueueMatchesTasks'
    BY <2>1 DEF Enter, QueueMatchesTasks, Queued, TypeOK
  <2>2. ASSUME NEW p \in Task, Register(p)
        PROVE  QueueMatchesTasks'
    <3> DEFINE w == [reg[p] EXCEPT !.id = next_id]
    <3>1. Queued' = Queued \cup {p} /\ p \notin Queued
      BY <2>2 DEF Register, Queued, TypeOK
    <3>2. reg'[p] = w /\ w.id = next_id /\ \A q \in Queued : reg'[q] = reg[q]
      BY <2>2, <3>1 DEF Register, TypeOK, Waiter, Queued
    <3>3. waiters' = waiters \cup {w} /\ next_id' = next_id + 1
      BY <2>2 DEF Register
    <3>4. \A q \in Queued : reg[q].id < next_id /\ reg[q].id \in Nat
      BY DEF QueueMatchesTasks, TypeOK, Waiter, Queued
    <3>5. waiters' = {reg'[q] : q \in Queued'}
      BY <3>1, <3>2, <3>3 DEF QueueMatchesTasks
    <3>id. reg'[p].id = next_id /\ next_id \in Nat /\ \A q \in Queued : reg'[q].id = reg[q].id
      BY <3>2 DEF TypeOK
    <3>6. \A a, b \in Queued' : reg'[a].id = reg'[b].id => a = b
      <4> SUFFICES ASSUME NEW a \in Queued', NEW b \in Queued', reg'[a].id = reg'[b].id
                   PROVE  a = b
        OBVIOUS
      <4>1. CASE a = p /\ b # p
        BY <4>1, <3>1, <3>id, <3>4
      <4>2. CASE a # p /\ b = p
        BY <4>2, <3>1, <3>id, <3>4
      <4>3. CASE a # p /\ b # p
        BY <4>3, <3>1, <3>id DEF QueueMatchesTasks
      <4> QED
        BY <4>1, <4>2, <4>3
    <3>7. \A q \in Queued' : reg'[q].id < next_id'
      BY <3>1, <3>id, <3>3, <3>4
    <3> QED
      BY <3>5, <3>6, <3>7 DEF QueueMatchesTasks
  <2>3. ASSUME NEW p \in Task, Arm(p)
        PROVE  QueueMatchesTasks'
    BY <2>3, StayKeepsQueue DEF Arm, Queued, TypeOK
  <2>4. ASSUME NEW p \in Task, Expire(p)
        PROVE  QueueMatchesTasks'
    <3>1. p \in Queued /\ Queued' = Queued \ {p}
      BY <2>4 DEF Expire, Queued, TypeOK
    <3> QED
      BY <2>4, <3>1, LeaveKeepsQueue DEF Expire, TypeOK
  <2>5. ASSUME NEW p \in Task, Grant(p)
        PROVE  QueueMatchesTasks'
    <3>1. p \in Queued /\ Queued' = Queued \ {p}
      BY <2>5 DEF Grant, Queued, TypeOK
    <3> QED
      BY <2>5, <3>1, LeaveKeepsQueue DEF Grant, TypeOK
  <2>6. ASSUME NEW p \in Task, Sleep(p)
        PROVE  QueueMatchesTasks'
    BY <2>6, StayKeepsQueue DEF Sleep, Queued, TypeOK
  <2>7. ASSUME NEW p \in Task, Wake(p)
        PROVE  QueueMatchesTasks'
    BY <2>7, StayKeepsQueue DEF Wake, Queued, TypeOK
  <2>8. ASSUME NEW p \in Task, Cancel(p)
        PROVE  QueueMatchesTasks'
    <3>1. p \in Queued /\ Queued' = Queued \ {p}
      BY <2>8 DEF Cancel, Queued, TypeOK
    <3> QED
      BY <2>8, <3>1, LeaveKeepsQueue DEF Cancel, TypeOK
  <2>9. ASSUME NEW p \in Task, Release(p)
        PROVE  QueueMatchesTasks'
    BY <2>9, StayKeepsQueue DEF Release, Queued, TypeOK
  <2>10. ASSUME NEW p \in Task, NotifyWaiters(p)
         PROVE  QueueMatchesTasks'
    BY <2>10, StayKeepsQueue DEF NotifyWaiters, Queued, TypeOK
  <2>11. CASE Tick \/ UNCHANGED vars
    BY <2>11, StayKeepsQueue DEF Tick, vars, Queued
  <2> QED
    BY <2>1, <2>2, <2>3, <2>4, <2>5, <2>6, <2>7, <2>8, <2>9, <2>10, <2>11 DEF Next
<1> QED
  BY <1>1, <1>2, TypeCorrect, PTL DEF Spec

-----------------------------------------------------------------------------
(* Emergencies *)

\* Emergencies have the first rank and have it alone.
LEMMA EmergencyRank ==
  ASSUME NEW w, NEW t, w.class = Emergency
  PROVE  Rank(w, t) = 0
BY DEF Rank, Emergency, RoutineExit, DeadlineEntry

LEMMA OtherRank ==
  ASSUME NEW w, NEW t, w.class # Emergency
  PROVE  Rank(w, t) \in {1, 2, 3}
BY DEF Rank

\* An emergency waiter does not expire and ranks first: of those in the queue,
\* the oldest is next whatever clock reading is used.
LEMMA OldestEmergencyIsNext ==
  ASSUME TypeOK, QueueMatchesTasks, NEW p \in Task, FirstEmergency(p), NEW t \in Nat
  PROVE  IsNext(reg[p], t)
<1>1. reg[p] \in waiters /\ reg[p] \in Waiter /\ reg[p].class = Emergency
  BY DEF FirstEmergency, QueueMatchesTasks, TypeOK
<1>2. reg[p].deadline = NoDeadline
  BY <1>1 DEF Waiter, Emergency, DeadlineEntry
<1>3. ~ Expired(reg[p], t)
  BY <1>2, RequestAssumption DEF Expired
<1>4. Rank(reg[p], t) = 0
  BY <1>1, EmergencyRank
<1>5. ASSUME NEW v \in waiters
      PROVE  ~ Before(v, reg[p], t)
  <2>1. PICK q \in Queued : v = reg[q]
    BY DEF QueueMatchesTasks
  <2>2. CASE v.class = Emergency
    <3>1. reg[p].id <= v.id /\ reg[p].id \in Nat /\ v.id \in Nat
      BY <1>1, <2>1, <2>2 DEF FirstEmergency, TypeOK, Waiter, Queued
    <3>2. Rank(v, t) = 0
      BY <2>2, EmergencyRank
    <3> QED
      BY <1>4, <3>1, <3>2 DEF Before
  <2>3. CASE v.class # Emergency
    <3>1. Rank(v, t) \in {1, 2, 3}
      BY <2>3, OtherRank
    <3> QED
      BY <1>4, <3>1 DEF Before
  <2> QED
    BY <2>2, <2>3
<1> QED
  BY <1>1, <1>3, <1>5 DEF IsNext

\* No lost wake-up: while the permit is free the oldest emergency waiter will
\* look at the queue, or somebody is about to make it look.
THEOREM NoEmergencyStranded == Spec => []EmergencyNotStranded
<1>1. Init => EmergencyNotStranded
  BY DEF Init, EmergencyNotStranded, FirstEmergency, Queued
<1>2. TypeOK /\ QueueMatchesTasks /\ EmergencyNotStranded /\ [Next]_vars
        => EmergencyNotStranded'
  <2> SUFFICES ASSUME TypeOK, QueueMatchesTasks, EmergencyNotStranded, [Next]_vars
               PROVE  EmergencyNotStranded'
    OBVIOUS
  <2> USE DEF EmergencyNotStranded, FirstEmergency, WillLook, Queued, TypeOK
  <2>1. ASSUME NEW p \in Task, NEW r \in Request, Enter(p, r)
        PROVE  EmergencyNotStranded'
    BY <2>1 DEF Enter
  <2>2. ASSUME NEW p \in Task, Register(p)
        PROVE  EmergencyNotStranded'
    BY <2>2 DEF Register
  <2>3. ASSUME NEW p \in Task, Arm(p)
        PROVE  EmergencyNotStranded'
    BY <2>3 DEF Arm
  <2>4. ASSUME NEW p \in Task, Expire(p)
        PROVE  EmergencyNotStranded'
    BY <2>4 DEF Expire
  <2>5. ASSUME NEW p \in Task, Grant(p)
        PROVE  EmergencyNotStranded'
    BY <2>5 DEF Grant
  <2>6. ASSUME NEW p \in Task, Sleep(p)
        PROVE  EmergencyNotStranded'
    <3>1. seen[p] \in Nat /\ (owned \/ ~ IsNext(reg[p], seen[p]))
      BY <2>6 DEF Sleep
    <3>2. owned \/ ~ FirstEmergency(p)
      BY <3>1, OldestEmergencyIsNext
    <3> QED
      BY <2>6, <3>2 DEF Sleep
  <2>7. ASSUME NEW p \in Task, Wake(p)
        PROVE  EmergencyNotStranded'
    BY <2>7 DEF Wake
  <2>8. ASSUME NEW p \in Task, Cancel(p)
        PROVE  EmergencyNotStranded'
    BY <2>8 DEF Cancel
  <2>9. ASSUME NEW p \in Task, Release(p)
        PROVE  EmergencyNotStranded'
    BY <2>9 DEF Release
  <2>10. ASSUME NEW p \in Task, NotifyWaiters(p)
         PROVE  EmergencyNotStranded'
    BY <2>10 DEF NotifyWaiters
  <2>11. CASE Tick \/ UNCHANGED vars
    BY <2>11 DEF Tick, vars
  <2> QED
    BY <2>1, <2>2, <2>3, <2>4, <2>5, <2>6, <2>7, <2>8, <2>9, <2>10, <2>11 DEF Next
<1> QED
  BY <1>1, <1>2, TypeCorrect, QueueExact, PTL DEF Spec

\* Whoever is granted the permit while an emergency waits is an older emergency.
THEOREM NoEmergencyOvertaken == Spec => EmergencyNotOvertaken
<1> DEFINE Overtakes(p, q) ==
      /\ pc[p] # "holding" /\ pc'[p] = "holding"
      /\ q # p /\ q \in Queued /\ reg[q].class = Emergency
<1>1. TypeOK /\ QueueMatchesTasks /\ [Next]_vars =>
        \A p, q \in Task : Overtakes(p, q) => reg[p].class = Emergency /\ reg[p].id < reg[q].id
  <2> SUFFICES ASSUME TypeOK, QueueMatchesTasks, [Next]_vars,
                      NEW p \in Task, NEW q \in Task, Overtakes(p, q)
               PROVE  reg[p].class = Emergency /\ reg[p].id < reg[q].id
    OBVIOUS
  <2>1. Grant(p)
    BY DEF Next, Enter, Register, Arm, Expire, Grant, Leave, Sleep, Wake, Cancel, Release,
           NotifyWaiters, Tick, vars, TypeOK
  <2>2. p \in Queued /\ reg[p] \in Waiter /\ reg[q] \in Waiter /\ reg[q] \in waiters
    BY <2>1 DEF Grant, Queued, TypeOK, QueueMatchesTasks
  <2>3. ~ Expired(reg[q], seen[p])
    BY <2>2, RequestAssumption DEF Expired, Waiter, Emergency, DeadlineEntry
  <2>4. ~ Before(reg[q], reg[p], seen[p])
    BY <2>1, <2>2, <2>3 DEF Grant, IsNext
  <2>5. Rank(reg[q], seen[p]) = 0
    BY EmergencyRank
  <2>6. reg[p].class = Emergency
    <3>1. CASE reg[p].class # Emergency
      <4>1. Rank(reg[p], seen[p]) \in {1, 2, 3}
        BY <3>1, OtherRank
      <4> QED
        BY <4>1, <2>4, <2>5 DEF Before
    <3> QED
      BY <3>1
  <2>7. Rank(reg[p], seen[p]) = 0
    BY <2>6, EmergencyRank
  <2>8. reg[p].id # reg[q].id /\ ~ (reg[q].id < reg[p].id)
    BY <2>2, <2>4, <2>5, <2>7 DEF Before, QueueMatchesTasks
  <2> QED
    BY <2>2, <2>6, <2>8 DEF Waiter
<1> QED
  BY <1>1, TypeCorrect, QueueExact, PTL DEF Spec, EmergencyNotOvertaken

-----------------------------------------------------------------------------
(***************************************************************************)
(* Theorems about RpcGate for any number of calls in each lane, any number *)
(* of permits and any number of retries.                                   *)
(*                                                                         *)
(* The balance is inductive once the places a call may be at are typed:    *)
(* only a call of the background lane is ever at "background", "look" or   *)
(* "yield", so that only such a call gives a background permit back.       *)
(***************************************************************************)

Waiting == {"background", "look", "yield"}
InGate == {"spacing", "sleep", "sent"}
Place == {"idle", "permit", "backoff"} \cup Waiting \cup InGate
Permit == {"none", "shared", "hot"}

GateTypes ==
  /\ at \in [Call -> Place]
  /\ attempt \in [Call -> Nat]
  /\ holds \in [Call -> Permit]
  /\ shared \in Int /\ hot \in Int /\ background \in Int /\ enrich_pending \in Int
  /\ next_start \in Call \cup {"none"}
  /\ \A c \in Call : at[c] \in Waiting => c \in BackgroundCall

GateInv == GateTypes /\ GateBalance

-----------------------------------------------------------------------------
(* Counting calls *)

Holders(kind) == {c \in Call : holds[c] = kind}
Enriching == {c \in EnrichCall : at[c] # "idle"}
Busy == {c \in BackgroundCall : at[c] \in {"look", "permit", "spacing", "sleep", "sent"}}

One(b) == IF b THEN 1 ELSE 0

\* Two sets of calls that differ in one call at most differ by that call in number.
LEMMA CountOne ==
  ASSUME NEW S \in SUBSET Call, NEW T \in SUBSET Call, NEW c, T \ {c} = S \ {c}
  PROVE  /\ Cardinality(S) \in Nat /\ Cardinality(T) \in Nat
         /\ Cardinality(T) = Cardinality(S) + One(c \in T) - One(c \in S)
<1>1. IsFiniteSet(S) /\ IsFiniteSet(T)
  BY FS_Subset, GateAssumption
<1>2. Cardinality(S) \in Nat /\ Cardinality(T) \in Nat
  BY <1>1, FS_CardinalityType
<1>3. ASSUME NEW R, IsFiniteSet(R)
      PROVE  Cardinality(R \ {c}) = Cardinality(R) - One(c \in R)
  <2>1. CASE c \in R
    BY <1>3, <2>1, FS_RemoveElement DEF One
  <2>2. CASE c \notin R
    <3>1. R \ {c} = R
      BY <2>2
    <3>2. Cardinality(R \ {c}) = Cardinality(R)
      BY <3>1, Zenon
    <3>3. One(c \in R) = 0 /\ Cardinality(R) \in Nat
      BY <1>3, <2>2, FS_CardinalityType DEF One
    <3> QED
      BY <3>2, <3>3
  <2> QED
    BY <2>1, <2>2
<1>4. Cardinality(S \ {c}) = Cardinality(T \ {c})
  BY Zenon
<1> QED
  BY <1>1, <1>2, <1>3, <1>4 DEF One

\* The three counts after a step of one call.
LEMMA CallMoves ==
  ASSUME GateTypes, NEW c \in Call, NEW to \in Place, NEW h \in Permit,
         at' = [at EXCEPT ![c] = to], holds' = [holds EXCEPT ![c] = h]
  PROVE  /\ \A k \in Permit :
              /\ Holding(k) \in Nat
              /\ Holding(k)' = Holding(k) + One(h = k) - One(holds[c] = k)
         /\ Cardinality(Enriching) \in Nat
         /\ Cardinality(Enriching') = Cardinality(Enriching)
              + One(c \in EnrichCall /\ to # "idle") - One(c \in EnrichCall /\ at[c] # "idle")
         /\ Cardinality(Busy) \in Nat
         /\ Cardinality(Busy') = Cardinality(Busy)
              + One(c \in BackgroundCall /\ to \in {"look", "permit", "spacing", "sleep", "sent"})
              - One(c \in BackgroundCall /\ at[c] \in {"look", "permit", "spacing", "sleep", "sent"})
<1> USE DEF GateTypes
<1>1. ASSUME NEW k \in Permit
      PROVE  /\ Holding(k) \in Nat
             /\ Holding(k)' = Holding(k) + One(h = k) - One(holds[c] = k)
  <2>1. Holders(k) \in SUBSET Call /\ Holders(k)' \in SUBSET Call
    BY DEF Holders
  <2>2. Holders(k)' \ {c} = Holders(k) \ {c}
    BY DEF Holders
  <2>3. (c \in Holders(k)' <=> h = k) /\ (c \in Holders(k) <=> holds[c] = k)
    BY DEF Holders
  <2>4. /\ Cardinality(Holders(k)) \in Nat
        /\ Cardinality(Holders(k)') = Cardinality(Holders(k)) + One(h = k) - One(holds[c] = k)
    BY <2>1, <2>2, <2>3, CountOne DEF One
  <2> QED
    BY <2>4 DEF Holding, Holders
<1>2. /\ Cardinality(Enriching) \in Nat
      /\ Cardinality(Enriching') = Cardinality(Enriching)
              + One(c \in EnrichCall /\ to # "idle") - One(c \in EnrichCall /\ at[c] # "idle")
  <2>1. Enriching \in SUBSET Call /\ Enriching' \in SUBSET Call
    BY DEF Enriching, Call
  <2>2. Enriching' \ {c} = Enriching \ {c}
    BY DEF Enriching, Call
  <2>3. /\ c \in Enriching' <=> (c \in EnrichCall /\ to # "idle")
        /\ c \in Enriching <=> (c \in EnrichCall /\ at[c] # "idle")
    BY DEF Enriching
  <2> QED
    BY <2>1, <2>2, <2>3, CountOne DEF One
<1>3. /\ Cardinality(Busy) \in Nat
      /\ Cardinality(Busy') = Cardinality(Busy)
              + One(c \in BackgroundCall /\ to \in {"look", "permit", "spacing", "sleep", "sent"})
              - One(c \in BackgroundCall /\ at[c] \in {"look", "permit", "spacing", "sleep", "sent"})
  <2>1. Busy \in SUBSET Call /\ Busy' \in SUBSET Call
    BY DEF Busy, Call
  <2>2. Busy' \ {c} = Busy \ {c}
    BY DEF Busy, Call
  <2>3. /\ c \in Busy' <=>
             (c \in BackgroundCall /\ to \in {"look", "permit", "spacing", "sleep", "sent"})
        /\ c \in Busy <=>
             (c \in BackgroundCall /\ at[c] \in {"look", "permit", "spacing", "sleep", "sent"})
    BY DEF Busy
  <2> QED
    BY <2>1, <2>2, <2>3, CountOne DEF One
<1> QED
  BY <1>1, <1>2, <1>3

\* The reserve is a number, and leaves the shared lane a permit.
LEMMA ReserveType == HotReserve \in Nat /\ HotReserve < InFlight
  BY GateAssumption DEF HotReserve

-----------------------------------------------------------------------------
(* The inductive invariant *)

LEMMA GateInitInv == GateInit => GateInv
<1> SUFFICES ASSUME GateInit
             PROVE  GateInv
  OBVIOUS
<1> USE DEF GateInit
<1>1. Holders("shared") = {} /\ Holders("hot") = {} /\ Enriching = {} /\ Busy = {}
  BY DEF Holders, Enriching, Busy, Call
<1>2. GateTypes
  BY ReserveType, GateAssumption DEF GateTypes, Place, Permit, Waiting, InGate
<1>3. GateBalance
  BY <1>1, FS_EmptySet, ReserveType, GateAssumption
     DEF GateBalance, Holding, Holders, Enriching, Busy
<1> QED
  BY <1>2, <1>3 DEF GateInv

\* What every step of the gate is: call c goes to a place with the permit h, and each
\* counter changes by what c takes and gives back.
GateMove(c, to, h) ==
  /\ to \in Place /\ h \in Permit /\ attempt' \in [Call -> Nat]
  /\ at' = [at EXCEPT ![c] = to] /\ holds' = [holds EXCEPT ![c] = h]
  /\ to \in Waiting => c \in BackgroundCall
  /\ shared' = shared - One(h = "shared") + One(holds[c] = "shared")
  /\ hot' = hot - One(h = "hot") + One(holds[c] = "hot")
  /\ h # "none" <=> to \in InGate
  /\ next_start' = IF to = "sleep" THEN c ELSE IF next_start = c THEN "none" ELSE next_start
  /\ to = "sleep" => next_start \in {"none", c}
  /\ enrich_pending' = enrich_pending + One(c \in EnrichCall /\ to # "idle")
                                      - One(c \in EnrichCall /\ at[c] # "idle")
  /\ background' = background
       - One(c \in BackgroundCall /\ to \in {"look", "permit", "spacing", "sleep", "sent"})
       + One(c \in BackgroundCall /\ at[c] \in {"look", "permit", "spacing", "sleep", "sent"})

\* Such a step keeps the balance.
LEMMA StepKeepsBalance ==
  ASSUME GateInv, NEW c \in Call, NEW to, NEW h, GateMove(c, to, h)
  PROVE  GateInv'
<1>1. /\ \A k \in Permit :
           /\ Holding(k) \in Nat
           /\ Holding(k)' = Holding(k) + One(h = k) - One(holds[c] = k)
      /\ Cardinality(Enriching) \in Nat
      /\ Cardinality(Enriching') = Cardinality(Enriching)
           + One(c \in EnrichCall /\ to # "idle") - One(c \in EnrichCall /\ at[c] # "idle")
      /\ Cardinality(Busy) \in Nat
      /\ Cardinality(Busy') = Cardinality(Busy)
           + One(c \in BackgroundCall /\ to \in {"look", "permit", "spacing", "sleep", "sent"})
           - One(c \in BackgroundCall /\ at[c] \in {"look", "permit", "spacing", "sleep", "sent"})
  BY CallMoves DEF GateInv, GateMove
<1>2. enrich_pending = Cardinality(Enriching) /\ background + Cardinality(Busy) = 1
  BY DEF GateInv, GateBalance, Enriching, Busy
<1>3. /\ shared \in Int /\ hot \in Int /\ background \in Int
      /\ shared + Holding("shared") = InFlight - HotReserve /\ hot + Holding("hot") = HotReserve
  BY DEF GateInv, GateBalance, GateTypes
<1>4. enrich_pending' = Cardinality(Enriching')
  BY <1>1, <1>2 DEF One, GateMove
<1>5. background' + Cardinality(Busy') = 1
  BY <1>1, <1>2, <1>3 DEF One, GateMove
<1>6. shared' + Holding("shared")' = InFlight - HotReserve /\ hot' + Holding("hot")' = HotReserve
  BY <1>1, <1>3 DEF One, Permit, GateMove
<1>7. \A d \in Call : holds'[d] # "none" <=> at'[d] \in {"spacing", "sleep", "sent"}
  BY DEF GateInv, GateTypes, GateBalance, InGate, GateMove
<1>8. \A d \in Call : next_start' = d <=> at'[d] = "sleep"
  BY GateAssumption DEF GateInv, GateTypes, GateBalance, GateMove
<1>9. HotReserve' = HotReserve
  BY DEF HotReserve
<1>10. GateTypes'
  BY DEF GateInv, GateTypes, GateMove, One
<1> QED
  BY <1>4, <1>5, <1>6, <1>7, <1>8, <1>9, <1>10 DEF GateInv, GateBalance, Enriching, Busy

LEMMA GateNextInv == GateInv /\ [GateNext]_gateVars => GateInv'
<1> SUFFICES ASSUME GateInv, [GateNext]_gateVars
             PROVE  GateInv'
  OBVIOUS
<1>0. GateTypes /\ GateBalance
  BY DEF GateInv
<1>1. ASSUME NEW c \in Call, CallBegins(c)
      PROVE  GateInv'
  <2> DEFINE to == Start(c)
             h == "none"
  <2>1. GateMove(c, to, h)
    BY <1>0, <1>1, GateAssumption
       DEF CallBegins, Goes, Start, permitVars, GateTypes, GateBalance, GateMove, One, Place, Permit, Waiting, InGate
  <2> QED
    BY <2>1, StepKeepsBalance
<1>2. ASSUME NEW c \in Call, BackgroundTake(c)
      PROVE  GateInv'
  <2> DEFINE to == "look"
             h == "none"
  <2>1. GateMove(c, to, h)
    BY <1>0, <1>2, GateAssumption
       DEF BackgroundTake, Goes, permitVars, GateTypes, GateBalance, GateMove, One, Place, Permit, Waiting, InGate
  <2> QED
    BY <2>1, StepKeepsBalance
<1>3. ASSUME NEW c \in Call, BackgroundLook(c)
      PROVE  GateInv'
  <2> DEFINE to == IF enrich_pending = 0 THEN "permit" ELSE "yield"
             h == "none"
  <2>1. GateMove(c, to, h)
    BY <1>0, <1>3, GateAssumption
       DEF BackgroundLook, permitVars, GateTypes, GateBalance, GateMove, One, Place, Permit, Waiting, InGate
  <2> QED
    BY <2>1, StepKeepsBalance
<1>4. ASSUME NEW c \in Call, BackgroundAgain(c)
      PROVE  GateInv'
  <2> DEFINE to == "background"
             h == "none"
  <2>1. GateMove(c, to, h)
    BY <1>0, <1>4, GateAssumption
       DEF BackgroundAgain, Goes, permitVars, GateTypes, GateBalance, GateMove, One, Place, Permit, Waiting, InGate
  <2> QED
    BY <2>1, StepKeepsBalance
<1>5. ASSUME NEW c \in Call, Acquire(c)
      PROVE  GateInv'
  <2> DEFINE to == "spacing"
             h == IF c \in HotCall /\ hot > 0 THEN "hot" ELSE "shared"
  <2>1. GateMove(c, to, h)
    BY <1>0, <1>5, GateAssumption
       DEF Acquire, Goes, permitVars, GateTypes, GateBalance, GateMove, One, Place, Permit, Waiting, InGate
  <2> QED
    BY <2>1, StepKeepsBalance
<1>6. ASSUME NEW c \in Call, SpacingBegins(c)
      PROVE  GateInv'
  <2> DEFINE to == "sleep"
             h == holds[c]
  <2>1. GateMove(c, to, h)
    BY <1>0, <1>6, GateAssumption
       DEF SpacingBegins, Goes, permitVars, GateTypes, GateBalance, GateMove, One, Place, Permit, Waiting, InGate
  <2> QED
    BY <2>1, StepKeepsBalance
<1>7. ASSUME NEW c \in Call, Send(c)
      PROVE  GateInv'
  <2> DEFINE to == "sent"
             h == holds[c]
  <2>1. GateMove(c, to, h)
    BY <1>0, <1>7, GateAssumption
       DEF Send, Goes, permitVars, GateTypes, GateBalance, GateMove, One, Place, Permit, Waiting, InGate
  <2> QED
    BY <2>1, StepKeepsBalance
<1>8. ASSUME NEW c \in Call, Answered(c)
      PROVE  GateInv'
  <2> DEFINE to == "idle"
             h == "none"
  <2>1. GateMove(c, to, h)
    BY <1>0, <1>8, GateAssumption
       DEF Answered, AttemptDropped, CallEnds, permitVars, GateTypes, GateBalance, GateMove, One, Place, Permit, Waiting, InGate
  <2> QED
    BY <2>1, StepKeepsBalance
<1>9. ASSUME NEW c \in Call, Failed(c)
      PROVE  GateInv'
  <2> DEFINE to == "backoff"
             h == "none"
  <2>1. GateMove(c, to, h)
    BY <1>0, <1>9, GateAssumption
       DEF Failed, AttemptDropped, permitVars, GateTypes, GateBalance, GateMove, One, Place, Permit, Waiting, InGate
  <2> QED
    BY <2>1, StepKeepsBalance
<1>10. ASSUME NEW c \in Call, Retry(c)
      PROVE  GateInv'
  <2> DEFINE to == Start(c)
             h == "none"
  <2>1. GateMove(c, to, h)
    BY <1>0, <1>10, GateAssumption
       DEF Retry, Goes, Start, permitVars, GateTypes, GateBalance, GateMove, One, Place, Permit, Waiting, InGate
  <2> QED
    BY <2>1, StepKeepsBalance
<1>11. ASSUME NEW c \in Call, Cancelled(c)
      PROVE  GateInv'
  <2> DEFINE to == "idle"
             h == "none"
  <2>1. GateMove(c, to, h)
    BY <1>0, <1>11, GateAssumption
       DEF Cancelled, AttemptDropped, CallEnds, permitVars, GateTypes, GateBalance, GateMove, One, Place, Permit, Waiting, InGate
  <2> QED
    BY <2>1, StepKeepsBalance
<1>12. CASE UNCHANGED gateVars
  BY <1>0, <1>12 DEF gateVars, permitVars, GateInv, GateTypes, GateBalance, Holding, HotReserve
<1> QED
  BY <1>1, <1>2, <1>3, <1>4, <1>5, <1>6, <1>7, <1>8, <1>9, <1>10, <1>11, <1>12 DEF GateNext, Proceeds, Responds

LEMMA GateInvariance == GateSpec => []GateInv
  BY GateInitInv, GateNextInv, PTL DEF GateSpec

-----------------------------------------------------------------------------
(* The theorem *)

\* The gate is cancellation-safe: however attempts fail, calls are retried and futures
\* are dropped, every permit, the spacing lock and the count of pending enrichments
\* belong to a call that is there to give them back.
THEOREM GateBalanced == GateFairSpec => []GateBalance
<1>1. GateInv => GateBalance
  BY DEF GateInv
<1> QED
  BY <1>1, GateInvariance, PTL DEF GateFairSpec
=============================================================================
