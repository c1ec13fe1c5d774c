-------------------------- MODULE ExecutionScheduler --------------------------
(***************************************************************************)
(* trade/scheduler.rs: the one execution permit of the engine.  Every      *)
(* task whose work takes a nonce calls `acquire` with a class and perhaps  *)
(* a deadline, and holds the returned permit until its transactions are    *)
(* reconciled and durably applied.                                         *)
(*                                                                         *)
(* `acquire` is not one step.  It reads the clock, then registers a waiter *)
(* under the lock, then loops: create the `Notified` future and read the   *)
(* clock; take the lock and decide with THAT reading; sleep until a        *)
(* notification or the deadline.  Removing a waiter and releasing the      *)
(* permit notify only after the lock is dropped.                           *)
(* Each of these is an action here, so that every interleaving of the      *)
(* multi-threaded runtime is a behaviour.                                  *)
(***************************************************************************)
EXTENDS Naturals, FiniteSets

CONSTANTS
  Task,             \* tasks that may call acquire
  Request,          \* the (class, deadline) pairs the callers use
  NoDeadline,       \* `deadline: None`
  MaxDeferral,      \* ROUTINE_EXIT_MAX_DEFERRAL, in ticks
  MaxTime,          \* bound: the clock stops here
  MaxAcquire        \* bound: calls of acquire in a behaviour

Emergency     == "Emergency"
DeadlineEntry == "DeadlineEntry"
RoutineExit   == "RoutineExit"
OperationClass == {Emergency, DeadlineEntry, RoutineExit}

\* Only entries carry a deadline (run.rs passes None everywhere else).
ASSUME RequestAssumption ==
  /\ NoDeadline \notin Nat
  /\ Request \subseteq [class : OperationClass, deadline : Nat \cup {NoDeadline}]
  /\ \A r \in Request : r.class # DeadlineEntry => r.deadline = NoDeadline
ASSUME BoundAssumption == MaxDeferral \in Nat /\ MaxTime \in Nat /\ MaxAcquire \in Nat

\* The value of a task's registration while it is not inside acquire.
NoWaiter == [id |-> 0, class |-> Emergency, enqueued |-> 0, deadline |-> NoDeadline]

VARIABLES
  now,      \* Instant::now()
  owned,    \* State.owned
  next_id,  \* State.next_id
  waiters,  \* State.waiters; a set, since only (rank, id) orders it
  pc,       \* where each task is in acquire / Drop
  reg,      \* the task's own waiter record (its arguments and registration)
  seen,     \* the `now` the task read at the top of its loop
  woken     \* the task's Notified future has been completed

vars == <<now, owned, next_id, waiters, pc, reg, seen, woken>>

Waiter == {w \in [id : Nat, class : OperationClass, enqueued : Nat,
                  deadline : Nat \cup {NoDeadline}] :
             w.class # DeadlineEntry => w.deadline = NoDeadline}

\* "notify" is the gap between dropping the lock and notify_waiters().
PC == {"idle", "entered", "loop", "armed", "waiting", "holding", "notify"}

TypeOK ==
  /\ now \in Nat
  /\ owned \in BOOLEAN
  /\ next_id \in Nat
  /\ waiters \subseteq Waiter
  /\ pc \in [Task -> PC]
  /\ reg \in [Task -> Waiter]
  /\ seen \in [Task -> Nat]
  /\ woken \in [Task -> BOOLEAN]

-----------------------------------------------------------------------------
(* next_waiter: the filter on deadlines and the (rank, id) order. *)

Expired(w, t) == w.deadline \in Nat /\ w.deadline <= t

Rank(w, t) ==
  CASE w.class = Emergency -> 0
    [] w.class = RoutineExit /\ w.enqueued + MaxDeferral <= t -> 1
    [] w.class = DeadlineEntry -> 2
    [] OTHER -> 3

\* Mutant: the queue is first come, first served.
BeforeById(v, w, t) == t \in Nat /\ v.id < w.id

Before(v, w, t) ==
  \/ Rank(v, t) < Rank(w, t)
  \/ Rank(v, t) = Rank(w, t) /\ v.id < w.id

\* next_waiter(&state.waiters, t) == Some(w.id)
IsNext(w, t) ==
  /\ w \in waiters
  /\ ~ Expired(w, t)
  /\ \A v \in waiters : ~ Expired(v, t) => ~ Before(v, w, t)

-----------------------------------------------------------------------------
Init ==
  /\ now = 0
  /\ owned = FALSE
  /\ next_id = 0
  /\ waiters = {}
  /\ pc = [p \in Task |-> "idle"]
  /\ reg = [p \in Task |-> NoWaiter]
  /\ seen = [p \in Task |-> 0]
  /\ woken = [p \in Task |-> FALSE]

\* Mutant: every caller is given a deadline.
EnterTimed(p, r) ==
  LET w == [id |-> 0, class |-> r.class, enqueued |-> now, deadline |-> now + 1]
  IN  /\ pc[p] = "idle"
      /\ reg' = [reg EXCEPT ![p] = w]
      /\ pc' = [pc EXCEPT ![p] = "entered"]
      /\ UNCHANGED <<now, owned, next_id, waiters, seen, woken>>

\* acquire's prologue: the clock is read once.  An expired deadline returns
\* Err and changes nothing.
Enter(p, r) ==
  LET w == [id |-> 0, class |-> r.class, enqueued |-> now, deadline |-> r.deadline]
  IN  /\ pc[p] = "idle"
      /\ ~ Expired(w, now)
      /\ reg' = [reg EXCEPT ![p] = w]
      /\ pc' = [pc EXCEPT ![p] = "entered"]
      /\ UNCHANGED <<now, owned, next_id, waiters, seen, woken>>

\* Under the lock: take an id and push the waiter.
Register(p) ==
  LET w == [reg[p] EXCEPT !.id = next_id]
  IN  /\ pc[p] = "entered"
      /\ next_id < MaxAcquire
      /\ next_id' = next_id + 1
      /\ waiters' = waiters \cup {w}
      /\ reg' = [reg EXCEPT ![p] = w]
      /\ pc' = [pc EXCEPT ![p] = "loop"]
      /\ UNCHANGED <<now, owned, seen, woken>>

\* `let notified = notify.notified(); let now = Instant::now();`
Arm(p) ==
  /\ pc[p] = "loop"
  /\ pc' = [pc EXCEPT ![p] = "armed"]
  /\ woken' = [woken EXCEPT ![p] = FALSE]
  /\ seen' = [seen EXCEPT ![p] = now]
  /\ UNCHANGED <<now, owned, next_id, waiters, reg>>

\* Mutant: the registration ends without removing its waiter.
LeaveBehind(p) ==
  /\ reg' = [reg EXCEPT ![p] = NoWaiter]
  /\ seen' = [seen EXCEPT ![p] = 0]
  /\ woken' = [woken EXCEPT ![p] = FALSE]
  /\ UNCHANGED waiters

\* remove_waiter; the caller's locals end with the call.
Leave(p) ==
  /\ waiters' = waiters \ {reg[p]}
  /\ reg' = [reg EXCEPT ![p] = NoWaiter]
  /\ seen' = [seen EXCEPT ![p] = 0]
  /\ woken' = [woken EXCEPT ![p] = FALSE]

\* Mutant: an expired entry looks again instead of returning.
ExpireAgain(p) ==
  /\ pc[p] = "armed"
  /\ Expired(reg[p], seen[p])
  /\ pc' = [pc EXCEPT ![p] = "loop"]
  /\ UNCHANGED <<now, owned, next_id, waiters, reg, seen, woken>>

\* Under the lock: the deadline has passed, leave the queue (then notify).
Expire(p) ==
  /\ pc[p] = "armed"
  /\ Expired(reg[p], seen[p])
  /\ Leave(p)
  /\ pc' = [pc EXCEPT ![p] = "notify"]
  /\ UNCHANGED <<now, owned, next_id>>

\* Mutant: `owned` is not looked at.
GrantOwned(p) ==
  /\ pc[p] = "armed"
  /\ ~ Expired(reg[p], seen[p])
  /\ IsNext(reg[p], seen[p])
  /\ owned' = TRUE
  /\ Leave(p)
  /\ pc' = [pc EXCEPT ![p] = "holding"]
  /\ UNCHANGED <<now, next_id>>

\* Under the lock: the permit is free and this waiter is next.
Grant(p) ==
  /\ pc[p] = "armed"
  /\ ~ Expired(reg[p], seen[p])
  /\ ~ owned
  /\ IsNext(reg[p], seen[p])
  /\ owned' = TRUE
  /\ Leave(p)
  /\ pc' = [pc EXCEPT ![p] = "holding"]
  /\ UNCHANGED <<now, next_id>>

\* Under the lock: neither; go to sleep on the future made by Arm.
Sleep(p) ==
  /\ pc[p] = "armed"
  /\ ~ Expired(reg[p], seen[p])
  /\ owned \/ ~ IsNext(reg[p], seen[p])
  /\ pc' = [pc EXCEPT ![p] = "waiting"]
  /\ seen' = [seen EXCEPT ![p] = 0]
  /\ UNCHANGED <<now, owned, next_id, waiters, reg, woken>>

\* The select! completes: a notification, or sleep_until(deadline).
Wake(p) ==
  /\ pc[p] = "waiting"
  /\ woken[p] \/ Expired(reg[p], now)
  /\ pc' = [pc EXCEPT ![p] = "loop"]
  /\ woken' = [woken EXCEPT ![p] = FALSE]
  /\ UNCHANGED <<now, owned, next_id, waiters, reg, seen>>

\* The future is dropped at its await point: WaitRegistration::drop.
Cancel(p) ==
  /\ pc[p] = "waiting"
  /\ Leave(p)
  /\ pc' = [pc EXCEPT ![p] = "notify"]
  /\ UNCHANGED <<now, owned, next_id>>

\* Mutant: the permit is given back without notifying.
ReleaseSilently(p) ==
  /\ pc[p] = "holding"
  /\ owned' = FALSE
  /\ pc' = [pc EXCEPT ![p] = "idle"]
  /\ UNCHANGED <<now, next_id, waiters, reg, seen, woken>>

\* ExecutionPermit::drop, before its notification.
Release(p) ==
  /\ pc[p] = "holding"
  /\ owned' = FALSE
  /\ pc' = [pc EXCEPT ![p] = "notify"]
  /\ UNCHANGED <<now, next_id, waiters, reg, seen, woken>>

\* Mutant: notify_one, which wakes any one of those that wait.
NotifyOne(p) ==
  LET sleeping == {q \in Task : pc[q] \in {"armed", "waiting"}}
  IN  /\ pc[p] = "notify"
      /\ pc' = [pc EXCEPT ![p] = "idle"]
      /\ IF sleeping = {} THEN UNCHANGED woken
         ELSE \E q \in sleeping : woken' = [woken EXCEPT ![q] = TRUE]
      /\ UNCHANGED <<now, owned, next_id, waiters, reg, seen>>

\* notify_waiters(): completes every Notified future that exists now.
NotifyWaiters(p) ==
  /\ pc[p] = "notify"
  /\ pc' = [pc EXCEPT ![p] = "idle"]
  /\ woken' = [q \in Task |-> woken[q] \/ pc[q] \in {"armed", "waiting"}]
  /\ UNCHANGED <<now, owned, next_id, waiters, reg, seen>>

Tick ==
  /\ now < MaxTime
  /\ now' = now + 1
  /\ UNCHANGED <<owned, next_id, waiters, pc, reg, seen, woken>>

Step(p) == Register(p) \/ Arm(p) \/ Expire(p) \/ Grant(p) \/ Sleep(p) \/ Wake(p) \/ NotifyWaiters(p)

Next ==
  \/ \E p \in Task, r \in Request : Enter(p, r)
  \/ \E p \in Task : Register(p)
  \/ \E p \in Task : Arm(p)
  \/ \E p \in Task : Expire(p)
  \/ \E p \in Task : Grant(p)
  \/ \E p \in Task : Sleep(p)
  \/ \E p \in Task : Wake(p)
  \/ \E p \in Task : Cancel(p)
  \/ \E p \in Task : Release(p)
  \/ \E p \in Task : NotifyWaiters(p)
  \/ Tick

Spec == Init /\ [][Next]_vars

(***************************************************************************)
(* Fairness: the runtime keeps polling a task that can run, time passes,   *)
(* and a holder releases (every await under the permit has a timeout or a  *)
(* bounded number of polls).  Nothing obliges a task to acquire or to be   *)
(* cancelled.                                                              *)
(***************************************************************************)
Fairness ==
  /\ WF_vars(Tick)
  /\ \A p \in Task : WF_vars(Step(p)) /\ WF_vars(Release(p))

FairSpec == Spec /\ Fairness

-----------------------------------------------------------------------------
(* Properties *)

Queued == {p \in Task : pc[p] \in {"loop", "armed", "waiting"}}

\* At most one task holds the permit, and `owned` is set exactly while one
\* does: a set flag nobody will clear would stop every nonce-affecting
\* operation for good.
SingleOwner ==
  /\ \A p, q \in Task : pc[p] = "holding" /\ pc[q] = "holding" => p = q
  /\ owned <=> \E p \in Task : pc[p] = "holding"

\* The queue holds exactly the records of the tasks still inside acquire,
\* each under an id of its own.  An orphan left by a cancellation, an expiry
\* or a grant could be `next` for ever and starve everybody behind it.
QueueMatchesTasks ==
  /\ waiters = {reg[p] : p \in Queued}
  /\ \A p, q \in Queued : reg[p].id = reg[q].id => p = q
  /\ \A p \in Queued : reg[p].id < next_id

\* No emergency waiter registered before the permit is granted is overtaken
\* by another class or by a younger emergency.
EmergencyNotOvertaken ==
  [][\A p, q \in Task :
       /\ pc[p] # "holding" /\ pc'[p] = "holding"
       /\ q # p /\ q \in Queued /\ reg[q].class = Emergency
       => reg[p].class = Emergency /\ reg[p].id < reg[q].id]_vars

\* No lost wake-up for emergency work: while the permit is free, the oldest
\* emergency waiter is about to look at the queue again, or a notification
\* that will make it look is still to be sent.
FirstEmergency(p) ==
  /\ p \in Queued /\ reg[p].class = Emergency
  /\ \A q \in Queued : reg[q].class = Emergency => reg[p].id <= reg[q].id

WillLook(p) == pc[p] \in {"loop", "armed"} \/ woken[p]

EmergencyNotStranded ==
  \A p \in Task :
    ~ owned /\ FirstEmergency(p) => WillLook(p) \/ \E q \in Task : pc[q] = "notify"

\* Every emergency waiter gets the permit or is cancelled by its own caller.
EmergencyServed ==
  \A p \in Task :
    (p \in Queued /\ reg[p].class = Emergency) ~> (pc[p] \notin {"loop", "armed", "waiting"})

\* An entry with a deadline leaves acquire, with the permit or DeadlineExpired.
DeadlineEntryResolves ==
  \A p \in Task :
    (p \in Queued /\ reg[p].deadline # NoDeadline) ~> (p \notin Queued)

\* docs/agents/invariants.md: "fresh routine exits may be deferred for at most
\* 100 ms".  A routine exit older than that, with the permit free and no
\* emergency ahead of it, is not left asleep with nobody about to wake it.
RoutineDeferralBounded ==
  \A p \in Task :
    /\ ~ owned
    /\ pc[p] = "waiting" /\ reg[p].class = RoutineExit
    /\ reg[p].enqueued + MaxDeferral <= now
    => \E q \in Task : pc[q] = "notify" \/ (q \in Queued /\ WillLook(q))
=============================================================================
