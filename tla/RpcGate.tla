-------------------------------- MODULE RpcGate --------------------------------
(***************************************************************************)
(* rpc.rs: every JSON-RPC request of the process goes through one gate.    *)
(* Lanes: hot, enrich, background.  Hot calls have permits of their own and *)
(* share the others; a background call waits until no enrichment is under  *)
(* way; all of them leave the gate one by one, a spacing apart.  A failed   *)
(* attempt is retried, and a call may be dropped by its caller wherever it *)
(* waits.  Which endpoint an attempt goes to, and which are benched, makes  *)
(* no difference here: any of them may fail.                               *)
(***************************************************************************)
EXTENDS Integers, FiniteSets

CONSTANTS
  HotCall, EnrichCall, BackgroundCall,   \* bound: calls at a time in each lane; each ends and comes again
  InFlight,        \* rpc_in_flight
  MaxTimes         \* retries of one call (7)

Call == HotCall \cup EnrichCall \cup BackgroundCall

ASSUME GateAssumption ==
  /\ IsFiniteSet(Call) /\ "none" \notin Call
  /\ HotCall \cap EnrichCall = {} /\ BackgroundCall \cap (HotCall \cup EnrichCall) = {}
  /\ InFlight \in Nat \ {0} /\ MaxTimes \in Nat

VARIABLES
  at,            \* per call: where it is
  attempt,       \* per call: attempts that failed
  holds,         \* per call: the permit it has, "none", "shared" or "hot"
  shared, hot, background,   \* free permits of the three semaphores
  next_start,    \* the holder of the lock, or "none"
  enrich_pending

permitVars == <<holds, shared, hot>>
gateVars == <<at, attempt, permitVars, background, next_start, enrich_pending>>

\* One third of the permits, at least one, and never the last one.
HotReserve == IF InFlight = 1 THEN 0 ELSE IF InFlight < 3 THEN 1 ELSE InFlight \div 3

GateInit ==
  /\ at = [c \in Call |-> "idle"] /\ attempt = [c \in Call |-> 0]
  /\ holds = [c \in Call |-> "none"]
  /\ shared = InFlight - HotReserve /\ hot = HotReserve /\ background = 1
  /\ next_start = "none" /\ enrich_pending = 0

Goes(c, from, to) == at[c] = from /\ at' = [at EXCEPT ![c] = to]

-----------------------------------------------------------------------------
(* An attempt: call_once up to the request *)

Start(c) == IF c \in BackgroundCall THEN "background" ELSE "permit"

\* call: an enrichment is pending from here until the call returns or is dropped.
CallBegins(c) ==
  /\ Goes(c, "idle", Start(c))
  /\ enrich_pending' = enrich_pending + IF c \in EnrichCall THEN 1 ELSE 0
  /\ UNCHANGED <<attempt, permitVars, background, next_start>>

\* acquire_background: the permit, then a look at the enrichments, then the permit
\* is kept, or given back for 5 ms.
BackgroundTake(c) ==
  /\ Goes(c, "background", "look")
  /\ background > 0 /\ background' = background - 1
  /\ UNCHANGED <<attempt, permitVars, next_start, enrich_pending>>

BackgroundLook(c) ==
  /\ at[c] = "look"
  /\ IF enrich_pending = 0
     THEN at' = [at EXCEPT ![c] = "permit"] /\ UNCHANGED background
     ELSE at' = [at EXCEPT ![c] = "yield"] /\ background' = background + 1
  /\ UNCHANGED <<attempt, permitVars, next_start, enrich_pending>>

BackgroundAgain(c) ==
  /\ Goes(c, "yield", "background")
  /\ UNCHANGED <<attempt, permitVars, background, next_start, enrich_pending>>

\* Mutant: hot calls wait for the shared permits like the others.
AcquireShared(c) ==
  /\ Goes(c, "permit", "spacing")
  /\ shared > 0 /\ shared' = shared - 1 /\ holds' = [holds EXCEPT ![c] = "shared"]
  /\ UNCHANGED <<attempt, hot, background, next_start, enrich_pending>>

\* A hot call tries the reserve, and then waits for either.
Acquire(c) ==
  /\ Goes(c, "permit", "spacing")
  /\ \/ /\ c \in HotCall /\ hot > 0
        /\ hot' = hot - 1 /\ holds' = [holds EXCEPT ![c] = "hot"] /\ UNCHANGED shared
     \/ /\ c \in HotCall => hot = 0
        /\ shared > 0 /\ shared' = shared - 1 /\ holds' = [holds EXCEPT ![c] = "shared"]
        /\ UNCHANGED hot
  /\ UNCHANGED <<attempt, background, next_start, enrich_pending>>

\* The lock on next_start is held through the sleep up to the slot.
SpacingBegins(c) ==
  /\ Goes(c, "spacing", "sleep")
  /\ next_start = "none" /\ next_start' = c
  /\ UNCHANGED <<attempt, permitVars, background, enrich_pending>>

Send(c) ==
  /\ Goes(c, "sleep", "sent")
  /\ next_start' = "none"
  /\ UNCHANGED <<attempt, permitVars, background, enrich_pending>>

-----------------------------------------------------------------------------
(* How an attempt, and a call, ends *)

\* What an attempt has is dropped with it: its permit, its place before the lock, the
\* permit of the background.
AttemptDropped(c) ==
  /\ holds' = [holds EXCEPT ![c] = "none"]
  /\ shared' = shared + IF holds[c] = "shared" THEN 1 ELSE 0
  /\ hot' = hot + IF holds[c] = "hot" THEN 1 ELSE 0
  /\ next_start' = IF next_start = c THEN "none" ELSE next_start
  /\ background' = background + IF c \in BackgroundCall /\ at[c] \notin {"background", "yield", "backoff"}
                                THEN 1 ELSE 0

\* The call returns, or its future is dropped.
CallEnds(c) ==
  /\ at' = [at EXCEPT ![c] = "idle"] /\ attempt' = [attempt EXCEPT ![c] = 0]
  /\ enrich_pending' = enrich_pending - IF c \in EnrichCall THEN 1 ELSE 0

\* A result, an error no retry would change, or the last attempt's.
Answered(c) == at[c] = "sent" /\ AttemptDropped(c) /\ CallEnds(c)

\* No connection, a broken body, a challenge, too many requests, any 5xx.
Failed(c) ==
  /\ at[c] = "sent" /\ attempt[c] < MaxTimes
  /\ AttemptDropped(c)
  /\ attempt' = [attempt EXCEPT ![c] = @ + 1] /\ at' = [at EXCEPT ![c] = "backoff"]
  /\ UNCHANGED enrich_pending

Retry(c) ==
  /\ Goes(c, "backoff", Start(c))
  /\ UNCHANGED <<attempt, permitVars, background, next_start, enrich_pending>>

\* Mutant: what is pending is counted down by the calls that return.
CancelledUncounted(c) ==
  /\ at[c] # "idle"
  /\ at' = [at EXCEPT ![c] = "idle"] /\ attempt' = [attempt EXCEPT ![c] = 0]
  /\ AttemptDropped(c)
  /\ UNCHANGED enrich_pending

\* A deadline or an aborted task drops the call where it waits.
Cancelled(c) == at[c] # "idle" /\ AttemptDropped(c) /\ CallEnds(c)

-----------------------------------------------------------------------------
Proceeds(c) == BackgroundLook(c) \/ BackgroundAgain(c) \/ Send(c) \/ Retry(c)

Responds(c) == Answered(c) \/ Failed(c)

GateNext ==
  \E c \in Call :
    \/ CallBegins(c) \/ Proceeds(c) \/ BackgroundTake(c) \/ Acquire(c) \/ SpacingBegins(c)
    \/ Responds(c) \/ Cancelled(c)

GateSpec == GateInit /\ [][GateNext]_gateVars

\* Timers fire, and the semaphores and the lock serve in order of arrival.  Only the
\* requests of hot calls are taken to be answered, by their client's timeout at the
\* latest: what the other lanes do to a hot call must not depend on their answers.
GateFairness ==
  /\ \A c \in Call : WF_gateVars(Proceeds(c))
  /\ \A c \in HotCall : SF_gateVars(Acquire(c)) /\ SF_gateVars(SpacingBegins(c)) /\ WF_gateVars(Responds(c))

GateFairSpec == GateSpec /\ GateFairness

-----------------------------------------------------------------------------
(* Properties *)

Holding(kind) == Cardinality({c \in Call : holds[c] = kind})

\* docs/agents/invariants.md: the gate is cancellation-safe.  However attempts fail
\* and calls are dropped, each permit, the lock and the count of enrichments belong
\* to a call that is there to give them back.
GateBalance ==
  /\ shared + Holding("shared") = InFlight - HotReserve /\ hot + Holding("hot") = HotReserve
  /\ \A c \in Call : holds[c] # "none" <=> at[c] \in {"spacing", "sleep", "sent"}
  /\ \A c \in Call : next_start = c <=> at[c] = "sleep"
  /\ enrich_pending = Cardinality({c \in EnrichCall : at[c] # "idle"})
  /\ background + Cardinality({c \in BackgroundCall :
       at[c] \in {"look", "permit", "spacing", "sleep", "sent"}}) = 1

\* rpc.rs: "enrichment traffic can never starve a time-critical read": a hot call
\* ends even if no request of another lane is ever answered.
HotServed == \A c \in HotCall : (at[c] # "idle") ~> (at[c] = "idle")
================================================================================
