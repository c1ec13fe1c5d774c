------------------------------ MODULE EntryClock ------------------------------
(***************************************************************************)
(* pons/clock.rs and the timed part of a live entry: run.rs from the       *)
(* decision to fire, and clock_fire of trade/burst.rs.  The header task    *)
(* pins the first header it sees of a second to the monotonic clock; the   *)
(* entry derives from it when to prepare, when to give up and when to send.*)
(* Times are milliseconds.  A block is named by the time it is made, which *)
(* gives its number and its second.  Left out: the offset, which is shown, *)
(* the base fee, and a simulated entry, which waits for the second itself. *)
(***************************************************************************)
EXTENDS Integers

CONSTANTS
  Step,        \* between two blocks, and of the model's time
  Delay,       \* bound: of a header on its way
  LaunchedAt,  \* the launch's second
  EntrySecond,
  LeadMs,      \* BURST_LEAD_MS
  WakeTolerance, Deferral, \* DISPATCH_WAKE_TOLERANCE_MS, ROUTINE_EXIT_MAX_DEFERRAL
  MaxAge, MaxJitter,  \* 2 000 and 1 500
  MaxWait,     \* max_wait_ms
  Starts,      \* when the session may begin
  MaxTime,     \* bound: when the model ends
  MaxDrops     \* bound: times the stream of headers ends

Second == 1000

ASSUME ClockAssumption ==
  /\ {Step, LaunchedAt, EntrySecond} \subseteq Nat \ {0}
  /\ {Delay, LeadMs, WakeTolerance, Deferral, MaxAge, MaxJitter, MaxWait, MaxTime, MaxDrops} \subseteq Nat
  /\ Starts \subseteq Nat \ (0 .. Second - 1)
  /\ \A t \in Starts \cup {MaxTime, Second, Delay} : t % Step = 0

VARIABLES
  now,     \* Instant::now, which runs with the sequencer's clock
  clock,   \* ChainClock; silence (history) is how long no header came before the
           \* one that pinned the boundary
  headers, \* spawn_clock: whether it reads a stream, and the next block on it
  drops,
  entry    \* the entry task: where it is, its instants, and when it sent

clockVars == <<now, clock, headers, drops, entry>>

Unseeded == [boundary |-> 0, at |-> 0, count |-> 0, jitter |-> 0, block |-> 0, seen |-> 0, silence |-> 0]

ClockTypeOK ==
  /\ now \in Nat /\ drops \in 0 .. MaxDrops
  /\ clock \in [{"boundary", "at", "count", "jitter", "block", "seen", "silence"} -> Nat]
  /\ headers \in [at : {"connect", "stream", "poll"}, next : Nat]
  /\ entry.at \in {"screened", "healthy", "planned", "wait", "flow", "curve", "lane", "acquire",
                   "granted", "armed", "fired", "held"}
  /\ entry.until \in Int /\ entry.dispatch \in Int /\ entry.sent \in Nat /\ entry.silence \in Nat

ClockInit ==
  /\ now \in Starts
  /\ clock = Unseeded /\ headers = [at |-> "connect", next |-> 0] /\ drops = 0
  /\ entry = [at |-> "screened", until |-> 0, dispatch |-> 0, sent |-> 0, silence |-> 0]

Larger(a, b) == IF a > b THEN a ELSE b
Smaller(a, b) == IF a < b THEN a ELSE b
Distance(a, b) == IF a > b THEN a - b ELSE b - a

-----------------------------------------------------------------------------
(* ChainClock *)

\* Mutant: every header of the second moves the boundary.
NewSecondAgain(second) == second >= clock.boundary

NewSecond(second) == clock.boundary = 0 \/ second > clock.boundary

\* The running mean of how far the seconds come from where they were expected.
Jitter(second) ==
  LET off == Distance(now - clock.at, Second * (second - clock.boundary))
  IN  IF clock.boundary = 0 THEN clock.jitter
      ELSE IF clock.jitter = 0 THEN off
      ELSE (clock.jitter * 7 + off) \div 8

\* `note_header`: a block before the last one is ignored, and the first header of a
\* new second pins it.
Noted(block) ==
  LET second == block \div Second
      seen   == [clock EXCEPT !.block = block, !.seen = now]
  IN  CASE block < clock.block -> clock
        [] block >= clock.block /\ NewSecond(second) ->
             [seen EXCEPT !.boundary = second, !.at = now, !.count = @ + 1, !.jitter = Jitter(second),
                          !.silence = IF clock.seen = 0 THEN 0 ELSE now - clock.seen]
        [] OTHER -> seen

ChainNow == IF clock.boundary = 0 THEN now ELSE clock.boundary * Second + (now - clock.at)

InstantFor(ms) == clock.at + (ms - clock.boundary * Second)

Quality ==
  /\ clock.boundary > 0 /\ clock.count >= 2
  /\ now - clock.seen <= MaxAge /\ clock.jitter <= MaxJitter

-----------------------------------------------------------------------------
(* spawn_clock: a stream of headers; when it ends, one poll, and a new stream *)

\* The endpoint of a new stream may be behind by the delay.
Subscribe ==
  /\ headers.at = "connect"
  /\ \E block \in {x \in Larger(now - Delay, Second) .. now + Step : x % Step = 0} :
       headers' = [at |-> "stream", next |-> block]
  /\ UNCHANGED <<now, clock, drops, entry>>

\* Every header comes, in order.
Header ==
  /\ headers.at = "stream" /\ headers.next <= now
  /\ clock' = Noted(headers.next)
  /\ headers' = [headers EXCEPT !.next = @ + Step]
  /\ UNCHANGED <<now, drops, entry>>

\* No connection, the stream is closed, an error, or silent for two seconds.
StreamEnds ==
  /\ headers.at \in {"connect", "stream"} /\ drops < MaxDrops
  /\ headers' = [at |-> "poll", next |-> 0] /\ drops' = drops + 1
  /\ UNCHANGED <<now, clock, entry>>

\* latest_header answers or fails; the task sleeps for 200 ms, and connects.
Poll ==
  /\ headers.at = "poll"
  /\ headers' = [headers EXCEPT !.at = "connect"]
  /\ \/ UNCHANGED clock
     \/ \E block \in {x \in Larger(now - Delay, Second) .. now : x % Step = 0} : clock' = Noted(block)
  /\ UNCHANGED <<now, drops, entry>>

\* External: time goes on, but for a header that is due.
TimePasses ==
  /\ now < MaxTime
  /\ headers.at = "stream" => now < headers.next + Delay
  /\ now' = now + Step
  /\ UNCHANGED <<clock, headers, drops, entry>>

-----------------------------------------------------------------------------
(* EntryDeadline *)

Boundary == (LaunchedAt + EntrySecond) * Second
DispatchMs == Larger(Boundary - LeadMs, 0)
LatestDispatchMs == DispatchMs + Smaller(WakeTolerance, LeadMs)

PreparationOpen == ChainNow <= DispatchMs

DispatchOpen == ChainNow <= LatestDispatchMs

-----------------------------------------------------------------------------
(* handle_launch, from the decision to fire, and clock_fire *)

Advance(to) == entry' = [entry EXCEPT !.at = to] /\ UNCHANGED <<now, clock, headers, drops>>
AdvanceUntil(to, until) ==
  entry' = [entry EXCEPT !.at = to, !.until = until] /\ UNCHANGED <<now, clock, headers, drops>>

EntryHealthy == entry.at = "screened" /\ Quality /\ Advance("healthy")

\* The dispatch instant is fixed by the clock as it is now.
EntryPlan ==
  /\ entry.at = "healthy"
  /\ PreparationOpen /\ Boundary - ChainNow <= MaxWait
  /\ entry' = [entry EXCEPT !.at = "planned", !.dispatch = InstantFor(DispatchMs)]
  /\ UNCHANGED <<now, clock, headers, drops>>

\* Until a second before the boundary.
EntrySleep == entry.at = "planned" /\ AdvanceUntil("wait", InstantFor(Boundary - Second))
EntryWake == entry.at = "wait" /\ now >= entry.until /\ Advance("flow")

\* The flow was synced and the gate passed; then the curve was read and quoted.
EntryFlow == entry.at = "flow" /\ PreparationOpen /\ Advance("curve")
EntryCurve == entry.at = "curve" /\ PreparationOpen /\ AdvanceUntil("lane", entry.dispatch - Deferral)

EntryLane == entry.at = "lane" /\ now >= entry.until /\ Advance("acquire")
EntryGranted == entry.at = "acquire" /\ PreparationOpen /\ Advance("granted")

\* clock_fire, after the burst is signed: when to send is derived once more.
EntryArm == entry.at = "granted" /\ PreparationOpen /\ AdvanceUntil("armed", InstantFor(DispatchMs))

EntryFire ==
  /\ entry.at = "armed" /\ now >= entry.until
  /\ Quality /\ DispatchOpen
  /\ entry' = [entry EXCEPT !.at = "fired", !.sent = now, !.silence = clock.silence]
  /\ UNCHANGED <<now, clock, headers, drops>>

\* A check fails, a wait is over, the session is paused, or a gate refuses.
EntryHeld == entry.at \notin {"fired", "held"} /\ Advance("held")

EntryStep ==
  \/ EntryHealthy \/ EntryPlan \/ EntrySleep \/ EntryWake \/ EntryFlow \/ EntryCurve
  \/ EntryLane \/ EntryGranted \/ EntryArm \/ EntryFire \/ EntryHeld

ClockNext == Subscribe \/ Header \/ StreamEnds \/ Poll \/ TimePasses \/ EntryStep

ClockSpec == ClockInit /\ [][ClockNext]_clockVars

-----------------------------------------------------------------------------
(* Properties *)

\* docs/COMMANDS.md: the burst goes "just before the first +2 block" and a missed
\* cutoff is "skipped rather than chased".  Whatever the headers' delays, the stream's
\* ends and the clock's new anchors between plan and send, a burst is never sent
\* before the sequencer reaches the dispatch time, nor later than the tolerance plus
\* the delay of a header and the silence before the header that pinned the second.
SentInWindow ==
  entry.at = "fired" =>
    /\ DispatchMs <= entry.sent
    /\ entry.sent <= LatestDispatchMs + Delay + entry.silence
===============================================================================
