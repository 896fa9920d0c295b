---------------------------- MODULE TickFunction ----------------------------
(***************************************************************************)
(* FTickFunction: the schedule of one tickable object.  Its dispatcher     *)
(* begins it, advances it with the time of every frame and ends it; anyone *)
(* may enable it, disable it or change its interval in between, its own    *)
(* tick included.  Calls that are refused change nothing, so refusals are  *)
(* the guards of the actions below.                                        *)
(***************************************************************************)
EXTENDS Naturals

CONSTANTS
    EndOfTime,              \* largest point in time (2^64 - 1 in the code)
    MaxDuration,            \* largest duration (2^32 - 1 in the code)
    Intervals               \* intervals the callers ask for

ASSUME TickAssumption ==
    /\ EndOfTime \in Nat /\ MaxDuration \in Nat
    /\ Intervals \subseteq 0..MaxDuration

VARIABLES
    tick,                   \* FTickFunction
    ticks                   \* history: the ticks since the schedule was last broken

tickVars == <<tick, ticks>>

Moments == 0..EndOfTime

FTickFunction ==
    [lastObserved: Moments, previousTick: Moments, nextDue: Moments, interval: Intervals,
     bCanEverTick: BOOLEAN, bEnabled: BOOLEAN, bPlaying: BOOLEAN, bMustReset: BOOLEAN]

FTickConfiguration == [bCanEverTick: BOOLEAN, bStartEnabled: BOOLEAN, interval: Intervals]

(***************************************************************************)
(* The time of the first and of the last tick of the present run, what its *)
(* ticks were told has passed, whether one had to be told less, and the    *)
(* parity of their number.                                                 *)
(***************************************************************************)
Runs ==
    [begun: BOOLEAN, first: Moments, last: Moments, told: Nat, clipped: BOOLEAN, odd: BOOLEAN]
NoRun ==
    [begun |-> FALSE, first |-> 0, last |-> 0, told |-> 0, clipped |-> FALSE, odd |-> FALSE]

TickInit ==
    /\ \E configuration \in FTickConfiguration :
          tick = [lastObserved |-> 0, previousTick |-> 0, nextDue |-> 0,
                  interval |-> configuration.interval,
                  bCanEverTick |-> configuration.bCanEverTick,
                  bEnabled |-> configuration.bCanEverTick /\ configuration.bStartEnabled,
                  bPlaying |-> FALSE, bMustReset |-> TRUE]
    /\ ticks = NoRun

(* A schedule that has ended may begin again, with a clock of its own. *)
TickBeginPlay(now) ==
    /\ ~tick.bPlaying
    /\ tick' = [tick EXCEPT !.lastObserved = now, !.previousTick = now, !.nextDue = now,
                            !.bPlaying = TRUE, !.bMustReset = TRUE]
    /\ ticks' = NoRun

TickEndPlay ==
    /\ tick.bPlaying
    /\ tick' = [tick EXCEPT !.bPlaying = FALSE]
    /\ UNCHANGED ticks

\* Mutant: a schedule that is switched off and on goes on where it was.
SetEnabledOnly(enabled) ==
    /\ enabled => tick.bCanEverTick
    /\ tick.bEnabled # enabled
    /\ tick' = [tick EXCEPT !.bEnabled = enabled]
    /\ ticks' = NoRun

SetEnabled(enabled) ==
    /\ enabled => tick.bCanEverTick
    /\ tick.bEnabled # enabled
    /\ tick' = [tick EXCEPT !.bEnabled = enabled, !.bMustReset = TRUE]
    /\ ticks' = NoRun

SetInterval(interval) ==
    /\ tick' = [tick EXCEPT !.interval = interval, !.bMustReset = TRUE]
    /\ ticks' = NoRun

CalculateNextDue(now) ==
    IF EndOfTime - now < tick.interval THEN EndOfTime ELSE now + tick.interval

CalculateDelta(now) ==
    IF now - tick.previousTick > MaxDuration THEN MaxDuration ELSE now - tick.previousTick

IsTickDueNow(now) ==
    tick.interval # 0 => now >= tick.nextDue /\ now # tick.previousTick

Accepts(now) == tick.bPlaying /\ now >= tick.lastObserved

(* What Advance does when it ticks, and the history of it. *)
Ticked(now, delta) ==
    /\ tick' = [tick EXCEPT !.lastObserved = now, !.previousTick = now,
                            !.nextDue = CalculateNextDue(now), !.bMustReset = FALSE]
    /\ ticks' = [begun |-> TRUE,
                 first |-> IF ticks.begun THEN ticks.first ELSE now,
                 last |-> now,
                 told |-> ticks.told + delta,
                 clipped |-> ticks.clipped \/ (ticks.begun /\ now - ticks.last > MaxDuration),
                 odd |-> ~ticks.odd]

BeginResetSchedule(now) ==
    Accepts(now) /\ tick.bEnabled /\ tick.bMustReset /\ Ticked(now, 0)

ProduceDueTick(now) ==
    /\ Accepts(now) /\ tick.bEnabled /\ ~tick.bMustReset
    /\ IsTickDueNow(now)
    /\ Ticked(now, CalculateDelta(now))

NotDue(now) ==
    /\ Accepts(now)
    /\ tick.bEnabled => ~tick.bMustReset /\ ~IsTickDueNow(now)
    /\ tick' = [tick EXCEPT !.lastObserved = now]
    /\ UNCHANGED ticks

TickNext ==
    \/ \E now \in Moments : TickBeginPlay(now)
    \/ TickEndPlay
    \/ \E enabled \in BOOLEAN : SetEnabled(enabled)
    \/ \E interval \in Intervals : SetInterval(interval)
    \/ \E now \in Moments : BeginResetSchedule(now) \/ ProduceDueTick(now) \/ NotDue(now)

TickTypeOK == tick \in FTickFunction /\ ticks \in Runs

(***************************************************************************)
(* A run of ticks tells the time that has passed since its first tick, no  *)
(* part of it twice and none from before the schedule was last broken, be  *)
(* it by a pause or a new interval; it tells less only where a gap exceeds *)
(* the largest duration.  Its ticks are an interval apart, up to the end   *)
(* of time, and an advance passes one over only when the interval has not  *)
(* elapsed, or in the very millisecond of the last tick.                   *)
(***************************************************************************)
TellsTime ==
    /\ ticks.told <= ticks.last - ticks.first
    /\ ~ticks.clipped => ticks.told = ticks.last - ticks.first

KeepsInterval ==
    ticks.begun /\ ticks'.begun =>
        /\ ticks'.odd # ticks.odd =>
              /\ ticks'.last >= ticks.last + tick.interval \/ ticks'.last = EndOfTime
              /\ ticks'.last = ticks.last => tick.interval = 0
        /\ /\ tick'.lastObserved > tick.lastObserved
           /\ tick'.lastObserved >= ticks.last + tick.interval
           => ticks'.last = tick'.lastObserved

TicksOnTime == [][TellsTime' /\ KeepsInterval]_tickVars
=============================================================================
