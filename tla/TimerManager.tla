---------------------------- MODULE TimerManager ----------------------------
(***************************************************************************)
(* TTimerManager: bounded timers, fired by Advance in the order in which   *)
(* they were scheduled.                                                    *)
(*                                                                         *)
(* Callbacks are user code and may call the manager back; the dispatch     *)
(* lock refuses them.  A call that is refused changes nothing, so refusals *)
(* are the guards of the actions below.                                    *)
(***************************************************************************)
EXTENDS Naturals, Sequences, SequencesExt, SequenceFilter

CONSTANTS
    MaxTimers,              \* slots
    MaxTimerGeneration,     \* largest slot generation (2^32 - 1 in the code)
    MaxTime,                \* largest point in time (2^64 - 1 in the code)
    Delays                  \* delays the callers ask for

ASSUME TimerAssumption ==
    /\ MaxTimers \in Nat \ {0}
    /\ MaxTimerGeneration \in Nat \ {0}
    /\ MaxTime \in Nat
    /\ Delays \subseteq Nat

VARIABLES
    timers,                 \* Slots
    insertionOrder,         \* InsertionOrder, its first ActiveTimerCount entries
    lastAcceptedNow,        \* LastAcceptedNowMilliseconds
    bDispatchActive,
    dispatchSnapshot,       \* the part of DispatchSnapshot not yet visited
    firing,                 \* the handle whose callback Advance is in
    timerLog                \* history: what was scheduled, and what became of it

timerVars ==
    <<timers, insertionOrder, lastAcceptedNow, bDispatchActive, dispatchSnapshot,
      firing, timerLog>>

Times == 0..MaxTime
TimerSlots == 1..MaxTimers
Modes == {"OneShot", "Looping"}
TimerHandles == [index: TimerSlots, generation: 1..MaxTimerGeneration]
NoTimer == [index |-> 0, generation |-> 0]

(***************************************************************************)
(* The callback of a slot is the number of the schedule that brought it,   *)
(* and 0 when the delegate is unbound.                                     *)
(***************************************************************************)
Schedules == 1..(MaxTimers * MaxTimerGeneration)

FTimerSlot ==
    [callback: {0} \cup Schedules, deadline: Times, period: {0} \cup Delays,
     lastFired: Times, generation: 1..MaxTimerGeneration, mode: Modes \cup {"None"},
     active: BOOLEAN, retired: BOOLEAN]

(* A schedule: when it was first due, when it last fired, whether it is over. *)
TimerEntries ==
    [handle: TimerHandles, due: Times, fired: {{}} \cup {{t} : t \in Times}, left: BOOLEAN]

Over(entry) == [entry EXCEPT !.due = 0, !.fired = {}, !.left = TRUE]

TimerInit ==
    /\ timers = [i \in TimerSlots |->
                    [callback |-> 0, deadline |-> 0, period |-> 0, lastFired |-> 0,
                     generation |-> 1, mode |-> "None", active |-> FALSE, retired |-> FALSE]]
    /\ insertionOrder = <<>>
    /\ lastAcceptedNow = 0
    /\ bDispatchActive = FALSE
    /\ dispatchSnapshot = <<>>
    /\ firing = NoTimer
    /\ timerLog = <<>>

SaturatingAdd(base, addend) == IF MaxTime - base < addend THEN MaxTime ELSE base + addend

IsLiveTimer(h) ==
    h \in TimerHandles /\ timers[h.index].active /\ timers[h.index].generation = h.generation

\* Mutant: the generation stays as it is.
KeptGeneration(slot) == slot

(* A slot whose generation is used up is never offered again. *)
AdvanceGenerationOrRetire(slot) ==
    IF slot.generation < MaxTimerGeneration
    THEN [slot EXCEPT !.generation = @ + 1]
    ELSE [slot EXCEPT !.retired = TRUE]

(***************************************************************************)
(* The code leaves the schedule of a vacated slot in it, where nothing     *)
(* reads it before Arm overwrites it; the model clears all but the time of *)
(* the last firing.                                                        *)
(***************************************************************************)
Vacated(slot) ==
    AdvanceGenerationOrRetire(
        [slot EXCEPT !.callback = 0, !.active = FALSE,
                     !.deadline = 0, !.period = 0, !.mode = "None"])

AvailableTimers == {i \in TimerSlots : ~timers[i].active /\ ~timers[i].retired}
IsFirstAvailableTimer(i) == i \in AvailableTimers /\ \A j \in AvailableTimers : i <= j

Schedule(delay, mode) ==
    /\ ~bDispatchActive
    /\ \E i \in TimerSlots :
          LET handle == [index |-> i, generation |-> timers[i].generation]
              deadline == SaturatingAdd(lastAcceptedNow, delay)
              period == IF mode = "Looping" THEN delay ELSE 0
          IN  /\ IsFirstAvailableTimer(i)
              /\ timers' = [timers EXCEPT ![i] =
                    [@ EXCEPT !.callback = Len(timerLog) + 1, !.deadline = deadline,
                              !.period = period, !.lastFired = 0, !.mode = mode,
                              !.active = TRUE]]
              /\ insertionOrder' = Append(insertionOrder, handle)
              /\ timerLog' = Append(timerLog,
                    [handle |-> handle, due |-> deadline, fired |-> {}, left |-> FALSE])
    /\ UNCHANGED <<lastAcceptedNow, bDispatchActive, dispatchSnapshot, firing>>

(* History: the schedule that was given a handle. *)
ScheduleOf(h) == CHOOSE s \in DOMAIN timerLog : timerLog[s].handle = h

\* Mutant: a cancellation that the dispatch lock does not refuse.
CancelWhileDispatching(h) ==
    /\ IsLiveTimer(h)
    /\ timers' = [timers EXCEPT ![h.index] = Vacated(@)]
    /\ insertionOrder' = Without(insertionOrder, h)
    /\ timerLog' = [timerLog EXCEPT ![ScheduleOf(h)] = Over(@)]
    /\ UNCHANGED <<lastAcceptedNow, bDispatchActive, dispatchSnapshot, firing>>

Cancel(h) ==
    /\ ~bDispatchActive
    /\ IsLiveTimer(h)
    /\ timers' = [timers EXCEPT ![h.index] = Vacated(@)]
    /\ insertionOrder' = Without(insertionOrder, h)
    /\ timerLog' = [timerLog EXCEPT ![ScheduleOf(h)] = Over(@)]
    /\ UNCHANGED <<lastAcceptedNow, bDispatchActive, dispatchSnapshot, firing>>

(* Advance, up to its loop over the snapshot. *)
BeginAdvance(now) ==
    /\ ~bDispatchActive
    /\ now >= lastAcceptedNow
    /\ lastAcceptedNow' = now
    /\ dispatchSnapshot' = insertionOrder
    /\ bDispatchActive' = TRUE
    /\ UNCHANGED <<timers, insertionOrder, firing, timerLog>>

\* Mutant: a timer is due once its deadline has passed.
IsPastDue(h) ==
    /\ IsLiveTimer(h)
    /\ lastAcceptedNow > timers[h.index].deadline
    /\ ~(timers[h.index].period # 0 /\ timers[h.index].lastFired = lastAcceptedNow)

IsDue(h) ==
    /\ IsLiveTimer(h)
    /\ lastAcceptedNow >= timers[h.index].deadline
    /\ ~(timers[h.index].period # 0 /\ timers[h.index].lastFired = lastAcceptedNow)

SkipTimer ==
    /\ bDispatchActive /\ firing = NoTimer
    /\ dispatchSnapshot # <<>>
    /\ ~IsDue(Head(dispatchSnapshot))
    /\ dispatchSnapshot' = Tail(dispatchSnapshot)
    /\ UNCHANGED <<timers, insertionOrder, lastAcceptedNow, bDispatchActive, firing, timerLog>>

(* The call of Callback.Execute. *)
FireTimer ==
    /\ bDispatchActive /\ firing = NoTimer
    /\ dispatchSnapshot # <<>>
    /\ IsDue(Head(dispatchSnapshot))
    /\ firing' = Head(dispatchSnapshot)
    /\ dispatchSnapshot' = Tail(dispatchSnapshot)
    /\ timerLog' = [timerLog EXCEPT ![timers[firing'.index].callback].fired = {lastAcceptedNow}]
    /\ UNCHANGED <<timers, insertionOrder, lastAcceptedNow, bDispatchActive>>

Rescheduled(slot) ==
    [slot EXCEPT
        !.lastFired = IF slot.period # 0 THEN lastAcceptedNow ELSE @,
        !.deadline = SaturatingAdd(lastAcceptedNow, slot.period)]

(* The callback returns: a one-shot is over, a looping timer is armed again. *)
TimerReturns ==
    /\ firing # NoTimer
    /\ LET slot == timers[firing.index]
       IN  /\ timers' = [timers EXCEPT ![firing.index] =
                            IF slot.mode = "OneShot" THEN Vacated(@) ELSE Rescheduled(@)]
           /\ timerLog' = [timerLog EXCEPT ![ScheduleOf(firing)] =
                              IF slot.mode = "OneShot" THEN Over(@) ELSE @]
    /\ firing' = NoTimer
    /\ UNCHANGED <<insertionOrder, lastAcceptedNow, bDispatchActive, dispatchSnapshot>>

LiveTimers == {h \in TimerHandles : IsLiveTimer(h)}

CompactInsertionOrder == Kept(insertionOrder, LiveTimers)

EndAdvance ==
    /\ bDispatchActive /\ firing = NoTimer
    /\ dispatchSnapshot = <<>>
    /\ bDispatchActive' = FALSE
    /\ insertionOrder' = CompactInsertionOrder
    /\ UNCHANGED <<timers, lastAcceptedNow, dispatchSnapshot, firing, timerLog>>

-----------------------------------------------------------------------------
TimerTypeOK ==
    /\ timers \in [TimerSlots -> FTimerSlot]
    /\ insertionOrder \in Seq(TimerHandles) /\ Len(insertionOrder) <= MaxTimers
    /\ lastAcceptedNow \in Times
    /\ bDispatchActive \in BOOLEAN
    /\ dispatchSnapshot \in Seq(TimerHandles) /\ Len(dispatchSnapshot) <= MaxTimers
    /\ firing \in TimerHandles \cup {NoTimer}
    /\ timerLog \in Seq(TimerEntries) /\ DOMAIN timerLog \subseteq Schedules

(***************************************************************************)
(* A handle names its schedule and no other, for ever: it is live exactly  *)
(* until that schedule has fired its last or was cancelled, and what lies  *)
(* in the slot meanwhile is that schedule's callback, bound.               *)
(***************************************************************************)
TimerHandlesNameTheirOwn ==
    \A s \in DOMAIN timerLog :
        LET h == timerLog[s].handle
        IN  IF timerLog[s].left THEN ~IsLiveTimer(h)
            ELSE IsLiveTimer(h) /\ timers[h.index].callback = s

(***************************************************************************)
(* No timer fires before its time, and a looping one leaves at least its   *)
(* period between two firings; where time ends and deadlines saturate, it  *)
(* still fires once and not again at every Advance.  A schedule that is    *)
(* over never fires.                                                       *)
(***************************************************************************)
FiresOnTime ==
    firing = NoTimer /\ firing' # NoTimer =>
        LET slot == timers[firing'.index]
            entry == timerLog[slot.callback]
        IN  /\ ~entry.left
            /\ lastAcceptedNow >= entry.due
            /\ \A t \in entry.fired :
                  /\ slot.mode = "Looping"
                  /\ slot.period # 0 => t < lastAcceptedNow
                  /\ lastAcceptedNow - t >= slot.period \/ lastAcceptedNow = MaxTime
=============================================================================
