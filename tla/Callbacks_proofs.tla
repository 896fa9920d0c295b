------------------------- MODULE Callbacks_proofs -------------------------
(***************************************************************************)
(* Timers, bindings and ticks, for every size of the tables, every end of  *)
(* time and every set of delays and intervals, whatever the callbacks do:  *)
(* the tables keep their types and their handles to themselves, timers     *)
(* fire on time, the tables keep the promises of CallbackList, and ticks   *)
(* tell the time that has passed.                                          *)
(***************************************************************************)
EXTENDS Callbacks, TableLemmas, SequenceTheorems

LEMMA TimerBounds ==
    /\ MaxTimers \in Nat \ {0} /\ MaxTimerGeneration \in Nat \ {0}
    /\ MaxTime \in Nat /\ Delays \subseteq Nat
  BY TimerAssumption DEF TimerAssumption

-----------------------------------------------------------------------------
(* The types of the timers, but for the bounds that have to be counted. *)
TimerBase ==
    /\ timers \in [TimerSlots -> FTimerSlot]
    /\ insertionOrder \in Seq(TimerHandles)
    /\ lastAcceptedNow \in Times
    /\ bDispatchActive \in BOOLEAN
    /\ dispatchSnapshot \in Seq(TimerHandles)
    /\ firing \in TimerHandles \cup {NoTimer}
    /\ timerLog \in Seq(TimerEntries)

(* An active slot lies under the handle of its schedule, which is not over. *)
SlotSound(i) ==
    LET slot == timers[i]
    IN  /\ slot.active =>
            /\ slot.mode \in Modes
            /\ slot.callback \in DOMAIN timerLog
            /\ timerLog[slot.callback].handle = [index |-> i, generation |-> slot.generation]
            /\ ~timerLog[slot.callback].left
        /\ slot.retired => ~slot.active

(* A schedule that is not over has its slot; one that is has lost it for good. *)
EntrySound(s) ==
    LET h == timerLog[s].handle
        slot == timers[h.index]
    IN  /\ ~timerLog[s].left =>
            slot.active /\ slot.generation = h.generation /\ slot.callback = s
        /\ timerLog[s].left =>
            \/ slot.generation > h.generation
            \/ slot.retired /\ slot.generation = h.generation

HandlesDiffer ==
    \A s, t \in DOMAIN timerLog : timerLog[s].handle = timerLog[t].handle => s = t

TableSound ==
    /\ \A i \in TimerSlots : SlotSound(i)
    /\ \A s \in DOMAIN timerLog : EntrySound(s)
    /\ HandlesDiffer

(***************************************************************************)
(* The deadline of a schedule is never before it was first due; after a    *)
(* firing it is a period later, or at the end of time.                     *)
(***************************************************************************)
OnTime(s) ==
    LET entry == timerLog[s]
        slot == timers[entry.handle.index]
    IN  ~entry.left =>
            /\ entry.due <= slot.deadline
            /\ entry.handle = firing =>
                slot.deadline <= lastAcceptedNow /\ entry.fired = {lastAcceptedNow}
            /\ entry.handle # firing => \A t \in entry.fired :
                /\ t <= lastAcceptedNow
                /\ slot.mode = "Looping"
                /\ slot.deadline = SaturatingAdd(t, slot.period)
                /\ slot.period # 0 => slot.lastFired = t

Timely == \A s \in DOMAIN timerLog : OnTime(s)

(***************************************************************************)
(* The order holds every active slot once, and outside Advance nothing     *)
(* else; what Advance has still to visit is live.                          *)
(***************************************************************************)
OrderSound ==
    /\ \A p, q \in DOMAIN insertionOrder :
            insertionOrder[p].index = insertionOrder[q].index => p = q
    /\ ~bDispatchActive => \A p \in DOMAIN insertionOrder : IsLiveTimer(insertionOrder[p])
    /\ \A i \in TimerSlots : timers[i].active =>
            \E p \in DOMAIN insertionOrder :
                insertionOrder[p] = [index |-> i, generation |-> timers[i].generation]

SnapshotSound ==
    /\ \A p, q \in DOMAIN dispatchSnapshot :
            dispatchSnapshot[p].index = dispatchSnapshot[q].index => p = q
    /\ \A p \in DOMAIN dispatchSnapshot :
            IsLiveTimer(dispatchSnapshot[p]) /\ dispatchSnapshot[p].index # firing.index
    /\ ~bDispatchActive => dispatchSnapshot = <<>> /\ firing = NoTimer
    /\ firing # NoTimer => IsLiveTimer(firing)

TimerInvariant == TimerBase /\ TableSound /\ Timely /\ OrderSound /\ SnapshotSound

-----------------------------------------------------------------------------
LEMMA HandlesAre ==
    \A h \in TimerHandles :
        /\ h.index \in TimerSlots /\ h.index \in Nat /\ h.index # 0
        /\ h.generation \in 1..MaxTimerGeneration /\ h.generation \in Nat
        /\ h = [index |-> h.index, generation |-> h.generation]
  BY TimerBounds DEF TimerHandles, TimerSlots

LEMMA SlotsAre ==
    \A slot \in FTimerSlot :
        /\ slot.generation \in 1..MaxTimerGeneration /\ slot.generation \in Nat
        /\ slot.deadline \in Times /\ slot.deadline \in Nat
        /\ slot.period \in {0} \cup Delays /\ slot.period \in Nat
        /\ slot.lastFired \in Times /\ slot.mode \in Modes \cup {"None"}
        /\ slot.callback \in {0} \cup Schedules /\ slot.callback \in Nat
        /\ slot.active \in BOOLEAN /\ slot.retired \in BOOLEAN
<1>1. Times \subseteq Nat /\ {0} \cup Schedules \subseteq Nat /\ {0} \cup Delays \subseteq Nat
      /\ 1..MaxTimerGeneration \subseteq Nat
  BY TimerBounds DEF Times, Schedules
<1>2. \A slot \in FTimerSlot :
        /\ slot.generation \in 1..MaxTimerGeneration
        /\ slot.deadline \in Times /\ slot.period \in {0} \cup Delays
        /\ slot.lastFired \in Times /\ slot.mode \in Modes \cup {"None"}
        /\ slot.callback \in {0} \cup Schedules
        /\ slot.active \in BOOLEAN /\ slot.retired \in BOOLEAN
  BY DEF FTimerSlot
<1> QED
  BY <1>1, <1>2

LEMMA EntriesAre ==
    \A entry \in TimerEntries :
        /\ entry.handle \in TimerHandles /\ entry.due \in Times /\ entry.due \in Nat
        /\ entry.fired \in {{}} \cup {{t} : t \in Times} /\ entry.left \in BOOLEAN
        /\ \A t \in entry.fired : t \in Times /\ t \in Nat
<1> SUFFICES ASSUME NEW entry \in TimerEntries
             PROVE  /\ entry.handle \in TimerHandles /\ entry.due \in Times /\ entry.due \in Nat
                    /\ entry.fired \in {{}} \cup {{t} : t \in Times} /\ entry.left \in BOOLEAN
                    /\ \A t \in entry.fired : t \in Times /\ t \in Nat
  OBVIOUS
<1>1. /\ entry.handle \in TimerHandles /\ entry.due \in Times
      /\ entry.fired \in {{}} \cup {{t} : t \in Times} /\ entry.left \in BOOLEAN
  BY DEF TimerEntries
<1>2. Times \subseteq Nat
  BY TimerBounds DEF Times
<1>3. \A t \in entry.fired : t \in Times
  BY <1>1
<1> QED
  BY <1>1, <1>2, <1>3

(* What the parts of the state are made of. *)
LEMMA TimerTypes ==
    ASSUME TimerBase
    PROVE  /\ \A i \in TimerSlots : timers[i] \in FTimerSlot
           /\ Len(insertionOrder) \in Nat /\ DOMAIN insertionOrder = 1..Len(insertionOrder)
           /\ \A p \in DOMAIN insertionOrder : insertionOrder[p] \in TimerHandles
           /\ Len(dispatchSnapshot) \in Nat /\ DOMAIN dispatchSnapshot = 1..Len(dispatchSnapshot)
           /\ \A p \in DOMAIN dispatchSnapshot : dispatchSnapshot[p] \in TimerHandles
           /\ Len(timerLog) \in Nat /\ DOMAIN timerLog = 1..Len(timerLog)
           /\ \A s \in DOMAIN timerLog : timerLog[s] \in TimerEntries
           /\ lastAcceptedNow \in Nat /\ lastAcceptedNow <= MaxTime
<1>1. \A i \in TimerSlots : timers[i] \in FTimerSlot
  BY DEF TimerBase
<1>2. lastAcceptedNow \in Nat /\ lastAcceptedNow <= MaxTime
  BY TimerBounds DEF TimerBase, Times
<1> QED
  BY <1>1, <1>2, EntriesOf DEF TimerBase

(* The counted bounds follow: handles differ, and entries have slots of their own. *)
LEMMA TimerTypesFollow == TimerInvariant => TimerTypeOK
<1> SUFFICES ASSUME TimerInvariant PROVE TimerTypeOK
  OBVIOUS
<1>1. /\ MaxTimers \in Nat /\ MaxTimerGeneration \in Nat
  BY TimerBounds
<1>2. TimerBase
  BY DEF TimerInvariant
<1>3. Len(insertionOrder) <= MaxTimers
  <2> DEFINE f == [p \in 1..Len(insertionOrder) |-> insertionOrder[p].index]
  <2>1. f \in [1..Len(insertionOrder) -> 1..MaxTimers]
    BY <1>2, TimerTypes, HandlesAre DEF TimerSlots
  <2>2. \A p, q \in 1..Len(insertionOrder) : f[p] = f[q] => p = q
    BY <1>2, TimerTypes DEF TimerInvariant, OrderSound
  <2>3. Len(insertionOrder) \in Nat
    BY <1>2, TimerTypes
  <2> HIDE DEF f
  <2> QED
    BY <1>1, <2>1, <2>2, <2>3, OneEntryPerSlot
<1>4. Len(dispatchSnapshot) <= MaxTimers
  <2> DEFINE f == [p \in 1..Len(dispatchSnapshot) |-> dispatchSnapshot[p].index]
  <2>1. f \in [1..Len(dispatchSnapshot) -> 1..MaxTimers]
    BY <1>2, TimerTypes, HandlesAre DEF TimerSlots
  <2>2. \A p, q \in 1..Len(dispatchSnapshot) : f[p] = f[q] => p = q
    BY <1>2, TimerTypes DEF TimerInvariant, SnapshotSound
  <2>3. Len(dispatchSnapshot) \in Nat
    BY <1>2, TimerTypes
  <2> HIDE DEF f
  <2> QED
    BY <1>1, <2>1, <2>2, <2>3, OneEntryPerSlot
<1>5. Len(timerLog) <= MaxTimers * MaxTimerGeneration
  <2> DEFINE f == [s \in 1..Len(timerLog) |-> timerLog[s].handle]
  <2>1. f \in [1..Len(timerLog) -> [index: 1..MaxTimers, generation: 1..MaxTimerGeneration]]
    BY <1>2, TimerTypes, EntriesAre DEF TimerHandles, TimerSlots
  <2>2. \A s, t \in 1..Len(timerLog) : f[s] = f[t] => s = t
    BY <1>2, TimerTypes DEF TimerInvariant, TableSound, HandlesDiffer
  <2>3. Len(timerLog) \in Nat
    BY <1>2, TimerTypes
  <2> HIDE DEF f
  <2> QED
    BY <1>1, <2>1, <2>2, <2>3, OneEntryPerGeneration
<1>6. DOMAIN timerLog \subseteq Schedules
  <2>1. MaxTimers * MaxTimerGeneration \in Nat
    BY <1>1
  <2> QED
    BY <1>2, <1>5, <2>1, TimerTypes DEF Schedules
<1> QED
  BY <1>3, <1>4, <1>6 DEF TimerInvariant, TimerBase, TimerTypeOK

LEMMA TimerHandlesFollow == TimerInvariant => TimerHandlesNameTheirOwn
<1> SUFFICES ASSUME TimerInvariant, NEW s \in DOMAIN timerLog
             PROVE  LET h == timerLog[s].handle
                    IN  IF timerLog[s].left THEN ~IsLiveTimer(h)
                        ELSE IsLiveTimer(h) /\ timers[h.index].callback = s
  BY DEF TimerHandlesNameTheirOwn
<1> DEFINE h == timerLog[s].handle
<1>1. h \in TimerHandles /\ timers[h.index] \in FTimerSlot
  BY TimerTypes, EntriesAre, HandlesAre DEF TimerInvariant
<1>2. EntrySound(s) /\ SlotSound(h.index)
  BY <1>1, HandlesAre DEF TimerInvariant, TableSound
<1>3. h.generation \in Nat /\ timers[h.index].generation \in Nat
  BY <1>1, HandlesAre, SlotsAre
<1>4. timerLog[s].left => ~IsLiveTimer(h)
  <2> SUFFICES ASSUME timerLog[s].left, IsLiveTimer(h) PROVE FALSE
    OBVIOUS
  <2>1. timers[h.index].active /\ timers[h.index].generation = h.generation
    BY DEF IsLiveTimer
  <2>2. ~timers[h.index].retired
    BY <1>2, <2>1 DEF SlotSound
  <2>3. timers[h.index].generation > h.generation
    BY <1>2, <2>2 DEF EntrySound
  <2> QED
    BY <1>3, <2>1, <2>3
<1>5. ~timerLog[s].left => IsLiveTimer(h) /\ timers[h.index].callback = s
  BY <1>1, <1>2 DEF EntrySound, IsLiveTimer
<1> QED
  BY <1>4, <1>5

(* A live handle is that of the schedule in its slot. *)
LEMMA LiveSchedule ==
    ASSUME TimerInvariant, NEW h, IsLiveTimer(h)
    PROVE  /\ h \in TimerHandles /\ h.index \in TimerSlots
           /\ h = [index |-> h.index, generation |-> timers[h.index].generation]
           /\ ScheduleOf(h) = timers[h.index].callback
           /\ ScheduleOf(h) \in DOMAIN timerLog
           /\ timerLog[ScheduleOf(h)].handle = h
           /\ ~timerLog[ScheduleOf(h)].left
<1>1. h \in TimerHandles /\ h.index \in TimerSlots
      /\ h = [index |-> h.index, generation |-> timers[h.index].generation]
  BY DEF IsLiveTimer, TimerHandles
<1> DEFINE s == timers[h.index].callback
<1>2. s \in DOMAIN timerLog /\ timerLog[s].handle = h /\ ~timerLog[s].left
  BY <1>1 DEF TimerInvariant, TableSound, SlotSound, IsLiveTimer
<1>3. \A t \in DOMAIN timerLog : timerLog[t].handle = h => t = s
  BY <1>2 DEF TimerInvariant, TableSound, HandlesDiffer
<1>4. ScheduleOf(h) = s
  BY <1>2, <1>3 DEF ScheduleOf
<1> QED
  BY <1>1, <1>2, <1>4

-----------------------------------------------------------------------------
LEMMA SaturatingAddIs ==
    ASSUME NEW base \in Times, NEW addend \in Nat
    PROVE  /\ SaturatingAdd(base, addend) \in Times
           /\ SaturatingAdd(base, addend) >= base
           /\ SaturatingAdd(base, addend) = MaxTime \/ SaturatingAdd(base, addend) = base + addend
  BY TimerBounds DEF SaturatingAdd, Times

LEMMA VacatedIs ==
    ASSUME NEW slot \in FTimerSlot
    PROVE  /\ Vacated(slot) \in FTimerSlot
           /\ ~Vacated(slot).active
           /\ \/ Vacated(slot).generation > slot.generation
              \/ Vacated(slot).retired /\ Vacated(slot).generation = slot.generation
<1> DEFINE v == [slot EXCEPT !.callback = 0, !.active = FALSE,
                             !.deadline = 0, !.period = 0, !.mode = "None"]
<1>1. 0 \in Times
  BY TimerBounds DEF Times
<1>2. v \in FTimerSlot /\ v.generation = slot.generation /\ ~v.active
  BY <1>1 DEF FTimerSlot
<1>3. Vacated(slot) = AdvanceGenerationOrRetire(v)
  BY DEF Vacated
<1> HIDE DEF v
<1>4. v.generation \in Nat /\ v.generation \in 1..MaxTimerGeneration /\ MaxTimerGeneration \in Nat
  BY <1>2, SlotsAre, TimerBounds
<1>5. CASE v.generation < MaxTimerGeneration
  <2>1. Vacated(slot) = [v EXCEPT !.generation = @ + 1]
    BY <1>3, <1>5 DEF AdvanceGenerationOrRetire
  <2>2. v.generation + 1 \in 1..MaxTimerGeneration
    BY <1>4, <1>5
  <2>3. /\ Vacated(slot) \in FTimerSlot /\ ~Vacated(slot).active
        /\ Vacated(slot).generation = v.generation + 1
    BY <1>2, <2>1, <2>2 DEF FTimerSlot
  <2> QED
    BY <1>2, <1>4, <2>3
<1>6. CASE ~(v.generation < MaxTimerGeneration)
  <2>1. Vacated(slot) = [v EXCEPT !.retired = TRUE]
    BY <1>3, <1>6 DEF AdvanceGenerationOrRetire
  <2>2. /\ Vacated(slot) \in FTimerSlot /\ ~Vacated(slot).active
        /\ Vacated(slot).generation = v.generation /\ Vacated(slot).retired
    BY <1>2, <2>1 DEF FTimerSlot
  <2> QED
    BY <1>2, <2>2
<1> QED
  BY <1>5, <1>6

(***************************************************************************)
(* A schedule ends, by a cancellation or its only firing: its slot is      *)
(* vacated, and everybody else's is left alone.                            *)
(***************************************************************************)
LEMMA TimerEnds ==
    ASSUME TimerInvariant, NEW h, IsLiveTimer(h),
           timers' = [timers EXCEPT ![h.index] = Vacated(@)],
           timerLog' = [timerLog EXCEPT ![ScheduleOf(h)] = Over(@)]
    PROVE  /\ timers' \in [TimerSlots -> FTimerSlot]
           /\ timerLog' \in Seq(TimerEntries) /\ DOMAIN timerLog' = DOMAIN timerLog
           /\ TableSound'
           /\ ~timers'[h.index].active
           /\ \A i \in TimerSlots : i # h.index => timers'[i] = timers[i]
           /\ timerLog'[ScheduleOf(h)].left
           /\ \A s \in DOMAIN timerLog :
                /\ timerLog'[s].handle = timerLog[s].handle
                /\ s # ScheduleOf(h) => timerLog'[s] = timerLog[s]
           /\ \A g \in TimerHandles : g.index # h.index => (IsLiveTimer(g)' <=> IsLiveTimer(g))
<1>1. TimerBase
  BY DEF TimerInvariant
<1>2. PICK i \in TimerSlots : i = h.index
  BY LiveSchedule
<1>3. PICK s0 \in DOMAIN timerLog : s0 = ScheduleOf(h)
  BY LiveSchedule
<1>4. /\ h \in TimerHandles /\ h = [index |-> i, generation |-> timers[i].generation]
      /\ timers[i].callback = s0 /\ timerLog[s0].handle = h /\ ~timerLog[s0].left
  BY <1>2, <1>3, LiveSchedule
<1>5. timers[i] \in FTimerSlot /\ timerLog[s0] \in TimerEntries
  BY <1>1, TimerTypes
<1>6. timers' \in [TimerSlots -> FTimerSlot]
  BY <1>1, <1>2, <1>5, VacatedIs DEF TimerBase
<1>7. timers'[i] = Vacated(timers[i]) /\ \A j \in TimerSlots : j # i => timers'[j] = timers[j]
  BY <1>1, <1>2 DEF TimerBase
<1>8. Over(timerLog[s0]) \in TimerEntries
  <2>1. 0 \in Times
    BY TimerBounds DEF Times
  <2> QED
    BY <1>5, <2>1 DEF Over, TimerEntries
<1>9. Over(timerLog[s0]).left /\ Over(timerLog[s0]).handle = h
  BY <1>4, <1>5 DEF Over, TimerEntries
<1>10. /\ timerLog' \in Seq(TimerEntries) /\ DOMAIN timerLog' = DOMAIN timerLog
       /\ timerLog'[s0] = Over(timerLog[s0])
       /\ \A s \in DOMAIN timerLog : s # s0 => timerLog'[s] = timerLog[s]
  <2>1. timerLog' = [timerLog EXCEPT ![s0] = Over(timerLog[s0])]
    BY <1>3
  <2>2. timerLog \in Seq(TimerEntries)
    BY <1>1 DEF TimerBase
  <2>3. PICK e \in TimerEntries : e = Over(timerLog[s0])
    BY <1>8
  <2>4. timerLog' = [timerLog EXCEPT ![s0] = e]
    BY <2>1, <2>3
  <2>5. /\ [timerLog EXCEPT ![s0] = e] \in Seq(TimerEntries)
        /\ DOMAIN [timerLog EXCEPT ![s0] = e] = DOMAIN timerLog
        /\ [timerLog EXCEPT ![s0] = e][s0] = e
        /\ \A j \in DOMAIN timerLog : j # s0 => [timerLog EXCEPT ![s0] = e][j] = timerLog[j]
    BY <2>2, EntryChanged
  <2> QED
    BY <2>3, <2>4, <2>5
<1>11. \A s \in DOMAIN timerLog : timerLog'[s].handle = timerLog[s].handle
  BY <1>4, <1>9, <1>10
<1>12. /\ ~timers'[i].active
       /\ \/ timers'[i].generation > timers[i].generation
          \/ timers'[i].retired /\ timers'[i].generation = timers[i].generation
  BY <1>5, <1>7, VacatedIs
<1>13. ASSUME NEW j \in TimerSlots PROVE SlotSound(j)'
  <2>1. SlotSound(j)
    BY DEF TimerInvariant, TableSound
  <2>2. CASE j = i
    BY <1>12, <2>2 DEF SlotSound
  <2>3. CASE j # i
    <3>1. timers'[j] = timers[j]
      BY <1>7, <2>3
    <3>2. timers[j].active => timers[j].callback # s0
      BY <1>4, <2>1, <2>3 DEF SlotSound
    <3> QED
      BY <1>10, <2>1, <3>1, <3>2 DEF SlotSound
  <2> QED
    BY <2>2, <2>3
<1>14. ASSUME NEW s \in DOMAIN timerLog PROVE EntrySound(s)'
  <2>1. EntrySound(s) /\ timerLog[s].handle \in TimerHandles
    BY <1>1, TimerTypes, EntriesAre DEF TimerInvariant, TableSound
  <2>2. PICK j \in TimerSlots : j = timerLog[s].handle.index
    BY <2>1, HandlesAre
  <2>3. timerLog'[s].handle = timerLog[s].handle
    BY <1>11
  <2>4. CASE s = s0
    <3>1. j = i /\ timerLog'[s].left /\ timerLog[s].handle.generation = timers[i].generation
      BY <1>4, <1>9, <1>10, <2>2, <2>4
    <3> QED
      BY <1>12, <2>2, <2>3, <3>1 DEF EntrySound
  <2>5. CASE s # s0 /\ j # i
    BY <1>7, <1>10, <2>1, <2>2, <2>5 DEF EntrySound
  <2>6. CASE s # s0 /\ j = i
    <3>1. timerLog'[s] = timerLog[s] /\ timerLog[s].left
      BY <1>4, <1>10, <2>1, <2>2, <2>6 DEF EntrySound
    <3>2. SlotSound(i) /\ timers[i].active
      BY <1>2, <1>4 DEF TimerInvariant, TableSound, IsLiveTimer
    <3>3. timers[i].generation > timerLog[s].handle.generation
      BY <2>1, <2>2, <2>6, <3>1, <3>2 DEF EntrySound, SlotSound
    <3>4. /\ timers[i].generation \in Nat /\ timers'[i].generation \in Nat
          /\ timerLog[s].handle.generation \in Nat
      BY <1>5, <1>6, <2>1, SlotsAre, HandlesAre
    <3>5. timers'[i].generation > timerLog[s].handle.generation
      BY <1>12, <3>3, <3>4
    <3> QED
      BY <2>2, <2>6, <3>1, <3>5 DEF EntrySound
  <2> QED
    BY <2>4, <2>5, <2>6
<1>15. HandlesDiffer'
  BY <1>10, <1>11 DEF HandlesDiffer, TimerInvariant, TableSound
<1>16. TableSound'
  BY <1>10, <1>13, <1>14, <1>15 DEF TableSound
<1>17. ASSUME NEW g \in TimerHandles, g.index # h.index PROVE IsLiveTimer(g)' <=> IsLiveTimer(g)
  <2>1. timers'[g.index] = timers[g.index]
    BY <1>2, <1>7, <1>17, HandlesAre
  <2> QED
    BY <2>1 DEF IsLiveTimer
<1> QED
  BY <1>2, <1>3, <1>6, <1>7, <1>9, <1>10, <1>11, <1>12, <1>16, <1>17

(* A schedule takes a slot nobody has, under a handle nobody was given. *)
LEMMA ScheduleKeeps ==
    ASSUME TimerInvariant, NEW delay \in Delays, NEW mode \in Modes, Schedule(delay, mode)
    PROVE  TimerInvariant'
<1> DEFINE n == Len(timerLog) + 1
           order == insertionOrder
<1>1. TimerBase /\ ~bDispatchActive
  BY DEF TimerInvariant, Schedule
<1>2. PICK i \in TimerSlots :
          LET handle == [index |-> i, generation |-> timers[i].generation]
              deadline == SaturatingAdd(lastAcceptedNow, delay)
              period == IF mode = "Looping" THEN delay ELSE 0
          IN  /\ IsFirstAvailableTimer(i)
              /\ timers' = [timers EXCEPT ![i] =
                    [@ EXCEPT !.callback = Len(timerLog) + 1, !.deadline = deadline,
                              !.period = period, !.lastFired = 0, !.mode = mode,
                              !.active = TRUE]]
              /\ insertionOrder' = Append(insertionOrder, handle)
              /\ timerLog' = Append(timerLog,
                    [handle |-> handle, due |-> deadline, fired |-> {}, left |-> FALSE])
  BY DEF Schedule
<1>3. UNCHANGED <<lastAcceptedNow, bDispatchActive, dispatchSnapshot, firing>>
  BY DEF Schedule
<1>4. PICK handle \in TimerHandles : handle = [index |-> i, generation |-> timers[i].generation]
  BY <1>1, TimerTypes, SlotsAre DEF TimerHandles
<1>5. PICK deadline \in Times : deadline = SaturatingAdd(lastAcceptedNow, delay)
  <2>1. delay \in Nat /\ lastAcceptedNow \in Times
    BY <1>1, TimerBounds DEF TimerBase
  <2> QED
    BY <2>1, SaturatingAddIs
<1>6. PICK period \in {0} \cup Delays : period = IF mode = "Looping" THEN delay ELSE 0
  OBVIOUS
<1>7. PICK entry \in TimerEntries :
          entry = [handle |-> handle, due |-> deadline, fired |-> {}, left |-> FALSE]
  BY DEF TimerEntries
<1>8. PICK slot : slot = [timers[i] EXCEPT !.callback = n, !.deadline = deadline,
                              !.period = period, !.lastFired = 0, !.mode = mode,
                              !.active = TRUE]
  OBVIOUS
<1>9. /\ timers' = [timers EXCEPT ![i] = slot]
      /\ insertionOrder' = Append(insertionOrder, handle)
      /\ timerLog' = Append(timerLog, entry)
  BY <1>2, <1>4, <1>5, <1>6, <1>7, <1>8
<1>10. ~timers[i].active /\ ~timers[i].retired /\ timers[i] \in FTimerSlot
  BY <1>1, <1>2, TimerTypes DEF IsFirstAvailableTimer, AvailableTimers
<1>11. /\ slot.callback = n /\ slot.deadline = deadline /\ slot.mode = mode /\ slot.active
       /\ slot.generation = timers[i].generation /\ ~slot.retired
  BY <1>8, <1>10 DEF FTimerSlot
<1>12. /\ timers'[i] = slot /\ DOMAIN timers' = TimerSlots
       /\ \A j \in TimerSlots : j # i => timers'[j] = timers[j]
  BY <1>1, <1>9 DEF TimerBase
<1>13. /\ timerLog' \in Seq(TimerEntries) /\ n \in Nat
       /\ DOMAIN timerLog' = DOMAIN timerLog \cup {n} /\ n \notin DOMAIN timerLog
       /\ timerLog'[n] = entry /\ \A s \in DOMAIN timerLog : timerLog'[s] = timerLog[s]
  <2>1. timerLog \in Seq(TimerEntries) /\ Len(timerLog) \in Nat /\ DOMAIN timerLog = 1..Len(timerLog)
    BY <1>1, TimerTypes DEF TimerBase
  <2> QED
    BY <1>9, <2>1, EntryAdded
<1>14. entry.handle = handle /\ entry.due = deadline /\ entry.fired = {} /\ ~entry.left
  BY <1>7
<1>15. handle.index = i /\ handle.generation = timers[i].generation
  BY <1>4
<1>16. \A s \in DOMAIN timerLog : timerLog[s].handle # handle
  <2> SUFFICES ASSUME NEW s \in DOMAIN timerLog, timerLog[s].handle = handle PROVE FALSE
    OBVIOUS
  <2>1. EntrySound(s)
    BY DEF TimerInvariant, TableSound
  <2>2. timers[i].generation \in Nat
    BY <1>10, SlotsAre
  <2> QED
    BY <1>10, <1>15, <2>1, <2>2 DEF EntrySound
<1>17. TableSound'
  <2>1. ASSUME NEW j \in TimerSlots PROVE SlotSound(j)'
    <3>1. SlotSound(j)
      BY DEF TimerInvariant, TableSound
    <3>2. CASE j = i
      BY <1>4, <1>11, <1>12, <1>13, <1>14, <3>2 DEF SlotSound
    <3>3. CASE j # i
      BY <1>12, <1>13, <3>1, <3>3 DEF SlotSound
    <3> QED
      BY <3>2, <3>3
  <2>2. ASSUME NEW s \in DOMAIN timerLog' PROVE EntrySound(s)'
    <3>1. CASE s = n
      BY <1>11, <1>12, <1>13, <1>14, <1>15, <3>1 DEF EntrySound
    <3>2. CASE s # n
      <4>1. s \in DOMAIN timerLog /\ timerLog'[s] = timerLog[s]
        BY <1>13, <3>2
      <4>2. EntrySound(s) /\ timerLog[s].handle.index \in TimerSlots
        BY <1>1, <4>1, TimerTypes, EntriesAre, HandlesAre DEF TimerInvariant, TableSound
      <4>3. CASE timerLog[s].handle.index # i
        BY <1>12, <4>1, <4>2, <4>3 DEF EntrySound
      <4>4. CASE timerLog[s].handle.index = i
        <5>1. timerLog[s].left /\ timers[i].generation > timerLog[s].handle.generation
          BY <1>10, <4>2, <4>4 DEF EntrySound
        <5> QED
          BY <1>11, <1>12, <4>1, <4>4, <5>1 DEF EntrySound
      <4> QED
        BY <4>3, <4>4
    <3> QED
      BY <3>1, <3>2
  <2>3. HandlesDiffer'
    BY <1>13, <1>14, <1>16 DEF HandlesDiffer, TimerInvariant, TableSound
  <2> QED
    BY <2>1, <2>2, <2>3 DEF TableSound
<1>18. TimerBase'
  <2>1. slot \in FTimerSlot
    <3>1. timerLog' \in Seq(TimerEntries) /\ HandlesDiffer'
      BY <1>13, <1>17 DEF TableSound
    <3>2. n <= MaxTimers * MaxTimerGeneration
      <4> DEFINE f == [s \in 1..n |-> timerLog'[s].handle]
      <4>1. DOMAIN timerLog' = 1..n
        BY <1>1, <1>13, TimerTypes
      <4>2. f \in [1..n -> [index: 1..MaxTimers, generation: 1..MaxTimerGeneration]]
        BY <3>1, <4>1, EntriesOf, EntriesAre DEF TimerHandles, TimerSlots
      <4>3. \A s, t \in 1..n : f[s] = f[t] => s = t
        BY <3>1, <4>1 DEF HandlesDiffer
      <4>4. n \in Nat /\ MaxTimers \in Nat /\ MaxTimerGeneration \in Nat
        BY <1>13, TimerBounds
      <4> HIDE DEF f, n
      <4> QED
        BY <4>2, <4>3, <4>4, OneEntryPerGeneration
    <3>3. n \in Schedules
      <4>1. MaxTimers * MaxTimerGeneration \in Nat /\ Len(timerLog) \in Nat
        BY <1>1, TimerBounds, TimerTypes
      <4> QED
        BY <3>2, <4>1 DEF Schedules
    <3>4. 0 \in Times
      BY TimerBounds DEF Times
    <3> HIDE DEF n
    <3> QED
      BY <1>8, <1>10, <3>3, <3>4 DEF FTimerSlot
  <2>2. timers' \in [TimerSlots -> FTimerSlot]
    BY <1>1, <1>9, <2>1 DEF TimerBase
  <2>3. insertionOrder' \in Seq(TimerHandles)
    BY <1>1, <1>9, EntryAdded DEF TimerBase
  <2> QED
    BY <1>1, <1>3, <1>13, <2>2, <2>3 DEF TimerBase
<1>19. Timely'
  <2> SUFFICES ASSUME NEW s \in DOMAIN timerLog' PROVE OnTime(s)'
    BY DEF Timely
  <2>1. CASE s = n
    <3>1. handle # firing' /\ deadline \in Nat
      <4>1. firing = NoTimer
        BY <1>1 DEF TimerInvariant, SnapshotSound
      <4> QED
        BY <1>3, <4>1, HandlesAre, TimerBounds DEF NoTimer, Times
    <3> QED
      BY <1>11, <1>12, <1>13, <1>14, <1>15, <2>1, <3>1 DEF OnTime
  <2>2. CASE s # n
    <3>1. s \in DOMAIN timerLog /\ timerLog'[s] = timerLog[s]
      BY <1>13, <2>2
    <3>2. OnTime(s) /\ EntrySound(s) /\ timerLog[s].handle.index \in TimerSlots
      BY <1>1, <3>1, TimerTypes, EntriesAre, HandlesAre DEF TimerInvariant, TableSound, Timely
    <3>3. ~timerLog[s].left => timers'[timerLog[s].handle.index] = timers[timerLog[s].handle.index]
      BY <1>10, <1>12, <3>2 DEF EntrySound
    <3> QED
      BY <1>3, <3>1, <3>2, <3>3 DEF OnTime, SaturatingAdd
  <2> QED
    BY <2>1, <2>2
<1>20. OrderSound'
  <2>1. /\ insertionOrder \in Seq(TimerHandles)
        /\ DOMAIN order = 1..Len(order) /\ Len(order) \in Nat
        /\ \A p \in DOMAIN order : order[p] \in TimerHandles
    BY <1>1, TimerTypes DEF TimerBase
  <2>2. /\ DOMAIN order' = DOMAIN order \cup {Len(order) + 1}
        /\ order'[Len(order) + 1] = handle
        /\ \A p \in DOMAIN order : order'[p] = order[p]
    BY <1>9, <2>1, EntryAdded
  <2>3. \A p \in DOMAIN order : IsLiveTimer(order[p]) /\ order[p].index \in TimerSlots
    BY <1>1, <2>1, HandlesAre DEF TimerInvariant, OrderSound
  <2>4. \A p \in DOMAIN order : order[p].index # i
    BY <1>10, <2>3 DEF IsLiveTimer
  <2>5. \A p, q \in DOMAIN order' : order'[p].index = order'[q].index => p = q
    BY <1>15, <2>2, <2>4 DEF TimerInvariant, OrderSound
  <2>6. \A p \in DOMAIN order' : IsLiveTimer(order[p])'
    <3> TAKE p \in DOMAIN order'
    <3>1. CASE p \in DOMAIN order
      BY <1>12, <2>2, <2>3, <2>4, <3>1 DEF IsLiveTimer
    <3>2. CASE p = Len(order) + 1
      BY <1>11, <1>12, <1>15, <2>2, <3>2 DEF IsLiveTimer
    <3> QED
      BY <2>2, <3>1, <3>2
  <2>7. ASSUME NEW j \in TimerSlots, timers'[j].active
        PROVE  \E p \in DOMAIN order' : order'[p] = [index |-> j, generation |-> timers'[j].generation]
    <3>1. CASE j = i
      BY <1>4, <1>11, <1>12, <2>2, <3>1
    <3>2. CASE j # i
      <4>1. timers'[j] = timers[j]
        BY <1>12, <3>2
      <4>2. PICK p \in DOMAIN order : order[p] = [index |-> j, generation |-> timers[j].generation]
        BY <2>7, <4>1 DEF TimerInvariant, OrderSound
      <4> QED
        BY <2>2, <4>1, <4>2
    <3> QED
      BY <3>1, <3>2
  <2> QED
    BY <2>5, <2>6, <2>7 DEF OrderSound
<1>21. SnapshotSound'
  BY <1>1, <1>3 DEF TimerInvariant, SnapshotSound, NoTimer
<1> QED
  BY <1>17, <1>18, <1>19, <1>20, <1>21 DEF TimerInvariant

(* A cancellation ends one schedule and closes the gap in the order. *)
LEMMA CancelKeeps ==
    ASSUME TimerInvariant, NEW h \in TimerHandles, Cancel(h)
    PROVE  TimerInvariant'
<1> DEFINE order == insertionOrder
<1>1. TimerBase /\ ~bDispatchActive /\ IsLiveTimer(h) /\ firing = NoTimer
  BY DEF TimerInvariant, Cancel, SnapshotSound
<1>2. /\ timers' = [timers EXCEPT ![h.index] = Vacated(@)]
      /\ timerLog' = [timerLog EXCEPT ![ScheduleOf(h)] = Over(@)]
      /\ order' = Without(order, h)
      /\ UNCHANGED <<lastAcceptedNow, bDispatchActive, dispatchSnapshot, firing>>
  BY DEF Cancel
<1>3. /\ timers' \in [TimerSlots -> FTimerSlot]
      /\ timerLog' \in Seq(TimerEntries) /\ DOMAIN timerLog' = DOMAIN timerLog
      /\ TableSound'
      /\ ~timers'[h.index].active
      /\ \A i \in TimerSlots : i # h.index => timers'[i] = timers[i]
      /\ timerLog'[ScheduleOf(h)].left
      /\ \A s \in DOMAIN timerLog : s # ScheduleOf(h) => timerLog'[s] = timerLog[s]
      /\ \A g \in TimerHandles : g.index # h.index => (IsLiveTimer(g)' <=> IsLiveTimer(g))
  BY <1>1, <1>2, TimerEnds
<1>4. /\ ScheduleOf(h) = timers[h.index].callback
      /\ h.index \in TimerSlots /\ h.generation = timers[h.index].generation
  BY <1>1, LiveSchedule
<1>5. /\ order \in Seq(TimerHandles) /\ DOMAIN order = 1..Len(order)
      /\ \A p, q \in DOMAIN order : order[p].index = order[q].index => p = q
      /\ \A p \in DOMAIN order : order[p] \in TimerHandles /\ IsLiveTimer(order[p])
  BY <1>1, TimerTypes DEF TimerBase, TimerInvariant, OrderSound
<1>6. /\ order' \in Seq(TimerHandles) /\ DOMAIN order' = 1..Len(order')
      /\ \A k \in DOMAIN order' : order'[k] # h /\ \E i \in DOMAIN order : order'[k] = order[i]
      /\ \A i \in DOMAIN order : order[i] # h => \E k \in DOMAIN order' : order'[k] = order[i]
      /\ \A k, l \in DOMAIN order' : order'[k] = order'[l] => k = l
  <2>1. \A i, j \in 1..Len(order) : order[i] = order[j] => i = j
    BY <1>5
  <2>2. PICK w : w = Without(order, h)
    OBVIOUS
  <2> HIDE DEF order
  <2>0. order \in Seq(TimerHandles)
    BY <1>5
  <2>3. /\ w \in Seq(TimerHandles)
        /\ \A k \in 1..Len(w) : w[k] # h /\ \E i \in 1..Len(order) : w[k] = order[i]
        /\ \A i \in 1..Len(order) : order[i] # h => \E k \in 1..Len(w) : w[k] = order[i]
        /\ \A k, l \in 1..Len(w) : w[k] = w[l] => k = l
    BY <2>0, <2>1, <2>2, WithoutIs
  <2>4. DOMAIN w = 1..Len(w)
    BY <2>3
  <2>5. order' = w
    BY <1>2, <2>2
  <2> QED
    BY <1>5, <2>3, <2>4, <2>5
<1>7. \A i, j \in DOMAIN order : order[i].index = order[j].index => order[i] = order[j]
  BY <1>5
<1>8. \A p \in DOMAIN order : order[p] # h => order[p].index # h.index
  <2> SUFFICES ASSUME NEW p \in DOMAIN order, order[p].index = h.index PROVE order[p] = h
    OBVIOUS
  <2>1. order[p].generation = h.generation
    BY <1>4, <1>5 DEF IsLiveTimer
  <2> QED
    BY <1>5, <2>1, HandlesAre
<1>9. OrderSound'
  <2>1. \A k, l \in DOMAIN order' : order'[k].index = order'[l].index => k = l
    BY <1>6, <1>7
  <2>2. \A k \in DOMAIN order' : IsLiveTimer(order[k])'
    <3> TAKE k \in DOMAIN order'
    <3>1. PICK g \in TimerHandles : g = order'[k] /\ IsLiveTimer(g) /\ g.index # h.index
      BY <1>5, <1>6, <1>8
    <3>2. IsLiveTimer(g)'
      BY <1>3, <3>1
    <3> QED
      BY <3>1, <3>2 DEF IsLiveTimer
  <2>3. ASSUME NEW j \in TimerSlots, timers'[j].active
        PROVE  \E p \in DOMAIN order' : order'[p] = [index |-> j, generation |-> timers'[j].generation]
    <3>1. j # h.index /\ timers'[j] = timers[j]
      BY <1>3, <2>3
    <3>2. PICK p \in DOMAIN order : order[p] = [index |-> j, generation |-> timers[j].generation]
      BY <2>3, <3>1 DEF TimerInvariant, OrderSound
    <3>3. order[p] # h
      BY <3>1, <3>2
    <3> QED
      BY <1>6, <3>1, <3>2, <3>3
  <2> QED
    BY <2>1, <2>2, <2>3 DEF OrderSound
<1>10. Timely'
  <2> SUFFICES ASSUME NEW s \in DOMAIN timerLog PROVE OnTime(s)'
    BY <1>3 DEF Timely
  <2>1. CASE s = ScheduleOf(h)
    BY <1>3, <2>1 DEF OnTime
  <2>2. CASE s # ScheduleOf(h)
    <3>1. timerLog'[s] = timerLog[s]
      BY <1>3, <2>2
    <3>2. OnTime(s) /\ EntrySound(s) /\ timerLog[s].handle.index \in TimerSlots
      BY <1>1, TimerTypes, EntriesAre, HandlesAre DEF TimerInvariant, TableSound, Timely
    <3>3. ~timerLog[s].left => timers'[timerLog[s].handle.index] = timers[timerLog[s].handle.index]
      BY <1>3, <1>4, <2>2, <3>2 DEF EntrySound
    <3>4. CASE timerLog[s].left
      BY <3>1, <3>4 DEF OnTime
    <3>5. CASE ~timerLog[s].left
      <4>1. timers'[timerLog[s].handle.index] = timers[timerLog[s].handle.index]
        BY <3>3, <3>5
      <4>2. firing' = firing /\ lastAcceptedNow' = lastAcceptedNow
        BY <1>2
      <4> QED
        BY <3>1, <3>2, <4>1, <4>2 DEF OnTime
    <3> QED
      BY <3>4, <3>5
  <2> QED
    BY <2>1, <2>2
<1>11. SnapshotSound'
  BY <1>1, <1>2 DEF TimerInvariant, SnapshotSound, NoTimer
<1>12. TimerBase'
  BY <1>1, <1>2, <1>3, <1>6 DEF TimerBase
<1> QED
  BY <1>3, <1>9, <1>10, <1>11, <1>12 DEF TimerInvariant

(* The slots, the order and the log stay: what is left is the time and the walk. *)
LEMMA TablesStay ==
    ASSUME TimerInvariant, UNCHANGED <<timers, timerLog>>
    PROVE  TableSound'
  BY DEF TimerInvariant, TableSound, SlotSound, EntrySound, HandlesDiffer

LEMMA BeginAdvanceKeeps ==
    ASSUME TimerInvariant, NEW now \in Times, BeginAdvance(now)
    PROVE  TimerInvariant'
<1>1. /\ TimerBase /\ ~bDispatchActive /\ firing = NoTimer /\ now >= lastAcceptedNow
      /\ lastAcceptedNow' = now /\ dispatchSnapshot' = insertionOrder /\ bDispatchActive' = TRUE
      /\ UNCHANGED <<timers, insertionOrder, firing, timerLog>>
  BY DEF TimerInvariant, BeginAdvance, SnapshotSound
<1>2. TimerBase'
  BY <1>1 DEF TimerBase
<1>3. TableSound'
  BY <1>1, TablesStay
<1>4. OrderSound'
  BY <1>1 DEF TimerInvariant, OrderSound
<1>5. SnapshotSound'
  <2>1. \A p \in DOMAIN insertionOrder : IsLiveTimer(insertionOrder[p]) /\ insertionOrder[p].index # 0
    BY <1>1, TimerTypes, HandlesAre DEF TimerInvariant, OrderSound
  <2> QED
    BY <1>1, <2>1 DEF TimerInvariant, OrderSound, SnapshotSound, NoTimer, IsLiveTimer
<1>6. Timely'
  <2> SUFFICES ASSUME NEW s \in DOMAIN timerLog PROVE OnTime(s)'
    BY <1>1 DEF Timely
  <2>1. OnTime(s) /\ timerLog[s].handle \in TimerHandles /\ timerLog[s].handle # firing
    BY <1>1, TimerTypes, EntriesAre, HandlesAre DEF TimerInvariant, Timely, NoTimer
  <2>2. lastAcceptedNow \in Nat /\ now \in Nat /\ \A t \in timerLog[s].fired : t \in Nat
    BY <1>1, TimerTypes, EntriesAre, TimerBounds DEF Times
  <2>3. ~timerLog[s].left => \A t \in timerLog[s].fired : t <= now
    BY <1>1, <2>1, <2>2 DEF OnTime
  <2> QED
    BY <1>1, <2>1, <2>3 DEF OnTime, SaturatingAdd
<1> QED
  BY <1>2, <1>3, <1>4, <1>5, <1>6 DEF TimerInvariant

LEMMA SkipTimerKeeps ==
    ASSUME TimerInvariant, SkipTimer
    PROVE  TimerInvariant'
<1>1. /\ TimerBase /\ bDispatchActive /\ dispatchSnapshot # <<>>
      /\ dispatchSnapshot' = Tail(dispatchSnapshot)
      /\ UNCHANGED <<timers, insertionOrder, lastAcceptedNow, bDispatchActive, firing, timerLog>>
  BY DEF TimerInvariant, SkipTimer
<1>2. /\ dispatchSnapshot \in Seq(TimerHandles) /\ dispatchSnapshot' \in Seq(TimerHandles)
      /\ DOMAIN dispatchSnapshot' = 1..Len(dispatchSnapshot')
      /\ \A j \in DOMAIN dispatchSnapshot' :
            j + 1 \in DOMAIN dispatchSnapshot /\ dispatchSnapshot'[j] = dispatchSnapshot[j + 1]
  BY <1>1, EntryTaken, EntriesOf DEF TimerBase
<1>3. TimerBase'
  BY <1>1, <1>2 DEF TimerBase
<1>4. TableSound'
  BY <1>1, TablesStay
<1>5. OrderSound' /\ Timely'
  BY <1>1 DEF TimerInvariant, OrderSound, IsLiveTimer, Timely, OnTime, SaturatingAdd
<1>6. SnapshotSound'
  <2>1. ASSUME NEW p \in DOMAIN dispatchSnapshot', NEW q \in DOMAIN dispatchSnapshot',
               dispatchSnapshot'[p].index = dispatchSnapshot'[q].index
        PROVE  p = q
    <3>1. p + 1 = q + 1
      BY <1>2, <2>1 DEF TimerInvariant, SnapshotSound
    <3> QED
      BY <1>2, <3>1
  <2>2. \A p \in DOMAIN dispatchSnapshot' :
            IsLiveTimer(dispatchSnapshot[p])' /\ dispatchSnapshot'[p].index # firing'.index
    BY <1>1, <1>2 DEF TimerInvariant, SnapshotSound, IsLiveTimer
  <2>3. firing' # NoTimer => IsLiveTimer(firing)'
    BY <1>1 DEF TimerInvariant, SnapshotSound, IsLiveTimer
  <2> QED
    BY <1>1, <2>1, <2>2, <2>3 DEF SnapshotSound
<1> QED
  BY <1>3, <1>4, <1>5, <1>6 DEF TimerInvariant

LEMMA EndAdvanceKeeps ==
    ASSUME TimerInvariant, EndAdvance
    PROVE  TimerInvariant'
<1> DEFINE order == insertionOrder
<1>1. /\ TimerBase /\ firing = NoTimer /\ dispatchSnapshot = <<>>
      /\ bDispatchActive' = FALSE /\ order' = Kept(order, LiveTimers)
      /\ UNCHANGED <<timers, lastAcceptedNow, dispatchSnapshot, firing, timerLog>>
  BY DEF TimerInvariant, EndAdvance, CompactInsertionOrder
<1>2. /\ order \in Seq(TimerHandles) /\ DOMAIN order = 1..Len(order)
  BY <1>1, TimerTypes DEF TimerBase
<1>3. /\ order' \in Seq(TimerHandles) /\ DOMAIN order' = 1..Len(order')
      /\ \A k \in DOMAIN order' :
            /\ PlaceOf(order, LiveTimers, k) \in DOMAIN order
            /\ order[PlaceOf(order, LiveTimers, k)] \in LiveTimers
            /\ order'[k] = order[PlaceOf(order, LiveTimers, k)]
      /\ \A k, l \in DOMAIN order' :
            k < l => PlaceOf(order, LiveTimers, k) < PlaceOf(order, LiveTimers, l)
      /\ \A i \in DOMAIN order : order[i] \in LiveTimers =>
            \E k \in DOMAIN order' : PlaceOf(order, LiveTimers, k) = i
  <2>1. PICK w : w = Kept(order, LiveTimers)
    OBVIOUS
  <2> HIDE DEF order
  <2>0. order \in Seq(TimerHandles)
    BY <1>2
  <2>2. /\ w \in Seq(TimerHandles)
        /\ \A k \in 1..Len(w) :
            /\ PlaceOf(order, LiveTimers, k) \in 1..Len(order)
            /\ order[PlaceOf(order, LiveTimers, k)] \in LiveTimers
            /\ w[k] = order[PlaceOf(order, LiveTimers, k)]
        /\ \A k, l \in 1..Len(w) :
            k < l => PlaceOf(order, LiveTimers, k) < PlaceOf(order, LiveTimers, l)
        /\ \A i \in 1..Len(order) : order[i] \in LiveTimers =>
            \E k \in 1..Len(w) : PlaceOf(order, LiveTimers, k) = i
    BY <2>0, <2>1, KeptIs
  <2>3. DOMAIN w = 1..Len(w)
    BY <2>2
  <2>4. order' = w
    BY <1>1, <2>1
  <2> QED
    BY <1>2, <2>2, <2>3, <2>4
<1>4. TimerBase'
  BY <1>1, <1>3 DEF TimerBase
<1>5. TableSound'
  BY <1>1, TablesStay
<1>6. Timely'
  BY <1>1 DEF TimerInvariant, Timely, OnTime, SaturatingAdd
<1>7. SnapshotSound'
  BY <1>1 DEF TimerInvariant, SnapshotSound, NoTimer
<1>8. OrderSound'
  <2>1. ASSUME NEW k \in DOMAIN order', NEW l \in DOMAIN order', order'[k].index = order'[l].index
        PROVE  k = l
    <3>1. PlaceOf(order, LiveTimers, k) = PlaceOf(order, LiveTimers, l)
      BY <1>3, <2>1 DEF TimerInvariant, OrderSound
    <3>2. k \in Nat /\ l \in Nat /\ PlaceOf(order, LiveTimers, k) \in Nat
      BY <1>2, <1>3
    <3>3. ~(k < l) /\ ~(l < k)
      BY <1>3, <3>1, <3>2
    <3> QED
      BY <3>2, <3>3
  <2>2. \A k \in DOMAIN order' : IsLiveTimer(order[k])'
    <3> TAKE k \in DOMAIN order'
    <3>1. order'[k] \in LiveTimers
      BY <1>3
    <3> QED
      BY <1>1, <3>1 DEF LiveTimers, IsLiveTimer
  <2>3. ASSUME NEW j \in TimerSlots, timers'[j].active
        PROVE  \E p \in DOMAIN order' : order'[p] = [index |-> j, generation |-> timers'[j].generation]
    <3>1. PICK p \in DOMAIN order : order[p] = [index |-> j, generation |-> timers[j].generation]
      BY <1>1, <2>3 DEF TimerInvariant, OrderSound
    <3>2. order[p] \in TimerHandles
      BY <1>1, TimerTypes
    <3>3. order[p] \in LiveTimers
      BY <1>1, <2>3, <3>1, <3>2 DEF LiveTimers, IsLiveTimer
    <3>4. PICK k \in DOMAIN order' : PlaceOf(order, LiveTimers, k) = p
      BY <1>3, <3>3
    <3> QED
      BY <1>1, <1>3, <3>1, <3>4
  <2> QED
    BY <2>1, <2>2, <2>3 DEF OrderSound
<1> QED
  BY <1>4, <1>5, <1>6, <1>7, <1>8 DEF TimerInvariant

(***************************************************************************)
(* A timer fires: it is the next that Advance has to visit, it is due, and *)
(* what its schedule records of it is the time.                            *)
(***************************************************************************)
LEMMA FireTimerIs ==
    ASSUME TimerInvariant, FireTimer
    PROVE  \E h \in TimerHandles, s \in DOMAIN timerLog :
            /\ IsDue(h) /\ firing' = h /\ h = dispatchSnapshot[1]
            /\ timers[h.index].callback = s /\ s = ScheduleOf(h)
            /\ timerLog[s].handle = h /\ ~timerLog[s].left
            /\ timerLog' \in Seq(TimerEntries) /\ DOMAIN timerLog' = DOMAIN timerLog
            /\ timerLog'[s] \in TimerEntries /\ timerLog'[s].fired = {lastAcceptedNow}
            /\ timerLog'[s].handle = h /\ timerLog'[s].due = timerLog[s].due
            /\ ~timerLog'[s].left
            /\ \A t \in DOMAIN timerLog : t # s => timerLog'[t] = timerLog[t]
<1>1. TimerBase
  BY DEF TimerInvariant
<1>2. PICK h : h = Head(dispatchSnapshot)
  OBVIOUS
<1>3. IsDue(h) /\ firing' = h /\ dispatchSnapshot # <<>>
  BY <1>2 DEF FireTimer
<1>4. h = dispatchSnapshot[1] /\ IsLiveTimer(h)
  <2>1. dispatchSnapshot \in Seq(TimerHandles)
    BY <1>1 DEF TimerBase
  <2> QED
    BY <1>2, <1>3, <2>1, EntryTaken DEF IsDue
<1>5. PICK s \in DOMAIN timerLog : s = ScheduleOf(h)
  BY <1>4, LiveSchedule
<1>6. /\ h \in TimerHandles /\ h.index \in TimerSlots /\ timers[h.index].callback = s
      /\ timerLog[s].handle = h /\ ~timerLog[s].left
  BY <1>4, <1>5, LiveSchedule
<1>7. PICK entry : entry = [timerLog[s] EXCEPT !.fired = {lastAcceptedNow}]
  OBVIOUS
<1>8. timerLog[s] \in TimerEntries /\ {lastAcceptedNow} \in {{}} \cup {{t} : t \in Times}
  BY <1>1, TimerTypes DEF TimerBase
<1>9. /\ entry \in TimerEntries /\ entry.fired = {lastAcceptedNow}
      /\ entry.handle = h /\ entry.due = timerLog[s].due /\ ~entry.left
  BY <1>6, <1>7, <1>8 DEF TimerEntries
<1>10. timerLog' = [timerLog EXCEPT ![s] = entry]
  <2>1. timerLog' = [timerLog EXCEPT ![timers[h.index].callback].fired = {lastAcceptedNow}]
    BY <1>3 DEF FireTimer
  <2> QED
    BY <1>6, <1>7, <2>1
<1>11. /\ [timerLog EXCEPT ![s] = entry] \in Seq(TimerEntries)
       /\ DOMAIN [timerLog EXCEPT ![s] = entry] = DOMAIN timerLog
       /\ [timerLog EXCEPT ![s] = entry][s] = entry
       /\ \A t \in DOMAIN timerLog : t # s => [timerLog EXCEPT ![s] = entry][t] = timerLog[t]
  <2>1. timerLog \in Seq(TimerEntries) /\ entry \in TimerEntries
    BY <1>1, <1>9 DEF TimerBase
  <2> QED
    BY <2>1, EntryChanged
<1> QED
  BY <1>3, <1>4, <1>5, <1>6, <1>9, <1>10, <1>11

LEMMA FireTimerKeeps ==
    ASSUME TimerInvariant, FireTimer
    PROVE  TimerInvariant' /\ FiresOnTime
<1>1. /\ TimerBase /\ bDispatchActive /\ firing = NoTimer /\ dispatchSnapshot # <<>>
      /\ dispatchSnapshot' = Tail(dispatchSnapshot)
      /\ UNCHANGED <<timers, insertionOrder, lastAcceptedNow, bDispatchActive>>
  BY DEF TimerInvariant, FireTimer
<1>2. PICK h \in TimerHandles, s0 \in DOMAIN timerLog :
        /\ IsDue(h) /\ firing' = h /\ h = dispatchSnapshot[1]
        /\ timers[h.index].callback = s0 /\ s0 = ScheduleOf(h)
        /\ timerLog[s0].handle = h /\ ~timerLog[s0].left
        /\ timerLog' \in Seq(TimerEntries) /\ DOMAIN timerLog' = DOMAIN timerLog
        /\ timerLog'[s0] \in TimerEntries /\ timerLog'[s0].fired = {lastAcceptedNow}
        /\ timerLog'[s0].handle = h /\ timerLog'[s0].due = timerLog[s0].due
        /\ ~timerLog'[s0].left
        /\ \A t \in DOMAIN timerLog : t # s0 => timerLog'[t] = timerLog[t]
  BY FireTimerIs
<1>3. /\ dispatchSnapshot \in Seq(TimerHandles) /\ dispatchSnapshot' \in Seq(TimerHandles)
      /\ DOMAIN dispatchSnapshot' = 1..Len(dispatchSnapshot') /\ 1 \in DOMAIN dispatchSnapshot
      /\ \A j \in DOMAIN dispatchSnapshot' :
            j + 1 \in DOMAIN dispatchSnapshot /\ dispatchSnapshot'[j] = dispatchSnapshot[j + 1]
  BY <1>1, EntryTaken, EntriesOf DEF TimerBase
<1>4. h.index \in TimerSlots /\ timers[h.index] \in FTimerSlot /\ IsLiveTimer(h) /\ h # NoTimer
  BY <1>1, <1>2, TimerTypes, HandlesAre DEF IsDue, NoTimer
<1>5. TimerBase'
  BY <1>1, <1>2, <1>3 DEF TimerBase
<1>6. TableSound'
  <2>1. \A s \in DOMAIN timerLog :
            timerLog'[s].handle = timerLog[s].handle /\ (timerLog'[s].left <=> timerLog[s].left)
    BY <1>2
  <2>2. \A i \in TimerSlots : SlotSound(i)'
    BY <1>1, <1>2, <2>1 DEF TimerInvariant, TableSound, SlotSound
  <2>3. \A s \in DOMAIN timerLog' : EntrySound(s)'
    BY <1>1, <1>2, <2>1 DEF TimerInvariant, TableSound, EntrySound
  <2>4. HandlesDiffer'
    BY <1>2, <2>1 DEF TimerInvariant, TableSound, HandlesDiffer
  <2> QED
    BY <2>2, <2>3, <2>4 DEF TableSound
<1>7. OrderSound'
  BY <1>1 DEF TimerInvariant, OrderSound, IsLiveTimer
<1>8. SnapshotSound'
  <2>1. ASSUME NEW p \in DOMAIN dispatchSnapshot', NEW q \in DOMAIN dispatchSnapshot',
               dispatchSnapshot'[p].index = dispatchSnapshot'[q].index
        PROVE  p = q
    <3>1. p + 1 = q + 1
      BY <1>3, <2>1 DEF TimerInvariant, SnapshotSound
    <3> QED
      BY <1>3, <3>1
  <2>2. ASSUME NEW p \in DOMAIN dispatchSnapshot'
        PROVE  IsLiveTimer(dispatchSnapshot[p])' /\ dispatchSnapshot'[p].index # firing'.index
    <3>1. p + 1 \in DOMAIN dispatchSnapshot /\ p + 1 # 1 /\ dispatchSnapshot'[p] = dispatchSnapshot[p + 1]
      BY <1>3
    <3>2. dispatchSnapshot[p + 1].index # h.index
      BY <1>2, <1>3, <3>1 DEF TimerInvariant, SnapshotSound
    <3> QED
      BY <1>1, <1>2, <3>1, <3>2 DEF TimerInvariant, SnapshotSound, IsLiveTimer
  <2>3. IsLiveTimer(firing)'
    BY <1>1, <1>2, <1>4 DEF IsLiveTimer
  <2> QED
    BY <1>1, <2>1, <2>2, <2>3 DEF SnapshotSound
<1>9. OnTime(s0) /\ h # firing /\ lastAcceptedNow \in Nat
  BY <1>1, <1>2, <1>4, TimerTypes DEF TimerInvariant, Timely
<1>10. /\ timerLog[s0].due <= timers[h.index].deadline
       /\ timers[h.index].deadline <= lastAcceptedNow
       /\ timerLog[s0].due \in Nat /\ timers[h.index].deadline \in Nat
  BY <1>1, <1>2, <1>4, <1>9, TimerTypes, EntriesAre, SlotsAre DEF OnTime, IsDue
<1>11. Timely'
  <2> SUFFICES ASSUME NEW s \in DOMAIN timerLog PROVE OnTime(s)'
    BY <1>2 DEF Timely
  <2>1. CASE s = s0
    BY <1>1, <1>2, <1>10, <2>1 DEF OnTime
  <2>2. CASE s # s0
    <3>1. timerLog'[s] = timerLog[s] /\ timerLog[s].handle # h
      BY <1>2, <2>2 DEF TimerInvariant, TableSound, HandlesDiffer
    <3>2. OnTime(s) /\ timerLog[s].handle # firing
      BY <1>1, TimerTypes, EntriesAre, HandlesAre DEF TimerInvariant, Timely, NoTimer
    <3> QED
      BY <1>1, <1>2, <3>1, <3>2 DEF OnTime, SaturatingAdd
  <2> QED
    BY <2>1, <2>2
<1>12. FiresOnTime
  <2> DEFINE slot == timers[h.index]
             entry == timerLog[s0]
  <2>1. /\ entry.fired \subseteq Nat /\ entry.fired \subseteq Times
        /\ slot.period \in Nat /\ slot.lastFired \in Times
    BY <1>1, <1>2, <1>4, TimerTypes, EntriesAre, SlotsAre
  <2>2. ASSUME NEW t \in entry.fired
        PROVE  /\ slot.mode = "Looping"
               /\ slot.period # 0 => t < lastAcceptedNow
               /\ lastAcceptedNow - t >= slot.period \/ lastAcceptedNow = MaxTime
    <3>1. /\ t \in Nat /\ t <= lastAcceptedNow /\ slot.mode = "Looping"
          /\ slot.deadline = SaturatingAdd(t, slot.period)
          /\ slot.period # 0 => slot.lastFired = t
      BY <1>2, <1>9, <2>1 DEF OnTime
    <3>2. slot.period # 0 => t # lastAcceptedNow
      BY <1>2, <3>1 DEF IsDue
    <3>3. slot.deadline = MaxTime \/ slot.deadline = t + slot.period
      BY <2>1, <3>1, SaturatingAddIs
    <3>4. lastAcceptedNow <= MaxTime /\ MaxTime \in Nat
      BY <1>1, TimerTypes, TimerBounds
    <3>5. lastAcceptedNow - t >= slot.period \/ lastAcceptedNow = MaxTime
      BY <1>9, <1>10, <2>1, <3>1, <3>3, <3>4
    <3> QED
      BY <1>9, <3>1, <3>2, <3>5
  <2>3. entry.due <= lastAcceptedNow
    BY <1>9, <1>10
  <2> QED
    BY <1>2, <1>9, <2>2, <2>3 DEF FiresOnTime
<1> QED
  BY <1>5, <1>6, <1>7, <1>8, <1>11, <1>12 DEF TimerInvariant

(* The last firing of a schedule gives its slot back; the order is compacted later. *)
LEMMA OneShotReturns ==
    ASSUME TimerInvariant, TimerReturns, timers[firing.index].mode = "OneShot"
    PROVE  TimerInvariant'
<1>1. PICK h \in TimerHandles : h = firing /\ IsLiveTimer(h)
  <2>1. IsLiveTimer(firing)
    BY DEF TimerInvariant, TimerReturns, SnapshotSound
  <2> QED
    BY <2>1, LiveSchedule
<1>2. /\ TimerBase /\ bDispatchActive /\ firing' = NoTimer
      /\ timers' = [timers EXCEPT ![h.index] = Vacated(@)]
      /\ timerLog' = [timerLog EXCEPT ![ScheduleOf(h)] = Over(@)]
      /\ UNCHANGED <<insertionOrder, lastAcceptedNow, bDispatchActive, dispatchSnapshot>>
  <2>1. bDispatchActive
    BY DEF TimerInvariant, TimerBase, SnapshotSound, TimerReturns
  <2> QED
    BY <1>1, <2>1 DEF TimerInvariant, TimerReturns
<1>3. /\ timers' \in [TimerSlots -> FTimerSlot]
      /\ timerLog' \in Seq(TimerEntries) /\ DOMAIN timerLog' = DOMAIN timerLog
      /\ TableSound'
      /\ ~timers'[h.index].active
      /\ \A i \in TimerSlots : i # h.index => timers'[i] = timers[i]
      /\ timerLog'[ScheduleOf(h)].left
      /\ \A s \in DOMAIN timerLog : s # ScheduleOf(h) => timerLog'[s] = timerLog[s]
      /\ \A g \in TimerHandles : g.index # h.index => (IsLiveTimer(g)' <=> IsLiveTimer(g))
  BY <1>1, <1>2, TimerEnds
<1>4. /\ ScheduleOf(h) = timers[h.index].callback /\ h.index \in TimerSlots
      /\ ScheduleOf(h) \in DOMAIN timerLog /\ timerLog[ScheduleOf(h)].handle = h
  BY <1>1, LiveSchedule
<1>5. TimerBase'
  BY <1>2, <1>3 DEF TimerBase
<1>6. OrderSound'
  BY <1>2, <1>3 DEF TimerInvariant, OrderSound
<1>7. SnapshotSound'
  <2>1. ASSUME NEW p \in DOMAIN dispatchSnapshot
        PROVE  IsLiveTimer(dispatchSnapshot[p])' /\ dispatchSnapshot[p].index # 0
    <3>1. PICK g \in TimerHandles : g = dispatchSnapshot[p] /\ IsLiveTimer(g) /\ g.index # h.index
      BY <1>1, <1>2, <2>1, TimerTypes DEF TimerInvariant, SnapshotSound
    <3>2. IsLiveTimer(g)' /\ g.index # 0
      BY <1>3, <3>1, HandlesAre
    <3> QED
      BY <1>2, <3>1, <3>2 DEF IsLiveTimer
  <2> QED
    BY <1>2, <2>1 DEF TimerInvariant, SnapshotSound, NoTimer
<1>8. Timely'
  <2> SUFFICES ASSUME NEW s \in DOMAIN timerLog PROVE OnTime(s)'
    BY <1>3 DEF Timely
  <2>1. CASE s = ScheduleOf(h)
    BY <1>3, <2>1 DEF OnTime
  <2>2. CASE s # ScheduleOf(h)
    <3>1. timerLog'[s] = timerLog[s] /\ timerLog[s].handle # h
      BY <1>3, <1>4, <2>2 DEF TimerInvariant, TableSound, HandlesDiffer
    <3>2. /\ OnTime(s) /\ EntrySound(s) /\ timerLog[s].handle.index \in TimerSlots
          /\ timerLog[s].handle # NoTimer
      BY <1>2, TimerTypes, EntriesAre, HandlesAre DEF TimerInvariant, TableSound, Timely, NoTimer
    <3>3. ~timerLog[s].left => timers'[timerLog[s].handle.index] = timers[timerLog[s].handle.index]
      BY <1>3, <1>4, <2>2, <3>2 DEF EntrySound
    <3>4. timerLog[s].handle # firing /\ timerLog[s].handle # firing'
          /\ lastAcceptedNow' = lastAcceptedNow
      BY <1>1, <1>2, <3>1, <3>2
    <3>5. CASE timerLog[s].left
      BY <3>1, <3>5 DEF OnTime
    <3>6. CASE ~timerLog[s].left
      <4>1. timers'[timerLog[s].handle.index] = timers[timerLog[s].handle.index] /\ OnTime(s)
        BY <3>2, <3>3, <3>6
      <4> HIDE <1>2, <1>3
      <4> QED
        BY <3>1, <3>4, <4>1 DEF OnTime, SaturatingAdd
    <3> QED
      BY <3>5, <3>6
  <2> QED
    BY <2>1, <2>2
<1> QED
  BY <1>3, <1>5, <1>6, <1>7, <1>8 DEF TimerInvariant

(* A looping timer is due again a period after it fired, or at the end of time. *)
LEMMA LoopingReturns ==
    ASSUME TimerInvariant, TimerReturns, timers[firing.index].mode # "OneShot"
    PROVE  TimerInvariant' /\ \A i \in TimerSlots :
                /\ timers'[i].active = timers[i].active
                /\ timers'[i].generation = timers[i].generation
                /\ timers'[i].callback = timers[i].callback
<1>1. PICK h \in TimerHandles : h = firing /\ IsLiveTimer(h)
  <2>1. IsLiveTimer(firing)
    BY DEF TimerInvariant, TimerReturns, SnapshotSound
  <2> QED
    BY <2>1, LiveSchedule
<1>2. PICK slot : slot = timers[h.index]
  OBVIOUS
<1>3. PICK armed : armed = Rescheduled(slot)
  OBVIOUS
<1>4. /\ TimerBase /\ bDispatchActive /\ firing' = NoTimer
      /\ timers' = [timers EXCEPT ![h.index] = armed]
      /\ UNCHANGED <<insertionOrder, lastAcceptedNow, bDispatchActive, dispatchSnapshot>>
  <2>1. bDispatchActive
    BY DEF TimerInvariant, TimerBase, SnapshotSound, TimerReturns
  <2> QED
    BY <1>1, <1>2, <1>3, <2>1 DEF TimerInvariant, TimerReturns
<1>5. PICK s0 \in DOMAIN timerLog : s0 = ScheduleOf(h)
  BY <1>1, LiveSchedule
<1>6. /\ h.index \in TimerSlots /\ slot.callback = s0 /\ timerLog[s0].handle = h /\ ~timerLog[s0].left
  BY <1>1, <1>2, <1>5, LiveSchedule
<1>7. /\ timerLog' = timerLog
  BY <1>1, <1>4 DEF TimerReturns, TimerBase
<1>8. slot \in FTimerSlot /\ slot.active /\ slot.mode = "Looping"
  <2>1. slot \in FTimerSlot /\ slot.active /\ slot.mode \in Modes
    BY <1>1, <1>2, <1>4, <1>6, TimerTypes DEF TimerInvariant, TableSound, SlotSound, IsLiveTimer
  <2>2. slot.mode # "OneShot"
    BY <1>1, <1>2
  <2> QED
    BY <2>1, <2>2 DEF Modes
<1>9. /\ lastAcceptedNow \in Times /\ lastAcceptedNow \in Nat /\ slot.period \in Nat
      /\ slot.lastFired \in Times /\ slot.deadline \in Nat
  BY <1>4, <1>8, TimerTypes, SlotsAre DEF TimerBase
<1>10. PICK deadline \in Times : /\ deadline = SaturatingAdd(lastAcceptedNow, slot.period)
                                 /\ deadline >= lastAcceptedNow
  BY <1>9, SaturatingAddIs
<1>11. PICK fired \in Times : /\ fired = IF slot.period # 0 THEN lastAcceptedNow ELSE slot.lastFired
                              /\ slot.period # 0 => fired = lastAcceptedNow
  BY <1>9
<1>12. armed = [slot EXCEPT !.lastFired = fired, !.deadline = deadline]
  BY <1>3, <1>10, <1>11 DEF Rescheduled
<1>13. /\ armed \in FTimerSlot /\ armed.lastFired = fired /\ armed.deadline = deadline
       /\ armed.active = slot.active /\ armed.generation = slot.generation
       /\ armed.callback = slot.callback /\ armed.mode = slot.mode
       /\ armed.retired = slot.retired /\ armed.period = slot.period
  BY <1>8, <1>12 DEF FTimerSlot
<1>14. timers' \in [TimerSlots -> FTimerSlot]
  BY <1>4, <1>13 DEF TimerBase
<1>15. timers'[h.index] = armed /\ \A i \in TimerSlots : i # h.index => timers'[i] = timers[i]
  BY <1>4, <1>6 DEF TimerBase
<1>16. \A i \in TimerSlots :
          /\ timers'[i].active = timers[i].active /\ timers'[i].generation = timers[i].generation
          /\ timers'[i].callback = timers[i].callback /\ timers'[i].mode = timers[i].mode
          /\ timers'[i].retired = timers[i].retired
  BY <1>2, <1>13, <1>15
<1>17. TimerBase'
  BY <1>4, <1>7, <1>14 DEF TimerBase
<1>18. TableSound'
  <2>1. \A i \in TimerSlots : SlotSound(i)'
    BY <1>7, <1>16 DEF TimerInvariant, TableSound, SlotSound
  <2>2. ASSUME NEW s \in DOMAIN timerLog PROVE EntrySound(s)'
    <3>1. EntrySound(s) /\ timerLog[s].handle.index \in TimerSlots
      BY <1>4, TimerTypes, EntriesAre, HandlesAre DEF TimerInvariant, TableSound
    <3> QED
      BY <1>7, <1>16, <3>1 DEF EntrySound
  <2>3. HandlesDiffer'
    BY <1>7 DEF TimerInvariant, TableSound, HandlesDiffer
  <2> QED
    BY <1>7, <2>1, <2>2, <2>3 DEF TableSound
<1>19. \A g \in TimerHandles : IsLiveTimer(g)' <=> IsLiveTimer(g)
  BY <1>16, HandlesAre DEF IsLiveTimer
<1>20. OrderSound'
  <2>1. \A i \in TimerSlots : timers'[i].active =>
            \E p \in DOMAIN insertionOrder :
                insertionOrder[p] = [index |-> i, generation |-> timers'[i].generation]
    BY <1>16 DEF TimerInvariant, OrderSound
  <2> QED
    BY <1>4, <2>1 DEF TimerInvariant, OrderSound
<1>21. SnapshotSound'
  <2>1. ASSUME NEW p \in DOMAIN dispatchSnapshot
        PROVE  IsLiveTimer(dispatchSnapshot[p])' /\ dispatchSnapshot[p].index # 0
    <3>1. PICK g \in TimerHandles : g = dispatchSnapshot[p] /\ IsLiveTimer(g)
      BY <1>4, <2>1, TimerTypes DEF TimerInvariant, SnapshotSound
    <3>2. IsLiveTimer(g)' /\ g.index # 0
      BY <1>19, <3>1, HandlesAre
    <3> QED
      BY <1>4, <3>1, <3>2 DEF IsLiveTimer
  <2> QED
    BY <1>4, <2>1 DEF TimerInvariant, SnapshotSound, NoTimer
<1>22. Timely'
  <2> SUFFICES ASSUME NEW s \in DOMAIN timerLog PROVE OnTime(s)'
    BY <1>7 DEF Timely
  <2>1. OnTime(s) /\ EntrySound(s)
    BY DEF TimerInvariant, TableSound, Timely
  <2>2. timerLog[s].handle \in TimerHandles /\ timerLog[s].handle # NoTimer
    BY <1>4, TimerTypes, EntriesAre, HandlesAre DEF NoTimer
  <2>3. CASE s = s0
    <3>1. /\ timerLog[s].due <= slot.deadline /\ slot.deadline <= lastAcceptedNow
          /\ timerLog[s].fired = {lastAcceptedNow}
      BY <1>1, <1>2, <1>6, <2>1, <2>3 DEF OnTime
    <3>2. timerLog[s].due \in Nat /\ deadline \in Nat
      BY <1>4, <1>10, TimerTypes, EntriesAre, TimerBounds DEF Times
    <3>3. timerLog[s].due <= deadline
      BY <1>9, <1>10, <3>1, <3>2
    <3>4. /\ timers'[timerLog[s].handle.index] = armed /\ lastAcceptedNow' = lastAcceptedNow
          /\ timerLog[s].handle # firing'
      BY <1>4, <1>6, <1>15, <2>2, <2>3
    <3>5. lastAcceptedNow <= lastAcceptedNow
      BY <1>9
    <3> QED
      BY <1>7, <1>8, <1>10, <1>11, <1>13, <2>3, <3>1, <3>3, <3>4, <3>5 DEF OnTime, SaturatingAdd
  <2>4. CASE s # s0
    <3>1. timerLog[s].handle # h
      BY <1>6, <2>4 DEF TimerInvariant, TableSound, HandlesDiffer
    <3>2. ~timerLog[s].left => timers'[timerLog[s].handle.index] = timers[timerLog[s].handle.index]
      BY <1>2, <1>6, <1>15, <2>1, <2>2, <2>4, HandlesAre DEF EntrySound
    <3> QED
      BY <1>1, <1>4, <1>7, <2>1, <2>2, <3>1, <3>2 DEF OnTime, SaturatingAdd
  <2> QED
    BY <2>3, <2>4
<1> QED
  BY <1>16, <1>17, <1>18, <1>20, <1>21, <1>22 DEF TimerInvariant

-----------------------------------------------------------------------------
(* What a step of the timers may be, and that they stay sound and on time. *)
TimerAction ==
    \/ \E delay \in Delays, mode \in Modes : Schedule(delay, mode)
    \/ \E h \in TimerHandles : Cancel(h)
    \/ \E now \in Times : BeginAdvance(now)
    \/ SkipTimer \/ FireTimer \/ TimerReturns \/ EndAdvance

LEMMA TimersKeep == TimerInvariant /\ [TimerAction]_timerVars => TimerInvariant' /\ [FiresOnTime]_timerVars
<1> SUFFICES ASSUME TimerInvariant, [TimerAction]_timerVars
             PROVE  TimerInvariant' /\ [FiresOnTime]_timerVars
  OBVIOUS
<1>1. ASSUME NEW delay \in Delays, NEW mode \in Modes, Schedule(delay, mode)
      PROVE  TimerInvariant' /\ FiresOnTime
  BY <1>1, ScheduleKeeps DEF Schedule, FiresOnTime
<1>2. ASSUME NEW h \in TimerHandles, Cancel(h) PROVE TimerInvariant' /\ FiresOnTime
  BY <1>2, CancelKeeps DEF Cancel, FiresOnTime
<1>3. ASSUME NEW now \in Times, BeginAdvance(now) PROVE TimerInvariant' /\ FiresOnTime
  BY <1>3, BeginAdvanceKeeps DEF BeginAdvance, FiresOnTime
<1>4. CASE SkipTimer
  BY <1>4, SkipTimerKeeps DEF SkipTimer, FiresOnTime
<1>5. CASE FireTimer
  BY <1>5, FireTimerKeeps
<1>6. CASE TimerReturns
  BY <1>6, OneShotReturns, LoopingReturns DEF TimerReturns, FiresOnTime
<1>7. CASE EndAdvance
  BY <1>7, EndAdvanceKeeps DEF EndAdvance, FiresOnTime
<1>8. CASE UNCHANGED timerVars
  <2>1. TimerBase' /\ TableSound' /\ Timely' /\ OrderSound' /\ SnapshotSound'
    BY <1>8, TablesStay DEF timerVars, TimerInvariant, TimerBase, Timely, OnTime, SaturatingAdd,
        OrderSound, SnapshotSound, IsLiveTimer
  <2> QED
    BY <1>8, <2>1 DEF TimerInvariant
<1> QED
  BY <1>1, <1>2, <1>3, <1>4, <1>5, <1>6, <1>7, <1>8 DEF TimerAction

LEMMA TimersBegin == TimerInit => TimerInvariant
<1> SUFFICES ASSUME TimerInit PROVE TimerInvariant
  OBVIOUS
<1>1. 0 \in Times /\ 1 \in 1..MaxTimerGeneration
  BY TimerBounds DEF Times
<1>2. TimerBase
  <2>1. \A i \in TimerSlots : timers[i] \in FTimerSlot
    BY <1>1 DEF TimerInit, FTimerSlot
  <2>2. timers \in [TimerSlots -> FTimerSlot]
    BY <2>1 DEF TimerInit
  <2>3. \A S : <<>> \in Seq(S)
    OBVIOUS
  <2>4. /\ insertionOrder \in Seq(TimerHandles) /\ dispatchSnapshot \in Seq(TimerHandles)
        /\ timerLog \in Seq(TimerEntries)
    BY <2>3 DEF TimerInit
  <2>5. lastAcceptedNow \in Times /\ bDispatchActive \in BOOLEAN /\ firing \in {NoTimer}
    BY <1>1 DEF TimerInit
  <2> QED
    BY <2>2, <2>4, <2>5 DEF TimerBase
<1>3. DOMAIN timerLog = {} /\ DOMAIN insertionOrder = {} /\ DOMAIN dispatchSnapshot = {}
  BY DEF TimerInit
<1>4. \A i \in TimerSlots : ~timers[i].active /\ ~timers[i].retired
  BY DEF TimerInit
<1> QED
  BY <1>2, <1>3, <1>4 DEF TimerInit, TimerInvariant, TableSound, SlotSound, HandlesDiffer, Timely,
        OrderSound, SnapshotSound

-----------------------------------------------------------------------------
(***************************************************************************)
(* The bindings: the same, except that nothing leaves during a broadcast.  *)
(***************************************************************************)
LEMMA BindingBounds == MaxBindings \in Nat \ {0} /\ MaxBindingGeneration \in Nat \ {0}
  BY BindingAssumption DEF BindingAssumption

BindingEntries == [handle: BindingHandles, left: BOOLEAN]

BindingBase ==
    /\ bindingSlots \in [BindingSlots -> FBindingSlot]
    /\ broadcastOrder \in Seq(BindingHandles)
    /\ bBroadcastActive \in BOOLEAN
    /\ orderIndex \in Nat \ {0}
    /\ initialBindingCount \in Nat
    /\ inBinding \in BOOLEAN
    /\ bindingLog \in Seq(BindingEntries)

BindingSlotSound(i) ==
    LET slot == bindingSlots[i]
        h == [index |-> i, generation |-> slot.generation]
    IN  /\ slot.occupied =>
            /\ slot.binding \in DOMAIN bindingLog
            /\ bindingLog[slot.binding].handle = h
            /\ ~bindingLog[slot.binding].left
            /\ Contains(broadcastOrder, h)
        /\ slot.retired => ~slot.occupied

BindingEntrySound(s) ==
    LET h == bindingLog[s].handle
        slot == bindingSlots[h.index]
    IN  /\ ~bindingLog[s].left =>
            slot.occupied /\ slot.generation = h.generation /\ slot.binding = s
        /\ bindingLog[s].left =>
            \/ slot.generation > h.generation
            \/ slot.retired /\ slot.generation = h.generation

BindingHandlesDiffer ==
    \A s, t \in DOMAIN bindingLog : bindingLog[s].handle = bindingLog[t].handle => s = t

IsBound(h) == bindingSlots[h.index].occupied /\ bindingSlots[h.index].generation = h.generation

BroadcastOrderSound ==
    /\ \A p, q \in DOMAIN broadcastOrder :
            broadcastOrder[p].index = broadcastOrder[q].index => p = q
    /\ \A p \in DOMAIN broadcastOrder : IsBound(broadcastOrder[p])

(* The loop of Broadcast runs over the order as it is. *)
WalkSound ==
    /\ bBroadcastActive =>
        initialBindingCount = Len(broadcastOrder) /\ orderIndex <= initialBindingCount + 1
    /\ ~bBroadcastActive => orderIndex = 1 /\ initialBindingCount = 0
    /\ inBinding => bBroadcastActive /\ orderIndex <= initialBindingCount

BindingTableSound ==
    /\ \A i \in BindingSlots : BindingSlotSound(i)
    /\ \A s \in DOMAIN bindingLog : BindingEntrySound(s)
    /\ BindingHandlesDiffer

BindingInvariant == BindingBase /\ BindingTableSound /\ BroadcastOrderSound /\ WalkSound

LEMMA BindingHandlesAre ==
    \A h \in BindingHandles :
        /\ h.index \in BindingSlots
        /\ h.generation \in 1..MaxBindingGeneration /\ h.generation \in Nat
        /\ h = [index |-> h.index, generation |-> h.generation]
  BY BindingBounds DEF BindingHandles, BindingSlots

LEMMA BindingSlotsAre ==
    \A slot \in FBindingSlot :
        /\ slot.generation \in 1..MaxBindingGeneration /\ slot.generation \in Nat
        /\ slot.binding \in {0} \cup Adds /\ slot.occupied \in BOOLEAN /\ slot.retired \in BOOLEAN
<1>1. 1..MaxBindingGeneration \subseteq Nat
  BY BindingBounds
<1>2. \A slot \in FBindingSlot :
        /\ slot.generation \in 1..MaxBindingGeneration
        /\ slot.binding \in {0} \cup Adds /\ slot.occupied \in BOOLEAN /\ slot.retired \in BOOLEAN
  BY DEF FBindingSlot
<1> QED
  BY <1>1, <1>2

LEMMA BindingTypes ==
    ASSUME BindingBase
    PROVE  /\ \A i \in BindingSlots : bindingSlots[i] \in FBindingSlot
           /\ Len(broadcastOrder) \in Nat /\ DOMAIN broadcastOrder = 1..Len(broadcastOrder)
           /\ \A p \in DOMAIN broadcastOrder : broadcastOrder[p] \in BindingHandles
           /\ Len(bindingLog) \in Nat /\ DOMAIN bindingLog = 1..Len(bindingLog)
           /\ \A s \in DOMAIN bindingLog : bindingLog[s] \in BindingEntries
<1>1. \A i \in BindingSlots : bindingSlots[i] \in FBindingSlot
  BY DEF BindingBase
<1> QED
  BY <1>1, EntriesOf DEF BindingBase


(* The counted bounds follow here, too. *)
LEMMA BindingTypesFollow == BindingInvariant => BindingTypeOK
<1> SUFFICES ASSUME BindingInvariant PROVE BindingTypeOK
  OBVIOUS
<1>1. BindingBase /\ MaxBindings \in Nat /\ MaxBindingGeneration \in Nat
  BY BindingBounds DEF BindingInvariant
<1>2. Len(broadcastOrder) <= MaxBindings
  <2> DEFINE f == [p \in 1..Len(broadcastOrder) |-> broadcastOrder[p].index]
  <2>1. f \in [1..Len(broadcastOrder) -> 1..MaxBindings]
    BY <1>1, BindingTypes, BindingHandlesAre DEF BindingSlots
  <2>2. \A p, q \in 1..Len(broadcastOrder) : f[p] = f[q] => p = q
    BY <1>1, BindingTypes DEF BindingInvariant, BroadcastOrderSound
  <2>3. Len(broadcastOrder) \in Nat
    BY <1>1, BindingTypes
  <2> HIDE DEF f
  <2> QED
    BY <1>1, <2>1, <2>2, <2>3, OneEntryPerSlot
<1>3. Len(bindingLog) <= MaxBindings * MaxBindingGeneration
  <2> DEFINE f == [s \in 1..Len(bindingLog) |-> bindingLog[s].handle]
  <2>1. \A s \in 1..Len(bindingLog) : bindingLog[s].handle \in BindingHandles
    BY <1>1, BindingTypes DEF BindingEntries
  <2>2. f \in [1..Len(bindingLog) -> [index: 1..MaxBindings, generation: 1..MaxBindingGeneration]]
    BY <2>1 DEF BindingHandles, BindingSlots
  <2>3. \A s, t \in 1..Len(bindingLog) : f[s] = f[t] => s = t
    BY <1>1, BindingTypes DEF BindingInvariant, BindingTableSound, BindingHandlesDiffer
  <2>4. Len(bindingLog) \in Nat
    BY <1>1, BindingTypes
  <2> HIDE DEF f
  <2> QED
    BY <1>1, <2>2, <2>3, <2>4, OneEntryPerGeneration
<1>4. DOMAIN bindingLog \subseteq Adds
  <2>1. MaxBindings * MaxBindingGeneration \in Nat
    BY <1>1
  <2> QED
    BY <1>1, <1>3, <2>1, BindingTypes DEF Adds
<1>5. orderIndex \in 1..(MaxBindings + 1) /\ initialBindingCount \in 0..MaxBindings
  <2>1. Len(broadcastOrder) \in Nat /\ orderIndex \in Nat \ {0} /\ initialBindingCount \in Nat
    BY <1>1, BindingTypes DEF BindingBase
  <2> QED
    BY <1>1, <1>2, <2>1 DEF BindingInvariant, BindingBase, WalkSound
<1> QED
  BY <1>1, <1>2, <1>4, <1>5 DEF BindingBase, BindingTypeOK, BindingEntries

LEMMA BindingHandlesFollow == BindingInvariant => BindingHandlesNameTheirOwn
<1> SUFFICES ASSUME BindingInvariant, NEW s \in DOMAIN bindingLog
             PROVE  LET h == bindingLog[s].handle
                    IN  IF bindingLog[s].left THEN ~ValidateLiveHandle(h)
                        ELSE ValidateLiveHandle(h) /\ bindingSlots[h.index].binding = s
  BY DEF BindingHandlesNameTheirOwn
<1>1. PICK h \in BindingHandles : h = bindingLog[s].handle
  BY BindingTypes DEF BindingInvariant, BindingEntries
<1>2. /\ h.index \in BindingSlots /\ h.generation \in Nat
      /\ h = [index |-> h.index, generation |-> h.generation]
      /\ bindingSlots[h.index].generation \in Nat
  BY BindingTypes, BindingHandlesAre, BindingSlotsAre DEF BindingInvariant
<1>3. BindingEntrySound(s) /\ BindingSlotSound(h.index)
  BY <1>2 DEF BindingInvariant, BindingTableSound
<1>4. bindingLog[s].left => ~ValidateLiveHandle(h)
  <2> SUFFICES ASSUME bindingLog[s].left, ValidateLiveHandle(h) PROVE FALSE
    OBVIOUS
  <2>1. bindingSlots[h.index].occupied /\ bindingSlots[h.index].generation = h.generation
    BY DEF ValidateLiveHandle
  <2>2. ~bindingSlots[h.index].retired
    BY <1>3, <2>1 DEF BindingSlotSound
  <2>3. bindingSlots[h.index].generation > h.generation
    BY <1>1, <1>3, <2>2 DEF BindingEntrySound
  <2> QED
    BY <1>2, <2>1, <2>3
<1>5. ~bindingLog[s].left => ValidateLiveHandle(h) /\ bindingSlots[h.index].binding = s
  BY <1>1, <1>2, <1>3 DEF BindingEntrySound, BindingSlotSound, ValidateLiveHandle
<1> QED
  BY <1>1, <1>4, <1>5

(* An addition takes a slot nobody has, under a handle nobody was given. *)
LEMMA AddKeeps ==
    ASSUME BindingInvariant, Add
    PROVE  BindingInvariant'
<1> DEFINE n == Len(bindingLog) + 1
           order == broadcastOrder
<1>1. BindingBase /\ ~bBroadcastActive
  BY DEF BindingInvariant, Add
<1>2. PICK i \in BindingSlots :
          LET handle == [index |-> i, generation |-> bindingSlots[i].generation]
          IN  /\ IsFirstAvailableBinding(i)
              /\ bindingSlots' = [bindingSlots EXCEPT
                    ![i].binding = Len(bindingLog) + 1, ![i].occupied = TRUE]
              /\ broadcastOrder' = Append(broadcastOrder, handle)
              /\ bindingLog' = Append(bindingLog, [handle |-> handle, left |-> FALSE])
  BY DEF Add
<1>3. UNCHANGED <<bBroadcastActive, orderIndex, initialBindingCount, inBinding>>
  BY DEF Add
<1>4. PICK handle \in BindingHandles : handle = [index |-> i, generation |-> bindingSlots[i].generation]
  BY <1>1, BindingTypes, BindingSlotsAre DEF BindingHandles
<1>5. PICK entry \in BindingEntries : entry = [handle |-> handle, left |-> FALSE]
  BY DEF BindingEntries
<1>6. PICK slot : slot = [bindingSlots[i] EXCEPT !.binding = n, !.occupied = TRUE]
  OBVIOUS
<1>7. /\ bindingSlots' = [bindingSlots EXCEPT ![i] = slot]
      /\ order' = Append(order, handle) /\ bindingLog' = Append(bindingLog, entry)
  BY <1>1, <1>2, <1>4, <1>5, <1>6 DEF BindingBase
<1>8. ~bindingSlots[i].occupied /\ ~bindingSlots[i].retired /\ bindingSlots[i] \in FBindingSlot
  BY <1>1, <1>2, BindingTypes DEF IsFirstAvailableBinding, AvailableBindings
<1>9. /\ slot.binding = n /\ slot.occupied /\ ~slot.retired
      /\ slot.generation = bindingSlots[i].generation
  BY <1>6, <1>8 DEF FBindingSlot
<1>10. /\ bindingSlots'[i] = slot
       /\ \A j \in BindingSlots : j # i => bindingSlots'[j] = bindingSlots[j]
  BY <1>1, <1>7 DEF BindingBase
<1>11. /\ bindingLog' \in Seq(BindingEntries) /\ n \in Nat
       /\ DOMAIN bindingLog' = DOMAIN bindingLog \cup {n} /\ n \notin DOMAIN bindingLog
       /\ bindingLog'[n] = entry /\ \A s \in DOMAIN bindingLog : bindingLog'[s] = bindingLog[s]
  <2>1. bindingLog \in Seq(BindingEntries) /\ Len(bindingLog) \in Nat /\ DOMAIN bindingLog = 1..Len(bindingLog)
    BY <1>1, BindingTypes DEF BindingBase
  <2> QED
    BY <1>7, <2>1, EntryAdded
<1>12. entry.handle = handle /\ ~entry.left
  BY <1>5
<1>13. handle.index = i /\ handle.generation = bindingSlots[i].generation
  BY <1>4
<1>14. \A s \in DOMAIN bindingLog : bindingLog[s].handle # handle
  <2> SUFFICES ASSUME NEW s \in DOMAIN bindingLog, bindingLog[s].handle = handle PROVE FALSE
    OBVIOUS
  <2>1. BindingEntrySound(s)
    BY DEF BindingInvariant, BindingTableSound
  <2>2. bindingSlots[i].generation \in Nat
    BY <1>8, BindingSlotsAre
  <2> QED
    BY <1>8, <1>13, <2>1, <2>2 DEF BindingEntrySound
<1>15. /\ order \in Seq(BindingHandles) /\ DOMAIN order = 1..Len(order) /\ Len(order) \in Nat
       /\ \A p \in DOMAIN order : order[p] \in BindingHandles
  BY <1>1, BindingTypes DEF BindingBase
<1>16. /\ order' \in Seq(BindingHandles) /\ Len(order') = Len(order) + 1
       /\ DOMAIN order' = DOMAIN order \cup {Len(order) + 1}
       /\ order'[Len(order) + 1] = handle
       /\ \A p \in DOMAIN order : order'[p] = order[p]
  BY <1>7, <1>15, EntryAdded
<1>17. \A h : Contains(order, h) => Contains(order, h)'
  BY <1>15, <1>16 DEF Contains
<1>18. Contains(order, handle)'
  BY <1>15, <1>16 DEF Contains
<1>19. BindingTableSound'
  <2>1. ASSUME NEW j \in BindingSlots PROVE BindingSlotSound(j)'
    <3>1. BindingSlotSound(j)
      BY DEF BindingInvariant, BindingTableSound
    <3>2. CASE j = i
      <4>1. Contains(order, [index |-> i, generation |-> slot.generation])'
        BY <1>4, <1>9, <1>18
      <4> QED
        BY <1>4, <1>9, <1>10, <1>11, <1>12, <3>2, <4>1 DEF BindingSlotSound
    <3>3. CASE j # i
      BY <1>10, <1>11, <1>17, <3>1, <3>3 DEF BindingSlotSound
    <3> QED
      BY <3>2, <3>3
  <2>2. ASSUME NEW s \in DOMAIN bindingLog' PROVE BindingEntrySound(s)'
    <3>1. CASE s = n
      BY <1>9, <1>10, <1>11, <1>12, <1>13, <3>1 DEF BindingEntrySound
    <3>2. CASE s # n
      <4>1. s \in DOMAIN bindingLog /\ bindingLog'[s] = bindingLog[s]
        BY <1>11, <3>2
      <4>2. BindingEntrySound(s) /\ bindingLog[s].handle.index \in BindingSlots
        BY <1>1, <4>1, BindingTypes, BindingHandlesAre
           DEF BindingInvariant, BindingTableSound, BindingEntries
      <4>3. CASE bindingLog[s].handle.index # i
        BY <1>10, <4>1, <4>2, <4>3 DEF BindingEntrySound
      <4>4. CASE bindingLog[s].handle.index = i
        <5>1. bindingLog[s].left /\ bindingSlots[i].generation > bindingLog[s].handle.generation
          BY <1>8, <4>2, <4>4 DEF BindingEntrySound
        <5> QED
          BY <1>9, <1>10, <4>1, <4>4, <5>1 DEF BindingEntrySound
      <4> QED
        BY <4>3, <4>4
    <3> QED
      BY <3>1, <3>2
  <2>3. BindingHandlesDiffer'
    BY <1>11, <1>12, <1>14 DEF BindingHandlesDiffer, BindingInvariant, BindingTableSound
  <2> QED
    BY <2>1, <2>2, <2>3 DEF BindingTableSound
<1>20. BindingBase'
  <2>1. n \in Adds
    <3> DEFINE f == [s \in 1..n |-> bindingLog'[s].handle]
    <3>1. DOMAIN bindingLog' = 1..n
      BY <1>1, <1>11, BindingTypes
    <3>2. \A s \in 1..n : bindingLog'[s].handle \in BindingHandles
      <4>1. \A s \in DOMAIN bindingLog' : bindingLog'[s] \in BindingEntries
        BY <1>11, EntriesOf
      <4> QED
        BY <3>1, <4>1 DEF BindingEntries
    <3>3. f \in [1..n -> [index: 1..MaxBindings, generation: 1..MaxBindingGeneration]]
      BY <3>2 DEF BindingHandles, BindingSlots
    <3>4. \A s, t \in 1..n : f[s] = f[t] => s = t
      BY <1>19, <3>1 DEF BindingTableSound, BindingHandlesDiffer
    <3>5. n \in Nat /\ MaxBindings \in Nat /\ MaxBindingGeneration \in Nat
      BY <1>11, BindingBounds
    <3>6. n <= MaxBindings * MaxBindingGeneration
      <4> HIDE DEF f, n
      <4> QED
        BY <3>3, <3>4, <3>5, OneEntryPerGeneration
    <3>7. MaxBindings * MaxBindingGeneration \in Nat /\ Len(bindingLog) \in Nat
      BY <1>1, <3>5, BindingTypes
    <3> QED
      BY <3>6, <3>7 DEF Adds
  <2>2. slot \in FBindingSlot
    <3> HIDE DEF n
    <3> QED
      BY <1>6, <1>8, <2>1 DEF FBindingSlot
  <2>3. bindingSlots' \in [BindingSlots -> FBindingSlot]
    BY <1>1, <1>7, <2>2 DEF BindingBase
  <2> QED
    BY <1>1, <1>3, <1>11, <1>16, <2>3 DEF BindingBase
<1>21. BroadcastOrderSound'
  <2>1. \A p \in DOMAIN order : order[p].index # i
    <3> SUFFICES ASSUME NEW p \in DOMAIN order PROVE order[p].index # i
      OBVIOUS
    <3>1. IsBound(order[p])
      BY DEF BindingInvariant, BroadcastOrderSound
    <3> QED
      BY <1>8, <3>1 DEF IsBound
  <2>2. \A p, q \in DOMAIN order' : order'[p].index = order'[q].index => p = q
    BY <1>13, <1>16, <2>1 DEF BindingInvariant, BroadcastOrderSound
  <2>3. \A p \in DOMAIN order' : IsBound(order[p])'
    <3> TAKE p \in DOMAIN order'
    <3>1. CASE p \in DOMAIN order
      <4>1. IsBound(order[p]) /\ order[p].index \in BindingSlots
        BY <1>15, <3>1, BindingHandlesAre DEF BindingInvariant, BroadcastOrderSound
      <4> QED
        BY <1>10, <1>16, <2>1, <3>1, <4>1 DEF IsBound
    <3>2. CASE p = Len(order) + 1
      BY <1>9, <1>10, <1>13, <1>16, <3>2 DEF IsBound
    <3> QED
      BY <1>16, <3>1, <3>2
  <2> QED
    BY <2>2, <2>3 DEF BroadcastOrderSound
<1>22. WalkSound'
  BY <1>1, <1>3 DEF BindingInvariant, WalkSound
<1> QED
  BY <1>19, <1>20, <1>21, <1>22 DEF BindingInvariant

LEMMA RetiredSlotIs ==
    ASSUME NEW slot \in FBindingSlot
    PROVE  /\ RetiredSlot(slot) \in FBindingSlot
           /\ ~RetiredSlot(slot).occupied
           /\ \/ RetiredSlot(slot).generation > slot.generation
              \/ RetiredSlot(slot).retired /\ RetiredSlot(slot).generation = slot.generation
<1>1. slot.generation \in 1..MaxBindingGeneration /\ MaxBindingGeneration \in Nat
  BY BindingSlotsAre, BindingBounds
<1>2. PICK g \in 1..MaxBindingGeneration :
        /\ g = IF slot.generation < MaxBindingGeneration THEN slot.generation + 1 ELSE slot.generation
        /\ slot.generation < MaxBindingGeneration => g = slot.generation + 1
        /\ slot.generation = MaxBindingGeneration => g = slot.generation
  BY <1>1
<1>3. PICK b \in BOOLEAN : b = (slot.retired \/ slot.generation = MaxBindingGeneration)
  OBVIOUS
<1>4. RetiredSlot(slot) = [slot EXCEPT !.binding = 0, !.occupied = FALSE,
                                       !.generation = g, !.retired = b]
  BY <1>2, <1>3, Zenon DEF RetiredSlot
<1>5. /\ RetiredSlot(slot) \in FBindingSlot /\ ~RetiredSlot(slot).occupied
      /\ RetiredSlot(slot).generation = g /\ RetiredSlot(slot).retired = b
  BY <1>4 DEF FBindingSlot
<1>6. slot.generation = MaxBindingGeneration => b
  BY <1>3
<1> QED
  BY <1>1, <1>2, <1>5, <1>6

(* A removal empties one slot and closes the gap in the order. *)
LEMMA RemoveBindingKeeps ==
    ASSUME BindingInvariant, NEW h \in BindingHandles, RemoveBinding(h)
    PROVE  BindingInvariant'
<1> DEFINE order == broadcastOrder
<1>1. /\ BindingBase /\ ~bBroadcastActive
      /\ bindingSlots[h.index].occupied /\ bindingSlots[h.index].generation = h.generation
  BY DEF BindingInvariant, RemoveBinding, ValidateLiveHandle
<1>2. PICK i \in BindingSlots : i = h.index
  BY BindingHandlesAre
<1>3. PICK s0 : s0 = bindingSlots[i].binding
  OBVIOUS
<1>4. PICK slot : slot = RetiredSlot(bindingSlots[i])
  OBVIOUS
<1>5. /\ bindingSlots' = [bindingSlots EXCEPT ![i] = slot]
      /\ order' = Without(order, h)
      /\ bindingLog' = [s \in DOMAIN bindingLog |->
                        IF bindingLog[s].handle = h THEN [bindingLog[s] EXCEPT !.left = TRUE]
                        ELSE bindingLog[s]]
      /\ UNCHANGED <<bBroadcastActive, orderIndex, initialBindingCount, inBinding>>
  BY <1>1, <1>2, <1>4 DEF RemoveBinding
<1>6. h = [index |-> i, generation |-> bindingSlots[i].generation] /\ h.generation \in Nat
  BY <1>1, <1>2, BindingHandlesAre
<1>7. /\ s0 \in DOMAIN bindingLog /\ bindingLog[s0].handle = h /\ ~bindingLog[s0].left
  BY <1>1, <1>2, <1>3, <1>6 DEF BindingInvariant, BindingTableSound, BindingSlotSound
<1>8. \A s \in DOMAIN bindingLog : bindingLog[s].handle = h => s = s0
  BY <1>7 DEF BindingInvariant, BindingTableSound, BindingHandlesDiffer
<1>9. \A s \in DOMAIN bindingLog :
        bindingLog[s] \in BindingEntries /\ bindingLog[s].handle \in BindingHandles
  BY <1>1, BindingTypes DEF BindingEntries
<1>10. /\ DOMAIN bindingLog' = DOMAIN bindingLog
       /\ \A s \in DOMAIN bindingLog :
            /\ bindingLog'[s] \in BindingEntries /\ bindingLog'[s].handle = bindingLog[s].handle
            /\ s # s0 => bindingLog'[s] = bindingLog[s]
       /\ bindingLog'[s0].left
  <2>1. ASSUME NEW s \in DOMAIN bindingLog, s # s0 PROVE bindingLog'[s] = bindingLog[s]
    BY <1>5, <1>8, <2>1
  <2>2. bindingLog'[s0] = [bindingLog[s0] EXCEPT !.left = TRUE]
    BY <1>5, <1>7
  <2>3. /\ bindingLog'[s0] \in BindingEntries /\ bindingLog'[s0].handle = bindingLog[s0].handle
        /\ bindingLog'[s0].left
    BY <1>7, <1>9, <2>2 DEF BindingEntries
  <2>4. DOMAIN bindingLog' = DOMAIN bindingLog
    BY <1>5
  <2> QED
    BY <1>9, <2>1, <2>3, <2>4
<1>11. bindingLog' \in Seq(BindingEntries)
  <2>1. DOMAIN bindingLog = 1..Len(bindingLog) /\ Len(bindingLog) \in Nat
    BY <1>1, BindingTypes
  <2>2. bindingLog' = [s \in 1..Len(bindingLog) |-> bindingLog'[s]]
    BY <1>5, <2>1
  <2> QED
    BY <1>10, <2>1, <2>2
<1>12. bindingSlots[i] \in FBindingSlot
  BY <1>1, BindingTypes
<1>13. /\ slot \in FBindingSlot /\ ~slot.occupied
       /\ \/ slot.generation > bindingSlots[i].generation
          \/ slot.retired /\ slot.generation = bindingSlots[i].generation
  BY <1>4, <1>12, RetiredSlotIs
<1>14. /\ bindingSlots'[i] = slot
       /\ \A j \in BindingSlots : j # i => bindingSlots'[j] = bindingSlots[j]
       /\ bindingSlots' \in [BindingSlots -> FBindingSlot]
  BY <1>1, <1>5, <1>13 DEF BindingBase
<1>15. /\ order \in Seq(BindingHandles) /\ DOMAIN order = 1..Len(order)
       /\ \A p, q \in DOMAIN order : order[p].index = order[q].index => p = q
       /\ \A p \in DOMAIN order : order[p] \in BindingHandles /\ IsBound(order[p])
  BY <1>1, BindingTypes DEF BindingBase, BindingInvariant, BroadcastOrderSound
<1>16. /\ order' \in Seq(BindingHandles) /\ DOMAIN order' = 1..Len(order')
       /\ \A k \in DOMAIN order' : order'[k] # h /\ \E p \in DOMAIN order : order'[k] = order[p]
       /\ \A p \in DOMAIN order : order[p] # h => \E k \in DOMAIN order' : order'[k] = order[p]
       /\ \A k, l \in DOMAIN order' : order'[k] = order'[l] => k = l
  <2>1. \A p, q \in 1..Len(order) : order[p] = order[q] => p = q
    BY <1>15
  <2>2. PICK w : w = Without(order, h)
    OBVIOUS
  <2>3. order \in Seq(BindingHandles)
    BY <1>15
  <2> HIDE DEF order
  <2>4. /\ w \in Seq(BindingHandles)
        /\ \A k \in 1..Len(w) : w[k] # h /\ \E p \in 1..Len(order) : w[k] = order[p]
        /\ \A p \in 1..Len(order) : order[p] # h => \E k \in 1..Len(w) : w[k] = order[p]
        /\ \A k, l \in 1..Len(w) : w[k] = w[l] => k = l
    BY <2>1, <2>2, <2>3, WithoutIs
  <2>5. DOMAIN w = 1..Len(w) /\ order' = w
    BY <1>5, <2>2, <2>4
  <2> QED
    BY <1>15, <2>4, <2>5
<1>17. \A p \in DOMAIN order : order[p] # h => order[p].index # i
  <2> SUFFICES ASSUME NEW p \in DOMAIN order, order[p].index = i PROVE order[p] = h
    OBVIOUS
  <2>1. order[p].generation = h.generation
    BY <1>1, <1>2, <1>15 DEF IsBound
  <2> QED
    BY <1>2, <1>15, <2>1, BindingHandlesAre
<1>18. \A g : Contains(order, g) /\ g # h => Contains(order, g)'
  BY <1>15, <1>16 DEF Contains
<1>19. BindingTableSound'
  <2>1. ASSUME NEW j \in BindingSlots PROVE BindingSlotSound(j)'
    <3>1. BindingSlotSound(j)
      BY DEF BindingInvariant, BindingTableSound
    <3>2. CASE j = i
      BY <1>13, <1>14, <3>2 DEF BindingSlotSound
    <3>3. CASE j # i
      <4>1. bindingSlots'[j] = bindingSlots[j]
        BY <1>14, <3>3
      <4>2. PICK g : g = [index |-> j, generation |-> bindingSlots[j].generation]
        OBVIOUS
      <4>3. g # h
        BY <1>6, <3>3, <4>2
      <4>4. bindingSlots[j].occupied => bindingSlots[j].binding # s0
        BY <1>7, <3>1, <4>2, <4>3 DEF BindingSlotSound
      <4>5. bindingSlots[j].occupied => Contains(order, g)'
        BY <1>18, <3>1, <4>2, <4>3 DEF BindingSlotSound
      <4> QED
        BY <1>10, <3>1, <4>1, <4>2, <4>4, <4>5 DEF BindingSlotSound
    <3> QED
      BY <3>2, <3>3
  <2>2. ASSUME NEW s \in DOMAIN bindingLog PROVE BindingEntrySound(s)'
    <3>1. BindingEntrySound(s) /\ bindingLog'[s].handle = bindingLog[s].handle
      BY <1>10 DEF BindingInvariant, BindingTableSound
    <3>2. PICK j \in BindingSlots : j = bindingLog[s].handle.index
      BY <1>9, BindingHandlesAre
    <3>3. CASE s = s0
      BY <1>6, <1>7, <1>10, <1>13, <1>14, <3>3 DEF BindingEntrySound
    <3>4. CASE s # s0 /\ j # i
      BY <1>10, <1>14, <3>1, <3>2, <3>4 DEF BindingEntrySound
    <3>5. CASE s # s0 /\ j = i
      <4>1. bindingLog'[s] = bindingLog[s] /\ bindingLog[s].left
        BY <1>3, <1>10, <3>1, <3>2, <3>5 DEF BindingEntrySound
      <4>2. BindingSlotSound(i) /\ bindingSlots[i].occupied
        BY <1>1, <1>2 DEF BindingInvariant, BindingTableSound
      <4>3. bindingSlots[i].generation > bindingLog[s].handle.generation
        BY <3>1, <3>2, <3>5, <4>1, <4>2 DEF BindingEntrySound, BindingSlotSound
      <4>4. /\ bindingSlots[i].generation \in Nat /\ slot.generation \in Nat
            /\ bindingLog[s].handle.generation \in Nat
        BY <1>9, <1>12, <1>13, BindingSlotsAre, BindingHandlesAre
      <4>5. slot.generation > bindingLog[s].handle.generation
        BY <1>13, <4>3, <4>4
      <4> QED
        BY <1>14, <3>2, <3>5, <4>1, <4>5 DEF BindingEntrySound
    <3> QED
      BY <3>3, <3>4, <3>5
  <2>3. BindingHandlesDiffer'
    BY <1>10 DEF BindingHandlesDiffer, BindingInvariant, BindingTableSound
  <2> QED
    BY <1>10, <2>1, <2>2, <2>3 DEF BindingTableSound
<1>20. BindingBase'
  BY <1>1, <1>5, <1>11, <1>14, <1>16 DEF BindingBase
<1>21. BroadcastOrderSound'
  <2>1. \A k, l \in DOMAIN order' : order'[k].index = order'[l].index => k = l
    <3>1. \A p, q \in DOMAIN order : order[p].index = order[q].index => order[p] = order[q]
      BY <1>15
    <3> QED
      BY <1>16, <3>1
  <2>2. \A k \in DOMAIN order' : IsBound(order[k])'
    <3> TAKE k \in DOMAIN order'
    <3>1. PICK p \in DOMAIN order : order'[k] = order[p] /\ order[p] # h
      BY <1>16
    <3>2. order[p].index \in BindingSlots /\ order[p].index # i /\ IsBound(order[p])
      BY <1>15, <1>17, <3>1, BindingHandlesAre
    <3> QED
      BY <1>14, <3>1, <3>2 DEF IsBound
  <2> QED
    BY <2>1, <2>2 DEF BroadcastOrderSound
<1>22. WalkSound'
  BY <1>1, <1>5 DEF BindingInvariant, WalkSound
<1> QED
  BY <1>19, <1>20, <1>21, <1>22 DEF BindingInvariant

BindingAction ==
    \/ Add
    \/ \E h \in BindingHandles : RemoveBinding(h)
    \/ BeginBroadcast \/ CallBinding \/ BindingReturns \/ EndBroadcast

LEMMA BindingsKeep == BindingInvariant /\ [BindingAction]_bindingVars => BindingInvariant'
<1> SUFFICES ASSUME BindingInvariant, [BindingAction]_bindingVars PROVE BindingInvariant'
  OBVIOUS
<1>1. CASE Add
  BY <1>1, AddKeeps
<1>2. ASSUME NEW h \in BindingHandles, RemoveBinding(h) PROVE BindingInvariant'
  BY <1>2, RemoveBindingKeeps
<1>3. CASE UNCHANGED <<bindingSlots, broadcastOrder, bindingLog>>
           /\ (BeginBroadcast \/ CallBinding \/ BindingReturns \/ EndBroadcast \/ UNCHANGED bindingVars)
  <2>1. BindingBase /\ Len(broadcastOrder) \in Nat /\ orderIndex \in Nat \ {0} /\ initialBindingCount \in Nat
    BY BindingTypes DEF BindingInvariant, BindingBase
  <2>2. BindingTableSound' /\ BroadcastOrderSound'
    BY <1>3 DEF BindingInvariant, BindingTableSound, BindingSlotSound, BindingEntrySound,
        BindingHandlesDiffer, BroadcastOrderSound, IsBound, Contains
  <2>3. CASE BeginBroadcast
    BY <1>3, <2>1, <2>2, <2>3 DEF BeginBroadcast, BindingInvariant, BindingBase, WalkSound
  <2>4. CASE CallBinding
    BY <1>3, <2>1, <2>2, <2>4 DEF CallBinding, BindingInvariant, BindingBase, WalkSound
  <2>5. CASE BindingReturns
    <3>1. /\ inBinding /\ bBroadcastActive /\ inBinding' = FALSE /\ orderIndex' = orderIndex + 1
          /\ UNCHANGED <<bindingSlots, broadcastOrder, bBroadcastActive, initialBindingCount, bindingLog>>
      BY <1>3, <2>5 DEF BindingReturns, BindingInvariant, WalkSound
    <3>2. bBroadcastActive' \in BOOLEAN /\ inBinding' \in BOOLEAN
      BY <2>1, <3>1, Zenon DEF BindingBase
    <3>4. orderIndex' \in Nat \ {0} /\ initialBindingCount' \in Nat
      BY <2>1, <3>1
    <3>5. BindingBase'
      BY <2>1, <3>1, <3>2, <3>4 DEF BindingBase
    <3>3. WalkSound'
      BY <2>1, <3>1 DEF BindingInvariant, WalkSound
    <3> QED
      BY <2>2, <3>3, <3>5 DEF BindingInvariant
  <2>6. CASE EndBroadcast
    <3>1. /\ ~inBinding /\ bBroadcastActive' = FALSE /\ orderIndex' = 1 /\ initialBindingCount' = 0
          /\ UNCHANGED <<bindingSlots, broadcastOrder, inBinding, bindingLog>>
      BY <1>3, <2>6 DEF EndBroadcast
    <3>2. bBroadcastActive' \in BOOLEAN /\ inBinding' \in BOOLEAN
      BY <2>1, <3>1, Zenon DEF BindingBase
    <3>4. orderIndex' \in Nat \ {0} /\ initialBindingCount' \in Nat
      BY <2>1, <3>1
    <3>5. BindingBase'
      BY <2>1, <3>1, <3>2, <3>4 DEF BindingBase
    <3>3. WalkSound'
      BY <2>1, <3>1 DEF BindingBase, WalkSound
    <3> QED
      BY <2>2, <3>3, <3>5 DEF BindingInvariant
  <2>7. CASE UNCHANGED bindingVars
    BY <1>3, <2>1, <2>2, <2>7 DEF bindingVars, BindingInvariant, BindingBase, WalkSound
  <2> QED
    BY <1>3, <2>3, <2>4, <2>5, <2>6, <2>7
<1> QED
  BY <1>1, <1>2, <1>3 DEF BindingAction, BeginBroadcast, CallBinding, BindingReturns, EndBroadcast,
        bindingVars

LEMMA BindingsBegin == BindingInit => BindingInvariant
<1> SUFFICES ASSUME BindingInit PROVE BindingInvariant
  OBVIOUS
<1>1. 1 \in 1..MaxBindingGeneration
  BY BindingBounds
<1>2. \A i \in BindingSlots : bindingSlots[i] \in FBindingSlot
  BY <1>1 DEF BindingInit, FBindingSlot
<1>3. bindingSlots \in [BindingSlots -> FBindingSlot]
  BY <1>2 DEF BindingInit
<1>4. \A S : <<>> \in Seq(S)
  OBVIOUS
<1>5. broadcastOrder \in Seq(BindingHandles) /\ bindingLog \in Seq(BindingEntries)
  BY <1>4 DEF BindingInit
<1>6. BindingBase
  <2>1. /\ bBroadcastActive \in BOOLEAN /\ orderIndex = 1 /\ initialBindingCount = 0
        /\ inBinding \in BOOLEAN
    BY DEF BindingInit
  <2> QED
    BY <1>3, <1>5, <2>1 DEF BindingBase
<1>7. DOMAIN bindingLog = {} /\ DOMAIN broadcastOrder = {}
  BY DEF BindingInit
<1>8. \A i \in BindingSlots : ~bindingSlots[i].occupied /\ ~bindingSlots[i].retired
  BY DEF BindingInit
<1>9. BindingTableSound
  BY <1>7, <1>8 DEF BindingTableSound, BindingSlotSound, BindingHandlesDiffer
<1>10. BroadcastOrderSound
  BY <1>7 DEF BroadcastOrderSound
<1>11. WalkSound
  BY DEF BindingInit, WalkSound
<1> QED
  BY <1>6, <1>9, <1>10, <1>11 DEF BindingInvariant

-----------------------------------------------------------------------------
(***************************************************************************)
(* A run of ticks goes on exactly while the schedule need not be reset;    *)
(* then it is enabled, has last ticked where the run did, and is due an    *)
(* interval later, or at the end of time.                                  *)
(***************************************************************************)
RunSound ==
    /\ ticks.begun <=> ~tick.bMustReset
    /\ ~ticks.begun => ticks = NoRun
    /\ tick.previousTick <= tick.lastObserved
    /\ ticks.begun =>
        /\ tick.bEnabled
        /\ ticks.last = tick.previousTick
        /\ ticks.first <= ticks.last
        /\ tick.nextDue = CalculateNextDue(tick.previousTick)

TickInvariant == TickTypeOK /\ RunSound /\ TellsTime

USE DEF Moments

LEMMA Bounds == EndOfTime \in Nat /\ MaxDuration \in Nat /\ Intervals \subseteq Nat
  BY TickAssumption DEF TickAssumption

(***************************************************************************)
(* A tick begins a run or continues it, and tells it the time since its    *)
(* last tick, less only if that does not fit a duration.                   *)
(***************************************************************************)
LEMMA TickingKeeps ==
    ASSUME TickInvariant, NEW now \in Moments, NEW delta \in Nat,
           Accepts(now), tick.bEnabled, Ticked(now, delta),
           ticks.begun => delta = CalculateDelta(now),
           ~ticks.begun => delta = 0
    PROVE  TickInvariant'
<1>1. tick \in FTickFunction /\ ticks \in Runs
  BY DEF TickInvariant, TickTypeOK
<1>2. tick.previousTick <= now /\ now <= EndOfTime /\ EndOfTime \in Nat /\ MaxDuration \in Nat
  BY <1>1, Bounds DEF TickInvariant, RunSound, Accepts, FTickFunction
<1>3. CalculateNextDue(now) \in Moments
  <2>1. tick.interval \in Nat
    BY <1>1, Bounds DEF FTickFunction
  <2> QED
    BY <2>1, <1>2 DEF CalculateNextDue
<1>4. tick' = [tick EXCEPT !.lastObserved = now, !.previousTick = now,
                           !.nextDue = CalculateNextDue(now), !.bMustReset = FALSE]
  BY DEF Ticked
<1>5. tick' \in FTickFunction
  BY <1>1, <1>3, <1>4 DEF FTickFunction
<1>6. /\ tick'.lastObserved = now /\ tick'.previousTick = now /\ ~tick'.bMustReset
      /\ tick'.nextDue = CalculateNextDue(now) /\ tick'.bEnabled
      /\ tick'.interval = tick.interval
  BY <1>1, <1>4 DEF FTickFunction
<1>7. /\ ticks'.begun /\ ticks'.last = now
      /\ ticks'.first = IF ticks.begun THEN ticks.first ELSE now
      /\ ticks'.told = ticks.told + delta
      /\ ticks'.clipped = (ticks.clipped \/ (ticks.begun /\ now - ticks.last > MaxDuration))
  BY DEF Ticked
<1>8. ticks' \in Runs
  BY <1>1 DEF Ticked, Runs
<1>9. RunSound'
  <2>1. ticks'.first <= now
    BY <1>1, <1>2, <1>7 DEF TickInvariant, RunSound, Runs
  <2>2. CalculateNextDue(now)' = CalculateNextDue(now)
    BY <1>6 DEF CalculateNextDue
  <2> QED
    BY <1>6, <1>7, <2>1, <2>2 DEF RunSound, CalculateNextDue
<1>10. TellsTime'
  <2>1. CASE ~ticks.begun
    <3>1. ticks.told = 0 /\ delta = 0
      BY <2>1 DEF TickInvariant, RunSound, NoRun
    <3> QED
      BY <2>1, <3>1, <1>7 DEF TellsTime
  <2>2. CASE ticks.begun
    <3>1. /\ ticks.last = tick.previousTick /\ ticks.first <= ticks.last
          /\ ticks.told <= ticks.last - ticks.first
          /\ ~ticks.clipped => ticks.told = ticks.last - ticks.first
      BY <2>2 DEF TickInvariant, RunSound, TellsTime
    <3>2. /\ delta <= now - ticks.last
          /\ ~(now - ticks.last > MaxDuration) => delta = now - ticks.last
      BY <2>2, <3>1, <1>1, <1>2 DEF CalculateDelta, FTickFunction
    <3>3. ticks.told \in Nat /\ ticks.first \in Nat /\ ticks.last \in Nat
      BY <1>1, <1>2 DEF Runs
    <3>4. ~ticks'.clipped => ~ticks.clipped /\ ~(now - ticks.last > MaxDuration)
      BY <2>2, <1>7
    <3>5. ticks'.last = now /\ ticks'.first = ticks.first /\ ticks'.told = ticks.told + delta
      BY <2>2, <1>7
    <3>6. ticks'.told <= ticks'.last - ticks'.first
      BY <3>1, <3>2, <3>3, <3>5
    <3>7. ~ticks'.clipped => ticks'.told = ticks'.last - ticks'.first
      BY <3>1, <3>2, <3>3, <3>4, <3>5
    <3> QED
      BY <3>6, <3>7 DEF TellsTime
  <2> QED
    BY <2>1, <2>2
<1> QED
  BY <1>5, <1>8, <1>9, <1>10 DEF TickInvariant, TickTypeOK

(* Breaking the run off leaves nothing to tell. *)
LEMMA BreakingKeeps ==
    ASSUME TickInvariant, tick' \in FTickFunction, ticks' = NoRun, tick'.bMustReset,
           tick'.previousTick <= tick'.lastObserved
    PROVE  TickInvariant'
<1>1. ticks' \in Runs
  BY Bounds DEF NoRun, Runs
<1> QED
  BY <1>1 DEF TickInvariant, TickTypeOK, RunSound, TellsTime, NoRun

(***************************************************************************)
(* One step of the schedule: the invariant, and what the step may do.      *)
(***************************************************************************)
LEMMA TickStepSound ==
    ASSUME TickInvariant, TickNext
    PROVE  TickInvariant' /\ KeepsInterval
<1>1. tick \in FTickFunction /\ ticks \in Runs /\ EndOfTime \in Nat
  BY Bounds DEF TickInvariant, TickTypeOK
<1>2. tick.previousTick <= tick.lastObserved
  BY DEF TickInvariant, RunSound
<1>3. ASSUME NEW now \in Moments, TickBeginPlay(now) PROVE TickInvariant' /\ KeepsInterval
  <2>1. tick' \in FTickFunction /\ ticks' = NoRun
    BY <1>1, <1>3 DEF TickBeginPlay, FTickFunction
  <2>2. tick'.bMustReset /\ tick'.previousTick = now /\ tick'.lastObserved = now
    BY <1>1, <1>3 DEF TickBeginPlay, FTickFunction
  <2>3. tick'.previousTick <= tick'.lastObserved
    BY <1>1, <2>2
  <2> QED
    BY <2>1, <2>2, <2>3, BreakingKeeps DEF KeepsInterval, NoRun
<1>4. ASSUME TickEndPlay PROVE TickInvariant' /\ KeepsInterval
  <2>1. tick' = [tick EXCEPT !.bPlaying = FALSE] /\ ticks' = ticks
    BY <1>4 DEF TickEndPlay
  <2>2. /\ tick' \in FTickFunction
        /\ tick'.lastObserved = tick.lastObserved /\ tick'.previousTick = tick.previousTick
        /\ tick'.nextDue = tick.nextDue /\ tick'.interval = tick.interval
        /\ tick'.bMustReset = tick.bMustReset /\ tick'.bEnabled = tick.bEnabled
    BY <1>1, <2>1 DEF FTickFunction
  <2>3. TickInvariant'
    BY <2>1, <2>2 DEF TickInvariant, TickTypeOK, RunSound, TellsTime, CalculateNextDue
  <2>4. KeepsInterval
    BY <1>1, <2>1, <2>2 DEF KeepsInterval, FTickFunction
  <2> QED
    BY <2>3, <2>4
<1>5. ASSUME NEW enabled \in BOOLEAN, SetEnabled(enabled) PROVE TickInvariant' /\ KeepsInterval
  <2>1. tick' \in FTickFunction /\ ticks' = NoRun /\ tick'.bMustReset
           /\ tick'.previousTick <= tick'.lastObserved
    BY <1>1, <1>2, <1>5 DEF SetEnabled, FTickFunction
  <2> QED
    BY <2>1, BreakingKeeps DEF KeepsInterval, NoRun
<1>6. ASSUME NEW interval \in Intervals, SetInterval(interval) PROVE TickInvariant' /\ KeepsInterval
  <2>1. tick' \in FTickFunction /\ ticks' = NoRun /\ tick'.bMustReset
           /\ tick'.previousTick <= tick'.lastObserved
    BY <1>1, <1>2, <1>6 DEF SetInterval, FTickFunction
  <2> QED
    BY <2>1, BreakingKeeps DEF KeepsInterval, NoRun
<1>7. ASSUME NEW now \in Moments, BeginResetSchedule(now) PROVE TickInvariant' /\ KeepsInterval
  <2>1. ~ticks.begun /\ Accepts(now) /\ tick.bEnabled /\ Ticked(now, 0)
    BY <1>7 DEF BeginResetSchedule, TickInvariant, RunSound
  <2>2. TickInvariant'
    BY <2>1, TickingKeeps
  <2> QED
    BY <2>1, <2>2 DEF KeepsInterval
<1>8. ASSUME NEW now \in Moments, ProduceDueTick(now) PROVE TickInvariant' /\ KeepsInterval
  <2>1. /\ ticks.begun /\ Accepts(now) /\ tick.bEnabled /\ IsTickDueNow(now)
        /\ Ticked(now, CalculateDelta(now))
    BY <1>8 DEF ProduceDueTick, TickInvariant, RunSound
  <2>2. now >= tick.previousTick /\ now <= EndOfTime
    BY <1>1, <1>2, <2>1 DEF Accepts, FTickFunction
  <2>3. CalculateDelta(now) \in Nat
    BY <1>1, <2>2, Bounds DEF CalculateDelta, FTickFunction
  <2>4. TickInvariant'
    BY <2>1, <2>3, TickingKeeps
  <2>5. ticks'.last = now /\ tick'.lastObserved = now
    BY <1>1, <2>1 DEF Ticked, FTickFunction
  <2>6. ticks.last = tick.previousTick /\ tick.nextDue = CalculateNextDue(tick.previousTick)
    BY <2>1 DEF TickInvariant, RunSound
  <2>7. tick.interval \in Nat
    BY <1>1, Bounds DEF FTickFunction
  <2>8. now >= ticks.last + tick.interval \/ now = EndOfTime
    BY <1>1, <2>1, <2>2, <2>6, <2>7 DEF IsTickDueNow, CalculateNextDue, FTickFunction
  <2>9. now = ticks.last => tick.interval = 0
    BY <2>1, <2>6 DEF IsTickDueNow
  <2>10. KeepsInterval
    BY <2>5, <2>8, <2>9 DEF KeepsInterval
  <2> QED
    BY <2>4, <2>10
<1>9. ASSUME NEW now \in Moments, NotDue(now) PROVE TickInvariant' /\ KeepsInterval
  <2>1. tick' = [tick EXCEPT !.lastObserved = now] /\ ticks' = ticks /\ now >= tick.lastObserved
    BY <1>9 DEF NotDue, Accepts
  <2>2. /\ tick' \in FTickFunction
        /\ tick'.lastObserved = now /\ tick'.previousTick = tick.previousTick
        /\ tick'.nextDue = tick.nextDue /\ tick'.interval = tick.interval
        /\ tick'.bMustReset = tick.bMustReset /\ tick'.bEnabled = tick.bEnabled
    BY <1>1, <2>1 DEF FTickFunction
  <2>3. tick'.previousTick <= tick'.lastObserved
    BY <1>1, <1>2, <2>1, <2>2 DEF FTickFunction
  <2>4. TickInvariant'
    BY <2>1, <2>2, <2>3 DEF TickInvariant, TickTypeOK, RunSound, TellsTime, CalculateNextDue
  <2>5. ASSUME ticks.begun, now > tick.lastObserved, now >= ticks.last + tick.interval
        PROVE  FALSE
    <3>1. /\ tick.bEnabled /\ ~tick.bMustReset /\ ticks.last = tick.previousTick
          /\ tick.nextDue = CalculateNextDue(tick.previousTick)
      BY <2>5 DEF TickInvariant, RunSound
    <3>2. ~IsTickDueNow(now)
      BY <1>9, <3>1 DEF NotDue
    <3>3. tick.interval \in Nat
      BY <1>1, Bounds DEF FTickFunction
    <3>4. now < tick.nextDue
      BY <1>1, <1>2, <2>5, <3>2 DEF IsTickDueNow, FTickFunction
    <3> QED
      BY <1>1, <2>5, <3>1, <3>3, <3>4 DEF CalculateNextDue, FTickFunction
  <2>6. KeepsInterval
    BY <2>1, <2>2, <2>5 DEF KeepsInterval
  <2> QED
    BY <2>4, <2>6
<1> QED
  BY <1>3, <1>4, <1>5, <1>6, <1>7, <1>8, <1>9 DEF TickNext

-----------------------------------------------------------------------------
LEMMA TicksBegin == Init => TickInvariant
<1> SUFFICES ASSUME TickInit PROVE TickInvariant
  BY DEF Init
<1>1. EndOfTime \in Nat
  BY Bounds
<1>2. ticks = NoRun /\ ticks \in Runs
  BY <1>1 DEF TickInit, NoRun, Runs
<1>3. tick \in FTickFunction /\ tick.bMustReset /\ tick.previousTick <= tick.lastObserved
  BY <1>1 DEF TickInit, FTickFunction, FTickConfiguration
<1> QED
  BY <1>2, <1>3 DEF TickInvariant, TickTypeOK, RunSound, TellsTime, NoRun

(* Steps of the callbacks leave the schedule alone. *)
LEMMA TicksGoOn == TickInvariant /\ [Next]_vars => TickInvariant' /\ [TellsTime' /\ KeepsInterval]_tickVars
<1> SUFFICES ASSUME TickInvariant, [Next]_vars
             PROVE  TickInvariant' /\ [TellsTime' /\ KeepsInterval]_tickVars
  OBVIOUS
<1>1. CASE TickStep
  BY <1>1, TickStepSound DEF TickStep, TickInvariant
<1>2. CASE UNCHANGED tickVars
  BY <1>2 DEF tickVars, TickInvariant, TickTypeOK, RunSound, TellsTime, CalculateNextDue
<1> QED
  BY <1>1, <1>2 DEF Next, CallbackStep, vars

(***************************************************************************)
(* The ticks of FTickFunction are on time and tell the time that has       *)
(* passed (TickFunction.cpp:64-131), however long that is and however the  *)
(* owner pauses, hastens or ends them.                                     *)
(***************************************************************************)
THEOREM TicksTellTheTime == Spec => TicksOnTime
<1>1. TickInvariant /\ [Next]_vars => [TellsTime' /\ KeepsInterval]_tickVars
  BY TicksGoOn
<1>2. TickInvariant /\ [Next]_vars => TickInvariant'
  BY TicksGoOn
<1> QED
  BY <1>1, <1>2, TicksBegin, PTL DEF Spec, TicksOnTime

-----------------------------------------------------------------------------
(***************************************************************************)
(* The dispatches in progress: each at most once, and locked exactly while *)
(* it is there.                                                            *)
(***************************************************************************)
StackSound ==
    \/ dispatches = <<>> /\ ~bDispatchActive /\ ~bBroadcastActive
    \/ dispatches = <<"Advance">> /\ bDispatchActive /\ ~bBroadcastActive
    \/ dispatches = <<"Broadcast">> /\ ~bDispatchActive /\ bBroadcastActive
    \/ dispatches = <<"Advance", "Broadcast">> /\ bDispatchActive /\ bBroadcastActive
    \/ dispatches = <<"Broadcast", "Advance">> /\ bDispatchActive /\ bBroadcastActive

LEMMA PushAndPop ==
    ASSUME NEW d, NEW e
    PROVE  Append(<<d>>, e) = <<d, e>> /\ Front(<<d, e>>) = <<d>>
<1>1. /\ <<d>> \in Seq({d, e}) /\ Len(<<d>>) = 1 /\ <<d>>[1] = d
      /\ <<d, e>> \in Seq({d, e}) /\ Len(<<d, e>>) = 2 /\ <<d, e>>[1] = d /\ <<d, e>>[2] = e
  OBVIOUS
<1>2. PICK one \in Seq({d, e}) : one = <<d>> /\ Len(one) = 1 /\ one[1] = d
  BY <1>1
<1>3. PICK two \in Seq({d, e}) : two = <<d, e>> /\ Len(two) = 2 /\ two[1] = d /\ two[2] = e
  BY <1>1
<1>4. /\ Append(one, e) \in Seq({d, e}) /\ Len(Append(one, e)) = 2
      /\ Append(one, e)[1] = d /\ Append(one, e)[2] = e
  BY <1>2
<1>5. /\ SubSeq(two, 1, 1) \in Seq({d, e}) /\ Len(SubSeq(two, 1, 1)) = 1 /\ SubSeq(two, 1, 1)[1] = d
  BY <1>3
<1>6. Append(one, e) = two
  <2>1. \A i \in 1..Len(two) : Append(one, e)[i] = two[i]
    BY <1>3, <1>4
  <2> QED
    BY <1>3, <1>4, <2>1, SeqEqual
<1>7. SubSeq(two, 1, 1) = one
  <2>1. \A i \in 1..Len(one) : SubSeq(two, 1, 1)[i] = one[i]
    BY <1>2, <1>5
  <2> QED
    BY <1>2, <1>5, <2>1, SeqEqual
<1>8. Front(two) = SubSeq(two, 1, 1)
  BY <1>3 DEF Front
<1> QED
  BY <1>2, <1>3, <1>6, <1>7, <1>8

LEMMA StacksAre ==
    ASSUME NEW d, NEW e
    PROVE  /\ Append(<<>>, d) = <<d>> /\ Append(<<d>>, e) = <<d, e>>
           /\ Last(<<d>>) = d /\ Last(<<d, e>>) = e
           /\ Front(<<d>>) = <<>> /\ Front(<<d, e>>) = <<d>>
           /\ <<d>> # <<>> /\ <<d, e>> # <<>>
           /\ \A x : ~Contains(<<>>, x)
           /\ \A x : Contains(<<d>>, x) <=> x = d
           /\ \A x : Contains(<<d, e>>, x) <=> x = d \/ x = e
<1>1. Append(<<>>, d) = <<d>>
  OBVIOUS
<1>2. Last(<<d>>) = d /\ Last(<<d, e>>) = e
  BY DEF Last
<1>3. Front(<<d>>) = <<>>
  BY DEF Front
<1>4. /\ \A x : ~Contains(<<>>, x)
      /\ \A x : Contains(<<d>>, x) <=> x = d
      /\ \A x : Contains(<<d, e>>, x) <=> x = d \/ x = e
  BY DEF Contains
<1> QED
  BY <1>1, <1>2, <1>3, <1>4, PushAndPop

LEMMA StackFollows ==
    ASSUME StackSound
    PROVE  /\ dispatches \in {<<>>} \cup {<<d>> : d \in Dispatches}
                        \cup {<<d, e>> : d \in Dispatches, e \in Dispatches}
           /\ Contains(dispatches, "Advance") <=> bDispatchActive
           /\ Contains(dispatches, "Broadcast") <=> bBroadcastActive
<1>1. \A d, e \in Dispatches :
        /\ \A x : ~Contains(<<>>, x)
        /\ \A x : Contains(<<d>>, x) <=> x = d
        /\ \A x : Contains(<<d, e>>, x) <=> x = d \/ x = e
  BY StacksAre
<1>2. "Advance" \in Dispatches /\ "Broadcast" \in Dispatches /\ "Advance" # "Broadcast"
  BY DEF Dispatches
<1>3. dispatches \in {<<>>} \cup {<<d>> : d \in Dispatches}
                \cup {<<d, e>> : d \in Dispatches, e \in Dispatches}
  BY <1>2 DEF StackSound
<1>4. /\ Contains(dispatches, "Advance") <=> bDispatchActive
      /\ Contains(dispatches, "Broadcast") <=> bBroadcastActive
  <2>1. CASE dispatches = <<>>
    BY <1>1, <1>2, <2>1, StacksAre DEF StackSound
  <2>2. CASE dispatches = <<"Advance">>
    BY <1>1, <1>2, <2>2, StacksAre DEF StackSound
  <2>3. CASE dispatches = <<"Broadcast">>
    BY <1>1, <1>2, <2>3, StacksAre DEF StackSound
  <2>4. CASE dispatches = <<"Advance", "Broadcast">>
    BY <1>1, <1>2, <2>4, StacksAre DEF StackSound
  <2>5. CASE dispatches = <<"Broadcast", "Advance">>
    BY <1>1, <1>2, <2>5, StacksAre DEF StackSound
  <2> QED
    BY <2>1, <2>2, <2>3, <2>4, <2>5 DEF StackSound
<1> QED
  BY <1>3, <1>4

(* A dispatch begins only where it is not in progress, and the innermost ends. *)
LEMMA StackKeeps == StackSound /\ [Next]_vars => StackSound'
<1> SUFFICES ASSUME StackSound, [Next]_vars PROVE StackSound'
  OBVIOUS
<1>1. ASSUME UNCHANGED <<dispatches, bDispatchActive, bBroadcastActive>> PROVE StackSound'
  BY <1>1 DEF StackSound
<1>2. ASSUME dispatches' = Append(dispatches, "Advance"), ~bDispatchActive, bDispatchActive' = TRUE,
             bBroadcastActive' = bBroadcastActive
      PROVE  StackSound'
  <2>1. \/ dispatches = <<>> /\ ~bBroadcastActive
        \/ dispatches = <<"Broadcast">> /\ bBroadcastActive
    BY <1>2 DEF StackSound
  <2>2. \/ dispatches' = <<"Advance">> /\ ~bBroadcastActive
        \/ dispatches' = <<"Broadcast", "Advance">> /\ bBroadcastActive
    BY <1>2, <2>1, StacksAre
  <2> QED
    BY <1>2, <2>2 DEF StackSound
<1>3. ASSUME dispatches' = Append(dispatches, "Broadcast"), ~bBroadcastActive, bBroadcastActive' = TRUE,
             bDispatchActive' = bDispatchActive
      PROVE  StackSound'
  <2>1. \/ dispatches = <<>> /\ ~bDispatchActive
        \/ dispatches = <<"Advance">> /\ bDispatchActive
    BY <1>3 DEF StackSound
  <2>2. \/ dispatches' = <<"Broadcast">> /\ ~bDispatchActive
        \/ dispatches' = <<"Advance", "Broadcast">> /\ bDispatchActive
    BY <1>3, <2>1, StacksAre
  <2> QED
    BY <1>3, <2>2 DEF StackSound
<1>4. ASSUME Running("Advance"), dispatches' = Front(dispatches), bDispatchActive' = FALSE,
             bBroadcastActive' = bBroadcastActive
      PROVE  StackSound'
  <2>1. \/ dispatches = <<"Advance">> /\ ~bBroadcastActive
        \/ dispatches = <<"Broadcast", "Advance">> /\ bBroadcastActive
    <3>1. Last(<<"Broadcast">>) # "Advance" /\ Last(<<"Advance", "Broadcast">>) # "Advance"
      BY DEF Last
    <3> QED
      BY <1>4, <3>1 DEF StackSound, Running
  <2>2. \/ dispatches' = <<>> /\ ~bBroadcastActive
        \/ dispatches' = <<"Broadcast">> /\ bBroadcastActive
    BY <1>4, <2>1, StacksAre
  <2> QED
    BY <1>4, <2>2 DEF StackSound
<1>5. ASSUME Running("Broadcast"), dispatches' = Front(dispatches), bBroadcastActive' = FALSE,
             bDispatchActive' = bDispatchActive
      PROVE  StackSound'
  <2>1. \/ dispatches = <<"Broadcast">> /\ ~bDispatchActive
        \/ dispatches = <<"Advance", "Broadcast">> /\ bDispatchActive
    <3>1. Last(<<"Advance">>) # "Broadcast" /\ Last(<<"Broadcast", "Advance">>) # "Broadcast"
      BY DEF Last
    <3> QED
      BY <1>5, <3>1 DEF StackSound, Running
  <2>2. \/ dispatches' = <<>> /\ ~bDispatchActive
        \/ dispatches' = <<"Advance">> /\ bDispatchActive
    BY <1>5, <2>1, StacksAre
  <2> QED
    BY <1>5, <2>2 DEF StackSound
<1>6. CASE TimerCall
  BY <1>1, <1>2, <1>6 DEF TimerCall, Schedule, Cancel, BeginAdvance, Enter, bindingVars
<1>7. CASE BindingCall
  BY <1>1, <1>3, <1>7 DEF BindingCall, Add, RemoveBinding, BeginBroadcast, Enter, timerVars
<1>8. CASE TimerStep
  BY <1>1, <1>4, <1>8 DEF TimerStep, SkipTimer, FireTimer, EndAdvance, Leave, bindingVars
<1>9. CASE TimerCallbackReturns
  BY <1>1, <1>9 DEF TimerCallbackReturns, TimerReturns, bindingVars
<1>10. CASE BindingStep
  BY <1>1, <1>5, <1>10 DEF BindingStep, CallBinding, EndBroadcast, Leave, timerVars
<1>11. CASE BindingCallbackReturns
  BY <1>1, <1>11 DEF BindingCallbackReturns, BindingReturns, timerVars
<1>12. CASE TickStep \/ UNCHANGED vars
  BY <1>1, <1>12 DEF TickStep, vars, timerVars, bindingVars
<1> QED
  BY <1>6, <1>7, <1>8, <1>9, <1>10, <1>11, <1>12 DEF Next, CallbackStep

(* The steps of one table leave the other alone. *)
LEMMA OneTableAtATime == [Next]_vars => [TimerAction]_timerVars /\ [BindingAction]_bindingVars
<1> SUFFICES ASSUME [Next]_vars PROVE [TimerAction]_timerVars /\ [BindingAction]_bindingVars
  OBVIOUS
<1>1. CASE TimerCall \/ TimerStep \/ TimerCallbackReturns
  BY <1>1 DEF TimerCall, TimerStep, TimerCallbackReturns, TimerAction
<1>2. CASE BindingCall \/ BindingStep \/ BindingCallbackReturns
  BY <1>2 DEF BindingCall, BindingStep, BindingCallbackReturns, BindingAction
<1>3. CASE TickStep \/ UNCHANGED vars
  BY <1>3 DEF TickStep, vars
<1> QED
  BY <1>1, <1>2, <1>3 DEF Next, CallbackStep

-----------------------------------------------------------------------------
CallbacksInvariant == TimerInvariant /\ BindingInvariant /\ StackSound

LEMMA CallbacksBegin == Init => CallbacksInvariant
<1>1. Init => StackSound
  BY DEF Init, TimerInit, BindingInit, StackSound
<1> QED
  BY <1>1, TimersBegin, BindingsBegin DEF Init, CallbacksInvariant

LEMMA CallbacksKeep == CallbacksInvariant /\ [Next]_vars => CallbacksInvariant'
  BY OneTableAtATime, TimersKeep, BindingsKeep, StackKeeps DEF CallbacksInvariant

LEMMA CallbacksStaySound == Spec => []CallbacksInvariant
  BY CallbacksBegin, CallbacksKeep, PTL DEF Spec

(***************************************************************************)
(* In both tables a handle names what it was given for and nothing else,   *)
(* for ever (TimerManager.h, MulticastDelegate.h), whatever the callbacks  *)
(* register and unregister while they run and however often a slot is used *)
(* again; and each dispatch is locked exactly while it is in progress.     *)
(***************************************************************************)
THEOREM HandlesStaySound == Spec => []TablesSound
<1>1. CallbacksInvariant /\ TickInvariant => TablesSound
  BY TimerTypesFollow, TimerHandlesFollow, BindingTypesFollow, BindingHandlesFollow, StackFollows
     DEF CallbacksInvariant, TickInvariant, TablesSound, TypeOK, HandlesNameTheirOwn
<1>2. TickInvariant /\ [Next]_vars => TickInvariant'
  BY TicksGoOn
<1> QED
  BY <1>1, <1>2, CallbacksStaySound, TicksBegin, PTL DEF Spec

(***************************************************************************)
(* No timer fires before its time or after its end, and looping ones leave *)
(* their period between two firings, up to the end of time                 *)
(* (TimerManager.h, Advance).                                              *)
(***************************************************************************)
THEOREM TimersFireOnTime == Spec => [][FiresOnTime]_timerVars
<1>1. CallbacksInvariant /\ [Next]_vars => [FiresOnTime]_timerVars
  BY OneTableAtATime, TimersKeep DEF CallbacksInvariant
<1> QED
  BY <1>1, CallbacksStaySound, PTL DEF Spec

-----------------------------------------------------------------------------
(***************************************************************************)
(* A broadcast reaches all.  The callbacks in the table, those the loop    *)
(* has still to call and the one it is in, as CallbackList sees them.      *)
(***************************************************************************)
Bound == [i \in DOMAIN broadcastOrder |-> BindingAt(i)]

ToCall ==
    [i \in 1..((initialBindingCount + 1) - (orderIndex + IF inBinding THEN 1 ELSE 0)) |->
        BindingAt((orderIndex + IF inBinding THEN i ELSE i - 1))]

InCall == IF inBinding THEN BindingAt(orderIndex) ELSE 0

(* CallbackList speaks of sequences as this module does. *)
LEMMA InTheSameWords ==
    /\ \A s, x : BindingList!Contains(s, x) <=> Contains(s, x)
    /\ \A s, x : TimerList!Contains(s, x) <=> Contains(s, x)
    /\ \A s, x : BindingList!Without(s, x) = Without(s, x)
    /\ \A s, x : TimerList!Without(s, x) = Without(s, x)
<1>1. \A s, x : BindingList!Contains(s, x) <=> Contains(s, x)
  BY DEF BindingList!Contains, Contains
<1>2. \A s, x : TimerList!Contains(s, x) <=> Contains(s, x)
  BY DEF TimerList!Contains, Contains
<1>3. \A s, x : BindingList!Without(s, x) = Without(s, x)
  BY Zenon DEF BindingList!Without, BindingList!Kept, BindingList!CountKept, BindingList!PlaceOf,
        BindingList!Cardinality, Without, Kept, CountKept, PlaceOf, Cardinality
<1>4. \A s, x : TimerList!Without(s, x) = Without(s, x)
  BY Zenon DEF TimerList!Without, TimerList!Kept, TimerList!CountKept, TimerList!PlaceOf,
        TimerList!Cardinality, Without, Kept, CountKept, PlaceOf, Cardinality
<1> QED
  BY <1>1, <1>2, <1>3, <1>4

(* A handle in the order is that of one binding only. *)
LEMMA BindingAtIs ==
    ASSUME BindingInvariant, NEW p \in DOMAIN broadcastOrder
    PROVE  /\ BindingAt(p) \in DOMAIN bindingLog /\ BindingAt(p) \in Adds /\ BindingAt(p) # 0
           /\ bindingLog[BindingAt(p)].handle = broadcastOrder[p]
           /\ \A s \in DOMAIN bindingLog :
                bindingLog[s].handle = broadcastOrder[p] => s = BindingAt(p)
<1>1. PICK h \in BindingHandles : h = broadcastOrder[p] /\ IsBound(h)
  BY BindingTypes DEF BindingInvariant, BroadcastOrderSound
<1>2. h.index \in BindingSlots /\ h = [index |-> h.index, generation |-> h.generation]
  BY BindingHandlesAre
<1>3. BindingSlotSound(h.index) /\ bindingSlots[h.index].occupied
      /\ bindingSlots[h.index].generation = h.generation
  BY <1>1, <1>2 DEF BindingInvariant, BindingTableSound, IsBound
<1>4. BindingAt(p) = bindingSlots[h.index].binding
  BY <1>1 DEF BindingAt
<1>5. BindingAt(p) \in DOMAIN bindingLog /\ bindingLog[BindingAt(p)].handle = h
  BY <1>2, <1>3, <1>4 DEF BindingSlotSound
<1>6. BindingAt(p) \in Adds
  BY <1>5, BindingTypesFollow DEF BindingTypeOK
<1>7. Adds \subseteq Nat \ {0}
  BY DEF Adds
<1>8. \A s \in DOMAIN bindingLog : bindingLog[s].handle = h => s = BindingAt(p)
  BY <1>5 DEF BindingInvariant, BindingTableSound, BindingHandlesDiffer
<1> QED
  BY <1>1, <1>5, <1>6, <1>7, <1>8

LEMMA BoundAre ==
    ASSUME BindingInvariant
    PROVE  /\ Bound \in Seq(Adds) /\ Len(Bound) = Len(broadcastOrder)
           /\ DOMAIN Bound = DOMAIN broadcastOrder
           /\ DOMAIN broadcastOrder = 1..Len(broadcastOrder) /\ Len(broadcastOrder) \in Nat
           /\ \A p \in DOMAIN broadcastOrder : Bound[p] = BindingAt(p)
<1>1. DOMAIN broadcastOrder = 1..Len(broadcastOrder) /\ Len(broadcastOrder) \in Nat
  BY BindingTypes DEF BindingInvariant
<1>2. \A p \in 1..Len(broadcastOrder) : BindingAt(p) \in Adds
  BY <1>1, BindingAtIs
<1>3. Bound = [p \in 1..Len(broadcastOrder) |-> BindingAt(p)]
  BY <1>1 DEF Bound
<1> QED
  BY <1>1, <1>2, <1>3

(* The loop runs over the order from where it is. *)
LEMMA ToCallIs ==
    ASSUME BindingInvariant
    PROVE  /\ ~bBroadcastActive => ToCall = <<>> /\ InCall = 0
           /\ bBroadcastActive /\ ~inBinding =>
                /\ ToCall = [i \in 1..(initialBindingCount + 1 - orderIndex) |->
                                BindingAt(orderIndex + (i - 1))]
                /\ InCall = 0
           /\ inBinding =>
                /\ ToCall = [i \in 1..(initialBindingCount - orderIndex) |->
                                BindingAt(orderIndex + i)]
                /\ InCall = BindingAt(orderIndex) /\ InCall \in Adds /\ InCall # 0
<1>1. orderIndex \in Nat \ {0} /\ initialBindingCount \in Nat
  BY DEF BindingInvariant, BindingBase
<1>2. CASE ~bBroadcastActive
  <2>1. ~inBinding /\ orderIndex = 1 /\ initialBindingCount = 0
    BY <1>2 DEF BindingInvariant, BindingBase, WalkSound
  <2>2. (0 + 1) - (1 + 0) = 0
    OBVIOUS
  <2>3. ToCall = [i \in 1..0 |-> BindingAt(1 + (i - 1))]
    BY <2>1, <2>2 DEF ToCall
  <2>4. 1..0 = {}
    OBVIOUS
  <2>5. ToCall = <<>>
    BY <2>3, <2>4
  <2> QED
    BY <1>2, <2>1, <2>5 DEF InCall
<1>3. CASE bBroadcastActive /\ ~inBinding
  <2>1. (initialBindingCount + 1) - (orderIndex + 0) = initialBindingCount + 1 - orderIndex
    BY <1>1
  <2> QED
    BY <1>3, <2>1 DEF ToCall, InCall
<1>4. CASE inBinding
  <2>1. (initialBindingCount + 1) - (orderIndex + 1) = initialBindingCount - orderIndex
    BY <1>1
  <2>2. bBroadcastActive /\ orderIndex \in DOMAIN broadcastOrder
    BY <1>1, <1>4, BoundAre DEF BindingInvariant, WalkSound
  <2>3. BindingAt(orderIndex) \in Adds /\ BindingAt(orderIndex) # 0
    BY <2>2, BindingAtIs
  <2> QED
    BY <1>4, <2>1, <2>2, <2>3 DEF ToCall, InCall
<1> QED
  BY <1>2, <1>3, <1>4

(* Of the state that a step ends in, as of the one it begins in. *)
BindingsMapped ==
    /\ \A p \in DOMAIN broadcastOrder :
        /\ BindingAt(p) \in DOMAIN bindingLog /\ BindingAt(p) \in Adds /\ BindingAt(p) # 0
        /\ bindingLog[BindingAt(p)].handle = broadcastOrder[p]
        /\ \A s \in DOMAIN bindingLog :
                bindingLog[s].handle = broadcastOrder[p] => s = BindingAt(p)
    /\ Bound \in Seq(Adds) /\ Len(Bound) = Len(broadcastOrder)
    /\ DOMAIN broadcastOrder = 1..Len(broadcastOrder) /\ Len(broadcastOrder) \in Nat
    /\ \A p \in DOMAIN broadcastOrder : Bound[p] = BindingAt(p)
    /\ ~bBroadcastActive => ToCall = <<>> /\ InCall = 0
    /\ bBroadcastActive /\ ~inBinding =>
        /\ ToCall = [i \in 1..(initialBindingCount + 1 - orderIndex) |-> BindingAt(orderIndex + (i - 1))]
        /\ InCall = 0
    /\ inBinding =>
        /\ ToCall = [i \in 1..(initialBindingCount - orderIndex) |-> BindingAt(orderIndex + i)]
        /\ InCall = BindingAt(orderIndex) /\ InCall \in Adds /\ InCall # 0

LEMMA BindingsAreMapped == BindingInvariant => BindingsMapped
  BY BindingAtIs, BoundAre, ToCallIs DEF BindingsMapped

LEMMA BindingsStayMapped == BindingInvariant' => BindingsMapped'
  BY BindingsAreMapped, PTL

BindingMappedNow == BindingsMapped /\ BindingsMapped'

LEMMA AddEnters ==
    ASSUME BindingInvariant, Add
    PROVE  \E c \in Adds : BindingList!Enter(c)
<1> DEFINE order == broadcastOrder
           n == Len(bindingLog) + 1
<1>1. BindingInvariant' /\ BindingsMapped' /\ ~bBroadcastActive
  BY AddKeeps, BindingsStayMapped DEF Add
<1>2. PICK i \in BindingSlots :
          LET handle == [index |-> i, generation |-> bindingSlots[i].generation]
          IN  /\ order' = Append(order, handle)
              /\ bindingLog' = Append(bindingLog, [handle |-> handle, left |-> FALSE])
  BY DEF Add
<1>3. PICK handle : handle = [index |-> i, generation |-> bindingSlots[i].generation]
  OBVIOUS
<1>4. handle \in BindingHandles
  BY <1>3, BindingTypes, BindingSlotsAre DEF BindingHandles, BindingInvariant
<1>5. PICK entry \in BindingEntries : entry = [handle |-> handle, left |-> FALSE]
  BY <1>4 DEF BindingEntries
<1>6. /\ bindingLog \in Seq(BindingEntries) /\ order \in Seq(BindingHandles)
      /\ Len(bindingLog) \in Nat /\ DOMAIN bindingLog = 1..Len(bindingLog)
  BY BindingTypes DEF BindingInvariant, BindingBase
<1>7. /\ DOMAIN bindingLog' = DOMAIN bindingLog \cup {n} /\ bindingLog'[n] = entry
      /\ \A s \in DOMAIN bindingLog : bindingLog'[s] = bindingLog[s]
  <2>1. bindingLog' = Append(bindingLog, entry)
    BY <1>2, <1>3, <1>5
  <2> QED
    BY <1>6, <2>1, EntryAdded
<1>8. /\ DOMAIN order' = DOMAIN order \cup {Len(order) + 1} /\ order'[Len(order) + 1] = handle
      /\ \A p \in DOMAIN order : order'[p] = order[p]
  <2>1. order' = Append(order, handle)
    BY <1>2, <1>3
  <2> QED
    BY <1>4, <1>6, <2>1, EntryAdded
<1>9. \A p \in DOMAIN order' :
          \A s \in DOMAIN bindingLog' : bindingLog'[s].handle = order'[p] => s = BindingAt(p)'
  BY <1>1 DEF BindingsMapped
<1>10. ASSUME NEW p \in DOMAIN order PROVE BindingAt(p)' = BindingAt(p)
  <2>1. BindingAt(p) \in DOMAIN bindingLog /\ bindingLog[BindingAt(p)].handle = order[p]
    BY BindingAtIs
  <2>2. BindingAt(p) \in DOMAIN bindingLog' /\ bindingLog'[BindingAt(p)].handle = order'[p]
    BY <1>7, <1>8, <2>1
  <2> QED
    BY <1>8, <1>9, <2>2
<1>20. PICK last : last = Len(order) + 1
  OBVIOUS
<1>11. BindingAt(last)' = n
  <2>1. entry.handle = handle
    BY <1>5
  <2> QED
    BY <1>7, <1>8, <1>9, <1>20, <2>1
<1>12. n \in Adds
  <2>1. BindingAt(last)' \in Adds
    BY <1>1, <1>8, <1>20 DEF BindingsMapped
  <2> QED
    BY <1>11, <2>1
<1>13. /\ Bound \in Seq(Adds) /\ Len(Bound) = Len(order)
       /\ DOMAIN Bound = DOMAIN order /\ DOMAIN order = 1..Len(order) /\ Len(order) \in Nat
       /\ \A p \in DOMAIN order : Bound[p] = BindingAt(p)
  BY BoundAre
<1>14. /\ Bound' \in Seq(Adds) /\ Len(Bound') = Len(order')
       /\ DOMAIN order' = 1..Len(order') /\ Len(order') \in Nat
       /\ \A p \in DOMAIN order' : Bound'[p] = BindingAt(p)'
  BY <1>1 DEF BindingsMapped
<1>15. PICK w \in Seq(Adds) : w = Append(Bound, n)
  <2>1. Bound \in Seq(Adds)
    BY <1>13
  <2> HIDE DEF n
  <2>2. Append(Bound, n) \in Seq(Adds)
    BY <1>12, <2>1, EntryAdded
  <2> QED
    BY <2>2
<1>22. /\ Len(w) = Len(Bound) + 1 /\ w[Len(Bound) + 1] = n
       /\ \A p \in DOMAIN Bound : w[p] = Bound[p]
  <2>1. Bound \in Seq(Adds)
    BY <1>13
  <2> HIDE DEF n
  <2> QED
    BY <1>12, <1>15, <2>1, EntryAdded
<1>16. Bound' = Append(Bound, n)
  <2>1. Len(Bound') = Len(w)
    <3>1. Len(order') = Len(order) + 1
      BY <1>8, <1>13, <1>14
    <3> QED
      BY <1>13, <1>14, <1>22, <3>1
  <2>2. ASSUME NEW p \in 1..Len(Bound') PROVE Bound'[p] = w[p]
    <3>1. p \in DOMAIN order' /\ (p \in DOMAIN order \/ p = Len(order) + 1)
      BY <1>8, <1>14, <2>2
    <3>2. Bound'[p] = BindingAt(p)'
      BY <1>14, <3>1
    <3>3. CASE p \in DOMAIN order
      BY <1>10, <1>13, <1>22, <3>2, <3>3
    <3>4. CASE p = Len(order) + 1
      BY <1>11, <1>13, <1>20, <1>22, <3>2, <3>4
    <3> QED
      BY <3>1, <3>3, <3>4
  <2> QED
    BY <1>14, <1>15, <1>22, <2>1, <2>2, SeqEqual
<1>17. ~Contains(Bound, n)
  <2> SUFFICES ASSUME NEW p \in 1..Len(Bound), Bound[p] = n PROVE FALSE
    BY DEF Contains
  <2>1. BindingAt(p) \in DOMAIN bindingLog /\ BindingAt(p) = n
    BY <1>13, BindingAtIs
  <2> QED
    BY <1>6, <2>1
<1>18. ToCall = <<>> /\ InCall = 0 /\ ToCall' = <<>> /\ InCall' = 0
  <2>1. ~bBroadcastActive'
    BY <1>1 DEF Add
  <2> QED
    BY <1>1, <2>1, ToCallIs DEF BindingsMapped
<1>19. bBroadcastActive' = bBroadcastActive
  BY DEF Add
<1>21. BindingList!Enter(n)
  <2> HIDE DEF n
  <2>1. ~bBroadcastActive /\ bBroadcastActive' = bBroadcastActive
    BY <1>1, <1>19
  <2>2. ~BindingList!Contains(Bound, n)
    BY <1>17, InTheSameWords
  <2>3. ToCall' = ToCall /\ InCall' = InCall
    BY <1>18
  <2> QED
    BY <1>16, <2>1, <2>2, <2>3 DEF BindingList!Enter, Bound, ToCall, InCall
<1> QED
  BY <1>12, <1>21

LEMMA RemoveBindingTakesOut ==
    ASSUME BindingInvariant, NEW h \in BindingHandles, RemoveBinding(h)
    PROVE  \E c \in Adds : BindingList!TakeOut(c)
<1> DEFINE order == broadcastOrder
<1>1. BindingMappedNow
  BY BindingsAreMapped, RemoveBindingKeeps, BindingsStayMapped DEF BindingMappedNow
<1>2. /\ ~bBroadcastActive /\ ~bBroadcastActive' /\ bBroadcastActive' = bBroadcastActive
      /\ order' = Without(order, h)
      /\ bindingLog' = [s \in DOMAIN bindingLog |->
                        IF bindingLog[s].handle = h THEN [bindingLog[s] EXCEPT !.left = TRUE]
                        ELSE bindingLog[s]]
  BY DEF RemoveBinding
<1>3. /\ order \in Seq(BindingHandles) /\ Bound \in Seq(Adds) /\ Len(Bound) = Len(order)
      /\ DOMAIN order = 1..Len(order)
      /\ \A p \in DOMAIN order : Bound[p] = BindingAt(p)
  BY <1>1 DEF BindingInvariant, BindingBase, BindingMappedNow, BindingsMapped
<1>4. PICK p0 \in DOMAIN order : order[p0] = h
  BY <1>3 DEF RemoveBinding, ValidateLiveHandle, Contains
<1>5. PICK c \in Adds : c = BindingAt(p0)
  BY <1>1 DEF BindingMappedNow, BindingsMapped
<1>6. \A p \in DOMAIN order :
        /\ BindingAt(p) \in DOMAIN bindingLog /\ bindingLog[BindingAt(p)].handle = order[p]
        /\ \A s \in DOMAIN bindingLog : bindingLog[s].handle = order[p] => s = BindingAt(p)
  BY <1>1 DEF BindingMappedNow, BindingsMapped
<1>7. \A p \in DOMAIN order : order[p] = h <=> Bound[p] = c
  BY <1>3, <1>4, <1>5, <1>6
<1>8. /\ DOMAIN bindingLog' = DOMAIN bindingLog
      /\ \A s \in DOMAIN bindingLog : bindingLog'[s].handle = bindingLog[s].handle
  <2>1. DOMAIN bindingLog' = DOMAIN bindingLog
    BY <1>2
  <2>2. ASSUME NEW s \in DOMAIN bindingLog PROVE bindingLog'[s].handle = bindingLog[s].handle
    <3>1. bindingLog[s] \in BindingEntries
      BY BindingTypes DEF BindingInvariant
    <3>2. bindingLog[s].handle = h => bindingLog'[s] = [bindingLog[s] EXCEPT !.left = TRUE]
      BY <1>2
    <3>3. bindingLog[s].handle # h => bindingLog'[s] = bindingLog[s]
      BY <1>2
    <3> QED
      BY <3>1, <3>2, <3>3 DEF BindingEntries
  <2> QED
    BY <2>1, <2>2
<1>9. /\ Bound' \in Seq(Adds) /\ Len(Bound') = Len(order') /\ DOMAIN order' = 1..Len(order')
      /\ \A k \in DOMAIN order' : Bound'[k] = BindingAt(k)'
      /\ \A k \in DOMAIN order' : \A s \in DOMAIN bindingLog' :
            bindingLog'[s].handle = order'[k] => s = BindingAt(k)'
  BY <1>1 DEF BindingMappedNow, BindingsMapped
<1>10. PICK w : w = Without(order, h)
  OBVIOUS
<1>11. PICK u : u = Without(Bound, c)
  OBVIOUS
<1>12. /\ Len(w) = Len(u)
       /\ \A k \in 1..Len(w) : \E p \in 1..Len(order) :
            order[p] # h /\ w[k] = order[p] /\ u[k] = Bound[p]
  <2>1. HoldAlike(order, h, Bound, c)
    BY <1>3, <1>7 DEF HoldAlike
  <2>2. order \in Seq(BindingHandles) /\ Bound \in Seq(Adds)
    BY <1>3
  <2> HIDE DEF order
  <2> QED
    BY <1>10, <1>11, <2>1, <2>2, WithoutAlike
<1>13. u \in Seq(Adds)
  BY <1>3, <1>11, WithoutIs
<1>14. Bound' = Without(Bound, c)
  <2>1. Len(Bound') = Len(u)
    BY <1>2, <1>9, <1>10, <1>12
  <2>2. ASSUME NEW k \in 1..Len(Bound') PROVE Bound'[k] = u[k]
    <3>1. k \in DOMAIN order' /\ k \in 1..Len(w) /\ order'[k] = w[k]
      BY <1>2, <1>9, <1>10, <2>2
    <3>2. PICK p \in DOMAIN order : w[k] = order[p] /\ u[k] = Bound[p]
      BY <1>3, <1>12, <3>1
    <3>3. BindingAt(p) \in DOMAIN bindingLog' /\ bindingLog'[BindingAt(p)].handle = order'[k]
      BY <1>6, <1>8, <3>1, <3>2
    <3>4. BindingAt(k)' = BindingAt(p)
      BY <1>9, <3>1, <3>3
    <3> QED
      BY <1>3, <1>9, <3>1, <3>2, <3>4
  <2>3. Bound' = u
    BY <1>9, <1>13, <2>1, <2>2, SeqEqual
  <2> QED
    BY <1>11, <2>3
<1>15. Contains(Bound, c)
  BY <1>3, <1>4, <1>5 DEF Contains
<1>16. ToCall = <<>> /\ InCall = 0 /\ ToCall' = <<>> /\ InCall' = 0
  BY <1>1, <1>2 DEF BindingMappedNow, BindingsMapped
<1>17. BindingList!TakeOut(c)
  <2>1. ~bBroadcastActive /\ bBroadcastActive' = bBroadcastActive
    BY <1>2
  <2>2. BindingList!Contains(Bound, c) /\ Bound' = BindingList!Without(Bound, c)
    BY <1>14, <1>15, InTheSameWords
  <2>3. ToCall' = ToCall /\ InCall' = InCall
    BY <1>16
  <2> QED
    BY <2>1, <2>2, <2>3 DEF BindingList!TakeOut, Bound, ToCall, InCall
<1> QED
  BY <1>17

(* During a broadcast the table is as it was. *)
LEMMA BoundStay ==
    ASSUME UNCHANGED <<bindingSlots, broadcastOrder>>
    PROVE  Bound' = Bound /\ \A p : BindingAt(p)' = BindingAt(p)
  BY DEF Bound, BindingAt

LEMMA BroadcastWalks ==
    ASSUME BindingInvariant, BindingInvariant',
           BeginBroadcast \/ CallBinding \/ BindingReturns \/ EndBroadcast
    PROVE  BindingList!Next
<1> DEFINE n == Len(broadcastOrder)
<1>1. BindingMappedNow
  BY BindingsAreMapped, BindingsStayMapped DEF BindingMappedNow
<1>2. Bound' = Bound /\ \A p : BindingAt(p)' = BindingAt(p)
  BY BoundStay DEF BeginBroadcast, CallBinding, BindingReturns, EndBroadcast
<1>3. /\ Bound \in Seq(Adds) /\ Len(Bound) = n /\ n \in Nat /\ DOMAIN broadcastOrder = 1..n
      /\ \A p \in DOMAIN broadcastOrder : Bound[p] = BindingAt(p)
      /\ \A p \in DOMAIN broadcastOrder : BindingAt(p) \in Adds /\ BindingAt(p) # 0
  BY <1>1 DEF BindingMappedNow, BindingsMapped
<1>4. orderIndex \in Nat \ {0} /\ initialBindingCount \in Nat
  BY DEF BindingInvariant, BindingBase
<1>5. CASE BeginBroadcast
  <2>1. /\ ~bBroadcastActive /\ bBroadcastActive' = TRUE /\ ~inBinding /\ ~inBinding'
        /\ orderIndex' = 1 /\ initialBindingCount' = n
    BY <1>5 DEF BeginBroadcast, BindingInvariant, WalkSound
  <2>2. InCall = 0 /\ InCall' = 0
    BY <2>1 DEF InCall
  <2>3. ToCall' = [i \in 1..((n + 1) - (1 + 0)) |-> BindingAt(1 + (i - 1))]
    BY <1>2, <2>1 DEF ToCall, BindingAt, BeginBroadcast
  <2>4. (n + 1) - (1 + 0) = n /\ \A i \in 1..n : 1 + (i - 1) = i
    BY <1>3
  <2>5. ToCall' = Bound
    BY <1>3, <2>3, <2>4 DEF Bound
  <2>6. BindingList!BeginWalk
    BY <1>2, <2>1, <2>2, <2>5 DEF BindingList!BeginWalk, Bound, ToCall, InCall
  <2> QED
    BY <2>6 DEF BindingList!Next
<1>6. CASE CallBinding
  <2>1. /\ bBroadcastActive /\ ~inBinding /\ inBinding' = TRUE /\ orderIndex <= initialBindingCount
        /\ UNCHANGED <<bBroadcastActive, orderIndex, initialBindingCount, bindingSlots, broadcastOrder>>
    BY <1>6 DEF CallBinding
  <2>2. InCall = 0 /\ InCall' = BindingAt(orderIndex)
    BY <2>1 DEF InCall, BindingAt
  <2>3. initialBindingCount = n
    BY <2>1 DEF BindingInvariant, WalkSound
  <2> DEFINE left == n - orderIndex
  <2>4. left \in Nat /\ (n + 1) - (orderIndex + 0) = left + 1 /\ (n + 1) - (orderIndex + 1) = left
    BY <1>3, <1>4, <2>1, <2>3
  <2>5. ToCall = [i \in 1..(left + 1) |-> BindingAt(orderIndex + (i - 1))]
    BY <2>1, <2>3, <2>4 DEF ToCall
  <2>6. ToCall' = [i \in 1..left |-> BindingAt(orderIndex + i)]
    <3>1. ToCall' = [i \in 1..((n + 1) - (orderIndex + 1)) |-> BindingAt(orderIndex + i)]
      BY <2>1, <2>3 DEF ToCall, BindingAt
    <3> QED
      BY <2>4, <3>1
  <2>7. /\ \A i \in 1..(left + 1) : orderIndex + (i - 1) \in DOMAIN broadcastOrder
        /\ \A i \in 1..left : orderIndex + i = orderIndex + ((i + 1) - 1)
    BY <1>3, <1>4, <2>4
  <2>8. \A i \in 1..(left + 1) : BindingAt(orderIndex + (i - 1)) \in Adds
    BY <1>3, <2>7
  <2> HIDE DEF left
  <2>9. ToCall # <<>> /\ Head(ToCall) = BindingAt(orderIndex) /\ Tail(ToCall) = ToCall'
    <3>1. PICK t \in Seq(Adds) : t = ToCall /\ Len(t) = left + 1
      BY <2>4, <2>5, <2>8
    <3>2. PICK u : u = ToCall'
      OBVIOUS
    <3>3. /\ Tail(t) \in Seq(Adds) /\ Len(Tail(t)) = left /\ Head(t) = t[1]
          /\ \A i \in 1..left : Tail(t)[i] = t[i + 1]
      BY <2>4, <3>1
    <3>4. \A i \in 1..(left + 1) : t[i] = BindingAt(orderIndex + (i - 1))
      BY <2>5, <3>1
    <3>5. \A i \in 1..left : BindingAt(orderIndex + i) = t[i + 1]
      BY <2>4, <2>7, <3>4
    <3>6. \A i \in 1..left : u[i] = Tail(t)[i]
      BY <2>6, <3>2, <3>3, <3>5
    <3>7. \A i \in 1..left : BindingAt(orderIndex + i) \in Adds
      BY <2>4, <3>1, <3>5
    <3>8. u \in Seq(Adds) /\ Len(u) = left
      BY <2>4, <2>6, <3>2, <3>7
    <3>9. u = Tail(t)
      BY <3>3, <3>6, <3>8, SeqEqual
    <3>10. t[1] = BindingAt(orderIndex)
      BY <1>4, <2>4, <3>4
    <3> QED
      BY <2>4, <3>1, <3>2, <3>3, <3>9, <3>10
  <2>10. BindingList!Call
    BY <1>2, <2>1, <2>2, <2>9 DEF BindingList!Call, Bound, ToCall, InCall
  <2> QED
    BY <2>10 DEF BindingList!Next
<1>7. CASE BindingReturns
  <2>1. /\ bBroadcastActive /\ inBinding /\ inBinding' = FALSE /\ orderIndex' = orderIndex + 1
        /\ UNCHANGED <<bBroadcastActive, initialBindingCount, bindingSlots, broadcastOrder>>
    BY <1>7 DEF BindingReturns, BindingInvariant, WalkSound
  <2>2. InCall # 0 /\ InCall' = 0
    BY <1>1, <2>1 DEF InCall, BindingMappedNow, BindingsMapped
  <2>3. ToCall = [i \in 1..((initialBindingCount + 1) - (orderIndex + 1)) |-> BindingAt(orderIndex + i)]
    BY <2>1 DEF ToCall
  <2>4. ToCall' = [i \in 1..((initialBindingCount + 1) - ((orderIndex + 1) + 0)) |->
                        BindingAt((orderIndex + 1) + (i - 1))]
    BY <2>1 DEF ToCall, BindingAt
  <2>5. ToCall' = ToCall
    <3>1. \A i \in 1..((initialBindingCount + 1) - (orderIndex + 1)) :
            (orderIndex + 1) + (i - 1) = orderIndex + i
      BY <1>4
    <3>2. (initialBindingCount + 1) - ((orderIndex + 1) + 0) = (initialBindingCount + 1) - (orderIndex + 1)
      BY <1>4
    <3> QED
      BY <2>3, <2>4, <3>1, <3>2
  <2>6. BindingList!Return
    BY <1>2, <2>1, <2>2, <2>5 DEF BindingList!Return, Bound, ToCall, InCall
  <2> QED
    BY <2>6 DEF BindingList!Next
<1>8. CASE EndBroadcast
  <2>1. /\ bBroadcastActive /\ ~inBinding /\ bBroadcastActive' = FALSE /\ inBinding' = inBinding
        /\ \/ orderIndex > initialBindingCount
           \/ orderIndex <= initialBindingCount /\ BindingAt(orderIndex) = 0
    BY <1>8 DEF EndBroadcast
  <2>2. initialBindingCount = n /\ orderIndex <= n + 1
    BY <2>1 DEF BindingInvariant, WalkSound
  <2>3. orderIndex = n + 1
    <3>1. orderIndex \in 1..n => BindingAt(orderIndex) # 0
      BY <1>3
    <3> QED
      BY <1>3, <1>4, <2>1, <2>2, <3>1
  <2>4. (n + 1) - (orderIndex + 0) = 0
    BY <1>3, <2>3
  <2>5. ToCall = [i \in 1..0 |-> BindingAt(orderIndex + (i - 1))]
    BY <2>1, <2>2, <2>4 DEF ToCall
  <2>6. 1..0 = {}
    OBVIOUS
  <2>7. ToCall = <<>>
    BY <2>5, <2>6
  <2>8. ToCall' = <<>> /\ InCall' = 0 /\ InCall = 0
    BY <1>1, <2>1 DEF BindingMappedNow, BindingsMapped
  <2>9. BindingList!EndWalk
    BY <1>2, <2>1, <2>7, <2>8 DEF BindingList!EndWalk, Bound, ToCall, InCall
  <2> QED
    BY <2>9 DEF BindingList!Next
<1> QED
  BY <1>5, <1>6, <1>7, <1>8

(***************************************************************************)
(* A broadcast calls every binding that was there when it began, once, in  *)
(* the order in which they were added, and the table is closed meanwhile   *)
(* (TMulticastDelegate::Broadcast): MulticastDelegate implements           *)
(* CallbackList, for every number of slots and generations.                *)
(***************************************************************************)
THEOREM BroadcastsReachAll == Spec => BroadcastReachesAll
<1>1. CallbacksInvariant /\ Init => BindingList!Init
  <2> SUFFICES ASSUME CallbacksInvariant, Init PROVE BindingList!Init
    OBVIOUS
  <2>1. broadcastOrder = <<>> /\ ~bBroadcastActive /\ bBroadcastActive = FALSE
    BY DEF Init, BindingInit
  <2>2. BindingsMapped
    BY BindingsAreMapped DEF CallbacksInvariant
  <2>3. ToCall = <<>> /\ InCall = 0
    BY <2>1, <2>2 DEF BindingsMapped
  <2>4. Bound = <<>>
    BY <2>1 DEF Bound
  <2> QED
    BY <2>1, <2>3, <2>4 DEF BindingList!Init, Bound, ToCall, InCall
<1>2. CallbacksInvariant /\ CallbacksInvariant' /\ [Next]_vars => [BindingList!Next]_(BindingList!vars)
  <2> SUFFICES ASSUME CallbacksInvariant, CallbacksInvariant', [Next]_vars
               PROVE  [BindingList!Next]_(BindingList!vars)
    OBVIOUS
  <2>1. BindingInvariant /\ BindingInvariant' /\ [BindingAction]_bindingVars
    BY OneTableAtATime DEF CallbacksInvariant
  <2>2. CASE Add
    BY <2>1, <2>2, AddEnters DEF BindingList!Next
  <2>3. ASSUME NEW h \in BindingHandles, RemoveBinding(h) PROVE BindingList!Next
    BY <2>1, <2>3, RemoveBindingTakesOut DEF BindingList!Next
  <2>4. CASE BeginBroadcast \/ CallBinding \/ BindingReturns \/ EndBroadcast
    BY <2>1, <2>4, BroadcastWalks
  <2>5. CASE UNCHANGED bindingVars
    <3>1. UNCHANGED <<Bound, bBroadcastActive, ToCall, InCall>>
      BY <2>5 DEF bindingVars, Bound, ToCall, InCall, BindingAt
    <3> QED
      BY <3>1 DEF BindingList!vars, Bound, ToCall, InCall
  <2> QED
    BY <2>1, <2>2, <2>3, <2>4, <2>5 DEF BindingAction
<1> QED
  BY <1>1, <1>2, CallbacksStaySound, PTL DEF Spec, BroadcastReachesAll, BindingList!Spec

-----------------------------------------------------------------------------
(***************************************************************************)
(* The timers fire in turn.  The callbacks in the table, those Advance has *)
(* still to visit and the one it is in, as CallbackList sees them.         *)
(***************************************************************************)
Entered == CallbacksOf(CompactInsertionOrder)
Ahead == CallbacksOf(dispatchSnapshot)
InTimer == IF firing = NoTimer THEN 0 ELSE timers[firing.index].callback

(* A live handle has one schedule, and a schedule one callback. *)
LiveNamed ==
    \A h : IsLiveTimer(h) =>
        /\ h \in TimerHandles /\ timers[h.index].callback \in Schedules
        /\ timers[h.index].callback \in DOMAIN timerLog
        /\ timerLog[timers[h.index].callback].handle = h
        /\ \A s \in DOMAIN timerLog :
                timerLog[s].handle = h => s = timers[h.index].callback

AreCallbacks(c, handles) ==
    /\ handles \in Seq(TimerHandles) /\ Len(handles) \in Nat
    /\ DOMAIN handles = 1..Len(handles)
    /\ \A p \in DOMAIN handles : IsLiveTimer(handles[p])
    /\ c \in Seq(Schedules) /\ Len(c) = Len(handles)
    /\ \A p \in DOMAIN handles : c[p] = timers[handles[p].index].callback

TimersMapped ==
    /\ LiveNamed
    /\ AreCallbacks(Entered, CompactInsertionOrder)
    /\ AreCallbacks(Ahead, dispatchSnapshot)
    /\ ~bDispatchActive => CompactInsertionOrder = insertionOrder /\ Ahead = <<>> /\ InTimer = 0
    /\ firing # NoTimer => InTimer \in Schedules /\ InTimer # 0
    /\ insertionOrder \in Seq(TimerHandles) /\ Len(insertionOrder) \in Nat
    /\ \A h : IsLiveTimer(h) => Contains(CompactInsertionOrder, h)

LEMMA LiveAreNamed == TimerInvariant => LiveNamed
<1> SUFFICES ASSUME TimerInvariant, NEW h, IsLiveTimer(h)
             PROVE  /\ h \in TimerHandles /\ timers[h.index].callback \in Schedules
                    /\ timers[h.index].callback \in DOMAIN timerLog
                    /\ timerLog[timers[h.index].callback].handle = h
                    /\ \A s \in DOMAIN timerLog :
                            timerLog[s].handle = h => s = timers[h.index].callback
  BY DEF LiveNamed
<1>1. /\ h \in TimerHandles
      /\ timers[h.index].callback \in DOMAIN timerLog
      /\ timerLog[timers[h.index].callback].handle = h
  BY LiveSchedule
<1>2. timers[h.index].callback \in Schedules
  BY <1>1, TimerTypesFollow DEF TimerTypeOK
<1>3. \A s \in DOMAIN timerLog : timerLog[s].handle = h => s = timers[h.index].callback
  BY <1>1 DEF TimerInvariant, TableSound, HandlesDiffer
<1> QED
  BY <1>1, <1>2, <1>3

LEMMA CallbacksAre ==
    ASSUME TimerInvariant, NEW handles \in Seq(TimerHandles),
           \A p \in DOMAIN handles : IsLiveTimer(handles[p])
    PROVE  AreCallbacks(CallbacksOf(handles), handles)
<1>1. Len(handles) \in Nat /\ DOMAIN handles = 1..Len(handles)
  OBVIOUS
<1>2. \A p \in 1..Len(handles) : timers[handles[p].index].callback \in Schedules
  BY <1>1, LiveAreNamed DEF LiveNamed
<1>3. PICK c : c = CallbacksOf(handles)
  OBVIOUS
<1>4. c = [p \in 1..Len(handles) |-> timers[handles[p].index].callback]
  BY <1>1, <1>3 DEF CallbacksOf
<1>5. c \in Seq(Schedules) /\ Len(c) = Len(handles)
  BY <1>1, <1>2, <1>4
<1> QED
  BY <1>1, <1>3, <1>4, <1>5 DEF AreCallbacks

LEMMA TimersAreMapped == TimerInvariant => TimersMapped
<1> SUFFICES ASSUME TimerInvariant PROVE TimersMapped
  OBVIOUS
<1>1. /\ insertionOrder \in Seq(TimerHandles) /\ Len(insertionOrder) \in Nat
      /\ DOMAIN insertionOrder = 1..Len(insertionOrder)
      /\ dispatchSnapshot \in Seq(TimerHandles)
  BY TimerTypes DEF TimerInvariant, TimerBase
<1>2. PICK w : w = Kept(insertionOrder, LiveTimers)
  OBVIOUS
<1>3. /\ w \in Seq(TimerHandles)
      /\ \A k \in 1..Len(w) :
            /\ PlaceOf(insertionOrder, LiveTimers, k) \in 1..Len(insertionOrder)
            /\ insertionOrder[PlaceOf(insertionOrder, LiveTimers, k)] \in LiveTimers
            /\ w[k] = insertionOrder[PlaceOf(insertionOrder, LiveTimers, k)]
      /\ \A i \in 1..Len(insertionOrder) : insertionOrder[i] \in LiveTimers =>
            \E k \in 1..Len(w) : PlaceOf(insertionOrder, LiveTimers, k) = i
  BY <1>1, <1>2, KeptIs
<1>4. \A h : h \in LiveTimers <=> IsLiveTimer(h)
  BY DEF LiveTimers, IsLiveTimer
<1>5. AreCallbacks(Entered, CompactInsertionOrder)
  <2>1. \A p \in DOMAIN w : IsLiveTimer(w[p])
    BY <1>3, <1>4
  <2>2. AreCallbacks(CallbacksOf(w), w)
    BY <1>3, <2>1, CallbacksAre
  <2> QED
    BY <1>2, <2>2 DEF Entered, CompactInsertionOrder
<1>6. AreCallbacks(Ahead, dispatchSnapshot)
  <2>1. \A p \in DOMAIN dispatchSnapshot : IsLiveTimer(dispatchSnapshot[p])
    BY DEF TimerInvariant, SnapshotSound
  <2> QED
    BY <1>1, <2>1, CallbacksAre DEF Ahead
<1>7. ASSUME ~bDispatchActive
      PROVE  CompactInsertionOrder = insertionOrder /\ Ahead = <<>> /\ InTimer = 0
  <2>1. \A i \in 1..Len(insertionOrder) : insertionOrder[i] \in LiveTimers
    BY <1>1, <1>4, <1>7 DEF TimerInvariant, OrderSound
  <2>2. CompactInsertionOrder = insertionOrder
    BY <1>1, <2>1, KeptAll DEF CompactInsertionOrder
  <2>3. dispatchSnapshot = <<>> /\ firing = NoTimer
    BY <1>7 DEF TimerInvariant, SnapshotSound
  <2>4. Ahead = <<>>
    BY <2>3 DEF Ahead, CallbacksOf
  <2> QED
    BY <2>2, <2>3, <2>4 DEF InTimer
<1>8. firing # NoTimer => InTimer \in Schedules /\ InTimer # 0
  <2>1. Schedules \subseteq Nat \ {0}
    BY DEF Schedules
  <2> QED
    BY <2>1, LiveAreNamed DEF LiveNamed, InTimer, TimerInvariant, SnapshotSound
<1>9. ASSUME NEW h, IsLiveTimer(h) PROVE Contains(CompactInsertionOrder, h)
  <2>1. /\ h \in TimerHandles /\ h.index \in TimerSlots /\ timers[h.index].active
        /\ h = [index |-> h.index, generation |-> timers[h.index].generation]
    BY <1>9, HandlesAre DEF IsLiveTimer
  <2>2. PICK p \in DOMAIN insertionOrder : insertionOrder[p] = h
    BY <2>1 DEF TimerInvariant, OrderSound
  <2>3. PICK k \in 1..Len(w) : w[k] = h
    BY <1>1, <1>3, <1>4, <1>9, <2>2
  <2> QED
    BY <1>2, <2>3 DEF CompactInsertionOrder, Contains
<1> QED
  BY <1>1, <1>5, <1>6, <1>7, <1>8, <1>9, LiveAreNamed DEF TimersMapped

LEMMA TimersStayMapped == TimerInvariant' => TimersMapped'
  BY TimersAreMapped, PTL

MappedThroughout == TimersMapped /\ TimersMapped'

(* While its schedule is in the log, a live handle keeps its callback. *)
LEMMA CallbackStays ==
    ASSUME TimersMapped, TimersMapped', NEW h, IsLiveTimer(h), IsLiveTimer(h)',
           \A s \in DOMAIN timerLog :
                s \in DOMAIN timerLog' /\ timerLog'[s].handle = timerLog[s].handle
    PROVE  timers'[h.index].callback = timers[h.index].callback
  BY DEF TimersMapped, LiveNamed

(* One handle out of the order is one callback out of the table. *)
LEMMA HandleOut ==
    ASSUME TimersMapped, TimersMapped', NEW h, IsLiveTimer(h),
           CompactInsertionOrder' = Without(CompactInsertionOrder, h),
           \A s \in DOMAIN timerLog :
                s \in DOMAIN timerLog' /\ timerLog'[s].handle = timerLog[s].handle
    PROVE  Entered' = Without(Entered, timers[h.index].callback)
<1>1. PICK c : c = timers[h.index].callback
  OBVIOUS
<1>2. PICK s \in Seq(TimerHandles) : s = CompactInsertionOrder
  BY DEF TimersMapped, AreCallbacks
<1>3. PICK t \in Seq(Schedules) : t = Entered
  BY DEF TimersMapped, AreCallbacks
<1>4. /\ Len(s) = Len(t) /\ DOMAIN s = 1..Len(s)
      /\ \A p \in DOMAIN s : IsLiveTimer(s[p]) /\ t[p] = timers[s[p].index].callback
  BY <1>2, <1>3 DEF TimersMapped, AreCallbacks
<1>5. \A p \in DOMAIN s : s[p] = h <=> t[p] = c
  <2>1. ASSUME NEW p \in DOMAIN s, t[p] = c PROVE s[p] = h
    BY <1>1, <1>4, <2>1 DEF TimersMapped, LiveNamed
  <2> QED
    BY <1>1, <1>4, <2>1
<1>6. HoldAlike(s, h, t, c)
  BY <1>4, <1>5 DEF HoldAlike
<1>7. PICK w : w = Without(s, h)
  OBVIOUS
<1>8. PICK u : u = Without(t, c)
  OBVIOUS
<1>9. /\ Len(w) = Len(u)
      /\ \A k \in 1..Len(w) : \E p \in 1..Len(s) : s[p] # h /\ w[k] = s[p] /\ u[k] = t[p]
  BY <1>6, <1>7, <1>8, WithoutAlike
<1>10. u \in Seq(Schedules)
  BY <1>8, WithoutIs
<1>11. PICK e : e = Entered'
  OBVIOUS
<1>12. /\ e \in Seq(Schedules) /\ Len(e) = Len(w)
       /\ \A p \in DOMAIN w : IsLiveTimer(w[p])' /\ e[p] = timers'[w[p].index].callback
       /\ DOMAIN w = 1..Len(w)
  <2>1. CompactInsertionOrder' = w
    BY <1>2, <1>7
  <2>2. AreCallbacks(Entered, CompactInsertionOrder)'
    BY DEF TimersMapped
  <2>3. /\ Entered' \in Seq(Schedules) /\ Len(Entered') = Len(CompactInsertionOrder')
        /\ DOMAIN CompactInsertionOrder' = 1..Len(CompactInsertionOrder')
        /\ \A p \in DOMAIN CompactInsertionOrder' :
            Entered'[p] = timers'[CompactInsertionOrder'[p].index].callback
    BY <2>2 DEF AreCallbacks
  <2>4. \A p \in DOMAIN CompactInsertionOrder' :
            /\ CompactInsertionOrder'[p] \in TimerHandles
            /\ timers'[CompactInsertionOrder'[p].index].active
            /\ timers'[CompactInsertionOrder'[p].index].generation
                    = CompactInsertionOrder'[p].generation
    BY <2>2 DEF AreCallbacks, IsLiveTimer
  <2>5. \A p \in DOMAIN w : IsLiveTimer(w[p])'
    BY <2>1, <2>4 DEF IsLiveTimer
  <2> QED
    BY <1>11, <2>1, <2>3, <2>5
<1>13. ASSUME NEW k \in 1..Len(e) PROVE e[k] = u[k]
  <2>1. PICK p \in DOMAIN s : w[k] = s[p] /\ u[k] = t[p]
    BY <1>4, <1>9, <1>12, <1>13
  <2>2. PICK g : g = w[k]
    OBVIOUS
  <2>3. IsLiveTimer(g) /\ IsLiveTimer(g)' /\ e[k] = timers'[g.index].callback
        /\ u[k] = timers[g.index].callback
    <3>1. k \in DOMAIN w
      BY <1>12, <1>13
    <3>2. IsLiveTimer(w[k])' /\ e[k] = timers'[w[k].index].callback
      BY <1>12, <3>1
    <3>3. IsLiveTimer(g)'
      BY <2>2, <3>2 DEF IsLiveTimer
    <3> QED
      BY <1>4, <2>1, <2>2, <3>2, <3>3
  <2> QED
    BY <2>3, CallbackStays
<1>14. e = u
  BY <1>9, <1>10, <1>12, <1>13, SeqEqual
<1> QED
  BY <1>1, <1>3, <1>8, <1>11, <1>14

LEMMA ScheduleEnters ==
    ASSUME TimerInvariant, NEW delay \in Delays, NEW mode \in Modes, Schedule(delay, mode)
    PROVE  \E c \in Schedules : TimerList!Enter(c)
<1> DEFINE order == insertionOrder
<1>1. TimersMapped /\ TimersMapped'
  BY TimersAreMapped, TimersStayMapped, ScheduleKeeps
<1>2. ~bDispatchActive /\ ~bDispatchActive' /\ bDispatchActive' = bDispatchActive
  BY DEF Schedule
<1>3. PICK i \in TimerSlots :
          LET handle == [index |-> i, generation |-> timers[i].generation]
              deadline == SaturatingAdd(lastAcceptedNow, delay)
          IN  /\ order' = Append(order, handle)
              /\ timerLog' = Append(timerLog,
                    [handle |-> handle, due |-> deadline, fired |-> {}, left |-> FALSE])
  BY DEF Schedule
<1>4. PICK handle : handle = [index |-> i, generation |-> timers[i].generation]
  OBVIOUS
<1>5. PICK entry : entry = [handle |-> handle, due |-> SaturatingAdd(lastAcceptedNow, delay),
                            fired |-> {}, left |-> FALSE]
  OBVIOUS
<1>6. PICK n : n = Len(timerLog) + 1
  OBVIOUS
<1>7. PICK last : last = Len(order) + 1
  OBVIOUS
<1>8. /\ timerLog \in Seq(TimerEntries) /\ Len(timerLog) \in Nat /\ DOMAIN timerLog = 1..Len(timerLog)
      /\ order \in Seq(TimerHandles) /\ Len(order) \in Nat /\ DOMAIN order = 1..Len(order)
  BY TimerTypes DEF TimerInvariant, TimerBase
<1>9. handle \in TimerHandles
  BY <1>4, TimerTypes, SlotsAre DEF TimerHandles, TimerInvariant
<1>10. /\ DOMAIN timerLog' = DOMAIN timerLog \cup {n} /\ timerLog'[n] = entry
       /\ \A s \in DOMAIN timerLog : timerLog'[s] = timerLog[s]
  <2>1. timerLog' = Append(timerLog, entry)
    BY <1>3, <1>4, <1>5
  <2>2. timerLog \in Seq(TimerEntries \cup {entry}) /\ entry \in TimerEntries \cup {entry}
    BY <1>8
  <2> QED
    BY <1>6, <2>1, <2>2, EntryAdded
<1>11. /\ DOMAIN order' = DOMAIN order \cup {last} /\ order'[last] = handle
       /\ Len(order') = Len(order) + 1
       /\ \A p \in DOMAIN order : order'[p] = order[p]
  <2>1. order' = Append(order, handle)
    BY <1>3, <1>4
  <2>2. order \in Seq(TimerHandles)
    BY <1>8
  <2> HIDE DEF order
  <2> QED
    BY <1>7, <1>9, <2>1, <2>2, EntryAdded
<1>12. CompactInsertionOrder = order /\ CompactInsertionOrder' = order'
  BY <1>1, <1>2 DEF TimersMapped
<1>13. /\ Entered \in Seq(Schedules) /\ Len(Entered) = Len(order)
       /\ \A p \in DOMAIN order : IsLiveTimer(order[p]) /\ Entered[p] = timers[order[p].index].callback
  BY <1>1, <1>12 DEF TimersMapped, AreCallbacks
<1>14. PICK e : e = Entered'
  OBVIOUS
<1>15. /\ e \in Seq(Schedules) /\ Len(e) = Len(order')
       /\ \A p \in DOMAIN order' :
            /\ order'[p] \in TimerHandles
            /\ timers'[order'[p].index].active
            /\ timers'[order'[p].index].generation = order'[p].generation
            /\ e[p] = timers'[order'[p].index].callback
  <2>1. AreCallbacks(Entered, CompactInsertionOrder)'
    BY <1>1 DEF TimersMapped
  <2> QED
    BY <1>12, <1>14, <2>1 DEF AreCallbacks, IsLiveTimer
<1>16. e[last] = n /\ n \in Schedules
  <2>1. IsLiveTimer(handle)' /\ e[last] = timers'[handle.index].callback
    BY <1>11, <1>15 DEF IsLiveTimer
  <2>2. n \in DOMAIN timerLog' /\ timerLog'[n].handle = handle
    BY <1>5, <1>6, <1>8, <1>10
  <2> QED
    BY <1>1, <2>1, <2>2 DEF TimersMapped, LiveNamed
<1>17. ASSUME NEW p \in DOMAIN order PROVE e[p] = Entered[p]
  <2>1. PICK g : g = order[p]
    OBVIOUS
  <2>2. IsLiveTimer(g) /\ Entered[p] = timers[g.index].callback
    BY <1>13, <2>1
  <2>3. IsLiveTimer(g)' /\ e[p] = timers'[g.index].callback
    BY <1>11, <1>15, <2>1 DEF IsLiveTimer
  <2>4. \A s \in DOMAIN timerLog :
            s \in DOMAIN timerLog' /\ timerLog'[s].handle = timerLog[s].handle
    BY <1>10
  <2> QED
    BY <1>1, <2>2, <2>3, <2>4, CallbackStays
<1>18. PICK t \in Seq(Schedules) : t = Entered /\ Len(t) = Len(order)
  BY <1>13
<1>19. e = Append(t, n)
  <2>1. PICK w : w = Append(t, n)
    OBVIOUS
  <2>2. /\ w \in Seq(Schedules) /\ Len(w) = Len(t) + 1 /\ w[Len(t) + 1] = n
        /\ \A p \in DOMAIN t : w[p] = t[p]
    BY <1>16, <2>1, EntryAdded
  <2>3. Len(e) = Len(w) /\ DOMAIN t = DOMAIN order
    BY <1>8, <1>11, <1>15, <1>18, <2>2
  <2>4. ASSUME NEW p \in 1..Len(e) PROVE e[p] = w[p]
    <3>1. p \in DOMAIN order \/ p = last
      BY <1>7, <1>8, <1>11, <1>15, <2>4
    <3> QED
      BY <1>7, <1>16, <1>17, <1>18, <2>2, <2>3, <3>1
  <2> QED
    BY <1>15, <2>1, <2>2, <2>3, <2>4, SeqEqual
<1>20. ~Contains(t, n)
  <2> SUFFICES ASSUME NEW p \in 1..Len(t), t[p] = n PROVE FALSE
    BY DEF Contains
  <2>1. p \in DOMAIN order
    BY <1>8, <1>18
  <2>2. IsLiveTimer(order[p]) /\ n = timers[order[p].index].callback
    BY <1>13, <1>18, <2>1
  <2>3. n \in DOMAIN timerLog
    BY <1>1, <2>2 DEF TimersMapped, LiveNamed
  <2> QED
    BY <1>6, <1>8, <2>3
<1>21. Ahead' = Ahead /\ InTimer' = InTimer
  BY <1>1, <1>2 DEF TimersMapped
<1>22. TimerList!Enter(n)
  <2>1. ~TimerList!Contains(Entered, n)
    BY <1>18, <1>20, InTheSameWords
  <2>2. Entered' = Append(Entered, n)
    BY <1>14, <1>18, <1>19
  <2> QED
    BY <1>2, <1>21, <2>1, <2>2 DEF TimerList!Enter, Entered, Ahead, InTimer
<1> QED
  BY <1>16, <1>22

LEMMA CancelTakesOut ==
    ASSUME TimerInvariant, NEW h \in TimerHandles, Cancel(h)
    PROVE  \E c \in Schedules : TimerList!TakeOut(c)
<1>1. TimersMapped /\ TimersMapped'
  BY TimersAreMapped, TimersStayMapped, CancelKeeps
<1>2. /\ ~bDispatchActive /\ ~bDispatchActive' /\ bDispatchActive' = bDispatchActive
      /\ IsLiveTimer(h) /\ insertionOrder' = Without(insertionOrder, h)
  BY DEF Cancel
<1>3. CompactInsertionOrder = insertionOrder /\ CompactInsertionOrder' = insertionOrder'
  BY <1>1, <1>2 DEF TimersMapped
<1>4. \A s \in DOMAIN timerLog :
            s \in DOMAIN timerLog' /\ timerLog'[s].handle = timerLog[s].handle
  BY <1>2, TimerEnds DEF Cancel
<1>5. PICK c \in Schedules : c = timers[h.index].callback
  BY <1>1, <1>2 DEF TimersMapped, LiveNamed
<1>6. Entered' = Without(Entered, c)
  BY <1>1, <1>2, <1>3, <1>4, <1>5, HandleOut
<1>7. Contains(Entered, c)
  <2>1. PICK k \in 1..Len(CompactInsertionOrder) : CompactInsertionOrder[k] = h
    BY <1>1, <1>2 DEF TimersMapped, Contains
  <2> QED
    BY <1>1, <1>5, <2>1 DEF TimersMapped, AreCallbacks, Contains
<1>8. Ahead' = Ahead /\ InTimer' = InTimer
  BY <1>1, <1>2 DEF TimersMapped
<1>9. TimerList!TakeOut(c)
  <2>1. TimerList!Contains(Entered, c) /\ Entered' = TimerList!Without(Entered, c)
    BY <1>6, <1>7, InTheSameWords
  <2> QED
    BY <1>2, <1>8, <2>1 DEF TimerList!TakeOut, Entered, Ahead, InTimer
<1> QED
  BY <1>9

(* What the table holds depends on its slots and its order only. *)
LEMMA EnteredStay ==
    ASSUME UNCHANGED <<timers, insertionOrder>>
    PROVE  Entered' = Entered /\ \A h : timers'[h.index].callback = timers[h.index].callback
  BY DEF Entered, CallbacksOf, CompactInsertionOrder, LiveTimers, IsLiveTimer

LEMMA AdvanceWalks ==
    ASSUME TimerInvariant, TimerInvariant',
           (\E now \in Times : BeginAdvance(now)) \/ SkipTimer \/ FireTimer \/ EndAdvance
    PROVE  TimerList!Next
<1>1. TimersMapped /\ TimersMapped'
  BY TimersAreMapped, TimersStayMapped
<1>2. CASE \E now \in Times : BeginAdvance(now)
  <2>1. /\ ~bDispatchActive /\ bDispatchActive' = TRUE /\ dispatchSnapshot' = insertionOrder
        /\ UNCHANGED <<timers, insertionOrder, firing>>
    BY <1>2 DEF BeginAdvance
  <2>2. Entered' = Entered /\ InTimer' = InTimer
    BY <2>1, EnteredStay DEF InTimer
  <2>3. Ahead' = Entered
    BY <1>1, <2>1 DEF TimersMapped, Ahead, Entered, CallbacksOf
  <2>4. TimerList!BeginWalk
    BY <2>1, <2>2, <2>3 DEF TimerList!BeginWalk, Entered, Ahead, InTimer
  <2> QED
    BY <2>4 DEF TimerList!Next
<1>3. CASE SkipTimer \/ FireTimer
  <2>1. /\ bDispatchActive /\ bDispatchActive' = bDispatchActive /\ firing = NoTimer
        /\ dispatchSnapshot # <<>> /\ dispatchSnapshot' = Tail(dispatchSnapshot)
        /\ UNCHANGED <<timers, insertionOrder>>
    BY <1>3 DEF SkipTimer, FireTimer
  <2>2. Entered' = Entered /\ InTimer = 0
    BY <2>1, EnteredStay DEF InTimer
  <2>3. PICK d \in Seq(TimerHandles) : d = dispatchSnapshot /\ d # <<>>
    BY <1>1, <2>1 DEF TimersMapped, AreCallbacks
  <2>4. PICK t : t = Ahead
    OBVIOUS
  <2>5. /\ t \in Seq(Schedules) /\ Len(t) = Len(d) /\ DOMAIN d = 1..Len(d) /\ Len(d) \in Nat
        /\ \A p \in DOMAIN d : t[p] = timers[d[p].index].callback
    BY <1>1, <2>3, <2>4 DEF TimersMapped, AreCallbacks
  <2>6. /\ Tail(d) \in Seq(TimerHandles) /\ Head(d) = d[1] /\ 1 \in DOMAIN d
        /\ Len(Tail(d)) = Len(d) - 1
        /\ \A j \in 1..Len(Tail(d)) : j + 1 \in DOMAIN d /\ Tail(d)[j] = d[j + 1]
    BY <2>3, EntryTaken
  <2>7. t # <<>>
    BY <2>3, <2>5, <2>6
  <2>8. /\ Tail(t) \in Seq(Schedules) /\ Head(t) = t[1]
        /\ Len(Tail(t)) = Len(t) - 1
        /\ \A j \in 1..Len(Tail(t)) : Tail(t)[j] = t[j + 1]
    BY <2>5, <2>7, EntryTaken
  <2>9. PICK u : u = Ahead'
    OBVIOUS
  <2>10. /\ u \in Seq(Schedules) /\ Len(u) = Len(Tail(d)) /\ DOMAIN Tail(d) = 1..Len(Tail(d))
         /\ \A p \in DOMAIN Tail(d) : u[p] = timers[Tail(d)[p].index].callback
    <3>1. AreCallbacks(Ahead, dispatchSnapshot)'
      BY <1>1 DEF TimersMapped
    <3> QED
      BY <2>1, <2>3, <2>9, <3>1 DEF AreCallbacks
  <2>11. u = Tail(t)
    <3>1. \A j \in 1..Len(u) : u[j] = Tail(t)[j]
      BY <2>5, <2>6, <2>8, <2>10
    <3> QED
      BY <2>5, <2>6, <2>8, <2>10, <3>1, SeqEqual
  <2>12. Ahead # <<>> /\ Ahead' = Tail(Ahead) /\ Head(Ahead) = timers[Head(d).index].callback
    BY <2>4, <2>5, <2>6, <2>7, <2>8, <2>9, <2>11
  <2>13. CASE SkipTimer
    <3>1. InTimer' = InTimer
      BY <2>1, <2>13 DEF SkipTimer, InTimer
    <3>2. TimerList!PassOver
      BY <2>1, <2>2, <2>12, <3>1 DEF TimerList!PassOver, Entered, Ahead, InTimer
    <3> QED
      BY <3>2 DEF TimerList!Next
  <2>14. CASE FireTimer
    <3>1. firing' = Head(d) /\ firing' \in TimerHandles /\ firing' # NoTimer
      <4>1. firing' = Head(d) /\ Head(d) \in TimerHandles
        BY <2>3, <2>6, <2>14, EntriesOf DEF FireTimer
      <4> QED
        BY <4>1, HandlesAre DEF NoTimer
    <3>2. InTimer' = Head(Ahead)
      BY <2>1, <2>12, <3>1 DEF InTimer
    <3>3. TimerList!Call
      BY <2>1, <2>2, <2>12, <3>2 DEF TimerList!Call, Entered, Ahead, InTimer
    <3> QED
      BY <3>3 DEF TimerList!Next
  <2> QED
    BY <1>3, <2>13, <2>14
<1>4. CASE EndAdvance
  <2>1. /\ bDispatchActive /\ bDispatchActive' = FALSE /\ ~bDispatchActive' /\ firing = NoTimer
        /\ dispatchSnapshot = <<>> /\ insertionOrder' = CompactInsertionOrder
        /\ UNCHANGED <<timers, firing, dispatchSnapshot>>
    BY <1>4 DEF EndAdvance
  <2>2. InTimer = 0 /\ InTimer' = 0
    BY <2>1 DEF InTimer
  <2>3. Ahead' = <<>> /\ Ahead = <<>>
    BY <2>1 DEF Ahead, CallbacksOf
  <2>4. CompactInsertionOrder' = CompactInsertionOrder
    BY <1>1, <2>1 DEF TimersMapped
  <2>5. Entered' = Entered
    BY <2>1, <2>4 DEF Entered, CallbacksOf
  <2>6. TimerList!EndWalk
    BY <2>1, <2>2, <2>3, <2>5 DEF TimerList!EndWalk, Entered, Ahead, InTimer
  <2> QED
    BY <2>6 DEF TimerList!Next
<1> QED
  BY <1>2, <1>3, <1>4

(* A callback that returns may have been the last of its schedule. *)
LEMMA CallbackReturnsToWalk ==
    ASSUME TimerInvariant, TimerInvariant', TimerReturns
    PROVE  TimerList!Return
<1>1. TimersMapped /\ TimersMapped'
  BY TimersAreMapped, TimersStayMapped
<1>2. PICK h : h = firing /\ IsLiveTimer(h)
  BY DEF TimerInvariant, SnapshotSound, TimerReturns
<1>3. /\ firing # NoTimer /\ firing' = NoTimer /\ bDispatchActive' = bDispatchActive
      /\ insertionOrder' = insertionOrder /\ dispatchSnapshot' = dispatchSnapshot
  BY DEF TimerReturns
<1>4. /\ h \in TimerHandles /\ h.index \in TimerSlots
      /\ \A g \in TimerHandles : g.index \in TimerSlots
  BY <1>2, LiveSchedule, HandlesAre
<1>5. PICK c \in Schedules : c = timers[h.index].callback
  BY <1>1, <1>2 DEF TimersMapped, LiveNamed
<1>6. InTimer = c /\ InTimer # 0 /\ InTimer' = 0
  BY <1>1, <1>2, <1>3, <1>5 DEF TimersMapped, InTimer
<1>7. /\ timers \in [TimerSlots -> FTimerSlot]
      /\ \A i \in TimerSlots : i # h.index => timers'[i] = timers[i]
  BY <1>2, <1>3 DEF TimerReturns, TimerInvariant, TimerBase
<1>8. Ahead' = Ahead
  <2>1. \A p \in DOMAIN dispatchSnapshot : dispatchSnapshot[p].index \in TimerSlots
                                           /\ dispatchSnapshot[p].index # h.index
    BY <1>2, <1>4, TimerTypes DEF TimerInvariant, SnapshotSound
  <2> QED
    BY <1>3, <1>7, <2>1 DEF Ahead, CallbacksOf
<1>9. Entered' = Entered \/ Entered' = Without(Entered, c)
  <2>1. CASE timers[firing.index].mode = "OneShot"
    <3>1. /\ \A s \in DOMAIN timerLog :
                s \in DOMAIN timerLog' /\ timerLog'[s].handle = timerLog[s].handle
          /\ ~timers'[h.index].active
          /\ \A g \in TimerHandles : g.index # h.index => (IsLiveTimer(g)' <=> IsLiveTimer(g))
      <4>1. /\ timers' = [timers EXCEPT ![h.index] = Vacated(@)]
            /\ timerLog' = [timerLog EXCEPT ![ScheduleOf(h)] = Over(@)]
        BY <1>2, <2>1 DEF TimerReturns
      <4> QED
        BY <1>2, <4>1, TimerEnds
    <3>2. \A g \in TimerHandles : IsLiveTimer(g)' <=> IsLiveTimer(g) /\ g # h
      <4> SUFFICES ASSUME NEW g \in TimerHandles PROVE IsLiveTimer(g)' <=> IsLiveTimer(g) /\ g # h
        OBVIOUS
      <4>1. CASE g.index # h.index
        BY <3>1, <4>1
      <4>2. CASE g.index = h.index
        <5>1. ~IsLiveTimer(g)'
          BY <3>1, <4>2 DEF IsLiveTimer
        <5>2. IsLiveTimer(g) => g = h
          BY <1>2, <1>4, <4>2, HandlesAre DEF IsLiveTimer
        <5> QED
          BY <5>1, <5>2
      <4> QED
        BY <4>1, <4>2
    <3>3. PICK order \in Seq(TimerHandles) : order = insertionOrder /\ order = insertionOrder'
      BY <1>1, <1>3 DEF TimersMapped
    <3>4. PICK w \in Seq(TimerHandles) : w = Kept(order, LiveTimers)
      BY <3>3, KeptIs
    <3>5. PICK others : others = {w[k] : k \in 1..Len(w)} \ {h}
      OBVIOUS
    <3>6. PICK live : live = LiveTimers'
      OBVIOUS
    <3>7. \A g \in TimerHandles : /\ g \in LiveTimers <=> IsLiveTimer(g)
                                  /\ g \in live <=> IsLiveTimer(g)'
      BY <3>6 DEF LiveTimers
    <3>8. \A p \in 1..Len(order) : order[p] \in live <=> order[p] \in LiveTimers \cap others
      <4> SUFFICES ASSUME NEW p \in 1..Len(order)
                   PROVE  order[p] \in live <=> order[p] \in LiveTimers \cap others
        OBVIOUS
      <4>1. order[p] \in TimerHandles
        OBVIOUS
      <4>2. order[p] \in LiveTimers => order[p] \in {w[k] : k \in 1..Len(w)}
        <5> SUFFICES ASSUME order[p] \in LiveTimers PROVE \E k \in 1..Len(w) : w[k] = order[p]
          OBVIOUS
        <5>1. /\ \A k \in 1..Len(w) : w[k] = order[PlaceOf(order, LiveTimers, k)]
              /\ \A i \in 1..Len(order) : order[i] \in LiveTimers =>
                    \E k \in 1..Len(w) : PlaceOf(order, LiveTimers, k) = i
          BY <3>4, KeptIs
        <5> QED
          BY <5>1
      <4> QED
        BY <3>2, <3>5, <3>7, <4>1, <4>2
    <3>9. Kept(order, live) = Kept(order, LiveTimers \cap others)
      BY <3>8, KeptSame
    <3>10. Kept(w, others) = Kept(order, LiveTimers \cap others)
      BY <3>4, KeptTwice
    <3>11. Without(w, h) = Kept(w, others)
      BY <3>5 DEF Without
    <3>12. CompactInsertionOrder = w /\ CompactInsertionOrder' = Kept(order, live)
      BY <3>3, <3>4, <3>6 DEF CompactInsertionOrder
    <3>13. CompactInsertionOrder' = Without(CompactInsertionOrder, h)
      BY <3>9, <3>10, <3>11, <3>12
    <3> QED
      BY <1>1, <1>2, <1>5, <3>1, <3>13, HandleOut
  <2>2. CASE timers[firing.index].mode # "OneShot"
    <3>1. \A i \in TimerSlots :
            /\ timers'[i].active = timers[i].active
            /\ timers'[i].generation = timers[i].generation
            /\ timers'[i].callback = timers[i].callback
      BY <2>2, LoopingReturns
    <3>2. \A g \in TimerHandles : IsLiveTimer(g)' <=> IsLiveTimer(g)
      BY <1>4, <3>1 DEF IsLiveTimer
    <3>3. LiveTimers' = LiveTimers
      BY <3>2 DEF LiveTimers
    <3>4. CompactInsertionOrder' = CompactInsertionOrder
      BY <1>3, <3>3 DEF CompactInsertionOrder
    <3>5. \A p \in DOMAIN CompactInsertionOrder : CompactInsertionOrder[p].index \in TimerSlots
      BY <1>1, <1>4 DEF TimersMapped, AreCallbacks
    <3>6. Entered' = Entered
      BY <3>1, <3>4, <3>5 DEF Entered, CallbacksOf
    <3> QED
      BY <3>6
  <2> QED
    BY <2>1, <2>2
<1>10. Entered' \in {Entered} \cup (IF TRUE THEN {TimerList!Without(Entered, InTimer)} ELSE {})
  BY <1>6, <1>9, InTheSameWords
<1> QED
  BY <1>3, <1>6, <1>8, <1>10 DEF TimerList!Return, Entered, Ahead, InTimer

(***************************************************************************)
(* Advance meets the timers that were scheduled when it began, in that     *)
(* order, only a cancellation or its own last firing takes a timer out,    *)
(* and all of them fire on time (TTimerManager::Advance): TimerManager     *)
(* implements CallbackList, for every number of slots and generations,     *)
(* every end of time and every set of delays.                              *)
(***************************************************************************)
THEOREM TimersKeepTheirTurn == Spec => TimersFireInTurn
<1>1. CallbacksInvariant /\ Init => TimerList!Init
  <2> SUFFICES ASSUME CallbacksInvariant, Init PROVE TimerList!Init
    OBVIOUS
  <2>1. insertionOrder = <<>> /\ ~bDispatchActive /\ bDispatchActive = FALSE
    BY DEF Init, TimerInit
  <2>2. TimersMapped
    BY TimersAreMapped DEF CallbacksInvariant
  <2>3. Ahead = <<>> /\ InTimer = 0 /\ CompactInsertionOrder = <<>>
    BY <2>1, <2>2 DEF TimersMapped
  <2>4. Entered = <<>>
    BY <2>3 DEF Entered, CallbacksOf
  <2> QED
    BY <2>1, <2>3, <2>4 DEF TimerList!Init, Entered, Ahead, InTimer
<1>2. CallbacksInvariant /\ CallbacksInvariant' /\ [Next]_vars => [TimerList!Next]_(TimerList!vars)
  <2> SUFFICES ASSUME CallbacksInvariant, CallbacksInvariant', [Next]_vars
               PROVE  [TimerList!Next]_(TimerList!vars)
    OBVIOUS
  <2>1. TimerInvariant /\ TimerInvariant' /\ [TimerAction]_timerVars
    BY OneTableAtATime DEF CallbacksInvariant
  <2>2. ASSUME NEW delay \in Delays, NEW mode \in Modes, Schedule(delay, mode) PROVE TimerList!Next
    BY <2>1, <2>2, ScheduleEnters DEF TimerList!Next
  <2>3. ASSUME NEW h \in TimerHandles, Cancel(h) PROVE TimerList!Next
    BY <2>1, <2>3, CancelTakesOut DEF TimerList!Next
  <2>4. CASE (\E now \in Times : BeginAdvance(now)) \/ SkipTimer \/ FireTimer \/ EndAdvance
    BY <2>1, <2>4, AdvanceWalks
  <2>5. CASE TimerReturns
    BY <2>1, <2>5, CallbackReturnsToWalk DEF TimerList!Next
  <2>6. CASE UNCHANGED timerVars
    <3>1. UNCHANGED <<Entered, bDispatchActive, Ahead, InTimer>>
      BY <2>6, EnteredStay DEF timerVars, Ahead, InTimer, CallbacksOf
    <3> QED
      BY <3>1 DEF TimerList!vars, Entered, Ahead, InTimer
  <2> QED
    BY <2>1, <2>2, <2>3, <2>4, <2>5, <2>6 DEF TimerAction
<1> QED
  BY <1>1, <1>2, CallbacksStaySound, TimersFireOnTime, PTL DEF Spec, TimersFireInTurn, TimerList!Spec
=============================================================================
