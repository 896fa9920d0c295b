------------------------------ MODULE Callbacks -----------------------------
(***************************************************************************)
(* One timer manager and one multicast delegate on the same thread.  A     *)
(* timer's callback may broadcast, a binding may advance the timers, and   *)
(* either may register and unregister in the other while its own owner is  *)
(* locked.  The calls in progress are a stack: only the innermost runs.    *)
(*                                                                         *)
(* A tick function calls nobody: its dispatcher asks it for a decision.  A *)
(* behaviour is about the callbacks or about the ticks, for the two share  *)
(* nothing that could interfere.                                           *)
(***************************************************************************)
EXTENDS TimerManager, MulticastDelegate, TickFunction

VARIABLES
    dispatches,         \* those in progress, outermost first
    about               \* what the behaviour is about

vars == <<timerVars, bindingVars, tickVars, dispatches, about>>

Dispatches == {"Advance", "Broadcast"}

Running(d) == dispatches # <<>> /\ Last(dispatches) = d

(* User code runs outside every dispatch, or in the innermost callback. *)
InCallerCode ==
    \/ dispatches = <<>>
    \/ Running("Advance") /\ firing # NoTimer
    \/ Running("Broadcast") /\ inBinding

Init ==
    /\ TimerInit /\ BindingInit /\ TickInit
    /\ dispatches = <<>>
    /\ about \in {"callbacks", "ticks"}
    /\ about = "callbacks" => ~tick.bCanEverTick /\ tick.interval = 0

Enter(d) == dispatches' = Append(dispatches, d)
Leave == dispatches' = Front(dispatches)

TimerCall ==
    /\ InCallerCode
    /\ \/ (\E delay \in Delays, mode \in Modes : Schedule(delay, mode)) /\ UNCHANGED dispatches
       \/ (\E h \in TimerHandles : Cancel(h)) /\ UNCHANGED dispatches
       \/ (\E now \in Times : BeginAdvance(now)) /\ Enter("Advance")
    /\ UNCHANGED bindingVars

BindingCall ==
    /\ InCallerCode
    /\ \/ Add /\ UNCHANGED dispatches
       \/ (\E h \in BindingHandles : RemoveBinding(h)) /\ UNCHANGED dispatches
       \/ BeginBroadcast /\ Enter("Broadcast")
    /\ UNCHANGED timerVars

TimerStep ==
    /\ Running("Advance")
    /\ \/ (SkipTimer \/ FireTimer) /\ UNCHANGED dispatches
       \/ EndAdvance /\ Leave
    /\ UNCHANGED bindingVars

TimerCallbackReturns ==
    Running("Advance") /\ TimerReturns /\ UNCHANGED <<bindingVars, dispatches>>

BindingStep ==
    /\ Running("Broadcast")
    /\ \/ CallBinding /\ UNCHANGED dispatches
       \/ EndBroadcast /\ Leave
    /\ UNCHANGED timerVars

BindingCallbackReturns ==
    Running("Broadcast") /\ BindingReturns /\ UNCHANGED <<timerVars, dispatches>>

CallbackStep ==
    /\ about = "callbacks"
    /\ \/ TimerCall \/ BindingCall
       \/ TimerStep \/ TimerCallbackReturns
       \/ BindingStep \/ BindingCallbackReturns
    /\ UNCHANGED <<tickVars, about>>

TickStep ==
    /\ about = "ticks"
    /\ TickNext
    /\ UNCHANGED <<timerVars, bindingVars, dispatches, about>>

Next == CallbackStep \/ TickStep

(***************************************************************************)
(* Fairness: a dispatch loop goes on by itself, a callback returns in the  *)
(* end whatever it called on the way, and the owner keeps advancing the    *)
(* timers on a clock that does not stop.                                   *)
(***************************************************************************)
NextTick == IF lastAcceptedNow < MaxTime THEN lastAcceptedNow + 1 ELSE MaxTime

OwnerAdvances == dispatches = <<>> /\ BeginAdvance(NextTick) /\ Enter("Advance")

Fairness ==
    /\ WF_vars(TimerStep /\ CallbackStep) /\ WF_vars(BindingStep /\ CallbackStep)
    /\ SF_vars(TimerCallbackReturns /\ CallbackStep)
    /\ SF_vars(BindingCallbackReturns /\ CallbackStep)
    /\ SF_vars(OwnerAdvances /\ CallbackStep)

Spec == Init /\ [][Next]_vars
FairSpec == Spec /\ Fairness

-----------------------------------------------------------------------------
(* Each dispatch is on the stack at most once, and locked exactly while it is. *)
TypeOK ==
    /\ TimerTypeOK /\ BindingTypeOK /\ TickTypeOK
    /\ dispatches \in {<<>>} \cup {<<d>> : d \in Dispatches}
                 \cup {<<d, e>> : d \in Dispatches, e \in Dispatches}
    /\ Contains(dispatches, "Advance") <=> bDispatchActive
    /\ Contains(dispatches, "Broadcast") <=> bBroadcastActive

(***************************************************************************)
(* In both tables a handle names what it was given for and nothing else,   *)
(* for ever: a stale handle of a slot that was used again never reaches    *)
(* the new occupant.                                                       *)
(***************************************************************************)
HandlesNameTheirOwn == TimerHandlesNameTheirOwn /\ BindingHandlesNameTheirOwn

(* Both tables keep their types, and their handles to themselves. *)
TablesSound == TypeOK /\ HandlesNameTheirOwn

(***************************************************************************)
(* The timer manager keeps the promises of CallbackList: Advance meets the *)
(* timers that were scheduled when it began, in that order, and only a     *)
(* cancellation or its own last firing takes a timer out.  And it fires    *)
(* them on time.                                                           *)
(***************************************************************************)
CallbacksOf(handles) == [i \in DOMAIN handles |-> timers[handles[i].index].callback]

TimerList == INSTANCE CallbackList WITH
    Callbacks <- Schedules,
    NoCallback <- 0,
    Selective <- TRUE,
    entered <- CallbacksOf(CompactInsertionOrder),
    walking <- bDispatchActive,
    ahead <- CallbacksOf(dispatchSnapshot),
    running <- IF firing = NoTimer THEN 0 ELSE timers[firing.index].callback

TimersFireInTurn == TimerList!Spec /\ [][FiresOnTime]_timerVars

(***************************************************************************)
(* The multicast delegate keeps them too, and with nothing passed over: a  *)
(* broadcast calls every binding that was there when it began.             *)
(***************************************************************************)
BindingList == INSTANCE CallbackList WITH
    Callbacks <- Adds,
    NoCallback <- 0,
    Selective <- FALSE,
    entered <- [i \in DOMAIN broadcastOrder |-> BindingAt(i)],
    walking <- bBroadcastActive,
    ahead <- [i \in 1..((initialBindingCount + 1) - (orderIndex + IF inBinding THEN 1 ELSE 0)) |->
                BindingAt((orderIndex + IF inBinding THEN i ELSE i - 1))],
    running <- IF inBinding THEN BindingAt(orderIndex) ELSE 0

BroadcastReachesAll == BindingList!Spec

(***************************************************************************)
(* A one-shot timer fires or is cancelled, in the end, and gives its slot  *)
(* back; a looping one that is never cancelled fires.                      *)
(***************************************************************************)
Fired(s) == s \in DOMAIN timerLog /\ (timerLog[s].fired # {} \/ timerLog[s].left)

EveryTimerFires == \A s \in Schedules : (s \in DOMAIN timerLog) ~> Fired(s)
=============================================================================
