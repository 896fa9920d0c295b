------------------------------ MODULE WifiLink ------------------------------
(***************************************************************************)
(* FEsp32WifiLink: a program brings the radio up before it drives a device *)
(* over it, as an access point or as a station that waits, for a bounded   *)
(* number of slices, until the event loop has announced a lease.  The      *)
(* event loop is another task: it runs between any two steps of the join,  *)
(* and goes on when the join has given up.  Programs call a link that is   *)
(* down, and may try again.                                                *)
(***************************************************************************)
EXTENDS Naturals

CONSTANTS
    JoinSlices,  \* slices of ConnectTimeoutMilliseconds
    MaxStarts    \* bound on the calls that bring the link up

VARIABLES
    bIsUp,
    bGotStationIpAddress,  \* GGotStationIpAddress, which the event loop sets
    join,                  \* JoinAccessPoint: where the call is
    slices,                \* slices it has waited
    radio,                 \* the driver and the access point it talks to
    starts,
    leased                 \* history: a lease was announced since the station was started

wifiVars == <<bIsUp, bGotStationIpAddress, join, slices, radio, starts, leased>>

WifiInit ==
    /\ bIsUp = FALSE /\ bGotStationIpAddress = FALSE
    /\ join = "none" /\ slices = 0 /\ starts = 0
    /\ radio = "off" /\ leased = FALSE

MayStart ==
    /\ ~bIsUp /\ join = "none" /\ starts < MaxStarts
    /\ starts' = starts + 1

\* A step of the bring-up fails: Unavailable.
FailToStart ==
    MayStart /\ UNCHANGED <<bIsUp, bGotStationIpAddress, join, slices, radio, leased>>

StartAccessPoint ==
    /\ MayStart
    /\ radio' = "hosting" /\ bIsUp' = TRUE
    /\ UNCHANGED <<bGotStationIpAddress, join, slices, leased>>

\* esp_wifi_start, for a driver that an earlier join may have left running.
StartStation ==
    /\ MayStart
    /\ radio' \in {"starting"} \union ({radio} \ {"off", "hosting"})
    /\ join' = "started" /\ leased' = FALSE
    /\ UNCHANGED <<bIsUp, bGotStationIpAddress, slices>>

\* Mutant of BeginWait: the wait trusts what an earlier join has left behind.
BeginWaitWithOldFlag ==
    /\ join = "started" /\ join' = "waiting" /\ slices' = 0
    /\ UNCHANGED <<bIsUp, bGotStationIpAddress, radio, starts, leased>>

BeginWait ==
    /\ join = "started" /\ join' = "waiting" /\ slices' = 0
    /\ bGotStationIpAddress' = FALSE
    /\ UNCHANGED <<bIsUp, radio, starts, leased>>

WaitSlice ==
    /\ join = "waiting" /\ ~bGotStationIpAddress /\ slices < JoinSlices
    /\ slices' = slices + 1
    /\ UNCHANGED <<bIsUp, bGotStationIpAddress, join, radio, starts, leased>>

\* The flag is read once more after the loop has ended.
EndJoin ==
    /\ join = "waiting"
    /\ bGotStationIpAddress \/ slices = JoinSlices
    /\ join' = "none" /\ slices' = 0
    /\ bIsUp' = bGotStationIpAddress
    /\ UNCHANGED <<bGotStationIpAddress, radio, starts, leased>>

Stop ==
    /\ bIsUp
    /\ bIsUp' = FALSE /\ radio' = "off"
    /\ UNCHANGED <<bGotStationIpAddress, join, slices, starts, leased>>

\* OnStationEvent: connect when the station has started and whenever it has been
\* disconnected, and latch the lease.
OnStationEvent ==
    /\ \/ /\ radio \in {"starting", "associated"}
          /\ radio' = "connecting"
          /\ UNCHANGED <<bGotStationIpAddress, leased>>
       \/ /\ radio = "connecting"
          /\ radio' = "associated"
          /\ bGotStationIpAddress' = TRUE
          /\ leased' = TRUE
    /\ UNCHANGED <<bIsUp, join, slices, starts>>

WifiNext ==
    \/ FailToStart \/ StartAccessPoint \/ StartStation \/ BeginWait \/ WaitSlice \/ EndJoin
    \/ Stop \/ OnStationEvent

(***************************************************************************)
(* A link that is up is served: its radio runs, and a station's has been   *)
(* given a lease since this join started it, not in an earlier life.       *)
(***************************************************************************)
LinkUpIsServed ==
    bIsUp => \/ radio = "hosting"
             \/ radio # "off" /\ leased
=============================================================================
