------------------------------ MODULE SpiLink ------------------------------
(***************************************************************************)
(* The two ends of the SPI link: FEsp32SpiMasterDevice, which clocks every *)
(* full-duplex transaction, and FEsp32SpiSlaveDevice, which keeps one      *)
(* transaction queued for the master to clock.  A window carries one whole *)
(* frame or nothing (Idle); the frame in it is named by its packet.  A     *)
(* master that clocks while the slave has no transaction queued sends its  *)
(* window to nobody and reads an idle one.                                 *)
(***************************************************************************)
EXTENDS Naturals, FiniteSets

CONSTANTS
    Idle,             \* a window with no frame in it, an empty stage, a decoder with no frame
    MaxQueueFailures  \* bound on the transactions the slave's driver refuses

VARIABLES
    masterHeld,     \* the frame the master's decoder holds
    slaveHeld,      \* the frame the slave's decoder holds
    staged,         \* the slave's StagedFrame while bFrameStaged
    slaveTransmit,  \* the slave's TransmitWindow
    slaveReceive,   \* the slave's ReceiveWindow
    transaction,    \* the slave's transaction: "none", "queued" for the master, or "clocked" by it
    queueFailures

spiVars == <<masterHeld, slaveHeld, staged, slaveTransmit, slaveReceive, transaction, queueFailures>>

\* The slave's constructor queues an idle transaction.
SpiInit ==
    /\ masterHeld = Idle
    /\ slaveHeld = Idle
    /\ staged = Idle
    /\ slaveTransmit = Idle
    /\ slaveReceive = Idle
    /\ transaction = "queued"
    /\ queueFailures = 0

(***************************************************************************)
(* The master.                                                             *)
(***************************************************************************)

Frames(window) == {window} \ {Idle}

\* What the master reads while it clocks its own window out.
ClockedIn == IF transaction = "queued" THEN slaveTransmit ELSE Idle

\* TransmitSpiMaster: the windows cross when the slave has a transaction queued.
Clock(window) ==
    IF transaction = "queued"
    THEN slaveReceive' = window /\ slaveTransmit' = Idle /\ transaction' = "clocked"
    ELSE UNCHANGED <<slaveReceive, slaveTransmit, transaction>>

\* Mutant of PumpWindow: a held frame is overwritten by the one just received.
PumpWindowOverHeld(window) == masterHeld' = IF window = Idle THEN masterHeld ELSE window

\* The received window is pumped only while the decoder holds no frame.
PumpWindow(window) == masterHeld' = IF masterHeld = Idle THEN window ELSE masterHeld

ExchangeAndPump(window) ==
    /\ Clock(window)
    /\ PumpWindow(ClockedIn)
    /\ UNCHANGED <<slaveHeld, staged, queueFailures>>

\* The frames an exchange loses: the master's own, when no transaction takes it,
\* and the slave's, when it is not pumped.
LostByExchange(window) ==
    (IF transaction = "queued" THEN {} ELSE Frames(window))
        \union (IF masterHeld = Idle THEN {} ELSE Frames(ClockedIn))

\* The driver may also time out before the transaction runs.
MasterTrySend(frame, result) ==
    \/ result = "Success" /\ ExchangeAndPump(frame)
    \/ result = "Full" /\ UNCHANGED spiVars

\* A held frame is delivered first if the destination has room; otherwise one
\* idle transaction is clocked, and the frame it brought is delivered likewise.
\* delivered is Idle when the call returns no frame.
MasterTryReceive(fits, delivered) ==
    LET frame == IF masterHeld = Idle THEN ClockedIn ELSE masterHeld
    IN /\ delivered = IF fits THEN frame ELSE Idle
       /\ masterHeld' = IF fits THEN Idle ELSE frame
       /\ IF masterHeld = Idle
          THEN Clock(Idle)
          ELSE UNCHANGED <<slaveReceive, slaveTransmit, transaction>>
       /\ UNCHANGED <<slaveHeld, staged, queueFailures>>

(***************************************************************************)
(* The slave.                                                              *)
(***************************************************************************)

\* QueueNextTransaction leaves the stage empty whether or not the driver
\* accepts the transaction; a refused one is filled anew by the next attempt.
QueueNextTransaction ==
    /\ slaveTransmit' = staged
    /\ staged' = Idle
    /\ \/ transaction' = "queued" /\ UNCHANGED queueFailures
       \/ /\ queueFailures < MaxQueueFailures
          /\ queueFailures' = queueFailures + 1
          /\ transaction' = "none"

\* The frame a refused transaction carried is overwritten.
Overwritten == IF transaction = "none" THEN Frames(slaveTransmit) ELSE {}

SlaveTrySend(frame, result) ==
    IF staged # Idle
    THEN result = "Full" /\ UNCHANGED spiVars
    ELSE /\ result = "Success"
         /\ staged' = frame
         /\ UNCHANGED <<masterHeld, slaveHeld, slaveTransmit, slaveReceive, transaction, queueFailures>>

\* PreAdvance, and a TryReceive with no frame held, make up for a transaction
\* the driver refused.
SlavePreAdvance ==
    /\ transaction = "none"
    /\ QueueNextTransaction
    /\ UNCHANGED <<masterHeld, slaveHeld, slaveReceive>>

SlaveDeliverHeld(fits, delivered) ==
    /\ fits
    /\ slaveHeld # Idle
    /\ delivered = slaveHeld
    /\ slaveHeld' = Idle
    /\ UNCHANGED <<masterHeld, staged, slaveTransmit, slaveReceive, transaction, queueFailures>>

\* TryReceive harvests a clocked transaction, pumps what it received, and
\* queues the next one before it delivers.
SlaveHarvest(fits, delivered) ==
    /\ slaveHeld = Idle
    /\ transaction = "clocked"
    /\ slaveReceive' = Idle
    /\ delivered = IF fits THEN slaveReceive ELSE Idle
    /\ slaveHeld' = IF fits THEN Idle ELSE slaveReceive
    /\ QueueNextTransaction
    /\ UNCHANGED masterHeld

SlaveTryReceive(fits, delivered) ==
    \/ SlaveDeliverHeld(fits, delivered)
    \/ SlaveHarvest(fits, delivered)

\* The frames under way in either direction.
FramesInFlight ==
    UNION {Frames(window) : window \in {staged, slaveTransmit, masterHeld, slaveReceive, slaveHeld}}
=============================================================================
