------------------------------ MODULE HubClock ------------------------------
(***************************************************************************)
(* VitoClock on the hub: system-time sync.  The clock is an entity that is  *)
(* not polled; each hub tick it may start a chain of its own, read ->       *)
(* compare -> write -> verify, through the ordinary lanes, and it starts no *)
(* other while one is under way.  Every step here is a step of Hub, so what *)
(* Hub guarantees of its entities the clock has too.                       *)
(*                                                                         *)
(* Whether a deadline has passed, and by how much the device clock is off,  *)
(* is left open.                                                           *)
(***************************************************************************)
EXTENDS Hub

CONSTANTS
  Clock,       \* the entity that is the clock
  SyncOnBoot,  \* sync_on_boot_
  Periodic,    \* interval_ms_ # 0
  TrueTime,    \* what the time source says once it has synced since boot
  StaleTime    \* what it may say before: valid, and wrong

ASSUME ClockAssumption ==
  /\ Clock \in (Writable \cap ReadBack) \ (Polled \cup Rmw)
  /\ ReadReg[Clock] = WriteReg[Clock]
  /\ {<<"read", ReadReg[Clock]>>, <<"write", ReadReg[Clock]>>} \cap Refused = {}
  /\ SyncOnBoot \in BOOLEAN /\ Periodic \in BOOLEAN
  /\ TrueTime \in Values /\ StaleTime \in Values

VARIABLES
  phase,    \* phase_
  synced,   \* source_synced_
  didBoot   \* did_boot_

clock == <<phase, synced, didBoot>>
clockVars == <<vars, clock>>

ClockInit ==
  /\ Init
  /\ phase = "IDLE" /\ synced = FALSE /\ didBoot = FALSE

SourceTime == IF synced THEN TrueTime ELSE StaleTime

\* What the lanes and the slot hold for the clock.
ReadPending == Clock \in readQueued
WritePending == Clock \in writeQueued \cup writeInFlight

----------------------------------------------------------------------------
\* The time source's callback: it has synced since boot, and stays so.
TimeSync ==
  /\ ~synced
  /\ synced' = TRUE
  /\ UNCHANGED <<vars, phase, didBoot>>

\* tick(): the first sync waits for the source to sync; the others for their
\* deadline.  A source whose time is not valid starts nothing.
BootTickUnsynced == ~didBoot
BootTick == ~didBoot /\ synced

StartChain ==
  /\ phase = "IDLE"
  /\ (BootTick /\ SyncOnBoot) \/ (didBoot /\ Periodic)
  /\ PriorityRead(Clock)
  /\ phase' = "READING" /\ didBoot' = TRUE
  /\ UNCHANGED synced

SkipBoot ==
  /\ phase = "IDLE" /\ BootTick /\ ~SyncOnBoot
  /\ didBoot' = TRUE
  /\ UNCHANGED <<vars, phase, synced>>

\* handle_response() of the answer that starts the comparison: the drift exceeds
\* the threshold, or the device time cannot be read.
ComparesAgain == phase \in {"READING", "VERIFYING"}
Compares == phase = "READING"

ClockDrifted ==
  /\ Compares
  /\ EndRead(Clock) /\ Answered /\ Stage(Clock, SourceTime)
  /\ phase' = "WRITING"
  /\ UNCHANGED <<synced, didBoot>>

\* handle_response() otherwise: in time, the source or the encoding failed, the
\* read-back of a write, or an answer nobody waits for.
ClockAnswered ==
  /\ EndRead(Clock) /\ Answered /\ NoRequest
  /\ phase' = IF phase = "WRITING" THEN "WRITING" ELSE "IDLE"
  /\ UNCHANGED <<synced, didBoot>>

\* handle_error() and handle_write_error().
AbortedUnlessVerifying == IF phase = "VERIFYING" THEN "VERIFYING" ELSE "IDLE"
Aborted == "IDLE"

ClockReadFailed ==
  /\ ReadFailed(Clock)
  /\ phase' = Aborted
  /\ UNCHANGED <<synced, didBoot>>

ClockWriteFailed ==
  /\ WriteFailed(Clock)
  /\ phase' = Aborted
  /\ UNCHANGED <<synced, didBoot>>

\* handle_write_response(), before the hub queues the read-back.
ClockWritten ==
  /\ WriteAcked(Clock)
  /\ phase' = "VERIFYING"
  /\ UNCHANGED <<synced, didBoot>>

ClockCallback ==
  \/ ClockDrifted \/ ClockAnswered \/ ClockReadFailed
  \/ ClockWritten \/ ClockWriteFailed

\* Everything else the hub does neither starts nor ends a request of the clock.
OfOthers(A) ==
  /\ A
  /\ ReadPending' = ReadPending /\ WritePending' = WritePending
  /\ Clock \in writeQueued' => Clock \in writeQueued
  /\ staged'[Clock] = staged[Clock]
  /\ UNCHANGED clock

ClockNext ==
  \/ OfOthers(Next)
  \/ TimeSync \/ StartChain \/ SkipBoot
  \/ ClockCallback

ClockSpec == ClockInit /\ [][ClockNext]_clockVars

ClockFairSpec ==
  /\ ClockSpec
  /\ WF_clockVars(OfOthers(Dispatch))
  /\ WF_clockVars(OfOthers(CallBack) \/ (ClockCallback /\ bus' = IdleBus))

----------------------------------------------------------------------------
\* Every variable of the clock holds a value of its type.
ClockTypeOK ==
  /\ phase \in {"IDLE", "READING", "WRITING", "VERIFYING"}
  /\ synced \in BOOLEAN /\ didBoot \in BOOLEAN

\* The clock's phase and the hub agree: a phase other than IDLE has exactly the
\* request pending whose completion will end it, and IDLE has none.  Otherwise the
\* clock would wait for a callback that never comes (nothing else queues it, and
\* tick() starts nothing), or two chains would run at once.
PhaseMatchesHub ==
  /\ ReadPending = (phase \in {"READING", "VERIFYING"})
  /\ WritePending = (phase = "WRITING")

\* The controller's clock is never set from a source that has not synced since
\* boot, though its time looked valid: what is queued, on the bus or merged for
\* the clock is the true time.
NoStaleTime ==
  /\ WritePending => staged[Clock] = TrueTime
  /\ bus.from = Clock /\ bus.op = "write" => \A f \in Fields : bus.block[f] = TrueTime

\* A chain ends, on every path: once the scan console is quiet and so are the
\* controls of other entities.
ChainEnds ==
  <>[](rawQueue = <<>> /\ ToSet(writeQueue) \subseteq {Clock})
    => (phase # "IDLE" ~> phase = "IDLE")
=============================================================================
