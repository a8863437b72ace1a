-------------------------------- MODULE Hub --------------------------------
(***************************************************************************)
(* The VitoHome hub: the arbiter that owns the half-duplex Optolink bus.   *)
(*                                                                         *)
(* Entities (configured datapoints) queue reads and writes in two lanes;   *)
(* a scan console queues raw operations in a third; start-up               *)
(* identification drives a short chain of reads of its own.  dispatch_next_ *)
(* hands one request at a time to the protocol engine, and the engine      *)
(* calls back with an answer or an error.  A control that owns only part   *)
(* of a register (a bit field, a field of a block) is written by reading   *)
(* the register, merging its field and writing the whole register back.    *)
(*                                                                         *)
(* The protocol engine is the single-slot promise every engine makes: busy *)
(* from accepting a request until it has called back once.  Time is        *)
(* abstracted: an entity may come due, a request may fail and the hub's    *)
(* watchdog may expire whenever the code's conditions other than the clock *)
(* allow it.                                                               *)
(*                                                                         *)
(* An operator that directly precedes the one it varies (RoomOffByOne      *)
(* before Room, and so on) carries a plausible mistake.  The specification *)
(* does not use it; README.md says which property it would break.          *)
(***************************************************************************)
EXTENDS Integers, Sequences, FiniteSets, QueueOps

CONSTANTS
  EntityCount,   \* entities_.size(); an entity is its registration index
  Polled,        \* entities with wants_polling()
  Writable,      \* entities that can stage a payload and request a write
  Rmw,           \* entities with needs_rmw()
  ReadBack,      \* entities with wants_read_back()
  Regs,          \* registers of the heater: an address in an access space
  Fields,        \* the parts of a register that different entities own
  Values,        \* contents of a field
  Default,       \* its initial content
  ReadReg,       \* get_datapoint() of an entity
  WriteReg,      \* get_write_datapoint() of an entity
  Field,         \* field_mask() / block_field_offset(): the part it owns
  Space,         \* the access space a register lives in
  SwitchCost,    \* spaces with space_has_switch_cost()
  Refused,       \* <<op, register>> pairs the engine can build no packet for
  RawOps,        \* what the scan console may queue
  RawCapacity,   \* raw_queue_capacity_
  Identify,      \* identify_device_
  HasGfa,        \* the protocol reads 0x7650 and 0x00F0 too (not GWG)
  IdentReg,      \* ident_dp_: what each state of the identification chain reads
  PanelRegs,     \* registers the heater changes on its own
  LossyAnswers,  \* may a request fail after the heater has carried it out?
  WatchdogFires  \* may the hub's watchdog expire before the engine's?

Entities == 1..EntityCount
NoEntity == 0
\* AddressSpace: the protocol's own memory, the burner control, procedure calls
\* (whose answers the controller computes), and GWG's other access modes.
Spaces == {"OWN", "GFA", "RPC", "GWG_VIRTUAL", "GWG_EEPROM", "GWG_XRAM", "GWG_PORT",
           "GWG_BE", "GWG_KMBUS_RAM", "GWG_KMBUS_EEPROM"}
\* ident_state_: IDLE is never started, DONE ended.
IdentStates == {"IDLE", "READ4", "READ_F8", "READ_F9", "READ_FA", "READ_FB",
                "READ_GFA", "READ_F0", "DONE"}
Blocks == [Fields -> Values]
Blank == [f \in Fields |-> Default]

ASSUME HubAssumption ==
  /\ EntityCount \in Nat
  /\ Polled \subseteq Entities
  /\ Writable \subseteq Entities
  /\ Rmw \subseteq Writable
  /\ ReadBack \subseteq Entities
  /\ Default \in Values
  /\ ReadReg \in [Entities -> Regs]
  /\ WriteReg \in [Entities -> Regs]
  /\ Field \in [Entities -> Fields]
  /\ Space \in [Regs -> Spaces] /\ SwitchCost \subseteq Spaces
  /\ \A e \in Rmw : ReadReg[e] = WriteReg[e]
  /\ RawOps \subseteq [op : {"read", "write"}, reg : Regs, block : Blocks]
  /\ RawCapacity \in Nat
  /\ Identify \in BOOLEAN /\ HasGfa \in BOOLEAN
  /\ IdentReg \in [IdentStates -> Regs]
  /\ PanelRegs \subseteq Regs

VARIABLES
  readQueue, writeQueue,  \* the entity lanes
  rawQueue,               \* the scan-console lane
  readQueued,             \* entities whose read_queued_ is set
  writeQueued,            \* entities whose write_queued_ is set
  writeInFlight,          \* entities whose write_in_flight_ is set
  staged,                 \* write_buf_ of each entity: its newest value
  inFlight, inFlightOp,   \* in_flight_ and in_flight_op_
  identState,             \* ident_state_
  identInFlight,          \* ident_in_flight_
  rawInFlight,            \* raw_in_flight_
  rmwPending,             \* rmw_pending_ with rmw_buf_
  rmwVerify,              \* rmw_verify_entity_ with rmw_verify_buf_
  lastSpace,              \* last_space_
  bus,                    \* the request the protocol engine is busy with
  dev                     \* the heater's registers

lanes == <<readQueue, writeQueue, rawQueue, readQueued, writeQueued>>
slot  == <<inFlight, inFlightOp, identInFlight, rawInFlight>>
merge == <<rmwPending, rmwVerify, writeInFlight>>
vars  == <<lanes, slot, merge, staged, identState, lastSpace, bus, dev>>

\* A register image held for an entity, or for nobody.
Merges == [entity : Entities \cup {NoEntity}, block : Blocks]
NoMerge == [entity |-> NoEntity, block |-> Blank]

\* What the engine holds.  "from" is the entity a telegram serves (NoEntity for
\* identification and the scan console); "served" says whether the heater has
\* acted on it; a read then carries the answer in "block".
Telegrams == [op : {"idle", "read", "write"}, reg : Regs, block : Blocks,
              from : Entities \cup {NoEntity}, served : BOOLEAN]
IdleBus == [op |-> "idle", reg |-> IdentReg["IDLE"], block |-> Blank,
            from |-> NoEntity, served |-> FALSE]

Init ==
  /\ readQueue = <<>> /\ writeQueue = <<>> /\ rawQueue = <<>>
  /\ readQueued = {} /\ writeQueued = {} /\ writeInFlight = {}
  /\ staged = [e \in Entities |-> Default]
  /\ inFlight = NoEntity /\ inFlightOp = "NONE"
  /\ identState = (IF Identify THEN "READ4" ELSE "IDLE")
  /\ identInFlight = FALSE /\ rawInFlight = FALSE
  /\ rmwPending = NoMerge /\ rmwVerify = NoMerge
  /\ lastSpace = "OWN"
  /\ bus = IdleBus
  /\ dev = [r \in Regs |-> Blank]

----------------------------------------------------------------------------
(* Lanes.  A RingBuffer (see RingBuffer.tla) is a sequence here; each holds *)
(* one slot per entity.                                                    *)

\* The lanes with no entity twice, and among them those in registration order
\* and its reverse.
Lanes == {q \in UNION {[1..n -> Entities] : n \in 0..EntityCount} :
            \A i, j \in DOMAIN q : q[i] = q[j] => i = j}
Ascending == {q \in Lanes : \A i, j \in DOMAIN q : i < j => q[i] < q[j]}
Descending == {q \in Lanes : \A i, j \in DOMAIN q : i < j => q[i] > q[j]}

RoomOffByOne(q) == EntityCount - 1 - Len(q)
Room(q) == EntityCount - Len(q)

\* q is lane with the entities of first moved (or pushed) to its head, in that
\* order, and the others following as they were.
Promoted(q, lane, first) ==
  /\ q \in Lanes
  /\ ToSet(q) = ToSet(lane) \cup ToSet(first)
  /\ \A i \in DOMAIN first : q[i] = first[i]
  /\ \A d, e \in ToSet(lane) \ ToSet(first) : Before(lane, d, e) => Before(q, d, e)

\* request_priority_read() finds nothing to move for a read that is in flight.
MovableAlways(S) == S
Movable(S) == {e \in S : e \in readQueued => e \in ToSet(readQueue)}

----------------------------------------------------------------------------
(* Requests from outside the hub.                                          *)

\* An entity stages its newest payload and calls request_write().
StageUnlessInFlight(e, v) ==
  /\ staged' = [staged EXCEPT ![e] = v]
  /\ IF e \in writeQueued \/ e \in writeInFlight \/ Room(writeQueue) = 0
       THEN UNCHANGED <<writeQueue, writeQueued>>
       ELSE /\ writeQueue' = Append(writeQueue, e)
            /\ writeQueued' = writeQueued \cup {e}
Stage(e, v) ==
  /\ staged' = [staged EXCEPT ![e] = v]
  /\ IF e \in writeQueued \/ Room(writeQueue) = 0
       THEN UNCHANGED <<writeQueue, writeQueued>>
       ELSE /\ writeQueue' = Append(writeQueue, e)
            /\ writeQueued' = writeQueued \cup {e}

RequestWrite(e, v) ==
  /\ e \in Writable
  /\ Stage(e, v)
  /\ UNCHANGED <<readQueue, rawQueue, readQueued, slot, merge, identState,
                 lastSpace, bus, dev>>

\* schedule_due_entities_(): the polled entities that are due and have no read
\* pending, in registration order, as far as the lane has room.
PollFirst(due) ==
  /\ due # <<>>
  /\ ToSet(due) \subseteq Polled \ readQueued
  /\ readQueue' = due \o readQueue
  /\ readQueued' = readQueued \cup ToSet(due)
  /\ UNCHANGED <<writeQueue, rawQueue, writeQueued, slot, merge, staged,
                 identState, lastSpace, bus, dev>>
Poll(due) ==
  /\ due # <<>>
  /\ ToSet(due) \subseteq Polled \ readQueued
  /\ LET pushed == SubSeq(due, 1, IF Room(readQueue) < Len(due)
                                    THEN Room(readQueue) ELSE Len(due))
     IN  /\ readQueue' = readQueue \o pushed
         /\ readQueued' = readQueued \cup ToSet(pushed)
  /\ UNCHANGED <<writeQueue, rawQueue, writeQueued, slot, merge, staged,
                 identState, lastSpace, bus, dev>>

\* request_priority_read() called for an entity that is not polled (VitoClock).
PriorityRead(e) ==
  /\ e \in Entities \ Polled
  /\ \E first \in Ascending :
       /\ ToSet(first) = Movable({e})
       /\ \E q \in Lanes : Promoted(q, readQueue, first) /\ readQueue' = q
  /\ readQueued' = readQueued \cup {e}
  /\ UNCHANGED <<writeQueue, rawQueue, writeQueued, slot, merge, staged,
                 identState, lastSpace, bus, dev>>

\* enqueue_raw_(): a full lane, or one never allocated, drops the operation.
QueueRaw(op) ==
  /\ rawQueue' = IF Len(rawQueue) < RawCapacity THEN Append(rawQueue, op)
                                                ELSE rawQueue
  /\ UNCHANGED <<readQueue, writeQueue, readQueued, writeQueued, slot, merge,
                 staged, identState, lastSpace, bus, dev>>

----------------------------------------------------------------------------
(* dispatch_next_().  Whose turn it is: an armed merged write, then        *)
(* identification, the scan console, writes, reads.                        *)

SlotFreeOfEntities == inFlight = NoEntity
SlotFree == inFlight = NoEntity /\ ~identInFlight /\ ~rawInFlight
Armed == rmwPending.entity # NoEntity
Identifying == identState \notin {"IDLE", "DONE"}

MergeTurn == SlotFree /\ Armed
WriteTurnAfterReads == /\ SlotFree /\ ~Armed /\ ~Identifying
                       /\ rawQueue = <<>> /\ readQueue = <<>> /\ writeQueue # <<>>
IdentTurn == SlotFree /\ ~Armed /\ Identifying
RawTurn   == SlotFree /\ ~Armed /\ ~Identifying /\ rawQueue # <<>>
WriteTurn == SlotFree /\ ~Armed /\ ~Identifying /\ rawQueue = <<>> /\ writeQueue # <<>>
ReadTurn  == /\ SlotFree /\ ~Armed /\ ~Identifying
             /\ rawQueue = <<>> /\ writeQueue = <<>> /\ readQueue # <<>>

\* read()/write() of the engine: false while it is busy (the caller retries) and
\* false for a packet it cannot build (the caller drops the request).
BusIdle == bus.op = "idle"
Accepts(op, reg) == BusIdle /\ <<op, reg>> \notin Refused
Refuses(op, reg) == BusIdle /\ <<op, reg>> \in Refused
Send(op, reg, block, from) ==
  bus' = [op |-> op, reg |-> reg, block |-> block, from |-> from, served |-> FALSE]

Occupy(e, op) == inFlight' = e /\ inFlightOp' = op /\ UNCHANGED <<identInFlight, rawInFlight>>
Release == inFlight' = NoEntity /\ inFlightOp' = "NONE" /\ UNCHANGED <<identInFlight, rawInFlight>>

\* rmw_dispatch_write_(): the merged register goes out and its read-back is to be
\* compared with it.
SendMerged(e) ==
  /\ MergeTurn /\ e = rmwPending.entity
  /\ Accepts("write", WriteReg[e])
  /\ Send("write", WriteReg[e], rmwPending.block, e)
  /\ Occupy(e, "WRITE")
  /\ rmwVerify' = rmwPending
  /\ rmwPending' = NoMerge
  /\ UNCHANGED <<lanes, writeInFlight, staged, identState, lastSpace, dev>>

RefuseMerged(e) ==
  /\ MergeTurn /\ e = rmwPending.entity
  /\ Refuses("write", WriteReg[e])
  /\ rmwPending' = NoMerge
  /\ writeInFlight' = writeInFlight \ {e}
  /\ UNCHANGED <<lanes, slot, rmwVerify, staged, identState, lastSpace, bus, dev>>

\* The write lane, an entity that owns its whole register.
SendWrite(e) ==
  /\ WriteTurn /\ e = Head(writeQueue) /\ e \notin Rmw
  /\ Accepts("write", WriteReg[e])
  /\ Send("write", WriteReg[e], [f \in Fields |-> staged[e]], e)
  /\ Occupy(e, "WRITE")
  /\ lastSpace' = Space[WriteReg[e]]
  /\ writeQueue' = Tail(writeQueue)
  /\ writeQueued' = writeQueued \ {e}
  /\ writeInFlight' = writeInFlight \cup {e}
  /\ UNCHANGED <<readQueue, rawQueue, readQueued, rmwPending, rmwVerify, staged,
                 identState, dev>>

\* The write lane, an entity that owns a field: read the register first.
SendRmwRead(e) ==
  /\ WriteTurn /\ e = Head(writeQueue) /\ e \in Rmw
  /\ Accepts("read", WriteReg[e])
  /\ Send("read", WriteReg[e], Blank, e)
  /\ Occupy(e, "RMW_READ")
  /\ writeQueue' = Tail(writeQueue)
  /\ writeQueued' = writeQueued \ {e}
  /\ writeInFlight' = writeInFlight \cup {e}
  /\ UNCHANGED <<readQueue, rawQueue, readQueued, rmwPending, rmwVerify, staged,
                 identState, lastSpace, dev>>

RefuseWrite(e) ==
  /\ WriteTurn /\ e = Head(writeQueue)
  /\ Refuses(IF e \in Rmw THEN "read" ELSE "write", WriteReg[e])
  /\ writeQueue' = Tail(writeQueue)
  /\ writeQueued' = writeQueued \ {e}
  /\ UNCHANGED <<readQueue, rawQueue, readQueued, slot, merge, staged, identState,
                 lastSpace, bus, dev>>

\* Address-space affinity: the first queued read in the space of the last
\* telegram, where leaving that space is expensive.
Affine == {i \in DOMAIN readQueue : /\ lastSpace \in SwitchCost
                                     /\ Space[ReadReg[readQueue[i]]] = lastSpace}

\* The place in the lane of the read whose turn it is.
IsNextRead(i) == IF Affine = {} THEN i = 1 ELSE i \in Affine /\ \A j \in Affine : i <= j
TakesRead(e) == \E i \in DOMAIN readQueue :
                  IsNextRead(i) /\ e = readQueue[i] /\ readQueue' = Without(readQueue, i)

SendRead(e) ==
  /\ ReadTurn
  /\ TakesRead(e)
  /\ Accepts("read", ReadReg[e])
  /\ Send("read", ReadReg[e], Blank, e)
  /\ Occupy(e, "READ")
  /\ lastSpace' = Space[ReadReg[e]]
  /\ UNCHANGED <<writeQueue, rawQueue, readQueued, writeQueued, merge, staged,
                 identState, dev>>

RefuseRead(e) ==
  /\ ReadTurn
  /\ TakesRead(e)
  /\ Refuses("read", ReadReg[e])
  /\ readQueued' = readQueued \ {e}
  /\ UNCHANGED <<writeQueue, rawQueue, writeQueued, slot, merge, staged, identState,
                 lastSpace, bus, dev>>

\* A busy engine: the item stays, but the affine read has already moved up.
RetainRead ==
  /\ ReadTurn /\ ~BusIdle
  /\ \E i \in DOMAIN readQueue : IsNextRead(i) /\ readQueue' = MovedToFront(readQueue, i)
  /\ UNCHANGED <<writeQueue, rawQueue, readQueued, writeQueued, slot, merge, staged,
                 identState, lastSpace, bus, dev>>

----------------------------------------------------------------------------
(* Identification and the scan console.                                    *)

AfterErrorRetry == [READ4 |-> "READ_F8", READ_F8 |-> "READ_F9", READ_F9 |-> "READ_FA",
                    READ_FA |-> "READ_FB", READ_FB |-> "READ_F8", READ_GFA |-> "READ_F0",
                    READ_F0 |-> "DONE"]
AfterSw == IF HasGfa THEN "READ_GFA" ELSE "DONE"
AfterError == [READ4 |-> "READ_F8", READ_F8 |-> "READ_F9", READ_F9 |-> "READ_FA",
               READ_FA |-> "READ_FB", READ_FB |-> AfterSw, READ_GFA |-> "READ_F0",
               READ_F0 |-> "DONE"]
AfterAnswer == [AfterError EXCEPT !.READ4 = AfterSw]

SendIdent ==
  /\ IdentTurn
  /\ Accepts("read", IdentReg[identState])
  /\ Send("read", IdentReg[identState], Blank, NoEntity)
  /\ identInFlight' = TRUE
  /\ UNCHANGED <<lanes, inFlight, inFlightOp, rawInFlight, merge, staged, identState,
                 lastSpace, dev>>

RefuseIdent ==
  /\ IdentTurn
  /\ Refuses("read", IdentReg[identState])
  /\ identState' = AfterError[identState]
  /\ UNCHANGED <<lanes, slot, merge, staged, lastSpace, bus, dev>>

SendRaw ==
  /\ RawTurn
  /\ LET op == Head(rawQueue)
     IN  /\ Accepts(op.op, op.reg)
         /\ Send(op.op, op.reg, op.block, NoEntity)
         /\ lastSpace' = Space[op.reg]
  /\ rawQueue' = Tail(rawQueue)
  /\ rawInFlight' = TRUE
  /\ UNCHANGED <<readQueue, writeQueue, readQueued, writeQueued, inFlight, inFlightOp,
                 identInFlight, merge, staged, identState, dev>>

RefuseRaw ==
  /\ RawTurn
  /\ Refuses(Head(rawQueue).op, Head(rawQueue).reg)
  /\ rawQueue' = Tail(rawQueue)
  /\ UNCHANGED <<readQueue, writeQueue, readQueued, writeQueued, slot, merge, staged,
                 identState, lastSpace, bus, dev>>

----------------------------------------------------------------------------
(* Completions: the engine's callbacks and the hub's watchdog.  A request   *)
(* fails when the engine reports an error or a short or misaddressed        *)
(* answer, which frees the engine, or when the watchdog gives it up, which  *)
(* leaves the engine busy.                                                  *)

Answered == ~BusIdle /\ bus.served /\ bus' = IdleBus
EngineError == ~BusIdle /\ (bus.served => LossyAnswers) /\ bus' = IdleBus
WatchdogExpired == WatchdogFires /\ UNCHANGED bus
Failed == EngineError \/ WatchdogExpired

\* Whatever ends a read also ends its comparison with a merged write.
EndVerifyForgotten(e) == UNCHANGED rmwVerify
EndVerify(e) == rmwVerify' = IF rmwVerify.entity = e THEN NoMerge ELSE rmwVerify

EndRead(e) ==
  /\ inFlight = e /\ inFlightOp = "READ"
  /\ Release
  /\ readQueued' = readQueued \ {e}
  /\ EndVerify(e)
  /\ UNCHANGED <<readQueue, rawQueue, writeInFlight, rmwPending, identState,
                 lastSpace, dev>>

NoRequest == UNCHANGED <<writeQueue, writeQueued, staged>>

\* The answer goes to the entity, which may request a write before the callback
\* returns: its own (VitoClock), or one of an automation run by the new state.
\* (The automations of the other callbacks find the hub as a later caller would.)
ReadAnswered(e) ==
  /\ EndRead(e) /\ Answered
  /\ NoRequest \/ \E w \in Writable, v \in Values : Stage(w, v)

ReadFailed(e) == EndRead(e) /\ Failed /\ NoRequest

SupersededNever(e) == FALSE
Superseded(e) == e \in writeQueued

\* refresh_siblings_(): the other polled entities that show the written register.
SiblingSensors(w) == {e \in Polled \ Writable : ReadReg[e] = WriteReg[w]}
Siblings(w) == {e \in Polled \ {w} : ReadReg[e] = WriteReg[w] /\ Space[ReadReg[e]] # "RPC"}

\* The ACK of a write no newer value has overtaken: siblings are pushed to the
\* head one by one, the writer's own read-back last.
WriteAcked(e) ==
  /\ inFlight = e /\ inFlightOp = "WRITE" /\ ~Superseded(e)
  /\ Answered
  /\ Release
  /\ writeInFlight' = writeInFlight \ {e}
  /\ IF e \in ReadBack THEN UNCHANGED rmwVerify ELSE EndVerify(e)
  /\ \E own \in Ascending, sib \in Descending :
       /\ ToSet(own) = Movable({e} \cap ReadBack)
       /\ ToSet(sib) = Movable(Siblings(e))
       /\ \E q \in Lanes : Promoted(q, readQueue, own \o sib) /\ readQueue' = q
  /\ readQueued' = readQueued \cup Siblings(e) \cup ({e} \cap ReadBack)
  /\ UNCHANGED <<writeQueue, rawQueue, writeQueued, rmwPending, staged, identState,
                 lastSpace, dev>>

EndWrite(e) ==
  /\ inFlight = e /\ inFlightOp = "WRITE"
  /\ Release
  /\ writeInFlight' = writeInFlight \ {e}
  /\ EndVerify(e)
  /\ UNCHANGED <<lanes, rmwPending, staged, identState, lastSpace, dev>>

\* The ACK of a value a newer one has overtaken says nothing to the entity.
SupersededAcked(e) == EndWrite(e) /\ Superseded(e) /\ Answered
WriteFailed(e) == EndWrite(e) /\ Failed

\* rmw_handle_read_(): replace the entity's field by its newest value.
MergedBlind(e, block) == [f \in Fields |-> staged[e]]
Merged(e, block) == [block EXCEPT ![Field[e]] = staged[e]]

RmwReadAnswered(e) ==
  /\ inFlight = e /\ inFlightOp = "RMW_READ"
  /\ Answered
  /\ Release
  /\ rmwPending' = [entity |-> e, block |-> Merged(e, bus.block)]
  /\ UNCHANGED <<lanes, rmwVerify, writeInFlight, staged, identState, lastSpace, dev>>

\* rmw_abort_(): nothing is written.
RmwReadFailedBlind(e) ==
  /\ inFlight = e /\ inFlightOp = "RMW_READ"
  /\ Failed
  /\ Release
  /\ rmwPending' = [entity |-> e, block |-> Merged(e, Blank)]
  /\ UNCHANGED <<lanes, rmwVerify, writeInFlight, staged, identState, lastSpace, dev>>
RmwReadFailed(e) ==
  /\ inFlight = e /\ inFlightOp = "RMW_READ"
  /\ Failed
  /\ Release
  /\ writeInFlight' = writeInFlight \ {e}
  /\ UNCHANGED <<lanes, rmwPending, rmwVerify, staged, identState, lastSpace, dev>>

IdentAnswered ==
  /\ identInFlight /\ Answered
  /\ identInFlight' = FALSE
  /\ identState' = AfterAnswer[identState]
  /\ UNCHANGED <<lanes, inFlight, inFlightOp, rawInFlight, merge, staged, lastSpace, dev>>

IdentFailed ==
  /\ identInFlight /\ Failed
  /\ identInFlight' = FALSE
  /\ identState' = AfterError[identState]
  /\ UNCHANGED <<lanes, inFlight, inFlightOp, rawInFlight, merge, staged, lastSpace, dev>>

RawDone ==
  /\ rawInFlight /\ (Answered \/ Failed)
  /\ rawInFlight' = FALSE
  /\ UNCHANGED <<lanes, inFlight, inFlightOp, identInFlight, merge, staged, identState,
                 lastSpace, dev>>

\* The callback of a request the watchdog has given up finds no owner.
LateCallback ==
  /\ SlotFree
  /\ Answered \/ EngineError
  /\ UNCHANGED <<lanes, slot, merge, staged, identState, lastSpace, dev>>

----------------------------------------------------------------------------
(* The heater.                                                             *)

Serve ==
  /\ ~BusIdle /\ ~bus.served
  /\ bus' = [bus EXCEPT !.served = TRUE,
                        !.block = IF bus.op = "read" THEN dev[bus.reg] ELSE bus.block]
  /\ dev' = IF bus.op = "write" THEN [dev EXCEPT ![bus.reg] = bus.block] ELSE dev
  /\ UNCHANGED <<lanes, slot, merge, staged, identState, lastSpace>>

\* The front panel, or the controller itself, changes a field.
PanelWrite(r, f, v) ==
  /\ dev' = [dev EXCEPT ![r][f] = v]
  /\ UNCHANGED <<lanes, slot, merge, staged, identState, lastSpace, bus>>

----------------------------------------------------------------------------
Dispatch ==
  \/ \E e \in Entities :
       \/ SendMerged(e) \/ RefuseMerged(e)
       \/ SendWrite(e) \/ SendRmwRead(e) \/ RefuseWrite(e)
       \/ SendRead(e) \/ RefuseRead(e)
  \/ RetainRead
  \/ SendIdent \/ RefuseIdent
  \/ SendRaw \/ RefuseRaw

Complete ==
  \/ \E e \in Entities :
       \/ ReadAnswered(e) \/ ReadFailed(e)
       \/ WriteAcked(e) \/ SupersededAcked(e) \/ WriteFailed(e)
       \/ RmwReadAnswered(e) \/ RmwReadFailed(e)
  \/ IdentAnswered \/ IdentFailed
  \/ RawDone
  \/ LateCallback

Environment ==
  \/ \E e \in Entities, v \in Values : RequestWrite(e, v)
  \/ \E due \in Ascending : Poll(due)
  \/ \E e \in Entities : PriorityRead(e)
  \/ \E op \in RawOps : QueueRaw(op)
  \/ Serve
  \/ \E r \in PanelRegs, f \in Fields, v \in Values : PanelWrite(r, f, v)

Next == Dispatch \/ Complete \/ Environment

Spec == Init /\ [][Next]_vars

\* loop() runs for ever and tries to dispatch each time; every engine calls back
\* for every request it has accepted, with an answer or an error of its own.
\* Nothing is assumed of the user, the poll timer or the heater.
CallBack == Complete /\ bus' = IdleBus

----------------------------------------------------------------------------
(* Properties.                                                             *)

\* Every variable holds a value of its type.
TypeOK ==
  /\ readQueue \in Seq(Entities) /\ writeQueue \in Seq(Entities)
  /\ rawQueue \in Seq(RawOps)
  /\ readQueued \subseteq Entities
  /\ writeQueued \subseteq Writable
  /\ writeInFlight \subseteq Entities
  /\ staged \in [Entities -> Values]
  /\ inFlight \in Entities \cup {NoEntity}
  /\ inFlightOp \in {"NONE", "READ", "WRITE", "RMW_READ"}
  /\ identState \in IdentStates
  /\ identInFlight \in BOOLEAN /\ rawInFlight \in BOOLEAN
  /\ rmwPending \in Merges /\ rmwVerify \in Merges
  /\ lastSpace \in Spaces
  /\ bus \in Telegrams
  /\ dev \in [Regs -> Blocks]

InFlightAs(ops) == IF inFlightOp \in ops THEN {inFlight} ELSE {}
ArmedFor == IF Armed THEN {rmwPending.entity} ELSE {}

\* The companion flags tell the truth: read_queued_ is set exactly for an entity
\* that waits in the read lane or whose read is in flight (never both),
\* write_queued_ exactly for one that waits in the write lane, write_in_flight_
\* exactly from dispatch to completion, the armed merge between a read-before-
\* write and its merged write included, and no entity is in a lane twice.  A
\* flag left set strands its entity until reboot: nothing would queue it again.
LaneFlags ==
  /\ readQueue \in Lanes /\ writeQueue \in Lanes
  /\ readQueued = ToSet(readQueue) \cup InFlightAs({"READ"})
  /\ ToSet(readQueue) \cap InFlightAs({"READ"}) = {}
  /\ writeQueued = ToSet(writeQueue)
  /\ writeInFlight = InFlightAs({"WRITE", "RMW_READ"}) \cup ArmedFor

\* One slot per entity is enough: an entity that may be queued finds room, so no
\* push of the poll scheduler, of a control or of a read-back is ever rejected.
NeverRejected ==
  /\ \A e \in Entities \ writeQueued : Room(writeQueue) > 0
  /\ Cardinality(Entities \ readQueued) <= Room(readQueue)

\* A callback completes the operation it belongs to: at most one of the entity
\* slot, identification and the scan console is occupied, and while it is the
\* engine is busy with that very request.  A callback that outlives the hub's
\* watchdog therefore finds the slot free and is dropped.
SlotMatchesBus ==
  /\ (inFlight = NoEntity) = (inFlightOp = "NONE")
  /\ ~(identInFlight /\ rawInFlight)
  /\ identInFlight \/ rawInFlight => inFlight = NoEntity /\ ~BusIdle /\ bus.from = NoEntity
  /\ identInFlight => bus.op = "read" /\ Identifying
  /\ inFlight # NoEntity =>
       /\ bus.from = inFlight
       /\ inFlightOp = "READ" => bus.op = "read" /\ bus.reg = ReadReg[inFlight]
       /\ inFlightOp = "RMW_READ" =>
            bus.op = "read" /\ bus.reg = WriteReg[inFlight] /\ inFlight \in Rmw
       /\ inFlightOp = "WRITE" => bus.op = "write" /\ bus.reg = WriteReg[inFlight]

\* The read-modify-write invariant of vitohome.h: between the answer to a
\* read-before-write and the dispatch of its merged write the bus carries
\* nothing, so that the merged register goes out next.
MergeExclusive == Armed => SlotFree /\ BusIdle /\ rmwPending.entity \in Rmw

MergedWriteUnserved == bus.op = "write" /\ bus.from \in Rmw /\ ~bus.served

\* What a merged write is about to put back is what the heater holds now, outside
\* the entity's own field: two quick changes of sibling fields, or a change
\* between an abandoned read-modify-write and the next, lose nothing.
MergeIsCurrent ==
  /\ Armed => LET e == rmwPending.entity
              IN  WriteReg[e] \notin PanelRegs =>
                    \A f \in Fields \ {Field[e]} :
                      rmwPending.block[f] = dev[WriteReg[e]][f]
  /\ MergedWriteUnserved /\ bus.reg \notin PanelRegs =>
       \A f \in Fields \ {Field[bus.from]} : bus.block[f] = dev[bus.reg][f]

\* The same at the heater: a step that changes a register is a write the hub has
\* on the bus, and if an entity with a field sent it only that field changes.
SiblingFieldsKept ==
  [][\A r \in Regs \ PanelRegs, f \in Fields :
       dev'[r][f] # dev[r][f] =>
         /\ bus.op = "write" /\ bus.reg = r
         /\ bus.from \in Rmw => f = Field[bus.from]]_vars

\* No value is lost between a control and the bus: unless a newer value waits in
\* the write lane, the write in flight, and the merge about to be written, carry
\* the newest value the control staged.  This is what lets an ACK that is not
\* superseded publish that value.
TransmitsNewest ==
  \A e \in Entities : ~Superseded(e) =>
    /\ inFlight = e /\ inFlightOp = "WRITE" => bus.block[Field[e]] = staged[e]
    /\ rmwPending.entity = e => rmwPending.block[Field[e]] = staged[e]

\* Registers nothing but merged writes can change.
MergeOnly(r) ==
  /\ r \notin PanelRegs
  /\ \A e \in Writable \ Rmw : WriteReg[e] # r
  /\ \A op \in RawOps : op.op = "write" => op.reg # r

\* The read-back check raises no false alarm: the image it compares with is what
\* the register holds, or is still on its way there, so a difference is the
\* heater's doing.
ReadBackSound ==
  rmwVerify.entity # NoEntity =>
    LET r == WriteReg[rmwVerify.entity]
    IN  MergeOnly(r) => \/ MergedWriteUnserved /\ bus.from = rmwVerify.entity
                           /\ bus.reg = r /\ bus.block = rmwVerify.block
                        \/ dev[r] = rmwVerify.block

\* What vitohome.h says of the read-back check ("A difference means the device
\* changed a sibling inside the read/write window, or did not take the write as
\* sent"): when the read-back is answered for a register the heater never changes
\* on its own, it finds the merged image whoever else writes the register.
ReadBackBlamesHeater ==
  /\ inFlightOp = "READ" /\ rmwVerify.entity = inFlight /\ bus.served
  /\ bus.reg \notin PanelRegs
  => bus.block = rmwVerify.block

\* Once the scan console is quiet, every requested write is taken up by the engine
\* or refused by it, whatever is polled meanwhile.
WritesDrain ==
  <>[](rawQueue = <<>>) =>
    \A e \in Entities : e \in writeQueued ~> e \notin writeQueued

\* Once the scan console is quiet, the controls are, and so are those that read out of turn
\* (the clock), every pending read is carried out, fails or is refused, however often the
\* poll timer queues others.
ReadsDrain ==
  <>[](rawQueue = <<>> /\ writeQueue = <<>> /\ readQueued \subseteq Polled) =>
    \A e \in Entities : e \in readQueued ~> e \notin readQueued
=============================================================================
