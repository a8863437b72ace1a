---------------------------- MODULE HubEntities ----------------------------
(***************************************************************************)
(* What the configured entities show: numbers, selects, switches, texts,    *)
(* climate channels and sensors on the hub.  An entity publishes what a     *)
(* read answered, or, when it has no read-back, the value whose write was   *)
(* acknowledged.  A failed read leaves the last value, or blanks it after a *)
(* streak; a failed write leaves it.  Every step is a step of Hub with what *)
(* the entity it calls does.                                               *)
(***************************************************************************)
EXTENDS Hub

CONSTANTS
  Shown,     \* the values an entity can show: options, on_values, codes, ...
  Blanking,  \* entities that show NAN after a streak of failed reads
  Unknown    \* shown before the first value, and when blanked (NAN)

\* NAN_AFTER_CONSECUTIVE_READ_ERRORS
Streak == 3

ASSUME EntityAssumption ==
  /\ Shown \in [Entities -> SUBSET Values]
  /\ Blanking \subseteq Entities
  /\ Unknown \notin Values

VARIABLES
  published,  \* the state of each entity
  errors,     \* consecutive_read_errors_
  \* History, read by the properties only.
  outdated    \* entities with a reason not to show what the heater holds

display == <<published, errors>>
entityVars == <<vars, display, outdated>>

EntityInit ==
  /\ Init
  /\ published = [e \in Entities |-> Unknown]
  /\ errors = [e \in Entities |-> 0]
  /\ outdated = Entities

\* Who shows register r, and who among them a write of r promises to refresh.
Readers(r) == {e \in Entities : ReadReg[e] = r}
Refreshed(r) == {e \in Readers(r) \cap Polled : Space[r] # "RPC"}

----------------------------------------------------------------------------
\* note_read_failure_(), and handle_error() of the entities that keep their value.
HandleError(e) ==
  LET n == IF errors[e] < Streak THEN errors[e] + 1 ELSE errors[e]
  IN  IF e \in Blanking
        THEN /\ errors' = [errors EXCEPT ![e] = n]
             /\ published' = IF n = Streak THEN [published EXCEPT ![e] = Unknown] ELSE published
        ELSE UNCHANGED display

\* handle_response(): a value that cannot be shown is a failed read where reads
\* are counted, and otherwise leaves the last one in place.
HandleResponse(e, v) ==
  IF v \in Shown[e]
    THEN /\ published' = [published EXCEPT ![e] = v]
         /\ errors' = [errors EXCEPT ![e] = 0]
    ELSE HandleError(e)

\* handle_write_response(): with a read-back, the answer to it will tell.
HandleWriteResponseNever(e) == UNCHANGED display
HandleWriteResponse(e) ==
  /\ published' = IF e \in ReadBack THEN published ELSE [published EXCEPT ![e] = staged[e]]
  /\ UNCHANGED errors

----------------------------------------------------------------------------
Answer(e) ==
  /\ ReadAnswered(e) /\ HandleResponse(e, bus.block[Field[e]])
  /\ UNCHANGED outdated

\* A read fails, or the engine has no packet for it and the hub drops it and tells nobody.
ReadLost(e) ==
  /\ \/ ReadFailed(e) /\ HandleError(e)
     \/ RefuseRead(e) /\ UNCHANGED display
  /\ outdated' = outdated \cup {e}

Acknowledge(e) ==
  /\ WriteAcked(e) /\ HandleWriteResponse(e)
  /\ UNCHANGED outdated

OvertakeOptimistic(e) ==
  /\ SupersededAcked(e) \/ WriteFailed(e)
  /\ outdated' = outdated \cup Readers(WriteReg[e])
  /\ published' = [published EXCEPT ![e] = staged[e]]
  /\ UNCHANGED errors

\* The heater holds a value that is being replaced, or may hold one whose write
\* was reported as failed (handle_write_error() does nothing).
Overtake(e) ==
  /\ SupersededAcked(e) \/ WriteFailed(e)
  /\ outdated' = outdated \cup Readers(WriteReg[e])
  /\ UNCHANGED display

\* The heater acts on a telegram whose answer is awaited by the entity it serves,
\* or by nobody who would show it.
ServeEntity(e) ==
  /\ Serve
  /\ inFlight = e
  /\ outdated' = CASE inFlightOp = "READ" -> outdated \ {e}
                   [] inFlightOp = "RMW_READ" -> outdated
                   [] inFlightOp = "WRITE" ->
                        (outdated \ ({e} \cap Readers(bus.reg)))
                          \cup (Readers(bus.reg) \ (Refreshed(bus.reg) \cup {e}))
  /\ UNCHANGED display

ServeOther ==
  /\ Serve
  /\ inFlight = NoEntity
  /\ outdated' = IF bus.op = "write" THEN outdated \cup Readers(bus.reg) ELSE outdated
  /\ UNCHANGED display

PanelChange(r, f, v) ==
  /\ PanelWrite(r, f, v)
  /\ outdated' = outdated \cup Readers(r)
  /\ UNCHANGED display

\* What else the hub does calls no entity, or one that has nothing to show.
NobodyIsTold ==
  /\ \/ RetainRead \/ SendIdent \/ RefuseIdent \/ SendRaw \/ RefuseRaw
     \/ IdentAnswered \/ IdentFailed \/ RawDone \/ LateCallback
     \/ \E e \in Entities :
          \/ SendMerged(e) \/ RefuseMerged(e) \/ SendWrite(e) \/ SendRmwRead(e)
          \/ RefuseWrite(e) \/ SendRead(e) \/ RmwReadAnswered(e) \/ RmwReadFailed(e)
          \/ \E v \in Shown[e] : RequestWrite(e, v)
     \/ \E due \in Ascending : Poll(due)
     \/ \E op \in RawOps : QueueRaw(op)
  /\ UNCHANGED <<display, outdated>>

EntityNext ==
  \/ \E e \in Entities :
       \/ Answer(e) \/ ReadLost(e) \/ Acknowledge(e) \/ Overtake(e) \/ ServeEntity(e)
  \/ ServeOther
  \/ \E r \in PanelRegs, f \in Fields, v \in Values : PanelChange(r, f, v)
  \/ NobodyIsTold

EntitySpec == EntityInit /\ [][EntityNext]_entityVars

----------------------------------------------------------------------------
\* Every variable of the entities holds a value of its type.
EntityTypeOK ==
  /\ published \in [Entities -> Values \cup {Unknown}]
  /\ errors \in [Entities -> 0..Streak]
  /\ outdated \subseteq Entities

\* Nothing of e's register is being read for it or written.
Quiet(e) == e \notin readQueued /\ \A w \in writeInFlight : WriteReg[w] # ReadReg[e]

\* An entity whose register is its own to read and write shows what the heater
\* holds whenever nothing is pending for it, however reads, writes, read-backs,
\* overtaken writes and sibling refreshes were interleaved.  The exceptions are
\* those the hub cannot know of: a change at the front panel or by the scan
\* console, a read or write that failed since, a value overtaken by one not yet
\* written, and a register written by another entity that is not refreshed
\* because this one is not polled.  A value with no option keeps the last one.
ShowsTheHeater ==
  \A e \in Entities \ outdated :
    ReadReg[e] = WriteReg[e] /\ Quiet(e) =>
      LET v == dev[ReadReg[e]][Field[e]]
      IN  v \in Shown[e] => published[e] = v

\* vito_climate.cpp: nobody shows "a mode or setpoint the device has not accepted".
\* A value newly shown is the one in the telegram the heater has just answered or
\* acknowledged.
OnlyAccepted ==
  [][\A e \in Entities : published'[e] \notin {published[e], Unknown} =>
       bus.from = e /\ bus.served /\ bus.block[Field[e]] = published'[e]]_entityVars
=============================================================================
