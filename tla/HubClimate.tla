----------------------------- MODULE HubClimate -----------------------------
(***************************************************************************)
(* VitoClimate: one card made of two channels, entities the hub polls and   *)
(* writes like any other.  The setpoint is read and written at one register; *)
(* the mode (Betriebsart) is read at one and may be commanded at another,   *)
(* whose bytes mean something else, and is shown as a preset: a row of a     *)
(* table binds the two spaces.  The card is published as a pair, by whichever *)
(* channel is called back, once each of them has been.                      *)
(***************************************************************************)
EXTENDS HubEntities

CONSTANTS
  Setpoint,  \* setpoint_
  Mode,      \* mode_, NoEntity for a climate without operating_mode
  Presets,   \* presets_: rows of a byte to command, bytes to read, and the mode shown
  Setpoints  \* setpoint_min_ to setpoint_max_

Channels == {Setpoint, Mode} \ {NoEntity}
NoPreset == 0

ASSUME ClimateAssumption ==
  /\ Setpoint \in Entities /\ Mode \in (Entities \ {Setpoint}) \cup {NoEntity}
  /\ Channels \subseteq Writable \ Rmw
  /\ ReadReg[Setpoint] = WriteReg[Setpoint] /\ Setpoint \in ReadBack
  /\ Presets \in Seq([write : Values, reads : SUBSET Values, mode : {"OFF", "HEAT", "AUTO"}])
  /\ \A i, j \in DOMAIN Presets : Presets[i].reads \cap Presets[j].reads # {} => i = j
  /\ Setpoints # {} /\ Setpoints \subseteq Values
  \* A channel takes any byte, and its handle_error() keeps the last.
  /\ Channels \cap Blanking = {} /\ \A c \in Channels : Shown[c] = Values

VARIABLES
  known,     \* the channels of setpoint_known_ and mode_known_
  climate,   \* target_temperature, custom_preset and mode of the climate
  card,      \* what it has published last; <<>> before that
  commanded  \* is the preset the one of a command acknowledged since the last answer? (history)

climateVars == <<entityVars, known, climate, card, commanded>>

ClimateInit ==
  /\ EntityInit
  /\ known = {}
  /\ climate = [target |-> Unknown, preset |-> NoPreset,
                mode |-> IF Mode = NoEntity THEN "HEAT" ELSE "OFF"]
  /\ card = <<>>
  /\ commanded = FALSE

----------------------------------------------------------------------------
\* The first row of the table that a byte of either space names.
FirstOf(S) == CHOOSE i \in S : \A j \in S : i <= j
Reading(byte) == {i \in DOMAIN Presets : byte \in Presets[i].reads}
Writing(byte) == {i \in DOMAIN Presets : Presets[i].write = byte}
PresetOf(S) == IF S = {} THEN NoPreset ELSE FirstOf(S)

\* publish_state(), if ready_().
PublishAtOnce == card' = climate'
Publish == card' = IF Channels \subseteq known' THEN climate' ELSE card

OnSetpointRead(value) ==
  /\ climate' = [climate EXCEPT !.target = value]
  /\ known' = known \cup {Setpoint}
  /\ Publish

Bind(i) ==
  /\ climate' = [climate EXCEPT !.preset = i, !.mode = Presets[i].mode]
  /\ known' = known \cup {Mode}
  /\ Publish

\* The preset is no longer true; the coarse mode stays, and so does a card that shows none.
UnbindKeeping ==
  /\ known' = known \cup {Mode}
  /\ UNCHANGED <<climate, card>>
Unbind ==
  /\ climate' = [climate EXCEPT !.preset = NoPreset]
  /\ known' = known \cup {Mode}
  /\ IF climate.preset # NoPreset \/ Mode \notin known THEN Publish ELSE UNCHANGED card

OnModeRead(byte) == IF Reading(byte) = {} THEN Unbind ELSE Bind(FirstOf(Reading(byte)))

OnModeWritten(byte) ==
  IF Writing(byte) = {} THEN UNCHANGED <<known, climate, card>> ELSE Bind(FirstOf(Writing(byte)))

----------------------------------------------------------------------------
\* What the climate may ask for: a target clamped to the range, the byte of a preset.
Commands(c) == IF c = Setpoint THEN Setpoints ELSE {Presets[i].write : i \in DOMAIN Presets}
Obeyed ==
  \A c \in Channels :
    \/ staged'[c] \in Commands(c)
    \/ staged'[c] = staged[c] /\ (c \in writeQueued' => c \in writeQueued)

\* handle_response() and handle_write_response() of the channels.
SetpointAnswer ==
  /\ Answer(Setpoint) /\ Obeyed
  /\ OnSetpointRead(bus.block[Field[Setpoint]])
  /\ UNCHANGED commanded

ModeAnswer ==
  /\ Mode # NoEntity /\ Answer(Mode) /\ Obeyed
  /\ OnModeRead(bus.block[Field[Mode]])
  /\ commanded' = FALSE

ModeAcknowledged ==
  /\ Mode # NoEntity /\ Acknowledge(Mode)
  /\ Mode \notin ReadBack
  /\ OnModeWritten(staged[Mode])
  /\ commanded' = TRUE

\* control() with a target and a preset: both channels are queued before anything else happens.
\* (With one of them it is a RequestWrite; with what no row expresses it does nothing.)
Control(target, byte) ==
  /\ staged' = [staged EXCEPT ![Setpoint] = target, ![Mode] = byte]
  /\ LET Queued(lane, c) == IF c \in writeQueued THEN lane ELSE Append(lane, c)
     IN  writeQueue' = Queued(Queued(writeQueue, Setpoint), Mode)
  /\ writeQueued' = writeQueued \cup {Setpoint, Mode}
  /\ UNCHANGED <<readQueue, rawQueue, readQueued, slot, merge, identState, lastSpace, bus, dev,
                 display, outdated, known, climate, card, commanded>>

\* Everything else calls no channel back, or one that has nothing to say.
ElseEntity ==
  /\ \/ \E e \in Entities \ Channels : Answer(e) \/ Acknowledge(e)
     \/ \E c \in Channels \cap ReadBack : Acknowledge(c)
     \/ \E e \in Entities : ReadLost(e) \/ Overtake(e) \/ ServeEntity(e)
     \/ ServeOther
     \/ \E r \in PanelRegs, f \in Fields, v \in Values : PanelChange(r, f, v)
     \/ NobodyIsTold
  /\ Obeyed
  /\ UNCHANGED <<known, climate, card, commanded>>

ClimateNext ==
  \/ SetpointAnswer \/ ModeAnswer \/ ModeAcknowledged
  \/ \E target \in Setpoints, byte \in Commands(Mode) : Mode # NoEntity /\ Control(target, byte)
  \/ ElseEntity

ClimateSpec == ClimateInit /\ [][ClimateNext]_climateVars

----------------------------------------------------------------------------
\* Every variable of the climate holds a value of its type.
ClimateTypeOK ==
  /\ known \subseteq Channels
  /\ climate \in [target : Values \cup {Unknown}, preset : {NoPreset} \cup DOMAIN Presets,
                  mode : {"OFF", "HEAT", "AUTO"}]
  /\ card # <<>> => card = climate
  /\ commanded \in BOOLEAN

\* A published card shows what the heater holds, whenever nothing is pending for a channel
\* and nothing has happened the hub cannot know of (outdated): the target is in the register
\* of the setpoint though another entity, the console or the front panel wrote it, and the
\* preset is the one whose row names the state the heater is in, none if no row does.  A
\* preset whose command was acknowledged without a read-back is shown until the state is
\* read (on_mode_read()).
CardShowsTheHeater ==
  card # <<>> =>
    /\ Setpoint \notin outdated /\ Quiet(Setpoint) =>
         card.target = dev[ReadReg[Setpoint]][Field[Setpoint]]
    /\ Mode \in Entities \ outdated /\ Quiet(Mode) /\ ~commanded =>
         card.preset = PresetOf(Reading(dev[ReadReg[Mode]][Field[Mode]]))

\* The card is never half a pair: whatever is published, the heater has confirmed each part
\* of it, in whichever order the channels were read and acknowledged and however many of
\* those failed, and each byte is looked up in its own space (ready_(), on_mode_written()).
PairIsConfirmed ==
  [][card' # card =>
       /\ Unknown \notin {published'[c] : c \in Channels}
       /\ card'.target = published'[Setpoint]
       /\ Mode # NoEntity =>
            card'.preset = PresetOf(IF commanded' THEN Writing(published'[Mode])
                                                  ELSE Reading(published'[Mode]))]_climateVars
=============================================================================
