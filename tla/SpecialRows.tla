---------------------------- MODULE SpecialRows ----------------------------
(***************************************************************************)
(* Rows the generator does not turn into one entity each (special.py):     *)
(* identification, the weekly programs, the fault archives.  What the code *)
(* reads off a row's token is a field of the row: ev.fault ("archive" of   *)
(* the system, "slot" of a burner's or another part's, "index" pointer),   *)
(* ev.slot, ev.tag (which archive or part), ev.program (it is named        *)
(* Schaltzeiten).  An entry is the entity's YAML keys with its id's seed   *)
(* and its name, both sequences of words.                                  *)
(***************************************************************************)
EXTENDS EntityBuilder

IdentAddresses == \hF8..\hFB
IsIdentification(ev) == ev.addr \in IdentAddresses

Days == 7
RecordLen == 8
Weekdays == <<"mo", "di", "mi", "do", "fr", "sa", "so">>
Entry(e, seed) == [entity |-> e, seed |-> seed, name |-> seed, map |-> ""]

----------------------------------------------------------------------------
\* Weekly programs.

\* 56 bytes in 7 records of 8, read as PhaseCT or, in older exports, so named.
IsSchaltzeiten(ev) ==
  /\ ev.mapping = "PhaseCT" \/ (ev.mapping = "" /\ ev.program)
  /\ Or(ev.byteLength, ev.blockLength) = Days * RecordLen
  /\ ev.blockFactor = Days

SchaltzeitenEntries(ev, access) ==
  [d \in 1..Days |->
     Entry([At(ev) EXCEPT !.platform = "text", !.addr = ev.addr + (d - 1) * RecordLen,
                          !.access = access, !.poll = "coding"],
           <<"schaltzeit">> \o Append(ev.tech, Weekdays[d]))]

\* A heat pump's: one address per record, a whole number of records per day.
HydroMappings == {"HydroCT", "HydroPhaseCT"}
HydroShape(ev) ==
  LET len == Or(ev.blockLength, ev.byteLength)
      count == ev.blockFactor
  IN IF /\ ev.mapping \in HydroMappings /\ len > 0 /\ count > 0
        /\ len % count = 0 /\ count % Days = 0
        /\ len \div Days <= MaxP300ReadLength
     THEN <<count \div Days, len \div count>> ELSE <<>>

HydroEntries(ev, access) ==
  LET perDay == HydroShape(ev)[1]
      recordLen == HydroShape(ev)[2]
  IN [d \in 1..Days |->
        Entry([At(ev) EXCEPT !.platform = "text_sensor", !.kind = "raw",
                             !.addr = ev.addr + (d - 1) * perDay,
                             !.length = perDay * recordLen,
                             !.access = access, !.poll = "coding"],
              Append(ev.tech, Weekdays[d]))]

----------------------------------------------------------------------------
\* Fault archives: the system's, and the slots of the burner control and other parts.

ErrorHistoryAddress == \h7507
IsErrorHistory(ev) ==
  ev.fault # "index" /\ (ev.fault \in {"archive", "slot"} \/ ev.addr = ErrorHistoryAddress)
IsSlot(ev) == ev.fault = "slot"
BurnerControl == "GFA"

\* A second archive of a unit has a tag in its names.
Tagged(words, tag) == IF tag = "" THEN words ELSE Append(words, tag)
FaultWord(i) == IF i = 1 THEN <<"letzter_fehler">> ELSE <<"fehler", ToString(i)>>

FaultSlot(ev, addr, access) ==
  [At(ev) EXCEPT !.platform = "text_sensor", !.kind = "error_history", !.addr = addr,
                 !.access = access, !.length = 9, !.poll = "error"]

\* One record per call, its index the parameter; the layout is not decoded.
RpcRecordEntries(ev, records) ==
  [i \in 1..records[1] |->
     Entry([At(ev) EXCEPT !.platform = "text_sensor", !.kind = "raw", !.access = "rpc",
                          !.prefix = <<i - 1>>, !.length = records[2], !.poll = "error"],
           Tagged(FaultWord(i), ev.tag))]

\* How many slots the block holds, and how far apart.
SlotShape(ev) ==
  LET len == Or(Or(ev.byteLength, ev.blockLength), 9)
      count == ev.blockFactor
  IN IF count > 1 /\ len % count = 0 /\ len \div count >= 9 THEN <<count, len \div count>>
     ELSE IF len >= 90 THEN <<10, 9>>
     ELSE <<1, 9>>

\* Which code space a slot's codes are of: "map" names the table it gets.
ErrorHistoryEntries(ev, access, protocol) ==
  LET records == RpcArrayRecords(ev, protocol)
      shape == SlotShape(ev)
  IN IF records # <<>> THEN RpcRecordEntries(ev, records)
     ELSE IF IsSlot(ev) THEN
            <<[Entry(FaultSlot(ev, ev.addr, access), <<ev.tag, "fehler", ToString(ev.slot)>>)
                 EXCEPT !.map = IF ev.tag = BurnerControl THEN "gfa" ELSE ""]>>
     ELSE
            [i \in 1..shape[1] |->
               [Entry(FaultSlot(ev, ev.addr + (i - 1) * shape[2], access),
                      Tagged(FaultWord(i), ev.tag)) EXCEPT !.map = "system"]]

----------------------------------------------------------------------------
\* The texts of the codes.  An export has per device, generic and burner-chip sets of
\* codes; a curated set stands for those of fault_codes.py.
CuratedCodes == {0, 16, 17}

ResolveFaultCodes(faults, option) ==
  IF option = "none" THEN {}
  ELSE IF option = "curated" THEN CuratedCodes
  ELSE IF faults.device # {} THEN faults.device
  ELSE IF faults.generic # {} /\ faults.errorType = "default" THEN faults.generic
  ELSE IF option = "auto" /\ ~faults.anyDevice /\ faults.generic = {} THEN CuratedCodes
  ELSE {}

\* The chip is a property of the unit: without it, a companion file adds the texts.
ResolveGfaCodes(faults, chip) ==
  IF chip = "" \/ chip \notin DOMAIN faults.chips THEN {} ELSE faults.chips[chip]

\* What an entry gets of them, by its code space.
WithCodes(entry, systemCodes, gfaCodes) ==
  [entry EXCEPT !.entity.codes = CASE entry.map = "system" -> systemCodes
                                   [] entry.map = "gfa" -> gfaCodes
                                   [] OTHER -> {}]

\* A chip's companion file: the same codes under every slot of the catalog.
GfaCompanion(faults, chip, slotIds) ==
  [i \in DOMAIN slotIds |-> [extend |-> slotIds[i], codes |-> faults.chips[chip]]]
=============================================================================
