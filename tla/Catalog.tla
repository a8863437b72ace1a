------------------------------ MODULE Catalog ------------------------------
(***************************************************************************)
(* From an export to a running configuration: generate() of the catalog    *)
(* generator (renderer.py), `esphome config` on the catalog beside what    *)
(* the user wrote by hand, and the code generation that registers every    *)
(* entity with the hub.                                                    *)
(*                                                                         *)
(* A job is one such run: the generator's arguments (protocol, german,     *)
(* profile, partialWrites, reachableOnly, emitDeviceId, emitErrorHistory,  *)
(* byGroup, excluded, faults, codeSet, chip), the rows of the device, the  *)
(* companion file included ("" for none), the hub and the entities written *)
(* by hand.  Ids and names are sequences of words.                         *)
(***************************************************************************)
EXTENDS SpecialRows, PlatformSchema

VARIABLES
  job,        \* never changed
  todo,       \* rows still to come, by address
  gen,        \* the locals of generate()
  output,     \* the package, in the order of its lines
  stage,
  entities,   \* the configuration the code generation walks through
  hub         \* what it has made of it: capacity, registered, failed, tables

vars == <<job, todo, gen, output, stage, entities, hub>>

\* A job the program can be given, as far as the theorems need to know: rows with their
\* numbers and a token, entities as the schemas build them from YAML.
IsSeq(s) == s \in Seq(ToSet(s))
AtMostOne(s) == s = <<>> \/ s = <<s[1]>>
RowOk(ev) ==
  /\ {ev.addr, ev.group, ev.blockFactor, ev.blockLength, ev.byteLength,
      ev.bytePosition, ev.bitLength, ev.bitPosition} \subseteq Nat
  /\ IsSeq(ev.tech) /\ ev.tech # <<>>
\* A row of an export, further: an option is a value the field can hold, in a field of at
\* most four bytes inside its block; a text is no bits.
ExportOk(ev) ==
  /\ IsSeq(ev.values) /\ \A i \in DOMAIN ev.values : ev.values[i].value \in Int
  /\ ev.bitLength > 0 => ev.conversion \notin {"HexByte2AsciiByte", "HexByte2UTF16Byte"}
  /\ ev.values # <<>> /\ ev.bitLength = 0 =>
       /\ FieldLen(ev) <= 4 /\ ev.bytePosition + FieldLen(ev) <= BlockLen(ev)
       /\ \A i \in DOMAIN ev.values : ev.values[i].value <= MaxRaw(FieldLen(ev))
\* Its numbers, where it has them; an offset comes with a factor (without one a field of
\* bits would add it, emitter.py:510, and a scalar would not, emitter.py:719).
NumbersOk(ev) ==
  /\ \A s \in {ev.factor, ev.lower, ev.upper, ev.stepping} :
       AtMostOne(s) /\ (s # <<>> => s[1] \in Int)
  /\ ev.offset \in Int
  /\ ev.conversion = "MultOffset" /\ FactorOf(ev) = <<>> => ev.offset = 0
ThermostatOk(e) ==
  /\ DOMAIN e = {"platform", "kind", "addr", "access", "prefix", "state", "lo", "hi", "mode"}
  /\ e.kind = "" /\ AtMostOne(e.state) /\ AtMostOne(e.mode)
  /\ \A m \in ToSet(e.mode) : AtMostOne(m.state)
EntityOk(e) ==
  IF e.platform = "climate" THEN ThermostatOk(e)
  ELSE /\ DOMAIN e = DOMAIN Blank /\ e.platform \in EntityDomains /\ AtMostOne(e.state)
       /\ e.platform = "button" => e.kind \in {"action", "refresh"}
AllOf(s, ok(_)) == IsSeq(s) /\ \A i \in DOMAIN s : ok(s[i])
JobOk(j) == AllOf(j.rows, RowOk) /\ AllOf(j.byHand, EntityOk)

\* A sequence sorted; before[i] are the indices of what comes before its i-th element.
InOrder(s, before) ==
  [n \in DOMAIN s |-> s[CHOOSE i \in DOMAIN s : Cardinality(before[i]) = n - 1]]

\* Events are taken by address, variants of one address in document order.
ByAddress(rows) ==
  LET before(j, i) == \/ rows[j].addr < rows[i].addr
                      \/ rows[j].addr = rows[i].addr /\ j < i
  IN InOrder(rows, [i \in DOMAIN rows |-> {j \in DOMAIN rows : before(j, i)}])

----------------------------------------------------------------------------
\* Ids and chunks.

\* _make_obj_id(): the seed, or the seed with the first free number from 2.
MakeObjId(seed, used) ==
  LET cand(i) == IF i = 1 THEN seed ELSE Append(seed, ToString(i))
  IN cand(CHOOSE i \in 1..Cardinality(used) + 1 :
            cand(i) \notin used /\ \A j \in 1..i - 1 : cand(j) \in used)

\* A chunk; a datapoint's own remembers its row, for the properties.
Piece(entity, name, group) ==
  [entity |-> entity, name |-> name, group |-> group, id |-> <<>>, row |-> <<>>]

AddChunk(g, piece, seed) ==
  LET id == MakeObjId(seed, g.usedIds) IN
  [g EXCEPT !.usedIds = @ \cup {id}, !.chunks = Append(@, [piece EXCEPT !.id = id])]
AddReal(g, piece, seed) == [AddChunk(g, piece, seed) EXCEPT !.real = @ + 1]

DeviceId == [Blank EXCEPT !.platform = "text_sensor", !.kind = "device_id"]
Fresh == [chunks |-> <<>>, usedIds |-> {}, seen |-> {}, actions |-> {}, deferred |-> <<>>,
          gfaIds |-> <<>>, real |-> 0]
Begin(j) ==
  IF j.emitDeviceId THEN AddChunk(Fresh, Piece(DeviceId, <<"device_type">>, 0), <<"device_type">>)
  ELSE Fresh

\* What makes two rows one field: variants of it fold into one entity.
FieldKey(ev) ==
  LET access == AccessFor(ev, job.protocol) IN
  <<ev.addr, ev.bytePosition, ev.bitPosition, access,
    CASE access = "rpc" -> ev.prefixRead
      [] access = "gfa" -> <<ev.conversion, ev.factor, ev.offset>>
      [] OTHER -> <<>>>>

\* One chunk per day of a weekly program.
AddDays(g, ev, entries) ==
  LET piece(e) == Piece(e.entity, e.name, ev.group)
      after[n \in 0..Len(entries)] ==
        IF n = 0 THEN [g EXCEPT !.seen = @ \cup {FieldKey(ev)}]
        ELSE AddReal(after[n - 1], piece(entries[n]), entries[n].seed)
  IN after[Len(entries)]

----------------------------------------------------------------------------
\* The loop over the rows: which branch takes one, and the branches.

Unreachable(ev) == job.reachableOnly /\ ~IsReachable(ev, job.protocol)
TooWide(addr) == job.protocol = "GWG" /\ addr > AddressMax
Filtered(ev) == ev.name \in job.excluded

Branch(ev) ==
  IF job.emitDeviceId /\ IsIdentification(ev) THEN "identification"
  ELSE IF job.emitErrorHistory /\ IsErrorHistory(ev) THEN "history"
  ELSE IF TooWide(ev.addr) THEN "wide"
  ELSE IF IsSchaltzeiten(ev) THEN "schaltzeiten"
  ELSE IF HydroShape(ev) # <<>> THEN "hydro"
  ELSE IF IsRpcAction(ev, job.protocol) THEN "action"
  ELSE "datapoint"

Row == Head(todo)
Take(branch, g) ==
  /\ stage = "rows" /\ todo # <<>> /\ Branch(Row) = branch
  /\ gen' = g
  /\ todo' = Tail(todo)
  /\ UNCHANGED <<job, output, stage, entities, hub>>

\* The device_id entity stands for the identification reads.
SkipIdentification == Take("identification", gen)
DropWideAddress == Take("wide", gen)

\* Fault archives wait for the count of real entities.
DeferHistory ==
  LET array == RpcArrayRecords(Row, job.protocol) # <<>>
      dropped == (Unreachable(Row) /\ ~array) \/ (Row.fcRead = "rpc" /\ ~array)
  IN Take("history", IF dropped THEN gen ELSE [gen EXCEPT !.deferred = Append(@, Row)])

\* A program with a day outside the address space is left out whole.
FanOutSchaltzeiten ==
  LET access == AccessFor(Row, job.protocol)
      dropped == \/ Unreachable(Row) \/ access = "rpc"
                 \/ TooWide(Row.addr + (Days - 1) * RecordLen)
                 \/ FieldKey(Row) \in gen.seen
  IN Take("schaltzeiten",
          IF dropped THEN gen ELSE AddDays(gen, Row, SchaltzeitenEntries(Row, access)))

FanOutHydro ==
  LET access == AccessFor(Row, job.protocol)
      dropped == Unreachable(Row) \/ access = "rpc" \/ FieldKey(Row) \in gen.seen
  IN Take("hydro", IF dropped THEN gen ELSE AddDays(gen, Row, HydroEntries(Row, access)))

\* A procedure becomes a button, unless a press would call it without the parameter by
\* which its siblings pick their function (in the code, siblings of the whole export).
EmitAction ==
  LET prefix == RpcActionParameter(Row)
      bare == prefix = <<>> /\ Row.addr \in RpcSelectorAddresses(ToSet(job.rows))
      dropped == \/ job.profile = "minimal" \/ Filtered(Row) \/ bare
                 \/ <<Row.addr, prefix>> \in gen.actions
      button == [At(Row) EXCEPT !.platform = "button", !.kind = "action",
                                !.access = "rpc", !.prefix = prefix]
      emitted == AddChunk(gen, Piece(button, Row.name, Row.group), Row.tech)
  IN Take("action", IF dropped THEN gen
                    ELSE [emitted EXCEPT !.actions = @ \cup {<<Row.addr, prefix>>}])

\* The read-only platforms alone take a reading by procedure or of the burner control.
EmitEntity ==
  LET access == AccessFor(Row, job.protocol)
      spec == BuildEntity(Row, job.protocol, job.german, job.partialWrites,
                          ReadOnlyBlocks(ToSet(job.rows), job.protocol))
      dropped == \/ ~ProfileKeep(Row, job.profile) \/ Filtered(Row)
                 \/ FieldKey(Row) \in gen.seen \/ Unreachable(Row)
                 \/ spec.platform = "comment"
                 \/ access \in {"rpc", "gfa"} /\ spec.platform \notin ReadDomains
      entity == [spec EXCEPT !.access = access,
                             !.prefix = IF access = "rpc" THEN Row.prefixRead ELSE <<>>]
      emitted == AddReal(gen, [Piece(entity, Row.name, Row.group) EXCEPT !.row = <<Row>>],
                         Row.tech)
  IN Take("datapoint", IF dropped THEN gen
                       ELSE [emitted EXCEPT !.seen = @ \cup {FieldKey(Row)}])

RowsDone ==
  /\ stage = "rows" /\ todo = <<>>
  /\ stage' = "history"
  /\ UNCHANGED <<job, todo, gen, output, entities, hub>>

----------------------------------------------------------------------------
\* Second pass: one archive.

\* The generic archive answers on no unit without a datapoint, and has no GWG address.
Suppressed(ev) == ~IsSlot(ev) /\ (gen.real = 0 \/ job.protocol = "GWG")

AddSlot(g, entry, ev) ==
  LET e == entry.entity
      key == <<e.addr, 0, 0, e.access, e.prefix>>
      added == AddReal(g, Piece(e, entry.name, ev.group), entry.seed)
  IN IF TooWide(e.addr) \/ key \in g.seen THEN g
     ELSE [added EXCEPT !.seen = @ \cup {key},
             !.gfaIds = IF entry.map = "gfa" THEN Append(@, Last(added.chunks).id) ELSE @]

AddSlots(g, entries, ev) ==
  LET after[n \in 0..Len(entries)] ==
        IF n = 0 THEN g ELSE AddSlot(after[n - 1], entries[n], ev)
  IN after[Len(entries)]

EmitHistory ==
  /\ stage = "history" /\ gen.deferred # <<>>
  /\ LET ev == Head(gen.deferred)
         rest == [gen EXCEPT !.deferred = Tail(@)]
         slots == ErrorHistoryEntries(ev, AccessFor(ev, job.protocol), job.protocol)
         codes == ResolveFaultCodes(job.faults, job.codeSet)
         gfaCodes == IF job.codeSet = "none" THEN {} ELSE ResolveGfaCodes(job.faults, job.chip)
     IN gen' = IF Suppressed(ev) THEN rest
               ELSE AddSlots(rest, [i \in DOMAIN slots |-> WithCodes(slots[i], codes, gfaCodes)],
                             ev)
  /\ UNCHANGED <<job, todo, output, stage, entities, hub>>

----------------------------------------------------------------------------
\* The package.

\* Names that repeat within a platform: every one of them gets its id.
MakeNamesUnique(chunks) ==
  [i \in DOMAIN chunks |->
     IF \E j \in DOMAIN chunks \ {i} : /\ chunks[j].entity.platform = chunks[i].entity.platform
                                       /\ chunks[j].name = chunks[i].name
     THEN [chunks[i] EXCEPT !.name = @ \o <<"(">> \o chunks[i].id \o <<")">>]
     ELSE chunks[i]]

PlatformOrder == <<"sensor", "binary_sensor", "number", "select", "switch", "text",
                   "text_sensor", "button">>
\* By platform, then by group where asked, then as generated.
InOutputOrder(chunks) ==
  LET rank(c) == CHOOSE k \in DOMAIN PlatformOrder : PlatformOrder[k] = c.entity.platform
      group(c) == IF job.byGroup THEN c.group ELSE 0
      before(j, i) ==
        LET a == chunks[j] b == chunks[i] IN
        \/ rank(a) < rank(b)
        \/ rank(a) = rank(b) /\ (group(a) < group(b) \/ (group(a) = group(b) /\ j < i))
  IN InOrder(chunks, [i \in DOMAIN chunks |-> {j \in DOMAIN chunks : before(j, i)}])

\* A map of codes is written once, under an anchor; its repetitions are aliases.
NoMark == <<>>
ShareCodesAsGenerated(chunks) ==
  LET made(m) == CHOOSE k \in DOMAIN gen.chunks : gen.chunks[k].id = chunks[m].id IN
  [n \in DOMAIN chunks |->
     LET codes == chunks[n].entity.codes
         same == {m \in DOMAIN chunks : chunks[m].entity.codes = codes}
         first == CHOOSE m \in same : \A k \in same : made(m) <= made(k)
     IN [chunk |-> [chunks[n] EXCEPT !.entity.codes = IF first = n THEN codes ELSE {}],
         anchor |-> IF codes # {} /\ first = n THEN chunks[n].id ELSE NoMark,
         alias |-> IF codes # {} /\ first # n THEN chunks[first].id ELSE NoMark]]
ShareCodes(chunks) ==
  [n \in DOMAIN chunks |->
     LET codes == chunks[n].entity.codes
         first == CHOOSE m \in 1..n : /\ chunks[m].entity.codes = codes
                                      /\ \A k \in 1..m - 1 : chunks[k].entity.codes # codes
     IN [chunk |-> [chunks[n] EXCEPT !.entity.codes = IF first = n THEN codes ELSE {}],
         anchor |-> IF codes # {} /\ first = n THEN chunks[n].id ELSE NoMark,
         alias |-> IF codes # {} /\ first # n THEN chunks[first].id ELSE NoMark]]

\* render_entity_lines(): a key that is set is a line; filters are a sensor's alone, a
\* range a number's, and a switch leaves out the values that are the schema's default.
Rendered(e) ==
  [e EXCEPT !.values = IF e.platform = "switch" /\ @ # <<1, 0>> THEN @ ELSE <<>>,
            !.filters = IF e.platform = "sensor" THEN @ ELSE <<>>,
            !.lo = IF e.platform = "number" THEN @ ELSE 0,
            !.hi = IF e.platform = "number" THEN @ ELSE 0,
            !.step = IF e.platform = "number" THEN @ ELSE 0]

WritePackage ==
  /\ stage = "history" /\ gen.deferred = <<>>
  /\ output' = LET lines == ShareCodes(InOutputOrder(MakeNamesUnique(gen.chunks)))
               IN [n \in DOMAIN lines |-> [lines[n] EXCEPT !.chunk.entity = Rendered(@)]]
  /\ stage' = "written"
  /\ UNCHANGED <<job, todo, gen, entities, hub>>

----------------------------------------------------------------------------
\* `esphome config`: the YAML loader, the schemas, the hub's final validation.

AnchorBefore(lines, n) == {m \in 1..n - 1 : lines[m].anchor = lines[n].alias}
AliasesResolve(lines) ==
  \A n \in DOMAIN lines : lines[n].alias # NoMark => AnchorBefore(lines, n) # {}
LoadedEntity(lines, n) ==
  LET e == lines[n].chunk.entity IN
  IF lines[n].alias = NoMark THEN e
  ELSE [e EXCEPT !.codes = lines[CHOOSE m \in AnchorBefore(lines, n) : TRUE].chunk.entity.codes]

\* The companion file of a chip extends the slots of the catalog by id: maps are merged.
Companions(j, slotIds) ==
  IF j.companion = "" \/ slotIds = <<>> THEN {}
  ELSE ToSet(GfaCompanion(j.faults, j.companion, slotIds))
Extended(e, id, companions) ==
  IF \E c \in companions : c.extend = id
  THEN [e EXCEPT !.codes = @ \cup (CHOOSE c \in companions : c.extend = id).codes] ELSE e

\* ESPHome refuses an id given twice, and a name given twice on a platform.
NamedApart(lines) ==
  \A n, m \in DOMAIN lines : n # m =>
    LET a == lines[n].chunk b == lines[m].chunk IN
    a.id # b.id /\ (a.entity.platform = b.entity.platform => a.name # b.name)

FromPackage(lines) ==
  [n \in DOMAIN lines |-> Extended(LoadedEntity(lines, n), lines[n].chunk.id,
                                   Companions(job, gen.gfaIds))]

Valid(configuration) ==
  /\ \A e \in ToSet(configuration) : SchemaOk(e)
  /\ HubOk(job.hub) /\ FinalOk(job.hub, configuration)

LoadConfiguration ==
  /\ stage = "written"
  /\ LET whole == FromPackage(output) \o job.byHand
         ok == AliasesResolve(output) /\ NamedApart(output) /\ Valid(whole)
     IN /\ stage' = IF ok THEN "accepted" ELSE "refused"
        /\ entities' = IF ok THEN whole ELSE <<>>
        /\ hub' = [hub EXCEPT !.capacity = IF ok THEN CapacityBound(job.hub, whole) ELSE 0]
  /\ UNCHANGED <<job, todo, gen, output>>

----------------------------------------------------------------------------
\* Code generation and setup(): every entity registers itself, the clock comes last.

\* register_entity(): a full registry drops the entity and fails the component.
Register(h, n) ==
  [h EXCEPT !.registered = IF @ + n <= h.capacity THEN @ + n ELSE h.capacity,
            !.failed = @ \/ h.registered + n > h.capacity]

ToCodeEntity ==
  /\ stage = "accepted" /\ entities # <<>>
  /\ LET e == Head(entities) IN
     hub' = [Register(hub, Registers(e)) EXCEPT
               !.tables = IF HubTable(e) = "" THEN @ ELSE [@ EXCEPT ![HubTable(e)] = @ + 1]]
  /\ entities' = Tail(entities)
  /\ UNCHANGED <<job, todo, gen, output, stage>>

SetUp ==
  /\ stage = "accepted" /\ entities = <<>>
  /\ hub' = IF job.hub.timeId THEN Register(hub, 1) ELSE hub
  /\ stage' = "running"
  /\ UNCHANGED <<job, todo, gen, output, entities>>

----------------------------------------------------------------------------
Init(j) ==
  /\ job = j
  /\ todo = ByAddress(job.rows)
  /\ gen = Begin(job)
  /\ output = <<>> /\ stage = "rows" /\ entities = <<>>
  /\ hub = [capacity |-> 0, registered |-> 0, failed |-> FALSE,
            tables |-> [link |-> 0, device_id |-> 0, raw_result |-> 0]]

Next ==
  \/ SkipIdentification \/ DropWideAddress \/ DeferHistory
  \/ FanOutSchaltzeiten \/ FanOutHydro \/ EmitAction \/ EmitEntity \/ RowsDone
  \/ EmitHistory \/ WritePackage
  \/ LoadConfiguration \/ ToCodeEntity \/ SetUp

----------------------------------------------------------------------------
\* Properties.

Accepted == stage \in {"accepted", "running"}
\* The entities of the finished package that stand for one row.
OfRows == IF stage = "written" THEN {n \in DOMAIN output : output[n].chunk.row # <<>>} ELSE {}
RowOf(n) == output[n].chunk.row[1]
EntityOf(n) == LoadedEntity(output, n)
CodeOf(n) == ToCode(EntityOf(n))

\* Whatever the generator writes for a protocol, a hub of that protocol takes: its
\* tables of widths, scales, platforms and spaces are the component's copied by hand
\* (constants.py, emitter.py against __init__.py and the platforms).
EmittedAccepted ==
  stage = "refused" /\ Protocols[job.hub.protocol] = job.protocol => ~Valid(job.byHand)

\* No accepted configuration, a catalog of another protocol or a hand-written entity in
\* it or not, has a telegram that starts outside the protocol's addresses or is of a
\* space it has no telegram for: the hub would drop it at every poll (__init__.py,
\* _final_validate(); that an EEPROM run may still end past FF it does not check).
AcceptedAddressable ==
  Accepted =>
    LET protocol == Protocols[job.hub.protocol] IN
    \A e \in ToSet(entities) : \A c \in ToSet(Channels(e)) :
      /\ protocol = "GWG" => \A t \in {c.read} \cup ToSet(c.write) : t.addr <= AddressMax
      /\ c.access # "" => protocol \in AccessSpaces[c.access].protocols
      /\ protocol = "GWG" /\ c.write # <<>> =>
           c.access \in DOMAIN AccessSpaces /\ AccessSpaces[c.access].writable

\* The bits <<byte, bit>> of its block that a row is, counted as Vitosoft counts them,
\* and those the compiled entity takes out of the answer.
Bits(bytes) == bytes \X (0..7)
RowBits(ev) ==
  IF ev.bitLength > 0
  THEN {<<i \div 8, 7 - (i % 8)>> : i \in ev.bitPosition..ev.bitPosition + ev.bitLength - 1}
  ELSE Bits(ev.bytePosition..ev.bytePosition + FieldLen(ev) - 1)
CodeBits(c) ==
  LET first == IF c.extract = <<>> THEN 0 ELSE c.extract[1].off
      width == IF c.extract = <<>> THEN c.read.length ELSE c.extract[1].width
  IN {b \in Bits(first..first + width - 1) :
        c.mask # <<>> => (c.mask[1] \div 2^b[2]) % 2 = 1}

\* An entity shows the bits of its row and no others; a text of options may leave out
\* the high bytes no option needs (emitter.py against the platforms' to_code()).
ReadsItsField ==
  \A n \in OfRows :
    LET read == CodeBits(CodeOf(n))
        row == RowBits(RowOf(n))
    IN /\ read \subseteq row
       /\ CodeOf(n).kind # "enum" => read = row
       /\ \E b \in read : \A r \in row : b[1] <= r[1]

\* A write changes the bits of its row and no others, at the row's address, and when it
\* takes the rest of a block along, nothing the export calls read-only is in that block
\* (_block_write_blocker(), emit_write_target()).  A field in a single byte is exempt,
\* as in the code.
WritesOnlyItsField ==
  \A n \in OfRows :
    LET c == CodeOf(n)
        ev == RowOf(n)
        sent == Channels(EntityOf(n))[1].write[1]
        merged == c.block # <<>> \/ c.mask # <<>>
    IN c.platform \in WriteDomains =>
         /\ sent.addr = ev.addr
         /\ (IF merged THEN CodeBits(c) ELSE Bits(0..sent.length - 1)) = RowBits(ev)
         /\ merged /\ sent.length > 1 =>
              \A r \in ToSet(job.rows) :
                r.addr = ev.addr /\ AccessFor(r, job.protocol) = c.access
                  => IsWritable(r, job.protocol)

\* A value in thousandths of an answer's raw number, as the compiled entity computes it
\* and as Vitosoft's Conversion defines it.
ScaledBy(v, f) ==
  IF f[1] > 0 /\ f[2] % f[1] = 0 THEN v \div (f[2] \div f[1])
  ELSE IF f[1] % f[2] = 0 THEN v * (f[1] \div f[2]) ELSE (v * f[1]) \div f[2]
Filtered1(v, f) == IF f[1] = "offset" THEN v + f[2] ELSE ScaledBy(v, <<f[2], f[3]>>)
CodeValue(c, raw) == FoldLeft(Filtered1, ScaledBy(1000 * raw, c.scale), c.filters)
VitosoftScale ==
  [Div2 |-> <<1, 2>>, Div10 |-> <<1, 10>>, Div100 |-> <<1, 100>>, Div1000 |-> <<1, 1000>>,
   Mult2 |-> <<2, 1>>, Mult5 |-> <<5, 1>>, Mult10 |-> <<10, 1>>, Mult100 |-> <<100, 1>>,
   Sec2Hour |-> <<1, 3600>>, RotateBytes |-> One]
VitosoftValue(ev, raw) ==
  IF ev.conversion = "MultOffset"
  THEN ScaledBy(1000 * raw, IF FactorOf(ev) = <<>> THEN One ELSE <<ev.factor[1], 1000>>)
       + (IF FactorOf(ev) = <<>> THEN 0 ELSE ev.offset)
  ELSE ScaledBy(1000 * raw, VitosoftScale[ev.conversion])

\* A number or a sensor decodes to the value of its row: preset, factor, offset, the
\* width a preset does not have, in one byte or in a block (build_entity_spec()).
DecodesTheValue ==
  \A n \in OfRows :
    LET c == CodeOf(n) ev == RowOf(n) IN
    /\ c.platform \in {"sensor", "number"} /\ ~ev.negUnit
    /\ ev.conversion \in DOMAIN VitosoftScale \cup {"MultOffset"}
    => \A raw \in {0, 360} : CodeValue(c, raw) = VitosoftValue(ev, raw)

\* A value whose raw number is negative: below that of raw number 0, or above it where the
\* values fall as the raw numbers rise.
RawNegative(c, v) ==
  IF CodeValue(c, 0) < CodeValue(c, 360) THEN v < CodeValue(c, 0) ELSE v > CodeValue(c, 0)

\* A number or a sensor whose row goes below zero reads its field as signed exactly when the
\* raw number of the lower border is negative, whatever gave the sign (signed:, the preset's
\* own, a filter's offset that takes it away).  Read otherwise, the border or the upper half
\* of the field would wrap (decode.h).  Nothing is said of whether the field has room for
\* the border: the export's, -20.0 in tenths does not fit one byte.
SignFitsBorder ==
  \A n \in OfRows :
    LET c == CodeOf(n) ev == RowOf(n) IN
    /\ c.platform \in {"sensor", "number"} /\ ~ev.negUnit
    /\ ev.lower # <<>> /\ ev.lower[1] < 0 /\ ev.bitLength = 0
    /\ ScaleFromBounds(ev, job.protocol).kind # "ambiguous"
    => (c.signed <=> RawNegative(c, ev.lower[1]))

\* The texts a fault slot was given reach it through anchor and alias, in the order the
\* package has after sorting (_share_codes_blocks()).
CodesArrive ==
  stage = "written" =>
    /\ AliasesResolve(output)
    /\ \A n \in DOMAIN output : \A m \in DOMAIN gen.chunks :
         gen.chunks[m].id = output[n].chunk.id => EntityOf(n).codes = gen.chunks[m].entity.codes

\* The registry reserved before the first entity holds the last, the clock included.
CapacityEnough == ~hub.failed

\* The catalogs of two languages differ in their texts alone.
Shape(e) == [e EXCEPT !.options = [i \in DOMAIN @ |-> @[i][1]], !.access = "", !.prefix = <<>>]
InOtherLanguage(ev) ==
  BuildEntity(ev, job.protocol, ~job.german, job.partialWrites,
              ReadOnlyBlocks(ToSet(job.rows), job.protocol))
SameInEveryLanguage ==
  \A n \in OfRows : Shape(EntityOf(n)) = Shape(Rendered(InOtherLanguage(RowOf(n))))
=============================================================================
