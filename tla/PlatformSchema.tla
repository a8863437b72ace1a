--------------------------- MODULE PlatformSchema ---------------------------
(***************************************************************************)
(* What `esphome config` accepts of a configuration and what the code      *)
(* generation makes of it: the platforms' validators and to_code()         *)
(* functions and the hub's final validation.  An entity is a record of     *)
(* EntityBuilder, a climate one of its own with its two channels.          *)
(***************************************************************************)
EXTENDS EntityBuilder

ReadDomains == {"sensor", "binary_sensor", "text_sensor"}
WriteDomains == {"number", "select", "switch", "text", "climate"}
AccessDomains == ReadDomains \cup WriteDomains
AddressDomains == AccessDomains \cup {"event"}
EntityDomains == (AddressDomains \ {"climate"}) \cup {"button"}

\* The `access:` values: which protocols have a telegram for one, and whether it writes.
AccessSpaces ==
  [a \in {"rpc", "gfa"} \cup GwgReadModes |->
     CASE a = "rpc" -> [protocols |-> {"P300"}, writable |-> FALSE]
       [] a = "gfa" -> [protocols |-> {"KW", "P300"}, writable |-> FALSE]
       [] OTHER -> [protocols |-> {"GWG"}, writable |-> a \in GwgWriteModes]]
\* protocol: with its aliases.
Protocols == [P300 |-> "P300", VS2 |-> "P300", KW |-> "KW", VS1 |-> "KW", GWG |-> "GWG"]

----------------------------------------------------------------------------
\* Keys.

KeysOf(e) ==
  {k \in {"access", "prefix", "length", "off", "blen", "state", "mask", "conv", "signed",
          "options", "values", "codes"} :
     CASE k = "access" -> e.access # ""
       [] k = "prefix" -> e.prefix # <<>>
       [] k = "length" -> e.length # 0
       [] k = "off" -> e.off # <<>>
       [] k = "blen" -> e.blen # <<>>
       [] k = "state" -> e.state # <<>>
       [] k = "mask" -> e.mask # <<>>
       [] k = "conv" -> e.conv # ""
       [] k = "signed" -> e.signed # <<>>
       [] k = "options" -> e.options # <<>>
       [] k = "values" -> e.values # <<>>
       [] k = "codes" -> e.codes # {}}

WriteKeys == {"access", "state", "length", "off", "blen", "mask"}
ReadKeys == {"access", "prefix", "length"}
KnownKeys(e) ==
  CASE e.platform = "number" -> WriteKeys \cup {"conv", "signed"}
    [] e.platform = "select" -> WriteKeys \cup {"options"}
    [] e.platform = "switch" -> WriteKeys \cup {"values"}
    [] e.platform = "sensor" -> ReadKeys \cup {"off", "blen", "mask", "conv", "signed"}
    [] e.platform = "binary_sensor" -> ReadKeys \cup {"off", "mask"}
    [] e.platform = "text_sensor" ->
         (CASE e.kind = "enum" -> ReadKeys \cup {"off", "blen", "mask", "options"}
            [] e.kind \in {"ascii", "utf16"} -> ReadKeys \cup {"off", "blen"}
            [] e.kind = "error_history" -> ReadKeys \cup {"codes"}
            [] e.kind = "raw" -> ReadKeys
            [] OTHER -> {})                                     \* device_id, scan_result
    [] e.platform = "text" -> {"access"}
    [] e.platform = "event" -> {"length", "codes"}
    [] e.platform = "button" -> IF e.kind = "action" THEN {"access", "prefix"} ELSE {}

\* The defaults of the schemas.
ErrorHistoryLength == 9
SchaltzeitenLength == 8
Defaults(e) ==
  LET length == IF e.length # 0 THEN e.length
                ELSE IF e.kind = "error_history" \/ e.platform = "event" THEN ErrorHistoryLength
                ELSE IF e.kind \in {"ascii", "utf16"} \/ e.platform = "sensor" THEN 0 \* required
                ELSE 1
      bit == e.platform = "binary_sensor"
  IN [e EXCEPT !.length = length,
               !.off = IF bit /\ @ = <<>> THEN <<0>> ELSE @,
               !.mask = IF bit /\ @ = <<>> THEN <<255>> ELSE @,
               !.conv = IF @ = "" /\ e.platform \in {"sensor", "number"} THEN "noconv" ELSE @,
               !.values = IF @ = <<>> /\ e.platform = "switch" THEN <<1, 0>> ELSE @]

----------------------------------------------------------------------------
\* Shapes shared by the platforms.

\* byte_length under extraction (one byte by default), else length.
FieldWidth(e) ==
  IF e.off = <<>> THEN e.length ELSE IF e.blen = <<>> THEN 1 ELSE e.blen[1]
IsBlockMode(e) == e.off # <<>> /\ e.state = <<>>

InsideBlock(e) == e.off # <<>> => e.off[1] + FieldWidth(e) <= e.length

\* validate_block_extraction(): number, select and switch.
BlockExtractionOk(e, plain) ==
  IF e.off = <<>> THEN e.blen = <<>> /\ e.length \in plain
  ELSE /\ e.length \in 1..MaxP300ReadLength
       /\ e.state = <<>> => e.length <= MaxRmwBlock
       /\ InsideBlock(e)

\* A mask is one run of adjacent bits, and a field of it holds 0..BitFieldMax.
LowBit(mask) == CHOOSE b \in {2^i : i \in 0..7} : mask % (2 * b) = b
Contiguous(mask) == mask # 0 /\ \E i \in 1..8 : mask + LowBit(mask) = 2^i
BitFieldMax(mask) == mask \div LowBit(mask)

\* validate_bit_field()
BitFieldOk(e) ==
  e.mask # <<>> =>
    /\ Contiguous(e.mask[1])
    /\ FieldWidth(e) = 1
    /\ e.signed # <<TRUE>>
    /\ e.platform \in WriteDomains => e.state = <<>>
BitFieldValuesOk(e, values) ==
  e.mask # <<>> => \A v \in values : v \in 0..BitFieldMax(e.mask[1])

FaultCodesOk(e) == e.codes \subseteq 0..255
OptionValues(e) == {e.options[i][1] : i \in DOMAIN e.options}
UniqueLabels(e) == \A i, j \in DOMAIN e.options : e.options[i][2] = e.options[j][2] => i = j

AccessOk(e) ==
  e.access # "" =>
    CASE e.platform \in WriteDomains -> e.access \in GwgReadModes
      [] e.platform = "button" -> e.access = "rpc"
      [] OTHER -> e.access \in DOMAIN AccessSpaces
PrefixOk(e) == e.prefix = <<>> \/ (e.prefix # Unparsable /\ Len(e.prefix) \in 1..RpcPrefixMax)

----------------------------------------------------------------------------
\* One schema per platform.

SensorOk(e) ==
  /\ e.length \in 1..(IF e.off = <<>> THEN 4 ELSE MaxP300ReadLength)
  /\ e.off # <<>> => e.conv \notin BigEndian
  /\ FieldWidth(e) \in Lengths[e.conv]
  /\ e.blen # <<>> => e.off # <<>>
  /\ InsideBlock(e)
  /\ BitFieldOk(e)

\* A bound that has no raw value is an error here rather than a write refused later.
EncodableRange(e) ==
  LET signed == ResolveSigned(e.signed, e.conv)
      fits(bound) == LET raw == LLRound(bound, Scale[e.conv]) IN
        IF e.mask # <<>> THEN raw \in 0..BitFieldMax(e.mask[1])
        ELSE RawFits(raw, FieldWidth(e), signed)
  IN fits(e.lo) /\ fits(e.hi) /\ e.lo <= e.hi
NumberOk(e) ==
  /\ e.conv \in Encodable /\ e.step >= 0
  /\ BlockExtractionOk(e, 1..4)
  /\ FieldWidth(e) \in Lengths[e.conv]
  /\ BitFieldOk(e)
  /\ EncodableRange(e)

SelectOk(e) ==
  /\ BlockExtractionOk(e, {1, 2}) /\ FieldWidth(e) \in {1, 2} /\ BitFieldOk(e)
  /\ e.options # <<>> /\ UniqueLabels(e)
  /\ \A v \in OptionValues(e) : RawFits(v, FieldWidth(e), FALSE)
  /\ BitFieldValuesOk(e, OptionValues(e))

SwitchOk(e) ==
  /\ BlockExtractionOk(e, {1, 2}) /\ FieldWidth(e) \in {1, 2} /\ BitFieldOk(e)
  /\ e.values[1] # e.values[2]
  /\ \A v \in ToSet(e.values) : RawFits(v, FieldWidth(e), FALSE)
  /\ BitFieldValuesOk(e, ToSet(e.values))

BinarySensorOk(e) == e.length \in 1..MaxP300ReadLength /\ e.off[1] < e.length

EnumOk(e) ==
  /\ e.length \in 1..(IF e.off = <<>> THEN 4 ELSE MaxP300ReadLength)
  /\ e.blen # <<>> => e.off # <<>> /\ e.blen[1] \in 1..4
  /\ InsideBlock(e) /\ BitFieldOk(e)
  /\ BitFieldValuesOk(e, OptionValues(e))
StringOk(e, max, even) ==
  /\ e.length \in 1..MaxP300ReadLength
  /\ (e.off # <<>>) = (e.blen # <<>>)
  /\ FieldWidth(e) \in 1..max /\ InsideBlock(e)
  /\ even => e.length >= 2 /\ (e.off # <<>> => FieldWidth(e) % 2 = 0)
TextSensorOk(e) ==
  CASE e.kind = "enum" -> EnumOk(e)
    [] e.kind = "ascii" -> StringOk(e, 32, FALSE)
    [] e.kind = "utf16" -> StringOk(e, 40, TRUE)
    [] e.kind = "error_history" -> e.length = ErrorHistoryLength /\ FaultCodesOk(e)
    [] e.kind = "raw" -> e.length \in 1..MaxP300ReadLength
    [] OTHER -> TRUE

EventOk(e) == e.length \in 1..9 /\ FaultCodesOk(e) /\ e.codes # {}
ButtonOk(e) == e.kind = "action" => e.access = "rpc"

\* A thermostat: its clamp goes to the wire as one byte of whole degrees, and a state
\* byte belongs to one preset.
SetpointMinDefault == 3000
SetpointMaxDefault == 37000
Bound(given, default) == IF given = <<>> THEN default ELSE given[1]
SetpointRangeOk(e) ==
  /\ \A bound \in {e.lo, e.hi} :
       bound # <<>> => bound[1] % 1000 = 0 /\ bound[1] \in 0..255000
  /\ Bound(e.lo, SetpointMinDefault) <= Bound(e.hi, SetpointMaxDefault)
PresetsOk(presets) ==
  /\ presets # <<>>
  /\ \A i, j \in DOMAIN presets :
       i # j => presets[i].name # presets[j].name /\ presets[i].reads \cap presets[j].reads = {}
ClimateOk(e) ==
  /\ SetpointRangeOk(e)
  /\ \A c \in {e} \cup ToSet(e.mode) : c.access # "" => c.access \in GwgReadModes
  /\ \A m \in ToSet(e.mode) : PresetsOk(m.presets)

SchemaOk(e0) ==
  IF e0.platform = "climate" THEN ClimateOk(e0)
  ELSE LET e == Defaults(e0) IN
       /\ KeysOf(e0) \subseteq KnownKeys(e0) /\ AccessOk(e) /\ PrefixOk(e)
       /\ CASE e.platform = "sensor" -> SensorOk(e)
            [] e.platform = "number" -> NumberOk(e)
            [] e.platform = "select" -> SelectOk(e)
            [] e.platform = "switch" -> SwitchOk(e)
            [] e.platform = "binary_sensor" -> BinarySensorOk(e)
            [] e.platform = "text_sensor" -> TextSensorOk(e)
            [] e.platform = "text" -> TRUE
            [] e.platform = "event" -> EventOk(e)
            [] e.platform = "button" -> ButtonOk(e)

----------------------------------------------------------------------------
\* The hub, and what only the whole configuration shows.

HubOk(hub) ==
  /\ hub.timeSync => hub.timeId
  /\ hub.unsafeRawWrites => hub.rawAccess = "unrestricted"
  /\ hub.rawAccess = "unrestricted" => hub.rawQueue > 0

HubFed == {"connectivity", "device_id", "scan_result", "refresh"}
HasAddress(e) == e.platform \in AddressDomains /\ e.kind \notin HubFed
AddressesOfOne(e) == {e.addr} \cup ToSet(e.state)
Addresses(e) ==
  {e.addr} \cup ToSet(e.state)
    \cup (IF e.platform = "climate" THEN UNION {{m.addr} \cup ToSet(m.state) : m \in ToSet(e.mode)}
          ELSE {})
AccessSlots(e) ==
  {e.access} \cup (IF e.platform = "climate" THEN {m.access : m \in ToSet(e.mode)} ELSE {})

RpcPrefixOk(e) ==
  e.platform \in ReadDomains \cup {"button"} /\ e.prefix # <<>> => e.access = "rpc"
AccessSpaceOk(e, protocol) ==
  e.platform \in AccessDomains \cup {"button"} =>
    \A a \in AccessSlots(e) \ {""} :
      /\ protocol \in AccessSpaces[a].protocols
      /\ e.platform \in WriteDomains => AccessSpaces[a].writable
\* GWG: one address byte, no clock, and a write names its mode.
GwgOk(e) ==
  /\ HasAddress(e) => \A a \in Addresses(e) : a <= AddressMax
  /\ e.platform \in WriteDomains => "" \notin AccessSlots(e)

FinalOk(hub, entities) ==
  LET protocol == Protocols[hub.protocol] IN
  /\ \A e \in ToSet(entities) : RpcPrefixOk(e) /\ AccessSpaceOk(e, protocol)
  /\ protocol = "GWG" => ~hub.timeId /\ \A e \in ToSet(entities) : GwgOk(e)

\* What the entity table is reserved for: never fewer than will register.
CapacityOnePerEntity(hub, entities) ==
  LET count(S) == Cardinality({i \in DOMAIN entities : entities[i].platform \in S})
  IN count(EntityDomains) + count({"climate"}) + (IF hub.timeId THEN 1 ELSE 0)
CapacityBound(hub, entities) ==
  LET count(S) == Cardinality({i \in DOMAIN entities : entities[i].platform \in S})
  IN count(EntityDomains) + 2 * count({"climate"}) + (IF hub.timeId THEN 1 ELSE 0)

----------------------------------------------------------------------------
\* Code generation: the setters of the C++ entity.

\* set_datapoint(), set_write_datapoint(), set_extract_*() and set_block_field().
Telegram(addr, length) == [addr |-> addr, length |-> length]
ReadTelegram(e) == Telegram(IF e.state = <<>> THEN e.addr ELSE e.state[1],
                            CASE e.platform = "text" -> SchaltzeitenLength
                              [] e.platform = "button" -> 1
                              [] OTHER -> e.length)
WriteTelegram(e) ==
  IF IsBlockMode(e) THEN <<>>
  ELSE IF e.off # <<>> THEN <<Telegram(e.addr, FieldWidth(e))>>
  ELSE IF e.state \notin {<<>>, <<e.addr>>} THEN <<Telegram(e.addr, e.length)>>
  ELSE <<>>
Extract(e) == IF e.off = <<>> THEN <<>> ELSE <<[off |-> e.off[1], width |-> FieldWidth(e)]>>

\* 0x00 is the empty slot of a fault event, not a fault.
EventCodes(e) == e.codes \ {0}

ToCode(e0) ==
  LET e == Defaults(e0)
      writes == e.platform \in WriteDomains
      numeric == e.platform \in {"sensor", "number"}
  IN [platform |-> e.platform, kind |-> e.kind,
      read |-> ReadTelegram(e),
      write |-> IF writes THEN WriteTelegram(e) ELSE <<>>,
      extract |-> Extract(e),
      block |-> IF writes /\ IsBlockMode(e) THEN Extract(e) ELSE <<>>,
      mask |-> e.mask,
      scale |-> IF numeric THEN Scale[e.conv] ELSE One,
      signed |-> numeric /\ ResolveSigned(e.signed, e.conv),
      bigEndian |-> e.conv \in BigEndian,
      filters |-> e.filters,
      options |-> OptionValues(e), values |-> e.values,
      codes |-> IF e.platform = "event" THEN EventCodes(e) ELSE e.codes,
      access |-> e.access, prefix |-> e.prefix]

\* What the hub sends for an entity: a datapoint without one of its own for writing is
\* written where it is read; a thermostat has two channels of one byte.
Channel(read, write, access) == [read |-> read, write |-> write, access |-> access]
ClimateChannel(c) ==
  LET target == Telegram(c.addr, 1) IN
  Channel(IF c.state = <<>> THEN target ELSE Telegram(c.state[1], 1), <<target>>, c.access)
Channels(e0) ==
  LET e == Defaults(e0) IN
  IF e0.platform = "climate"
  THEN <<ClimateChannel(e0)>> \o [i \in DOMAIN e0.mode |-> ClimateChannel(e0.mode[i])]
  ELSE IF e.kind \in HubFed THEN <<>>
  ELSE <<Channel(ReadTelegram(e),
                 IF e.platform \notin WriteDomains \cup {"button"} THEN <<>>
                 ELSE IF WriteTelegram(e) = <<>> THEN <<ReadTelegram(e)>> ELSE WriteTelegram(e),
                 e.access)>>

\* The calls of register_entity(): a hub-fed sensor goes to a table of its own, a refresh
\* button nowhere, a thermostat registers its channels.
Registers(e) ==
  IF e.kind \in HubFed THEN 0 ELSE IF e.platform = "climate" THEN 1 + Len(e.mode) ELSE 1
HubTable(e) ==
  CASE e.kind = "connectivity" -> "link"
    [] e.kind = "device_id" -> "device_id"
    [] e.kind = "scan_result" -> "raw_result"
    [] OTHER -> ""
=============================================================================
