----------------------------- MODULE MCCatalog -----------------------------
(* Jobs for TLC: every shape of one row, and small devices of special rows. *)
EXTENDS Catalog

\* A row of the export, plain in every respect.
Plain ==
  [addr |-> 16, tech |-> <<"t">>, name |-> <<"n">>, group |-> 0,
   fcRead |-> "virtual", fcWrite |-> "virtual", accessType |-> 1,
   conversion |-> "NoConversion", factor |-> <<>>, offset |-> 0, parameterType |-> "",
   blockLength |-> 1, byteLength |-> 1, bytePosition |-> 0, bitLength |-> 0, bitPosition |-> 0,
   lower |-> <<>>, upper |-> <<>>, stepping |-> <<>>, values |-> <<>>,
   blockFactor |-> 0, prefixRead |-> <<>>, prefixWrite |-> <<>>, functionValue |-> <<>>,
   rohwert |-> FALSE, lon |-> FALSE, unit |-> FALSE, negUnit |-> FALSE, mapping |-> "", program |-> FALSE,
   fault |-> "", slot |-> 0, tag |-> ""]

Faults == [device |-> {1, 2}, generic |-> {1}, anyDevice |-> TRUE, errorType |-> "default",
           chips |-> [c24 |-> {3, 4}]]
Hub(protocol) == [protocol |-> protocol, timeId |-> FALSE, timeSync |-> FALSE,
                  rawAccess |-> "protected", unsafeRawWrites |-> FALSE, rawQueue |-> 8]
Job(protocol, rows) ==
  [protocol |-> protocol, german |-> TRUE, profile |-> "full", partialWrites |-> TRUE,
   reachableOnly |-> TRUE, emitDeviceId |-> FALSE, emitErrorHistory |-> TRUE, byGroup |-> FALSE,
   excluded |-> {}, faults |-> Faults, codeSet |-> "auto", chip |-> "", companion |-> "",
   rows |-> rows, hub |-> Hub(protocol), byHand |-> <<>>]

----------------------------------------------------------------------------
\* One row.

\* <<block, bytes, byte position, bits, bit position>>: scalars of every width, alone
\* and in a block, a block of more than one write, of more than one telegram; bits alone
\* in their byte, in a block, with either spelling of the byte, over the byte's edge.
Shapes ==
  {<<1, 1, 0, 0, 0>>, <<2, 2, 0, 0, 0>>, <<3, 3, 0, 0, 0>>, <<4, 4, 0, 0, 0>>, <<8, 8, 0, 0, 0>>,
   <<8, 2, 0, 0, 0>>, <<8, 2, 3, 0, 0>>, <<8, 1, 7, 0, 0>>, <<22, 2, 2, 0, 0>>, <<50, 2, 2, 0, 0>>,
   <<1, 1, 0, 1, 7>>, <<1, 1, 0, 4, 0>>, <<8, 1, 0, 4, 12>>, <<8, 1, 1, 4, 12>>,
   <<8, 1, 0, 1, 9>>, <<8, 1, 2, 1, 9>>, <<1, 1, 0, 4, 6>>, <<1, 1, 0, 8, 0>>}
Shaped(row, s) ==
  [row EXCEPT !.blockLength = s[1], !.byteLength = s[2], !.bytePosition = s[3],
              !.bitLength = s[4], !.bitPosition = s[5]]

\* <<lower, upper, stepping>>: none; plain; below zero; by halves from zero, from below;
\* more than a byte holds.
Borders ==
  {<<<<>>, <<>>, <<>>>>, <<<<0>>, <<100000>>, <<1000>>>>, <<<<-20000>>, <<70000>>, <<1000>>>>,
   <<<<0>>, <<10000>>, <<500>>>>, <<<<-10000>>, <<10000>>, <<500>>>>,
   <<<<0>>, <<300000>>, <<1000>>>>}
Bordered(row, b) == [row EXCEPT !.lower = b[1], !.upper = b[2], !.stepping = b[3]]

Conversions ==
  {<<c, <<>>, 0>> : c \in {"NoConversion", "Div10", "Div1000", "Mult5", "Sec2Hour", "Sec2Minute",
                           "RotateBytes", "DateBCD", "HexByte2AsciiByte", "HexByte2UTF16Byte",
                           "MultOffset"}}
  \cup {<<"MultOffset", <<500>>, -16000>>, <<"MultOffset", <<10000>>, 0>>,
        <<"MultOffset", <<2500>>, 0>>, <<"NoConversion", <<500>>, 0>>}
Converted(row, c) == [row EXCEPT !.conversion = c[1], !.factor = c[2], !.offset = c[3]]

Option(v, german, label) == [value |-> v, german |-> german, label |-> label]
ValueLists ==
  {<<Option(1, "ein", "on"), Option(0, "aus", "off")>>,
   <<Option(2, "nicht vorhanden", ""), Option(5, "vorhanden", "present")>>,
   <<Option(0, "aus", "off"), Option(1, "Tag", "day"), Option(2, "Nacht", "day"), Option(1, "x", "")>>,
   <<Option(-1, "x", ""), Option(300, "hoch", "high")>>}

\* What a value means: <<conversion, borders, options, type, unit negated>>.
Meanings ==
  (Conversions \X Borders \X {<<>>} \X {"", "unsigned"} \X {FALSE})
  \cup ({<<"NoConversion", <<>>, 0>>} \X {<<<<>>, <<>>, <<>>>>} \X ValueLists \X {""} \X {FALSE})
  \cup {<<<<"NoConversion", <<>>, 0>>, <<<<>>, <<>>, <<>>>>, <<>>, "", TRUE>>}
Meant(row, m) ==
  [Bordered(Converted(row, m[1]), m[2]) EXCEPT !.values = m[3], !.parameterType = m[4],
                                               !.unit = m[5], !.negUnit = m[5]]

\* How a protocol's rows are read and written.
Functions(protocol) ==
  IF protocol = "GWG" THEN <<<<"eeprom", "eeprom">>, <<"kmbus_eeprom", "">>, <<"physical", "eeprom">>>>
  ELSE <<<<"virtual", "virtual">>, <<"virtual", "prozess">>, <<"rpc", "">>>>
Accessed(row, f) == [row EXCEPT !.fcRead = f[1], !.fcWrite = f[2]]

\* An export gives no option a scalar field cannot hold, nor options to one of more than
\* four bytes: a writable one would become a number of that length.
OptionsAreValues(s, m) ==
  /\ m[3] # <<>> => s[2] <= 4
  /\ \A i \in DOMAIN m[3] : m[3][i].value <= IF s[4] > 0 THEN 2147483647 ELSE MaxRaw(s[2])
\* Nor a text in bits, nor bytes to be swapped inside a block: the generator would emit
\* rotatebytes with a byte_offset, which the sensor refuses.
Texts == {"HexByte2AsciiByte", "HexByte2UTF16Byte"}
Sensible(s, m) == /\ s[4] > 0 => m[1][1] \notin Texts
                  /\ s[3] > 0 => m[1][1] # "RotateBytes"

\* At a plain address, and at a command whose state is elsewhere.
OneRow ==
  \E s \in Shapes, m \in Meanings, at \in {<<"P300", 16>>, <<"P300", \h2330>>, <<"GWG", 16>>}, f \in 1..3,
     w \in {<<1, TRUE>>, <<3, TRUE>>, <<3, FALSE>>} :
    /\ OptionsAreValues(s, m) /\ Sensible(s, m)
    /\ Init([Job(at[1], <<Accessed([Meant(Shaped(Plain, s), m) EXCEPT !.addr = at[2], !.accessType = w[1]],
                                   Functions(at[1])[f])>>) EXCEPT !.partialWrites = w[2]])

----------------------------------------------------------------------------
\* Devices: the rows that are treated apart, one alone or two beside a reading, under each
\* argument of the generator.

Named(row, a, tech, name) == [row EXCEPT !.addr = a, !.tech = tech, !.name = name]
Slot(n) == [Named(Plain, \h70 + n, <<"s">>, <<"s", ToString(n)>>) EXCEPT
              !.fault = "slot", !.slot = n, !.tag = "GFA", !.byteLength = 9, !.blockLength = 9]
Procedure(a, prefix) ==
  [Named(Plain, a, <<"p">>, <<"p">>) EXCEPT
     !.fcRead = "rpc", !.fcWrite = "rpc", !.accessType = 2, !.byteLength = 0, !.blockLength = 0,
     !.prefixWrite = prefix]
\* One that answers with a byte: with a unit it is a value, and no button.
Answering(unit) == [Procedure(\h51, <<1>>) EXCEPT !.byteLength = 1, !.blockLength = 1,
                                                  !.parameterType = "array", !.unit = unit]
RpcReading(prefix) ==
  [Named(Plain, \h58, <<"r">>, <<"r">>) EXCEPT !.fcRead = "rpc", !.fcWrite = "", !.prefixRead = prefix,
                                              !.byteLength = 2, !.blockLength = 2]
Week(a) == [Named(Plain, a, <<"w">>, <<"w">>) EXCEPT !.blockFactor = 7, !.byteLength = 56,
                                                     !.blockLength = 56, !.accessType = 3]
Archive(a, tag) == [Named(Plain, a, <<"f">>, <<"f">>) EXCEPT !.blockFactor = 10, !.byteLength = 90,
                                                            !.blockLength = 90, !.tag = tag]
Special ==
  <<\* Two fields of a block, one read-only; a writable bit beside them; their ids and names clash.
    Shaped(Named(Plain, 16, <<"a">>, <<"n">>), <<8, 2, 0, 0, 0>>),
    [Shaped(Named(Plain, 16, <<"a">>, <<"n">>), <<8, 2, 2, 0, 0>>) EXCEPT !.accessType = 3],
    [Shaped(Named(Plain, 16, <<"a", "2">>, <<"n">>), <<8, 1, 4, 2, 32>>) EXCEPT
       !.accessType = 3, !.group = 1],
    \* A variant of the first, a field of another group, one of another address.
    [Shaped(Named(Plain, 16, <<"a">>, <<"n">>), <<8, 2, 0, 0, 0>>) EXCEPT !.conversion = "Div10"],
    [Named(Plain, 17, <<"a">>, <<"m">>) EXCEPT !.accessType = 3, !.conversion = "DateBCD"],
    Named(Plain, \h1234, <<"b">>, <<"m">>),
    Named(Plain, \hF8, <<"i">>, <<"i">>),
    \* Weekly programs, one of them up to the last byte of a GWG address.
    [Week(\h20) EXCEPT !.mapping = "PhaseCT"], [Week(\hD0) EXCEPT !.program = TRUE],
    [Week(\h40) EXCEPT !.mapping = "HydroCT", !.blockFactor = 14],
    \* Fault archives.
    Slot(1), Slot(2), [Slot(3) EXCEPT !.fault = "index"],
    Archive(ErrorHistoryAddress, ""), [Archive(\h60, "EEV") EXCEPT !.fault = "archive", !.group = 1],
    [Archive(\h68, "") EXCEPT !.fault = "archive", !.fcRead = "rpc"],
    \* Procedures and readings by procedure, of the burner control, unreachable ones.
    Procedure(\h50, <<1>>), Procedure(\h50, <<>>), Answering(FALSE), Answering(TRUE), RpcReading(<<1>>), RpcReading(<<2>>),
    [Named(Plain, \h59, <<"g">>, <<"g">>) EXCEPT !.fcRead = "gfa_read", !.conversion = "MultOffset",
                                                !.factor = <<500>>],
    [Named(Plain, \h5A, <<"g">>, <<"g">>) EXCEPT !.fcRead = "kbus", !.lon = TRUE]>>

Under(protocol, row) ==
  IF protocol = "GWG" /\ row.fcRead = "virtual" THEN Accessed(row, <<"eeprom", "eeprom">>) ELSE row
Device(protocol, S) == Job(protocol, [k \in DOMAIN S |-> Under(protocol, Special[S[k]])])

\* The arguments, each in its turn other than by default.
Argued(j, k) ==
  <<j, [j EXCEPT !.profile = "minimal"], [j EXCEPT !.profile = "standard"],
    [j EXCEPT !.reachableOnly = FALSE], [j EXCEPT !.emitDeviceId = TRUE],
    [j EXCEPT !.emitErrorHistory = FALSE], [j EXCEPT !.byGroup = TRUE, !.german = FALSE],
    [j EXCEPT !.excluded = {<<"n">>, <<"p">>}], [j EXCEPT !.codeSet = "none"],
    [j EXCEPT !.codeSet = "curated", !.chip = "c24", !.partialWrites = FALSE],
    [j EXCEPT !.faults = [@ EXCEPT !.device = {}], !.companion = "c24"]>>[k]
Devices ==
  \E i, j \in DOMAIN Special, p \in {"P300", "KW", "GWG"}, k \in 1..11 :
    i <= j /\ Init(Argued(Device(p, IF i = j THEN <<i>> ELSE <<1, i, j>>), k))

----------------------------------------------------------------------------
\* Configurations: a catalog of one protocol on a hub of any, beside two entities written
\* by hand, whatever the schema says of them.

Climate(a, access, mode) ==
  [platform |-> "climate", kind |-> "", addr |-> a, access |-> access, prefix |-> <<>>,
   state |-> <<>>, lo |-> <<>>, hi |-> <<>>, mode |-> mode]
Mode(a, access, presets) == <<[addr |-> a, access |-> access, state |-> <<>>, presets |-> presets]>>
Away == <<[name |-> "away", reads |-> {0, 2}], [name |-> "home", reads |-> {1}]>>
Kind(platform, kind) == [Blank EXCEPT !.platform = platform, !.kind = kind, !.addr = 18]
Percent(access) == [Kind("number", "") EXCEPT !.length = 1, !.access = access, !.hi = 100000,
                                              !.step = 1000]
Reading(access) == [Kind("sensor", "") EXCEPT !.length = 1, !.access = access]
ByHand ==
  <<Climate(18, "", <<>>), Climate(18, "eeprom", Mode(19, "eeprom", Away)),
    Climate(18, "eeprom", Mode(\h1234, "eeprom", Away)),
    [Climate(18, "eeprom", Mode(19, "", Away)) EXCEPT !.state = <<\h2303>>],
    [Climate(18, "", <<>>) EXCEPT !.lo = <<20500>>],
    Climate(18, "", Mode(19, "", <<Away[1], [name |-> "eco", reads |-> {2}]>>)),
    [Kind("event", "") EXCEPT !.codes = {0, 3}], [Kind("event", "") EXCEPT !.codes = {300}],
    Kind("binary_sensor", "connectivity"), Kind("text_sensor", "device_id"),
    Kind("text_sensor", "scan_result"), Kind("button", "refresh"),
    Kind("text", ""), [Kind("text", "") EXCEPT !.access = "kmbus_eeprom"],
    Percent(""), Percent("eeprom"), [Percent("eeprom") EXCEPT !.state = <<\h2303>>],
    [Percent("") EXCEPT !.conv = "mult2", !.lo = -20000],
    Reading("gfa"), Reading("rpc"), [Reading("") EXCEPT !.prefix = <<1>>],
    [Kind("button", "action") EXCEPT !.access = "rpc"],
    [Kind("switch", "") EXCEPT !.values = <<1, 1>>]>>

Hubs ==
  {[Hub(p) EXCEPT !.timeId = id] : p \in DOMAIN Protocols, id \in BOOLEAN}
  \cup {[Hub("P300") EXCEPT !.timeSync = TRUE], [Hub("P300") EXCEPT !.unsafeRawWrites = TRUE],
        [Hub("P300") EXCEPT !.rawAccess = "unrestricted", !.rawQueue = 0]}
Configurations ==
  \E p \in {"P300", "GWG"}, h \in Hubs, i, j \in DOMAIN ByHand :
    i <= j /\ Init([Job(p, <<Under(p, Special[1])>>) EXCEPT !.hub = h,
                                                        !.byHand = <<ByHand[i], ByHand[j]>>])

MCInit == OneRow \/ Devices \/ Configurations

\* The jobs are such as the theorems are about: JobOk asks nothing of the other fields.
ASSUME JobsAssumption ==
  /\ \A s \in Shapes, m \in Meanings : RowOk(Meant(Shaped(Plain, s), m))
  /\ \A s \in Shapes, m \in Meanings :
       LET row == Meant(Shaped(Plain, s), m) IN
       OptionsAreValues(s, m) /\ Sensible(s, m) => ExportOk(row) /\ NumbersOk(row)
  /\ \A k \in DOMAIN Special : ExportOk(Special[k]) /\ NumbersOk(Special[k])
  /\ \A p \in {"P300", "KW", "GWG"} : JobOk(Device(p, [k \in DOMAIN Special |-> k]))
  /\ JobOk([Job("P300", <<>>) EXCEPT !.byHand = ByHand])
MCSpec == MCInit /\ [][Next]_vars
=============================================================================
