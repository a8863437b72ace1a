--------------------------- MODULE EntityBuilder ---------------------------
(***************************************************************************)
(* From one row of the export to one entity of the catalog                 *)
(* (emitter.py).  An entity is a record of its YAML keys; an absent key is *)
(* <<>> where absence means something and the type's zero elsewhere.  What *)
(* is only a text (name, notes, unit, class, category) is left out.        *)
(***************************************************************************)
EXTENDS ExportRow

\* A row that becomes a comment, and what every entity starts from.
Blank == [platform |-> "comment", kind |-> "", addr |-> 0, access |-> "", prefix |-> <<>>,
          length |-> 0, off |-> <<>>, blen |-> <<>>, state |-> <<>>, mask |-> <<>>,
          conv |-> "", signed |-> <<>>, filters |-> <<>>, lo |-> 0, hi |-> 0, step |-> 0,
          options |-> <<>>, values |-> <<>>, poll |-> "", codes |-> {}]
At(ev) == [Blank EXCEPT !.addr = ev.addr]

BlockLen(ev) == Or(Or(ev.blockLength, ev.byteLength), 1)
FieldLen(ev) == Or(Or(ev.byteLength, ev.blockLength), 1)

\* Keys the code writes only when they are not the default (`x or None`).
NonZero(n) == IF n = 0 THEN <<>> ELSE <<n>>
NotOne(n) == IF n = 1 THEN <<>> ELSE <<n>>

\* A filter is <<name, num, den>>.
Multiply(f) == <<"multiply", f[1], f[2]>>
Milli(n) == <<n, 1000>>
Offset(n) == <<"offset", n, 1000>>
TransformOf(factor, offset) ==
  (IF factor = 1000 THEN <<>> ELSE <<Multiply(Milli(factor))>>)
    \o (IF offset = 0 THEN <<>> ELSE <<Offset(offset)>>)
FromBounds(scaled) ==
  <<Multiply(scaled.scale)>> \o IF scaled.offset = 0 THEN <<>> ELSE <<Offset(scaled.offset)>>

\* A factor of 0 is the export's "no scaling".
FactorOf(ev) == IF ev.factor = <<0>> THEN <<>> ELSE ev.factor

StateAddr(ev) == IF HasStateAddr(ev.addr) THEN <<CommandStateAddr[ev.addr]>> ELSE <<>>

----------------------------------------------------------------------------
\* A string: the field itself, or the aligned block and the field in it.
StringSpec(ev, kind) ==
  LET len == FieldLen(ev)
      off == ev.bytePosition
      readLen == IF BlockLen(ev) > off + len THEN BlockLen(ev) ELSE off + len
      spec == [At(ev) EXCEPT !.platform = "text_sensor", !.kind = kind]
  IN IF kind = "ascii" /\ len > 32 THEN At(ev)
     ELSE IF kind = "utf16" /\ (len > 40 \/ len % 2 # 0) THEN At(ev)
     ELSE IF off = 0 THEN [spec EXCEPT !.length = len]
     ELSE IF readLen > MaxP300ReadLength THEN At(ev)
     ELSE [spec EXCEPT !.length = readLen, !.off = <<off>>, !.blen = <<len>>]

----------------------------------------------------------------------------
\* Bit fields: every one but a read-only single bit.  f is the field in its byte.

\* Why it cannot be read: it runs over its byte, its two positions disagree, or its
\* block is more than one telegram.
BitFieldBlocked(ev, field) ==
  \/ field = <<>>
  \/ ev.bytePosition \notin {0, field[1].byte}
  \/ BlockLen(ev) > MaxP300ReadLength
  \/ field[1].byte >= BlockLen(ev)

BitBlockMode(ev, protocol, partialWrites, roBlocks) ==
  /\ IsWritable(ev, protocol) /\ partialWrites /\ BlockLen(ev) > 1
  /\ ~BlockWriteBlocked(ev, protocol, BlockLen(ev), 1, roBlocks, partialWrites)

BitWritable(ev, protocol, partialWrites, blockMode) ==
  /\ IsWritable(ev, protocol) /\ partialWrites
  /\ BlockLen(ev) = 1 \/ blockMode
  /\ ~HasStateAddr(ev.addr)

\* The whole block is read (and in block mode written), or byte 0 alone.
BitShape(ev, f, whole) ==
  [At(ev) EXCEPT !.length = IF whole THEN BlockLen(ev) ELSE 1,
                 !.off = IF whole THEN <<f.byte>> ELSE <<>>,
                 !.mask = <<f.max * 2^f.shift>>]

\* The field's options; one that does not fit it contradicts the row.
BitEnumSpec(ev, f, opts, pair, shape, writable) ==
  IF \E i \in DOMAIN opts : opts[i][1] > f.max THEN At(ev)
  ELSE IF writable /\ pair # <<>> THEN [shape EXCEPT !.platform = "switch", !.values = pair]
  ELSE IF writable THEN [shape EXCEPT !.platform = "select", !.options = opts]
  ELSE IF ev.bitLength = 1 THEN [shape EXCEPT !.platform = "binary_sensor",
                              !.length = BlockLen(ev), !.off = NonZero(f.byte)]
  ELSE [shape EXCEPT !.platform = "text_sensor", !.kind = "enum", !.options = opts]

\* What the field's value means: its converter and the filters after it.
Encoding(conv, encodes, filters) == [conv |-> conv, encodes |-> encodes, filters |-> filters]
ByFactor(preset, transform) ==
  IF preset # "" THEN Encoding(preset, TRUE, <<>>)
  ELSE Encoding("noconv", transform = <<>>, transform)
BitValue(ev, scaled, factor) ==
  IF ev.conversion = "NoConversion" /\ scaled.kind \in {"scale", "affine"}
  THEN Encoding("noconv", FALSE, FromBounds(scaled))
  ELSE IF ev.conversion = "NoConversion" THEN Encoding("noconv", scaled = NoBounds, <<>>)
  ELSE IF ev.conversion = "MultOffset" THEN
         ByFactor(IF factor # <<>> /\ ev.offset = 0 THEN PresetOf(factor[1]) ELSE "",
                  TransformOf(IF factor = <<>> THEN 1000 ELSE factor[1], ev.offset))
  ELSE Encoding(Preset(ev.conversion)[1], TRUE, <<>>)

\* The field is decoded as one byte: a converter with no such width becomes a filter.
InOneByte(v) ==
  LET scale == ConvScaleOf(v.conv) IN
  IF v.conv # "" /\ 1 \in ConvLengths[v.conv] THEN v
  ELSE Encoding("noconv", FALSE,
                (IF scale = One THEN <<>> ELSE <<Multiply(scale)>>) \o v.filters)

\* A number keeps the row's borders when the field holds both, else the field's range.
BitBorderFits(border, f, scale) == border # <<>> /\ LLRound(border[1], scale) \in 0..f.max
BitBordersFit(ev, f, scale) ==
  /\ BitBorderFits(ev.lower, f, scale) /\ BitBorderFits(ev.upper, f, scale)
  /\ ev.stepping \notin {<<>>, <<0>>}
BitNumberSpec(ev, f, v, scale, shape, writable) ==
  LET unit == (1000 * scale[1]) \div scale[2]
      number == [shape EXCEPT !.platform = "number", !.conv = v.conv]
  IN IF ~writable \/ ~v.encodes
     THEN [shape EXCEPT !.platform = "sensor", !.conv = v.conv, !.filters = v.filters]
     ELSE IF BitBordersFit(ev, f, scale)
     THEN [number EXCEPT !.lo = ev.lower[1], !.hi = ev.upper[1], !.step = ev.stepping[1]]
     ELSE [number EXCEPT !.hi = f.max * unit, !.step = unit]

BitNumber(ev, f, v, shape, writable) ==
  BitNumberSpec(ev, f, v, ConvScaleOf(v.conv), shape, writable)
BitFieldSpec(ev, protocol, f, opts, shape, writable) ==
  IF opts # <<>> THEN BitEnumSpec(ev, f, opts, EnumBoolPair(ev), shape, writable)
  ELSE BitNumber(ev, f, InOneByte(BitValue(ev, ScaleFromBounds(ev, protocol), FactorOf(ev))),
                 shape, writable)

BuildBitField(ev, protocol, german, partialWrites, field, blockMode) ==
  IF BitFieldBlocked(ev, field) THEN At(ev)
  ELSE BitFieldSpec(ev, protocol, field[1], DedupOptionLabels(EnumOptions(ev, german)),
                    BitShape(ev, field[1], blockMode \/ field[1].byte > 0),
                    BitWritable(ev, protocol, partialWrites, blockMode))

----------------------------------------------------------------------------
\* Scalars: what the value means, and whether the row may still be written.
Value(conv, filters, writable) == [conv |-> conv, filters |-> filters, writable |-> writable]
Driven(ev) == ev.conversion = "MultOffset" \/ (ev.conversion = "NoConversion" /\ FactorOf(ev) # <<>>)
\* A writable NoConversion row is written raw: its pair is often stale.
ValueByFactor(ev, f, preset, row) ==
  LET raw == row /\ ev.conversion # "MultOffset" IN
  IF preset # "" THEN Value(preset, <<>>, row)
  ELSE Value("noconv", IF raw THEN <<>> ELSE TransformOf(f[1], ev.offset), raw)
\* A conversion without a preset has no way back.
ValueByPreset(ev, declared, row) ==
  IF declared # "" THEN Value(declared, <<>>, row)
  ELSE Value("noconv", <<>>, row /\ ev.conversion = "MultOffset")
ScalarValueOf(ev, scaled, f, row) ==
  IF scaled.kind = "ambiguous" THEN Value("noconv", <<>>, FALSE)
  ELSE IF scaled # NoBounds THEN Value("noconv", FromBounds(scaled), FALSE)
  ELSE IF Driven(ev) /\ f # <<>> /\ (f # <<1000>> \/ ev.offset # 0)
  THEN ValueByFactor(ev, f, IF ev.offset = 0 THEN PresetOf(f[1]) ELSE "", row)
  ELSE ValueByPreset(ev, Preset(ev.conversion)[1], row)
ScalarValue(ev, protocol) ==
  ScalarValueOf(ev, ScaleFromBounds(ev, protocol), FactorOf(ev), IsWritable(ev, protocol))

\* A field in a block is read with the block, when both fit.
UseBlockExtract(ev) ==
  /\ ev.bytePosition > 0 /\ FieldLen(ev) \in 1..4
  /\ BlockLen(ev) <= MaxP300ReadLength

\* A field smaller than its block is written with the block, or not at all.
Encodes(v) == v.writable /\ v.conv \in Encodable
IsPart(ev) == ev.bytePosition > 0 \/ FieldLen(ev) < BlockLen(ev)
ScalarBlockMode(ev, v, protocol, partialWrites, roBlocks) ==
  /\ Encodes(v) /\ IsPart(ev)
  /\ ~BlockWriteBlocked(ev, protocol, BlockLen(ev), FieldLen(ev), roBlocks, partialWrites)

\* Where a writable scalar is read and written.
WriteShape(ev, blockMode) ==
  IF blockMode
  THEN [At(ev) EXCEPT !.length = BlockLen(ev), !.off = <<ev.bytePosition>>,
                      !.blen = NotOne(FieldLen(ev))]
  ELSE [At(ev) EXCEPT !.length = FieldLen(ev)]

OptionsFit(opts, length) == \A i \in DOMAIN opts : opts[i][1] <= MaxRaw(length)

SwitchOrSelectByLabel(ev, opts, pair, blockMode) ==
  LET shape == [WriteShape(ev, blockMode) EXCEPT !.state = StateAddr(ev)]
  IN IF BooleanPair(opts) # <<>>
     THEN [shape EXCEPT !.platform = "switch", !.values = BooleanPair(opts)]
     ELSE [shape EXCEPT !.platform = "select", !.options = opts]
SwitchOrSelectSpec(ev, opts, pair, blockMode) ==
  LET shape == [WriteShape(ev, blockMode) EXCEPT !.state = StateAddr(ev)]
  IN IF pair # <<>> THEN [shape EXCEPT !.platform = "switch", !.values = pair]
     ELSE [shape EXCEPT !.platform = "select", !.options = opts]

\* An explicit sign is written where the lower border contradicts the converter's own.
ExplicitSign(ev, negative, default) ==
  CASE negative /\ ~default -> <<TRUE>>
    [] ~negative /\ default /\ DeclaredUnsigned(ev) -> <<FALSE>>
    [] OTHER -> <<>>
\* The row's borders when both encode, else placeholders that pin the value to 0.
BordersFitBelow(ev, conv, signed) ==
  /\ ev.lower # <<>> /\ ev.upper # <<>> /\ ev.stepping \notin {<<>>, <<0>>}
  /\ BoundFits(ev.lower[1], FieldLen(ev), conv, signed)
BordersFit(ev, conv, signed) ==
  /\ ev.lower # <<>> /\ ev.upper # <<>> /\ ev.stepping \notin {<<>>, <<0>>}
  /\ BoundFits(ev.lower[1], FieldLen(ev), conv, signed)
  /\ BoundFits(ev.upper[1], FieldLen(ev), conv, signed)
NumberSpec(ev, conv, explicit, blockMode) ==
  LET number == [WriteShape(ev, blockMode) EXCEPT
                   !.platform = "number", !.conv = conv, !.signed = explicit]
  IN IF BordersFit(ev, conv, ResolveSigned(explicit, conv))
     THEN [number EXCEPT !.lo = ev.lower[1], !.hi = ev.upper[1], !.step = ev.stepping[1]]
     ELSE [number EXCEPT !.step = 1000]

\* A read-only bit: its block, and the bit counted from the byte's most significant.
BinarySensorSpec(ev) ==
  LET byte == ev.bitPosition \div 8 IN
  IF \/ ev.bytePosition \notin {0, byte}
     \/ BlockLen(ev) > MaxP300ReadLength
     \/ byte >= BlockLen(ev)
  THEN At(ev)
  ELSE [At(ev) EXCEPT !.platform = "binary_sensor", !.length = BlockLen(ev),
          !.off = NonZero(byte), !.mask = <<128 \div 2^(ev.bitPosition % 8)>>]

ReadShape(ev, len, extract) ==
  IF extract
  THEN [At(ev) EXCEPT !.length = BlockLen(ev), !.off = <<ev.bytePosition>>, !.blen = NotOne(len)]
  ELSE [At(ev) EXCEPT !.length = len]

EnumText(ev, opts, len) ==
  LET extract == /\ ev.bytePosition > 0 /\ ev.bytePosition + len <= BlockLen(ev)
                 /\ BlockLen(ev) <= MaxP300ReadLength
  IN [ReadShape(ev, len, extract) EXCEPT !.platform = "text_sensor", !.kind = "enum",
                                         !.options = opts]
EnumTextSpec(ev, opts) ==
  EnumText(ev, opts, EnumReadLength(opts, IF FieldLen(ev) > 4 THEN 4 ELSE FieldLen(ev)))

\* The lower border says whether the raw value has a sign; behind a transform it is the
\* raw value of the border that does.
FilterArg(filters, name, default) ==
  IF \E f \in ToSet(filters) : f[1] = name
  THEN (CHOOSE f \in ToSet(filters) : f[1] = name)[2] ELSE default
BorderIsNegative(ev, protocol, filters) ==
  ev.lower # <<>> /\ ev.lower[1] < 0 /\ ScaleFromBounds(ev, protocol) = NoBounds
RawIsNegative(ev, protocol, filters) ==
  /\ ev.lower # <<>> /\ ev.lower[1] < 0
  /\ ScaleFromBounds(ev, protocol) = NoBounds
  /\ (ev.lower[1] - FilterArg(filters, "offset", 0)) * FilterArg(filters, "multiply", 1) < 0

\* A converter with no such width becomes noconv and a filter; its sign stays.
Fallback(v, width) == width \notin ConvLengths[v.conv]
DecodedUnscaled(ev, v, scale) ==
  IF ~Fallback(v, FieldLen(ev)) THEN [conv |-> v.conv, filters |-> v.filters, forced |-> FALSE]
  ELSE [conv |-> "noconv", filters |-> v.filters,
        forced |-> v.conv \in DefaultSigned /\ ~DeclaredUnsigned(ev)]
Decoded(ev, v, scale) ==
  IF ~Fallback(v, FieldLen(ev)) THEN [conv |-> v.conv, filters |-> v.filters, forced |-> FALSE]
  ELSE [conv |-> "noconv",
        filters |-> v.filters \o IF scale = One THEN <<>> ELSE <<Multiply(scale)>>,
        forced |-> v.conv \in DefaultSigned /\ ~DeclaredUnsigned(ev)]
SensorSpec(ev, d, negative) ==
  [ReadShape(ev, FieldLen(ev), UseBlockExtract(ev)) EXCEPT
     !.platform = "sensor", !.conv = d.conv,
     !.signed = ExplicitSign(ev, d.forced \/ negative, d.conv \in DefaultSigned),
     !.filters = d.filters \o IF ev.negUnit THEN <<Multiply(<<-1, 1>>)>> ELSE <<>>]
ScalarSensor(ev, protocol, v, d) ==
  IF Fallback(v, FieldLen(ev)) /\ v.conv = "rotatebytes" THEN At(ev)
  ELSE SensorSpec(ev, d, RawIsNegative(ev, protocol, d.filters))

\* An enum the select does not take (wider than two bytes) goes on to the number, whose
\* converter the width check passed over.
ScalarSpec(ev, protocol, v, opts, len, blockMode) ==
  LET writable == Encodes(v) /\ (IsPart(ev) => blockMode)
      bit == ev.bitLength = 1
      negative == ev.lower # <<>> /\ ev.lower[1] < 0
  IN IF len > 4 /\ ~bit /\ opts = <<>> THEN At(ev)
     ELSE IF writable /\ opts # <<>> /\ len \in {1, 2} /\ OptionsFit(opts, len)
     THEN SwitchOrSelectSpec(ev, opts, EnumBoolPair(ev), blockMode)
     ELSE IF writable /\ (opts # <<>> \/ len \in ConvLengths[v.conv])
     THEN NumberSpec(ev, v.conv, ExplicitSign(ev, negative, v.conv \in DefaultSigned), blockMode)
     ELSE IF bit THEN BinarySensorSpec(ev)
     ELSE IF opts # <<>> THEN EnumTextSpec(ev, opts)
     ELSE ScalarSensor(ev, protocol, v, Decoded(ev, v, ConvScaleOf(v.conv)))
BuildScalar(ev, protocol, german, v, partialWrites, roBlocks) ==
  ScalarSpec(ev, protocol, v, DedupOptionLabels(EnumOptions(ev, german)), FieldLen(ev),
             ScalarBlockMode(ev, v, protocol, partialWrites, roBlocks))

----------------------------------------------------------------------------
\* build_entity_spec()
BuildEntity(ev, protocol, german, partialWrites, roBlocks) ==
  LET isString == ev.conversion \in {"HexByte2AsciiByte", "HexByte2UTF16Byte"}
      kind == Preset(ev.conversion)[2]
      spec ==
        IF \/ ev.conversion \in NonNumericConversions
           \/ ev.accessType = 2 /\ ~HasStateAddr(ev.addr)                    \* a trigger
        THEN At(ev)
        ELSE IF ev.bitLength > 1 \/ (ev.bitLength = 1 /\ IsWritable(ev, protocol))
        THEN BuildBitField(ev, protocol, german, partialWrites, BitField(ev),
                           BitBlockMode(ev, protocol, partialWrites, roBlocks))
        ELSE IF isString
        THEN StringSpec(ev, IF ev.conversion = "HexByte2AsciiByte" THEN "ascii" ELSE "utf16")
        ELSE IF ev.bytePosition > 0 /\ ~UseBlockExtract(ev) THEN At(ev)      \* no aligned read
        ELSE BuildScalar(ev, protocol, german, ScalarValue(ev, protocol), partialWrites,
                         roBlocks)
  IN [spec EXCEPT !.poll = PollFor(ev, kind, protocol)]
=============================================================================
