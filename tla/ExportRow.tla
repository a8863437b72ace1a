----------------------------- MODULE ExportRow -----------------------------
(***************************************************************************)
(* What the catalog generator concludes from one row of the Vitosoft       *)
(* export (transforms.py).  A row is a record with the fields of Event; an *)
(* absent number is 0 where the code reads it with `or 0`, and <<>> where   *)
(* absence matters.  Borders are those of the row, or of its first value.  *)
(***************************************************************************)
EXTENDS Converters, FiniteSets, SequencesExt

MaxP300ReadLength == 48
MaxRmwBlock == 16
RpcPrefixMax == 4
AddressMax == 255     \* of a GWG telegram

\* Commands whose live state is read elsewhere (COMMAND_STATE_ADDR).
CommandStateAddr == [a \in {\h2330, \h2331, \h3330, \h3331, \h4330, \h4331} |->
                       (a - (a % 2)) - \h30 + 3 - (a % 2)]
HasStateAddr(a) == a \in DOMAIN CommandStateAddr

\* FCRead and FCWrite name a GWG access mode; three of the eight stand for them: the
\* engine's default, one that is written, one with no write telegram.
GwgReadModes == {"physical", "eeprom", "kmbus_eeprom"}
GwgWriteModes == {"physical", "eeprom"}

\* A border, or an absent one.
Or(a, b) == IF a # 0 THEN a ELSE b

----------------------------------------------------------------------------
\* Reading and writing.

\* The parameter of a remote procedure call: bytes, <<-1>> when they do not parse.
Unparsable == <<-1>>
PrefixParses(prefix) == prefix # Unparsable /\ Len(prefix) <= RpcPrefixMax

IsGfaRead(ev, protocol) == protocol # "GWG" /\ ev.fcRead = "gfa_read"

IsRpcReading(ev, protocol) ==
  /\ protocol = "P300" /\ ev.fcRead = "rpc"
  /\ ev.accessType \notin {2, 3}
  /\ ev.blockFactor <= 1
  /\ Or(ev.blockLength, ev.byteLength) > 0
  /\ PrefixParses(ev.prefixRead)

IsReachable(ev, protocol) ==
  IF protocol = "GWG" THEN ev.fcRead \in {""} \cup GwgReadModes
  ELSE \/ ev.fcRead \in {"", "virtual"}
       \/ IsGfaRead(ev, protocol)
       \/ IsRpcReading(ev, protocol)

\* (records, bytes of one) of a procedure that answers one record per call.
RpcArrayRecords(ev, protocol) ==
  LET total == Or(ev.blockLength, ev.byteLength)
      count == ev.blockFactor
  IN IF /\ protocol = "P300" /\ ev.fcRead = "rpc"
        /\ ev.accessType = 1 /\ ev.prefixRead = <<>>
        /\ count > 1 /\ total > 0 /\ total % count = 0
        /\ total \div count <= MaxP300ReadLength
     THEN <<count, total \div count>> ELSE <<>>

\* What a press sends: PrefixWrite, else FunctionValue.
RpcActionParameter(ev) ==
  IF ~PrefixParses(ev.prefixWrite) THEN Unparsable
  ELSE IF ev.prefixWrite # <<>> THEN ev.prefixWrite ELSE ev.functionValue

IsRpcAction(ev, protocol) ==
  LET answer == Or(ev.blockLength, ev.byteLength) IN
  /\ protocol = "P300" /\ ev.fcWrite = "rpc"
  /\ ev.accessType \in {2, 3}
  /\ ev.blockFactor <= 1
  /\ RpcActionParameter(ev) # Unparsable
  /\ \/ answer = 0
     \/ ev.accessType = 2 /\ answer <= 1 /\ ev.parameterType = "array"
        /\ ev.lower = <<>> /\ ev.upper = <<>> /\ ~ev.unit

\* Addresses at which the export calls some procedure with a parameter.
RpcSelectorAddresses(events) ==
  {ev.addr : ev \in {e \in events : IsRpcAction(e, "P300") /\ RpcActionParameter(e) # <<>>}}

AccessFor(ev, protocol) ==
  CASE IsRpcReading(ev, protocol) -> "rpc"
    [] IsGfaRead(ev, protocol) -> "gfa"
    [] protocol = "GWG" /\ ev.fcRead \in GwgReadModes -> ev.fcRead
    [] OTHER -> ""

\* `access:` drives both directions, so a GWG row is written in the mode it is read.
IsWritable(ev, protocol) ==
  /\ ev.accessType \in {2, 3}
  /\ IF protocol = "GWG"
     THEN ev.fcWrite \in GwgWriteModes /\ ev.fcWrite = AccessFor(ev, protocol)
     ELSE ev.fcWrite \in {"", "virtual"}

PollFor(ev, kind, protocol) ==
  IF IsWritable(ev, protocol) THEN "coding" ELSE IF kind = "counter" THEN "slow" ELSE "fast"

----------------------------------------------------------------------------
\* Values.

\* Fractional steppings rule out raw = value: a scale, an offset from the lower border,
\* or two readings nothing decides between.
NoBounds == [kind |-> "none"]
ScaleFromBounds(ev, protocol) ==
  LET width == Or(Or(ev.byteLength, ev.blockLength), 1)
      lo == ev.lower[1]  hi == ev.upper[1]  st == ev.stepping[1]
      rawMax == IF ev.bitLength > 1 THEN 2^ev.bitLength - 1 ELSE MaxRaw(width)
      kind == IF lo >= 0 THEN "scale" ELSE IF protocol = "GWG" THEN "affine" ELSE "ambiguous"
      base == IF kind = "scale" THEN 0 ELSE lo
  IN IF \/ ev.conversion # "NoConversion" \/ ev.bitLength = 1 \/ ev.rohwert \/ width \notin 1..4
        \/ <<>> \in {ev.lower, ev.upper, ev.stepping}
     THEN NoBounds
     ELSE IF \/ st <= 0 \/ st % 1000 = 0 \/ hi <= lo
             \/ (lo - base) % st # 0 \/ (hi - base) % st # 0
             \/ (hi - base) \div st > rawMax
     THEN NoBounds
     ELSE [kind |-> kind, scale |-> <<st, 1000>>, offset |-> base]

\* The field in its byte, (byte >> shift) & max: BitPosition counts from the byte's
\* most significant bit.  <<>> when the field runs over the byte.
BitFieldFromLow(ev) ==
  LET shift == ev.bitPosition % 8 IN
  IF ev.bitLength \notin 1..8 \/ shift + ev.bitLength > 8 THEN <<>>
  ELSE <<[byte |-> ev.bitPosition \div 8, shift |-> shift, max |-> 2^ev.bitLength - 1]>>
BitField(ev) ==
  LET shift == 8 - (ev.bitPosition % 8) - ev.bitLength IN
  IF ev.bitLength \notin 1..8 \/ shift < 0 THEN <<>>
  ELSE <<[byte |-> ev.bitPosition \div 8, shift |-> shift, max |-> 2^ev.bitLength - 1]>>

\* Options <<value, label>> in document order: none negative, the first of a value.
\* The text of a label is its translation, or German where it has none.
NoTag == -1
EnumOptions(ev, german) ==
  LET first(i) == \A j \in 1..i - 1 : ev.values[j].value # ev.values[i].value
      kept == {i \in DOMAIN ev.values : ev.values[i].value >= 0 /\ first(i)}
      nth(n) == ev.values[CHOOSE i \in kept : Cardinality({j \in kept : j < i}) = n - 1]
      label(v) == IF german \/ v.label = "" THEN v.german ELSE v.label
  IN [n \in 1..Cardinality(kept) |-> <<nth(n).value, <<label(nth(n)), NoTag>>>>]

\* A repeated label gets its value appended (no label of the export reads like one).
DedupOptionLabels(opts) ==
  [i \in DOMAIN opts |->
     IF \E j \in 1..i - 1 : opts[j][2] = opts[i][2]
     THEN <<opts[i][1], <<opts[i][2][1], opts[i][1]>>>> ELSE opts[i]]

\* Labels that say on and off, in one of the forms _boolean_pair knows: a word pair, a
\* negation.
OnOffLabels == {<<"ein", "aus">>, <<"vorhanden", "nicht vorhanden">>}
BooleanPair(opts) ==
  IF Len(opts) # 2 THEN <<>>
  ELSE LET orders == {o \in {opts, Reverse(opts)} :
                        \E p \in OnOffLabels : o[1][2] = <<p[1], NoTag>> /\ o[2][2] = <<p[2], NoTag>>}
       IN IF orders = {} THEN <<>> ELSE LET o == CHOOSE o \in orders : TRUE IN <<o[1][1], o[2][1]>>

\* Decided on the German labels, whatever language the catalog is in.
EnumBoolPair(ev) == BooleanPair(DedupOptionLabels(EnumOptions(ev, TRUE)))

EnumReadLength(opts, fallback) ==
  LET hi == Max({o[1] : o \in ToSet(opts)})
  IN IF hi < 256 THEN 1 ELSE IF hi < 65536 THEN 2 ELSE fallback

DeclaredUnsigned(ev) ==
  ev.parameterType = "unsigned" /\ ev.lower # <<>> /\ ev.lower[1] >= 0

BoundFits(v, length, conv, signed) == RawFits(LLRound(v, ConvScaleOf(conv)), length, signed)

----------------------------------------------------------------------------
\* Blocks, and what a profile keeps.

ReadOnlyBlocks(events, protocol) ==
  {<<e.addr, AccessFor(e, protocol)>> : e \in {e \in events : ~IsWritable(e, protocol)}}

\* A field smaller than its block is written by writing the block back: not with live
\* data in it, nor when the hub's buffer does not hold it.
BlockWriteTooBig(ev, protocol, blockLen, width, roBlocks, partialWrites) ==
  ~partialWrites \/ width \notin 1..4 \/ blockLen > MaxRmwBlock \/ HasStateAddr(ev.addr)
BlockWriteBlocked(ev, protocol, blockLen, width, roBlocks, partialWrites) ==
  \/ ~partialWrites
  \/ width \notin 1..4
  \/ blockLen > MaxRmwBlock
  \/ <<ev.addr, AccessFor(ev, protocol)>> \in roBlocks
  \/ HasStateAddr(ev.addr)

\* A LON input, or a reading only a LON module gives meaning to.
IsLonInput(ev) == ev.lon
IsLonBoundRpc(ev) == IsRpcReading(ev, "P300") /\ ev.lon

ProfileKeep(ev, profile) ==
  \/ profile = "full"
  \/ /\ ~IsLonInput(ev) /\ ~IsLonBoundRpc(ev)
     /\ CASE profile = "standard" -> ev.conversion \notin NonNumericConversions
          [] profile = "minimal" -> \/ ev.accessType \in {2, 3}
                                    \/ Preset(ev.conversion)[2] \in {"div", "counter"}
=============================================================================
