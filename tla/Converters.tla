----------------------------- MODULE Converters -----------------------------
(***************************************************************************)
(* The value presets of a datapoint: the component's CONVERTERS, and the   *)
(* tables in which the catalog generator repeats them by hand.  A value is *)
(* an integer number of thousandths, a scale a fraction <<num, den>>.      *)
(***************************************************************************)
EXTENDS Integers, Sequences

ByScale == {"noconv", "div2", "div10", "div100", "div1000", "sec2hour",
            "mult2", "mult5", "mult10", "mult100"}
Converter == ByScale \cup {"rotatebytes"}

One == <<1, 1>>

----------------------------------------------------------------------------
\* The component: raw * scale is the value; what a payload's length may be; what a
\* raw value is without `signed:`; which presets have a way back.
Scale ==
  [noconv |-> One, div2 |-> <<1, 2>>, div10 |-> <<1, 10>>, div100 |-> <<1, 100>>,
   div1000 |-> <<1, 1000>>, sec2hour |-> <<1, 3600>>, mult2 |-> <<2, 1>>,
   mult5 |-> <<5, 1>>, mult10 |-> <<10, 1>>, mult100 |-> <<100, 1>>,
   rotatebytes |-> One]
Lengths ==
  [noconv |-> 1..4, div2 |-> {1, 2}, div10 |-> {1, 2}, div100 |-> {1, 2, 4},
   div1000 |-> {2, 4}, sec2hour |-> {4}, mult2 |-> {1, 2, 4}, mult5 |-> {1, 2, 4},
   mult10 |-> {1, 2, 4}, mult100 |-> {1, 2, 4}, rotatebytes |-> {2}]
DefaultSigned == {"div2", "div10"}
Encodable == Converter \ {"sec2hour", "rotatebytes"}
BigEndian == {"rotatebytes"}

\* The explicit `signed:` (<<>> when absent), or the converter's own.
ResolveSigned(signed, conv) ==
  IF signed # <<>> THEN signed[1] ELSE conv \in DefaultSigned

\* std::llround(v / scale): half away from zero, as decode.h::encode_scaled.
LLRound(v, scale) ==
  LET n == v * scale[2]
      d == 1000 * scale[1]
      half == (2 * (IF n < 0 THEN -n ELSE n) + d) \div (2 * d)
  IN IF n < 0 THEN -half ELSE half

\* The largest unsigned value of length bytes; four bytes and more hold every
\* integer TLC has.
MaxRaw(length) == IF length > 3 THEN 2147483647 ELSE 256^length - 1

\* raw_fits(): the range check of decode.h::encode_scaled.
RawFits(raw, length, signed) ==
  CASE ~signed -> raw >= 0 /\ raw <= MaxRaw(length)
    [] signed /\ length > 3 -> TRUE
    [] OTHER -> LET half == (MaxRaw(length) + 1) \div 2 IN raw >= -half /\ raw < half

----------------------------------------------------------------------------
\* The generator's copies: the scales it turns into a `multiply` filter, and the
\* widths it believes the component decodes.
ConvScale ==
  [noconv |-> One, div2 |-> <<1, 2>>, div10 |-> <<1, 10>>, div100 |-> <<1, 100>>,
   div1000 |-> <<1, 1000>>, sec2hour |-> <<1, 3600>>, mult2 |-> <<2, 1>>,
   mult5 |-> <<5, 1>>, mult10 |-> <<10, 1>>, mult100 |-> <<100, 1>>]
ConvLengths ==
  [noconv |-> {1, 2, 3, 4}, div2 |-> {1, 2}, div10 |-> {1, 2}, div100 |-> {1, 2, 4},
   div1000 |-> {2, 4}, sec2hour |-> {4}, mult2 |-> {1, 2, 4}, mult5 |-> {1, 2, 4},
   mult10 |-> {1, 2, 4}, mult100 |-> {1, 2, 4}, rotatebytes |-> {2}]
ConvScaleOf(conv) == IF conv \in ByScale THEN ConvScale[conv] ELSE One

\* ConversionFactor values that are a preset when the offset is 0.
FactorPresets ==
  {<<2000, "mult2">>, <<5000, "mult5">>, <<10000, "mult10">>, <<100000, "mult100">>,
   <<500, "div2">>, <<100, "div10">>, <<10, "div100">>, <<1, "div1000">>}
PresetOf(factor) ==
  IF \E p \in FactorPresets : p[1] = factor
  THEN (CHOOSE p \in FactorPresets : p[1] = factor)[2] ELSE ""

\* Vitosoft's Conversion to a preset ("" for none) and the kind that sets the poll.
ConversionMap ==
  [NoConversion |-> <<"noconv", "plain">>, Div2 |-> <<"div2", "div">>,
   Div10 |-> <<"div10", "div">>, Div100 |-> <<"div100", "div">>,
   Div1000 |-> <<"div1000", "div">>, Mult2 |-> <<"mult2", "plain">>,
   Mult5 |-> <<"mult5", "plain">>, Mult10 |-> <<"mult10", "plain">>,
   Mult100 |-> <<"mult100", "plain">>, Sec2Hour |-> <<"sec2hour", "counter">>,
   RotateBytes |-> <<"rotatebytes", "plain">>, Sec2Minute |-> <<"", "counter">>]
Preset(conversion) ==
  IF conversion \in DOMAIN ConversionMap THEN ConversionMap[conversion] ELSE <<"", "plain">>

\* Floats, dates, BCD, addresses: nothing a scale can decode.
NonNumericConversions == {"DateTimeBCD", "DateBCD", "Time53", "IPAddress", "Phone2BCD",
  "Convert4BytesToFloat", "HexToFloat", "MultOffsetFloat", "MultOffsetBCD"}
=============================================================================
