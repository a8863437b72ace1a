-------------------------- MODULE GWGEngineProofs ---------------------------
(***************************************************************************)
(* Theorems about GWGEngine: one callback for each request, for any lengths  *)
(* of the windows, any number of addresses, any controller and any faults;   *)
(* made before the hub's watchdog runs out, with the request's own bytes if   *)
(* its telegrams were prompt, and telling of an address not in use.         *)
(***************************************************************************)
EXTENDS GWGEngine, KwEngineProofs

\* A telegram is under way only for a pending request.
TelegramInv == state = "RECEIVE" => busy

\* Such an end of a pass keeps the invariant and is the promise's.
Fine == TelegramInv' /\ (Keeps \/ Ends)

LEMMA FineIf ==
  ASSUME \/ Keeps /\ (state' = "RECEIVE" => busy)
         \/ Ends /\ state' = "INIT"
  PROVE  Fine
BY DEF Fine, TelegramInv, Keeps, Ends

----------------------------------------------------------------------------
(* What each handler does to the promise.                                  *)

LEMMA InitStateDoes ==
  ASSUME InitState
  PROVE  Fine
<1>1. CASE AnswerEnq
  BY <1>1, PassTo, FineIf DEF AnswerEnq, SendFrom
<1>2. CASE DropByte
  BY <1>2, PassTo, FineIf DEF DropByte
<1>3. CASE Burst
  BY <1>3, PassTo, FineIf DEF Burst, SendFrom
<1>4. CASE Wait
  BY <1>4, PassTo, FineIf DEF Wait
<1> QED
  BY <1>1, <1>2, <1>3, <1>4 DEF InitState

LEMMA ReceiveDoes ==
  ASSUME busy, Receive
  PROVE  Fine
<1> DEFINE bytes == answer \o rx
<1>1. CASE Partial(bytes)
  BY <1>1, PassTo, FineIf DEF Partial
<1>2. CASE Whole(bytes)
  <2>1. Ends /\ state' = "INIT"
    BY <1>2, CallBackTo, JudgedTo DEF Whole
  <2> QED
    BY <2>1, FineIf
<1>3. CASE BadPair(bytes)
  <2>1. Ends /\ state' = "INIT"
    BY <1>3, CallBackTo DEF BadPair
  <2> QED
    BY <2>1, FineIf
<1>4. CASE GoodPair(bytes)
  <2> DEFINE values == Append(Values, Value(LastPair(bytes)))
  <2>1. CASE Pass("INIT", Rearm, values, <<>>, tx)
    BY <2>1, PassTo, FineIf
  <2>2. CASE CallBack(Judged(values), "INIT", <<>>, tx)
    <3>1. Ends /\ state' = "INIT"
      BY <2>2, CallBackTo, JudgedTo
    <3> QED
      BY <3>1, FineIf
  <2> QED
    BY <1>4, <2>1, <2>2 DEF GoodPair
<1> QED
  BY <1>1, <1>2, <1>3, <1>4 DEF Receive

LEMMA LoopDoes ==
  ASSUME TelegramInv, Loop
  PROVE  Fine
<1>1. CASE InitState
  BY <1>1, InitStateDoes
<1>2. CASE state = "RECEIVE" /\ Unanswered
  <2>1. Ends /\ state' = "INIT"
    BY <1>2, CallBackTo DEF Unanswered, TelegramInv
  <2> QED
    BY <2>1, FineIf
<1>3. CASE state = "RECEIVE" /\ Receive
  BY <1>3, ReceiveDoes DEF TelegramInv
<1> QED
  BY <1>1, <1>2, <1>3 DEF Loop

LEMMA RequestDoes ==
  ASSUME TelegramInv, NEW r, Request(r)
  PROVE  TelegramInv' /\ AnyAnswer!Request
BY DEF TelegramInv, Request, KwRequest, AnyAnswer!Request

\* The controller, the line and time leave the engine alone.
LEMMA OthersDo ==
  ASSUME Hear(Kinds) \/ SendEnq \/ Fault \/ Tick(Idle, AnswerTimeout)
  PROVE  Keeps /\ state' = state
BY DEF Hear, SendEnq, Fault, Tick, EngineUnchanged, history, Keeps

LEMMA StepDoes ==
  ASSUME TelegramInv, [Next]_vars
  PROVE  TelegramInv' /\ [AnyAnswer!Next]_AnyAnswer!vars
<1> USE DEF AnyAnswer!Next, AnyAnswer!CallBack, AnyAnswer!vars
<1>1. CASE \E r \in Requests : Request(r)
  BY <1>1, RequestDoes
<1>2. CASE Loop
  BY <1>2, LoopDoes DEF Fine, Keeps, Ends
<1>3. CASE Hear(Kinds) \/ SendEnq \/ Fault \/ Tick(Idle, AnswerTimeout)
  BY <1>3, OthersDo DEF Keeps, TelegramInv
<1>4. CASE UNCHANGED vars
  BY <1>4 DEF vars, kwVars, history, TelegramInv
<1> QED
  BY <1>1, <1>2, <1>3, <1>4 DEF Next

\* The GWG engine keeps the promise every engine makes the hub: one callback for each
\* accepted request, none without one, and no acceptance while one is pending.
THEOREM CallsBackOnce == Spec => OneCallBack
<1>1. Init => TelegramInv /\ AnyAnswer!Init
  BY DEF Init, KwInit, TelegramInv, AnyAnswer!Init
<1>2. TelegramInv /\ [Next]_vars => TelegramInv' /\ [AnyAnswer!Next]_AnyAnswer!vars
  BY StepDoes
<1> QED
  BY <1>1, <1>2, PTL DEF Spec, OneCallBack, AnyAnswer!Spec

----------------------------------------------------------------------------
(* The callback comes before the hub's watchdog.                           *)

\* Each pair verified has taken at most one budget, and the clock starts anew.
WaitInv ==
  /\ ClocksInv /\ index \in 0..Pairs
  /\ busy => /\ index < Pairs
             /\ request # "EEPROM" => index = 0
             /\ waited <= index * Patience + age

LEMMA Budgets ==
  ASSUME NEW n \in Nat
  PROVE  n * Patience \in Nat /\ (n + 1) * Patience = n * Patience + Patience
BY Bounds DEF Patience

\* Every way through loop() goes on with the request and its clock, starts the clock
\* anew for the next pair, or ends the request.
GoesOn == age' = age /\ index' = index /\ request' = request
NextPair == age' = 0 /\ index' = index + 1 /\ index' < Pairs /\ request = "EEPROM" /\ request' = request
LoopKeepsClock ==
  /\ PassedInTime /\ index' \in 0..Pairs /\ (Touched \/ Untouched)
  /\ busy' => GoesOn \/ NextPair

LEMMA PassGoesOn ==
  ASSUME WaitInv, NEW s, NEW bytes, NEW rest, NEW sent, Pass(s, age, bytes, rest, sent),
         index' = index, Touched \/ Untouched
  PROVE  LoopKeepsClock
BY PassInTime DEF WaitInv, ClocksInv, LoopKeepsClock, GoesOn

LEMMA CallBackEnds ==
  ASSUME NEW what, NEW s, NEW rest, NEW sent, CallBack(what, s, rest, sent),
         index' \in 0..Pairs, Touched \/ Untouched
  PROVE  LoopKeepsClock
BY CallBackInTime DEF CallBack, LoopKeepsClock

LEMMA LoopWaits ==
  ASSUME WaitInv, TelegramInv, Loop
  PROVE  LoopKeepsClock
<1>1. CASE InitState
  <2>1. CASE AnswerEnq
    BY <2>1, PassGoesOn DEF AnswerEnq, SendFrom, eeprom
  <2>2. CASE DropByte
    BY <2>2, PassGoesOn DEF DropByte, eeprom
  <2>3. CASE Burst
    BY <2>3, PassGoesOn DEF Burst, SendFrom, eeprom
  <2>4. CASE Wait
    BY <2>4, PassGoesOn DEF Wait, eeprom
  <2> QED
    BY <1>1, <2>1, <2>2, <2>3, <2>4 DEF InitState
<1>2. CASE Unanswered
  <2>1. index' \in 0..Pairs /\ (Touched \/ Untouched)
    BY <1>2 DEF Unanswered, eeprom, WaitInv
  <2> QED
    BY <1>2, <2>1, CallBackEnds DEF Unanswered
<1>3. CASE state = "RECEIVE" /\ Receive
  <2> DEFINE bytes == answer \o rx
  <2>1. Touched \/ Untouched
    BY <1>3 DEF Receive
  <2>2. index \in 0..Pairs /\ busy /\ index < Pairs
    BY <1>3 DEF WaitInv, TelegramInv
  <2>3. CASE Partial(bytes)
    BY <2>1, <2>3, PassGoesOn DEF Partial, eeprom
  <2>4. CASE Whole(bytes)
    BY <2>1, <2>2, <2>4, CallBackEnds DEF Whole, eeprom
  <2>5. CASE BadPair(bytes)
    BY <2>1, <2>2, <2>5, CallBackEnds DEF BadPair, eeprom
  <2>6. CASE GoodPair(bytes)
    <3> DEFINE values == Append(Values, Value(LastPair(bytes)))
    <3>1. request = "EEPROM" /\ index' = index + 1 /\ index' \in 0..Pairs
      BY <2>2, <2>6, GWGAssumption DEF GoodPair
    <3>2. CASE index' < Pairs /\ Pass("INIT", Rearm, values, <<>>, tx)
      <4>1. PassedInTime /\ (busy' => age' = 0 /\ request' = request)
        BY <3>2, PassInTime DEF Rearm, WaitInv
      <4> QED
        BY <2>1, <3>1, <3>2, <4>1 DEF LoopKeepsClock, NextPair
    <3>3. CASE CallBack(Judged(values), "INIT", <<>>, tx)
      BY <2>1, <3>1, <3>3, CallBackEnds
    <3> QED
      BY <2>6, <3>2, <3>3 DEF GoodPair
  <2> QED
    BY <1>3, <2>3, <2>4, <2>5, <2>6 DEF Receive
<1> QED
  BY <1>1, <1>2, <1>3 DEF Loop

LEMMA StepWaits ==
  ASSUME WaitInv, TelegramInv, [Next]_vars
  PROVE  WaitInv'
<1>1. CASE \E r \in Requests : Request(r)
  <2>1. ClocksInv' /\ waited' = 0 /\ age' = 0 /\ index' = 0
    BY <1>1, RequestClocks DEF WaitInv, Request
  <2> QED
    BY <2>1, GWGAssumption, Budgets DEF WaitInv
<1>2. CASE Loop
  <2>1. LoopKeepsClock /\ passed' = TRUE /\ UNCHANGED <<quiet, stall>>
    BY <1>2, LoopWaits DEF Loop
  <2>2. ClocksInv'
    BY <2>1, LoopClocks DEF WaitInv, LoopKeepsClock
  <2>3. ASSUME busy' PROVE waited' <= index' * Patience + age' /\ index' < Pairs
                           /\ (request' # "EEPROM" => index' = 0)
    <3>1. busy /\ waited' = waited /\ waited <= index * Patience + age
      BY <2>1, <2>3 DEF LoopKeepsClock, PassedInTime, WaitInv
    <3>2. CASE GoesOn
      BY <3>1, <3>2 DEF GoesOn, WaitInv
    <3>3. CASE NextPair
      <4>1. age <= Patience /\ age \in Nat /\ waited \in Nat /\ index \in Nat
        BY <3>1, AgeIsBounded DEF WaitInv, ClocksInv
      <4>2. waited <= (index + 1) * Patience
        BY <3>1, <4>1, Budgets, Bounds DEF Patience
      <4>3. (index + 1) * Patience \in Nat
        BY <4>1, Budgets
      <4> QED
        BY <3>1, <3>3, <4>1, <4>2, <4>3 DEF NextPair
    <3> QED
      BY <2>1, <2>3, <3>2, <3>3 DEF LoopKeepsClock
  <2> QED
    BY <2>1, <2>2, <2>3 DEF WaitInv, LoopKeepsClock
<1>3. CASE (Hear(Kinds) \/ SendEnq \/ Fault) /\ UNCHANGED eeprom
  <2>1. UNCHANGED <<busy, request, age, waited, index>>
    BY <1>3 DEF Hear, SendEnq, Fault, EngineUnchanged, history, eeprom
  <2> QED
    BY <1>3, <2>1, LineClocks DEF WaitInv
<1>4. CASE Tick(Idle, AnswerTimeout) /\ UNCHANGED eeprom
  <2>1. /\ ClocksInv' /\ (busy' => waited' = waited + 1 /\ age' = age + 1)
        /\ UNCHANGED <<busy, request, index>>
    BY <1>4, TickClocks DEF WaitInv, Tick, eeprom
  <2>2. waited \in Nat /\ age \in Nat /\ index * Patience \in Nat
    BY Budgets DEF WaitInv, ClocksInv
  <2> QED
    BY <2>1, <2>2 DEF WaitInv
<1>5. CASE UNCHANGED vars
  BY <1>5 DEF vars, kwVars, controller, history, eeprom, WaitInv, ClocksInv
<1> QED
  BY <1>1, <1>2, <1>3, <1>4, <1>5 DEF Next, eeprom

LEMMA Scaled ==
  ASSUME NEW a \in Nat, NEW b \in Nat, NEW n \in Nat, a < b, n > 0
  PROVE  a * n < b * n
BY SMT

\* The GWG engine calls back before the hub's watchdog gives the request up, which
\* has one budget for each address of an EEPROM read, if loop() stalls for less than
\* the difference of the two timeouts.
THEOREM BeforeTheWatchdog ==
  ASSUME WatchdogIsPatient
  PROVE  Spec => []EngineFirst
<1>1. Init => TelegramInv /\ WaitInv
  BY ClocksStart, GWGAssumption DEF Init, KwInit, TelegramInv, WaitInv
<1>2. TelegramInv /\ WaitInv /\ [Next]_vars => (TelegramInv /\ WaitInv)'
  BY StepDoes, StepWaits
<1>3. WaitInv => EngineFirst
  <2> SUFFICES ASSUME WaitInv, busy PROVE waited < HubWatchdog * TelegramCount
    BY DEF EngineFirst
  <2>1. /\ index \in Nat /\ index + 1 <= Pairs /\ Pairs \in Nat /\ Pairs > 0
        /\ Patience \in Nat /\ HubWatchdog \in Nat /\ Patience < HubWatchdog
    BY Bounds, KwAssumption, GWGAssumption, WatchdogIsPatient
    DEF WaitInv, Patience, WatchdogIsPatient
  <2>2. waited \in Nat /\ age \in Nat /\ age <= Patience /\ waited <= index * Patience + age
    BY AgeIsBounded DEF WaitInv, ClocksInv
  <2>3. CASE request = "EEPROM"
    <3>1. waited <= (index + 1) * Patience
      BY <2>1, <2>2, Budgets
    <3>2. (index + 1) * Patience <= Pairs * Patience
      BY <2>1
    <3>3. Patience * Pairs < HubWatchdog * Pairs
      BY <2>1, Scaled
    <3> QED
      BY <2>1, <2>2, <2>3, <3>1, <3>2, <3>3 DEF TelegramCount
  <2>4. CASE request # "EEPROM"
    BY <2>1, <2>2, <2>4 DEF TelegramCount, WaitInv
  <2> QED
    BY <2>3, <2>4
<1> QED
  BY <1>1, <1>2, <1>3, PTL DEF Spec

----------------------------------------------------------------------------
(* What is collected and what is on the line.                              *)

LineTyped ==
  /\ state \in {"INIT", "RECEIVE"} /\ request \in Requests \cup {"NONE"}
  /\ answer \in Seq(Bytes) /\ rx \in Seq(Bytes) /\ tx \in Seq(Owed)
  /\ told \in {"NOTHING", "ANSWERED", "ERROR", "WRONGLY"}

\* The pairs verified are the first of what is collected, and all of it between two
\* telegrams.
AnswerInv ==
  /\ ~busy => answer = <<>>
  /\ busy => /\ index <= Len(answer)
             /\ state = "INIT" => Len(answer) = index

LEMMA PassTyped ==
  ASSUME LineTyped, NEW s \in {"INIT", "RECEIVE"}, NEW elapsed, NEW bytes \in Seq(Bytes),
         NEW rest \in Seq(Bytes), NEW sent \in Seq(Owed),
         Pass(s, elapsed, bytes, rest, sent)
  PROVE  LineTyped'
<1>1. CASE /\ state' = s /\ answer' = bytes /\ rx' = rest /\ tx' = sent /\ told' = told
           /\ request' = request
  BY <1>1 DEF LineTyped
<1>2. CASE /\ state' = "INIT" /\ answer' = <<>> /\ told' = "ERROR" /\ request' = "NONE"
           /\ rx' = AllEarlier(rest) /\ tx' = AllEarlier(sent)
  BY <1>2, EarlierLine, EmptySeq DEF LineTyped
<1> QED
  BY <1>1, <1>2, PassLeaves

LEMMA CallBackTyped ==
  ASSUME LineTyped, NEW what \in {"ANSWERED", "ERROR", "WRONGLY"}, NEW rest \in Seq(Bytes),
         CallBack(what, "INIT", rest, tx)
  PROVE  LineTyped'
BY EarlierLine, EmptySeq DEF CallBack, LineTyped

LEMMA ValuesTyped ==
  ASSUME LineTyped, AnswerInv, busy, index \in Nat
  PROVE  /\ Values \in Seq(Bytes) /\ Len(Values) = index
         /\ \A i \in 1..index : Values[i] = answer[i]
<1>1. 1 \in 1..Len(answer) + 1 /\ index \in 0..Len(answer)
  BY LenProperties DEF LineTyped, AnswerInv
<1> QED
  BY <1>1, SubSeqProperties DEF Values, LineTyped

\* A telegram that is sent, from whatever is unread.
LEMMA SendTyped ==
  ASSUME LineTyped
  PROVE  Telegram(Expected) \in Seq(Owed)
<1>1. [kind |-> "TELEGRAM", whose |-> "PENDING", size |-> Expected] \in Owed
  BY DEF Owed, Commands, Whose, Expected
<1> QED
  BY <1>1, AppendProperties DEF LineTyped, Telegram

LEMMA PairTyped ==
  ASSUME LineTyped, AnswerInv, busy, index \in Nat,
         request = "EEPROM", Len(answer \o rx) - index = Expected
  PROVE  /\ LastPair(answer \o rx) \in Seq(Bytes) /\ Len(LastPair(answer \o rx)) = 2
         /\ \A i \in 1..2 : LastPair(answer \o rx)[i] = (answer \o rx)[index + i]
         /\ Value(LastPair(answer \o rx)) \in Bytes
<1> DEFINE bytes == answer \o rx
           pair == LastPair(bytes)
<1>1. bytes \in Seq(Bytes) /\ Len(bytes) = index + 2
  BY ConcatProperties, LenProperties DEF LineTyped, Expected
<1>2. pair \in Seq(Bytes) /\ Len(pair) = 2 /\ \A i \in 1..2 : pair[i] = bytes[index + i]
  BY <1>1, SubSeqProperties DEF LastPair
<1>3. Value(pair) \in Bytes
  BY Zenon DEF Value, Bytes, Whose
<1> QED
  BY <1>2, <1>3

----------------------------------------------------------------------------
(* An answer to an EEPROM read tells of an address not in use.             *)

UnservedInv == busy => (unserved <=> \E i \in 1..index : answer[i].kind = "FF")

StoreInv == LineTyped /\ AnswerInv /\ UnservedInv

\* A pass leaves what was verified, and more behind it.
LEMMA PassStores ==
  ASSUME StoreInv, NEW s \in {"INIT", "RECEIVE"}, NEW elapsed, NEW bytes \in Seq(Bytes),
         NEW rest \in Seq(Bytes), NEW sent \in Seq(Owed),
         Pass(s, elapsed, bytes, rest, sent),
         ~busy => bytes = <<>>,
         busy => /\ index' <= Len(bytes) /\ (s = "INIT" => Len(bytes) = index')
                 /\ unserved' <=> \E i \in 1..index' : bytes[i].kind = "FF"
  PROVE  StoreInv'
<1>1. LineTyped'
  BY PassTyped DEF StoreInv
<1>2. CASE state' = s /\ answer' = bytes /\ busy' = busy
  BY <1>1, <1>2 DEF StoreInv, AnswerInv, UnservedInv
<1>3. CASE answer' = <<>> /\ ~busy'
  BY <1>1, <1>3 DEF StoreInv, AnswerInv, UnservedInv
<1> QED
  BY <1>2, <1>3, PassLeaves

LEMMA CallBackStores ==
  ASSUME StoreInv, NEW what \in {"ANSWERED", "ERROR", "WRONGLY"}, NEW rest \in Seq(Bytes),
         CallBack(what, "INIT", rest, tx)
  PROVE  StoreInv'
<1>1. LineTyped'
  BY CallBackTyped DEF StoreInv
<1>2. answer' = <<>> /\ ~busy'
  BY DEF CallBack
<1> QED
  BY <1>1, <1>2 DEF StoreInv, AnswerInv, UnservedInv

LEMMA SendStores ==
  ASSUME StoreInv, index \in Nat, busy, NEW rest \in Seq(Bytes), SendFrom(rest), UNCHANGED eeprom
  PROVE  StoreInv'
<1>1. Pass("RECEIVE", age, Values, rest, Telegram(Expected))
  BY DEF SendFrom
<1>2. Telegram(Expected) \in Seq(Owed)
  BY SendTyped DEF StoreInv
<1>3. /\ Values \in Seq(Bytes) /\ Len(Values) = index
      /\ \A i \in 1..index : Values[i] = answer[i]
  BY ValuesTyped DEF StoreInv
<1>4. unserved' <=> \E i \in 1..index' : Values[i].kind = "FF"
  BY <1>3 DEF eeprom, StoreInv, UnservedInv
<1> QED
  BY <1>1, <1>2, <1>3, <1>4, PassStores DEF eeprom

LEMMA WaitStores ==
  ASSUME StoreInv, state = "INIT", NEW rest \in Seq(Bytes),
         Pass("INIT", age, answer, rest, tx), UNCHANGED eeprom
  PROVE  StoreInv'
<1>1. answer \in Seq(Bytes) /\ tx \in Seq(Owed)
  BY DEF StoreInv, LineTyped
<1>2. ~busy => answer = <<>>
  BY DEF StoreInv, AnswerInv
<1>3. busy => /\ index' <= Len(answer) /\ Len(answer) = index'
              /\ unserved' <=> \E i \in 1..index' : answer[i].kind = "FF"
  BY DEF StoreInv, AnswerInv, UnservedInv, eeprom
<1> QED
  BY <1>1, <1>2, <1>3, PassStores

LEMMA GoodPairStores ==
  ASSUME StoreInv, index \in Nat, busy, GoodPair(answer \o rx)
  PROVE  StoreInv'
<1> DEFINE pair == LastPair(answer \o rx)
           values == Append(Values, Value(pair))
<1>1. request = "EEPROM" /\ Len(answer \o rx) - index = Expected /\ index' = index + 1
      /\ unserved' = Unserved(pair)
  BY DEF GoodPair, Complete
<1>2. /\ Values \in Seq(Bytes) /\ Len(Values) = index
      /\ \A i \in 1..index : Values[i] = answer[i]
  BY ValuesTyped DEF StoreInv
<1>3. Value(pair) \in Bytes
  BY <1>1, PairTyped DEF StoreInv
<1>4. /\ values \in Seq(Bytes) /\ Len(values) = index'
      /\ \A i \in 1..index : values[i] = answer[i]
      /\ values[index'] = Value(pair)
  BY <1>1, <1>2, <1>3, AppendProperties
<1>5. Value(pair).kind = "FF" <=> IsUnserved(pair)
  BY DEF Value
<1>6. unserved' <=> \E i \in 1..index' : values[i].kind = "FF"
  <2>1. (\E i \in 1..index' : values[i].kind = "FF") <=>
          (\E i \in 1..index : answer[i].kind = "FF") \/ Value(pair).kind = "FF"
    BY <1>1, <1>4
  <2>2. unserved <=> \E i \in 1..index : answer[i].kind = "FF"
    BY DEF StoreInv, UnservedInv
  <2> QED
    BY <1>1, <1>5, <2>1, <2>2 DEF Unserved
<1>7. CASE Pass("INIT", Rearm, values, <<>>, tx)
  <2>1. tx \in Seq(Owed) /\ <<>> \in Seq(Bytes)
    BY EmptySeq DEF StoreInv, LineTyped
  <2>2. index' <= Len(values)
    BY <1>1, <1>4
  <2> QED
    BY <1>4, <1>6, <1>7, <2>1, <2>2, PassStores
<1>8. CASE CallBack(Judged(values), "INIT", <<>>, tx)
  BY <1>8, CallBackStores, JudgedTo, EmptySeq
<1> QED
  BY <1>7, <1>8 DEF GoodPair

LEMMA ReceiveStores ==
  ASSUME StoreInv, index \in Nat, busy, state = "RECEIVE", Receive
  PROVE  StoreInv'
<1> DEFINE bytes == answer \o rx
<1>1. CASE Partial(bytes)
  <2>1. bytes \in Seq(Bytes) /\ Len(bytes) = Len(answer) + Len(rx) /\ Len(rx) \in Nat /\ Len(answer) \in Nat
        /\ \A i \in 1..Len(answer) : bytes[i] = answer[i]
    BY ConcatProperties, LenProperties DEF StoreInv, LineTyped
  <2>2. index' = index /\ unserved' = unserved /\ Pass("RECEIVE", age, bytes, <<>>, tx)
    BY <1>1 DEF Partial, eeprom
  <2>3. index <= Len(answer)
    BY DEF StoreInv, AnswerInv
  <2>4. \A i \in 1..index : bytes[i] = answer[i]
    BY <2>1, <2>3
  <2>5. unserved' <=> \E i \in 1..index' : bytes[i].kind = "FF"
    BY <2>2, <2>4 DEF StoreInv, UnservedInv
  <2>6. index' <= Len(bytes) /\ tx \in Seq(Owed) /\ <<>> \in Seq(Bytes)
    BY <2>1, <2>2, <2>3, EmptySeq DEF StoreInv, LineTyped
  <2> QED
    BY <2>1, <2>2, <2>5, <2>6, PassStores
<1>2. CASE Whole(bytes) \/ BadPair(bytes)
  BY <1>2, CallBackStores, JudgedTo, EmptySeq DEF Whole, BadPair
<1>3. CASE GoodPair(bytes)
  BY <1>3, GoodPairStores
<1> QED
  BY <1>1, <1>2, <1>3 DEF Receive

LEMMA LoopStores ==
  ASSUME StoreInv, index \in Nat, TelegramInv, Loop
  PROVE  StoreInv'
<1>1. rx \in Seq(Bytes) /\ (rx # <<>> => Tail(rx) \in Seq(Bytes)) /\ <<>> \in Seq(Bytes)
  BY HeadTailProperties, EmptySeq DEF StoreInv, LineTyped
<1>2. CASE state = "INIT" /\ (AnswerEnq \/ Burst)
  BY <1>1, <1>2, SendStores DEF AnswerEnq, Burst, ReadsEnq
<1>3. CASE state = "INIT" /\ (DropByte \/ Wait)
  BY <1>1, <1>3, WaitStores DEF DropByte, Wait, ReadsEnq, ReadsOther
<1>4. CASE Unanswered
  BY <1>1, <1>4, CallBackStores DEF Unanswered
<1>5. CASE state = "RECEIVE" /\ Receive
  BY <1>5, ReceiveStores DEF TelegramInv
<1> QED
  BY <1>2, <1>3, <1>4, <1>5 DEF Loop, InitState

LEMMA StepStores ==
  ASSUME WaitInv, TelegramInv, StoreInv, [Next]_vars
  PROVE  StoreInv'
<1> USE DEF StoreInv, LineTyped, AnswerInv, UnservedInv
<1>1. index \in Nat
  BY DEF WaitInv
<1>2. CASE \E r \in Requests : Request(r)
  <2>1. PICK r \in Requests : Request(r)
    BY <1>2
  <2>2. /\ ~busy /\ request' = r /\ told' = "NOTHING" /\ index' = 0 /\ ~unserved'
        /\ UNCHANGED <<state, answer, rx, tx>>
    BY <2>1 DEF Request, KwRequest, controller
  <2>3. answer = <<>> /\ Len(answer) = 0
    BY <2>2
  <2> QED
    BY <2>2, <2>3
<1>3. CASE Loop
  BY <1>1, <1>3, LoopStores
<1>4. CASE (Hear(Kinds) \/ SendEnq \/ Fault) /\ UNCHANGED eeprom
  <2>1. UNCHANGED <<state, busy, request, answer, told, index, unserved>>
    BY <1>4 DEF Hear, SendEnq, Fault, EngineUnchanged, history, eeprom
  <2>2. rx' \in Seq(Bytes) /\ tx' \in Seq(Owed)
    <3>1. CASE SendEnq
      BY <3>1, AppendProperties DEF SendEnq, Bytes, Whose
    <3> QED
      BY <1>4, <3>1, HearTyped, FaultTyped DEF Kinds
  <2> QED
    BY <2>1, <2>2
<1>5. CASE Tick(Idle, AnswerTimeout) /\ UNCHANGED eeprom
  BY <1>5 DEF Tick, eeprom
<1>6. CASE UNCHANGED vars
  BY <1>6 DEF vars, kwVars, controller, history, eeprom
<1> QED
  BY <1>2, <1>3, <1>4, <1>5, <1>6 DEF Next, eeprom

LEMMA StoreStarts == Init => TelegramInv /\ WaitInv /\ StoreInv
<1>1. Init => TelegramInv /\ WaitInv
  BY ClocksStart, GWGAssumption DEF Init, KwInit, TelegramInv, WaitInv
<1>2. Init => StoreInv
  BY EmptySeq DEF Init, KwInit, StoreInv, LineTyped, AnswerInv, UnservedInv
<1> QED
  BY <1>1, <1>2

LEMMA Stored == Spec => [](TelegramInv /\ WaitInv /\ StoreInv)
<1>1. TelegramInv /\ WaitInv /\ StoreInv /\ [Next]_vars => (TelegramInv /\ WaitInv /\ StoreInv)'
  BY StepDoes, StepWaits, StepStores
<1> QED
  BY <1>1, StoreStarts, PTL DEF Spec

\* What the step that answers an EEPROM read says of the addresses.
Tells ==
  request = "EEPROM" /\ told' \in {"ANSWERED", "WRONGLY"} /\ busy /\ ~busy' =>
    (unserved' <=> \/ \E b \in Range(Values) : b.kind = "FF"
                   \/ IsUnserved(LastPair(answer \o rx)))

LEMMA StepTells ==
  ASSUME WaitInv, TelegramInv, StoreInv, [Next]_vars
  PROVE  Tells
<1> SUFFICES ASSUME request = "EEPROM", told' \in {"ANSWERED", "WRONGLY"}, busy, ~busy'
             PROVE  unserved' <=> \/ \E b \in Range(Values) : b.kind = "FF"
                                  \/ IsUnserved(LastPair(answer \o rx))
  BY DEF Tells
<1> DEFINE bytes == answer \o rx
<1>1. Loop
  <2>1. ~(\E r \in Requests : Request(r))
    BY DEF Request, KwRequest
  <2>2. ~(Hear(Kinds) \/ SendEnq \/ Fault \/ Tick(Idle, AnswerTimeout))
    BY OthersDo DEF Keeps
  <2>3. ~UNCHANGED vars
    BY DEF vars, kwVars
  <2> QED
    BY <2>1, <2>2, <2>3 DEF Next
<1>2. \A s, elapsed, q, rest, sent : ~Pass(s, elapsed, q, rest, sent)
  BY PassLeaves
<1>3. \A s, rest, sent : ~CallBack("ERROR", s, rest, sent)
  BY DEF CallBack
<1>4. GoodPair(bytes)
  <2>1. ~(InitState)
    BY <1>2 DEF InitState, AnswerEnq, Burst, DropByte, Wait, SendFrom
  <2>2. ~Unanswered
    BY <1>3 DEF Unanswered
  <2>3. ~Partial(bytes) /\ ~Whole(bytes) /\ ~BadPair(bytes)
    BY <1>2, <1>3 DEF Partial, Whole, BadPair
  <2> QED
    BY <1>1, <2>1, <2>2, <2>3 DEF Loop, Receive
<1>5. unserved' = (unserved \/ IsUnserved(LastPair(bytes)))
  BY <1>4 DEF GoodPair, Unserved
<1>6. unserved <=> \E b \in Range(Values) : b.kind = "FF"
  <2>1. /\ Values \in Seq(Bytes) /\ Len(Values) = index
        /\ \A i \in 1..index : Values[i] = answer[i]
    BY ValuesTyped DEF StoreInv, WaitInv
  <2>2. DOMAIN Values = 1..index
    BY <2>1, LenProperties
  <2>3. (\E b \in Range(Values) : b.kind = "FF") <=> \E i \in 1..index : answer[i].kind = "FF"
    BY <2>1, <2>2 DEF Range
  <2> QED
    BY <2>3 DEF StoreInv, UnservedInv
<1> QED
  BY <1>5, <1>6

\* An EEPROM read that is answered says whether one of its addresses is not in use,
\* whichever telegram found it.
THEOREM TellsOfUnserved == Spec => UnservedTold
<1>1. TelegramInv /\ WaitInv /\ StoreInv /\ [Next]_vars => [Tells]_vars
  BY StepTells
<1> QED
  BY <1>1, Stored, PTL DEF Spec, UnservedTold, Tells

----------------------------------------------------------------------------
(* A prompt request is answered by its own bytes.                          *)

\* Also the pairs verified so far are the request's own.
OwnInv ==
  /\ state = "INIT" /\ busy /\ prompt => answer \in Seq(OwnByte)
  /\ LineInv /\ OwnAnswer

\* A pass that ends in INIT.
ToInit ==
  /\ state' = "INIT" /\ (prompt' => prompt)
  /\ told' = "WRONGLY" => told' = told \/ ~prompt'
  /\ busy' /\ prompt' => answer' \in Seq(OwnByte)

LEMMA ComingToInit ==
  ASSUME OwnInv, ToInit
  PROVE  OwnInv'
BY DEF OwnInv, ToInit, LineInv, OwnAnswer

LEMMA PassToInit ==
  ASSUME NEW elapsed, NEW bytes, NEW rest, NEW sent,
         Pass("INIT", elapsed, bytes, rest, sent), prompt' => prompt,
         busy /\ prompt' => bytes \in Seq(OwnByte)
  PROVE  ToInit
BY PassLeaves DEF ToInit

LEMMA CallBackToInit ==
  ASSUME NEW what, NEW rest, NEW sent, CallBack(what, "INIT", rest, sent),
         what = "WRONGLY" => ~prompt
  PROVE  ToInit
BY DEF CallBack, ToInit

LEMMA OwnValues ==
  ASSUME StoreInv, index \in Nat, busy, answer \in Seq(OwnByte)
  PROVE  Values \in Seq(OwnByte)
<1>1. \A i \in 1..index : answer[i] \in OwnByte
  BY LenProperties, ElementOfSeq DEF StoreInv, AnswerInv
<1> QED
  BY <1>1, SubSeqProperties DEF Values

LEMMA Sending ==
  ASSUME StoreInv, OwnInv, ClocksInv, index \in Nat, state = "INIT", busy,
         NEW rest, SendFrom(rest), UNCHANGED <<quiet, stall>>
  PROVE  OwnInv'
<1>1. prompt' => prompt
  BY Zenon DEF SendFrom, Sends
<1>2. Sends(rest) /\ Touched /\ Pass("RECEIVE", age, Values, rest, Telegram(Expected))
  BY DEF SendFrom
<1>3. CASE state' = "INIT" /\ answer' = <<>> /\ told' = "ERROR"
  BY <1>1, <1>3, ComingToInit, EmptySeq DEF ToInit
<1>4. CASE state' = "RECEIVE" /\ answer' = Values /\ rx' = rest /\ tx' = Telegram(Expected) /\ told' = told
  <2>1. Expected \in Int
    BY DEF Expected
  <2>2. prompt' => answer' \in Seq(OwnByte)
    BY <1>1, <1>4, OwnValues DEF OwnInv
  <2>3. prompt' => OwnLine'
    BY <1>2, <1>4, <2>1, <2>2, Prompted
  <2> QED
    BY <1>1, <1>4, <2>3 DEF OwnInv, LineInv, OwnAnswer
<1> QED
  BY <1>2, <1>3, <1>4, PassLeaves

\* In time, what has been read is the request's own.
LEMMA BytesAreOwn ==
  ASSUME OwnInv, state = "RECEIVE", InTime, prompt
  PROVE  OwnLine /\ answer \o rx \in Seq(OwnByte)
<1>1. OwnLine
  BY DEF OwnInv, LineInv, InTime, NotDue
<1> QED
  BY <1>1, ConcatProperties DEF OwnLine

LEMMA OwnPair ==
  ASSUME StoreInv, OwnInv, index \in Nat, busy, state = "RECEIVE", InTime, prompt,
         request = "EEPROM", Len(answer \o rx) - index = Expected
  PROVE  Append(Values, Value(LastPair(answer \o rx))) \in Seq(OwnByte)
<1> DEFINE bytes == answer \o rx
           pair == LastPair(bytes)
<1>1. bytes \in Seq(OwnByte) /\ answer \in Seq(OwnByte)
  BY BytesAreOwn DEF OwnLine
<1>2. Len(pair) = 2 /\ pair \in Seq(Bytes) /\ \A i \in 1..2 : pair[i] = bytes[index + i]
  BY PairTyped DEF StoreInv
<1>3. Len(bytes) = index + 2
  BY <1>1, LenProperties DEF Expected
<1>4. \A i \in 1..2 : pair[i] \in OwnByte
  BY <1>1, <1>2, <1>3, ElementOfSeq
<1>5. DOMAIN pair = 1..2
  BY <1>2, LenProperties
<1>6. \A b \in Range(pair) : b.kind # "ENQ" /\ b.whose = "PENDING"
  BY <1>4, <1>5 DEF Range, OwnByte
<1>7. Value(pair) \in OwnByte
  BY <1>6 DEF Value, OwnByte
<1> QED
  BY <1>1, <1>7, OwnValues, AppendProperties

LEMMA ReceivesOwn ==
  ASSUME StoreInv, OwnInv, ClocksInv, index \in Nat, busy, state = "RECEIVE",
         Receive, SendsNothing, UNCHANGED <<quiet, stall>>
  PROVE  OwnInv'
<1> DEFINE bytes == answer \o rx
<1>1. InTime /\ UNCHANGED prompt
  BY DEF Receive, SendsNothing
<1>2. CASE Partial(bytes)
  <2>1. Pass("RECEIVE", age, bytes, <<>>, tx)
    BY <1>2 DEF Partial
  <2>2. CASE state' = "INIT" /\ answer' = <<>> /\ told' = "ERROR"
    BY <1>1, <2>2, ComingToInit, EmptySeq DEF ToInit
  <2>3. CASE state' = "RECEIVE" /\ answer' = bytes /\ rx' = <<>> /\ tx' = tx /\ told' = told
    <3>1. prompt' => OwnLine /\ bytes \in Seq(OwnByte)
      BY <1>1, BytesAreOwn
    <3>2. prompt' => (quiet' <= since' + 1 \/ quiet' <= since' + MaxStall)
      BY <3>1, Bounds DEF Receive, OwnLine, ClocksInv, Touched, Untouched
    <3>3. prompt' => OwnLine'
      BY <2>3, <3>1, <3>2, EmptySeq DEF OwnLine
    <3> QED
      BY <1>1, <2>3, <3>3 DEF OwnInv, LineInv, OwnAnswer
  <2> QED
    BY <2>1, <2>2, <2>3, PassLeaves
<1>3. CASE Whole(bytes)
  <2>1. prompt => Judged(bytes) = "ANSWERED"
    BY <1>1, BytesAreOwn, OwnIsNotWrong
  <2> QED
    BY <1>3, <2>1, CallBackToInit, ComingToInit DEF Whole
<1>4. CASE BadPair(bytes)
  BY <1>4, CallBackToInit, ComingToInit DEF BadPair
<1>5. CASE GoodPair(bytes)
  <2> DEFINE values == Append(Values, Value(LastPair(bytes)))
  <2>1. prompt => values \in Seq(OwnByte)
    BY <1>1, <1>5, OwnPair DEF GoodPair, Complete
  <2>2. CASE Pass("INIT", Rearm, values, <<>>, tx)
    BY <1>1, <2>1, <2>2, PassToInit, ComingToInit
  <2>3. CASE CallBack(Judged(values), "INIT", <<>>, tx)
    BY <2>1, <2>3, OwnIsNotWrong, CallBackToInit, ComingToInit
  <2> QED
    BY <1>5, <2>2, <2>3 DEF GoodPair
<1> QED
  BY <1>2, <1>3, <1>4, <1>5 DEF Receive

LEMMA LoopOwn ==
  ASSUME TelegramInv, StoreInv, OwnInv, ClocksInv, index \in Nat, Loop
  PROVE  OwnInv'
<1>1. UNCHANGED <<quiet, stall>>
  BY DEF Loop
<1>2. CASE state = "INIT" /\ (AnswerEnq \/ Burst)
  BY <1>1, <1>2, Sending DEF AnswerEnq, Burst
<1>3. CASE state = "INIT" /\ (DropByte \/ Wait)
  <2>1. UNCHANGED prompt /\ \E rest : Pass("INIT", age, answer, rest, tx)
    BY <1>3 DEF DropByte, Wait, SendsNothing
  <2> QED
    BY <1>3, <2>1, PassToInit, ComingToInit DEF OwnInv
<1>4. CASE Unanswered
  BY <1>4, CallBackToInit, ComingToInit DEF Unanswered
<1>5. CASE state = "RECEIVE" /\ SendsNothing /\ Receive
  BY <1>1, <1>5, ReceivesOwn DEF TelegramInv
<1> QED
  BY <1>2, <1>3, <1>4, <1>5 DEF Loop, InitState

LEMMA StepOwn ==
  ASSUME EnqComesLate, TelegramInv, WaitInv, StoreInv, OwnInv, [Next]_vars
  PROVE  OwnInv'
<1>1. CASE \E r \in Requests : Request(r)
  <2>1. ~busy /\ told' = "NOTHING" /\ UNCHANGED <<state, answer>>
    BY <1>1 DEF Request, KwRequest
  <2>2. answer = <<>> /\ state # "RECEIVE"
    BY <2>1 DEF StoreInv, AnswerInv, TelegramInv
  <2> QED
    BY <2>1, <2>2, EmptySeq DEF OwnInv, LineInv, OwnAnswer
<1>2. CASE Loop
  BY <1>2, LoopOwn DEF WaitInv
<1>3. CASE Hear(Kinds) \/ SendEnq \/ Fault \/ Tick(Idle, AnswerTimeout)
  <2>1. (Idle => rx = <<>>) /\ Kinds \in SUBSET {"DATA", "FF"}
    BY DEF Idle, Kinds
  <2>2. AnswerTimeout \in Nat /\ AnswerTimeout <= AnswerTimeout /\ ClocksInv /\ LineInv
    BY Bounds DEF OwnInv, WaitInv
  <2>3. LineInv' /\ UNCHANGED <<state, prompt, answer>>
    BY <1>3, <2>1, <2>2, LineKeepsOwn
  <2>4. UNCHANGED <<told, busy>>
    BY <1>3, OthersDo DEF Keeps
  <2> QED
    BY <2>3, <2>4 DEF OwnInv, OwnAnswer
<1>4. CASE UNCHANGED vars
  BY <1>4 DEF vars, kwVars, controller, history, OwnInv, LineInv, OwnLine, OwnAnswer
<1> QED
  BY <1>1, <1>2, <1>3, <1>4 DEF Next

\* A request of the GWG engine whose telegrams all went out when the controller had just
\* spoken is answered by its own bytes, if the controller waits before the next ENQ for
\* longer than the engine waits for an answer, stalls of loop() included.
THEOREM AnsweredByItsOwn ==
  ASSUME EnqComesLate
  PROVE  Spec => []OwnAnswer
<1>1. Init => OwnInv
  BY DEF Init, KwInit, OwnInv, LineInv, OwnAnswer
<1>2. TelegramInv /\ WaitInv /\ StoreInv /\ OwnInv /\ [Next]_vars => OwnInv'
  BY EnqComesLate, StepOwn
<1>3. OwnInv => OwnAnswer
  BY DEF OwnInv
<1> QED
  BY <1>1, <1>2, <1>3, Stored, PTL DEF Spec

----------------------------------------------------------------------------
(* Types.                                                                  *)

Flags == <<busy, prompt, passed, syncValid, sentInBurst, disabled, unserved>>
FlagsTyped ==
  /\ busy \in BOOLEAN /\ prompt \in BOOLEAN /\ passed \in BOOLEAN
  /\ syncValid \in BOOLEAN /\ sentInBurst \in BOOLEAN /\ disabled \in BOOLEAN
  /\ unserved \in BOOLEAN

\* The engine gives up bursts with the second failure in a row, so none is counted after.
BurstInv ==
  /\ syncAge \in 0..EnqValidity + 1 /\ failures \in 0..BurstFailuresBeforeFallback
  /\ ~disabled => failures < BurstFailuresBeforeFallback

LineBounds ==
  since \in 0..AnswerTimeout + 1 /\ quiet \in 0..EnqMax /\ mode = "KW" /\ faults \in 0..MaxFaults

TypeInv == FlagsTyped /\ BurstInv /\ LineBounds

LEMMA LoopFlags ==
  ASSUME FlagsTyped, Loop
  PROVE  FlagsTyped'
<1>1. passed' \in BOOLEAN
  BY DEF Loop
<1>2. busy' \in BOOLEAN
  <2>1. Keeps \/ busy' = FALSE
    <3>1. \A s, elapsed, bytes, rest, sent :
             Pass(s, elapsed, bytes, rest, sent) => Keeps \/ busy' = FALSE
      BY DEF Pass, CallBack, Keeps
    <3>2. \A what, s, rest, sent : CallBack(what, s, rest, sent) => busy' = FALSE
      BY DEF CallBack
    <3> QED
      BY <3>1, <3>2 DEF Loop, InitState, AnswerEnq, Burst, DropByte, Wait, SendFrom,
         Unanswered, Receive, Partial, Whole, BadPair, GoodPair
  <2> QED
    BY <2>1 DEF Keeps, FlagsTyped
<1>3. prompt' \in BOOLEAN
  <2>1. \A rest : Sends(rest) => prompt' \in BOOLEAN
    BY Zenon DEF Sends
  <2>2. SendsNothing => prompt' \in BOOLEAN
    BY DEF SendsNothing, FlagsTyped
  <2> QED
    BY <2>1, <2>2 DEF Loop, InitState, AnswerEnq, Burst, DropByte, Wait, SendFrom
<1>4. unserved' \in BOOLEAN
  <2>1. \A pair : Unserved(pair) \in BOOLEAN
    BY Zenon DEF Unserved
  <2> QED
    BY <2>1 DEF Loop, InitState, AnswerEnq, Burst, DropByte, Wait, Unanswered, Receive,
       Partial, Whole, BadPair, GoodPair, eeprom, FlagsTyped
<1>5. disabled' \in BOOLEAN
  <2>1. Unanswered => disabled' \in BOOLEAN
    BY Zenon DEF Unanswered
  <2> QED
    BY <2>1 DEF Loop, InitState, AnswerEnq, Burst, DropByte, Wait, Receive,
       Partial, Whole, BadPair, GoodPair, Complete, burst, FlagsTyped
<1>6. syncValid' \in BOOLEAN /\ sentInBurst' \in BOOLEAN
  BY DEF Loop, InitState, AnswerEnq, Burst, DropByte, Wait, Unanswered, Receive,
     Partial, Whole, BadPair, GoodPair, Complete, burst, FlagsTyped
<1> QED
  BY <1>1, <1>2, <1>3, <1>4, <1>5, <1>6 DEF FlagsTyped

LEMMA LoopBurst ==
  ASSUME FlagsTyped, BurstInv, Loop
  PROVE  BurstInv'
<1> USE GWGAssumption DEF BurstInv, BurstFailuresBeforeFallback
<1>1. CASE Unanswered
  <2>1. disabled' <=> disabled \/ failures' = 2
    BY <1>1, Zenon DEF Unanswered
  <2>2. syncAge' = syncAge /\ (failures' = IF sentInBurst /\ ~disabled THEN failures + 1 ELSE failures)
    BY <1>1 DEF Unanswered
  <2> QED
    BY <2>1, <2>2
<1>2. CASE UNCHANGED <<syncAge, failures, disabled>>
  BY <1>2
<1>3. CASE syncAge' = 0 /\ failures' \in {0, failures} /\ UNCHANGED disabled
  BY <1>3
<1> QED
  BY <1>1, <1>2, <1>3 DEF Loop, InitState, AnswerEnq, Burst, DropByte, Wait, Receive,
     Partial, Whole, BadPair, GoodPair, Complete, burst

LEMMA LoopBounds ==
  ASSUME LineBounds, Loop
  PROVE  LineBounds'
<1>1. Touched \/ Untouched
  BY DEF Loop, InitState, AnswerEnq, Burst, DropByte, Wait, SendFrom, Unanswered, Receive
<1> QED
  BY <1>1, Bounds DEF LineBounds, Loop, Touched, Untouched

LEMMA StepTyped ==
  ASSUME StoreInv, TypeInv, [Next]_vars
  PROVE  TypeInv'
<1>1. CASE \E r \in Requests : Request(r)
  <2>1. /\ busy' = TRUE /\ prompt' = TRUE /\ unserved' = FALSE
        /\ UNCHANGED <<passed, since, quiet, mode, faults>>
        /\ UNCHANGED <<syncAge, syncValid, sentInBurst, failures, disabled>>
    BY <1>1 DEF Request, KwRequest, controller, burst
  <2>2. FlagsTyped'
    BY <2>1, Zenon DEF TypeInv, FlagsTyped
  <2> QED
    BY <2>1, <2>2 DEF TypeInv, BurstInv, LineBounds
<1>2. CASE Loop
  BY <1>2, LoopFlags, LoopBurst, LoopBounds DEF TypeInv
<1>3. CASE (Hear(Kinds) \/ SendEnq \/ Fault) /\ UNCHANGED <<burst, eeprom>>
  <2>1. UNCHANGED Flags /\ UNCHANGED <<syncAge, failures, since>>
    BY <1>3 DEF Hear, SendEnq, Fault, EngineUnchanged, history, burst, eeprom, Flags
  <2>2. mode' = "KW" /\ quiet' \in 0..EnqMax /\ faults' \in 0..MaxFaults
    <3>1. faults \in 0..MaxFaults /\ MaxFaults \in Nat
      BY KwAssumption DEF TypeInv, LineBounds
    <3> QED
      BY <1>3, <3>1, Bounds DEF Hear, SendEnq, Fault, AnswerByte, LeaveP300, Ignore, TypeInv, LineBounds
  <2> QED
    BY <2>1, <2>2 DEF Flags, TypeInv, FlagsTyped, BurstInv, LineBounds
<1>4. CASE Tick(Idle, AnswerTimeout) /\ Ages
           /\ UNCHANGED <<syncValid, sentInBurst, failures, disabled, eeprom>>
  <2>1. FlagsTyped'
    BY <1>4, Zenon DEF Tick, TypeInv, FlagsTyped, eeprom
  <2>2. BurstInv'
    BY <1>4, GWGAssumption DEF Ages, TypeInv, BurstInv
  <2>3. LineBounds'
    BY <1>4, Bounds DEF Tick, TypeInv, LineBounds
  <2> QED
    BY <2>1, <2>2, <2>3 DEF TypeInv
<1>5. CASE UNCHANGED vars
  BY <1>5 DEF vars, kwVars, controller, history, burst, eeprom, TypeInv, FlagsTyped, BurstInv,
     LineBounds
<1> QED
  BY <1>1, <1>2, <1>3, <1>4, <1>5 DEF Next

\* The GWG engine's types: among them, that a burst is given up with the second failure
\* in a row, and that no more pairs are verified than were asked for.
THEOREM TypeCorrect == Spec => []TypeOK
<1>1. Init => TypeInv
  <2>1. Init => FlagsTyped
    BY Zenon DEF Init, KwInit, FlagsTyped
  <2>2. Init => BurstInv /\ LineBounds
    BY Bounds, KwAssumption, GWGAssumption
    DEF Init, KwInit, BurstInv, LineBounds, BurstFailuresBeforeFallback
  <2> QED
    BY <2>1, <2>2 DEF TypeInv
<1>2. StoreInv /\ TypeInv /\ [Next]_vars => TypeInv'
  BY StepTyped
<1>3. WaitInv /\ StoreInv /\ TypeInv => TypeOK
  <2> SUFFICES ASSUME WaitInv, StoreInv, TypeInv PROVE TypeOK
    OBVIOUS
  <2>1. tx \in Seq(Commands)
    BY OwedAreCommands DEF StoreInv, LineTyped
  <2>2. age \in 0..RequestTimeout + MaxStall + 1 /\ waited \in Nat /\ stall \in 0..MaxStall
    BY Bounds DEF WaitInv, ClocksInv
  <2>3. KwTypeOK(AnswerTimeout, {"INIT", "RECEIVE"}, Requests)
    BY <2>1, <2>2 DEF StoreInv, LineTyped, TypeInv, FlagsTyped, LineBounds, KwTypeOK
  <2> QED
    BY <2>3 DEF TypeOK, TypeInv, FlagsTyped, BurstInv, WaitInv
<1> QED
  BY <1>1, <1>2, <1>3, Stored, PTL DEF Spec
=============================================================================
