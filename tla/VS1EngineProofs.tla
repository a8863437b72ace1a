-------------------------- MODULE VS1EngineProofs ---------------------------
(***************************************************************************)
(* Theorems about VS1Engine: one callback for each request, for any lengths  *)
(* of the windows, any controller and any faults of the line; made before    *)
(* the hub's watchdog runs out, and with the request's own bytes if it was    *)
(* prompt.                                                                 *)
(***************************************************************************)
EXTENDS VS1Engine, KwEngineProofs

\* A telegram is under way only for a pending request.
TelegramInv == state \in {"SEND", "RECEIVE"} => busy

LEMMA GoToTo ==
  ASSUME NEW s, NEW rest, NEW sent, GoTo(s, rest, sent)
  PROVE  (Keeps /\ state' = s) \/ (Ends /\ state' = "INIT")
BY PassTo DEF GoTo

----------------------------------------------------------------------------
(* What each handler does to the promise.                                  *)

LEMMA LoopDoes ==
  ASSUME TelegramInv, Loop
  PROVE  TelegramInv' /\ (Keeps \/ Ends)
<1> USE DEF TelegramInv
<1>1. CASE InitState
  BY <1>1, GoToTo DEF InitState, ResetConnection, Keeps, Ends
<1>2. CASE SyncEnq
  BY <1>2, GoToTo DEF SyncEnq, Keeps, Ends
<1>3. CASE SyncRecv
  BY <1>3, GoToTo DEF SyncRecv, Keeps, Ends
<1>4. CASE SendState
  BY <1>4, GoToTo DEF SendState, Keeps, Ends
<1>5. CASE Receive
  <2> DEFINE bytes == answer \o rx
  <2>1. busy
    BY <1>5 DEF Receive
  <2>2. CASE CallBack("ERROR", "INIT", rx, tx)
    <3>1. Ends /\ state' = "INIT"
      BY <2>1, <2>2, CallBackTo
    <3> QED
      BY <3>1 DEF Ends
  <2>3. CASE Pass("RECEIVE", age, bytes, <<>>, tx)
    BY <2>1, <2>3, PassTo DEF Keeps, Ends
  <2>4. CASE CallBack(Judged(bytes), "SYNC_RECV", <<>>, tx)
    <3>1. Ends /\ state' = "SYNC_RECV"
      BY <2>1, <2>4, CallBackTo, JudgedTo
    <3> QED
      BY <3>1 DEF Ends
  <2>5. CASE CallBack("ERROR", "INIT", <<>>, tx)
    <3>1. Ends /\ state' = "INIT"
      BY <2>1, <2>5, CallBackTo
    <3> QED
      BY <3>1 DEF Ends
  <2> QED
    BY <1>5, <2>2, <2>3, <2>4, <2>5 DEF Receive
<1> QED
  BY <1>1, <1>2, <1>3, <1>4, <1>5 DEF Loop

LEMMA RequestDoes ==
  ASSUME TelegramInv, NEW r, Request(r)
  PROVE  TelegramInv' /\ AnyAnswer!Request
BY DEF TelegramInv, Request, KwRequest, AnyAnswer!Request

\* The controller, the line and time leave the engine alone.
LEMMA OthersDo ==
  ASSUME Answers \/ SendEnq \/ Fault \/ Tick(Idle, Longest)
  PROVE  Keeps /\ state' = state
BY DEF Answers, Hear, SendEnq, Fault, Tick, EngineUnchanged, history, Keeps

LEMMA StepDoes ==
  ASSUME TelegramInv, [Next]_kwVars
  PROVE  TelegramInv' /\ [AnyAnswer!Next]_AnyAnswer!vars
<1> USE DEF AnyAnswer!Next, AnyAnswer!CallBack, AnyAnswer!vars
<1>1. CASE \E r \in Requests : Request(r)
  BY <1>1, RequestDoes
<1>2. CASE Loop
  BY <1>2, LoopDoes DEF Keeps, Ends
<1>3. CASE Answers \/ SendEnq \/ Fault \/ Tick(Idle, Longest)
  BY <1>3, OthersDo DEF Keeps, TelegramInv
<1>4. CASE UNCHANGED kwVars
  BY <1>4 DEF kwVars, history, TelegramInv
<1> QED
  BY <1>1, <1>2, <1>3, <1>4 DEF Next

\* The KW engine keeps the promise every engine makes the hub: one callback for each
\* accepted request, none without one, and no acceptance while one is pending.
THEOREM CallsBackOnce == Spec => OneCallBack
<1>1. Init => TelegramInv /\ AnyAnswer!Init
  BY DEF Init, KwInit, TelegramInv, AnyAnswer!Init
<1>2. TelegramInv /\ [Next]_kwVars => TelegramInv' /\ [AnyAnswer!Next]_AnyAnswer!vars
  BY StepDoes
<1> QED
  BY <1>1, <1>2, PTL DEF Spec, OneCallBack, AnyAnswer!Spec

----------------------------------------------------------------------------
(* The callback comes before the hub's watchdog.                           *)

WaitInv == ClocksInv /\ (busy => waited <= age)

\* Every way through loop() keeps the clock of the request, or ends it.
LoopKeepsClock == PassedInTime /\ (busy' => age' = age) /\ (Touched \/ Untouched)

LEMMA GoToInTime ==
  ASSUME ClocksInv, NEW s, NEW rest, NEW sent, GoTo(s, rest, sent)
  PROVE  PassedInTime /\ (busy' => age' = age)
BY PassInTime DEF GoTo, ClocksInv

LEMMA LoopWaits ==
  ASSUME ClocksInv, Loop
  PROVE  LoopKeepsClock
<1> USE DEF LoopKeepsClock
<1>1. CASE InitState
  BY <1>1, GoToInTime DEF InitState, ResetConnection
<1>2. CASE SyncEnq
  BY <1>2, GoToInTime DEF SyncEnq
<1>3. CASE SyncRecv
  BY <1>3, GoToInTime DEF SyncRecv
<1>4. CASE SendState
  BY <1>4, GoToInTime DEF SendState
<1>5. CASE Receive
  <2> DEFINE bytes == answer \o rx
  <2>1. Touched \/ Untouched
    BY <1>5 DEF Receive
  <2>2. CASE Pass("RECEIVE", age, bytes, <<>>, tx)
    BY <2>1, <2>2, PassInTime DEF ClocksInv
  <2>3. CASE \E what, s, rest, sent : CallBack(what, s, rest, sent)
    BY <2>1, <2>3, CallBackInTime DEF CallBack
  <2> QED
    BY <1>5, <2>2, <2>3 DEF Receive
<1> QED
  BY <1>1, <1>2, <1>3, <1>4, <1>5 DEF Loop

LEMMA StepWaits ==
  ASSUME WaitInv, [Next]_kwVars
  PROVE  WaitInv'
<1>1. CASE \E r \in Requests : Request(r)
  BY <1>1, RequestClocks DEF WaitInv, Request
<1>2. CASE Loop
  <2>1. LoopKeepsClock /\ passed' = TRUE /\ UNCHANGED <<quiet, stall>>
    BY <1>2, LoopWaits DEF WaitInv, Loop
  <2>2. ClocksInv'
    BY <2>1, LoopClocks DEF WaitInv, LoopKeepsClock
  <2> QED
    BY <2>1, <2>2 DEF WaitInv, LoopKeepsClock, PassedInTime
<1>3. CASE Answers \/ SendEnq \/ Fault
  <2>1. UNCHANGED <<busy, age, waited>>
    BY <1>3 DEF Answers, Hear, SendEnq, Fault, EngineUnchanged, history
  <2> QED
    BY <1>3, <2>1, LineClocks DEF WaitInv, Answers
<1>4. CASE Tick(Idle, Longest)
  <2>1. ClocksInv' /\ (busy' => waited' = waited + 1 /\ age' = age + 1) /\ busy' = busy
    BY <1>4, TickClocks DEF WaitInv, Tick
  <2> QED
    BY <2>1 DEF WaitInv, ClocksInv
<1>5. CASE UNCHANGED kwVars
  BY <1>5 DEF kwVars, controller, history, WaitInv, ClocksInv
<1> QED
  BY <1>1, <1>2, <1>3, <1>4, <1>5 DEF Next

\* The KW engine calls back before the hub's watchdog gives the request up, if
\* loop() stalls for less than the difference of the two timeouts.
THEOREM BeforeTheWatchdog ==
  ASSUME WatchdogIsPatient
  PROVE  Spec => []EngineFirst
<1>1. Init => WaitInv
  BY ClocksStart DEF Init, KwInit, WaitInv
<1>2. WaitInv /\ [Next]_kwVars => WaitInv'
  BY StepWaits
<1>3. WaitInv => EngineFirst
  <2> SUFFICES ASSUME WaitInv, busy PROVE waited < HubWatchdog
    BY DEF EngineFirst
  <2>1. waited <= age /\ age <= Patience /\ Patience < HubWatchdog
    BY AgeIsBounded, WatchdogIsPatient DEF WaitInv, WatchdogIsPatient
  <2>2. waited \in Nat /\ age \in Nat /\ Patience \in Nat /\ HubWatchdog \in Nat
    BY Bounds, KwAssumption DEF WaitInv, ClocksInv, Patience
  <2> QED
    BY <2>1, <2>2
<1> QED
  BY <1>1, <1>2, <1>3, PTL DEF Spec

----------------------------------------------------------------------------
(* A prompt request is answered by its own bytes.                          *)

OwnInv ==
  /\ state # "RECEIVE" => answer = <<>>
  /\ LineInv /\ OwnAnswer

\* What a pass does to the answer and the line, if it stays out of RECEIVE.
StaysOut == state' # "RECEIVE" /\ answer' = <<>> /\ told' \in {told, "ERROR"} /\ (prompt' => prompt)

LEMMA StayingOut ==
  ASSUME OwnInv, StaysOut
  PROVE  OwnInv'
BY DEF OwnInv, StaysOut, LineInv, OwnAnswer

LEMMA GoToOut ==
  ASSUME NEW s, NEW rest, NEW sent, GoTo(s, rest, sent), s # "RECEIVE",
         answer = <<>>, prompt' => prompt
  PROVE  StaysOut
<1>1. Pass(s, age, answer, rest, sent)
  BY DEF GoTo
<1> QED
  BY <1>1, PassLeaves DEF StaysOut

\* The telegram goes out.
LEMMA Sending ==
  ASSUME OwnInv, ClocksInv, answer = <<>>, Sends(rx), Touched, UNCHANGED <<quiet, stall>>,
         GoTo("RECEIVE", rx, Telegram(Expected))
  PROVE  OwnInv'
<1>1. prompt' => prompt
  BY Zenon DEF Sends
<1>2. Pass("RECEIVE", age, answer, rx, Telegram(Expected))
  BY DEF GoTo
<1>3. CASE state' = "INIT" /\ answer' = <<>> /\ told' = "ERROR"
  BY <1>1, <1>3, StayingOut DEF StaysOut
<1>4. CASE state' = "RECEIVE" /\ answer' = answer /\ rx' = rx /\ tx' = Telegram(Expected) /\ told' = told
  <2>1. Expected \in Int /\ <<>> \in Seq(OwnByte)
    BY EmptySeq DEF Expected
  <2>2. prompt' => OwnLine'
    BY <1>4, <2>1, Prompted
  <2> QED
    BY <1>1, <1>4, <2>2 DEF OwnInv, LineInv, OwnAnswer
<1> QED
  BY <1>2, <1>3, <1>4, PassLeaves

LEMMA ReceivesOwn ==
  ASSUME OwnInv, ClocksInv, Receive, UNCHANGED <<quiet, stall>>
  PROVE  OwnInv'
<1> DEFINE bytes == answer \o rx
<1>1. UNCHANGED prompt
  BY DEF Receive, SendsNothing
<1>2. CASE CallBack("ERROR", "INIT", rx, tx) \/ CallBack("ERROR", "INIT", <<>>, tx)
  BY <1>1, <1>2, StayingOut DEF CallBack, StaysOut
<1>3. CASE InTime /\ CallBack(Judged(bytes), "SYNC_RECV", <<>>, tx)
  <2>1. state' = "SYNC_RECV" /\ answer' = <<>> /\ told' = Judged(bytes)
    BY <1>3 DEF CallBack
  <2>2. prompt => Judged(bytes) = "ANSWERED"
    <3>1. prompt => OwnLine
      BY <1>3 DEF OwnInv, LineInv, InTime, NotDue, Receive
    <3>2. prompt => bytes \in Seq(OwnByte)
      BY <3>1, ConcatProperties DEF OwnLine
    <3> QED
      BY <3>2, OwnIsNotWrong
  <2> QED
    BY <1>1, <2>1, <2>2 DEF OwnInv, LineInv, OwnAnswer
<1>4. CASE /\ InTime /\ (IF rx # <<>> THEN Touched ELSE Untouched)
           /\ Pass("RECEIVE", age, bytes, <<>>, tx)
  <2>1. CASE state' = "INIT" /\ answer' = <<>> /\ told' = "ERROR"
    BY <1>1, <2>1, StayingOut DEF StaysOut
  <2>2. CASE state' = "RECEIVE" /\ answer' = bytes /\ rx' = <<>> /\ tx' = tx /\ told' = told
    <3>1. prompt' => OwnLine
      BY <1>1, <1>4 DEF OwnInv, LineInv, InTime, NotDue, Receive
    <3>2. prompt' => answer' \in Seq(OwnByte) /\ rx' \in Seq(OwnByte) /\ tx' \in Seq(OwnTelegram)
      BY <2>2, <3>1, ConcatProperties, EmptySeq DEF OwnLine
    <3>3. prompt' => (quiet' <= since' + 1 \/ quiet' <= since' + MaxStall)
      BY <1>4, <3>1, Bounds DEF OwnLine, ClocksInv, Touched, Untouched
    <3>4. prompt' => OwnLine'
      BY <2>2, <3>2, <3>3 DEF OwnLine
    <3> QED
      BY <1>1, <2>2, <3>4 DEF OwnInv, LineInv, OwnAnswer
  <2> QED
    BY <1>4, <2>1, <2>2, PassLeaves
<1> QED
  BY <1>2, <1>3, <1>4 DEF Receive

LEMMA LoopOwn ==
  ASSUME OwnInv, ClocksInv, Loop
  PROVE  OwnInv'
<1>1. UNCHANGED <<quiet, stall>>
  BY DEF Loop
<1>2. CASE InitState
  <2>1. StaysOut
    BY <1>2, GoToOut DEF InitState, ResetConnection, SendsNothing, OwnInv
  <2> QED
    BY <2>1, StayingOut
<1>3. CASE SyncEnq
  <2>1. answer = <<>>
    BY <1>3 DEF SyncEnq, OwnInv
  <2>2. CASE SendsNothing /\ (GoTo("SYNC_ENQ", rx, tx) \/ GoTo("INIT", rx, tx))
    <3>1. StaysOut
      BY <2>1, <2>2, GoToOut DEF SendsNothing
    <3> QED
      BY <3>1, StayingOut
  <2>3. CASE Sends(rx) /\ Touched /\ GoTo("RECEIVE", rx, Telegram(Expected))
    BY <1>1, <2>1, <2>3, Sending
  <2> QED
    BY <1>3, <2>2, <2>3 DEF SyncEnq
<1>4. CASE SyncRecv
  <2>1. StaysOut
    BY <1>4, GoToOut DEF SyncRecv, SendsNothing, OwnInv
  <2> QED
    BY <2>1, StayingOut
<1>5. CASE SendState
  BY <1>1, <1>5, Sending DEF SendState, OwnInv
<1>6. CASE Receive
  BY <1>1, <1>6, ReceivesOwn
<1> QED
  BY <1>2, <1>3, <1>4, <1>5, <1>6 DEF Loop

LEMMA LongestIsLong == Longest \in Nat /\ AnswerTimeout <= Longest
<1> DEFINE S == {EnqReset, ChainWindow, AnswerTimeout}
<1>1. S \subseteq Nat
  BY Bounds, VS1Assumption
<1>2. \E x \in S : \A y \in S : x >= y
  BY Bounds, VS1Assumption
<1>3. Longest \in S /\ \A y \in S : Longest >= y
  BY <1>2 DEF Longest, Max
<1> QED
  BY <1>1, <1>3, Bounds

LEMMA StepOwn ==
  ASSUME EnqComesLate, TelegramInv, ClocksInv, OwnInv, [Next]_kwVars
  PROVE  OwnInv'
<1>1. CASE \E r \in Requests : Request(r)
  BY <1>1 DEF Request, KwRequest, OwnInv, LineInv, OwnAnswer, TelegramInv
<1>2. CASE Loop
  BY <1>2, LoopOwn
<1>3. CASE Answers \/ SendEnq \/ Fault \/ Tick(Idle, Longest)
  <2>1. Idle => rx = <<>>
    BY DEF Idle
  <2>2. LineInv' /\ UNCHANGED <<state, prompt, answer>>
    BY <1>3, <2>1, LineKeepsOwn, LongestIsLong DEF OwnInv, Answers
  <2>3. told' = told
    BY <1>3, OthersDo DEF Keeps
  <2> QED
    BY <2>2, <2>3 DEF OwnInv, OwnAnswer
<1>4. CASE UNCHANGED kwVars
  BY <1>4 DEF kwVars, controller, history, OwnInv, LineInv, OwnLine, OwnAnswer
<1> QED
  BY <1>1, <1>2, <1>3, <1>4 DEF Next

\* A request of the KW engine whose telegram went out on a fresh ENQ is answered by its
\* own bytes, if the controller waits before the next ENQ for longer than the engine
\* waits for the answer, stalls of loop() included.
THEOREM AnsweredByItsOwn ==
  ASSUME EnqComesLate
  PROVE  Spec => []OwnAnswer
<1>1. Init => TelegramInv /\ WaitInv /\ OwnInv
  BY ClocksStart DEF Init, KwInit, TelegramInv, WaitInv, OwnInv, LineInv, OwnAnswer
<1>2. TelegramInv /\ WaitInv /\ OwnInv /\ [Next]_kwVars => (TelegramInv /\ WaitInv /\ OwnInv)'
  BY EnqComesLate, StepDoes, StepWaits, StepOwn DEF WaitInv
<1>3. OwnInv => OwnAnswer
  BY DEF OwnInv
<1> QED
  BY <1>1, <1>2, <1>3, PTL DEF Spec
----------------------------------------------------------------------------
(* Types.                                                                  *)

LineTyped ==
  /\ state \in States /\ request \in Requests \cup {"NONE"}
  /\ answer \in Seq(Bytes) /\ rx \in Seq(Bytes) /\ tx \in Seq(Owed)
  /\ told \in {"NOTHING", "ANSWERED", "ERROR", "WRONGLY"}
Bounded ==
  since \in 0..Longest + 1 /\ quiet \in 0..EnqMax /\ mode \in {"KW", "P300"} /\ faults \in 0..MaxFaults
FlagsTyped == busy \in BOOLEAN /\ prompt \in BOOLEAN
TypeInv == LineTyped /\ Bounded /\ FlagsTyped

LEMMA CallBackTyped ==
  ASSUME NEW what \in {"ANSWERED", "ERROR", "WRONGLY"}, NEW s \in States,
         NEW rest \in Seq(Bytes), NEW sent \in Seq(Owed), CallBack(what, s, rest, sent)
  PROVE  LineTyped'
BY EarlierLine, EmptySeq DEF CallBack, LineTyped

LEMMA PassTyped ==
  ASSUME LineTyped, NEW s \in States, NEW elapsed, NEW bytes \in Seq(Bytes),
         NEW rest \in Seq(Bytes), NEW sent \in Seq(Owed),
         Pass(s, elapsed, bytes, rest, sent)
  PROVE  LineTyped'
<1>1. CASE /\ state' = s /\ answer' = bytes /\ rx' = rest /\ tx' = sent /\ told' = told
           /\ request' = request
  BY <1>1 DEF LineTyped
<1>2. CASE CallBack("ERROR", "INIT", rest, sent)
  BY <1>2, CallBackTyped DEF States
<1> QED
  BY <1>1, <1>2 DEF Pass

LEMMA GoToTyped ==
  ASSUME LineTyped, NEW s \in States, NEW rest \in Seq(Bytes), NEW sent \in Seq(Owed),
         GoTo(s, rest, sent)
  PROVE  LineTyped'
BY PassTyped DEF GoTo, LineTyped

LEMMA SentTyped ==
  ASSUME LineTyped
  PROVE  /\ Telegram(Expected) \in Seq(Owed)
         /\ Append(tx, [kind |-> "EOT", whose |-> "NONE", size |-> 0]) \in Seq(Owed)
<1>1. [kind |-> "TELEGRAM", whose |-> "PENDING", size |-> Expected] \in Owed
  BY DEF Owed, Commands, Whose, Expected
<1>2. [kind |-> "EOT", whose |-> "NONE", size |-> 0] \in Owed
  BY DEF Owed, Commands, Whose
<1> QED
  BY <1>1, <1>2, AppendProperties DEF LineTyped, Telegram

LEMMA LoopTyped ==
  ASSUME LineTyped, Loop
  PROVE  LineTyped'
<1>1. /\ rx \in Seq(Bytes) /\ (rx # <<>> => Tail(rx) \in Seq(Bytes)) /\ <<>> \in Seq(Bytes)
      /\ tx \in Seq(Owed) /\ answer \in Seq(Bytes)
  BY HeadTailProperties, EmptySeq DEF LineTyped
<1>2. {"INIT", "SYNC_ENQ", "SYNC_RECV", "SEND", "RECEIVE"} \subseteq States
  BY DEF States
<1>3. CASE InitState
  BY <1>1, <1>2, <1>3, GoToTyped, SentTyped DEF InitState, ResetConnection, ReadsEnq, ReadsOther
<1>4. CASE SyncEnq \/ SyncRecv \/ SendState
  BY <1>1, <1>2, <1>4, GoToTyped, SentTyped DEF SyncEnq, SyncRecv, SendState
<1>5. CASE Receive
  <2> DEFINE bytes == answer \o rx
  <2>1. bytes \in Seq(Bytes)
    BY <1>1, ConcatProperties
  <2>2. CASE Pass("RECEIVE", age, bytes, <<>>, tx)
    BY <1>1, <1>2, <2>1, <2>2, PassTyped
  <2>3. CASE CallBack("ERROR", "INIT", rx, tx) \/ CallBack("ERROR", "INIT", <<>>, tx)
    BY <1>1, <1>2, <2>3, CallBackTyped
  <2>4. CASE CallBack(Judged(bytes), "SYNC_RECV", <<>>, tx)
    BY <1>1, <1>2, <2>4, CallBackTyped, JudgedTo
  <2> QED
    BY <1>5, <2>2, <2>3, <2>4 DEF Receive
<1> QED
  BY <1>3, <1>4, <1>5 DEF Loop

LEMMA LoopBounds ==
  ASSUME Bounded, FlagsTyped, Loop
  PROVE  Bounded' /\ FlagsTyped'
<1>1. Touched \/ Untouched
  BY DEF Loop, InitState, ResetConnection, SyncEnq, SyncRecv, SendState, Receive
<1>2. Bounded'
  BY <1>1, LongestIsLong DEF Bounded, Loop, Touched, Untouched
<1>3. busy' \in BOOLEAN
  <2>1. \A s, elapsed, bytes, rest, sent : Pass(s, elapsed, bytes, rest, sent) => busy' \in BOOLEAN
    BY DEF Pass, CallBack, FlagsTyped
  <2>2. \A what, s, rest, sent : CallBack(what, s, rest, sent) => busy' \in BOOLEAN
    BY DEF CallBack
  <2> QED
    BY <2>1, <2>2 DEF Loop, InitState, ResetConnection, SyncEnq, SyncRecv, SendState, Receive, GoTo
<1>4. prompt' \in BOOLEAN
  <2>1. \A rest : Sends(rest) => prompt' \in BOOLEAN
    BY Zenon DEF Sends
  <2>2. SendsNothing => prompt' \in BOOLEAN
    BY DEF SendsNothing, FlagsTyped
  <2> QED
    BY <2>1, <2>2 DEF Loop, InitState, SyncEnq, SyncRecv, SendState, Receive
<1> QED
  BY <1>2, <1>3, <1>4 DEF FlagsTyped

LEMMA StepTyped ==
  ASSUME TypeInv, [Next]_kwVars
  PROVE  TypeInv'
<1>1. CASE \E r \in Requests : Request(r)
  <2>1. PICK r \in Requests : Request(r)
    BY <1>1
  <2>2. /\ busy' = TRUE /\ prompt' = TRUE /\ request' = r /\ told' = "NOTHING"
        /\ UNCHANGED <<state, answer, rx, tx, since, quiet, mode, faults>>
    BY <2>1 DEF Request, KwRequest, controller
  <2>3. FlagsTyped'
    BY <2>2, Zenon DEF FlagsTyped
  <2> QED
    BY <2>2, <2>3 DEF TypeInv, LineTyped, Bounded
<1>2. CASE Loop
  BY <1>2, LoopTyped, LoopBounds DEF TypeInv
<1>3. CASE Answers \/ SendEnq \/ Fault
  <2>1. UNCHANGED <<state, since, answer, busy, request, told, prompt>>
    BY <1>3 DEF Answers, Hear, SendEnq, Fault, EngineUnchanged, history
  <2>2. rx' \in Seq(Bytes) /\ tx' \in Seq(Owed)
    <3>1. rx \in Seq(Bytes) /\ tx \in Seq(Owed)
      BY DEF TypeInv, LineTyped
    <3>2. CASE SendEnq
      BY <3>1, <3>2, AppendProperties DEF SendEnq, Bytes, Whose
    <3> QED
      BY <1>3, <3>1, <3>2, HearTyped, FaultTyped DEF Answers
  <2>3. mode' \in {"KW", "P300"} /\ quiet' \in 0..EnqMax /\ faults' \in 0..MaxFaults
    <3>1. faults \in 0..MaxFaults /\ MaxFaults \in Nat
      BY KwAssumption DEF TypeInv, Bounded
    <3> QED
      BY <1>3, <3>1, Bounds
         DEF Answers, Hear, SendEnq, Fault, AnswerByte, LeaveP300, Ignore, TypeInv, Bounded
  <2> QED
    BY <2>1, <2>2, <2>3 DEF TypeInv, LineTyped, Bounded, FlagsTyped
<1>4. CASE Tick(Idle, Longest)
  <2>1. UNCHANGED <<state, answer, rx, tx, busy, request, told, prompt>>
    BY <1>4 DEF Tick
  <2>2. Bounded'
    BY <1>4, LongestIsLong, Bounds DEF Tick, TypeInv, Bounded
  <2> QED
    BY <2>1, <2>2 DEF TypeInv, LineTyped, FlagsTyped
<1>5. CASE UNCHANGED kwVars
  BY <1>5 DEF kwVars, controller, history, TypeInv, LineTyped, Bounded, FlagsTyped
<1> QED
  BY <1>1, <1>2, <1>3, <1>4, <1>5 DEF Next

\* The KW engine's types: among them, that its clocks, the request's included, stay
\* within their bounds.
THEOREM TypeCorrect == Spec => []TypeOK
<1>1. Init => WaitInv /\ TypeInv
  <2>1. Init => WaitInv
    BY ClocksStart DEF Init, KwInit, WaitInv
  <2>2. Init => LineTyped /\ Bounded
    BY LongestIsLong, KwAssumption, EmptySeq DEF Init, KwInit, LineTyped, Bounded, States
  <2>3. Init => FlagsTyped
    BY Zenon DEF Init, KwInit, FlagsTyped
  <2> QED
    BY <2>1, <2>2, <2>3 DEF TypeInv
<1>2. WaitInv /\ TypeInv /\ [Next]_kwVars => (WaitInv /\ TypeInv)'
  BY StepWaits, StepTyped
<1>3. WaitInv /\ TypeInv => TypeOK
  <2> SUFFICES ASSUME WaitInv, TypeInv PROVE TypeOK
    OBVIOUS
  <2>1. tx \in Seq(Commands)
    BY OwedAreCommands DEF TypeInv, LineTyped
  <2>2. age \in 0..RequestTimeout + MaxStall + 1
    BY Bounds DEF WaitInv, ClocksInv
  <2>3. waited \in Nat /\ stall \in 0..MaxStall /\ passed \in BOOLEAN
    BY DEF WaitInv, ClocksInv
  <2> QED
    BY <2>1, <2>2, <2>3 DEF TypeInv, LineTyped, Bounded, FlagsTyped, KwTypeOK, TypeOK
<1> QED
  BY <1>1, <1>2, <1>3, PTL DEF Spec
=============================================================================
