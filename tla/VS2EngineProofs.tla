-------------------------- MODULE VS2EngineProofs ---------------------------
(***************************************************************************)
(* Theorems about VS2Engine: what the engine carries from one exchange into *)
(* the next, that a request is called back once and before the hub gives it  *)
(* up, and that the answer passed on is its own, whatever is lost on the line.*)
(***************************************************************************)
EXTENDS VS2Engine, SequenceTheorems, TLAPS

----------------------------------------------------------------------------
(* How a pass ends.                                                        *)

LEMMA CallBackTo ==
  ASSUME NEW what, NEW s, NEW rest, NEW sent, CallBack(what, s, rest, sent)
  PROVE  state' = s /\ collected' = <<>>
BY DEF CallBack, CountAfter

\* A pass gets to its state with its count, or to RESET with none.
LEMMA PassTo ==
  ASSUME NEW s, NEW count, NEW elapsed, NEW rest, NEW sent,
         Pass(s, count, elapsed, rest, sent)
  PROVE  \/ state' = s /\ collected' = count
         \/ state' = "RESET" /\ collected' = <<>>
BY CallBackTo DEF Pass, OutOfTime

LEMMA GoToTo ==
  ASSUME NEW s, NEW rest, NEW sent, GoTo(s, rest, sent)
  PROVE  state' \in {s, "RESET"} /\ collected' = <<>>
BY PassTo DEF GoTo, CountAfter

LEMMA StayTo ==
  ASSUME NEW rest, Stay(rest)
  PROVE  \/ state' = state /\ collected' = collected
         \/ state' = "RESET" /\ collected' = <<>>
BY PassTo DEF Stay

LEMMA KwStartTo ==
  ASSUME NEW rest, KwStart(rest)
  PROVE  state' \in {"KW_RECEIVE", "RESET"} /\ collected' = <<>>
BY PassTo DEF KwStart, CountAfter

LEMMA AnswerEnqTo ==
  ASSUME AnswerEnq
  PROVE  state' \in {"KW_RECEIVE", "INIT", "RESET"} /\ collected' = <<>>
BY KwStartTo, GoToTo DEF AnswerEnq

----------------------------------------------------------------------------
(* The parser.  A frame that breaks off leaves RECEIVE for RESET, which is   *)
(* where the parser is reset: only there may it be inside a frame as well.   *)

ParserInv == state \notin {"RECEIVE", "RESET"} => parser = "START"

LEMMA ParserInit == Init => ParserInv
BY DEF Init, ParserInv

LEMMA ParserStep == ParserInv /\ [Next]_vars => ParserInv'
<1> SUFFICES ASSUME ParserInv, [Next]_vars PROVE ParserInv'
  OBVIOUS
<1> USE DEF ParserInv
<1>1. CASE UNCHANGED vars
  BY <1>1 DEF vars
<1>2. CASE \E r \in Requests : Request(r)
  BY <1>2 DEF Request
<1>3. CASE Loop
  <2>1. CASE Reset
    BY <2>1 DEF Reset, ParserReset
  <2>2. CASE KwDrop
    BY <2>2 DEF KwDrop, ParserReset
  <2>3. CASE Receive
    <3> DEFINE b == Head(rx)
               rest == Tail(rx)
    <3>1. CASE state' \in {"RECEIVE", "RESET"}
      BY <3>1
    <3>2. CASE CallBack(Judged(<<b>>), "RECEIVE_ACK", rest, tx) /\ parser' = "START"
      BY <3>2
    <3>3. CASE CallBack("ERROR", "RECEIVE_ACK", rest, tx) /\ parser' = "START"
      BY <3>3
    <3>4. CASE CallBack("ERROR", "RESET", rest, tx)
      BY <3>4, CallBackTo
    <3>5. CASE Stay(rest) \/ Stay(rx)
      BY <2>3, <3>5, StayTo DEF Receive
    <3> QED
      BY <2>3, <3>1, <3>2, <3>3, <3>4, <3>5 DEF Receive
  <2>4. CASE /\ state \notin {"RECEIVE", "RESET"}
             /\ UNCHANGED parser
    BY <2>4
  <2>5. CASE SendPacket
    BY <2>5, <2>4 DEF SendPacket, Sends
  <2> QED
    BY <1>3, <2>1, <2>2, <2>3, <2>4, <2>5
    DEF Loop, ResetAck, Initialize, InitAck, Idle, SendAck, ReceiveAck, KwEnq, KwReceive, KwChain
<1>4. CASE Hear \/ SendEnq \/ Fault \/ Noise
  BY <1>4 DEF Hear, SendEnq, Fault, Noise, EngineUnchanged
<1>5. CASE Tick
  BY <1>5 DEF Tick
<1> QED
  BY <1>1, <1>2, <1>3, <1>4, <1>5 DEF Next

----------------------------------------------------------------------------
(* The bytes counted.                                                      *)

LEMMA CountStep == NothingLeftOver /\ [Next]_vars => NothingLeftOver'
<1> SUFFICES ASSUME NothingLeftOver, [Next]_vars PROVE NothingLeftOver'
  OBVIOUS
<1> USE DEF NothingLeftOver
<1>1. CASE UNCHANGED vars
  BY <1>1 DEF vars
<1>2. CASE \E r \in Requests : Request(r)
  BY <1>2 DEF Request
<1>3. CASE Loop
  <2>1. CASE Reset \/ Initialize \/ Idle \/ SendPacket \/ ReceiveAck
    BY <2>1, GoToTo, StayTo DEF Reset, Initialize, Idle, SendPacket, ReceiveAck, Sends
  <2>2. CASE ResetAck
    BY <2>2, GoToTo, StayTo, AnswerEnqTo DEF ResetAck, StillQuiet
  <2>3. CASE InitAck
    BY <2>3, GoToTo, StayTo DEF InitAck, StillQuiet
  <2>4. CASE SendAck
    BY <2>4, GoToTo, StayTo, CallBackTo DEF SendAck
  <2>5. CASE Receive
    BY <2>5, StayTo, CallBackTo DEF Receive
  <2>6. CASE KwDrop
    BY <2>6, PassTo DEF KwDrop, CountAfter
  <2>7. CASE KwEnq
    BY <2>7, KwStartTo, StayTo, CallBackTo DEF KwEnq, StillQuiet
  <2>8. CASE KwReceive
    BY <2>8, PassTo, CallBackTo DEF KwReceive
  <2>9. CASE KwChain
    BY <2>9, AnswerEnqTo, KwStartTo, GoToTo, StayTo DEF KwChain, StillQuiet
  <2> QED
    BY <1>3, <2>1, <2>2, <2>3, <2>4, <2>5, <2>6, <2>7, <2>8, <2>9 DEF Loop
<1>4. CASE Hear \/ SendEnq \/ Fault \/ Noise
  BY <1>4 DEF Hear, SendEnq, Fault, Noise, EngineUnchanged
<1>5. CASE Tick
  BY <1>5 DEF Tick
<1> QED
  BY <1>1, <1>2, <1>3, <1>4, <1>5 DEF Next

\* An exchange meets a parser between frames (_reset() and _kwDrop() reset it, every other
\* way out of RECEIVE is the end of a frame) and no bytes counted (_setState() starts the
\* count again), by whatever timeout the one before it ended.
THEOREM ExchangesStartClean == Spec => []StartsClean
<1>1. Init => NothingLeftOver
  BY DEF Init, NothingLeftOver
<1>2. ParserInv => ParserFresh
  BY DEF ParserInv, ParserFresh, Sends
<1>3. ParserFresh /\ NothingLeftOver => StartsClean
  BY DEF StartsClean
<1> QED
  BY <1>1, <1>2, <1>3, ParserInit, ParserStep, CountStep, PTL DEF Spec

----------------------------------------------------------------------------
(* One callback for each request.  Only the states of an exchange call back *)
(* other than through the request's timeout, and the engine is in them only *)
(* while a request is pending.                                             *)

Exchange == Sends \cup {"SEND_ACK", "RECEIVE", "KW_DROP", "KW_ENQ", "KW_RECEIVE"}
ExchangeInv == busy \in BOOLEAN /\ (state \in Exchange => busy)

\* What a pass does to the request.
Keeps == busy' = busy /\ told' = told
CalledBack == busy' = FALSE /\ told' \in {"ANSWERED", "WRONGLY", "ERROR"}

LEMMA ErrorDoes ==
  ASSUME NEW s, NEW rest, NEW sent, CallBack("ERROR", s, rest, sent)
  PROVE  state' = s /\ CalledBack
BY DEF CallBack, CalledBack

LEMMA AnswerDoes ==
  ASSUME NEW q, NEW s, NEW rest, NEW sent, CallBack(Judged(q), s, rest, sent)
  PROVE  state' = s /\ CalledBack
BY DEF CallBack, CalledBack, Judged

LEMMA PassDoes ==
  ASSUME NEW s, NEW count, NEW elapsed, NEW rest, NEW sent,
         Pass(s, count, elapsed, rest, sent)
  PROVE  \/ state' = s /\ Keeps
         \/ state' = "RESET" /\ busy /\ CalledBack
BY ErrorDoes DEF Pass, OutOfTime, Keeps

LEMMA GoToDoes ==
  ASSUME NEW s, NEW rest, NEW sent, GoTo(s, rest, sent)
  PROVE  \/ state' = s /\ Keeps
         \/ state' = "RESET" /\ busy /\ CalledBack
BY PassDoes DEF GoTo

LEMMA StayDoes ==
  ASSUME NEW rest, Stay(rest)
  PROVE  \/ state' = state /\ Keeps
         \/ state' = "RESET" /\ busy /\ CalledBack
BY PassDoes DEF Stay

LEMMA KwStartDoes ==
  ASSUME NEW rest, KwStart(rest)
  PROVE  \/ state' = "KW_RECEIVE" /\ Keeps
         \/ state' = "RESET" /\ busy /\ CalledBack
BY PassDoes DEF KwStart

LEMMA AnswerEnqDoes ==
  ASSUME AnswerEnq
  PROVE  \/ state' = "KW_RECEIVE" /\ busy /\ Keeps
         \/ state' = "INIT" /\ Keeps
         \/ state' = "RESET" /\ busy /\ CalledBack
BY KwStartDoes, GoToDoes DEF AnswerEnq

\* A callback that ends an exchange.
LEMMA ErrorEnds ==
  ASSUME busy = TRUE, NEW s, s \notin Exchange, NEW rest, NEW sent,
         CallBack("ERROR", s, rest, sent)
  PROVE  ExchangeInv' /\ (Keeps \/ (busy /\ CalledBack))
BY ErrorDoes DEF ExchangeInv, CalledBack

LEMMA AnswerEnds ==
  ASSUME busy = TRUE, NEW q, NEW s, s \notin Exchange, NEW rest, NEW sent,
         CallBack(Judged(q), s, rest, sent)
  PROVE  ExchangeInv' /\ (Keeps \/ (busy /\ CalledBack))
BY AnswerDoes DEF ExchangeInv, CalledBack

LEMMA StayKeeps ==
  ASSUME ExchangeInv, NEW rest, Stay(rest)
  PROVE  ExchangeInv' /\ (Keeps \/ (busy /\ CalledBack))
BY StayDoes DEF ExchangeInv, Exchange, Sends, Keeps, CalledBack

LEMMA LoopDoes ==
  ASSUME ExchangeInv, Loop
  PROVE  ExchangeInv' /\ (Keeps \/ (busy /\ CalledBack))
<1> USE DEF ExchangeInv, Exchange, Sends, Keeps, CalledBack
<1>1. CASE Reset \/ Initialize \/ Idle \/ ReceiveAck
  BY <1>1, GoToDoes, StayDoes DEF Reset, Initialize, Idle, ReceiveAck
<1>2. CASE SendPacket
  BY <1>2, GoToDoes DEF SendPacket
<1>3. CASE ResetAck
  BY <1>3, GoToDoes, StayDoes, AnswerEnqDoes DEF ResetAck, StillQuiet
<1>4. CASE InitAck
  BY <1>4, GoToDoes, StayDoes DEF InitAck, StillQuiet
<1>5. CASE SendAck
  <2>1. busy = TRUE
    BY <1>5 DEF SendAck
  <2> QED
    BY <1>5, <2>1, GoToDoes, StayKeeps, ErrorEnds DEF SendAck
<1>6. CASE Receive
  <2>1. busy = TRUE
    BY <1>6 DEF Receive
  <2> QED
    BY <1>6, <2>1, StayKeeps, ErrorEnds, AnswerEnds DEF Receive
<1>7. CASE KwDrop
  BY <1>7, PassDoes DEF KwDrop
<1>8. CASE KwEnq
  <2>1. busy = TRUE
    BY <1>8 DEF KwEnq
  <2> QED
    BY <1>8, <2>1, KwStartDoes, StayKeeps, ErrorEnds DEF KwEnq, StillQuiet
<1>9. CASE KwReceive
  <2>1. busy = TRUE
    BY <1>9 DEF KwReceive
  <2> QED
    BY <1>9, <2>1, PassDoes, ErrorEnds, AnswerEnds DEF KwReceive
<1>10. CASE KwChain
  BY <1>10, AnswerEnqDoes, KwStartDoes, GoToDoes, StayDoes DEF KwChain, StillQuiet
<1> QED
  BY <1>1, <1>2, <1>3, <1>4, <1>5, <1>6, <1>7, <1>8, <1>9, <1>10 DEF Loop

LEMMA StepDoes ==
  ASSUME ExchangeInv, [Next]_vars
  PROVE  ExchangeInv' /\ [AnyAnswer!Next]_AnyAnswer!vars
<1> USE DEF AnyAnswer!Next, AnyAnswer!vars
<1>1. CASE UNCHANGED vars
  BY <1>1 DEF vars, ExchangeInv
<1>2. CASE \E r \in Requests : Request(r)
  BY <1>2 DEF Request, ExchangeInv, AnyAnswer!Request
<1>3. CASE Loop
  BY <1>3, LoopDoes DEF Keeps, CalledBack, AnyAnswer!CallBack
<1>4. CASE Hear \/ SendEnq \/ Fault \/ Noise
  BY <1>4 DEF Hear, SendEnq, Fault, Noise, EngineUnchanged, ExchangeInv
<1>5. CASE Tick
  BY <1>5 DEF Tick, ExchangeInv
<1> QED
  BY <1>1, <1>2, <1>3, <1>4, <1>5 DEF Next

\* An accepted request is called back once, by its answer, an error or its timeout, and
\* never before the next one is accepted again (_tryOnResponse, _tryOnError).
THEOREM CallsBackOnce == Spec => OneCallBack
<1>1. Init => ExchangeInv /\ AnyAnswer!Init
  BY DEF Init, ExchangeInv, Exchange, Sends, AnyAnswer!Init
<1>2. ExchangeInv /\ [Next]_vars => ExchangeInv' /\ [AnyAnswer!Next]_AnyAnswer!vars
  BY StepDoes
<1> QED
  BY <1>1, <1>2, PTL DEF Spec, OneCallBack, AnyAnswer!Spec

----------------------------------------------------------------------------
(* Types.  A KW telegram is sent only by a request for one, and never read   *)
(* beyond its end: the states of the detour are entered with one pending,    *)
(* and the count of its answer starts at 0.                                *)

Detour == {"KW_DROP", "KW_ENQ", "KW_RECEIVE"}
Clock == 0..RequestTimeout + 1

LineTyped == rx \in Seq(Bytes) /\ tx \in Seq(Commands)
RequestInv ==
  /\ state \in States /\ age \in Clock /\ waited \in Nat
  /\ busy = TRUE \/ busy = FALSE
  /\ IF busy THEN request \in Requests ELSE request = "NONE"
  /\ state \in Detour => busy /\ Kw
  /\ told \in {"NOTHING", "ANSWERED", "ERROR", "WRONGLY"}
CountInv ==
  /\ collected \in Seq(Bytes)
  /\ IF state = "KW_RECEIVE" THEN Len(collected) < Expected ELSE collected = <<>>
EngineInv == LineTyped /\ RequestInv /\ CountInv

\* What every pass leaves: a request that is pending is in time.
Passes == EngineInv' /\ (busy' => age' <= RequestTimeout)

LEMMA Constants ==
  /\ RequestTimeout \in Nat /\ HandshakeRetry \in Nat /\ KeepAlive \in Nat
  /\ KwEnqTimeout \in Nat /\ KwAnswerTimeout \in Nat /\ EnqPeriod \in Nat
  /\ KwLength \in Nat \ {0} /\ MaxFaults \in Nat /\ MaxNoise \in Nat
BY VS2Assumption

LEMMA EarlierSeq ==
  ASSUME NEW S, NEW q \in Seq(S), \A x \in S : Earlier(x) \in S
  PROVE  AllEarlier(q) \in Seq(S)
<1>1. Len(q) \in Nat /\ DOMAIN q = 1..Len(q) /\ \A i \in 1..Len(q) : q[i] \in S
  BY LenProperties, ElementOfSeq
<1>2. AllEarlier(q) \in [1..Len(q) -> S]
  BY <1>1 DEF AllEarlier
<1> QED
  BY <1>1, <1>2, SeqDef

LEMMA EarlierLine ==
  /\ \A q \in Seq(Bytes) : AllEarlier(q) \in Seq(Bytes)
  /\ \A q \in Seq(Commands) : AllEarlier(q) \in Seq(Commands)
<1>1. \A x \in Bytes : Earlier(x) \in Bytes
  BY DEF Bytes, Whose, Earlier
<1>2. \A x \in Commands : Earlier(x) \in Commands
  BY DEF Commands, Whose, Earlier
<1> QED
  BY <1>1, <1>2, EarlierSeq

LEMMA CallBackTyped ==
  ASSUME NEW what \in {"ANSWERED", "ERROR", "WRONGLY"}, NEW s \in States \ Detour,
         NEW rest \in Seq(Bytes), NEW sent \in Seq(Commands), CallBack(what, s, rest, sent)
  PROVE  Passes
<1>1. LineTyped'
  BY EarlierLine DEF CallBack, LineTyped
<1>2. RequestInv'
  BY Constants DEF CallBack, RequestInv, Clock, Kw
<1>3. CountInv'
  BY EmptySeq DEF CallBack, CountInv, CountAfter, Detour
<1> QED
  BY <1>1, <1>2, <1>3 DEF Passes, EngineInv, CallBack

LEMMA PassTyped ==
  ASSUME EngineInv, NEW s \in States, s \in Detour => busy /\ Kw, NEW count \in Seq(Bytes),
         IF s = "KW_RECEIVE" THEN Len(count) < Expected ELSE count = <<>>,
         NEW elapsed \in Clock, NEW rest \in Seq(Bytes), NEW sent \in Seq(Commands),
         Pass(s, count, elapsed, rest, sent)
  PROVE  Passes
<1>1. CASE /\ busy => NotDue(elapsed, RequestTimeout)
           /\ state' = s /\ collected' = count /\ age' = elapsed /\ rx' = rest /\ tx' = sent
           /\ UNCHANGED <<busy, request, told, waited>>
  <2>1. LineTyped' /\ (busy' => age' <= RequestTimeout)
    BY <1>1 DEF LineTyped, NotDue
  <2>2. RequestInv'
    BY <1>1 DEF EngineInv, RequestInv, Kw
  <2>3. CountInv'
    BY <1>1 DEF CountInv, Expected
  <2> QED
    BY <2>1, <2>2, <2>3 DEF Passes, EngineInv
<1>2. CASE OutOfTime(rest, sent)
  <2>1. "RESET" \in States \ Detour
    BY DEF States, Detour
  <2> QED
    BY <1>2, <2>1, CallBackTyped DEF OutOfTime
<1> QED
  BY <1>1, <1>2 DEF Pass

LEMMA GoToTyped ==
  ASSUME EngineInv, NEW s \in States \ {"KW_RECEIVE"}, s \in Detour => busy /\ Kw,
         NEW rest \in Seq(Bytes), NEW sent \in Seq(Commands), GoTo(s, rest, sent)
  PROVE  Passes
BY PassTyped, EmptySeq DEF GoTo, CountAfter, EngineInv, RequestInv

LEMMA StayTyped ==
  ASSUME EngineInv, NEW rest \in Seq(Bytes), Stay(rest)
  PROVE  Passes
BY PassTyped DEF Stay, EngineInv, LineTyped, RequestInv, CountInv

\* What is sent, for a request or none.
LEMMA SendTyped ==
  ASSUME EngineInv, NEW k \in {"EOT", "SYNC", "PACKET", "KW_READ", "KW_WRITE"}
  PROVE  Send(k) \in Seq(Commands)
<1>1. [kind |-> k, whose |-> IF busy THEN "PENDING" ELSE "NONE"] \in Commands
  BY DEF Commands, Whose
<1> QED
  BY <1>1, AppendProperties DEF Send, EngineInv, LineTyped

LEMMA ExpectsSome == Expected \in Nat \ {0}
BY Constants DEF Expected

\* A pass that starts the request's time anew.
LEMMA PassAnew ==
  ASSUME EngineInv, NEW s \in States, s \in Detour => busy /\ Kw, NEW rest \in Seq(Bytes),
         NEW k \in {"EOT", "SYNC", "PACKET", "KW_READ", "KW_WRITE"},
         Pass(s, CountAfter(s), 0, rest, Send(k))
  PROVE  Passes
<1>1. <<>> \in Seq(Bytes) /\ Len(<<>>) = 0
  BY EmptySeq
<1>2. 0 \in Clock /\ Expected > 0
  BY Constants, ExpectsSome DEF Clock
<1> QED
  BY <1>1, <1>2, PassTyped, SendTyped DEF CountAfter

LEMMA KwStartTyped ==
  ASSUME EngineInv, busy, Kw, NEW rest \in Seq(Bytes), KwStart(rest)
  PROVE  Passes
<1>1. request \in {"KW_READ", "KW_WRITE"}
  BY DEF EngineInv, RequestInv, Requests, Kw
<1> QED
  BY <1>1, PassAnew DEF KwStart, States

\* What is left of the bytes received, the first of them taken.
LEMMA Unread ==
  ASSUME EngineInv, rx # <<>>
  PROVE  Head(rx) \in Bytes /\ Tail(rx) \in Seq(Bytes) /\ After(rx) \in Seq(Bytes)
<1>1. Head(rx) \in Bytes /\ Tail(rx) \in Seq(Bytes)
  BY HeadTailProperties DEF EngineInv, LineTyped
<1>2. <<[Head(rx) EXCEPT !.kind = "REST"]>> \in Seq(Bytes)
  BY <1>1 DEF Bytes, Kinds
<1> QED
  BY <1>1, <1>2, ConcatProperties DEF After

LEMMA AnswerEnqTyped ==
  ASSUME EngineInv, rx # <<>>, AnswerEnq
  PROVE  Passes
BY Unread, KwStartTyped, GoToTyped DEF AnswerEnq, EngineInv, LineTyped, States, Detour

LEMMA ReceiveTyped ==
  ASSUME EngineInv, Receive
  PROVE  Passes
<1> DEFINE b == Head(rx)
           rest == Tail(rx)
<1>1. rx \in Seq(Bytes) /\ tx \in Seq(Commands)
  BY DEF EngineInv, LineTyped
<1>2. \/ Stay(rx)
      \/ rx # <<>> /\ Stay(rest)
      \/ rx # <<>> /\ \E what \in {Judged(<<b>>), "ERROR"}, s \in {"RECEIVE_ACK", "RESET"} :
                        CallBack(what, s, rest, tx)
  BY DEF Receive
<1>3. Judged(<<b>>) \in {"ANSWERED", "ERROR", "WRONGLY"}
  BY DEF Judged
<1>4. {"RECEIVE_ACK", "RESET"} \subseteq States \ Detour
  BY DEF States, Detour
<1> QED
  BY <1>1, <1>2, <1>3, <1>4, Unread, StayTyped, CallBackTyped

LEMMA KwReceiveTyped ==
  ASSUME EngineInv, KwReceive
  PROVE  Passes
<1> DEFINE n == IF Len(rx) < Expected - Len(collected)
                THEN Len(rx) ELSE Expected - Len(collected)
           answer == collected \o SubSeq(rx, 1, n)
           rest == SubSeq(rx, n + 1, Len(rx))
<1>1. /\ rx \in Seq(Bytes) /\ tx \in Seq(Commands) /\ collected \in Seq(Bytes)
      /\ state = "KW_RECEIVE" /\ Len(collected) < Expected /\ age \in Clock /\ busy /\ Kw
  BY DEF EngineInv, LineTyped, RequestInv, CountInv, KwReceive, Detour
<1>2. n \in 0..Len(rx)
  BY <1>1, ExpectsSome, LenProperties
<1>3. answer \in Seq(Bytes) /\ rest \in Seq(Bytes)
  <2>1. SubSeq(rx, 1, n) \in Seq(Bytes) /\ rest \in Seq(Bytes)
    BY <1>1, <1>2, LenProperties, SubSeqProperties
  <2> QED
    BY <1>1, <2>1, ConcatProperties
<1>4. {"RESET", "KW_CHAIN"} \subseteq States \ Detour /\ state \in States
  BY <1>1 DEF States, Detour
<1>5. Judged(answer) \in {"ANSWERED", "ERROR", "WRONGLY"}
  BY DEF Judged
<1>6. CASE CallBack("ERROR", "RESET", rx, tx)
  BY <1>1, <1>4, <1>6, CallBackTyped
<1>7. CASE Len(answer) < Expected /\ Pass(state, answer, age, rest, tx)
  BY <1>1, <1>3, <1>4, <1>7, PassTyped
<1>8. CASE CallBack("ERROR", "RESET", rest, tx)
  BY <1>1, <1>3, <1>4, <1>8, CallBackTyped
<1>9. CASE CallBack(Judged(answer), "KW_CHAIN", rest, tx)
  BY <1>1, <1>3, <1>4, <1>5, <1>9, CallBackTyped
<1> QED
  BY <1>6, <1>7, <1>8, <1>9 DEF KwReceive

LEMMA LoopTyped ==
  ASSUME EngineInv, Loop
  PROVE  Passes
<1>1. rx \in Seq(Bytes) /\ tx \in Seq(Commands) /\ <<>> \in Seq(Bytes) /\ age \in Clock
  BY EmptySeq DEF EngineInv, LineTyped, RequestInv
<1> USE DEF States, Sends, Detour
<1>2. CASE Reset \/ Initialize \/ ReceiveAck
  BY <1>1, <1>2, GoToTyped, SendTyped DEF Reset, Initialize, ReceiveAck
<1>3. CASE Idle
  BY <1>1, <1>3, GoToTyped, StayTyped DEF Idle
<1>4. CASE SendPacket
  BY <1>1, <1>4, GoToTyped, SendTyped DEF SendPacket
<1>5. CASE ResetAck
  BY <1>1, <1>5, Unread, AnswerEnqTyped, GoToTyped, StayTyped
  DEF ResetAck, StillQuiet, Reads, ReadsElse
<1>6. CASE InitAck
  BY <1>1, <1>6, Unread, GoToTyped, StayTyped DEF InitAck, StillQuiet, Reads, ReadsElse
<1>7. CASE SendAck
  BY <1>1, <1>7, Unread, GoToTyped, StayTyped, CallBackTyped DEF SendAck, Reads, ReadsElse
<1>8. CASE KwDrop
  BY <1>1, <1>8, PassAnew DEF KwDrop, EngineInv, RequestInv
<1>9. CASE KwEnq
  <2>1. busy /\ Kw
    BY <1>9 DEF KwEnq, EngineInv, RequestInv
  <2> QED
    BY <1>1, <1>9, <2>1, Unread, KwStartTyped, StayTyped, CallBackTyped
    DEF KwEnq, StillQuiet, Reads, ReadsElse
<1>10. CASE KwChain
  BY <1>1, <1>10, Unread, AnswerEnqTyped, KwStartTyped, GoToTyped, StayTyped
  DEF KwChain, StillQuiet, Reads, ReadsElse
<1> QED
  BY <1>2, <1>3, <1>4, <1>5, <1>6, <1>7, <1>8, <1>9, <1>10, ReceiveTyped, KwReceiveTyped
  DEF Loop

\* The controller's answers and the line's faults.
LEMMA HearTyped ==
  ASSUME LineTyped, Hear
  PROVE  LineTyped'
<1> DEFINE c == Head(tx)
<1>1. rx \in Seq(Bytes) /\ c \in Commands /\ tx' \in Seq(Commands)
  BY HeadTailProperties DEF Hear, LineTyped
<1>2. \A q \in Seq(Bytes) : rx' = rx \o q => rx' \in Seq(Bytes)
  BY <1>1, ConcatProperties
<1>3. \A k \in Kinds : Byte(k) \in Bytes /\ [kind |-> k, whose |-> c.whose] \in Bytes
  BY <1>1 DEF Byte, Bytes, Whose, Commands
<1>4. <<>> \in Seq(Bytes) /\ (\A x \in Bytes : <<x>> \in Seq(Bytes))
      /\ (\A x, y, z \in Bytes : <<x, y, z>> \in Seq(Bytes))
  OBVIOUS
<1>5. CASE HearEot(c) \/ HearSync(c)
  <2>1. rx' = rx \/ \E q \in {<<>>, <<Byte("ACK")>>} : rx' = rx \o q
    BY <1>5 DEF HearEot, HearSync, Answers
  <2>2. <<Byte("ACK")>> \in Seq(Bytes)
    BY <1>3, <1>4 DEF Kinds
  <2> QED
    BY <1>1, <1>2, <1>4, <2>1, <2>2 DEF LineTyped
<1>6. CASE HearPacket(c)
  <2> DEFINE full(k) == <<Byte("ACK"), Byte("HEAD"), [kind |-> k, whose |-> c.whose]>>
  <2>1. \E q \in {<<>>, <<Byte("NACK")>>, full("RESPONSE"), full("OTHER")} : rx' = rx \o q
    BY <1>6 DEF HearPacket, Answers
  <2>2. {"ACK", "NACK", "HEAD", "RESPONSE", "OTHER"} \subseteq Kinds
    BY DEF Kinds
  <2>3. /\ <<Byte("NACK")>> \in Seq(Bytes)
        /\ full("RESPONSE") \in Seq(Bytes) /\ full("OTHER") \in Seq(Bytes)
    BY <1>3, <1>4, <2>2
  <2> HIDE DEF full
  <2> QED
    BY <1>1, <1>2, <1>4, <2>1, <2>3 DEF LineTyped
<1>7. CASE HearTelegram(c)
  <2> DEFINE data == [kind |-> "DATA", whose |-> c.whose]
  <2>1. data \in Bytes /\ [data EXCEPT !.kind = "REFUSAL"] \in Bytes
    BY <1>3 DEF Kinds, Bytes
  <2>2. [i \in 1..KwLength |-> data] \in Seq(Bytes)
    BY <2>1, Constants, SeqDef
  <2>3. \E q \in {<<>>, <<data>>, [i \in 1..KwLength |-> data],
                  <<[data EXCEPT !.kind = "REFUSAL"]>>} : rx' = rx \o q
    BY <1>7 DEF HearTelegram, Answers
  <2>4. <<data>> \in Seq(Bytes) /\ <<[data EXCEPT !.kind = "REFUSAL"]>> \in Seq(Bytes)
    BY <1>4, <2>1
  <2> HIDE DEF data
  <2> QED
    BY <1>1, <1>2, <1>4, <2>2, <2>3, <2>4 DEF LineTyped
<1> QED
  BY <1>1, <1>5, <1>6, <1>7 DEF Hear, LineTyped

LEMMA FaultTyped ==
  ASSUME LineTyped, Fault
  PROVE  LineTyped'
<1>1. rx \in Seq(Bytes) /\ tx \in Seq(Commands) /\ DOMAIN rx = 1..Len(rx) /\ Len(rx) \in Nat
  BY LenProperties DEF LineTyped
<1>2. ASSUME NEW i \in DOMAIN rx, rx' = RemoveAt(rx, i)
      PROVE  rx' \in Seq(Bytes)
  <2>1. SubSeq(rx, 1, i - 1) \in Seq(Bytes) /\ SubSeq(rx, i + 1, Len(rx)) \in Seq(Bytes)
    BY <1>1, SubSeqProperties
  <2> QED
    BY <1>1, <1>2, <2>1, ConcatProperties DEF RemoveAt
<1>3. ASSUME NEW i \in DOMAIN rx, NEW k \in Kinds, rx' = [rx EXCEPT ![i].kind = k]
      PROVE  rx' \in Seq(Bytes)
  <2>1. rx' = [rx EXCEPT ![i] = [rx[i] EXCEPT !.kind = k]]
    BY <1>3
  <2>2. [rx[i] EXCEPT !.kind = k] \in Bytes
    <3>1. rx[i] \in Bytes
      BY <1>1, ElementOfSeq
    <3> QED
      BY <3>1 DEF Bytes
  <2> QED
    BY <1>1, <2>1, <2>2, ExceptSeq
<1>4. tx # <<>> => Tail(tx) \in Seq(Commands)
  BY <1>1, HeadTailProperties
<1>5. tx' \in Seq(Commands)
  BY <1>1, <1>4 DEF Fault, controller
<1>6. UNCHANGED rx => rx' \in Seq(Bytes)
  BY <1>1
<1>7. ASSUME NEW i \in DOMAIN rx,
             rx' = [rx EXCEPT ![i].kind = IF @ \in {"RESPONSE", "OTHER"} THEN "BAD" ELSE "NOISE"]
      PROVE  rx' \in Seq(Bytes)
  <2>1. PICK k \in {"BAD", "NOISE"} : rx' = [rx EXCEPT ![i].kind = k]
    <3>1. CASE rx[i].kind \in {"RESPONSE", "OTHER"}
      BY <1>7, <3>1
    <3>2. CASE rx[i].kind \notin {"RESPONSE", "OTHER"}
      BY <1>7, <3>2
    <3> QED
      BY <3>1, <3>2
  <2>2. k \in Kinds
    BY DEF Kinds
  <2> QED
    BY <1>3, <2>1, <2>2
<1>8. rx' \in Seq(Bytes)
  BY <1>2, <1>6, <1>7 DEF Fault
<1> QED
  BY <1>5, <1>8 DEF LineTyped

\* The controller's side, and the clock of a request that a pass has looked at.
LineBounds ==
  /\ mode \in {"KW", "P300"} /\ quiet \in 0..EnqPeriod
  /\ faults \in 0..MaxFaults /\ noises \in 0..MaxNoise
InTime == busy /\ passed => age <= RequestTimeout

LEMMA LongestIsMost == Longest \in Nat /\ KwAnswerTimeout <= Longest
<1> DEFINE S == {RequestTimeout, HandshakeRetry, KeepAlive, KwEnqTimeout, KwAnswerTimeout}
<1>1. S \subseteq Nat
  BY Constants
<1>2. \E x \in S : \A y \in S : x >= y
  BY Constants
<1>3. Longest \in S /\ \A y \in S : Longest >= y
  BY <1>2 DEF Longest, Max
<1> QED
  BY <1>1, <1>3

LEMMA LongestIsNat == Longest \in Nat
BY LongestIsMost

ParserTyped == parser \in {"START", "INSIDE", "TORN"}
SinceTyped == since \in 0..Longest + 1
TypeInv == EngineInv /\ InTime /\ LineBounds /\ ParserTyped /\ SinceTyped /\ passed \in BOOLEAN

LEMMA StepTyped ==
  ASSUME TypeInv, [Next]_vars
  PROVE  TypeInv'
<1>1. CASE UNCHANGED vars
  BY <1>1 DEF vars, controller, bounds, TypeInv, EngineInv, LineTyped, RequestInv, CountInv, Kw,
     Expected, InTime, LineBounds, ParserTyped, SinceTyped
<1>2. CASE \E r \in Requests : Request(r)
  <2>1. PICK r \in Requests : Request(r)
    BY <1>2
  <2>2. EngineInv'
    <3>1. RequestInv'
      BY <2>1, Constants DEF Request, TypeInv, EngineInv, RequestInv, Clock
    <3>2. LineTyped' /\ CountInv'
      BY <2>1 DEF Request, controller, TypeInv, EngineInv, LineTyped, RequestInv, CountInv, Detour
    <3> QED
      BY <3>1, <3>2 DEF EngineInv
  <2> QED
    BY <2>1, <2>2, Constants DEF Request, controller, bounds, TypeInv, InTime, LineBounds,
       ParserTyped, SinceTyped
<1>3. CASE Loop
  <2>1. Passes
    BY <1>3, LoopTyped DEF TypeInv
  <2>2. ParserTyped'
    BY <1>3 DEF Loop, Reset, ParserReset, ResetAck, Initialize, InitAck, Idle, SendPacket, SendAck,
       Receive, ReceiveAck, KwDrop, KwEnq, KwReceive, KwChain, TypeInv, ParserTyped
  <2>3. SinceTyped'
    <3>1. Touched \/ Untouched
      BY <1>3 DEF Loop, Reset, ResetAck, AnswerEnq, KwStart, StillQuiet, Initialize, InitAck, Idle,
         SendPacket, SendAck, Receive, ReceiveAck, KwDrop, KwEnq, KwReceive, KwChain, Untouched
    <3> QED
      BY <3>1, LongestIsNat DEF Touched, Untouched, TypeInv, SinceTyped
  <2> QED
    BY <1>3, <2>1, <2>2, <2>3 DEF Loop, Passes, bounds, TypeInv, InTime, LineBounds
<1>4. CASE Hear \/ SendEnq \/ Fault \/ Noise
  <2>1. LineTyped'
    <3>1. ASSUME NEW k \in Kinds, Answers(<<Byte(k)>>), UNCHANGED tx
          PROVE  LineTyped'
      <4>1. <<Byte(k)>> \in Seq(Bytes)
        BY DEF Byte, Bytes, Whose
      <4> QED
        BY <3>1, <4>1, ConcatProperties DEF Answers, TypeInv, EngineInv, LineTyped
    <3> QED
      BY <1>4, <3>1, HearTyped, FaultTyped
      DEF SendEnq, Noise, controller, Kinds, TypeInv, EngineInv
  <2>2. LineBounds'
    <3>1. \A n \in 0..MaxFaults : n < MaxFaults => n + 1 \in 0..MaxFaults
      BY Constants
    <3>2. \A n \in 0..MaxNoise : n < MaxNoise => n + 1 \in 0..MaxNoise
      BY Constants
    <3>3. 0 \in 0..EnqPeriod
      BY Constants
    <3> QED
      BY <1>4, <3>1, <3>2, <3>3 DEF Hear, HearEot, HearSync, HearPacket, HearTelegram, Speaks, SendEnq, Fault,
       Noise, bounds, controller, TypeInv, LineBounds
  <2>3. EngineUnchanged
    BY <1>4 DEF Hear, SendEnq, Fault, Noise
  <2> QED
    BY <2>1, <2>2, <2>3 DEF EngineUnchanged, TypeInv, EngineInv, RequestInv, CountInv, Kw, Expected,
       InTime, ParserTyped, SinceTyped
<1>5. CASE Tick
  <2>1. EngineInv'
    <3>1. age' \in Clock /\ waited' \in Nat
      BY <1>5, Constants DEF Tick, TypeInv, InTime, EngineInv, RequestInv, Clock
    <3> QED
      BY <1>5, <3>1 DEF Tick, TypeInv, EngineInv, LineTyped, RequestInv, CountInv, Kw, Expected
  <2>2. SinceTyped'
    BY <1>5, LongestIsNat DEF Tick, TypeInv, SinceTyped
  <2>3. LineBounds' /\ ParserTyped'
    BY <1>5, Constants DEF Tick, bounds, TypeInv, LineBounds, ParserTyped
  <2>4. passed' = FALSE
    BY <1>5 DEF Tick
  <2> QED
    BY <2>1, <2>2, <2>3, <2>4 DEF TypeInv, InTime
<1> QED
  BY <1>1, <1>2, <1>3, <1>4, <1>5 DEF Next

LEMMA InitTyped == Init => TypeInv
<1> SUFFICES ASSUME Init PROVE TypeInv
  OBVIOUS
<1>1. EngineInv
  BY Constants, EmptySeq DEF Init, EngineInv, LineTyped, RequestInv, CountInv, States, Clock, Detour
<1>2. LineBounds /\ ParserTyped /\ SinceTyped
  BY Constants, LongestIsNat DEF Init, LineBounds, ParserTyped, SinceTyped
<1>3. passed = FALSE
  BY DEF Init
<1> QED
  BY <1>1, <1>2, <1>3 DEF TypeInv, InTime

\* The P300 engine's types: among them, that a request is failed in the first pass in which
\* it is out of time, and that the answer of a KW telegram is never read beyond its end.
THEOREM TypeCorrect == Spec => []TypeOK
<1>1. Init => TypeInv
  BY InitTyped
<1>2. TypeInv /\ [Next]_vars => TypeInv'
  BY StepTyped
<1>3. TypeInv => TypeOK
  BY DEF TypeInv, EngineInv, LineTyped, RequestInv, CountInv, LineBounds, ParserTyped, SinceTyped,
     Clock, TypeOK
<1> QED
  BY <1>1, <1>2, <1>3, PTL DEF Spec

----------------------------------------------------------------------------
(* Whose an answer is.  Nothing in a P300 frame or a KW answer says which     *)
(* request it is to, so the engine relies on the line: no packet but its own *)
(* is under way when it sends one or waits for its frame, and a KW telegram  *)
(* goes out only on an ENQ just read, when nothing else is owed.            *)

Answering == Frames \cup {"NACK"}
PlainBytes == [kind : {"ENQ", "ACK", "HEAD", "REST", "NOISE"}, whose : Whose]
AnswerBytes(W) == PlainBytes \cup {Byte("NACK")} \cup [kind : Frames, whose : W]
PlainCommands == [kind : {"EOT", "SYNC"}, whose : Whose]
PacketCommands(W) == PlainCommands \cup [kind : {"PACKET"}, whose : W]

One(q, K) == \A i, j \in DOMAIN q : q[i].kind \in K /\ q[j].kind \in K => i = j

LEMMA OneOfTail ==
  ASSUME NEW S, NEW q \in Seq(S), q # <<>>, NEW K, One(q, K)
  PROVE  /\ One(Tail(q), K)
         /\ Head(q).kind \in K => \A i \in DOMAIN Tail(q) : Tail(q)[i].kind \notin K
<1>1. /\ Tail(q) \in Seq(S) /\ Len(Tail(q)) = Len(q) - 1
      /\ \A i \in 1..Len(Tail(q)) : Tail(q)[i] = q[i + 1]
  BY HeadTailProperties
<1>2. /\ Len(q) \in Nat /\ DOMAIN q = 1..Len(q) /\ DOMAIN Tail(q) = 1..Len(Tail(q))
      /\ Len(Tail(q)) \in Nat
  BY <1>1, LenProperties
<1>3. Head(q) = q[1] /\ 1 \in DOMAIN q /\ \A i \in DOMAIN Tail(q) : i + 1 \in DOMAIN q /\ i + 1 # 1
  BY <1>1, <1>2, EmptySeq
<1>4. One(Tail(q), K)
  <2> SUFFICES ASSUME NEW i \in DOMAIN Tail(q), NEW j \in DOMAIN Tail(q),
                      Tail(q)[i].kind \in K, Tail(q)[j].kind \in K
               PROVE  i = j
    BY DEF One
  <2>1. i + 1 = j + 1
    BY <1>1, <1>2, <1>3 DEF One
  <2> QED
    BY <1>2, <2>1
<1>5. ASSUME Head(q).kind \in K, NEW i \in DOMAIN Tail(q)
      PROVE  Tail(q)[i].kind \notin K
  BY <1>1, <1>2, <1>3, <1>5 DEF One
<1> QED
  BY <1>4, <1>5

LEMMA OneOfNone ==
  ASSUME NEW q, NEW K, \A i \in DOMAIN q : q[i].kind \notin K
  PROVE  One(q, K)
BY DEF One

LEMMA OneMore ==
  ASSUME NEW S, NEW q \in Seq(S), NEW x \in S, NEW K, One(q, K),
         x.kind \in K => \A i \in DOMAIN q : q[i].kind \notin K
  PROVE  One(Append(q, x), K)
<1>1. /\ Append(q, x) \in Seq(S) /\ Len(Append(q, x)) = Len(q) + 1
      /\ \A i \in 1..Len(q) : Append(q, x)[i] = q[i]
      /\ Append(q, x)[Len(q) + 1] = x
  BY AppendProperties
<1>2. /\ Len(q) \in Nat /\ DOMAIN q = 1..Len(q) /\ DOMAIN Append(q, x) = 1..Len(q) + 1
  BY <1>1, LenProperties
<1> QED
  BY <1>1, <1>2 DEF One

LEMMA OneOfThree ==
  ASSUME NEW S, NEW q \in Seq(S), NEW x \in S, NEW y \in S, NEW z \in S, NEW K,
         \A i \in DOMAIN q : q[i].kind \notin K, x.kind \notin K, y.kind \notin K
  PROVE  One(q \o <<x, y, z>>, K)
<1>1. /\ <<x, y, z>> \in Seq(S) /\ Len(<<x, y, z>>) = 3
  OBVIOUS
<1>2. /\ q \o <<x, y, z>> \in Seq(S) /\ Len(q \o <<x, y, z>>) = Len(q) + 3
      /\ \A i \in 1..Len(q) + 3 : (q \o <<x, y, z>>)[i] =
            IF i <= Len(q) THEN q[i] ELSE <<x, y, z>>[i - Len(q)]
  BY <1>1, ConcatProperties
<1>3. Len(q) \in Nat /\ DOMAIN q = 1..Len(q) /\ DOMAIN (q \o <<x, y, z>>) = 1..Len(q) + 3
  BY <1>2, LenProperties
<1> SUFFICES ASSUME NEW i \in 1..Len(q) + 3, (q \o <<x, y, z>>)[i].kind \in K
             PROVE  i = Len(q) + 3
  BY <1>3 DEF One
<1>4. i > Len(q)
  BY <1>2, <1>3
<1>5. i = Len(q) + 1 \/ i = Len(q) + 2 \/ i = Len(q) + 3
  BY <1>3, <1>4
<1>6. i # Len(q) + 1 /\ i # Len(q) + 2
  BY <1>2, <1>3
<1> QED
  BY <1>5, <1>6

LEMMA RemovedAt ==
  ASSUME NEW S, NEW q \in Seq(S), NEW i \in DOMAIN q
  PROVE  /\ RemoveAt(q, i) \in Seq(S) /\ Len(RemoveAt(q, i)) = Len(q) - 1
         /\ Len(q) \in Nat /\ DOMAIN q = 1..Len(q) /\ DOMAIN RemoveAt(q, i) = 1..Len(q) - 1
         /\ \A j \in 1..Len(q) - 1 : RemoveAt(q, i)[j] = IF j < i THEN q[j] ELSE q[j + 1]
<1>1. /\ Len(q) \in Nat /\ DOMAIN q = 1..Len(q) /\ (\A j \in 1..Len(q) : q[j] \in S)
      /\ i \in 1..Len(q) /\ i \in Int /\ i - 1 \in Int /\ i + 1 \in Int
  BY LenProperties, ElementOfSeq
<1> DEFINE n == Len(q)
           a == SubSeq(q, 1, i - 1)
           b == SubSeq(q, i + 1, n)
<1>2. /\ a \in Seq(S) /\ Len(a) = i - 1
      /\ \A j \in 1..i - 1 : a[j] = q[j]
  <2>1. /\ a \in Seq(S)
        /\ Len(a) = IF 1 <= i - 1 THEN (i - 1) - 1 + 1 ELSE 0
        /\ \A j \in 1..(i - 1) - 1 + 1 : a[j] = q[1 + j - 1]
    BY <1>1, SubSeqProperties
  <2> QED
    BY <1>1, <2>1
<1>3. /\ b \in Seq(S) /\ Len(b) = n - i
      /\ \A j \in 1..n - i : b[j] = q[j + i]
  <2>1. /\ b \in Seq(S)
        /\ Len(b) = IF i + 1 <= n THEN n - (i + 1) + 1 ELSE 0
        /\ \A j \in 1..n - (i + 1) + 1 : b[j] = q[(i + 1) + j - 1]
    BY <1>1, SubSeqProperties
  <2> HIDE DEF b
  <2>2. n - (i + 1) + 1 = n - i /\ \A j \in Int : (i + 1) + j - 1 = j + i
    BY <1>1
  <2>3. \A j \in 1..n - i : b[j] = q[j + i]
    <3> SUFFICES ASSUME NEW j \in 1..n - i PROVE b[j] = q[j + i]
      OBVIOUS
    <3>1. b[j] = q[(i + 1) + j - 1] /\ (i + 1) + j - 1 = j + i
      BY <1>1, <2>1, <2>2
    <3> QED
      BY <3>1
  <2>4. Len(b) = n - i
    <3>1. i + 1 <= n \/ n - i = 0
      BY <1>1
    <3> QED
      BY <1>1, <2>1, <2>2, <3>1
  <2> QED
    BY <2>1, <2>3, <2>4
<1> HIDE DEF a, b
<1>4. /\ a \o b \in Seq(S) /\ Len(a \o b) = Len(a) + Len(b)
      /\ \A j \in 1..Len(a) + Len(b) : (a \o b)[j] = IF j <= Len(a) THEN a[j] ELSE b[j - Len(a)]
  BY <1>2, <1>3, ConcatProperties
<1>5. RemoveAt(q, i) = a \o b
  BY DEF RemoveAt, a, b
<1>6. Len(a \o b) = n - 1
  BY <1>1, <1>2, <1>3, <1>4
<1>7. ASSUME NEW j \in 1..n - 1
      PROVE  (a \o b)[j] = IF j < i THEN q[j] ELSE q[j + 1]
  <2>1. j \in Int /\ j \in 1..Len(a) + Len(b)
    BY <1>1, <1>2, <1>3
  <2>2. CASE j < i
    <3>1. j <= Len(a) /\ j \in 1..i - 1
      BY <1>1, <1>2, <2>1, <2>2
    <3> QED
      BY <1>2, <1>4, <2>1, <2>2, <3>1
  <2>3. CASE ~(j < i)
    <3>1. ~(j <= Len(a)) /\ j - Len(a) \in 1..n - i /\ (j - Len(a)) + i = j + 1
      BY <1>1, <1>2, <2>1, <2>3
    <3>2. (a \o b)[j] = b[j - Len(a)]
      BY <1>4, <2>1, <3>1
    <3>3. b[j - Len(a)] = q[(j - Len(a)) + i]
      BY <1>3, <3>1
    <3> QED
      BY <2>3, <3>1, <3>2, <3>3
  <2> QED
    BY <2>2, <2>3
<1>8. DOMAIN (a \o b) = 1..n - 1
  BY <1>4, <1>6, LenProperties
<1> QED
  BY <1>1, <1>4, <1>5, <1>6, <1>7, <1>8

LEMMA OneOfFewer ==
  ASSUME NEW S, NEW q \in Seq(S), NEW i \in DOMAIN q, NEW K, One(q, K)
  PROVE  One(RemoveAt(q, i), K)
<1> DEFINE r == RemoveAt(q, i)
           f(n) == IF n < i THEN n ELSE n + 1
<1>1. /\ Len(q) \in Nat /\ DOMAIN q = 1..Len(q) /\ DOMAIN r = 1..Len(q) - 1
      /\ \A n \in 1..Len(q) - 1 : r[n] = IF n < i THEN q[n] ELSE q[n + 1]
  BY RemovedAt
<1> HIDE DEF r
<1> SUFFICES ASSUME NEW j \in DOMAIN r, NEW k \in DOMAIN r, r[j].kind \in K, r[k].kind \in K
             PROVE  j = k
  BY DEF One, r
<1>2. j \in Int /\ k \in Int /\ i \in Int /\ f(j) \in 1..Len(q) /\ f(k) \in 1..Len(q)
  BY <1>1
<1>3. r[j] = q[f(j)] /\ r[k] = q[f(k)]
  BY <1>1
<1> HIDE DEF f
<1>4. f(j) = f(k)
  BY <1>1, <1>2, <1>3 DEF One
<1> QED
  BY <1>2, <1>4 DEF f

LEMMA OneIfKindsKept ==
  ASSUME NEW q, NEW r, DOMAIN r = DOMAIN q, NEW K, One(q, K),
         \A i \in DOMAIN q : r[i].kind \in K => q[i].kind \in K
  PROVE  One(r, K)
BY DEF One

LEMMA OneOfEarlier ==
  ASSUME NEW q, NEW K, One(q, K)
  PROVE  One(AllEarlier(q), K)
<1>1. DOMAIN AllEarlier(q) = DOMAIN q /\ \A i \in DOMAIN q : AllEarlier(q)[i] = Earlier(q[i])
  BY DEF AllEarlier
<1>2. \A i \in DOMAIN q : Earlier(q[i]).kind = q[i].kind
  BY DEF Earlier
<1> QED
  BY <1>1, <1>2, OneIfKindsKept

----------------------------------------------------------------------------
(* What is on the line in each state.                                      *)

Nothing == tx \in Seq(PlainCommands) /\ rx \in Seq(PlainBytes)

\* One packet under way, or one answer to a packet, of the requests W.
Asked(W) == tx \in Seq(PacketCommands(W)) /\ One(tx, {"PACKET"}) /\ rx \in Seq(PlainBytes)
Answered(W) == tx \in Seq(PlainCommands) /\ rx \in Seq(AnswerBytes(W)) /\ One(rx, Answering)
OneExchange(W) == Asked(W) \/ Answered(W)

\* An ENQ in the buffer is the last the controller said, just now.
EnqLast == \A i \in DOMAIN rx : rx[i].kind = "ENQ" =>
             i = Len(rx) /\ tx = <<>> /\ mode = "KW" /\ quiet = 0

LEMMA Narrower ==
  ASSUME NEW S, NEW T, NEW q \in Seq(S), \A i \in DOMAIN q : q[i] \in T
  PROVE  q \in Seq(T)
<1>1. Len(q) \in Nat /\ q \in [1..Len(q) -> S] /\ DOMAIN q = 1..Len(q)
  BY LenProperties
<1>2. q \in [1..Len(q) -> T]
  BY <1>1
<1> QED
  BY <1>1, <1>2, SeqDef

LEMMA LineSets ==
  ASSUME NEW W \in SUBSET Whose
  PROVE  /\ PlainCommands \subseteq PacketCommands(W) /\ PacketCommands(W) \subseteq Commands
         /\ PlainBytes \subseteq AnswerBytes(W) /\ AnswerBytes(W) \subseteq Bytes
<1>1. PacketCommands(W) \subseteq Commands
  BY DEF PlainCommands, PacketCommands, Commands
<1>2. PlainBytes \subseteq Bytes /\ Byte("NACK") \in Bytes /\ [kind : Frames, whose : W] \subseteq Bytes
  BY DEF PlainBytes, Bytes, Byte, Kinds, Whose, Frames
<1> QED
  BY <1>1, <1>2 DEF PacketCommands, AnswerBytes

LEMMA CommandSets ==
  ASSUME NEW W \in SUBSET Whose
  PROVE  /\ \A c \in PlainCommands : c.kind \in {"EOT", "SYNC"}
         /\ \A c \in PacketCommands(W) :
              /\ c.kind \in {"EOT", "SYNC", "PACKET"}
              /\ c.kind # "PACKET" => c \in PlainCommands
              /\ c.kind = "PACKET" => c.whose \in W
BY DEF PlainCommands, PacketCommands

LEMMA ByteSets ==
  ASSUME NEW W \in SUBSET Whose
  PROVE  /\ \A b \in PlainBytes : b.kind \notin Answering
         /\ \A b \in AnswerBytes(W) :
              /\ b.kind \notin Answering => b \in PlainBytes
              /\ b.kind \in Frames => b.whose \in W
              /\ b.kind \notin {"DATA", "REFUSAL"}
<1>1. \A b \in PlainBytes : b.kind \in {"ENQ", "ACK", "HEAD", "REST", "NOISE"}
  BY DEF PlainBytes
<1>2. Byte("NACK").kind = "NACK"
  BY DEF Byte
<1>3. \A b \in [kind : Frames, whose : W] : b.kind \in Frames /\ b.whose \in W
  OBVIOUS
<1> QED
  BY <1>1, <1>2, <1>3 DEF AnswerBytes, Answering, Frames

LEMMA NoneOfPlain ==
  /\ \A q \in Seq(PlainCommands) : \A i \in DOMAIN q : q[i].kind \notin {"PACKET"}
  /\ \A q \in Seq(PlainBytes) : \A i \in DOMAIN q : q[i].kind \notin Answering
<1>1. ASSUME NEW q \in Seq(PlainCommands), NEW i \in DOMAIN q
      PROVE  q[i].kind \notin {"PACKET"}
  <2>1. q[i] \in PlainCommands
    BY ElementOfSeq, LenProperties
  <2> QED
    BY <2>1, CommandSets
<1>2. ASSUME NEW q \in Seq(PlainBytes), NEW i \in DOMAIN q
      PROVE  q[i].kind \notin Answering
  <2>1. q[i] \in PlainBytes
    BY ElementOfSeq, LenProperties
  <2> QED
    BY <2>1, ByteSets
<1> QED
  BY <1>1, <1>2

LEMMA PlainIfNone ==
  ASSUME NEW W \in SUBSET Whose
  PROVE  /\ \A q \in Seq(PacketCommands(W)) :
              (\A i \in DOMAIN q : q[i].kind \notin {"PACKET"}) => q \in Seq(PlainCommands)
         /\ \A q \in Seq(AnswerBytes(W)) :
              (\A i \in DOMAIN q : q[i].kind \notin Answering) => q \in Seq(PlainBytes)
<1>1. ASSUME NEW q \in Seq(PacketCommands(W)), \A i \in DOMAIN q : q[i].kind \notin {"PACKET"}
      PROVE  q \in Seq(PlainCommands)
  <2>1. \A i \in DOMAIN q : q[i] \in PacketCommands(W)
    BY ElementOfSeq, LenProperties
  <2>2. \A i \in DOMAIN q : q[i] \in PlainCommands
    BY <1>1, <2>1, CommandSets
  <2> QED
    BY <2>2, Narrower
<1>2. ASSUME NEW q \in Seq(AnswerBytes(W)), \A i \in DOMAIN q : q[i].kind \notin Answering
      PROVE  q \in Seq(PlainBytes)
  <2>1. \A i \in DOMAIN q : q[i] \in AnswerBytes(W)
    BY ElementOfSeq, LenProperties
  <2>2. \A i \in DOMAIN q : q[i] \in PlainBytes
    BY <1>2, <2>1, ByteSets
  <2> QED
    BY <2>2, Narrower
<1> QED
  BY <1>1, <1>2

LEMMA NothingIsLess ==
  ASSUME NEW W \in SUBSET Whose, Nothing
  PROVE  Asked(W) /\ Answered(W)
<1>1. tx \in Seq(PacketCommands(W)) /\ rx \in Seq(AnswerBytes(W))
  BY LineSets, SeqMonotonic DEF Nothing
<1> QED
  BY <1>1, NoneOfPlain, OneOfNone DEF Nothing, Asked, Answered

LEMMA LineIsTyped ==
  ASSUME NEW W \in SUBSET Whose, OneExchange(W)
  PROVE  tx \in Seq(Commands) /\ rx \in Seq(Bytes)
BY LineSets, SeqMonotonic DEF OneExchange, Asked, Answered

----------------------------------------------------------------------------
(* The controller and the faults keep it so.                               *)

LEMMA BytesOfKinds ==
  /\ \A k \in {"ENQ", "ACK", "HEAD", "REST", "NOISE"} : Byte(k) \in PlainBytes
  /\ \A W \in SUBSET Whose : Byte("NACK") \in AnswerBytes(W)
  /\ \A W \in SUBSET Whose : \A k \in Frames : \A w \in W :
       [kind |-> k, whose |-> w] \in AnswerBytes(W)
  /\ \A k \in Kinds : Byte(k).kind = k
BY DEF Byte, PlainBytes, AnswerBytes, Whose

\* Bytes that answer nothing are added.
LEMMA MorePlain ==
  ASSUME NEW W \in SUBSET Whose, NEW x \in PlainBytes, rx' = rx \o <<x>>
  PROVE  /\ rx \in Seq(PlainBytes) => rx' \in Seq(PlainBytes)
         /\ rx \in Seq(AnswerBytes(W)) /\ One(rx, Answering) =>
              rx' \in Seq(AnswerBytes(W)) /\ One(rx', Answering)
<1>1. x \in AnswerBytes(W) /\ x.kind \notin Answering
  BY LineSets, ByteSets
<1>2. ASSUME NEW S, rx \in Seq(S), x \in S
      PROVE  rx' = Append(rx, x) /\ rx' \in Seq(S)
  BY <1>2, AppendIsConcat, AppendProperties
<1>3. rx \in Seq(PlainBytes) => rx' \in Seq(PlainBytes)
  BY <1>2
<1>4. ASSUME rx \in Seq(AnswerBytes(W)), One(rx, Answering)
      PROVE  rx' \in Seq(AnswerBytes(W)) /\ One(rx', Answering)
  BY <1>1, <1>2, <1>4, OneMore
<1> QED
  BY <1>3, <1>4

LEMMA HearPlain ==
  ASSUME NEW W \in SUBSET Whose, Hear, Head(tx) \in PlainCommands
  PROVE  /\ rx \in Seq(PlainBytes) => rx' \in Seq(PlainBytes)
         /\ rx \in Seq(AnswerBytes(W)) /\ One(rx, Answering) =>
              rx' \in Seq(AnswerBytes(W)) /\ One(rx', Answering)
<1>1. HearEot(Head(tx)) \/ HearSync(Head(tx))
  BY CommandSets DEF Hear, HearPacket, HearTelegram
<1>2. rx' = rx \/ rx' = rx \o <<>> \/ rx' = rx \o <<Byte("ACK")>>
  BY <1>1 DEF HearEot, HearSync, Answers
<1>3. CASE rx' = rx \o <<>>
  <2>1. \A S : rx \in Seq(S) => rx' = rx
    BY <1>3, ConcatEmptySeq
  <2> QED
    BY <2>1
<1>4. CASE rx' = rx \o <<Byte("ACK")>>
  BY <1>4, MorePlain, BytesOfKinds
<1> QED
  BY <1>2, <1>3, <1>4

LEMMA HearNothing ==
  ASSUME Nothing, Hear
  PROVE  Nothing'
<1>1. Head(tx) \in PlainCommands /\ tx' \in Seq(PlainCommands)
  BY HeadTailProperties DEF Nothing, Hear
<1> QED
  BY <1>1, HearPlain DEF Nothing

LEMMA HearExchange ==
  ASSUME NEW W \in SUBSET Whose, OneExchange(W), Hear
  PROVE  OneExchange(W)'
<1> DEFINE c == Head(tx)
<1>1. tx # <<>> /\ tx' = Tail(tx)
  BY DEF Hear
<1>2. CASE Answered(W)
  <2>1. c \in PlainCommands /\ tx' \in Seq(PlainCommands)
    BY <1>1, <1>2, HeadTailProperties DEF Answered
  <2> QED
    BY <1>2, <2>1, HearPlain DEF Answered, OneExchange
<1>3. CASE Asked(W) /\ c.kind # "PACKET"
  <2>1. c \in PacketCommands(W) /\ tx' \in Seq(PacketCommands(W)) /\ One(tx', {"PACKET"})
    BY <1>1, <1>3, HeadTailProperties, OneOfTail DEF Asked
  <2>2. c \in PlainCommands
    BY <1>3, <2>1, CommandSets
  <2> QED
    BY <1>3, <2>1, <2>2, HearPlain DEF Asked, OneExchange
<1>4. CASE Asked(W) /\ c.kind = "PACKET"
  <2>1. c \in PacketCommands(W) /\ tx' \in Seq(PacketCommands(W))
        /\ \A i \in DOMAIN tx' : tx'[i].kind \notin {"PACKET"}
    BY <1>1, <1>4, HeadTailProperties, OneOfTail DEF Asked
  <2>2. tx' \in Seq(PlainCommands) /\ c.whose \in W
    BY <1>4, <2>1, PlainIfNone, CommandSets
  <2> DEFINE full(k) == <<Byte("ACK"), Byte("HEAD"), [kind |-> k, whose |-> c.whose]>>
  <2>3. HearPacket(c)
    BY <1>4 DEF Hear, HearEot, HearSync, HearTelegram
  <2>4. \/ rx' = rx \o <<>> \/ rx' = rx \o <<Byte("NACK")>>
        \/ \E k \in {"RESPONSE", "OTHER"} : rx' = rx \o full(k)
    BY <2>3 DEF HearPacket, Answers
  <2>5. rx \in Seq(PlainBytes) /\ rx \in Seq(AnswerBytes(W))
        /\ \A i \in DOMAIN rx : rx[i].kind \notin Answering
    BY <1>4, LineSets, SeqMonotonic, NoneOfPlain DEF Asked
  <2>6. CASE rx' = rx \o <<>>
    <3>1. rx' = rx
      BY <2>5, <2>6, ConcatEmptySeq
    <3> QED
      BY <2>2, <2>5, <3>1, OneOfNone DEF Answered, OneExchange
  <2>7. CASE rx' = rx \o <<Byte("NACK")>>
    <3>1. Byte("NACK") \in AnswerBytes(W)
      BY BytesOfKinds
    <3>2. rx' = Append(rx, Byte("NACK")) /\ rx' \in Seq(AnswerBytes(W))
      BY <2>5, <2>7, <3>1, AppendIsConcat, AppendProperties
    <3>3. One(rx', Answering)
      BY <2>5, <3>1, <3>2, OneOfNone, OneMore
    <3> QED
      BY <2>2, <3>2, <3>3 DEF Answered, OneExchange
  <2>8. ASSUME NEW k \in {"RESPONSE", "OTHER"}, rx' = rx \o full(k)
        PROVE  OneExchange(W)'
    <3> DEFINE x == [kind |-> k, whose |-> c.whose]
    <3>1. Byte("ACK") \in AnswerBytes(W) /\ Byte("HEAD") \in AnswerBytes(W) /\ x \in AnswerBytes(W)
      BY <2>2, BytesOfKinds, LineSets DEF Frames
    <3>2. Byte("ACK").kind \notin Answering /\ Byte("HEAD").kind \notin Answering
      BY BytesOfKinds, ByteSets
    <3> HIDE DEF x
    <3>3. rx' = rx \o <<Byte("ACK"), Byte("HEAD"), x>>
      BY <2>8 DEF x
    <3>4. <<Byte("ACK"), Byte("HEAD"), x>> \in Seq(AnswerBytes(W))
      BY <3>1
    <3>5. rx' \in Seq(AnswerBytes(W))
      BY <2>5, <3>3, <3>4, ConcatProperties
    <3>6. One(rx', Answering)
      BY <2>5, <3>1, <3>2, <3>3, OneOfThree
    <3> QED
      BY <2>2, <3>5, <3>6 DEF Answered, OneExchange
  <2> QED
    BY <2>4, <2>6, <2>7, <2>8
<1> QED
  BY <1>2, <1>3, <1>4 DEF OneExchange

\* A byte lost or garbled, or a command.
LEMMA FaultFewer ==
  ASSUME NEW S, rx \in Seq(S), Fault,
         \A x \in S : [x EXCEPT !.kind = IF @ \in {"RESPONSE", "OTHER"} THEN "BAD" ELSE "NOISE"] \in S
  PROVE  rx' \in Seq(S) /\ (One(rx, Answering) => One(rx', Answering))
<1> DEFINE bad(x) == [x EXCEPT !.kind = IF @ \in {"RESPONSE", "OTHER"} THEN "BAD" ELSE "NOISE"]
<1>1. DOMAIN rx = 1..Len(rx) /\ Len(rx) \in Nat /\ \A i \in DOMAIN rx : rx[i] \in S
  BY LenProperties, ElementOfSeq
<1>2. ASSUME NEW i \in DOMAIN rx, rx' = RemoveAt(rx, i)
      PROVE  rx' \in Seq(S) /\ (One(rx, Answering) => One(rx', Answering))
  BY <1>2, RemovedAt, OneOfFewer
<1>3. ASSUME NEW i \in DOMAIN rx,
             rx' = [rx EXCEPT ![i].kind = IF @ \in {"RESPONSE", "OTHER"} THEN "BAD" ELSE "NOISE"]
      PROVE  rx' \in Seq(S) /\ (One(rx, Answering) => One(rx', Answering))
  <2>1. rx' = [rx EXCEPT ![i] = bad(rx[i])]
    BY <1>3
  <2>2. bad(rx[i]) \in S
    BY <1>1
  <2>3. /\ rx' \in Seq(S) /\ DOMAIN rx' = DOMAIN rx
        /\ \A j \in DOMAIN rx : rx'[j] = IF j = i THEN bad(rx[i]) ELSE rx[j]
    BY <1>1, <2>1, <2>2, ExceptSeq, LenProperties
  <2>4. bad(rx[i]).kind \in Answering => rx[i].kind \in Answering
    BY DEF Answering, Frames
  <2>5. \A j \in DOMAIN rx : rx'[j].kind \in Answering => rx[j].kind \in Answering
    BY <2>3, <2>4
  <2> QED
    BY <2>3, <2>5, OneIfKindsKept
<1> QED
  BY <1>2, <1>3 DEF Fault, controller

LEMMA FaultOfCommands ==
  ASSUME NEW S, tx \in Seq(S), Fault
  PROVE  tx' \in Seq(S) /\ (One(tx, {"PACKET"}) => One(tx', {"PACKET"}))
<1>1. tx' = tx \/ (tx # <<>> /\ tx' = Tail(tx))
  BY DEF Fault, controller
<1>2. CASE tx # <<>> /\ tx' = Tail(tx)
  <2>1. Tail(tx) \in Seq(S)
    BY <1>2, HeadTailProperties
  <2>2. One(tx, {"PACKET"}) => One(Tail(tx), {"PACKET"})
    BY <1>2, OneOfTail
  <2> QED
    BY <1>2, <2>1, <2>2
<1> QED
  BY <1>1, <1>2

LEMMA GarbledSets ==
  ASSUME NEW W \in SUBSET Whose
  PROVE  /\ \A x \in PlainBytes :
              [x EXCEPT !.kind = IF @ \in {"RESPONSE", "OTHER"} THEN "BAD" ELSE "NOISE"] \in PlainBytes
         /\ \A x \in AnswerBytes(W) :
              [x EXCEPT !.kind = IF @ \in {"RESPONSE", "OTHER"} THEN "BAD" ELSE "NOISE"]
                \in AnswerBytes(W)
<1>1. \A x \in PlainBytes : [x EXCEPT !.kind = "NOISE"] \in PlainBytes
                            /\ x.kind \notin {"RESPONSE", "OTHER"}
  BY DEF PlainBytes
<1>2. [Byte("NACK") EXCEPT !.kind = "NOISE"] \in PlainBytes
      /\ Byte("NACK").kind \notin {"RESPONSE", "OTHER"}
  BY DEF PlainBytes, Byte, Whose
<1>3. \A x \in [kind : Frames, whose : W] :
        /\ [x EXCEPT !.kind = "NOISE"] \in PlainBytes
        /\ [x EXCEPT !.kind = "BAD"] \in [kind : Frames, whose : W]
  BY DEF PlainBytes, Frames
<1> QED
  BY <1>1, <1>2, <1>3 DEF AnswerBytes

LEMMA FaultLine ==
  ASSUME Fault
  PROVE  /\ Nothing => Nothing'
         /\ \A W \in SUBSET Whose : OneExchange(W) => OneExchange(W)'
<1>1. ASSUME Nothing PROVE Nothing'
  BY <1>1, FaultFewer, FaultOfCommands, GarbledSets DEF Nothing
<1>2. ASSUME NEW W \in SUBSET Whose, Asked(W) PROVE Asked(W)'
  BY <1>2, FaultFewer, FaultOfCommands, GarbledSets DEF Asked
<1>3. ASSUME NEW W \in SUBSET Whose, Answered(W) PROVE Answered(W)'
  BY <1>3, FaultFewer, FaultOfCommands, GarbledSets DEF Answered
<1> QED
  BY <1>1, <1>2, <1>3 DEF OneExchange

LEMMA NoiseLine ==
  ASSUME SendEnq \/ Noise
  PROVE  /\ Nothing => Nothing'
         /\ \A W \in SUBSET Whose : OneExchange(W) => OneExchange(W)'
<1>1. PICK x \in PlainBytes : rx' = rx \o <<x>>
  BY BytesOfKinds DEF SendEnq, Noise, Answers
<1>2. tx' = tx
  BY DEF SendEnq, Noise, controller
<1>3. Nothing => Nothing'
  <2>1. {} \in SUBSET Whose
    OBVIOUS
  <2> QED
    BY <1>1, <1>2, <2>1, MorePlain DEF Nothing
<1>4. ASSUME NEW W \in SUBSET Whose, OneExchange(W)
      PROVE  OneExchange(W)'
  BY <1>1, <1>2, <1>4, MorePlain DEF OneExchange, Asked, Answered
<1> QED
  BY <1>3, <1>4

\* The controller says nothing more after an ENQ in the buffer, unless time passes.
LEMMA LineKeepsEnq ==
  ASSUME EnqPeriod > 0, NEW W \in SUBSET Whose, OneExchange(W), EnqLast,
         Hear \/ SendEnq \/ Fault \/ Noise
  PROVE  EnqLast'
<1>1. /\ rx \in Seq(Bytes) /\ tx \in Seq(Commands) /\ Len(rx) \in Nat /\ DOMAIN rx = 1..Len(rx)
      /\ \A i \in DOMAIN rx : rx[i] \in Bytes
  BY LineIsTyped, LenProperties, ElementOfSeq
<1>2. ASSUME Hear PROVE EnqLast'
  <2>1. \A i \in DOMAIN rx : rx[i].kind # "ENQ"
    BY <1>2 DEF Hear, EnqLast
  <2>2. PICK q : rx' = rx \/ (rx' = rx \o q /\ q \in Seq(Bytes) /\ \A i \in DOMAIN q : q[i].kind # "ENQ")
    <3> DEFINE c == Head(tx)
    <3>1. c.kind \in {"EOT", "SYNC", "PACKET"} /\ c \in Commands
      <4>1. c \in PacketCommands(W)
        BY <1>2, LineSets, SeqMonotonic, HeadTailProperties DEF Hear, OneExchange, Asked, Answered
      <4> QED
        BY <4>1, CommandSets, LineSets
    <3>2. \A k \in Kinds : Byte(k) \in Bytes /\ Byte(k).kind = k
      BY DEF Byte, Bytes, Whose
    <3>3. CASE rx' = rx \o <<>> \/ \E k \in {"ACK", "NACK"} : rx' = rx \o <<Byte(k)>>
      <4>1. \A k \in {"ACK", "NACK"} : <<Byte(k)>> \in Seq(Bytes)
                                       /\ \A i \in DOMAIN <<Byte(k)>> : <<Byte(k)>>[i].kind # "ENQ"
        BY <3>2 DEF Kinds
      <4>2. <<>> \in Seq(Bytes) /\ \A i \in DOMAIN <<>> : <<>>[i].kind # "ENQ"
        OBVIOUS
      <4> QED
        BY <3>3, <4>1, <4>2
    <3>4. ASSUME NEW k \in {"RESPONSE", "OTHER"},
                 rx' = rx \o <<Byte("ACK"), Byte("HEAD"), [kind |-> k, whose |-> c.whose]>>
          PROVE  \E q : rx' = rx \o q /\ q \in Seq(Bytes) /\ \A i \in DOMAIN q : q[i].kind # "ENQ"
      <4> DEFINE x == [kind |-> k, whose |-> c.whose]
                 q == <<Byte("ACK"), Byte("HEAD"), x>>
      <4>1. x \in Bytes /\ x.kind # "ENQ"
        BY <3>1, <3>4 DEF Bytes, Commands, Kinds
      <4>2. Byte("ACK") \in Bytes /\ Byte("HEAD") \in Bytes /\ Byte("ACK").kind # "ENQ"
            /\ Byte("HEAD").kind # "ENQ"
        BY <3>2 DEF Kinds
      <4>3. q \in Seq(Bytes) /\ \A i \in DOMAIN q : q[i].kind # "ENQ"
        BY <4>1, <4>2
      <4> QED
        BY <3>4, <4>3
    <3>5. HearEot(c) \/ HearSync(c) \/ HearPacket(c)
      BY <1>2, <3>1 DEF Hear, HearTelegram
    <3> QED
      BY <3>3, <3>4, <3>5 DEF HearEot, HearSync, HearPacket, Answers
  <2>3. CASE rx' = rx
    BY <2>1, <2>3 DEF EnqLast
  <2>4. CASE rx' = rx \o q /\ q \in Seq(Bytes) /\ \A i \in DOMAIN q : q[i].kind # "ENQ"
    <3>1. /\ DOMAIN rx' = 1..Len(rx) + Len(q) /\ Len(q) \in Nat /\ DOMAIN q = 1..Len(q)
          /\ \A i \in 1..Len(rx) + Len(q) : rx'[i] = IF i <= Len(rx) THEN rx[i] ELSE q[i - Len(rx)]
      BY <1>1, <2>4, ConcatProperties, LenProperties
    <3>2. \A i \in DOMAIN rx' : rx'[i].kind # "ENQ"
      <4> SUFFICES ASSUME NEW i \in DOMAIN rx' PROVE rx'[i].kind # "ENQ"
        OBVIOUS
      <4>1. CASE i <= Len(rx)
        BY <1>1, <2>1, <3>1, <4>1
      <4>2. CASE i > Len(rx)
        <5>1. i - Len(rx) \in DOMAIN q
          BY <1>1, <3>1, <4>2
        <5> QED
          BY <1>1, <2>4, <3>1, <4>2, <5>1
      <4> QED
        BY <1>1, <3>1, <4>1, <4>2
    <3> QED
      BY <3>2 DEF EnqLast
  <2> QED
    BY <2>2, <2>3, <2>4
<1>3. ASSUME NEW x \in Bytes, rx' = rx \o <<x>>, UNCHANGED tx,
             \A i \in DOMAIN rx : rx[i].kind # "ENQ",
             x.kind = "ENQ" => tx = <<>> /\ mode' = "KW" /\ quiet' = 0
      PROVE  EnqLast'
  <2>1. rx' = Append(rx, x)
    BY <1>1, <1>3, AppendIsConcat
  <2>2. /\ Len(rx') = Len(rx) + 1 /\ rx'[Len(rx) + 1] = x /\ rx' \in Seq(Bytes)
        /\ \A i \in 1..Len(rx) : rx'[i] = rx[i]
    BY <1>1, <2>1, AppendProperties
  <2>3. DOMAIN rx' = 1..Len(rx) + 1
    BY <2>2, LenProperties
  <2> QED
    BY <1>1, <1>3, <2>2, <2>3 DEF EnqLast
<1>4. ASSUME SendEnq PROVE EnqLast'
  <2>1. \A i \in DOMAIN rx : rx[i].kind # "ENQ"
    BY <1>4 DEF SendEnq, EnqLast
  <2>2. Byte("ENQ") \in Bytes
    BY DEF Byte, Bytes, Kinds, Whose
  <2> QED
    BY <1>3, <1>4, <2>1, <2>2 DEF SendEnq, Answers, Speaks
<1>5. ASSUME Noise PROVE EnqLast'
  <2>1. \A i \in DOMAIN rx : rx[i].kind # "ENQ"
    BY <1>5 DEF Noise, EnqLast
  <2>2. Byte("NOISE") \in Bytes /\ Byte("NOISE").kind # "ENQ"
    BY DEF Byte, Bytes, Kinds, Whose
  <2> QED
    BY <1>3, <1>5, <2>1, <2>2 DEF Noise, Answers, controller
<1>6. ASSUME Fault PROVE EnqLast'
  <2>1. ASSUME NEW i \in DOMAIN rx, rx' = RemoveAt(rx, i), UNCHANGED controller
        PROVE  EnqLast'
    <3>1. /\ DOMAIN rx' = 1..Len(rx) - 1 /\ Len(rx') = Len(rx) - 1
          /\ \A j \in 1..Len(rx) - 1 : rx'[j] = IF j < i THEN rx[j] ELSE rx[j + 1]
      BY <1>1, <2>1, RemovedAt
    <3> SUFFICES ASSUME NEW j \in 1..Len(rx) - 1, rx'[j].kind = "ENQ"
                 PROVE  j = Len(rx) - 1 /\ tx' = <<>> /\ mode' = "KW" /\ quiet' = 0
      BY <3>1 DEF EnqLast
    <3>2. i \in Int /\ j \in Int /\ 1 <= i /\ i <= Len(rx) /\ 1 <= j /\ j <= Len(rx) - 1
      BY <1>1
    <3>3. Len(rx) \in Nat /\ Len(rx) \in Int /\ DOMAIN rx = 1..Len(rx)
      BY <1>1
    <3>4. CASE j < i
      <4>1. rx'[j] = rx[j]
        BY <3>1, <3>4
      <4>2. j \in DOMAIN rx /\ j # Len(rx)
        BY <3>2, <3>3
      <4> QED
        BY <4>1, <4>2 DEF EnqLast
    <3>5. CASE ~(j < i)
      <4>1. rx'[j] = rx[j + 1]
        BY <3>1, <3>5
      <4>2. j + 1 \in DOMAIN rx
        BY <3>2, <3>3
      <4>3. tx = <<>> /\ mode = "KW" /\ quiet = 0
        BY <4>1, <4>2 DEF EnqLast
      <4>4. j + 1 = Len(rx)
        BY <4>1, <4>2 DEF EnqLast
      <4>5. \A a, b \in Int : a + 1 = b => a = b - 1
        OBVIOUS
      <4>6. j = Len(rx) - 1
        BY <3>2, <3>3, <4>4, <4>5, Zenon
      <4> QED
        BY <2>1, <4>3, <4>6 DEF controller
    <3> QED
      BY <3>4, <3>5
  <2>2. ASSUME NEW i \in DOMAIN rx, UNCHANGED controller,
               rx' = [rx EXCEPT ![i].kind = IF @ \in {"RESPONSE", "OTHER"} THEN "BAD" ELSE "NOISE"]
        PROVE  EnqLast'
    <3> DEFINE y == [rx[i] EXCEPT !.kind = IF @ \in {"RESPONSE", "OTHER"} THEN "BAD" ELSE "NOISE"]
    <3>1. rx' = [rx EXCEPT ![i] = y]
      BY <2>2
    <3>2. y \in Bytes /\ y.kind # "ENQ"
      BY <1>1 DEF Bytes, Kinds
    <3> HIDE DEF y
    <3>3. /\ DOMAIN rx' = DOMAIN rx /\ Len(rx') = Len(rx)
          /\ \A j \in DOMAIN rx : rx'[j] = IF j = i THEN y ELSE rx[j]
      BY <1>1, <3>1, <3>2, ExceptSeq, LenProperties
    <3> QED
      BY <2>2, <3>2, <3>3 DEF EnqLast, controller
  <2>3. CASE tx # <<>> /\ UNCHANGED rx
    BY <2>3 DEF EnqLast
  <2>4. CASE mode = "P300" /\ UNCHANGED rx
    BY <2>4 DEF EnqLast
  <2> QED
    BY <1>6, <2>1, <2>2, <2>3, <2>4 DEF Fault
<1> QED
  BY <1>2, <1>4, <1>5, <1>6

----------------------------------------------------------------------------
(* Which of these holds where the engine is.  A KW telegram is sent when the *)
(* controller has just said its ENQ, or answered the telegram before, and so *)
(* says no other before the answer is there or has timed out.               *)

\* The settings under which an answer can be told: no payload is taken for an ENQ by a KW
\* telegram that waits for one, and a KW answer times out well within the ENQ's period.
Paced == ~KwLookalikes /\ RequestTimeout > 0 /\ KwAnswerTimeout > 0
         /\ KwAnswerTimeout + 2 < EnqPeriod

Own == {"PENDING"}
OwnBytes == [kind : Kinds \ {"ENQ"}, whose : Own]
Between == States \ {"RESET", "RESET_ACK", "SEND_ACK", "RECEIVE", "KW_ENQ", "KW_RECEIVE", "KW_CHAIN"}

ResetLine == tx \in Seq(PacketCommands(Whose)) /\ One(tx, {"PACKET"})

\* A KW telegram under way, or what has come of its answer.
KwSent == tx = <<[kind |-> request, whose |-> "PENDING"]>> /\ rx = <<>> /\ collected = <<>> /\ since = 0
KwAnswered ==
  /\ rx \in Seq(OwnBytes) /\ Len(collected) + Len(rx) <= Expected
  /\ rx # <<>> => since = 0 /\ quiet = 0
KwLine ==
  /\ mode = "KW" /\ age = since /\ quiet <= since + 2
  /\ IF passed THEN since <= KwAnswerTimeout ELSE since <= KwAnswerTimeout + 1
  /\ collected \in Seq(OwnBytes)
  /\ KwSent \/ tx = <<>>
  /\ since <= KwAnswerTimeout => KwAnswered

ChainLine ==
  /\ mode = "KW" /\ tx = <<>> /\ rx = <<>> /\ quiet <= since
  /\ IF passed THEN since <= 1 ELSE since <= 2

LineInv ==
  /\ state = "RESET" => ResetLine
  /\ state = "RESET_ACK" => OneExchange(Whose) /\ EnqLast
  /\ state \in {"SEND_ACK", "RECEIVE"} => OneExchange(Own)
  /\ state = "KW_ENQ" => Nothing /\ EnqLast
  /\ state = "KW_RECEIVE" => KwLine
  /\ state = "KW_CHAIN" => ChainLine
  /\ state \in Between => Nothing
OwnInv == LineInv /\ told # "WRONGLY"

LEMMA Wholes == Own \in SUBSET Whose /\ Whose \in SUBSET Whose /\ {} \in SUBSET Whose
BY DEF Own, Whose

LEMMA EarlierPlain ==
  /\ \A q \in Seq(PlainBytes) : AllEarlier(q) \in Seq(PlainBytes)
  /\ \A q \in Seq(PlainCommands) : AllEarlier(q) \in Seq(PlainCommands)
  /\ \A q \in Seq(PacketCommands(Whose)) : AllEarlier(q) \in Seq(PacketCommands(Whose))
<1>1. \A x \in PlainBytes : Earlier(x) \in PlainBytes
  BY DEF PlainBytes, Whose, Earlier
<1>2. \A x \in PlainCommands : Earlier(x) \in PlainCommands
  BY DEF PlainCommands, Whose, Earlier
<1>3. \A x \in [kind : {"PACKET"}, whose : Whose] : Earlier(x) \in [kind : {"PACKET"}, whose : Whose]
  BY DEF Whose, Earlier
<1>4. \A x \in PacketCommands(Whose) : Earlier(x) \in PacketCommands(Whose)
  BY <1>2, <1>3 DEF PacketCommands
<1> QED
  BY <1>1, <1>2, <1>4, EarlierSeq

\* How a pass ends, for the line.
LEMMA ErrorToReset ==
  ASSUME NEW rest, NEW sent \in Seq(PacketCommands(Whose)), One(sent, {"PACKET"}),
         CallBack("ERROR", "RESET", rest, sent)
  PROVE  OwnInv'
<1>1. state' = "RESET" /\ tx' = AllEarlier(sent) /\ told' = "ERROR"
  BY DEF CallBack
<1>2. ResetLine'
  BY <1>1, EarlierPlain, OneOfEarlier DEF ResetLine
<1> QED
  BY <1>1, <1>2 DEF OwnInv, LineInv, Between

LEMMA CallBackBetween ==
  ASSUME NEW what \in {"ANSWERED", "ERROR"}, NEW s \in Between, NEW rest \in Seq(PlainBytes),
         NEW sent \in Seq(PlainCommands), CallBack(what, s, rest, sent)
  PROVE  OwnInv'
<1>1. state' = s /\ rx' = AllEarlier(rest) /\ tx' = AllEarlier(sent) /\ told' = what
  BY DEF CallBack
<1>2. Nothing'
  BY <1>1, EarlierPlain DEF Nothing
<1> QED
  BY <1>1, <1>2 DEF OwnInv, LineInv, Between

LEMMA PassLine ==
  ASSUME told # "WRONGLY", NEW s, NEW count, NEW elapsed, NEW rest,
         NEW sent \in Seq(PacketCommands(Whose)), One(sent, {"PACKET"}),
         Pass(s, count, elapsed, rest, sent)
  PROVE  \/ OwnInv'
         \/ /\ state' = s /\ collected' = count /\ age' = elapsed /\ rx' = rest /\ tx' = sent
            /\ UNCHANGED <<busy, request, told, waited>>
BY ErrorToReset DEF Pass, OutOfTime

LEMMA GoBetween ==
  ASSUME told # "WRONGLY", NEW s \in Between \cup {"RESET"}, NEW rest \in Seq(PlainBytes),
         NEW sent \in Seq(PlainCommands), GoTo(s, rest, sent)
  PROVE  OwnInv'
<1>1. sent \in Seq(PacketCommands(Whose)) /\ One(sent, {"PACKET"})
  BY Wholes, LineSets, SeqMonotonic, NoneOfPlain, OneOfNone
<1>2. CASE state' = s /\ rx' = rest /\ tx' = sent /\ told' = told
  BY <1>1, <1>2 DEF OwnInv, LineInv, Between, Nothing, ResetLine
<1> QED
  BY <1>1, <1>2, PassLine DEF GoTo

LEMMA StayBetween ==
  ASSUME told # "WRONGLY", state \in Between, Nothing, NEW rest \in Seq(PlainBytes), Stay(rest)
  PROVE  OwnInv'
<1>1. tx \in Seq(PacketCommands(Whose)) /\ One(tx, {"PACKET"})
  BY Wholes, LineSets, SeqMonotonic, NoneOfPlain, OneOfNone DEF Nothing
<1>2. CASE state' = state /\ rx' = rest /\ tx' = tx /\ told' = told
  BY <1>1, <1>2 DEF OwnInv, LineInv, Between, Nothing
<1> QED
  BY <1>1, <1>2, PassLine DEF Stay

LEMMA GoToReset ==
  ASSUME told # "WRONGLY", ResetLine, NEW rest, GoTo("RESET", rest, tx)
  PROVE  OwnInv'
<1>1. CASE state' = "RESET" /\ tx' = tx /\ told' = told
  BY <1>1 DEF OwnInv, LineInv, Between, ResetLine
<1> QED
  BY <1>1, PassLine DEF GoTo, ResetLine

\* The first byte taken.
LEMMA TakenPlain ==
  ASSUME rx \in Seq(PlainBytes), rx # <<>>
  PROVE  /\ Head(rx) \in PlainBytes /\ Tail(rx) \in Seq(PlainBytes)
         /\ After(rx) = Tail(rx) /\ ~Payload(Head(rx))
<1>1. Head(rx) \in PlainBytes /\ Tail(rx) \in Seq(PlainBytes)
  BY HeadTailProperties
<1>2. Head(rx).kind \in {"ENQ", "ACK", "HEAD", "REST", "NOISE"}
  BY <1>1 DEF PlainBytes
<1> QED
  BY <1>1, <1>2 DEF After, Payload, Frames

\* An answer taken leaves nothing of it, be it taken for a control byte.
LEMMA TakenAnswer ==
  ASSUME NEW W \in SUBSET Whose, OneExchange(W), rx # <<>>
  PROVE  /\ Head(rx) \in AnswerBytes(W) /\ Head(rx).kind \notin {"DATA", "REFUSAL"}
         /\ Head(rx).kind \in Answering =>
              /\ tx \in Seq(PlainCommands)
              /\ Tail(rx) \in Seq(PlainBytes) /\ After(rx) \in Seq(PlainBytes)
<1>1. rx \in Seq(AnswerBytes(W))
  BY LineSets, SeqMonotonic DEF OneExchange, Asked, Answered
<1>2. Head(rx) \in AnswerBytes(W) /\ Tail(rx) \in Seq(AnswerBytes(W))
  BY <1>1, HeadTailProperties
<1>3. ASSUME Head(rx).kind \in Answering
      PROVE  /\ tx \in Seq(PlainCommands)
             /\ Tail(rx) \in Seq(PlainBytes) /\ After(rx) \in Seq(PlainBytes)
  <2>1. Answered(W)
    <3>1. ~(rx \in Seq(PlainBytes))
      BY <1>3, TakenPlain, ByteSets, Wholes
    <3> QED
      BY <3>1 DEF OneExchange, Asked
  <2>2. \A i \in DOMAIN Tail(rx) : Tail(rx)[i].kind \notin Answering
    BY <1>1, <1>3, <2>1, OneOfTail DEF Answered
  <2>3. Tail(rx) \in Seq(PlainBytes)
    BY <1>2, <2>2, PlainIfNone
  <2>4. ASSUME Head(rx).kind \in Frames
        PROVE  <<[Head(rx) EXCEPT !.kind = "REST"]>> \in Seq(PlainBytes)
    <3>1. Head(rx) \in [kind : Frames, whose : W]
      BY <1>2, <2>4 DEF AnswerBytes, PlainBytes, Byte, Frames
    <3>2. [Head(rx) EXCEPT !.kind = "REST"] \in PlainBytes
      BY <3>1 DEF PlainBytes
    <3> QED
      BY <3>2
  <2> QED
    BY <2>1, <2>3, <2>4, ConcatProperties DEF Answered, After
<1> QED
  BY <1>2, <1>3, ByteSets

LEMMA TakenKept ==
  ASSUME NEW W \in SUBSET Whose, OneExchange(W), rx # <<>>, UNCHANGED tx,
         \/ rx' = Tail(rx)
         \/ rx' = After(rx)
  PROVE  OneExchange(W)'
<1>1. CASE Head(rx).kind \in Answering
  <2>1. Nothing'
    BY <1>1, TakenAnswer DEF Nothing
  <2>2. Answered(W)'
    BY <2>1, LineSets, SeqMonotonic, NoneOfPlain, OneOfNone DEF Nothing, Answered
  <2> QED
    BY <2>2 DEF OneExchange
<1>2. CASE Head(rx).kind \notin Answering
  <2>1. rx' = Tail(rx)
    BY <1>2 DEF After, Answering
  <2>2. CASE Asked(W)
    BY <2>1, <2>2, TakenPlain DEF Asked, OneExchange
  <2>3. CASE Answered(W)
    BY <2>1, <2>3, HeadTailProperties, OneOfTail DEF Answered, OneExchange
  <2> QED
    BY <2>2, <2>3 DEF OneExchange
<1> QED
  BY <1>1, <1>2

LEMMA TakenEnqLast ==
  ASSUME NEW S, rx \in Seq(S), rx # <<>>, EnqLast, UNCHANGED <<tx, mode, quiet>>,
         rx' = Tail(rx)
  PROVE  EnqLast'
<1>1. /\ Len(rx) \in Nat \ {0} /\ DOMAIN rx = 1..Len(rx)
      /\ DOMAIN rx' = 1..Len(rx) - 1 /\ Len(rx') = Len(rx) - 1
      /\ \A i \in 1..Len(rx) - 1 : rx'[i] = rx[i + 1]
  BY HeadTailProperties, LenProperties, EmptySeq
<1>2. \A i \in DOMAIN rx' : i + 1 \in DOMAIN rx /\ rx'[i] = rx[i + 1]
                            /\ (i + 1 = Len(rx) => i = Len(rx'))
  BY <1>1
<1> QED
  BY <1>2 DEF EnqLast

\* An ENQ read first is all there is.
LEMMA EnqAlone ==
  ASSUME NEW S, rx \in Seq(S), rx # <<>>, EnqLast, Head(rx).kind = "ENQ"
  PROVE  After(rx) = <<>> /\ tx = <<>> /\ mode = "KW" /\ quiet = 0
<1>1. /\ Len(rx) \in Nat \ {0} /\ DOMAIN rx = 1..Len(rx) /\ Head(rx) = rx[1]
      /\ Tail(rx) \in Seq(S) /\ Len(Tail(rx)) = Len(rx) - 1
  BY HeadTailProperties, LenProperties, EmptySeq
<1>2. 1 = Len(rx) /\ tx = <<>> /\ mode = "KW" /\ quiet = 0
  BY <1>1 DEF EnqLast
<1>3. Len(Tail(rx)) = 0
  <2>1. Len(Tail(rx)) = 1 - 1
    BY <1>1, <1>2, Zenon
  <2> QED
    BY <2>1
<1>4. Tail(rx) = <<>>
  BY <1>1, <1>3, EmptySeq
<1> QED
  BY <1>2, <1>4 DEF After, Frames

LEMMA OneExchangeSent ==
  ASSUME NEW W \in SUBSET Whose, OneExchange(W)
  PROVE  ResetLine
<1>1. tx \in Seq(PacketCommands(W)) /\ One(tx, {"PACKET"})
  BY LineSets, SeqMonotonic, NoneOfPlain, OneOfNone DEF OneExchange, Asked, Answered
<1>2. PacketCommands(W) \subseteq PacketCommands(Whose)
  BY DEF PacketCommands
<1> QED
  BY <1>1, <1>2, SeqMonotonic DEF ResetLine

LEMMA NothingSent == Nothing => ResetLine
BY Wholes, NothingIsLess, OneExchangeSent DEF OneExchange

LEMMA NoneSent == tx = <<>> => ResetLine
<1>1. tx = <<>> => tx \in Seq(PacketCommands(Whose)) /\ DOMAIN tx = {}
  BY EmptySeq
<1> QED
  BY <1>1 DEF ResetLine, One

\* A KW telegram is sent when nothing else is owed.
LEMMA KwStartOwn ==
  ASSUME OwnInv, TypeInv, Paced, busy, tx = <<>>, mode = "KW", quiet <= 2, passed',
         UNCHANGED <<mode, quiet>>, KwStart(<<>>)
  PROVE  OwnInv'
<1>1. Send(request) = <<[kind |-> request, whose |-> "PENDING"]>>
  BY DEF Send
<1>2. ~(busy /\ Due(0, RequestTimeout))
  BY Constants DEF Paced, Due
<1>3. /\ state' = "KW_RECEIVE" /\ collected' = <<>> /\ age' = 0 /\ rx' = <<>> /\ since' = 0
      /\ tx' = <<[kind |-> request, whose |-> "PENDING"]>> /\ UNCHANGED <<request, told>>
  BY <1>1, <1>2 DEF KwStart, Pass, CountAfter, Touched
<1>4. KwAnswered'
  BY <1>3, EmptySeq, ExpectsSome DEF KwAnswered, Expected
<1>5. KwLine'
  <2>1. quiet' <= since' + 2 /\ since' <= KwAnswerTimeout
    BY <1>3, Constants
  <2>2. collected' \in Seq(OwnBytes)
    BY <1>3, EmptySeq
  <2>3. KwSent'
    BY <1>3 DEF KwSent
  <2> QED
    BY <1>3, <1>4, <2>1, <2>2, <2>3 DEF KwLine
<1> QED
  BY <1>3, <1>5 DEF OwnInv, LineInv, Between

\* The handshake.
LEMMA ResetOwn ==
  ASSUME OwnInv, Reset
  PROVE  OwnInv'
<1>1. ResetLine /\ told # "WRONGLY"
  BY DEF Reset, OwnInv, LineInv
<1> DEFINE eot == [kind |-> "EOT", whose |-> IF busy THEN "PENDING" ELSE "NONE"]
<1>2. eot \in PacketCommands(Whose) /\ eot.kind \notin {"PACKET"}
  BY DEF PacketCommands, PlainCommands, Whose
<1>3. Send("EOT") \in Seq(PacketCommands(Whose)) /\ One(Send("EOT"), {"PACKET"})
  BY <1>1, <1>2, AppendProperties, OneMore DEF Send, ResetLine
<1>4. CASE state' = "RESET_ACK" /\ rx' = <<>> /\ tx' = Send("EOT") /\ told' = told
  <2>1. Asked(Whose)'
    BY <1>3, <1>4, EmptySeq DEF Asked
  <2>2. EnqLast'
    BY <1>4 DEF EnqLast
  <2> QED
    BY <1>1, <1>4, <2>1, <2>2 DEF OwnInv, LineInv, Between, OneExchange
<1> QED
  BY <1>1, <1>3, <1>4, PassLine DEF Reset, GoTo

LEMMA ResetAckOwn ==
  ASSUME OwnInv, TypeInv, Paced, ResetAck, UNCHANGED <<mode, quiet>>, passed'
  PROVE  OwnInv'
<1>1. /\ state = "RESET_ACK" /\ OneExchange(Whose) /\ EnqLast /\ told # "WRONGLY" /\ ResetLine
      /\ rx \in Seq(Bytes)
  BY Wholes, OneExchangeSent, LineIsTyped DEF ResetAck, OwnInv, LineInv
<1>2. ASSUME Reads("ENQ"), AnswerEnq
      PROVE  OwnInv'
  <2>1. CASE Head(rx).kind = "ENQ"
    <3>1. After(rx) = <<>> /\ tx = <<>> /\ mode = "KW" /\ quiet = 0
      BY <1>1, <1>2, <2>1, EnqAlone DEF Reads
    <3>2. <<>> \in Seq(PlainBytes) /\ tx \in Seq(PlainCommands)
      BY <3>1, EmptySeq
    <3>3. CASE GoTo("INIT", After(rx), tx)
      <4>1. "INIT" \in Between
        BY DEF Between, States
      <4> QED
        BY <1>1, <3>1, <3>2, <3>3, <4>1, GoBetween
    <3>4. CASE busy /\ KwStart(After(rx))
      <4>1. quiet <= 2
        BY <3>1
      <4> QED
        BY <3>1, <3>4, <4>1, KwStartOwn
    <3> QED
      BY <1>2, <3>3, <3>4 DEF AnswerEnq
  <2>2. CASE Head(rx).kind # "ENQ"
    <3>1. Head(rx).kind \in Frames /\ rx # <<>>
      BY <1>1, <1>2, <2>2, Wholes, TakenAnswer DEF Reads, MayBe, Payload
    <3>2. tx \in Seq(PlainCommands) /\ After(rx) \in Seq(PlainBytes)
      BY <1>1, <3>1, Wholes, TakenAnswer DEF Answering
    <3>3. GoTo("INIT", After(rx), tx)
      BY <1>2, <2>2 DEF AnswerEnq, Opens, Paced
    <3>4. "INIT" \in Between
      BY DEF Between, States
    <3> QED
      BY <1>1, <3>2, <3>3, <3>4, GoBetween
  <2> QED
    BY <2>1, <2>2
<1>3. ASSUME NEW rest, rest = rx \/ (rx # <<>> /\ rest = Tail(rx)), Stay(rest)
      PROVE  OwnInv'
  <2>1. CASE state' = state /\ rx' = rest /\ tx' = tx /\ told' = told
    <3>1. CASE rx' = rx
      BY <1>1, <2>1, <3>1 DEF OwnInv, LineInv, Between, OneExchange, Asked, Answered, EnqLast
    <3>2. CASE rx # <<>> /\ rx' = Tail(rx)
      <4>1. OneExchange(Whose)' /\ EnqLast'
        BY <1>1, <2>1, <3>2, Wholes, TakenKept, TakenEnqLast
      <4> QED
        BY <1>1, <2>1, <4>1 DEF OwnInv, LineInv, Between
    <3> QED
      BY <1>3, <2>1, <3>1, <3>2
  <2> QED
    BY <1>1, <1>3, <2>1, PassLine DEF Stay, ResetLine
<1>4. CASE GoTo("RESET", rx, tx)
  BY <1>1, <1>4, GoToReset
<1> QED
  BY <1>2, <1>3, <1>4 DEF ResetAck, StillQuiet, ReadsElse

\* Between the exchanges nothing is owed.
LEMMA BetweenOwn ==
  ASSUME OwnInv, Initialize \/ InitAck \/ Idle \/ ReceiveAck
  PROVE  OwnInv'
<1>1. state \in Between /\ Nothing /\ told # "WRONGLY" /\ ResetLine
  BY NothingSent DEF Initialize, InitAck, Idle, ReceiveAck, OwnInv, LineInv, Between, States
<1>2. {"INIT", "INIT_ACK", "IDLE", "SENDSTART", "KW_DROP", "RESET"} \subseteq Between \cup {"RESET"}
  BY DEF Between, States, Sends
<1>3. rx \in Seq(PlainBytes) /\ tx \in Seq(PlainCommands)
  BY <1>1 DEF Nothing
<1>4. rx # <<>> => Tail(rx) \in Seq(PlainBytes) /\ After(rx) \in Seq(PlainBytes)
  BY <1>3, TakenPlain
<1>5. Send("SYNC") \in Seq(PlainCommands)
  <2>1. [kind |-> "SYNC", whose |-> IF busy THEN "PENDING" ELSE "NONE"] \in PlainCommands
    BY DEF PlainCommands, Whose
  <2> QED
    BY <1>3, <2>1, AppendProperties DEF Send
<1>6. CASE Initialize
  BY <1>1, <1>2, <1>3, <1>5, <1>6, GoBetween DEF Initialize
<1>7. CASE InitAck
  BY <1>1, <1>2, <1>3, <1>4, <1>7, GoBetween, StayBetween DEF InitAck, StillQuiet, Reads, ReadsElse
<1>8. CASE Idle
  BY <1>1, <1>2, <1>3, <1>8, GoBetween, StayBetween DEF Idle
<1>9. CASE ReceiveAck
  BY <1>1, <1>2, <1>3, <1>9, GoBetween DEF ReceiveAck
<1> QED
  BY <1>6, <1>7, <1>8, <1>9

\* The exchange of a packet.
LEMMA SendPacketOwn ==
  ASSUME OwnInv, ExchangeInv, SendPacket
  PROVE  OwnInv'
<1>1. state \in Between /\ Nothing /\ told # "WRONGLY" /\ busy
  BY DEF SendPacket, OwnInv, LineInv, Between, States, Sends, ExchangeInv, Exchange
<1>2. rx \in Seq(PlainBytes) /\ tx \in Seq(PlainCommands)
  BY <1>1 DEF Nothing
<1>3. CASE GoTo("SENDPACKET", rx, tx) \/ GoTo("SEND_CRC", rx, tx)
  <2>1. {"SENDPACKET", "SEND_CRC"} \subseteq Between
    BY DEF Between, States, Sends
  <2> QED
    BY <1>1, <1>2, <1>3, <2>1, GoBetween
<1>4. CASE GoTo("SEND_ACK", rx, Send("PACKET"))
  <2> DEFINE packet == [kind |-> "PACKET", whose |-> "PENDING"]
  <2>1. Send("PACKET") = Append(tx, packet)
    BY <1>1 DEF Send
  <2>2. packet \in PacketCommands(Own) /\ tx \in Seq(PacketCommands(Own)) /\ One(tx, {"PACKET"})
        /\ \A i \in DOMAIN tx : tx[i].kind \notin {"PACKET"}
    BY <1>2, Wholes, LineSets, SeqMonotonic, NoneOfPlain, OneOfNone DEF PacketCommands, Own
  <2> HIDE DEF packet
  <2>3. Send("PACKET") \in Seq(PacketCommands(Own)) /\ One(Send("PACKET"), {"PACKET"})
    <3>1. Append(tx, packet) \in Seq(PacketCommands(Own))
      BY <2>2, AppendProperties
    <3>2. One(Append(tx, packet), {"PACKET"})
      BY <2>2, OneMore
    <3> QED
      BY <2>1, <3>1, <3>2
  <2>4. Send("PACKET") \in Seq(PacketCommands(Whose))
    <3>1. PacketCommands(Own) \subseteq PacketCommands(Whose)
      BY DEF PacketCommands, Own, Whose
    <3> QED
      BY <2>3, <3>1, SeqMonotonic
  <2>5. CASE state' = "SEND_ACK" /\ rx' = rx /\ tx' = Send("PACKET") /\ told' = told
    <3>1. Asked(Own)'
      BY <1>2, <2>3, <2>5 DEF Asked
    <3> QED
      BY <1>1, <2>5, <3>1 DEF OwnInv, LineInv, Between, OneExchange
  <2> QED
    BY <1>1, <1>4, <2>3, <2>4, <2>5, PassLine DEF GoTo
<1> QED
  BY <1>3, <1>4 DEF SendPacket, Sends

\* A pass that stays in the exchange, or gets from the ACK to the answer.
LEMMA ExchangeGoesOn ==
  ASSUME told # "WRONGLY", OneExchange(Own), NEW s \in {"SEND_ACK", "RECEIVE"},
         NEW count, NEW rest, rest = rx \/ (rx # <<>> /\ rest \in {Tail(rx), After(rx)}),
         Pass(s, count, age, rest, tx)
  PROVE  OwnInv'
<1>1. ResetLine
  BY Wholes, OneExchangeSent
<1>2. CASE state' = s /\ rx' = rest /\ tx' = tx /\ told' = told
  <2>1. OneExchange(Own)'
    <3>1. CASE rx' = rx
      BY <1>2, <3>1 DEF OneExchange, Asked, Answered
    <3>2. CASE rx # <<>> /\ (rx' = Tail(rx) \/ rx' = After(rx))
      BY <1>2, <3>2, Wholes, TakenKept
    <3> QED
      BY <1>2, <3>1, <3>2
  <2> QED
    BY <1>2, <2>1 DEF OwnInv, LineInv, Between
<1> QED
  BY <1>1, <1>2, PassLine DEF ResetLine

LEMMA SendAckOwn ==
  ASSUME OwnInv, SendAck
  PROVE  OwnInv'
<1>1. state = "SEND_ACK" /\ OneExchange(Own) /\ told # "WRONGLY"
  BY DEF SendAck, OwnInv, LineInv
<1>2. CASE Reads("NACK") /\ CallBack("ERROR", "IDLE", After(rx), tx)
  <2>1. rx # <<>> /\ Head(rx).kind \in Answering
    BY <1>1, <1>2, Wholes, TakenAnswer DEF Reads, MayBe, Payload, Answering
  <2>2. tx \in Seq(PlainCommands) /\ After(rx) \in Seq(PlainBytes)
    BY <1>1, <2>1, Wholes, TakenAnswer
  <2>3. "IDLE" \in Between
    BY DEF Between, States
  <2> QED
    BY <1>2, <2>2, <2>3, CallBackBetween
<1>3. CASE Reads("ACK") /\ GoTo("RECEIVE", After(rx), tx)
  BY <1>1, <1>3, ExchangeGoesOn DEF GoTo, Reads
<1>4. CASE \/ rx # <<>> /\ Stay(Tail(rx))
           \/ Stay(rx)
  BY <1>1, <1>4, ExchangeGoesOn DEF Stay
<1> QED
  BY <1>2, <1>3, <1>4 DEF SendAck, ReadsElse

LEMMA ReceiveOwn ==
  ASSUME OwnInv, Receive
  PROVE  OwnInv'
<1> DEFINE b == Head(rx)
           rest == Tail(rx)
<1>1. state = "RECEIVE" /\ OneExchange(Own) /\ told # "WRONGLY" /\ ResetLine
  BY Wholes, OneExchangeSent DEF Receive, OwnInv, LineInv
<1>2. \/ Stay(rx)
      \/ rx # <<>> /\ Stay(rest)
      \/ rx # <<>> /\ b.kind = "RESPONSE" /\ CallBack(Judged(<<b>>), "RECEIVE_ACK", rest, tx)
      \/ rx # <<>> /\ b.kind = "OTHER" /\ CallBack("ERROR", "RECEIVE_ACK", rest, tx)
      \/ CallBack("ERROR", "RESET", rest, tx)
  BY DEF Receive
<1>3. CASE Stay(rx) \/ (rx # <<>> /\ Stay(rest))
  BY <1>1, <1>3, ExchangeGoesOn DEF Stay
<1>4. CASE CallBack("ERROR", "RESET", rest, tx)
  BY <1>1, <1>4, ErrorToReset DEF ResetLine
<1>5. ASSUME rx # <<>>, b.kind \in {"RESPONSE", "OTHER"}
      PROVE  tx \in Seq(PlainCommands) /\ rest \in Seq(PlainBytes) /\ b.whose = "PENDING"
  <2>1. b \in AnswerBytes(Own) /\ tx \in Seq(PlainCommands) /\ rest \in Seq(PlainBytes)
    BY <1>1, <1>5, Wholes, TakenAnswer DEF Answering, Frames
  <2>2. b.whose \in Own
    BY <1>5, <2>1, Wholes, ByteSets DEF Frames
  <2> QED
    BY <2>1, <2>2 DEF Own
<1>6. "RECEIVE_ACK" \in Between
  BY DEF Between, States
<1>7. ASSUME rx # <<>>, b.kind = "RESPONSE"
      PROVE  Judged(<<b>>) = "ANSWERED"
  <2>1. Range(<<b>>) = {b}
    BY DEF Range
  <2> QED
    BY <1>5, <1>7, <2>1 DEF Judged
<1> QED
  BY <1>2, <1>3, <1>4, <1>5, <1>6, <1>7, CallBackBetween

\* The detour over KW.
LEMMA KwDropOwn ==
  ASSUME OwnInv, KwDrop
  PROVE  OwnInv'
<1>1. Nothing /\ told # "WRONGLY"
  BY DEF KwDrop, OwnInv, LineInv, Between, States
<1> DEFINE eot == [kind |-> "EOT", whose |-> IF busy THEN "PENDING" ELSE "NONE"]
<1>2. eot \in PlainCommands
  BY DEF PlainCommands, Whose
<1>3. Send("EOT") \in Seq(PlainCommands)
  BY <1>1, <1>2, AppendProperties DEF Send, Nothing
<1>4. Send("EOT") \in Seq(PacketCommands(Whose)) /\ One(Send("EOT"), {"PACKET"})
  BY <1>3, Wholes, LineSets, SeqMonotonic, NoneOfPlain, OneOfNone
<1>5. CASE state' = "KW_ENQ" /\ rx' = <<>> /\ tx' = Send("EOT") /\ told' = told
  <2>1. Nothing' /\ EnqLast'
    BY <1>3, <1>5, EmptySeq DEF Nothing, EnqLast
  <2> QED
    BY <1>1, <1>5, <2>1 DEF OwnInv, LineInv, Between
<1> QED
  BY <1>1, <1>4, <1>5, PassLine DEF KwDrop

LEMMA KwEnqOwn ==
  ASSUME OwnInv, TypeInv, Paced, KwEnq, UNCHANGED <<mode, quiet>>, passed'
  PROVE  OwnInv'
<1>1. /\ state = "KW_ENQ" /\ Nothing /\ EnqLast /\ told # "WRONGLY" /\ ResetLine /\ busy
  BY NothingSent DEF KwEnq, OwnInv, LineInv, TypeInv, EngineInv, RequestInv, Detour
<1>2. rx \in Seq(PlainBytes) /\ tx \in Seq(PlainCommands)
  BY <1>1 DEF Nothing
<1>3. ASSUME Reads("ENQ"), Opens, KwStart(After(rx))
      PROVE  OwnInv'
  <2>1. Head(rx).kind = "ENQ" /\ rx # <<>>
    BY <1>3 DEF Opens, Paced, Reads
  <2>2. After(rx) = <<>> /\ tx = <<>> /\ mode = "KW" /\ quiet = 0
    BY <1>1, <1>2, <2>1, EnqAlone
  <2>3. quiet <= 2
    BY <2>2
  <2> QED
    BY <1>1, <1>3, <2>2, <2>3, KwStartOwn
<1>4. CASE CallBack("ERROR", "RESET", rx, tx)
  BY <1>1, <1>4, ErrorToReset DEF ResetLine
<1>5. ASSUME NEW rest, rest = rx \/ (rx # <<>> /\ rest = Tail(rx)), Stay(rest)
      PROVE  OwnInv'
  <2>1. CASE state' = state /\ rx' = rest /\ tx' = tx /\ told' = told
    <3>1. CASE rx' = rx
      BY <1>1, <2>1, <3>1 DEF OwnInv, LineInv, Between, Nothing, EnqLast
    <3>2. CASE rx # <<>> /\ rx' = Tail(rx)
      <4>1. Nothing' /\ EnqLast'
        BY <1>1, <1>2, <2>1, <3>2, TakenPlain, TakenEnqLast DEF Nothing
      <4> QED
        BY <1>1, <2>1, <4>1 DEF OwnInv, LineInv, Between
    <3> QED
      BY <1>5, <2>1, <3>1, <3>2
  <2> QED
    BY <1>1, <1>5, <2>1, PassLine DEF Stay, ResetLine
<1> QED
  BY <1>3, <1>4, <1>5 DEF KwEnq, StillQuiet, ReadsElse

LEMMA KwChainOwn ==
  ASSUME OwnInv, TypeInv, Paced, KwChain, UNCHANGED <<mode, quiet>>, passed'
  PROVE  OwnInv'
<1>1. /\ state = "KW_CHAIN" /\ ChainLine /\ told # "WRONGLY" /\ ResetLine
  BY NoneSent DEF KwChain, OwnInv, LineInv, ChainLine
<1>2. /\ mode = "KW" /\ tx = <<>> /\ rx = <<>> /\ quiet <= 2 /\ quiet \in Nat /\ since \in Nat
      /\ quiet <= since
  BY <1>1, LongestIsNat, Constants DEF ChainLine, TypeInv, LineBounds, SinceTyped
<1>3. CASE busy /\ KwStart(rx)
  BY <1>2, <1>3, KwStartOwn
<1>4. CASE GoTo("RESET", rx, tx)
  BY <1>1, <1>4, GoToReset
<1>5. CASE StillQuiet(Linger)
  <2>1. CASE state' = state /\ rx' = rx /\ tx' = tx /\ told' = told
    <3>1. ChainLine'
      BY <1>2, <1>5, <2>1 DEF StillQuiet, NotDue, Linger, Untouched, ChainLine
    <3> QED
      BY <1>1, <2>1, <3>1 DEF OwnInv, LineInv, Between
  <2> QED
    BY <1>1, <1>5, <2>1, PassLine DEF StillQuiet, Stay, ResetLine
<1> QED
  BY <1>2, <1>3, <1>4, <1>5 DEF KwChain, Reads, ReadsElse

\* The answer's end leaves nothing unread: it is all the controller says until its next ENQ.
LEMMA KwReceiveOwn ==
  ASSUME OwnInv, TypeInv, Paced, KwReceive, UNCHANGED <<mode, quiet>>, passed'
  PROVE  OwnInv'
<1> DEFINE n == IF Len(rx) < Expected - Len(collected)
                THEN Len(rx) ELSE Expected - Len(collected)
           answer == collected \o SubSeq(rx, 1, n)
           rest == SubSeq(rx, n + 1, Len(rx))
<1>1. /\ state = "KW_RECEIVE" /\ KwLine /\ told # "WRONGLY" /\ since \in Nat /\ quiet \in Nat
      /\ Len(collected) \in Nat /\ Len(collected) < Expected /\ Expected \in Nat
      /\ age \in Nat
  <2>1. since \in Nat /\ quiet \in Nat /\ age \in Nat
    BY LongestIsNat, Constants DEF TypeInv, EngineInv, RequestInv, Clock, LineBounds, SinceTyped
  <2>2. Len(collected) \in Nat /\ Len(collected) < Expected /\ state = "KW_RECEIVE"
    BY LenProperties DEF KwReceive, TypeInv, EngineInv, CountInv
  <2> QED
    BY <2>1, <2>2, ExpectsSome DEF OwnInv, LineInv
<1>2. ASSUME Due(since, KwAnswerTimeout), CallBack("ERROR", "RESET", rx, tx)
      PROVE  OwnInv'
  <2>1. since # 0
    BY <1>2, Constants DEF Due, Paced
  <2>2. ResetLine
    BY <1>1, <2>1, NoneSent DEF KwLine, KwSent
  <2> QED
    BY <1>2, <2>2, ErrorToReset DEF ResetLine
<1>3. ASSUME NotDue(since, KwAnswerTimeout)
      PROVE  KwAnswered /\ rx \in Seq(OwnBytes) /\ collected \in Seq(OwnBytes) /\ Len(rx) \in Nat
  BY <1>1, <1>3, LenProperties DEF NotDue, KwLine, KwAnswered
<1>4. ASSUME NotDue(since, KwAnswerTimeout)
      PROVE  n = Len(rx) /\ rest = <<>> /\ answer \in Seq(OwnBytes)
             /\ Len(answer) = Len(collected) + Len(rx)
  <2>1. n = Len(rx)
    BY <1>1, <1>3, <1>4 DEF KwAnswered
  <2>2. SubSeq(rx, 1, n) \in Seq(OwnBytes) /\ Len(SubSeq(rx, 1, n)) = n
    BY <1>3, <1>4, <2>1, SubSeqProperties
  <2>3. rest \in Seq(OwnBytes) /\ Len(rest) = 0
    BY <1>3, <1>4, <2>1, SubSeqProperties
  <2> HIDE DEF n, rest
  <2>4. rest = <<>>
    BY <2>3, EmptySeq
  <2>5. answer \in Seq(OwnBytes) /\ Len(answer) = Len(collected) + Len(rx)
    BY <1>3, <1>4, <2>1, <2>2, ConcatProperties
  <2> QED
    BY <2>1, <2>4, <2>5
<1>5. \/ Due(since, KwAnswerTimeout) /\ CallBack("ERROR", "RESET", rx, tx)
      \/ /\ NotDue(since, KwAnswerTimeout) /\ IF n > 0 THEN Touched ELSE Untouched
         /\ \/ Len(answer) < Expected /\ Pass(state, answer, age, rest, tx)
            \/ request = "KW_WRITE" /\ Len(answer) = 1 /\ CallBack("ERROR", "RESET", rest, tx)
            \/ Len(answer) = Expected /\ CallBack(Judged(answer), "KW_CHAIN", rest, tx)
  BY DEF KwReceive
<1> HIDE DEF n, answer, rest
\* The answer is not complete yet.
<1>6. ASSUME NotDue(since, KwAnswerTimeout), Len(answer) < Expected,
             IF n > 0 THEN Touched ELSE Untouched, Pass(state, answer, age, rest, tx)
      PROVE  OwnInv'
  <2>1. rest = <<>> /\ answer \in Seq(OwnBytes) /\ n = Len(rx)
    BY <1>4, <1>6
  <2>2. CASE rx = <<>>
    <3>1. Untouched /\ answer = collected
      <4>1. n = 0
        BY <2>1, <2>2, EmptySeq
      <4>2. SubSeq(rx, 1, 0) = <<>>
        BY <1>3, <1>6, SubSeqProperties, EmptySeq
      <4>3. answer = collected \o <<>>
        BY <4>1, <4>2 DEF answer
      <4> QED
        BY <1>3, <1>6, <4>1, <4>3, ConcatEmptySeq
    <3>2. CASE /\ state' = state /\ collected' = answer /\ age' = age /\ rx' = rest /\ tx' = tx
               /\ UNCHANGED <<request, told>>
      <4>1. KwAnswered'
        BY <1>3, <1>6, <2>1, <2>2, <3>1, <3>2 DEF KwAnswered, Expected
      <4>2. KwSent \/ tx = <<>>
        BY <1>1 DEF KwLine
      <4>3. (KwSent \/ tx = <<>>)'
        BY <2>1, <3>1, <3>2, <4>2 DEF KwSent, Untouched
      <4>4. KwLine'
        BY <1>1, <1>6, <2>1, <3>1, <3>2, <4>1, <4>3 DEF KwLine, NotDue, Untouched
      <4> QED
        BY <1>1, <3>2, <4>4 DEF OwnInv, LineInv, Between
    <3>3. CASE tx # <<>>
      <4>1. ~(busy /\ Due(age, RequestTimeout))
        BY <1>1, <3>3, Constants DEF KwLine, KwSent, Due, Paced
      <4> QED
        BY <1>6, <3>2, <4>1 DEF Pass
    <3>4. CASE tx = <<>>
      BY <1>1, <1>6, <3>2, <3>4, NoneSent, PassLine DEF ResetLine
    <3> QED
      BY <3>3, <3>4
  <2>3. CASE rx # <<>>
    <3>1. since = 0 /\ quiet = 0 /\ tx = <<>> /\ age = 0
      BY <1>1, <1>3, <1>6, <2>3 DEF KwAnswered, KwLine, KwSent
    <3>2. since' = 0
      BY <1>6, <3>1 DEF Touched, Untouched
    <3>3. CASE /\ state' = state /\ collected' = answer /\ age' = age /\ rx' = rest /\ tx' = tx
               /\ UNCHANGED <<request, told>>
      <4>1. rx' \in Seq(OwnBytes) /\ rx' = <<>> /\ Len(rx') = 0 /\ Expected' = Expected
        BY <2>1, <3>3, EmptySeq DEF Expected
      <4>2. Len(answer) \in Nat
        BY <2>1, LenProperties
      <4>3. KwAnswered'
        BY <1>1, <1>6, <3>3, <4>1, <4>2 DEF KwAnswered
      <4>4. KwLine'
        BY <1>1, <2>1, <3>1, <3>2, <3>3, <4>3, Constants DEF KwLine
      <4> QED
        BY <1>1, <3>3, <4>4 DEF OwnInv, LineInv, Between
    <3> QED
      BY <1>1, <1>6, <3>1, <3>3, NoneSent, PassLine DEF ResetLine
  <2> QED
    BY <2>2, <2>3
\* The answer is complete.
<1>7. ASSUME NotDue(since, KwAnswerTimeout), Len(answer) = Expected,
             IF n > 0 THEN Touched ELSE Untouched
      PROVE  tx = <<>> /\ rest = <<>> /\ since' = 0 /\ quiet = 0 /\ Judged(answer) = "ANSWERED"
  <2>1. rx # <<>>
    BY <1>1, <1>4, <1>7, EmptySeq
  <2>2. since = 0 /\ quiet = 0 /\ tx = <<>>
    BY <1>1, <1>3, <1>7, <2>1 DEF KwAnswered, KwLine, KwSent
  <2>3. since' = 0
    BY <1>7, <2>2 DEF Touched, Untouched
  <2>4. \A b \in Range(answer) : b \in OwnBytes
    BY <1>4, <1>7, ElementOfSeq, LenProperties DEF Range
  <2>5. Judged(answer) = "ANSWERED"
    BY <2>4 DEF Judged, OwnBytes, Own
  <2> QED
    BY <1>4, <1>7, <2>2, <2>3, <2>5
<1>8. ASSUME NotDue(since, KwAnswerTimeout), Len(answer) = 1,
             IF n > 0 THEN Touched ELSE Untouched, request = "KW_WRITE",
             CallBack("ERROR", "RESET", rest, tx)
      PROVE  OwnInv'
  <2>1. tx = <<>>
    BY <1>7, <1>8 DEF Expected
  <2> QED
    BY <1>8, <2>1, NoneSent, ErrorToReset DEF ResetLine
<1>9. ASSUME NotDue(since, KwAnswerTimeout), Len(answer) = Expected,
             IF n > 0 THEN Touched ELSE Untouched, CallBack(Judged(answer), "KW_CHAIN", rest, tx)
      PROVE  OwnInv'
  <2>1. tx = <<>> /\ rest = <<>> /\ since' = 0 /\ quiet = 0 /\ Judged(answer) = "ANSWERED"
    BY <1>7, <1>9
  <2>2. AllEarlier(<<>>) = <<>>
    BY DEF AllEarlier
  <2>3. state' = "KW_CHAIN" /\ rx' = <<>> /\ tx' = <<>> /\ told' = "ANSWERED"
    BY <1>9, <2>1, <2>2 DEF CallBack
  <2>4. ChainLine'
    BY <1>1, <2>1, <2>3 DEF ChainLine, KwLine
  <2> QED
    BY <2>3, <2>4 DEF OwnInv, LineInv, Between
<1> QED
  BY <1>2, <1>5, <1>6, <1>8, <1>9

LEMMA LoopOwn ==
  ASSUME OwnInv, TypeInv, ExchangeInv, Paced, Loop
  PROVE  OwnInv'
<1>1. UNCHANGED <<mode, quiet>> /\ passed'
  BY DEF Loop
<1> QED
  BY <1>1, ResetOwn, ResetAckOwn, BetweenOwn, SendPacketOwn, SendAckOwn, ReceiveOwn, KwDropOwn,
     KwEnqOwn, KwReceiveOwn, KwChainOwn DEF Loop

\* The controller and the faults, while a KW telegram is under way.
LEMMA FaultShorter ==
  ASSUME NEW S, rx \in Seq(S), Fault,
         \A x \in S : [x EXCEPT !.kind = IF @ \in {"RESPONSE", "OTHER"} THEN "BAD" ELSE "NOISE"] \in S
  PROVE  rx' \in Seq(S) /\ Len(rx) \in Nat /\ Len(rx') \in Nat /\ Len(rx') <= Len(rx)
<1>1. rx' \in Seq(S) /\ Len(rx) \in Nat /\ Len(rx') \in Nat
  BY FaultFewer, LenProperties
<1>2. \/ UNCHANGED rx
      \/ \E i \in DOMAIN rx : rx' = RemoveAt(rx, i)
      \/ \E i \in DOMAIN rx :
           rx' = [rx EXCEPT ![i].kind = IF @ \in {"RESPONSE", "OTHER"} THEN "BAD" ELSE "NOISE"]
  BY DEF Fault
<1>3. ASSUME NEW i \in DOMAIN rx, rx' = RemoveAt(rx, i)
      PROVE  Len(rx') <= Len(rx)
  BY <1>3, RemovedAt
<1>4. ASSUME NEW i \in DOMAIN rx,
             rx' = [rx EXCEPT ![i].kind = IF @ \in {"RESPONSE", "OTHER"} THEN "BAD" ELSE "NOISE"]
      PROVE  Len(rx') <= Len(rx)
  <2>1. DOMAIN rx' = DOMAIN rx
    BY <1>4
  <2>2. DOMAIN rx = 1..Len(rx) /\ DOMAIN rx' = 1..Len(rx')
    BY <1>1, LenProperties
  <2> QED
    BY <1>1, <2>1, <2>2
<1> QED
  BY <1>1, <1>2, <1>3, <1>4

LEMMA KwLineHeard ==
  ASSUME KwLine, TypeInv, Paced, state = "KW_RECEIVE", Hear
  PROVE  KwLine'
<1> DEFINE c == Head(tx)
<1>1. KwSent /\ tx # <<>> /\ tx' = Tail(tx) /\ EngineUnchanged
  BY DEF Hear, KwLine
<1>2. c = [kind |-> request, whose |-> "PENDING"] /\ tx' = <<>>
  BY <1>1 DEF KwSent
<1>3. request \in {"KW_READ", "KW_WRITE"}
  BY DEF TypeInv, EngineInv, RequestInv, Detour, Kw, Requests
<1>4. HearTelegram(c) /\ mode = "KW"
  BY <1>2, <1>3 DEF Hear, HearEot, HearSync, HearPacket, KwLine
<1>5. mode' = "KW" /\ quiet' = 0
  BY <1>4 DEF HearTelegram, Speaks
<1> DEFINE data == [kind |-> "DATA", whose |-> "PENDING"]
           refusal == [kind |-> "REFUSAL", whose |-> "PENDING"]
<1>6. PICK q : /\ rx' = rx \o q
               /\ \/ request = "KW_READ" /\ q = [i \in 1..KwLength |-> data]
                  \/ request = "KW_WRITE" /\ q \in {<<data>>, <<refusal>>}
  <2>1. c.kind = request /\ c.whose = "PENDING"
    BY <1>2
  <2> DEFINE d == [kind |-> "DATA", whose |-> c.whose]
  <2>2. d = data /\ [d EXCEPT !.kind = "REFUSAL"] = refusal
    BY <2>1
  <2>3. \/ c.kind = "KW_READ" /\ rx' = rx \o [i \in 1..KwLength |-> d]
        \/ c.kind = "KW_WRITE" /\ (rx' = rx \o <<d>> \/ rx' = rx \o <<[d EXCEPT !.kind = "REFUSAL"]>>)
    BY <1>4 DEF HearTelegram, Answers
  <2> HIDE DEF c, d, data, refusal
  <2>4. \/ request = "KW_READ" /\ rx' = rx \o [i \in 1..KwLength |-> data]
        \/ request = "KW_WRITE" /\ (rx' = rx \o <<data>> \/ rx' = rx \o <<refusal>>)
    BY <2>1, <2>2, <2>3
  <2> QED
    BY <2>4
<1>7. q \in Seq(OwnBytes) /\ Len(q) = Expected
  <2>1. data \in OwnBytes /\ refusal \in OwnBytes
    BY DEF OwnBytes, Own, Kinds
  <2> HIDE DEF data, refusal
  <2>2. CASE request = "KW_READ"
    <3>1. q \in [1..KwLength -> OwnBytes] /\ KwLength \in Nat /\ DOMAIN q = 1..KwLength
      BY <1>6, <2>1, <2>2, Constants
    <3>2. q \in Seq(OwnBytes)
      BY <3>1, SeqDef
    <3>3. Len(q) = KwLength
      BY <3>1, <3>2, LenProperties
    <3> QED
      BY <2>2, <3>2, <3>3 DEF Expected
  <2>3. CASE request = "KW_WRITE"
    <3>1. \A x \in OwnBytes : <<x>> \in Seq(OwnBytes) /\ Len(<<x>>) = 1
      OBVIOUS
    <3> QED
      BY <1>6, <2>1, <2>3, <3>1 DEF Expected
  <2> QED
    BY <1>3, <2>2, <2>3
<1>8. rx' = q
  BY <1>1, <1>6, <1>7, ConcatEmptySeq DEF KwSent
<1>9. KwAnswered'
  <2>1. Len(collected') = 0 /\ Expected' = Expected /\ since' = 0
    BY <1>1, EmptySeq DEF KwSent, EngineUnchanged, Expected
  <2>2. 0 + Len(q) <= Expected
    BY <1>7, ExpectsSome
  <2> QED
    BY <1>5, <1>7, <1>8, <2>1, <2>2 DEF KwAnswered
<1> QED
  <2>1. quiet' <= since' + 2
    BY <1>1, <1>5 DEF KwSent, EngineUnchanged
  <2> QED
    BY <1>1, <1>2, <1>5, <1>9, <2>1 DEF KwLine, EngineUnchanged

LEMMA KwLineFaulted ==
  ASSUME KwLine, Fault
  PROVE  KwLine'
<1>1. EngineUnchanged /\ mode = "KW" /\ UNCHANGED <<mode, quiet>>
  BY DEF Fault, KwLine, controller
<1>2. \A x \in OwnBytes :
        [x EXCEPT !.kind = IF @ \in {"RESPONSE", "OTHER"} THEN "BAD" ELSE "NOISE"] \in OwnBytes
  BY DEF OwnBytes, Kinds
<1>3. since <= KwAnswerTimeout => KwAnswered'
  <2> SUFFICES ASSUME since <= KwAnswerTimeout PROVE KwAnswered'
    OBVIOUS
  <2>1. KwAnswered /\ rx \in Seq(OwnBytes) /\ collected \in Seq(OwnBytes)
    BY DEF KwLine, KwAnswered
  <2>2. rx' \in Seq(OwnBytes) /\ Len(rx) \in Nat /\ Len(rx') \in Nat /\ Len(rx') <= Len(rx)
    BY <1>2, <2>1, FaultShorter
  <2>3. Len(collected) \in Nat /\ Expected \in Nat /\ Expected' = Expected
    BY <1>1, <2>1, LenProperties, ExpectsSome DEF EngineUnchanged, Expected
  <2>4. Len(collected) + Len(rx') <= Expected
    BY <2>1, <2>2, <2>3 DEF KwAnswered
  <2>5. rx' # <<>> => rx # <<>>
    <3>1. rx = <<>> => Len(rx') = 0
      BY <2>2, EmptySeq
    <3> QED
      BY <2>2, <3>1, EmptySeq
  <2> QED
    BY <1>1, <2>1, <2>2, <2>3, <2>4, <2>5 DEF KwAnswered, EngineUnchanged
<1>4. (KwSent \/ tx = <<>>)'
  <2>1. CASE KwSent
    <3>1. rx' = rx /\ (tx' = tx \/ tx' = Tail(tx))
      BY <1>1, <2>1 DEF Fault, KwSent, controller
    <3> QED
      BY <1>1, <2>1, <3>1 DEF KwSent, EngineUnchanged
  <2>2. CASE tx = <<>>
    BY <2>2 DEF Fault, controller
  <2> QED
    BY <2>1, <2>2 DEF KwLine
<1> QED
  BY <1>1, <1>3, <1>4 DEF KwLine, EngineUnchanged

\* Its next ENQ the controller says when the answer has timed out.
LEMMA KwLineEnq ==
  ASSUME KwLine, TypeInv, Paced, SendEnq
  PROVE  KwLine'
<1>1. since \in Nat /\ quiet = EnqPeriod /\ quiet <= since + 2 /\ EnqPeriod \in Nat
      /\ KwAnswerTimeout \in Nat
  BY LongestIsNat, Constants DEF SendEnq, KwLine, TypeInv, SinceTyped
<1>2. since > KwAnswerTimeout
  BY <1>1 DEF Paced
<1>3. EngineUnchanged /\ mode' = "KW" /\ quiet' = 0 /\ tx' = <<>>
  BY DEF SendEnq, Speaks
<1> QED
  BY <1>1, <1>2, <1>3 DEF KwLine, EngineUnchanged

LEMMA LineOwn ==
  ASSUME OwnInv, TypeInv, Paced, Hear \/ SendEnq \/ Fault \/ Noise
  PROVE  OwnInv'
<1>1. EngineUnchanged
  BY DEF Hear, SendEnq, Fault, Noise
<1>2. EnqPeriod > 0
  BY Constants DEF Paced
<1>3. ASSUME state = "RESET" PROVE ResetLine'
  <2>1. ResetLine
    BY <1>3 DEF OwnInv, LineInv
  <2>2. tx' = tx \/ (tx # <<>> /\ tx' = Tail(tx))
    BY DEF Hear, SendEnq, Fault, Noise, controller
  <2>3. CASE tx # <<>> /\ tx' = Tail(tx)
    <3>1. Tail(tx) \in Seq(PacketCommands(Whose))
      BY <2>1, <2>3, HeadTailProperties DEF ResetLine
    <3>2. One(Tail(tx), {"PACKET"})
      BY <2>1, <2>3, OneOfTail DEF ResetLine
    <3> QED
      BY <2>3, <3>1, <3>2 DEF ResetLine
  <2> QED
    BY <2>1, <2>2, <2>3 DEF ResetLine
<1>4. ASSUME NEW W \in SUBSET Whose, OneExchange(W) PROVE OneExchange(W)'
  BY <1>4, HearExchange, FaultLine, NoiseLine
<1>5. Nothing => Nothing'
  BY HearNothing, FaultLine, NoiseLine
<1>6. ASSUME NEW W \in SUBSET Whose, OneExchange(W), EnqLast PROVE EnqLast'
  BY <1>2, <1>6, LineKeepsEnq
<1>7. Nothing => OneExchange({})
  BY Wholes, NothingIsLess DEF OneExchange
<1>8. ASSUME state = "KW_RECEIVE" PROVE KwLine'
  <2>1. KwLine
    BY <1>8 DEF OwnInv, LineInv
  <2>2. ~Noise
    BY <2>1 DEF Noise, KwLine
  <2> QED
    BY <1>8, <2>1, <2>2, KwLineHeard, KwLineFaulted, KwLineEnq
<1>9. ASSUME state = "KW_CHAIN" PROVE FALSE
  <2>1. ChainLine /\ quiet \in Nat /\ since \in Nat
    BY <1>9, LongestIsNat, Constants DEF OwnInv, LineInv, TypeInv, LineBounds, SinceTyped
  <2>2. quiet <= 2
    BY <2>1 DEF ChainLine
  <2>3. mode = "KW" /\ tx = <<>> /\ DOMAIN rx = {}
    BY <2>1, EmptySeq DEF ChainLine
  <2>4. quiet # EnqPeriod
    BY <2>1, <2>2, Constants DEF Paced
  <2> QED
    BY <2>3, <2>4 DEF Hear, SendEnq, Fault, Noise
<1> QED
  BY <1>1, <1>3, <1>4, <1>5, <1>6, <1>7, <1>8, <1>9, Wholes DEF EngineUnchanged, OwnInv, LineInv

LEMMA TickOwn ==
  ASSUME OwnInv, TypeInv, Paced, Tick
  PROVE  OwnInv'
<1>1. /\ UNCHANGED <<state, collected, busy, request, rx, tx, mode, told>>
      /\ passed = TRUE /\ passed' = FALSE /\ Waits
  BY DEF Tick, TypeInv
<1>2. /\ since \in Nat /\ quiet \in Nat /\ age \in Nat /\ Longest \in Nat
      /\ KwAnswerTimeout \in Nat /\ KwAnswerTimeout <= Longest /\ 1 <= Longest
  <2>1. since \in Nat /\ quiet \in Nat /\ age \in Nat
    BY LongestIsNat, Constants DEF TypeInv, EngineInv, RequestInv, Clock, LineBounds, SinceTyped
  <2>2. KwAnswerTimeout \in Nat /\ KwAnswerTimeout <= Longest
    BY Constants, LongestIsMost
  <2> QED
    BY <2>1, <2>2, LongestIsNat DEF Paced
<1>3. ASSUME state = "KW_RECEIVE" PROVE KwLine'
  <2>1. KwLine /\ rx = <<>> /\ busy /\ since <= KwAnswerTimeout
    BY <1>1, <1>3 DEF OwnInv, LineInv, KwLine, Waits, TypeInv, EngineInv, RequestInv, Detour
  <2>2. tx = <<>>
    BY <2>1 DEF Tick, Ponders, KwLine
  <2>3. since' = since + 1 /\ age' = age + 1 /\ quiet' = quiet + 1
    BY <1>2, <2>1 DEF Tick, KwLine
  <2>4. KwAnswered'
    BY <1>1, <2>1 DEF KwLine, KwAnswered, Expected
  <2> QED
    BY <1>1, <1>2, <2>1, <2>2, <2>3, <2>4 DEF KwLine
<1>4. ASSUME state = "KW_CHAIN" PROVE ChainLine'
  <2>1. ChainLine /\ since <= 1
    BY <1>1, <1>4 DEF OwnInv, LineInv, ChainLine
  <2>2. since' = since + 1 /\ quiet' = quiet + 1
    BY <1>2, <2>1 DEF Tick, ChainLine
  <2> QED
    BY <1>1, <1>2, <2>1, <2>2 DEF ChainLine
<1>5. ASSUME state \in {"RESET_ACK", "KW_ENQ"} PROVE EnqLast'
  <2>1. rx' = <<>>
    BY <1>1, <1>5 DEF Waits
  <2> QED
    BY <2>1 DEF EnqLast
<1>6. /\ ResetLine' = ResetLine /\ Nothing' = Nothing
      /\ OneExchange(Whose)' = OneExchange(Whose) /\ OneExchange(Own)' = OneExchange(Own)
  BY <1>1 DEF ResetLine, Nothing, OneExchange, Asked, Answered
<1> QED
  BY <1>1, <1>3, <1>4, <1>5, <1>6 DEF OwnInv, LineInv

LEMMA StepOwn ==
  ASSUME OwnInv, TypeInv, ExchangeInv, Paced, [Next]_vars
  PROVE  OwnInv'
<1>1. CASE UNCHANGED vars
  BY <1>1 DEF vars, controller, OwnInv, LineInv, ResetLine, Nothing, EnqLast, OneExchange, Asked,
     Answered, KwLine, KwSent, KwAnswered, ChainLine, Expected
<1>2. CASE \E r \in Requests : Request(r)
  <2>1. ~busy /\ UNCHANGED <<state, since, rx, tx, mode, quiet, passed>> /\ told' = "NOTHING"
    BY <1>2 DEF Request, controller
  <2>2. state # "KW_RECEIVE"
    BY <2>1 DEF TypeInv, EngineInv, RequestInv, Detour
  <2> QED
    BY <2>1, <2>2 DEF OwnInv, LineInv, ResetLine, Nothing, EnqLast, OneExchange, Asked, Answered,
       ChainLine
<1> QED
  BY <1>1, <1>2, LoopOwn, LineOwn, TickOwn DEF Next

LEMMA InitOwn == Init => OwnInv /\ ExchangeInv
<1> SUFFICES ASSUME Init PROVE OwnInv /\ ExchangeInv
  OBVIOUS
<1>1. ResetLine
  BY NoneSent DEF Init
<1> QED
  BY <1>1 DEF Init, OwnInv, LineInv, Between, ExchangeInv, Exchange, Sends

\* The answer the engine passes on is the pending request's: never the bytes of an earlier
\* request's answer, though nothing in them says whose they are (request(), _receive(),
\* _kwReceive()), whatever is lost, garbled, ignored or added on the line.
THEOREM AnswersItsOwn == ASSUME Paced PROVE Spec => KeepsPromise
<1>1. Init => OwnInv /\ TypeInv /\ ExchangeInv /\ Promise!Init
  BY InitOwn, InitTyped DEF Init, Promise!Init
<1>2. OwnInv /\ TypeInv /\ ExchangeInv /\ [Next]_vars => OwnInv' /\ TypeInv' /\ ExchangeInv'
  BY StepOwn, StepTyped, StepDoes
<1>3. OwnInv /\ OwnInv' /\ ExchangeInv /\ [Next]_vars => [Promise!Next]_Promise!vars
  <2> SUFFICES ASSUME OwnInv, OwnInv', ExchangeInv, [Next]_vars
               PROVE  [Promise!Next]_Promise!vars
    OBVIOUS
  <2>1. [AnyAnswer!Next]_AnyAnswer!vars /\ told # "WRONGLY" /\ told' # "WRONGLY"
    BY StepDoes DEF OwnInv
  <2> QED
    BY <2>1 DEF AnyAnswer!Next, AnyAnswer!vars, AnyAnswer!Request, AnyAnswer!CallBack,
       Promise!Next, Promise!vars, Promise!Request, Promise!CallBack
<1> QED
  BY <1>1, <1>2, <1>3, PTL DEF Spec, KeepsPromise, Promise!Spec

----------------------------------------------------------------------------
(* How long a request may take.  A packet's time runs from its acceptance,   *)
(* and _reset() does not restart it; that of a KW telegram is restarted      *)
(* where the EOT is sent, and again where the telegram is.                  *)

WaitInv == busy =>
  /\ state \notin {"KW_ENQ", "KW_RECEIVE"} => waited = age
  /\ state = "KW_DROP" => age <= RequestTimeout
  /\ state = "KW_ENQ" => waited <= RequestTimeout + age
  /\ state = "KW_RECEIVE" => waited <= 2 * RequestTimeout + 1 + age

\* The three timeouts a burner control request may run into, one after the other, with a
\* unit for each at which it may be noticed.
WatchdogIsPatient == 2 * RequestTimeout + KwAnswerTimeout + 2 < HubWatchdog

\* A pass calls back, or keeps the time.
LEMMA CallBackWaits ==
  ASSUME NEW what, NEW s, NEW rest, NEW sent, CallBack(what, s, rest, sent)
  PROVE  WaitInv'
BY DEF CallBack, WaitInv

LEMMA PassWaits ==
  ASSUME NEW s, NEW count, NEW elapsed, NEW rest, NEW sent,
         Pass(s, count, elapsed, rest, sent)
  PROVE  \/ WaitInv'
         \/ /\ state' = s /\ age' = elapsed /\ UNCHANGED <<busy, waited>>
            /\ busy => elapsed <= RequestTimeout
BY CallBackWaits DEF Pass, OutOfTime, NotDue

LEMMA GoToWaits ==
  ASSUME WaitInv, state \notin {"KW_ENQ", "KW_RECEIVE"},
         NEW s, s \notin {"KW_ENQ", "KW_RECEIVE"}, NEW rest, NEW sent, GoTo(s, rest, sent)
  PROVE  WaitInv'
<1>1. CASE /\ state' = s /\ age' = age /\ UNCHANGED <<busy, waited>>
           /\ busy => age <= RequestTimeout
  BY <1>1 DEF WaitInv
<1> QED
  BY <1>1, PassWaits DEF GoTo

LEMMA StayWaits ==
  ASSUME WaitInv, NEW rest, Stay(rest)
  PROVE  WaitInv'
<1>1. CASE state' = state /\ age' = age /\ UNCHANGED <<busy, waited>>
  BY <1>1 DEF WaitInv
<1> QED
  BY <1>1, PassWaits DEF Stay

LEMMA KwStartWaits ==
  ASSUME WaitInv, TypeInv, state # "KW_RECEIVE", NEW rest, KwStart(rest)
  PROVE  WaitInv'
<1>1. RequestTimeout \in Nat /\ age \in Nat /\ age <= RequestTimeout + 1 /\ waited \in Nat
  BY Constants DEF TypeInv, EngineInv, RequestInv, Clock
<1>2. busy => waited <= 2 * RequestTimeout + 1
  BY <1>1 DEF WaitInv
<1>3. CASE state' = "KW_RECEIVE" /\ age' = 0 /\ UNCHANGED <<busy, waited>>
  BY <1>1, <1>2, <1>3 DEF WaitInv
<1> QED
  BY <1>3, PassWaits DEF KwStart

LEMMA LoopWaits ==
  ASSUME WaitInv, TypeInv, Loop
  PROVE  WaitInv'
<1> USE DEF Sends
<1>1. CASE Reset \/ Initialize \/ InitAck \/ Idle \/ SendPacket \/ ReceiveAck
  BY <1>1, GoToWaits, StayWaits DEF Reset, Initialize, InitAck, Idle, SendPacket, ReceiveAck,
     StillQuiet
<1>2. CASE ResetAck
  BY <1>2, GoToWaits, StayWaits, KwStartWaits DEF ResetAck, AnswerEnq, StillQuiet
<1>3. CASE SendAck
  BY <1>3, GoToWaits, StayWaits, CallBackWaits DEF SendAck
<1>4. CASE Receive
  BY <1>4, StayWaits, CallBackWaits DEF Receive
<1>5. CASE KwDrop
  <2>1. RequestTimeout \in Nat /\ (busy => waited <= RequestTimeout)
    BY <1>5, Constants DEF KwDrop, WaitInv
  <2>2. CASE state' = "KW_ENQ" /\ age' = 0 /\ UNCHANGED <<busy, waited>>
    BY <2>1, <2>2 DEF WaitInv
  <2> QED
    BY <1>5, <2>2, PassWaits DEF KwDrop
<1>6. CASE KwEnq
  BY <1>6, KwStartWaits, StayWaits, CallBackWaits DEF KwEnq, StillQuiet
<1>7. CASE KwReceive
  <2>1. ASSUME NEW count, NEW rest, Pass(state, count, age, rest, tx)
        PROVE  WaitInv'
    <3>1. CASE state' = state /\ age' = age /\ UNCHANGED <<busy, waited>>
      BY <3>1 DEF WaitInv
    <3> QED
      BY <2>1, <3>1, PassWaits
  <2> QED
    BY <1>7, <2>1, CallBackWaits DEF KwReceive
<1>8. CASE KwChain
  BY <1>8, GoToWaits, StayWaits, KwStartWaits DEF KwChain, AnswerEnq, StillQuiet
<1> QED
  BY <1>1, <1>2, <1>3, <1>4, <1>5, <1>6, <1>7, <1>8 DEF Loop

LEMMA StepWaits ==
  ASSUME WaitInv, TypeInv, [Next]_vars
  PROVE  WaitInv'
<1>1. CASE UNCHANGED vars
  BY <1>1 DEF vars, WaitInv
<1>2. CASE \E r \in Requests : Request(r)
  <2>1. state \notin Detour /\ age' = 0 /\ waited' = 0 /\ UNCHANGED state
    BY <1>2 DEF Request, TypeInv, EngineInv, RequestInv
  <2> QED
    BY <2>1 DEF WaitInv, Detour
<1>3. CASE Loop
  BY <1>3, LoopWaits
<1>4. CASE Hear \/ SendEnq \/ Fault \/ Noise
  BY <1>4 DEF Hear, SendEnq, Fault, Noise, EngineUnchanged, WaitInv
<1>5. CASE Tick
  <2>1. age \in Nat /\ waited \in Nat /\ RequestTimeout \in Nat
    BY Constants DEF TypeInv, EngineInv, RequestInv, Clock
  <2>2. state # "KW_DROP" /\ UNCHANGED <<state, busy>>
    BY <1>5 DEF Tick, Waits
  <2>3. busy => age' = age + 1 /\ waited' = waited + 1
    BY <1>5 DEF Tick
  <2> QED
    BY <2>1, <2>2, <2>3 DEF WaitInv
<1> QED
  BY <1>1, <1>2, <1>3, <1>4, <1>5 DEF Next

\* The hub's watchdog never gives up a request that the engine still holds, through the
\* handshake, the wait for the ENQ and the answer of a KW telegram (IN_FLIGHT_WATCHDOG_MS).
THEOREM BeforeTheWatchdog ==
  ASSUME Paced, WatchdogIsPatient
  PROVE  Spec => []EngineFirst
<1>1. Init => OwnInv /\ TypeInv /\ ExchangeInv /\ WaitInv
  BY InitOwn, InitTyped DEF Init, WaitInv
<1>2. OwnInv /\ TypeInv /\ ExchangeInv /\ [Next]_vars => OwnInv' /\ TypeInv' /\ ExchangeInv'
  BY StepOwn, StepTyped, StepDoes
<1>3. WaitInv /\ TypeInv /\ [Next]_vars => WaitInv'
  BY StepWaits
<1>4. OwnInv /\ TypeInv /\ WaitInv => EngineFirst
  <2> SUFFICES ASSUME OwnInv, TypeInv, WaitInv, busy PROVE waited < HubWatchdog
    BY DEF EngineFirst
  <2>1. /\ age \in Nat /\ age <= RequestTimeout + 1 /\ waited \in Nat /\ RequestTimeout \in Nat
        /\ KwAnswerTimeout \in Nat /\ since \in Nat /\ HubWatchdog \in Nat
    BY Constants, LongestIsNat, VS2Assumption
    DEF TypeInv, EngineInv, RequestInv, Clock, SinceTyped
  <2>2. CASE state = "KW_RECEIVE"
    <3>1. age <= KwAnswerTimeout + 1
      BY <2>1, <2>2 DEF OwnInv, LineInv, KwLine
    <3>2. waited <= 2 * RequestTimeout + 1 + age
      BY <2>2 DEF WaitInv
    <3> QED
      BY <2>1, <3>1, <3>2 DEF WatchdogIsPatient
  <2>3. CASE state # "KW_RECEIVE"
    <3>1. waited <= 2 * RequestTimeout + 1
      BY <2>1, <2>3 DEF WaitInv
    <3> QED
      BY <2>1, <3>1 DEF WatchdogIsPatient
  <2> QED
    BY <2>2, <2>3
<1> QED
  BY <1>1, <1>2, <1>3, <1>4, PTL DEF Spec

=============================================================================
