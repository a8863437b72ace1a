------------------------------ MODULE VS2Engine ------------------------------
(***************************************************************************)
(* The P300 engine (vs2.cpp, parser_vs2.cpp): the handshake that brings the *)
(* link up, the exchange of a request, the detour over KW that a burner     *)
(* control read takes, and the timeouts of each.  It faces a controller     *)
(* that may ignore it or take its time over a packet, and a line that may   *)
(* lose, garble or add bytes.                                              *)
(*                                                                         *)
(* Time passes in units; every constant of the code that is no shorter is a *)
(* whole number of them.  A clock that reads n may stand for any time from  *)
(* n - 1 to n + 1, so a comparison goes either way around the unit in which *)
(* it falls due.  The UART takes a whole write, so a state that only writes *)
(* lasts one pass of loop(), and KW_SEND none.                             *)
(***************************************************************************)
EXTENDS Integers, FiniteSetsExt, SequencesExt

CONSTANTS
  RequestTimeout,    \* REQUEST_TIMEOUT_MS
  HandshakeRetry,    \* HANDSHAKE_RETRY_MS
  KeepAlive,         \* KEEPALIVE_INTERVAL_MS
  KwEnqTimeout,      \* KW_ENQ_TIMEOUT_MS
  KwAnswerTimeout,   \* KW_ANSWER_TIMEOUT_MS
  KwLength,          \* the _currentLength of a KW read
  HubWatchdog,       \* IN_FLIGHT_WATCHDOG_MS of the hub
  EnqPeriod,         \* the controller on KW offers its ENQ this often
  KwLookalikes,      \* payload may look like an ENQ to a KW telegram that waits for one
  MaxFaults,         \* bound: bytes lost or garbled, commands ignored, falls back to KW
  MaxNoise,          \* bound: bytes nobody sent
  MaxBacklog         \* bound: commands a slow controller has not acted on

ASSUME VS2Assumption ==
  /\ {RequestTimeout, HandshakeRetry, KeepAlive, KwEnqTimeout, KwAnswerTimeout,
      HubWatchdog, EnqPeriod, MaxFaults, MaxNoise, MaxBacklog} \subseteq Nat
  /\ KwLength \in Nat \ {0} /\ KwLookalikes \in BOOLEAN

VARIABLES
  state,      \* _state
  since,      \* units since _lastMillis
  age,        \* units since _requestTime, while a request is pending
  parser,     \* where _parser is: before a frame, in one, or in a torn one
  collected,  \* the first _bytesTransferred bytes of _kwAnswer
  busy,       \* _busy
  request,    \* the pending request, a packet or a KW telegram
  rx,         \* bytes received and not yet read
  \* The controller.
  tx,         \* what it was sent and has not acted on
  mode,       \* the protocol it speaks
  quiet,      \* units since it last spoke KW
  \* History and bounds.
  told,       \* what the last callback said
  waited,     \* units since the request was accepted
  passed,     \* loop() has run in this unit
  faults, noises

controller == <<tx, mode, quiet>>
bounds == <<faults, noises>>
vars == <<state, since, age, parser, collected, busy, request, rx, controller, told,
          waited, passed, bounds>>

Sends == {"SENDSTART", "SENDPACKET", "SEND_CRC"}
States == Sends \cup {"RESET", "RESET_ACK", "INIT", "INIT_ACK", "IDLE", "SEND_ACK",
                      "RECEIVE", "RECEIVE_ACK", "KW_DROP", "KW_ENQ", "KW_RECEIVE", "KW_CHAIN"}
Requests == {"P300", "KW_READ", "KW_WRITE"}
Kw == request # "P300"

\* A byte, or all of a frame after its first byte: RESPONSE answers the request, OTHER
\* is an error frame or one of another function code, BAD fails its checksum.  "whose"
\* says whether it answers the pending request, an earlier one, or none.
Kinds == {"ENQ", "ACK", "NACK", "HEAD", "RESPONSE", "OTHER", "BAD", "REST", "DATA",
          "REFUSAL", "NOISE"}
Whose == {"PENDING", "EARLIER", "NONE"}
Bytes == [kind : Kinds, whose : Whose]
Byte(k) == [kind |-> k, whose |-> "NONE"]

\* What the controller is sent; a telegram may have an ENQ_ACK in front.
Commands == [kind : {"EOT", "SYNC", "PACKET", "KW_READ", "KW_WRITE"}, whose : Whose]

\* Payload may have any value, that of a control byte too.
Frames == {"RESPONSE", "OTHER", "BAD"}
Payload(b) == b.kind \in Frames \cup {"DATA", "REFUSAL"}
MayBe(b, k) == b.kind = k \/ Payload(b)
\* What is unread once the first of q has been taken for a control byte: the rest of a frame too.
After(q) == IF Head(q).kind \in Frames THEN <<[Head(q) EXCEPT !.kind = "REST"]>> \o Tail(q)
            ELSE Tail(q)

\* since stops where it is past every timeout.
Longest == Max({RequestTimeout, HandshakeRetry, KeepAlive, KwEnqTimeout, KwAnswerTimeout})

TypeOK ==
  /\ state \in States /\ since \in 0..Longest + 1 /\ age \in 0..RequestTimeout + 1
  /\ waited \in Nat /\ passed \in BOOLEAN
  /\ parser \in {"START", "INSIDE", "TORN"}
  /\ busy \in BOOLEAN /\ request \in Requests \cup {"NONE"}
  /\ collected \in Seq(Bytes) /\ rx \in Seq(Bytes) /\ tx \in Seq(Commands)
  /\ mode \in {"KW", "P300"} /\ quiet \in 0..EnqPeriod
  /\ told \in {"NOTHING", "ANSWERED", "ERROR", "WRONGLY"}
  /\ faults \in 0..MaxFaults /\ noises \in 0..MaxNoise

Init ==
  /\ state = "RESET" /\ since = 0 /\ age = 0 /\ parser = "START" /\ collected = <<>>
  /\ busy = FALSE /\ request = "NONE"
  /\ rx = <<>> /\ tx = <<>> /\ mode \in {"KW", "P300"} /\ quiet \in 0..EnqPeriod
  /\ told = "NOTHING" /\ waited = 0 /\ passed = FALSE /\ faults = 0 /\ noises = 0

\* request() and kwTelegram() refuse while a request is pending.
Request(r) ==
  /\ ~busy
  /\ busy' = TRUE /\ request' = r /\ age' = 0
  /\ told' = "NOTHING" /\ waited' = 0
  /\ UNCHANGED <<state, since, parser, collected, rx, controller, passed, bounds>>

----------------------------------------------------------------------------
(* A pass of loop().                                                       *)

Due(elapsed, timeout) == elapsed >= timeout
NotDue(elapsed, timeout) == elapsed <= timeout

\* _setState(): every state that counts bytes starts at 0.
CountAfterKept(s) == collected
CountAfter(s) == <<>>

\* Whatever is under way when a callback is made answers nothing pending any more.
Earlier(x) == IF x.whose = "PENDING" THEN [x EXCEPT !.whose = "EARLIER"] ELSE x
AllEarlier(q) == [i \in DOMAIN q |-> Earlier(q[i])]

\* _tryOnResponse(), _tryOnError() or the KW answer's callback, on the way to state s.
CallBack(what, s, rest, sent) ==
  /\ state' = s /\ collected' = CountAfter(s)
  /\ busy' = FALSE /\ request' = "NONE" /\ age' = 0
  /\ rx' = AllEarlier(rest) /\ tx' = AllEarlier(sent)
  /\ told' = what /\ waited' = 0

\* The end of loop(): a request that is out of time fails, and the link starts anew.
OutOfTimeToIdle(rest, sent) == CallBack("ERROR", "IDLE", rest, sent)
OutOfTime(rest, sent) == CallBack("ERROR", "RESET", rest, sent)

\* A pass that leaves state s, with the bytes "rest" unread and the commands "sent"
\* not acted on, _requestTime "elapsed" ago.
Pass(s, count, elapsed, rest, sent) ==
  \/ /\ busy => NotDue(elapsed, RequestTimeout)
     /\ state' = s /\ collected' = count /\ age' = elapsed /\ rx' = rest /\ tx' = sent
     /\ UNCHANGED <<busy, request, told, waited>>
  \/ busy /\ Due(elapsed, RequestTimeout) /\ OutOfTime(rest, sent)
GoTo(s, rest, sent) == Pass(s, CountAfter(s), age, rest, sent)
Stay(rest) == Pass(state, collected, age, rest, tx)

Send(k) == Append(tx, [kind |-> k, whose |-> IF busy THEN "PENDING" ELSE "NONE"])
Touched == since' = 0
Untouched == UNCHANGED since

\* _reset() and _kwDrop(): what has arrived is dropped, and an EOT leaves P300.
ParserKept == UNCHANGED parser
ParserReset == parser' = "START"
\* The EOT restarts the request's time, as _kwDrop()'s does.
ResetRestarts ==
  /\ state = "RESET" /\ ParserReset /\ Touched
  /\ Pass("RESET_ACK", CountAfter("RESET_ACK"), 0, <<>>, Send("EOT"))
Reset ==
  /\ state = "RESET" /\ ParserReset /\ Touched
  /\ GoTo("RESET_ACK", <<>>, Send("EOT"))
KwDrop ==
  /\ state = "KW_DROP" /\ ParserReset /\ Touched
  /\ Pass("KW_ENQ", CountAfter("KW_ENQ"), 0, <<>>, Send("EOT"))

\* _kwStart() and _kwSend(): the request's time starts again with its telegram.
KwStart(rest) ==
  /\ Touched
  /\ Pass("KW_RECEIVE", CountAfter("KW_RECEIVE"), 0, rest, Send(request))

Opens == Head(rx).kind = "ENQ" \/ KwLookalikes

\* The ENQ that _resetAck() and _kwChain() answer with a waiting KW telegram, or a SYNC.
AnswerEnq ==
  \/ busy /\ Kw /\ Opens /\ KwStart(After(rx))
  \/ ~(busy /\ Kw) /\ Touched /\ GoTo("INIT", After(rx), tx)

Quiet(timeout) == rx = <<>> /\ Due(since, timeout)
StillQuiet(timeout) == rx = <<>> /\ NotDue(since, timeout) /\ Untouched /\ Stay(rx)
Reads(k) == rx # <<>> /\ MayBe(Head(rx), k)
ReadsElse(ks) == rx # <<>> /\ Head(rx).kind \notin ks

ResetAck ==
  /\ state = "RESET_ACK" /\ UNCHANGED parser
  /\ \/ Reads("ENQ") /\ AnswerEnq
     \/ ReadsElse({"ENQ"}) /\ Untouched /\ Stay(Tail(rx))
     \/ Quiet(HandshakeRetry) /\ Untouched /\ GoTo("RESET", rx, tx)
     \/ StillQuiet(HandshakeRetry)

Initialize ==
  /\ state = "INIT" /\ UNCHANGED parser /\ Touched
  /\ GoTo("INIT_ACK", rx, Send("SYNC"))

\* No retry while waiting for the ACK of a SYNC.
InitAckForever ==
  /\ state = "INIT_ACK" /\ UNCHANGED parser /\ Untouched
  /\ \/ Reads("ACK") /\ GoTo("IDLE", After(rx), tx)
     \/ ReadsElse({"ACK"}) /\ GoTo("RESET", Tail(rx), tx)
     \/ rx = <<>> /\ Stay(rx)

InitAck ==
  /\ state = "INIT_ACK" /\ UNCHANGED parser /\ Untouched
  /\ \/ Reads("ACK") /\ GoTo("IDLE", After(rx), tx)
     \/ ReadsElse({"ACK"}) /\ GoTo("RESET", Tail(rx), tx)
     \/ Quiet(HandshakeRetry) /\ GoTo("RESET", rx, tx)
     \/ StillQuiet(HandshakeRetry)

\* The keep-alive also goes before a request that comes when it is due.
Idle ==
  /\ state = "IDLE" /\ UNCHANGED parser /\ Untouched
  /\ \/ busy /\ Kw /\ GoTo("KW_DROP", rx, tx)
     \/ ~(busy /\ Kw) /\ Due(since, KeepAlive) /\ GoTo("INIT", rx, tx)
     \/ /\ ~(busy /\ Kw) /\ NotDue(since, KeepAlive)
        /\ IF busy THEN GoTo("SENDSTART", rx, tx) ELSE Stay(rx)

SendPacket ==
  /\ state \in Sends /\ UNCHANGED parser /\ Touched
  /\ CASE state = "SENDSTART" -> GoTo("SENDPACKET", rx, tx)
       [] state = "SENDPACKET" -> GoTo("SEND_CRC", rx, tx)
       [] state = "SEND_CRC" -> GoTo("SEND_ACK", rx, Send("PACKET"))

SendAck ==
  /\ state = "SEND_ACK" /\ UNCHANGED parser /\ Untouched
  /\ \/ Reads("ACK") /\ GoTo("RECEIVE", After(rx), tx)
     \/ Reads("NACK") /\ CallBack("ERROR", "IDLE", After(rx), tx)
     \/ ReadsElse({"ACK", "NACK"}) /\ Stay(Tail(rx))
     \/ rx = <<>> /\ Stay(rx)

\* Whether an answer of these bytes is the request's, as far as the line lets the
\* engine know: noise in a KW answer shows nowhere, there is no checksum.
Judged(q) == IF \E b \in Range(q) : b.whose = "EARLIER" \/ b.kind = "ENQ"
             THEN "WRONGLY" ELSE "ANSWERED"

\* ParserVS2::parse(): a frame whose bytes were lost, garbled or added to ends in an
\* error when the parser notices; payload outside of a frame may look like the start of one.
Receive ==
  /\ state = "RECEIVE"
  /\ \/ rx = <<>> /\ UNCHANGED <<since, parser>> /\ Stay(rx)
     \/ /\ rx # <<>> /\ Touched
        /\ LET b == Head(rx)  rest == Tail(rx)
               whole == parser = "INSIDE" /\ b.kind \in Frames
           IN \/ /\ parser = "START" /\ parser' = (IF b.kind = "HEAD" THEN "INSIDE" ELSE "START")
                 /\ Stay(rest)
              \/ parser = "START" /\ Payload(b) /\ parser' = "TORN" /\ Stay(rest)
              \/ /\ whole /\ b.kind = "RESPONSE" /\ parser' = "START"
                 /\ CallBack(Judged(<<b>>), "RECEIVE_ACK", rest, tx)
              \/ /\ whole /\ b.kind = "OTHER" /\ parser' = "START"
                 /\ CallBack("ERROR", "RECEIVE_ACK", rest, tx)
              \/ /\ whole /\ b.kind = "BAD" /\ parser' = "START"
                 /\ CallBack("ERROR", "RESET", rest, tx)
              \/ parser # "START" /\ ~whole /\ parser' = "TORN" /\ Stay(rest)
              \/ /\ parser # "START" /\ ~whole /\ parser' = "START"
                 /\ CallBack("ERROR", "RESET", rest, tx)

\* The ACK of a frame; the controller does nothing on it.
ReceiveAck == state = "RECEIVE_ACK" /\ UNCHANGED parser /\ Touched /\ GoTo("IDLE", rx, tx)

KwEnq ==
  /\ state = "KW_ENQ" /\ UNCHANGED parser
  /\ \/ Reads("ENQ") /\ Opens /\ KwStart(After(rx))
     \/ ReadsElse({"ENQ"}) /\ Untouched /\ Stay(Tail(rx))
     \/ Quiet(KwEnqTimeout) /\ Untouched /\ CallBack("ERROR", "RESET", rx, tx)
     \/ StillQuiet(KwEnqTimeout)

\* The answer's timeout goes before what has arrived, which may be an ENQ.
Expected == IF request = "KW_WRITE" THEN 1 ELSE KwLength
KwReceive ==
  /\ state = "KW_RECEIVE" /\ UNCHANGED parser
  /\ \/ Due(since, KwAnswerTimeout) /\ Untouched /\ CallBack("ERROR", "RESET", rx, tx)
     \/ /\ NotDue(since, KwAnswerTimeout)
        /\ LET n == IF Len(rx) < Expected - Len(collected)
                    THEN Len(rx) ELSE Expected - Len(collected)
               answer == collected \o SubSeq(rx, 1, n)
               rest == SubSeq(rx, n + 1, Len(rx))
               acknowledges == request = "KW_WRITE" /\ Len(answer) = 1
           IN /\ IF n > 0 THEN Touched ELSE Untouched
              /\ \/ Len(answer) < Expected /\ Pass(state, answer, age, rest, tx)
                 \/ /\ acknowledges /\ answer[1].kind # "DATA"
                    /\ CallBack("ERROR", "RESET", rest, tx)
                 \/ /\ Len(answer) = Expected
                    /\ acknowledges => answer[1].kind \in {"DATA", "NOISE"}
                    /\ CallBack(Judged(answer), "KW_CHAIN", rest, tx)

\* The pause before a burner-control read and the linger are each less than a unit.
Linger == 1
KwChain ==
  /\ state = "KW_CHAIN" /\ UNCHANGED parser
  /\ \/ Reads("ENQ") /\ AnswerEnq
     \/ ReadsElse({"ENQ"}) /\ Untouched /\ GoTo("RESET", Tail(rx), tx)
     \/ rx = <<>> /\ busy /\ Kw /\ KwStart(rx)
     \/ rx = <<>> /\ ~(busy /\ Kw) /\ Untouched /\ GoTo("RESET", rx, tx)
     \/ (busy => request = "KW_READ") /\ StillQuiet(Linger)

Loop ==
  /\ \/ Reset \/ ResetAck \/ Initialize \/ InitAck \/ Idle \/ SendPacket \/ SendAck
     \/ Receive \/ ReceiveAck \/ KwDrop \/ KwEnq \/ KwReceive \/ KwChain
  /\ passed' = TRUE /\ UNCHANGED <<mode, quiet, bounds>>

----------------------------------------------------------------------------
(* The controller and the line.                                            *)

Answers(q) == rx' = rx \o q
Speaks(m, q) == mode' = m /\ quiet' = q

\* The controller acts on what it was sent, or ignores what its protocol does not have.
HearEot(c) ==
  /\ c.kind = "EOT"
  /\ \/ mode = "KW" /\ UNCHANGED <<mode, quiet, rx>>
     \/ /\ mode = "P300" /\ \E q \in 0..EnqPeriod : Speaks("KW", q)
        /\ Answers(<<>>) \/ Answers(<<Byte("ACK")>>)
HearSync(c) == c.kind = "SYNC" /\ Speaks("P300", quiet) /\ Answers(<<Byte("ACK")>>)
HearPacket(c) ==
  /\ c.kind = "PACKET" /\ UNCHANGED <<mode, quiet>>
  /\ IF mode = "P300"
     THEN \/ Answers(<<Byte("NACK")>>)
          \/ \E k \in {"RESPONSE", "OTHER"} :
               Answers(<<Byte("ACK"), Byte("HEAD"), [kind |-> k, whose |-> c.whose]>>)
     ELSE Answers(<<>>)
HearTelegram(c) ==
  /\ c.kind \in {"KW_READ", "KW_WRITE"}
  /\ IF mode = "KW"
     THEN /\ Speaks("KW", 0)
          /\ LET data == [kind |-> "DATA", whose |-> c.whose]
             IN \/ c.kind = "KW_READ" /\ Answers([i \in 1..KwLength |-> data])
                \/ c.kind = "KW_WRITE" /\ Answers(<<data>>)
                \/ c.kind = "KW_WRITE" /\ Answers(<<[data EXCEPT !.kind = "REFUSAL"]>>)
     ELSE UNCHANGED <<mode, quiet>> /\ Answers(<<>>)

EngineUnchanged ==
  UNCHANGED <<state, since, age, parser, collected, busy, request, told, waited, passed>>

Hear ==
  /\ tx # <<>> /\ tx' = Tail(tx)
  /\ LET c == Head(tx) IN HearEot(c) \/ HearSync(c) \/ HearPacket(c) \/ HearTelegram(c)
  /\ EngineUnchanged /\ UNCHANGED bounds

SendEnq ==
  /\ mode = "KW" /\ quiet = EnqPeriod /\ tx = <<>> /\ Speaks("KW", 0) /\ Answers(<<Byte("ENQ")>>)
  /\ UNCHANGED <<tx, bounds>> /\ EngineUnchanged

Fault ==
  /\ faults < MaxFaults /\ faults' = faults + 1 /\ UNCHANGED noises /\ EngineUnchanged
  /\ \/ \E i \in DOMAIN rx : rx' = RemoveAt(rx, i) /\ UNCHANGED controller
     \/ \E i \in DOMAIN rx :
          /\ rx' = [rx EXCEPT ![i].kind = IF @ \in {"RESPONSE", "OTHER"} THEN "BAD" ELSE "NOISE"]
          /\ UNCHANGED controller
     \/ tx # <<>> /\ tx' = Tail(tx) /\ UNCHANGED <<rx, mode, quiet>>
     \/ mode = "P300" /\ mode' = "KW" /\ UNCHANGED <<rx, tx, quiet>>

\* Not on KW: with no checksum, nothing there tells noise from an answer.
Noise ==
  /\ mode = "P300"
  /\ noises < MaxNoise /\ noises' = noises + 1 /\ UNCHANGED faults /\ EngineUnchanged
  /\ Answers(<<Byte("NOISE")>>) /\ UNCHANGED controller

\* Within a unit loop() reads what has arrived, goes through the states that only
\* write, and looks at the clock; the controller acts on what it hears, but may take its
\* time over a packet.
Waits ==
  \/ state = "IDLE" /\ ~busy
  \/ state \in {"RESET_ACK", "INIT_ACK", "SEND_ACK", "RECEIVE", "KW_ENQ", "KW_RECEIVE"} /\ rx = <<>>
  \/ state = "KW_CHAIN" /\ rx = <<>> /\ (busy => request = "KW_READ")
Ponders == tx # <<>> /\ Head(tx).kind = "PACKET" /\ mode = "P300" /\ Len(tx) < MaxBacklog

Tick ==
  /\ passed /\ passed' = FALSE /\ Waits
  /\ tx = <<>> \/ Ponders
  /\ mode = "KW" => quiet < EnqPeriod
  /\ since' = IF since <= Longest THEN since + 1 ELSE since
  /\ age' = IF busy THEN age + 1 ELSE age
  /\ waited' = IF busy THEN waited + 1 ELSE waited
  /\ quiet' = IF mode = "KW" THEN quiet + 1 ELSE quiet
  /\ UNCHANGED <<state, parser, collected, busy, request, rx, tx, mode, told, bounds>>

Next ==
  \/ \E r \in Requests : Request(r)
  \/ Loop \/ Hear \/ SendEnq \/ Fault \/ Noise \/ Tick

Spec == Init /\ [][Next]_vars
\* loop() runs for ever, time passes, and the controller acts on what reaches it.
FairSpec == Spec /\ WF_vars(Loop) /\ WF_vars(Tick) /\ WF_vars(Hear) /\ WF_vars(SendEnq)

----------------------------------------------------------------------------
(* Properties.                                                             *)

Promise == INSTANCE EnginePromise

\* Every accepted request gets one callback, and an answer is the request's: never
\* bytes of the answer to a request that timed out, of a torn frame, or an ENQ.
KeepsPromise == Promise!Spec

\* The part of the promise that does not say whose the answer is.
AnyAnswer == INSTANCE EnginePromise WITH told <- IF told = "WRONGLY" THEN "ANSWERED" ELSE told
OneCallBack == AnyAnswer!Spec

\* The engine calls back before the hub's watchdog gives the request up, through the
\* handshake, the wait for the ENQ and the answer of a KW detour.
EngineFirst == busy => waited < HubWatchdog

\* The first byte of a packet's answer meets a parser that is between frames.
ParserFresh == state \in Sends \cup {"SEND_ACK"} => parser = "START"

\* _bytesTransferred counts the bytes of one KW answer: a session that breaks off leaves
\* nothing to the telegram, the SYNC or the packet that is written next.
NothingLeftOver == state # "KW_RECEIVE" => collected = <<>>

\* No exchange starts in the middle of the one before it, however that one ended.
StartsClean == ParserFresh /\ NothingLeftOver

\* The link comes up again whatever the line did: after each loss, refusal or fall back
\* of the controller to KW the engine gets to a state in which it can serve requests.
LinkRecovers == []<>(state \in {"IDLE", "KW_RECEIVE"})


=============================================================================
