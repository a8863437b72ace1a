------------------------------ MODULE KwEngine -------------------------------
(***************************************************************************)
(* What the KW and the GWG engine have in common: the request they hold, the *)
(* bytes they collect for it, the controller and the line they face, and    *)
(* the promise to the hub.  The controller offers an ENQ when it has been    *)
(* quiet for a while, and answers a telegram at once or never.  There is no  *)
(* address, frame or checksum: a byte is what the moment it is read says.    *)
(*                                                                         *)
(* Time passes in units, as in VS2Engine: a clock that reads n stands for   *)
(* any time from n - 1 to n + 1, and the UART takes a whole write.  loop()  *)
(* may stall for some units while bytes arrive.                            *)
(***************************************************************************)
EXTENDS Integers, FiniteSetsExt, SequencesExt

CONSTANTS
  RequestTimeout,  \* REQUEST_TIMEOUT_MS
  AnswerTimeout,   \* ANSWER_TIMEOUT_MS, RESPONSE_TIMEOUT_MS
  HubWatchdog,     \* IN_FLIGHT_WATCHDOG_MS of the hub
  EnqMin, EnqMax,  \* the controller is quiet this long before an ENQ
  MaxFaults,       \* bound: bytes lost or garbled
  MaxStall         \* bound: units in a row in which loop() leaves something to do

ASSUME KwAssumption ==
  /\ {RequestTimeout, AnswerTimeout, HubWatchdog, EnqMin, EnqMax, MaxFaults, MaxStall} \subseteq Nat
  /\ EnqMin <= EnqMax

VARIABLES
  state,      \* _state
  since,      \* units since _lastMillis
  age,        \* units since _requestTime, while a request is pending
  busy,       \* _busy
  request,    \* the pending request
  answer,     \* what _responseBuffer holds of its answer
  rx,         \* bytes received and not yet read
  \* The controller.
  tx,         \* what it was sent and has not acted on
  mode,       \* the protocol it speaks
  quiet,      \* units since it last spoke
  \* History and bounds.
  told,       \* what the last callback said
  waited,     \* units since the request was accepted
  prompt,     \* the controller had just spoken when each telegram of the request went
              \* out, all it said had been read, and it owed no answer
  passed,     \* loop() has run in this unit
  stall, faults

controller == <<tx, mode, quiet>>
history == <<told, waited, prompt>>
kwVars == <<state, since, age, busy, request, answer, rx, controller, history,
            passed, stall, faults>>

Whose == {"PENDING", "EARLIER", "NONE"}
Bytes == [kind : {"ENQ", "DATA", "FF"}, whose : Whose]
Commands == [kind : {"EOT", "TELEGRAM"}, whose : Whose, size : Nat]

Due(elapsed, timeout) == elapsed >= timeout
NotDue(elapsed, timeout) == elapsed <= timeout

\* Payload may look like an ENQ.
ReadsEnq == rx # <<>>
ReadsOther == rx # <<>> /\ Head(rx).kind # "ENQ"

KwTypeOK(longest, states, requests) ==
  /\ state \in states /\ since \in 0..longest + 1
  /\ age \in 0..RequestTimeout + MaxStall + 1
  /\ busy \in BOOLEAN /\ request \in requests \cup {"NONE"}
  /\ answer \in Seq(Bytes) /\ rx \in Seq(Bytes) /\ tx \in Seq(Commands)
  /\ mode \in {"KW", "P300"} /\ quiet \in 0..EnqMax
  /\ told \in {"NOTHING", "ANSWERED", "ERROR", "WRONGLY"}
  /\ waited \in Nat /\ prompt \in BOOLEAN /\ passed \in BOOLEAN
  /\ stall \in 0..MaxStall /\ faults \in 0..MaxFaults

KwInit ==
  /\ state = "INIT" /\ since = 0 /\ age = 0 /\ busy = FALSE /\ request = "NONE"
  /\ answer = <<>> /\ rx = <<>> /\ tx = <<>> /\ quiet \in 0..EnqMax
  /\ told = "NOTHING" /\ waited = 0 /\ prompt = TRUE
  /\ passed = FALSE /\ stall = 0 /\ faults = 0

\* read(), write(), gfaRead() or telegram() with a packet that can be built.
KwRequest(r) ==
  /\ ~busy
  /\ busy' = TRUE /\ request' = r /\ age' = 0
  /\ told' = "NOTHING" /\ waited' = 0 /\ prompt' = TRUE
  /\ UNCHANGED <<state, since, answer, rx, controller, passed, stall, faults>>

----------------------------------------------------------------------------
(* A pass of loop().                                                       *)

Touched == since' = 0
Untouched == UNCHANGED since

\* Whatever is under way when a callback is made answers nothing pending any more.
Earlier(x) == IF x.whose = "PENDING" THEN [x EXCEPT !.whose = "EARLIER"] ELSE x
AllEarlier(q) == [i \in DOMAIN q |-> Earlier(q[i])]

\* _tryOnResponse() or _tryOnError(), on the way to state s.
CallBackStaysBusy(what, s, rest, sent) ==
  /\ state' = s /\ answer' = <<>>
  /\ rx' = AllEarlier(rest) /\ tx' = AllEarlier(sent)
  /\ told' = what /\ UNCHANGED <<busy, request, age, waited, prompt>>
CallBack(what, s, rest, sent) ==
  /\ state' = s /\ answer' = <<>>
  /\ busy' = FALSE /\ request' = "NONE" /\ age' = 0
  /\ rx' = AllEarlier(rest) /\ tx' = AllEarlier(sent)
  /\ told' = what /\ waited' = 0 /\ UNCHANGED prompt

\* A pass that leaves state s with a request "elapsed" old, "bytes" of its answer and
\* "rest" unread; the end of loop() fails a request that is out of time.
Pass(s, elapsed, bytes, rest, sent) ==
  \/ /\ busy => NotDue(elapsed, RequestTimeout)
     /\ state' = s /\ age' = elapsed /\ answer' = bytes /\ rx' = rest /\ tx' = sent
     /\ UNCHANGED <<busy, request, told, waited>>
  \/ /\ busy /\ Due(elapsed, RequestTimeout)
     /\ CallBack("ERROR", "INIT", rest, sent)

\* The telegram of the request, which is answered by "size" bytes.
Telegram(size) == Append(tx, [kind |-> "TELEGRAM", whose |-> "PENDING", size |-> size])
Sends(rest) == prompt' = (prompt /\ quiet <= 1 /\ rest = <<>> /\ tx = <<>>)
SendsNothing == UNCHANGED prompt

\* With neither address nor checksum the answer is whatever bytes came.
Judged(q) == IF \E b \in Range(q) : b.whose # "PENDING" \/ b.kind = "ENQ"
             THEN "WRONGLY" ELSE "ANSWERED"

----------------------------------------------------------------------------
(* The controller and the line.                                            *)

EngineUnchanged == UNCHANGED <<state, since, age, busy, request, answer, history, passed, stall>>

\* It answers a telegram byte by byte, with bytes of these kinds, or stops, or never begins.
AnswerByte(c, kinds) ==
  /\ \E kind \in kinds : rx' = Append(rx, [kind |-> kind, whose |-> c.whose])
  /\ tx' = IF c.size = 1 THEN Tail(tx) ELSE [tx EXCEPT ![1].size = c.size - 1]
  /\ quiet' = 0 /\ UNCHANGED mode
LeaveP300 == mode' = "KW" /\ quiet' \in 0..EnqMax /\ tx' = Tail(tx) /\ UNCHANGED rx
Ignore == tx' = Tail(tx) /\ UNCHANGED <<rx, mode, quiet>>
Hear(kinds) ==
  /\ tx # <<>>
  /\ LET c == Head(tx)
     IN IF c.kind = "EOT" THEN (IF mode = "P300" THEN LeaveP300 ELSE Ignore)
                          ELSE Ignore \/ (mode = "KW" /\ AnswerByte(c, kinds))
  /\ EngineUnchanged /\ UNCHANGED faults

SendEnq ==
  /\ mode = "KW" /\ tx = <<>> /\ quiet >= EnqMin
  /\ rx' = Append(rx, [kind |-> "ENQ", whose |-> "NONE"]) /\ quiet' = 0
  /\ UNCHANGED <<tx, mode, faults>> /\ EngineUnchanged

\* A byte or an EOT is lost, or an ENQ garbled: of any other byte nothing tells that it was.
Fault ==
  /\ faults < MaxFaults /\ faults' = faults + 1
  /\ \/ \E i \in DOMAIN rx : rx' = RemoveAt(rx, i) /\ UNCHANGED tx
     \/ \E i \in DOMAIN rx :
          rx[i].kind = "ENQ" /\ rx' = [rx EXCEPT ![i].kind = "DATA"] /\ UNCHANGED tx
     \/ tx # <<>> /\ tx' = Tail(tx) /\ UNCHANGED rx
  /\ EngineUnchanged /\ UNCHANGED <<mode, quiet>>

\* Within a unit loop() reads what has arrived, unless it stalls; the controller acts
\* on what it hears.
Tick(idle, longest) ==
  /\ tx = <<>> /\ (mode = "KW" => quiet < EnqMax)
  /\ \/ passed /\ idle /\ stall' = 0
     \/ stall < MaxStall /\ stall' = stall + 1
  /\ passed' = FALSE
  /\ since' = IF since <= longest THEN since + 1 ELSE since
  /\ age' = (IF busy THEN age + 1 ELSE age) /\ waited' = (IF busy THEN waited + 1 ELSE waited)
  /\ quiet' = (IF mode = "KW" THEN quiet + 1 ELSE quiet)
  /\ UNCHANGED <<state, busy, request, answer, rx, tx, mode, told, prompt, faults>>

----------------------------------------------------------------------------
(* Properties.                                                             *)

AnyAnswer == INSTANCE EnginePromise WITH told <- IF told = "WRONGLY" THEN "ANSWERED" ELSE told

\* The engine accepts one request at a time and calls back once for each, on every
\* path through its timeouts; whose the answer is, is OwnAnswer's.
OneCallBack == AnyAnswer!Spec

\* A request whose telegrams went out when the controller had just spoken, with all it
\* said read, is answered by its own bytes or by none: never by the ENQ that follows
\* when the controller ignores it, though loop() may stall before it reads.
OwnAnswer == told = "WRONGLY" => ~prompt
=============================================================================
