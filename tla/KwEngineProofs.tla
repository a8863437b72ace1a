--------------------------- MODULE KwEngineProofs ---------------------------
(***************************************************************************)
(* What the proofs about the KW and the GWG engine share: how a pass of      *)
(* loop() ends, how long a request can wait, and whose bytes are on the line *)
(* while the answer of a prompt request is awaited.                        *)
(***************************************************************************)
EXTENDS KwEngine, SequenceTheorems, TLAPS

\* What a step may do to the promise.
Keeps == busy' = busy /\ told' = told
Ends == busy /\ busy' = FALSE /\ told' \in {"ANSWERED", "ERROR", "WRONGLY"}

LEMMA CallBackTo ==
  ASSUME NEW what \in {"ANSWERED", "ERROR", "WRONGLY"}, NEW s, NEW rest, NEW sent,
         busy, CallBack(what, s, rest, sent)
  PROVE  Ends /\ state' = s
BY DEF CallBack, Ends

LEMMA PassTo ==
  ASSUME NEW s, NEW elapsed, NEW bytes, NEW rest, NEW sent,
         Pass(s, elapsed, bytes, rest, sent)
  PROVE  (Keeps /\ state' = s) \/ (Ends /\ state' = "INIT")
BY CallBackTo DEF Pass, Keeps

LEMMA PassLeaves ==
  ASSUME NEW s, NEW elapsed, NEW bytes, NEW rest, NEW sent,
         Pass(s, elapsed, bytes, rest, sent)
  PROVE  \/ state' = s /\ answer' = bytes /\ rx' = rest /\ tx' = sent /\ told' = told
            /\ busy' = busy /\ request' = request
         \/ state' = "INIT" /\ answer' = <<>> /\ told' = "ERROR" /\ ~busy'
            /\ rx' = AllEarlier(rest) /\ tx' = AllEarlier(sent) /\ request' = "NONE"
BY DEF Pass, CallBack

LEMMA JudgedTo ==
  ASSUME NEW q
  PROVE  Judged(q) \in {"ANSWERED", "ERROR", "WRONGLY"}
BY DEF Judged

----------------------------------------------------------------------------
(* The clocks.                                                             *)

\* loop() fails a request that is out of time in the next pass it makes, which a
\* stall may delay.
ClocksInv ==
  /\ since \in Nat /\ age \in Nat /\ waited \in Nat /\ quiet \in Nat
  /\ passed \in BOOLEAN /\ stall \in 0..MaxStall
  /\ busy => age <= IF passed THEN RequestTimeout ELSE RequestTimeout + stall + 1
  /\ ~busy => age = 0

\* The longest a request can be pending without a new start of its clock.
Patience == RequestTimeout + MaxStall + 1

LEMMA Bounds ==
  /\ RequestTimeout \in Nat /\ AnswerTimeout \in Nat /\ EnqMin \in Nat /\ EnqMax \in Nat
  /\ MaxStall \in Nat
BY KwAssumption

LEMMA ClocksStart == KwInit => ClocksInv
<1> SUFFICES ASSUME KwInit PROVE ClocksInv
  OBVIOUS
<1>1. ~busy /\ passed \in BOOLEAN
  BY Zenon DEF KwInit
<1>2. since = 0 /\ age = 0 /\ waited = 0 /\ stall = 0 /\ quiet \in 0..EnqMax
  BY Zenon DEF KwInit
<1> QED
  BY <1>1, <1>2, Bounds DEF ClocksInv

LEMMA AgeIsBounded ==
  ASSUME ClocksInv, busy
  PROVE  age <= Patience
BY Bounds DEF ClocksInv, Patience

LEMMA RequestClocks ==
  ASSUME ClocksInv, NEW r, KwRequest(r)
  PROVE  ClocksInv' /\ waited' = 0 /\ age' = 0
BY Bounds DEF ClocksInv, KwRequest, controller

\* Such a request is failed before the hub's watchdog runs out, if a stall is no
\* longer than the difference of the two.
WatchdogIsPatient == Patience < HubWatchdog

\* A pass leaves a request that is not out of time, or none.
PassedInTime ==
  /\ age' \in Nat /\ waited' \in Nat
  /\ busy' => busy /\ age' <= RequestTimeout /\ waited' = waited
  /\ ~busy' => age' = 0

LEMMA PassInTime ==
  ASSUME NEW s, NEW elapsed \in Nat, NEW bytes, NEW rest, NEW sent, ClocksInv,
         ~busy => elapsed = 0, Pass(s, elapsed, bytes, rest, sent)
  PROVE  PassedInTime /\ (busy' => age' = elapsed /\ request' = request)
BY DEF Pass, CallBack, NotDue, PassedInTime, ClocksInv

LEMMA CallBackInTime ==
  ASSUME NEW what, NEW s, NEW rest, NEW sent, CallBack(what, s, rest, sent)
  PROVE  PassedInTime
BY DEF CallBack, PassedInTime

\* The rest of a pass.
LEMMA LoopClocks ==
  ASSUME ClocksInv, PassedInTime, Touched \/ Untouched,
         passed' = TRUE, UNCHANGED <<quiet, stall>>
  PROVE  ClocksInv'
BY Bounds DEF ClocksInv, PassedInTime, Touched, Untouched

LEMMA TickClocks ==
  ASSUME ClocksInv, NEW idle, NEW longest, Tick(idle, longest)
  PROVE  /\ ClocksInv'
         /\ busy' => waited' = waited + 1 /\ age' = age + 1
<1>1. passed' = FALSE /\ UNCHANGED busy
  BY Zenon DEF Tick
<1>2. /\ since' = (IF since <= longest THEN since + 1 ELSE since)
      /\ age' = (IF busy THEN age + 1 ELSE age)
      /\ waited' = (IF busy THEN waited + 1 ELSE waited)
      /\ quiet' = (IF mode = "KW" THEN quiet + 1 ELSE quiet)
  BY Zenon DEF Tick
<1>3. (passed /\ stall' = 0) \/ (stall < MaxStall /\ stall' = stall + 1)
  BY Zenon DEF Tick
<1>4. since' \in Nat /\ age' \in Nat /\ waited' \in Nat /\ quiet' \in Nat /\ stall' \in 0..MaxStall
  BY <1>2, <1>3, Bounds DEF ClocksInv
<1>5. busy' => age' <= RequestTimeout + stall' + 1
  BY <1>1, <1>2, <1>3, Bounds DEF ClocksInv
<1> QED
  BY <1>1, <1>2, <1>4, <1>5 DEF ClocksInv

LEMMA LineClocks ==
  ASSUME ClocksInv, NEW kinds, Hear(kinds) \/ SendEnq \/ Fault
  PROVE  ClocksInv'
BY Bounds DEF ClocksInv, Hear, AnswerByte, LeaveP300, Ignore, SendEnq, Fault,
   EngineUnchanged, history

----------------------------------------------------------------------------
(* Whose bytes are on the line.                                            *)

\* The request's own bytes, none of them an ENQ, and its own telegram.
OwnByte == [kind : {"DATA", "FF"}, whose : {"PENDING"}]
OwnTelegram == [kind : {"TELEGRAM"}, whose : {"PENDING"}, size : Int]

\* A telegram that went out when the controller had just spoken finds nothing else
\* on the line until its answer is overdue: the controller is not quiet for longer than
\* the engine has waited, but for the stall before the engine read its last byte.
OwnLine ==
  /\ answer \in Seq(OwnByte) /\ rx \in Seq(OwnByte) /\ tx \in Seq(OwnTelegram)
  /\ quiet <= since + 1 \/ quiet <= since + MaxStall
  /\ rx # <<>> => quiet <= stall
LineInv == state = "RECEIVE" /\ prompt /\ since <= AnswerTimeout => OwnLine

\* The controller stays quiet before an ENQ for longer than the engine waits for an
\* answer, the delays of loop() included.
EnqComesLate == AnswerTimeout + 1 < EnqMin /\ AnswerTimeout + MaxStall < EnqMin

LEMMA OwnIsNotWrong ==
  ASSUME NEW q \in Seq(OwnByte)
  PROVE  Judged(q) = "ANSWERED"
<1>1. \A i \in DOMAIN q : q[i] \in OwnByte
  BY LenProperties, ElementOfSeq
<1>2. \A b \in Range(q) : b.whose = "PENDING" /\ b.kind # "ENQ"
  BY <1>1 DEF Range, OwnByte
<1> QED
  BY <1>2 DEF Judged

LEMMA Prompted ==
  ASSUME ClocksInv, NEW rest, NEW size \in Int, Sends(rest), Touched,
         UNCHANGED <<quiet, stall>>, prompt',
         rx' = rest, tx' = Telegram(size), answer' \in Seq(OwnByte)
  PROVE  OwnLine'
<1>1. rx' = <<>> /\ tx = <<>> /\ quiet <= 1
  BY Zenon DEF Sends
<1> HIDE DEF Sends
<1>5. quiet' <= since' + 1
  BY <1>1 DEF Touched, ClocksInv
<1>2. tx' = <<[kind |-> "TELEGRAM", whose |-> "PENDING", size |-> size]>>
  BY <1>1 DEF Telegram
<1>3. tx' \in Seq(OwnTelegram)
  BY <1>2 DEF OwnTelegram
<1> QED
  BY <1>1, <1>3, <1>5, EmptySeq DEF OwnLine

LEMMA HearOwn ==
  ASSUME ClocksInv, OwnLine, NEW kinds \in SUBSET {"DATA", "FF"}, Hear(kinds)
  PROVE  OwnLine'
<1> DEFINE c == Head(tx)
<1>1. tx # <<>> /\ c \in OwnTelegram /\ Tail(tx) \in Seq(OwnTelegram)
  BY HeadTailProperties DEF Hear, OwnLine
<1>2. c.kind # "EOT" /\ c.whose = "PENDING" /\ c.size \in Int
  BY <1>1 DEF OwnTelegram
<1>3. UNCHANGED <<answer, since, stall>>
  BY DEF Hear, EngineUnchanged
<1>4. CASE Ignore
  BY <1>1, <1>3, <1>4 DEF Ignore, OwnLine
<1>5. CASE AnswerByte(c, kinds)
  <2>1. rx' \in Seq(OwnByte)
    <3>1. PICK kind \in kinds : rx' = Append(rx, [kind |-> kind, whose |-> c.whose])
      BY <1>5 DEF AnswerByte
    <3>2. [kind |-> kind, whose |-> c.whose] \in OwnByte
      BY <1>2 DEF OwnByte
    <3> QED
      BY <3>1, <3>2, AppendProperties DEF OwnLine
  <2>2. tx' \in Seq(OwnTelegram)
    <3>1. CASE tx' = Tail(tx)
      BY <1>1, <3>1
    <3>2. CASE tx' = [tx EXCEPT ![1].size = c.size - 1]
      <4>1. tx' = [tx EXCEPT ![1] = [tx[1] EXCEPT !.size = c.size - 1]]
        BY <3>2
      <4>2. c = tx[1]
        BY <1>1
      <4>3. [tx[1] EXCEPT !.size = c.size - 1] \in OwnTelegram
        BY <1>1, <1>2, <4>2 DEF OwnTelegram
      <4>4. tx \in Seq(OwnTelegram) /\ 1 \in 1..Len(tx)
        BY <1>1, EmptySeq, LenProperties DEF OwnLine
      <4> QED
        BY <4>1, <4>3, <4>4, ExceptSeq
    <3> QED
      BY <1>5, <3>1, <3>2 DEF AnswerByte
  <2>3. quiet' = 0
    BY <1>5 DEF AnswerByte
  <2> QED
    BY <1>3, <2>1, <2>2, <2>3 DEF OwnLine, ClocksInv
<1> QED
  BY <1>2, <1>4, <1>5 DEF Hear

\* An ENQ is never among them: the controller has not been quiet for so long.
LEMMA NoEnqYet ==
  ASSUME EnqComesLate, ClocksInv, OwnLine, since <= AnswerTimeout
  PROVE  ~SendEnq
BY Bounds DEF EnqComesLate, ClocksInv, OwnLine, SendEnq

LEMMA FaultOwn ==
  ASSUME OwnLine, Fault
  PROVE  OwnLine'
<1>1. UNCHANGED <<answer, since, stall, quiet>>
  BY DEF Fault, EngineUnchanged
<1>2. CASE \E i \in DOMAIN rx : rx' = RemoveAt(rx, i) /\ UNCHANGED tx
  <2>1. PICK i \in DOMAIN rx : rx' = RemoveAt(rx, i)
    BY <1>2
  <2>2. i \in 1..Len(rx) /\ rx # <<>>
    BY <2>1, LenProperties DEF OwnLine
  <2>3. rx' \in Seq(OwnByte)
    <3>1. SubSeq(rx, 1, i - 1) \in Seq(OwnByte) /\ SubSeq(rx, i + 1, Len(rx)) \in Seq(OwnByte)
      BY <2>2, SubSeqProperties, LenProperties DEF OwnLine
    <3> QED
      BY <2>1, <3>1, ConcatProperties DEF RemoveAt
  <2> QED
    BY <1>1, <1>2, <2>2, <2>3 DEF OwnLine
<1>3. CASE \E i \in DOMAIN rx : rx[i].kind = "ENQ"
  <2>1. \A i \in DOMAIN rx : rx[i] \in OwnByte
    BY LenProperties, ElementOfSeq DEF OwnLine
  <2> QED
    BY <1>3, <2>1 DEF OwnByte
<1>4. CASE tx # <<>> /\ tx' = Tail(tx) /\ UNCHANGED rx
  BY <1>1, <1>4, HeadTailProperties DEF OwnLine
<1> QED
  BY <1>2, <1>3, <1>4 DEF Fault

LEMMA TickOwn ==
  ASSUME ClocksInv, OwnLine, since <= AnswerTimeout,
         NEW idle, NEW longest \in Nat, AnswerTimeout <= longest, idle => rx = <<>>,
         Tick(idle, longest)
  PROVE  OwnLine'
<1>1. since' = since + 1 /\ quiet' \in {quiet, quiet + 1} /\ UNCHANGED <<answer, rx, tx>>
  BY Bounds DEF Tick, ClocksInv
<1>2. rx # <<>> => stall' = stall + 1
  BY DEF Tick
<1> QED
  BY <1>1, <1>2, Bounds DEF OwnLine, ClocksInv

\* What happens on the line and in time, whichever the engine.
LEMMA LineKeepsOwn ==
  ASSUME EnqComesLate, ClocksInv, LineInv, NEW kinds \in SUBSET {"DATA", "FF"},
         NEW idle, NEW longest \in Nat, AnswerTimeout <= longest, idle => rx = <<>>,
         Hear(kinds) \/ SendEnq \/ Fault \/ Tick(idle, longest)
  PROVE  LineInv' /\ UNCHANGED <<state, prompt, answer>>
<1>1. UNCHANGED <<state, prompt, answer>> /\ since' \in {since, since + 1}
  BY DEF Hear, SendEnq, Fault, Tick, EngineUnchanged, history
<1>2. SUFFICES ASSUME state' = "RECEIVE", prompt', since' <= AnswerTimeout
               PROVE  OwnLine'
  BY <1>1 DEF LineInv
<1>3. since <= AnswerTimeout
  BY <1>1, <1>2, Bounds DEF ClocksInv
<1>4. OwnLine
  BY <1>1, <1>2, <1>3 DEF LineInv
<1> QED
  BY <1>3, <1>4, HearOwn, NoEnqYet, FaultOwn, TickOwn
----------------------------------------------------------------------------
(* Types of what is on the line.                                           *)

\* The controller owes something of each telegram.
Owed == {c \in Commands : c.kind = "TELEGRAM" => c.size # 0}

LEMMA EarlierSeq ==
  ASSUME NEW S, NEW q \in Seq(S), \A x \in S : Earlier(x) \in S
  PROVE  AllEarlier(q) \in Seq(S)
<1>1. Len(q) \in Nat /\ DOMAIN q = 1..Len(q) /\ \A i \in 1..Len(q) : q[i] \in S
  BY LenProperties, ElementOfSeq
<1>2. AllEarlier(q) \in [1..Len(q) -> S]
  BY <1>1 DEF AllEarlier
<1> QED
  BY <1>1, <1>2, SeqDef

LEMMA EarlierLine ==
  /\ \A q \in Seq(Bytes) : AllEarlier(q) \in Seq(Bytes)
  /\ \A q \in Seq(Owed) : AllEarlier(q) \in Seq(Owed)
<1>1. \A x \in Bytes : Earlier(x) \in Bytes
  BY DEF Bytes, Whose, Earlier
<1>2. \A x \in Owed : Earlier(x) \in Owed
  BY DEF Owed, Commands, Whose, Earlier
<1> QED
  BY <1>1, <1>2, EarlierSeq

LEMMA HearTyped ==
  ASSUME rx \in Seq(Bytes), tx \in Seq(Owed), NEW kinds \in SUBSET {"DATA", "FF"}, Hear(kinds)
  PROVE  rx' \in Seq(Bytes) /\ tx' \in Seq(Owed)
<1> DEFINE c == Head(tx)
<1>1. tx # <<>> /\ tx \in Seq(Owed) /\ c \in Owed /\ Tail(tx) \in Seq(Owed)
      /\ rx \in Seq(Bytes)
  BY HeadTailProperties DEF Hear
<1>2. CASE Ignore
  BY <1>1, <1>2 DEF Ignore
<1>3. CASE LeaveP300
  BY <1>1, <1>3 DEF LeaveP300
<1>4. CASE AnswerByte(c, kinds) /\ c.kind # "EOT"
  <2>1. rx' \in Seq(Bytes)
    <3>1. PICK kind \in kinds : rx' = Append(rx, [kind |-> kind, whose |-> c.whose])
      BY <1>4 DEF AnswerByte
    <3>2. [kind |-> kind, whose |-> c.whose] \in Bytes
      BY <1>1 DEF Bytes, Owed, Commands
    <3> QED
      BY <1>1, <3>1, <3>2, AppendProperties
  <2>2. CASE tx' = Tail(tx)
    BY <1>1, <2>1, <2>2
  <2>3. CASE c.size # 1 /\ tx' = [tx EXCEPT ![1].size = c.size - 1]
    <3>1. tx' = [tx EXCEPT ![1] = [tx[1] EXCEPT !.size = c.size - 1]] /\ c = tx[1]
      BY <1>1, <2>3
    <3>2. [tx[1] EXCEPT !.size = c.size - 1] \in Owed
      <4>1. c.size - 1 \in Nat \ {0}
        BY <1>1, <1>4, <2>3 DEF Owed, Commands
      <4>2. tx[1] \in Owed
        BY <1>1, <3>1
      <4> QED
        BY <4>1, <4>2 DEF Owed, Commands
    <3>3. 1 \in 1..Len(tx)
      BY <1>1, EmptySeq, LenProperties
    <3> QED
      BY <1>1, <2>1, <3>1, <3>2, <3>3, ExceptSeq
  <2> QED
    BY <1>4, <2>2, <2>3 DEF AnswerByte
<1> QED
  BY <1>2, <1>3, <1>4 DEF Hear

LEMMA FaultTyped ==
  ASSUME rx \in Seq(Bytes), tx \in Seq(Owed), Fault
  PROVE  rx' \in Seq(Bytes) /\ tx' \in Seq(Owed)
<1>1. rx \in Seq(Bytes) /\ tx \in Seq(Owed) /\ DOMAIN rx = 1..Len(rx) /\ Len(rx) \in Nat
  BY LenProperties
<1>2. ASSUME NEW i \in DOMAIN rx, rx' = RemoveAt(rx, i), UNCHANGED tx
      PROVE  rx' \in Seq(Bytes) /\ tx' \in Seq(Owed)
  <2>1. SubSeq(rx, 1, i - 1) \in Seq(Bytes) /\ SubSeq(rx, i + 1, Len(rx)) \in Seq(Bytes)
    BY <1>1, SubSeqProperties
  <2> QED
    BY <1>1, <1>2, <2>1, ConcatProperties DEF RemoveAt
<1>3. ASSUME NEW i \in DOMAIN rx, rx' = [rx EXCEPT ![i].kind = "DATA"], UNCHANGED tx
      PROVE  rx' \in Seq(Bytes) /\ tx' \in Seq(Owed)
  <2>1. rx' = [rx EXCEPT ![i] = [rx[i] EXCEPT !.kind = "DATA"]]
    BY <1>3
  <2>2. [rx[i] EXCEPT !.kind = "DATA"] \in Bytes
    <3>1. rx[i] \in Bytes
      BY <1>1, ElementOfSeq
    <3> QED
      BY <3>1 DEF Bytes
  <2> QED
    BY <1>1, <1>3, <2>1, <2>2, ExceptSeq
<1>4. CASE tx # <<>> /\ tx' = Tail(tx) /\ UNCHANGED rx
  BY <1>1, <1>4, HeadTailProperties
<1> QED
  BY <1>2, <1>3, <1>4 DEF Fault

LEMMA OwedAreCommands == Seq(Owed) \subseteq Seq(Commands)
<1> SUFFICES ASSUME NEW q \in Seq(Owed) PROVE q \in Seq(Commands)
  OBVIOUS
<1>1. Len(q) \in Nat /\ q \in [1..Len(q) -> Owed]
  BY LenProperties
<1>2. Owed \subseteq Commands
  BY DEF Owed
<1>3. q \in [1..Len(q) -> Commands]
  BY <1>1, <1>2
<1> QED
  BY <1>1, <1>3, SeqDef
=============================================================================
