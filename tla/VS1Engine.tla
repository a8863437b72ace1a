------------------------------ MODULE VS1Engine ------------------------------
(***************************************************************************)
(* The KW engine (vs1.cpp): it waits for the controller's ENQ, answers it    *)
(* with a telegram while the ENQ is fresh, and chains the next telegram to   *)
(* the answer of the last as long as the line stays silent.                *)
(***************************************************************************)
EXTENDS KwEngine

CONSTANTS
  EnqReset,     \* ENQ_RESET_INTERVAL_MS
  ChainWindow   \* CHAIN_WINDOW_MS; ENQ_ACK_WINDOW_MS and GFA_GAP_MS are less than a unit

ASSUME VS1Assumption == EnqReset \in Nat /\ ChainWindow \in Nat

\* A read of one byte or of more, a burner-control read, a write.
Requests == {"SHORT", "LONG", "GFA_READ", "WRITE"}
Expected == IF request \in {"SHORT", "WRITE"} THEN 1 ELSE 2
States == {"INIT", "SYNC_ENQ", "SYNC_RECV", "SEND", "RECEIVE"}
Longest == Max({EnqReset, ChainWindow, AnswerTimeout})

\* The clocks, and what is collected and on the line, stay within their types.
TypeOK == KwTypeOK(Longest, States, Requests)

Init == KwInit /\ mode \in {"KW", "P300"}
Request(r) == KwRequest(r)

----------------------------------------------------------------------------
GoTo(s, rest, sent) == Pass(s, age, answer, rest, sent)

ResetConnectionSilently == rx = <<>> /\ Due(since, EnqReset) /\ Touched /\ GoTo("INIT", rx, tx)
ResetConnection ==
  /\ rx = <<>> /\ Due(since, EnqReset) /\ Touched
  /\ GoTo("INIT", rx, Append(tx, [kind |-> "EOT", whose |-> "NONE", size |-> 0]))

\* _init(): an EOT takes a controller left in P300 back to KW.
InitState ==
  /\ state = "INIT" /\ SendsNothing
  /\ \/ ReadsEnq /\ Touched /\ GoTo("SYNC_ENQ", Tail(rx), tx)
     \/ ReadsOther /\ Untouched /\ GoTo("INIT", Tail(rx), tx)
     \/ ResetConnection
     \/ rx = <<>> /\ NotDue(since, EnqReset) /\ Untouched /\ GoTo("INIT", rx, tx)

\* The ENQ_ACK and the telegram go out in the same pass.
Fresh == since <= 1
SyncEnq ==
  /\ state = "SYNC_ENQ"
  /\ \/ Fresh /\ busy /\ Sends(rx) /\ Touched /\ GoTo("RECEIVE", rx, Telegram(Expected))
     \/ Fresh /\ ~busy /\ SendsNothing /\ Untouched /\ GoTo("SYNC_ENQ", rx, tx)
     \/ SendsNothing /\ Untouched /\ GoTo("INIT", rx, tx)

\* A byte on the line ends the chain; a burner-control read waits a little.
SyncRecv ==
  /\ state = "SYNC_RECV" /\ SendsNothing /\ Untouched
  /\ \/ rx # <<>> /\ GoTo("INIT", rx, tx)
     \/ rx = <<>> /\ NotDue(since, ChainWindow) /\ busy /\ GoTo("SEND", rx, tx)
     \/ rx = <<>> /\ Fresh /\ busy /\ request = "GFA_READ" /\ GoTo("SYNC_RECV", rx, tx)
     \/ rx = <<>> /\ NotDue(since, ChainWindow) /\ ~busy /\ GoTo("SYNC_RECV", rx, tx)
     \/ rx = <<>> /\ Due(since, ChainWindow) /\ GoTo("INIT", rx, tx)

SendState ==
  /\ state = "SEND" /\ Sends(rx) /\ Touched
  /\ GoTo("RECEIVE", rx, Telegram(Expected))

\* _receive(): the timeout goes before what has arrived.
InTimeOnceRead == NotDue(since, AnswerTimeout) \/ rx # <<>>
InTime == NotDue(since, AnswerTimeout)

\* More bytes than expected complete nothing; an acknowledgement is 0.
Receive ==
  /\ state = "RECEIVE" /\ SendsNothing
  /\ \/ Due(since, AnswerTimeout) /\ Untouched /\ CallBack("ERROR", "INIT", rx, tx)
     \/ /\ InTime
        /\ IF rx # <<>> THEN Touched ELSE Untouched
        /\ LET bytes == answer \o rx
               acknowledges == request = "WRITE"
           IN \/ Len(bytes) # Expected /\ Pass("RECEIVE", age, bytes, <<>>, tx)
              \/ /\ Len(bytes) = Expected /\ (acknowledges => bytes[1].kind = "DATA")
                 /\ CallBack(Judged(bytes), "SYNC_RECV", <<>>, tx)
              \/ Len(bytes) = Expected /\ acknowledges /\ CallBack("ERROR", "INIT", <<>>, tx)

Loop ==
  /\ InitState \/ SyncEnq \/ SyncRecv \/ SendState \/ Receive
  /\ passed' = TRUE /\ UNCHANGED <<mode, quiet, stall, faults>>

----------------------------------------------------------------------------
Idle == /\ rx = <<>>
        /\ state \in {"INIT", "RECEIVE"} \/ (state \in {"SYNC_ENQ", "SYNC_RECV"} /\ ~busy)
        /\ state = "RECEIVE" => Len(answer) # Expected

Answers == Hear({"DATA"})

Next ==
  \/ \E r \in Requests : Request(r)
  \/ Loop \/ Answers \/ SendEnq \/ Fault \/ Tick(Idle, Longest)

Spec == Init /\ [][Next]_kwVars
\* loop() runs for ever, time passes, and the controller acts on what reaches it.
FairSpec == /\ Spec /\ WF_kwVars(Loop) /\ WF_kwVars(Tick(Idle, Longest))
            /\ WF_kwVars(Answers) /\ WF_kwVars(SendEnq)

----------------------------------------------------------------------------
(* Properties.                                                             *)

\* The engine calls back before the hub's watchdog gives the request up.
EngineFirst == busy => waited < HubWatchdog

\* A controller left in P300, and one whose ENQ was lost, gets the engine in step again.
LinkRecovers == []<>(state # "INIT")

\* proof_vs1_chain.cpp: "a byte arriving between the answer and the next request ends the
\* chain, so the request cannot go out with that byte buffered".
NeverChainsAcross == [][state = "SEND" /\ state' = "RECEIVE" => rx = <<>>]_kwVars
=============================================================================
