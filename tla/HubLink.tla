------------------------------ MODULE HubLink ------------------------------
(***************************************************************************)
(* What the hub makes of the link: the connectivity it publishes, and the   *)
(* verification at start-up that fails the component for good when nothing  *)
(* was heard.  Every completion of Hub tells the link what it says of the   *)
(* heater before it is handed on; a failed component runs loop() and        *)
(* update() no more, while controls and the console go on queueing.         *)
(***************************************************************************)
EXTENDS Hub

CONSTANT OfflineAfter  \* LINK_OFFLINE_AFTER_ERRORS

ASSUME LinkAssumption == OfflineAfter \in Nat \ {0}

VARIABLES
  linkState,         \* link_state_, what the connectivity sensors show
  linkErrorStreak,   \* link_error_streak_
  linkEstablished,   \* link_established_
  verifyPending,     \* protocol_verify_pending_
  failed,            \* is_failed()
  \* History, read by the properties only.
  unanswered,        \* requests that ended without a sign of the heater since it was heard
  counted            \* is the request on the bus one of them already?

link == <<linkState, linkErrorStreak, linkEstablished>>
unheard == <<unanswered, counted>>
linkVars == <<vars, link, verifyPending, failed, unheard>>

LinkInit ==
  /\ Init
  /\ linkState = "UNKNOWN" /\ linkErrorStreak = 0 /\ linkEstablished = FALSE
  /\ verifyPending = TRUE /\ failed = FALSE
  /\ unanswered = 0 /\ counted = FALSE

----------------------------------------------------------------------------
\* link_note_alive_() and link_note_error_().
NoteAliveOnline ==
  /\ linkState' = "ONLINE" /\ linkEstablished' = TRUE
  /\ UNCHANGED linkErrorStreak
NoteAlive ==
  /\ linkState' = "ONLINE" /\ linkEstablished' = TRUE
  /\ linkErrorStreak' = 0

NoteError ==
  LET n == IF linkErrorStreak < OfflineAfter THEN linkErrorStreak + 1 ELSE linkErrorStreak
  IN  /\ linkErrorStreak' = n
      /\ linkState' = IF n = OfflineAfter THEN "OFFLINE" ELSE linkState
      /\ UNCHANGED linkEstablished

\* A request is counted once, whoever reports it.
Count == unanswered' = IF counted \/ unanswered = OfflineAfter THEN unanswered ELSE unanswered + 1

----------------------------------------------------------------------------
\* The engine's callbacks, and what the hub hands on to whoever asked.
Answers == \/ \E e \in Entities : \/ ReadAnswered(e) \/ WriteAcked(e)
                                  \/ SupersededAcked(e) \/ RmwReadAnswered(e)
           \/ IdentAnswered
Failures == \/ \E e \in Entities : ReadFailed(e) \/ WriteFailed(e) \/ RmwReadFailed(e)
            \/ IdentFailed
\* These do not tell the two apart.
Either == RawDone \/ LateCallback
CalledBack == bus' = IdleBus /\ UNCHANGED <<verifyPending, failed>>

\* A complete answer, too short or of another address though it may be; NACK and
\* DEVICE_ERROR, which say that the heater heard.
Heard ==
  /\ ~failed /\ (Answers \/ Failures \/ Either) /\ CalledBack
  /\ NoteAlive
  /\ unanswered' = 0 /\ counted' = FALSE

\* TIMEOUT.
TimedOut ==
  /\ ~failed /\ (Failures \/ Either) /\ CalledBack
  /\ NoteError
  /\ Count /\ counted' = FALSE

\* ERROR, CRC and LENGTH may be noise, and say nothing.
Garbled ==
  /\ ~failed /\ (Failures \/ Either) /\ CalledBack
  /\ counted' = FALSE
  /\ UNCHANGED <<link, unanswered>>

\* The hub's own watchdog; the engine may call back later for the same request.
GivenUp ==
  /\ ~failed /\ (Failures \/ RawDone) /\ ~BusIdle /\ UNCHANGED bus
  /\ NoteError
  /\ Count /\ counted' = TRUE
  /\ UNCHANGED <<verifyPending, failed>>

\* loop(), after the engine's: the link was established, or the window is over.
LinkUp ==
  /\ ~failed /\ verifyPending /\ linkEstablished
  /\ verifyPending' = FALSE
  /\ UNCHANGED <<vars, link, failed, unheard>>

NotEstablishedOffline == linkState # "ONLINE"
NotEstablished == ~linkEstablished
VerifyFails ==
  /\ ~failed /\ verifyPending /\ NotEstablished
  /\ verifyPending' = FALSE /\ failed' = TRUE
  /\ linkState' = "OFFLINE"
  /\ UNCHANGED <<vars, linkErrorStreak, linkEstablished, unheard>>

\* What goes on while the component runs, and what goes on without it.
Runs ==
  /\ ~failed
  /\ \/ Dispatch
     \/ \E due \in Ascending : Poll(due)
     \/ \E e \in Entities : PriorityRead(e)
  /\ UNCHANGED <<link, verifyPending, failed, unheard>>

GoesOn ==
  /\ \/ \E e \in Entities, v \in Values : RequestWrite(e, v)
     \/ \E op \in RawOps : QueueRaw(op)
     \/ Serve
     \/ \E r \in PanelRegs, f \in Fields, v \in Values : PanelWrite(r, f, v)
  /\ UNCHANGED <<link, verifyPending, failed, unheard>>

LinkNext == Heard \/ TimedOut \/ Garbled \/ GivenUp \/ LinkUp \/ VerifyFails \/ Runs \/ GoesOn
LinkSpec == LinkInit /\ [][LinkNext]_linkVars

----------------------------------------------------------------------------
\* Properties.

\* The link is published as offline for OfflineAfter observations in a row that nothing was
\* heard, and the loss of one request can be observed twice, by the hub's watchdog and by
\* the late error of the engine: at least half as many requests really went unanswered
\* since the heater was last heard, whichever ended, failed, came late or was garbled in
\* between (link_note_error_(), vitohome.h:104-109).
OfflineIsEarned == linkState = "OFFLINE" /\ ~failed => 2 * unanswered >= OfflineAfter

\* The component is failed for good only if the heater was never heard: not by a deadline
\* that passes while the first answer is on its way, nor when the link was up and went
\* down again before loop() looked.  What it leaves behind is a link shown as offline, and
\* nobody's callback raises it again (the verification in loop()).
OnlyUnheardFails == failed => ~linkEstablished /\ linkState = "OFFLINE"

\* Every variable of the link holds a value of its type.
LinkTypeOK ==
  /\ linkState \in {"UNKNOWN", "ONLINE", "OFFLINE"}
  /\ linkErrorStreak \in 0..OfflineAfter
  /\ linkEstablished \in BOOLEAN /\ verifyPending \in BOOLEAN /\ failed \in BOOLEAN
  /\ unanswered \in 0..OfflineAfter /\ counted \in BOOLEAN
=============================================================================
