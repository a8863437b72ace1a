------------------------------ MODULE GWGEngine ------------------------------
(***************************************************************************)
(* The GWG engine (gwg.cpp): it answers the controller's ENQ with a telegram *)
(* and sends further ones on the strength of the last ENQ or answer for a    *)
(* while ("burst"), until two of those in a row go unanswered.  An EEPROM   *)
(* read takes one telegram per address, answered by a complement pair.      *)
(* The active sync poke (SEND_ENQ_POKE) is off in the code and left out.    *)
(***************************************************************************)
EXTENDS KwEngine

CONSTANTS
  EnqValidity,  \* ENQ_VALIDITY_MS
  Pairs         \* addresses of an EEPROM read

BurstFailuresBeforeFallback == 2

ASSUME GWGAssumption == EnqValidity \in Nat /\ Pairs \in Nat \ {0}

VARIABLES
  syncAge,      \* units since _lastSyncMillis
  syncValid,    \* _syncValid
  sentInBurst,  \* _sentInBurst
  failures,     \* _burstFailures
  disabled,     \* _burstDisabled
  index,        \* _eepromIndex: pairs verified
  unserved      \* _eepromUnserved

burst == <<syncAge, syncValid, sentInBurst, failures, disabled>>
eeprom == <<index, unserved>>
vars == <<kwVars, burst, eeprom>>

\* A read of one byte or of more, an EEPROM read, a write.
Requests == {"SHORT", "LONG", "EEPROM", "WRITE"}
Expected == IF request \in {"SHORT", "WRITE"} THEN 1 ELSE 2

TypeOK ==
  /\ KwTypeOK(AnswerTimeout, {"INIT", "RECEIVE"}, Requests)
  /\ syncAge \in 0..EnqValidity + 1 /\ {syncValid, sentInBurst, disabled, unserved} \subseteq BOOLEAN
  /\ failures \in 0..BurstFailuresBeforeFallback /\ index \in 0..Pairs

Init ==
  /\ KwInit /\ mode = "KW"
  /\ syncAge = 0 /\ syncValid = FALSE /\ sentInBurst = FALSE /\ failures = 0
  /\ disabled = FALSE /\ index = 0 /\ unserved = FALSE

Request(r) == KwRequest(r) /\ index' = 0 /\ unserved' = FALSE /\ UNCHANGED burst

----------------------------------------------------------------------------
\* The verified pairs, each of them one byte: FF for FF FF, DATA for any other.
Values == SubSeq(answer, 1, index)

\* Both ways to SEND write the telegram in the same pass, and start to count anew.
SendFrom(rest) ==
  /\ Sends(rest) /\ Touched
  /\ Pass("RECEIVE", age, Values, rest, Telegram(Expected))

CanBurst == ~disabled /\ syncValid /\ NotDue(syncAge, EnqValidity)
CannotBurst == disabled \/ ~syncValid \/ Due(syncAge, EnqValidity)

\* _init(): a byte on the line goes before a burst, and is dropped if it is of no use.
AnswerEnq ==
  /\ busy /\ ReadsEnq /\ SendFrom(Tail(rx))
  /\ syncAge' = 0 /\ syncValid' = TRUE /\ sentInBurst' = FALSE
  /\ UNCHANGED <<failures, disabled, eeprom>>
DropByte ==
  /\ ReadsOther \/ (ReadsEnq /\ ~busy)
  /\ SendsNothing /\ Untouched /\ Pass("INIT", age, answer, Tail(rx), tx)
  /\ UNCHANGED <<burst, eeprom>>
Burst ==
  /\ rx = <<>> /\ busy /\ CanBurst /\ SendFrom(rx)
  /\ sentInBurst' = TRUE
  /\ UNCHANGED <<syncAge, syncValid, failures, disabled, eeprom>>
Wait ==
  /\ rx = <<>> /\ (busy => CannotBurst)
  /\ SendsNothing /\ Untouched /\ Pass("INIT", age, answer, rx, tx)
  /\ UNCHANGED <<burst, eeprom>>
InitState == state = "INIT" /\ (AnswerEnq \/ DropByte \/ Burst \/ Wait)

\* _receive(): out of time, what has arrived is dropped, and a burst that went
\* unanswered counts.
Unanswered ==
  /\ Due(since, AnswerTimeout) /\ Untouched
  /\ syncValid' = FALSE
  /\ failures' = IF sentInBurst /\ ~disabled THEN failures + 1 ELSE failures
  /\ disabled' = (disabled \/ failures' = BurstFailuresBeforeFallback)
  /\ CallBack("ERROR", "INIT", <<>>, tx)
  /\ UNCHANGED <<syncAge, sentInBurst, eeprom>>

InTimeOnceRead == NotDue(since, AnswerTimeout) \/ rx # <<>>
InTime == NotDue(since, AnswerTimeout)

Partial(bytes) ==
  /\ Len(bytes) - index # Expected
  /\ Pass("RECEIVE", age, bytes, <<>>, tx) /\ UNCHANGED <<burst, eeprom>>

\* A complete answer is as good as an ENQ.
Complete(bytes) ==
  /\ Len(bytes) - index = Expected
  /\ syncAge' = 0 /\ syncValid' = TRUE
  /\ failures' = IF sentInBurst THEN 0 ELSE failures
  /\ UNCHANGED <<sentInBurst, disabled>>

Whole(bytes) ==
  /\ request # "EEPROM" /\ Complete(bytes)
  /\ CallBack(Judged(bytes), "INIT", <<>>, tx) /\ UNCHANGED eeprom

\* FF FF marks an address not in use; any other pair must sum to FF.
IsUnserved(pair) == \A i \in DOMAIN pair : pair[i].kind = "FF"
LastPair(bytes) == SubSeq(bytes, index + 1, index + 2)
Value(pair) ==
  [kind |-> IF IsUnserved(pair) THEN "FF"
            ELSE IF \E b \in Range(pair) : b.kind = "ENQ" THEN "ENQ" ELSE "DATA",
   whose |-> IF \A b \in Range(pair) : b.whose = "PENDING" THEN "PENDING" ELSE "EARLIER"]
BadPair(bytes) ==
  /\ request = "EEPROM" /\ Complete(bytes) /\ ~IsUnserved(LastPair(bytes))
  /\ CallBack("ERROR", "INIT", <<>>, tx) /\ UNCHANGED eeprom

RearmNever == age
Rearm == 0
UnservedLast(pair) == IsUnserved(pair)
Unserved(pair) == unserved \/ IsUnserved(pair)
GoodPair(bytes) ==
  LET pair == LastPair(bytes)
      values == Append(Values, Value(pair))
  IN /\ request = "EEPROM" /\ Complete(bytes)
     /\ index' = index + 1 /\ unserved' = Unserved(pair)
     /\ \/ index' < Pairs /\ Pass("INIT", Rearm, values, <<>>, tx)
        \/ index' = Pairs /\ CallBack(Judged(values), "INIT", <<>>, tx)

Receive ==
  LET bytes == answer \o rx
  IN /\ InTime
     /\ IF rx # <<>> THEN Touched ELSE Untouched
     /\ Partial(bytes) \/ Whole(bytes) \/ BadPair(bytes) \/ GoodPair(bytes)

Loop ==
  /\ \/ InitState
     \/ state = "RECEIVE" /\ SendsNothing /\ (Unanswered \/ Receive)
  /\ passed' = TRUE /\ UNCHANGED <<mode, quiet, stall, faults>>

----------------------------------------------------------------------------
Idle == rx = <<>> /\ (state = "INIT" /\ busy => CannotBurst)

Ages == syncAge' = IF syncAge <= EnqValidity THEN syncAge + 1 ELSE syncAge

Kinds == IF request = "EEPROM" THEN {"DATA", "FF"} ELSE {"DATA"}

Next ==
  \/ \E r \in Requests : Request(r)
  \/ Loop
  \/ (Hear(Kinds) \/ SendEnq \/ Fault) /\ UNCHANGED <<burst, eeprom>>
  \/ Tick(Idle, AnswerTimeout) /\ Ages /\ UNCHANGED <<syncValid, sentInBurst, failures, disabled, eeprom>>

Spec == Init /\ [][Next]_vars
\* The hub's watchdog has one budget for each telegram of a read.
TelegramCountOne == 1
TelegramCount == IF request = "EEPROM" THEN Pairs ELSE 1

----------------------------------------------------------------------------
(* Properties.                                                             *)

\* The engine calls back before the hub's watchdog gives the request up, though an
\* EEPROM read may have to wait for an ENQ before each of its telegrams.
EngineFirst == busy => waited < HubWatchdog * TelegramCount

\* An EEPROM read that is answered says whether an address in it is not in use,
\* whichever telegram found it: the hub refuses to merge a field into such a read.
UnservedTold ==
  [][request = "EEPROM" /\ told' \in {"ANSWERED", "WRONGLY"} /\ busy /\ ~busy' =>
       (unserved' <=> \/ \E b \in Range(Values) : b.kind = "FF"
                      \/ IsUnserved(LastPair(answer \o rx)))]_vars
=============================================================================
