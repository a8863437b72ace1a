---------------------------- MODULE EnginePromise ----------------------------
(***************************************************************************)
(* What a protocol engine promises the hub: one request at a time, and one  *)
(* callback for each, with the answer to that request or an error.         *)
(***************************************************************************)
VARIABLES
  busy,  \* isBusy()
  told   \* what the callback said of the last request

vars == <<busy, told>>

Init == busy = FALSE /\ told = "NOTHING"

\* read(), write(), rpc() or a KW telegram accepted; refused while one is pending.
Request == ~busy /\ busy' = TRUE /\ told' = "NOTHING"

\* onResponse, never with the answer to an earlier request, or onError.
CallBack == busy /\ busy' = FALSE /\ told' \in {"ANSWERED", "ERROR"}

Next == Request \/ CallBack

Spec == Init /\ [][Next]_vars
=============================================================================
