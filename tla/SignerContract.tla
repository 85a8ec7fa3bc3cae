--------------------------- MODULE SignerContract ---------------------------
(***************************************************************************)
(* What Signer.sendRequest promises its caller: a call is answered at most *)
(* once, only after its request was given to the signer, a request is      *)
(* given to the signer at most once and never after its call was rejected, *)
(* and a rejection may take several calls together.                        *)
(***************************************************************************)
CONSTANTS
  Calls,   \* the calls of sendRequest
  Silent   \* those that never get a response: notifications

VARIABLES
  status,     \* what the caller of each call knows
  delivered   \* the requests the signer was given

Statuses == {"idle", "pending", "fulfilled", "rejected"}

Init ==
  /\ status = [r \in Calls |-> "idle"]
  /\ delivered = {}

Issue(r) ==
  /\ status[r] = "idle"
  /\ status' = [status EXCEPT ![r] = "pending"]
  /\ UNCHANGED delivered

Deliver(r) ==
  /\ status[r] = "pending"
  /\ r \notin delivered
  /\ delivered' = delivered \cup {r}
  /\ UNCHANGED status

Fulfil(r) ==
  /\ status[r] = "pending"
  /\ r \in delivered \ Silent
  /\ status' = [status EXCEPT ![r] = "fulfilled"]
  /\ UNCHANGED delivered

Reject(S) ==
  /\ \A r \in S : status[r] = "pending"
  /\ status' = [r \in Calls |-> IF r \in S THEN "rejected" ELSE status[r]]
  /\ UNCHANGED delivered

Next ==
  \/ \E r \in Calls : Issue(r) \/ Deliver(r) \/ Fulfil(r)
  \/ \E S \in SUBSET Calls : Reject(S)

Spec == Init /\ [][Next]_<<status, delivered>>
=============================================================================
