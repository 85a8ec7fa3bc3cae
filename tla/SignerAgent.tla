---------------------------- MODULE SignerAgent ----------------------------
(***************************************************************************)
(* A SignerAgent: canister calls and queries that are handed one at a time *)
(* to a signer, who has them executed and answers with what was executed   *)
(* (the content map) and a certificate.                                    *)
(*                                                                         *)
(* The signer is not trusted.  It may execute another request than the one *)
(* it was asked for, replay what it had executed before, or answer with a  *)
(* content map that was never executed; it cannot certify that one, and it *)
(* does not know a nonce before it is given it.  openChannel and           *)
(* callCanister are seen as SignerContract describes sendRequest: each     *)
(* settles once.                                                           *)
(***************************************************************************)
EXTENDS Naturals, Sequences, FiniteSets, SequencesExt

CONSTANTS
  Updates,          \* the calls of call() and update(), without a nonce
  Queries,          \* the calls of query()
  Targets,          \* what is called: canister, method and argument
  Accounts,
  Target,           \* the target of each call
  None,             \* `undefined`
  Own,              \* a nonce that the signer adds of its own accord
  MaxReplacements   \* bound: how often the account is replaced

Calls == Updates \cup Queries

ASSUME CallsAssumption ==
  /\ IsFiniteSet(Updates) /\ IsFiniteSet(Queries)
  /\ Updates \cap Queries = {}
  /\ Target \in [Calls -> Targets]
  /\ Own # None /\ {None, Own} \cap (Queries \cup Accounts) = {}
  /\ MaxReplacements \in Nat

VARIABLES
  account,        \* #options.account
  stage,          \* of each call: the await of #sendAndVerify it is at
  pending,        \* #pending: the calls whose turn has not ended
  sender,         \* the account each call was sent for
  answer,         \* the content map each call was answered with
  replied,        \* the calls whose answer has a certificate that holds a reply
  executed,       \* what the Internet Computer has executed
  certificates,   \* #certificates, by what they certify
  handed,         \* how often the certificate of an execution was read
  replaced        \* how often the account has been replaced

vars == <<account, stage, pending, sender, answer, replied, executed,
          certificates, handed, replaced>>

Nonces == Queries \cup {None, Own}

\* A content map.  Its expiry tells two executions of the same request apart:
\* `at` is the call for which the signer made it.
ContentMaps == [target: Targets, sender: Accounts, nonce: Nonces, at: Calls]

ASSUME NoneAssumption == None \notin ContentMaps

Running == {"queued", "sent"}
Asked   == {"sent", "answered", "verifying", "done", "refused", "rejected"}
Stages  == {"idle", "opening", "queued", "failed"} \cup Asked

\* The types; #pending holds the calls that are queued or with the signer, each
\* of them once.
TypeOK ==
  /\ account \in Accounts
  /\ stage \in [Calls -> Stages]
  /\ ToSet(pending) = {c \in Calls : stage[c] \in Running} /\ IsInjective(pending)
  /\ sender \in [Calls -> Accounts \cup {None}]
  /\ answer \in [Calls -> ContentMaps \cup {None}]
  /\ replied \in SUBSET Calls
  /\ executed \in SUBSET ContentMaps
  /\ certificates \in SUBSET executed
  /\ handed \in [executed -> 0..Cardinality(Calls)]
  /\ replaced \in 0..MaxReplacements

Init ==
  /\ account \in Accounts
  /\ stage = [c \in Calls |-> "idle"]
  /\ pending = <<>>
  /\ sender = [c \in Calls |-> None]
  /\ answer = [c \in Calls |-> None]
  /\ replied = {} /\ executed = {} /\ certificates = {} /\ handed = <<>>
  /\ replaced = 0

-----------------------------------------------------------------------------
\* A mutant: a query is sent without a nonce.
NoNonce(c) == None

\* A query draws a nonce of its own.
NonceOf(c) == IF c \in Queries THEN c ELSE None

\* A mutant: a nonce that nobody asked for is refused.
MatchesExactly(c) ==
  /\ answer[c].target = Target[c]
  /\ answer[c].sender = account
  /\ answer[c].nonce = NonceOf(c)

\* contentMapMatchesRequest: by the account that the agent has now.
Matches(c) ==
  /\ answer[c].target = Target[c]
  /\ answer[c].sender = account
  /\ NonceOf(c) # None => answer[c].nonce = NonceOf(c)

\* A mutant: nobody waits for the call before.
AnyTurn(c) == c \in ToSet(pending)

\* The promises before this one in #pending have settled.
Turn(c) == pending # <<>> /\ Head(pending) = c

\* A mutant: the queue stops at a call that was rejected.
EndsIfAnswered(next) == pending' = IF next = "answered" THEN Tail(pending) ELSE pending

\* The call at the head has settled, either way: its turn ends.
TurnEnds(next) == pending' = Tail(pending)

\* A mutant: the certificate stays.
KeepsCertificate(m) == UNCHANGED certificates

\* this.#certificates.delete(key).
DeleteCertificate(m) == certificates' = certificates \ {m}

MoveTo(c, s) == stage' = [stage EXCEPT ![c] = s]

-----------------------------------------------------------------------------
\* call(), update() or query(), up to the await of openChannel.
Make(c) ==
  /\ stage[c] = "idle"
  /\ MoveTo(c, "opening")
  /\ UNCHANGED <<account, pending, sender, answer, replied, executed,
                 certificates, handed, replaced>>

\* openChannel has resolved: the call is queued.
Enqueue(c) ==
  /\ stage[c] = "opening"
  /\ MoveTo(c, "queued")
  /\ pending' = Append(pending, c)
  /\ UNCHANGED <<account, sender, answer, replied, executed, certificates,
                 handed, replaced>>

\* openChannel has rejected.
OpenFails(c) ==
  /\ stage[c] = "opening"
  /\ MoveTo(c, "failed")
  /\ UNCHANGED <<account, pending, sender, answer, replied, executed,
                 certificates, handed, replaced>>

\* The callback of finally: callCanister, for the account the agent has now.
Dispatch(c) ==
  /\ stage[c] = "queued" /\ Turn(c)
  /\ MoveTo(c, "sent")
  /\ sender' = [sender EXCEPT ![c] = account]
  /\ UNCHANGED <<account, pending, answer, replied, executed, certificates,
                 handed, replaced>>

\* The nonces that the signer can put into a content map.
Known == {None, Own} \cup {NonceOf(c) : c \in {d \in Calls : stage[d] \in Asked}}

\* callCanister has resolved, with what the signer had executed before, has
\* executed now, or pretends to have executed.  The certificate need not hold a
\* reply: it has none when the canister rejected the call or trapped, and one
\* that is too old or not signed by the root key is not valid.
Answer(c) ==
  /\ stage[c] = "sent"
  /\ MoveTo(c, "answered")
  /\ TurnEnds("answered")
  /\ replied' \in {replied, replied \cup {c}}
  /\ \E m \in executed \cup {x \in ContentMaps : x.at = c /\ x.nonce \in Known} :
       /\ answer' = [answer EXCEPT ![c] = m]
       /\ \/ UNCHANGED <<executed, handed>>
          \/ /\ m \notin executed
             /\ executed' = executed \cup {m}
             /\ handed' = [x \in executed' |-> IF x = m THEN 0 ELSE handed[x]]
  /\ UNCHANGED <<account, sender, certificates, replaced>>

\* callCanister has rejected: an error of the signer, or the channel has closed.
CallFails(c) ==
  /\ stage[c] = "sent"
  /\ MoveTo(c, "rejected")
  /\ TurnEnds("rejected")
  /\ UNCHANGED <<account, sender, answer, replied, executed, certificates,
                 handed, replaced>>

\* The content map is compared with the call, up to the await of
\* Certificate.create.
Verify(c) ==
  /\ stage[c] = "answered"
  /\ MoveTo(c, IF Matches(c) THEN "verifying" ELSE "refused")
  /\ UNCHANGED <<account, pending, sender, answer, replied, executed,
                 certificates, handed, replaced>>

\* The certificate is valid and holds a reply to this content map, which it can
\* only if the content map was executed.
HoldsReply(c) == answer[c] \in executed /\ c \in replied

\* The certificate has been checked; one that holds the reply is kept for
\* readState.
Certify(c) ==
  /\ stage[c] = "verifying"
  /\ IF HoldsReply(c)
       THEN MoveTo(c, "done") /\ certificates' = certificates \cup {answer[c]}
       ELSE MoveTo(c, "refused") /\ UNCHANGED certificates
  /\ UNCHANGED <<account, pending, sender, answer, replied, executed, handed,
                 replaced>>

\* readState() of a request id whose certificate is there.
ReadState(m) ==
  /\ m \in certificates
  /\ DeleteCertificate(m)
  /\ handed[m] < Cardinality(Calls)
  /\ handed' = [handed EXCEPT ![m] = @ + 1]
  /\ UNCHANGED <<account, stage, pending, sender, answer, replied, executed,
                 replaced>>

\* replaceAccount(a).
ReplaceAccount(a) ==
  /\ replaced < MaxReplacements
  /\ replaced' = replaced + 1
  /\ account' = a
  /\ UNCHANGED <<stage, pending, sender, answer, replied, executed, certificates,
                 handed>>

Continue(c) ==
  \/ Enqueue(c) \/ OpenFails(c) \/ Dispatch(c) \/ Answer(c) \/ CallFails(c)
  \/ Verify(c) \/ Certify(c)

Next ==
  \/ \E c \in Calls : Make(c) \/ Continue(c)
  \/ \E m \in certificates : ReadState(m)
  \/ \E a \in Accounts : ReplaceAccount(a)

Spec == Init /\ [][Next]_vars

\* A call goes on: the transport settles the channel, the Signer settles every
\* request, and the promises of the page run.
FairSpec == Spec /\ \A c \in Calls : WF_vars(Continue(c))

-----------------------------------------------------------------------------
(***************************************************************************)
(* Properties                                                              *)
(***************************************************************************)

\* "Calls are queued to ensure sequential execution": the signer never has two
\* calls of an agent to approve, whatever becomes of the channels and the calls
\* before.
OneAtATime ==
  \A c, d \in Calls : stage[c] = "sent" /\ stage[d] = "sent" => c = d

\* A result is one that the call can have: the canister replied to an execution
\* of what was called, and a query's was executed for this very query.  Without
\* a nonce, an update may be given an earlier execution of the same target.
OwnResult ==
  \A c \in Calls : stage[c] = "done" =>
    /\ answer[c] \in executed /\ c \in replied
    /\ answer[c].target = Target[c]
    /\ c \in Queries => answer[c].at = c

\* A certificate was verified for a call before it is handed out, and it is
\* handed out once for each call that it was verified for.
HandedOnce ==
  \A m \in executed :
    handed[m] + (IF m \in certificates THEN 1 ELSE 0)
      <= Cardinality({c \in Calls : stage[c] = "done" /\ answer[c] = m})

\* The signer has done what call c asked for, with a nonce of its own perhaps,
\* and the canister has replied.
Honest(c) ==
  /\ HoldsReply(c) /\ answer[c].at = c
  /\ answer[c].target = Target[c] /\ answer[c].sender = sender[c]
  /\ c \in Queries => answer[c].nonce = c

\* The answer of a signer that did what it was asked, with a reply of the
\* canister, is refused only if the account was replaced while the call was with
\* the signer.  (A call that the canister rejects is refused in any case.)
HonestAccepted ==
  [][\A c \in Calls : Honest(c) /\ stage'[c] = "refused" /\ stage[c] # "refused"
       => account # sender[c]]_vars

\* Every call settles, however the calls before it in the queue have ended.
EventuallySettles ==
  \A c \in Calls :
    stage[c] = "opening" ~> stage[c] \in {"done", "refused", "rejected", "failed"}
=============================================================================
