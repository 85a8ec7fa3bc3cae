----------------------------- MODULE Delegation -----------------------------
(***************************************************************************)
(* Signer.requestDelegation: the relying party asks for a delegation, the  *)
(* signer answers with any chain, and the chain is decoded and validated   *)
(* by the clock of the relying party when the answer is read.              *)
(*                                                                         *)
(* A hop of a chain has a public key, targets and an expiration.  Hops     *)
(* without targets are Unscoped, and an expiration that is not a decimal   *)
(* string of at most 20 digits is Malformed.  An answer that is an error,  *)
(* or lacks a field, is rejected before any of this and not modelled.      *)
(***************************************************************************)
EXTENDS Integers, Sequences, SequencesExt

CONSTANTS
  Canisters,   \* the canisters that may be targets
  Keys,        \* the public keys
  Unscoped,    \* `targets` is undefined
  Malformed,   \* an expiration that toExpiration cannot read
  None,        \* maxTimeToLive is undefined
  MaxU64,      \* 2^64 - 1
  Skew,        \* skewNs
  MaxHops,     \* bound: the length of a chain
  MaxTtl,      \* bound: maxTimeToLive
  MaxTime      \* bound: the clock

ASSUME DelegationAssumption ==
  /\ MaxU64 \in Nat /\ Skew \in Nat /\ MaxHops \in Nat /\ MaxTtl \in Nat
  /\ MaxTime \in Nat /\ Keys # {}
  /\ \A scope \in SUBSET Canisters : scope # Unscoped
  /\ None \notin Nat /\ None \notin Canisters /\ Malformed \notin Nat

VARIABLES
  params,    \* what was requested
  clock,     \* Date.now() of the relying party
  drift,     \* what the signer's clock is ahead of it
  answer,    \* the chain the signer has sent
  honest,    \* did the signer grant what was asked, by its own clock?
  verdict    \* requested, answered, accepted or rejected

vars == <<params, clock, drift, answer, honest, verdict>>

Scopes  == {Unscoped} \cup SUBSET Canisters
Params  == [publicKey: Keys, targets: Scopes, maxTimeToLive: 0..MaxTtl \cup {None}]
Hops    == [pubkey: Keys, targets: Scopes, expiration: 0..(MaxU64 + 1) \cup {Malformed}]
Chains  == UNION {[1..n -> Hops] : n \in 0..MaxHops}

-----------------------------------------------------------------------------
(***************************************************************************)
(* Decoding and validation                                                 *)
(***************************************************************************)

\* A mutant: the range of an expiration is not checked.
AnyExpiration(e) == e # Malformed

\* toExpiration returns: the expiration is readable and fits 64 bits.
ToExpiration(e) == e # Malformed /\ e <= MaxU64

Decodes(chain) == \A k \in DOMAIN chain : ToExpiration(chain[k].expiration)

\* assertLeafKey: the last hop is for the requested key.
LeafKey(chain, key) == chain # <<>> /\ Last(chain).pubkey = key

\* A mutant: a chain without scoped hops satisfies any request.
NoScopeNeeded(chain, targets) ==
  \A k \in DOMAIN chain :
    chain[k].targets # Unscoped /\ targets # Unscoped => chain[k].targets \subseteq targets

\* What both scopes allow: a hop without targets does not constrain.
Both(scope, targets) ==
  IF targets = Unscoped THEN scope
  ELSE IF scope = Unscoped THEN targets ELSE scope \cap targets

\* `effective`: the intersection of the scoped hops, if there is one.
EffectiveScope(chain) ==
  LET Narrow(scope, hop) == Both(scope, hop.targets)
  IN FoldLeft(Narrow, Unscoped, chain)

\* assertTargetScope: a scoped request is answered with a scope within its own.
TargetScope(chain, targets) ==
  targets # Unscoped =>
    EffectiveScope(chain) # Unscoped /\ EffectiveScope(chain) \subseteq targets

\* A mutant: the chain lives as long as its first hop.
FirstExpiration(chain) == Head(chain).expiration

\* delegationChainExpiration: the earliest expiration of a hop.
ChainExpiration(chain) ==
  LET Earlier(e, hop) == IF hop.expiration < e THEN hop.expiration ELSE e
  IN FoldLeft(Earlier, Head(chain).expiration, chain)

\* A mutant: a chain that has expired meanwhile is refused.
LifetimeLeft(chain, maxTimeToLive) ==
  /\ clock <= ChainExpiration(chain)
  /\ maxTimeToLive # None => ChainExpiration(chain) <= clock + maxTimeToLive + Skew

\* assertLifetime, by the relying party's clock at the time of the check.
Lifetime(chain, maxTimeToLive) ==
  \/ maxTimeToLive = None
  \/ ChainExpiration(chain) <= clock + maxTimeToLive + Skew

\* The decode of requestDelegation with validateDelegationChain.
Validates(chain) ==
  /\ Decodes(chain)
  /\ LeafKey(chain, params.publicKey)
  /\ TargetScope(chain, params.targets)
  /\ Lifetime(chain, params.maxTimeToLive)

-----------------------------------------------------------------------------
(***************************************************************************)
(* What a chain grants                                                     *)
(***************************************************************************)

\* The Internet Computer lets a chain call a canister, at a time, if each of its
\* hops does.
Reaches(chain, canister) ==
  \A k \in DOMAIN chain : chain[k].targets # Unscoped => canister \in chain[k].targets
Lives(chain, time) == \A k \in DOMAIN chain : time <= chain[k].expiration

\* The canisters, with one that nobody names as a target, and the times.
Anything == Canisters \cup {None}
AnyTime  == 0..MaxU64

\* The chain is for the key, for no canister that was not asked for, and is of
\* use at no time after the given one.
GrantsOnly(chain, latest) ==
  /\ chain # <<>> /\ chain[Len(chain)].pubkey = params.publicKey
  /\ params.targets # Unscoped =>
       \A c \in Anything : Reaches(chain, c) => c \in params.targets
  /\ params.maxTimeToLive # None =>
       \A t \in AnyTime : Lives(chain, t) => t <= latest + params.maxTimeToLive

-----------------------------------------------------------------------------
Init ==
  /\ params \in Params
  /\ clock = 0 /\ drift \in (-Skew)..Skew
  /\ answer = <<>> /\ honest = FALSE
  /\ verdict = "requested"

Tick ==
  /\ clock < MaxTime
  /\ clock' = clock + 1
  /\ UNCHANGED <<params, drift, answer, honest, verdict>>

\* The signer answers with whatever chain; an honest one keeps to the request
\* by its own clock.
Answer ==
  /\ verdict = "requested"
  /\ \E chain \in Chains :
       /\ answer' = chain
       /\ honest' = (Decodes(chain) /\ GrantsOnly(chain, clock + drift))
  /\ verdict' = "answered"
  /\ UNCHANGED <<params, clock, drift>>

\* The answer is decoded when it arrives, and again on every page load on which
\* UrlChannel replays it to the same request.
Receive ==
  /\ verdict # "requested"
  /\ verdict' = IF Validates(answer) THEN "accepted" ELSE "rejected"
  /\ UNCHANGED <<params, clock, drift, answer, honest>>

Next == Tick \/ Answer \/ Receive

Spec == Init /\ [][Next]_vars

-----------------------------------------------------------------------------
(***************************************************************************)
(* Properties                                                              *)
(***************************************************************************)

\* The types, and that an accepted chain holds 64-bit expirations only: what
\* toExpiration lets through to the arithmetic of assertLifetime.
TypeOK ==
  /\ params \in Params
  /\ clock \in 0..MaxTime /\ drift \in (-Skew)..Skew
  /\ answer \in Chains
  /\ honest \in BOOLEAN
  /\ verdict \in {"requested", "answered", "accepted", "rejected"}
  /\ verdict = "accepted" => \A k \in DOMAIN answer : answer[k].expiration \in AnyTime

\* An accepted chain, evaluated hop by hop as the Internet Computer does, is for
\* the requested key, reaches no canister that was not asked for, and is of no
\* use once maxTimeToLive and the skew margin have passed (signer.ts:140-144).
GrantsNoMore == verdict = "accepted" => GrantsOnly(answer, clock + Skew)

\* A signer that honoured the request by its own clock, which differs from ours
\* by at most the margin, is not rejected, however late its answer is read
\* (signer.ts:129-132).
HonestAccepted == honest => verdict # "rejected"

\* A chain that was accepted once is accepted when the answer is replayed on a
\* later page load, so that a flow of the URL transport replays to its end.
StaysAccepted == [][verdict = "accepted" => verdict' = "accepted"]_vars
=============================================================================
