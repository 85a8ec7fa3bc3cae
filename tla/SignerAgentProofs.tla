------------------------- MODULE SignerAgentProofs --------------------------
(***************************************************************************)
(* Proofs about SignerAgent, for every set of calls and accounts, any      *)
(* number of replacements and every behaviour of the signer.               *)
(***************************************************************************)
EXTENDS SignerAgent, FiniteSetTheorems, TLAPS

\* A queue with one more entry.
LEMMA AppendEntry ==
  ASSUME NEW S, NEW s \in Seq(S), NEW e \in S, IsInjective(s), e \notin ToSet(s)
  PROVE  /\ Append(s, e) \in Seq(S)
         /\ ToSet(Append(s, e)) = ToSet(s) \cup {e}
         /\ IsInjective(Append(s, e))
         /\ Append(s, e) # <<>>
         /\ s # <<>> => Head(Append(s, e)) = Head(s)
<1> DEFINE t == Append(s, e)
<1>1. t \in Seq(S) /\ Len(t) = Len(s) + 1 /\ t # <<>>
  OBVIOUS
<1>2. /\ DOMAIN t = 1..(Len(s) + 1) /\ DOMAIN s = 1..Len(s)
      /\ \A i \in 1..Len(s) : t[i] = s[i]
      /\ t[Len(s) + 1] = e
  OBVIOUS
<1>3. ToSet(t) = ToSet(s) \cup {e}
  <2>1. ToSet(t) \subseteq ToSet(s) \cup {e}
    BY <1>1, <1>2 DEF ToSet
  <2>2. ToSet(s) \subseteq ToSet(t) /\ e \in ToSet(t)
    BY <1>1, <1>2 DEF ToSet
  <2>3. QED
    BY <2>1, <2>2
<1>4. IsInjective(t)
  BY <1>1, <1>2 DEF IsInjective, ToSet
<1>5. s # <<>> => Head(t) = Head(s)
  BY <1>1, <1>2
<1>6. QED
  BY <1>1, <1>3, <1>4, <1>5

\* A queue without its first entry.
LEMMA TailEntries ==
  ASSUME NEW S, NEW s \in Seq(S), s # <<>>, IsInjective(s)
  PROVE  /\ Tail(s) \in Seq(S)
         /\ ToSet(Tail(s)) = ToSet(s) \ {Head(s)}
         /\ IsInjective(Tail(s))
<1> DEFINE t == Tail(s)
<1>1. t \in Seq(S) /\ Len(t) = Len(s) - 1 /\ Len(s) \in Nat \ {0}
  OBVIOUS
<1>2. /\ DOMAIN t = 1..(Len(s) - 1) /\ DOMAIN s = 1..Len(s)
      /\ \A i \in 1..(Len(s) - 1) : t[i] = s[i + 1]
      /\ Head(s) = s[1]
  OBVIOUS
<1>3. ToSet(t) = ToSet(s) \ {Head(s)}
  <2>1. ASSUME NEW x \in ToSet(t) PROVE x \in ToSet(s) /\ x # Head(s)
    <3>1. PICK i \in 1..(Len(s) - 1) : x = s[i + 1]
      BY <1>2 DEF ToSet
    <3>2. i + 1 \in 1..Len(s) /\ i + 1 # 1 /\ 1 \in 1..Len(s)
      BY <1>1
    <3>3. QED
      BY <1>2, <3>1, <3>2 DEF ToSet, IsInjective
  <2>2. ASSUME NEW x \in ToSet(s), x # Head(s) PROVE x \in ToSet(t)
    <3>1. PICK i \in 1..Len(s) : x = s[i]
      BY <1>2 DEF ToSet
    <3>2. i # 1
      BY <1>2, <2>2, <3>1
    <3>3. i - 1 \in 1..(Len(s) - 1) /\ t[i - 1] = s[i]
      BY <1>1, <1>2, <3>2
    <3>4. QED
      BY <1>2, <3>1, <3>3 DEF ToSet
  <2>3. QED
    BY <2>1, <2>2
<1>4. IsInjective(t)
  BY <1>1, <1>2 DEF IsInjective
<1>5. QED
  BY <1>1, <1>3, <1>4

-----------------------------------------------------------------------------
(***************************************************************************)
(* The queue                                                               *)
(***************************************************************************)

\* The types of the variables, one by one; the queue is a sequence of calls.
Types ==
  /\ account \in Accounts
  /\ stage \in [Calls -> Stages]
  /\ pending \in Seq(Calls)
  /\ sender \in [Calls -> Accounts \cup {None}]
  /\ answer \in [Calls -> ContentMaps \cup {None}]
  /\ replied \in SUBSET Calls
  /\ executed \in SUBSET ContentMaps
  /\ certificates \in SUBSET executed
  /\ handed \in [executed -> 0..Cardinality(Calls)]
  /\ replaced \in 0..MaxReplacements

\* The queue holds the calls that wait for their turn, and the one whose turn
\* it is comes first.
QueueInv ==
  /\ ToSet(pending) = {c \in Calls : stage[c] \in Running}
  /\ IsInjective(pending)
  /\ \A c \in Calls : stage[c] = "sent" => pending # <<>> /\ Head(pending) = c

IInv == Types /\ QueueInv

LEMMA InitIInv == Init => IInv
<1> SUFFICES ASSUME Init PROVE IInv
  OBVIOUS
<1>1. Types
  <2>1. Cardinality(Calls) \in Nat
    BY CallsAssumption, FS_CardinalityType, FS_Union DEF Calls
  <2>2. handed \in [executed -> 0..Cardinality(Calls)]
    BY <2>1 DEF Init
  <2>3. QED
    BY <2>2, CallsAssumption DEF Init, Types, Stages
<1>2. QueueInv
  BY DEF Init, QueueInv, ToSet, IsInjective, Running
<1>3. QED
  BY <1>1, <1>2 DEF IInv

\* What a turn that ends does to the queue.
LEMMA QueueAdvances ==
  ASSUME Types, QueueInv, NEW c \in Calls, stage[c] = "sent",
         NEW s \in Stages, s \notin Running,
         MoveTo(c, s), TurnEnds(s)
  PROVE  pending' \in Seq(Calls) /\ QueueInv'
<1>1. pending # <<>> /\ Head(pending) = c /\ pending' = Tail(pending)
  BY DEF QueueInv, TurnEnds
<1>2. /\ pending' \in Seq(Calls)
      /\ ToSet(pending') = ToSet(pending) \ {c}
      /\ IsInjective(pending')
  BY <1>1, TailEntries DEF Types, QueueInv
<1>3. \A d \in Calls : stage'[d] = IF d = c THEN s ELSE stage[d]
  BY DEF MoveTo, Types
<1>4. \A d \in Calls : stage[d] = "sent" => d = c
  BY <1>1 DEF QueueInv
<1>5. ToSet(pending') = {d \in Calls : stage'[d] \in Running}
  BY <1>2, <1>3 DEF QueueInv
<1>6. \A d \in Calls : stage'[d] # "sent"
  BY <1>3, <1>4 DEF Running
<1>7. QED
  BY <1>2, <1>5, <1>6 DEF QueueInv

\* A step that moves a call outside the queue leaves the queue as it is.
LEMMA QueueStays ==
  ASSUME Types, QueueInv, NEW c \in Calls, NEW s \in Stages,
         stage[c] \notin Running, s \notin Running,
         MoveTo(c, s), UNCHANGED pending
  PROVE  QueueInv'
<1>1. \A d \in Calls : stage'[d] = IF d = c THEN s ELSE stage[d]
  BY DEF MoveTo, Types
<1>2. ToSet(pending') = {d \in Calls : stage'[d] \in Running}
  BY <1>1 DEF QueueInv
<1>3. \A d \in Calls : stage'[d] = "sent" => stage[d] = "sent"
  BY <1>1 DEF Running
<1>4. QED
  BY <1>2, <1>3 DEF QueueInv

LEMMA NextIInv == IInv /\ [Next]_vars => IInv'
<1> SUFFICES ASSUME IInv, [Next]_vars PROVE IInv'
  OBVIOUS
<1> USE DEF IInv
<1>1. CASE UNCHANGED vars
  BY <1>1 DEF vars, Types, QueueInv
<1>2. ASSUME NEW c \in Calls, Make(c) PROVE IInv'
  <2>1. Types'
    BY <1>2 DEF Types, Make, MoveTo, Stages
  <2>2. QueueInv'
    BY <1>2, QueueStays DEF Make, Running, Stages
  <2>3. QED
    BY <2>1, <2>2
<1>3. ASSUME NEW c \in Calls, Enqueue(c) PROVE IInv'
  <2>1. stage[c] = "opening" /\ pending' = Append(pending, c) /\ MoveTo(c, "queued")
    BY <1>3 DEF Enqueue
  <2>2. c \notin ToSet(pending)
    BY <2>1 DEF QueueInv, Running
  <2>3. /\ pending' \in Seq(Calls)
        /\ ToSet(pending') = ToSet(pending) \cup {c}
        /\ IsInjective(pending') /\ pending' # <<>>
        /\ pending # <<>> => Head(pending') = Head(pending)
    BY <2>1, <2>2, AppendEntry DEF Types, QueueInv
  <2>4. \A d \in Calls : stage'[d] = IF d = c THEN "queued" ELSE stage[d]
    BY <2>1 DEF MoveTo, Types
  <2>5. Types'
    BY <1>3, <2>3 DEF Types, Enqueue, MoveTo, Stages
  <2>6. ToSet(pending') = {d \in Calls : stage'[d] \in Running}
    BY <2>3, <2>4 DEF QueueInv, Running
  <2>7. \A d \in Calls : stage'[d] = "sent" => pending' # <<>> /\ Head(pending') = d
    BY <2>3, <2>4 DEF QueueInv
  <2>8. QED
    BY <2>3, <2>5, <2>6, <2>7 DEF QueueInv
<1>4. ASSUME NEW c \in Calls, OpenFails(c) PROVE IInv'
  <2>1. Types'
    BY <1>4 DEF Types, OpenFails, MoveTo, Stages
  <2>2. QueueInv'
    BY <1>4, QueueStays DEF OpenFails, Running, Stages
  <2>3. QED
    BY <2>1, <2>2
<1>5. ASSUME NEW c \in Calls, Dispatch(c) PROVE IInv'
  <2>1. stage[c] = "queued" /\ pending # <<>> /\ Head(pending) = c /\ pending' = pending
    BY <1>5 DEF Dispatch, Turn
  <2>2. \A d \in Calls : stage'[d] = IF d = c THEN "sent" ELSE stage[d]
    BY <1>5 DEF Dispatch, MoveTo, Types
  <2>3. Types'
    BY <1>5 DEF Types, Dispatch, MoveTo, Stages, Asked
  <2>4. ToSet(pending') = {d \in Calls : stage'[d] \in Running}
    BY <2>1, <2>2 DEF QueueInv, Running
  <2>5. \A d \in Calls : stage'[d] = "sent" => pending' # <<>> /\ Head(pending') = d
    BY <2>1, <2>2 DEF QueueInv
  <2>6. QED
    BY <2>1, <2>3, <2>4, <2>5 DEF QueueInv
<1>6. ASSUME NEW c \in Calls, Answer(c) PROVE IInv'
  <2>1. stage[c] = "sent" /\ MoveTo(c, "answered") /\ TurnEnds("answered")
    BY <1>6 DEF Answer
  <2>2. pending' \in Seq(Calls) /\ QueueInv'
    BY <2>1, QueueAdvances DEF Running, Stages, Asked
  <2>3. PICK m \in ContentMaps :
          /\ answer' = [answer EXCEPT ![c] = m]
          /\ \/ UNCHANGED <<executed, handed>>
             \/ /\ executed' = executed \cup {m}
                /\ handed' = [x \in executed' |-> IF x = m THEN 0 ELSE handed[x]]
    BY <1>6 DEF Answer, Types
  <2>4. Cardinality(Calls) \in Nat
    BY CallsAssumption, FS_CardinalityType, FS_Union DEF Calls
  <2>5. /\ executed' \in SUBSET ContentMaps /\ certificates' \in SUBSET executed'
        /\ handed' \in [executed' -> 0..Cardinality(Calls)]
    BY <1>6, <2>3, <2>4 DEF Answer, Types
  <2>6. Types'
    BY <1>6, <2>1, <2>2, <2>3, <2>5 DEF Types, Answer, MoveTo, Stages, Asked
  <2>7. QED
    BY <2>2, <2>6
<1>7. ASSUME NEW c \in Calls, CallFails(c) PROVE IInv'
  <2>1. stage[c] = "sent" /\ MoveTo(c, "rejected") /\ TurnEnds("rejected")
    BY <1>7 DEF CallFails
  <2>2. pending' \in Seq(Calls) /\ QueueInv'
    BY <2>1, QueueAdvances DEF Running, Stages, Asked
  <2>3. Types'
    BY <1>7, <2>1, <2>2 DEF Types, CallFails, MoveTo, Stages, Asked
  <2>4. QED
    BY <2>2, <2>3
<1>8. ASSUME NEW c \in Calls, Verify(c) PROVE IInv'
  <2>1. PICK s \in {"verifying", "refused"} : MoveTo(c, s)
    BY <1>8 DEF Verify
  <2>2. Types'
    BY <1>8, <2>1 DEF Types, Verify, MoveTo, Stages, Asked
  <2>3. QueueInv'
    BY <1>8, <2>1, QueueStays DEF Verify, Running, Stages, Asked
  <2>4. QED
    BY <2>2, <2>3
<1>9. ASSUME NEW c \in Calls, Certify(c) PROVE IInv'
  <2>1. PICK s \in {"done", "refused"} : MoveTo(c, s)
    BY <1>9 DEF Certify
  <2>2. Types'
    BY <1>9, <2>1 DEF Types, Certify, MoveTo, Stages, Asked, HoldsReply
  <2>3. QueueInv'
    BY <1>9, <2>1, QueueStays DEF Certify, Running, Stages, Asked
  <2>4. QED
    BY <2>2, <2>3
<1>10. ASSUME NEW m \in certificates, ReadState(m) PROVE IInv'
  <2>1. Cardinality(Calls) \in Nat
    BY CallsAssumption, FS_CardinalityType, FS_Union DEF Calls
  <2>2. handed' \in [executed' -> 0..Cardinality(Calls)]
    BY <1>10, <2>1 DEF ReadState, Types
  <2>3. Types'
    BY <1>10, <2>2 DEF Types, ReadState, DeleteCertificate
  <2>4. QueueInv'
    BY <1>10 DEF ReadState, QueueInv
  <2>5. QED
    BY <2>3, <2>4
<1>11. ASSUME NEW a \in Accounts, ReplaceAccount(a) PROVE IInv'
  <2>1. Types'
    BY <1>11, CallsAssumption DEF Types, ReplaceAccount
  <2>2. QueueInv'
    BY <1>11 DEF ReplaceAccount, QueueInv
  <2>3. QED
    BY <2>1, <2>2
<1>12. QED
  BY <1>1, <1>2, <1>3, <1>4, <1>5, <1>6, <1>7, <1>8, <1>9, <1>10, <1>11
  DEF Next, Continue

LEMMA QueueInvariant == Spec => []IInv
  BY InitIInv, NextIInv, PTL DEF Spec

\* The state of an agent has its type, and its queue holds the calls that wait
\* for their turn or have it, each of them once.
THEOREM TypeCorrect == Spec => []TypeOK
<1>1. IInv => TypeOK
  BY DEF IInv, Types, QueueInv, TypeOK
<1>2. QED
  BY <1>1, QueueInvariant, PTL

\* The signer never has two calls of an agent to approve.
THEOREM OneCallAtATime == Spec => []OneAtATime
<1>1. IInv => OneAtATime
  BY DEF IInv, QueueInv, OneAtATime
<1>2. QED
  BY <1>1, QueueInvariant, PTL

-----------------------------------------------------------------------------
(***************************************************************************)
(* The results                                                             *)
(***************************************************************************)

\* Nothing was executed with the nonce of a query that has not been answered:
\* before it is sent nobody knows the nonce, and then nothing else is executed.
NonceUnused ==
  \A c \in Queries, m \in executed :
    stage[c] \in {"idle", "opening", "queued", "sent", "failed"} => m.nonce # c

\* What a call was answered with and what of it has been verified.
ResultInv ==
  \A c \in Calls :
    /\ stage[c] \in {"answered", "verifying", "done"} =>
         /\ answer[c] \in ContentMaps
         /\ c \in Queries /\ answer[c].nonce = c => answer[c].at = c
    /\ stage[c] \in {"verifying", "done"} =>
         /\ answer[c].target = Target[c]
         /\ c \in Queries => answer[c].nonce = c
    /\ stage[c] = "done" => answer[c] \in executed /\ c \in replied

Fresh == IInv /\ NonceUnused /\ ResultInv

LEMMA NextFresh == Fresh /\ [Next]_vars => Fresh'
<1> SUFFICES ASSUME Fresh, [Next]_vars PROVE NonceUnused' /\ ResultInv'
  BY NextIInv DEF Fresh
<1> USE DEF Fresh, IInv
<1> DEFINE Early == {"idle", "opening", "queued", "sent", "failed"}
           Late  == {"answered", "verifying", "done"}
<1>0. \A c \in Queries : c \in Calls /\ c # None /\ c # Own /\ NonceOf(c) = c
  BY CallsAssumption DEF Calls, NonceOf
\* A step that executes nothing, answers nothing and moves one call, if any,
\* neither into Early nor into Late, leaves both as they are.
<1>1. ASSUME UNCHANGED <<answer, replied, executed>>,
             \A d \in Calls : stage'[d] = stage[d] \/ stage'[d] \in {"refused", "rejected"}
                                \/ (stage[d] \in Early /\ stage'[d] \in Early)
      PROVE  NonceUnused' /\ ResultInv'
  <2>1. NonceUnused'
    BY <1>0, <1>1 DEF NonceUnused
  <2>2. \A d \in Calls : stage'[d] \in Late => stage'[d] = stage[d]
    BY <1>1
  <2>3. ResultInv'
    BY <1>1, <2>2 DEF ResultInv
  <2>4. QED
    BY <2>1, <2>3
<1>2. CASE UNCHANGED vars
  BY <1>1, <1>2 DEF vars
<1>3. ASSUME NEW c \in Calls, Make(c) PROVE NonceUnused' /\ ResultInv'
  BY <1>1, <1>3 DEF Make, MoveTo, Types
<1>4. ASSUME NEW c \in Calls, Enqueue(c) PROVE NonceUnused' /\ ResultInv'
  BY <1>1, <1>4 DEF Enqueue, MoveTo, Types
<1>5. ASSUME NEW c \in Calls, OpenFails(c) PROVE NonceUnused' /\ ResultInv'
  BY <1>1, <1>5 DEF OpenFails, MoveTo, Types
<1>6. ASSUME NEW c \in Calls, Dispatch(c) PROVE NonceUnused' /\ ResultInv'
  BY <1>1, <1>6 DEF Dispatch, MoveTo, Types
<1>7. ASSUME NEW c \in Calls, CallFails(c) PROVE NonceUnused' /\ ResultInv'
  BY <1>1, <1>7 DEF CallFails, MoveTo, Types
<1>8. ASSUME NEW c \in Calls, Answer(c) PROVE NonceUnused' /\ ResultInv'
  <2>1. PICK m \in executed \cup {x \in ContentMaps : x.at = c /\ x.nonce \in Known} :
          /\ answer' = [answer EXCEPT ![c] = m]
          /\ \/ UNCHANGED <<executed, handed>>
             \/ executed' = executed \cup {m} /\ m \notin executed
    BY <1>8 DEF Answer
  <2>2. /\ stage[c] = "sent"
        /\ \A d \in Calls : stage'[d] = IF d = c THEN "answered" ELSE stage[d]
    BY <1>8 DEF Answer, MoveTo, Types
  <2>3. \A d \in Calls : stage[d] = "sent" => d = c
    BY <2>2 DEF QueueInv
  <2>4. m \in ContentMaps /\ executed \subseteq executed' /\ executed' \subseteq executed \cup {m}
    BY <2>1 DEF Types
  <2>5. ASSUME NEW d \in Queries, m.nonce = d, m \notin executed
        PROVE  d = c \/ stage[d] \notin Early
    <3>1. m.nonce \in Known
      BY <2>1, <2>5
    <3>2. d \in {NonceOf(e) : e \in {x \in Calls : stage[x] \in Asked}}
      BY <1>0, <2>5, <3>1 DEF Known
    <3>3. PICK e \in Calls : stage[e] \in Asked /\ d = NonceOf(e)
      BY <3>2
    <3>4. e = d
      BY <1>0, <3>3 DEF NonceOf
    <3>5. QED
      BY <2>3, <3>3, <3>4 DEF Asked
  <2>6. NonceUnused'
    BY <1>0, <2>2, <2>4, <2>5 DEF NonceUnused
  <2>7. c \in Queries /\ m.nonce = c => m.at = c
    BY <2>1, <2>2 DEF NonceUnused
  <2>8. \A d \in Calls : answer'[d] = IF d = c THEN m ELSE answer[d]
    BY <2>1 DEF Types
  <2>9. replied \subseteq replied'
    BY <1>8 DEF Answer
  <2>10. ResultInv'
    BY <2>2, <2>4, <2>7, <2>8, <2>9 DEF ResultInv
  <2>11. QED
    BY <2>6, <2>10
<1>9. ASSUME NEW c \in Calls, Verify(c) PROVE NonceUnused' /\ ResultInv'
  <2>1. CASE ~Matches(c)
    BY <1>1, <1>9, <2>1 DEF Verify, MoveTo, Types
  <2>2. CASE Matches(c)
    <3>1. /\ stage[c] = "answered" /\ UNCHANGED <<answer, replied, executed>>
          /\ \A d \in Calls : stage'[d] = IF d = c THEN "verifying" ELSE stage[d]
      BY <1>9, <2>2 DEF Verify, MoveTo, Types
    <3>2. answer[c].target = Target[c] /\ (c \in Queries => answer[c].nonce = c)
      BY <1>0, <2>2 DEF Matches
    <3>3. NonceUnused'
      BY <1>0, <3>1 DEF NonceUnused
    <3>4. ResultInv'
      BY <3>1, <3>2 DEF ResultInv
    <3>5. QED
      BY <3>3, <3>4
  <2>3. QED
    BY <2>1, <2>2
<1>10. ASSUME NEW c \in Calls, Certify(c) PROVE NonceUnused' /\ ResultInv'
  <2>1. CASE ~HoldsReply(c)
    BY <1>1, <1>10, <2>1 DEF Certify, MoveTo, Types
  <2>2. CASE HoldsReply(c)
    <3>1. /\ stage[c] = "verifying" /\ UNCHANGED <<answer, replied, executed>>
          /\ \A d \in Calls : stage'[d] = IF d = c THEN "done" ELSE stage[d]
      BY <1>10, <2>2 DEF Certify, MoveTo, Types
    <3>2. NonceUnused'
      BY <1>0, <3>1 DEF NonceUnused
    <3>3. ResultInv'
      BY <2>2, <3>1 DEF ResultInv, HoldsReply
    <3>4. QED
      BY <3>2, <3>3
  <2>3. QED
    BY <2>1, <2>2
<1>11. ASSUME NEW m \in certificates, ReadState(m) PROVE NonceUnused' /\ ResultInv'
  BY <1>1, <1>11 DEF ReadState
<1>12. ASSUME NEW a \in Accounts, ReplaceAccount(a) PROVE NonceUnused' /\ ResultInv'
  BY <1>1, <1>12 DEF ReplaceAccount
<1>13. QED
  BY <1>2, <1>3, <1>4, <1>5, <1>6, <1>7, <1>8, <1>9, <1>10, <1>11, <1>12
  DEF Next, Continue

LEMMA FreshInvariant == Spec => []Fresh
<1>1. Init => Fresh
  BY InitIInv DEF Init, Fresh, NonceUnused, ResultInv
<1>2. QED
  BY <1>1, NextFresh, PTL DEF Spec

\* A call returns a certified reply to an execution of what it called, and a
\* query one to its own execution; an update may be given an earlier execution of
\* the same target.
THEOREM ResultsAreOwn == Spec => []OwnResult
<1>1. Fresh => OwnResult
  BY DEF Fresh, ResultInv, OwnResult
<1>2. QED
  BY <1>1, FreshInvariant, PTL

\* An honest answer that the canister replied to is refused only if the account
\* was replaced under the call.
THEOREM HonestAnswersAreAccepted == Spec => HonestAccepted
<1>1. ASSUME IInv, [Next]_vars, NEW c \in Calls,
             Honest(c), stage'[c] = "refused", stage[c] # "refused"
      PROVE  account # sender[c]
  <2> USE DEF IInv
  <2>1. CASE UNCHANGED vars
    BY <1>1, <2>1 DEF vars
  <2>2. ASSUME NEW d \in Calls, Make(d) \/ Enqueue(d) \/ OpenFails(d) \/ Dispatch(d)
                                \/ Answer(d) \/ CallFails(d)
        PROVE  FALSE
    <3>1. PICK s \in Stages \ {"refused"} : MoveTo(d, s)
      BY <2>2 DEF Make, Enqueue, OpenFails, Dispatch, Answer, CallFails, Stages, Asked
    <3>2. QED
      BY <1>1, <3>1 DEF MoveTo, Types
  <2>3. ASSUME NEW d \in Calls, Verify(d) PROVE account # sender[c]
    <3>1. d = c /\ ~Matches(c)
      BY <1>1, <2>3 DEF Verify, MoveTo, Types
    <3>2. NonceOf(c) # None => answer[c].nonce = NonceOf(c)
      BY <1>1 DEF Honest, NonceOf
    <3>3. QED
      BY <1>1, <3>1, <3>2 DEF Matches, Honest
  <2>4. ASSUME NEW d \in Calls, Certify(d) PROVE FALSE
    BY <1>1, <2>4 DEF Certify, MoveTo, Types, Honest, HoldsReply
  <2>5. ASSUME NEW m \in certificates, ReadState(m) PROVE FALSE
    BY <1>1, <2>5 DEF ReadState
  <2>6. ASSUME NEW a \in Accounts, ReplaceAccount(a) PROVE FALSE
    BY <1>1, <2>6 DEF ReplaceAccount
  <2>7. QED
    BY <1>1, <2>1, <2>2, <2>3, <2>4, <2>5, <2>6 DEF Next, Continue
<1>2. IInv /\ [Next]_vars =>
        [\A c \in Calls : Honest(c) /\ stage'[c] = "refused" /\ stage[c] # "refused"
           => account # sender[c]]_vars
  BY <1>1
<1>3. QED
  BY <1>2, QueueInvariant, PTL DEF Spec, HonestAccepted

-----------------------------------------------------------------------------
(***************************************************************************)
(* The certificates                                                        *)
(***************************************************************************)

\* The calls that an execution was verified for.
VerifiedFor(m) == {c \in Calls : stage[c] = "done" /\ answer[c] = m}

LEMMA VerifiedCount ==
  \A m : IsFiniteSet(VerifiedFor(m)) /\ Cardinality(VerifiedFor(m)) \in Nat
<1> TAKE m
<1>1. IsFiniteSet(Calls)
  BY CallsAssumption, FS_Union DEF Calls
<1>2. IsFiniteSet(VerifiedFor(m))
  BY <1>1, FS_Subset DEF VerifiedFor
<1>3. QED
  BY <1>2, FS_CardinalityType

LEMMA NextHanded == IInv /\ HandedOnce /\ [Next]_vars => HandedOnce'
<1> SUFFICES ASSUME IInv, HandedOnce, [Next]_vars PROVE HandedOnce'
  OBVIOUS
<1> USE DEF IInv
<1> DEFINE Count(m) == Cardinality(VerifiedFor(m))
           Left(m) == IF m \in certificates THEN 1 ELSE 0
<1>0. \A m \in executed : handed[m] \in Nat /\ Count(m) \in Nat /\ handed[m] + Left(m) <= Count(m)
  <2>1. Cardinality(Calls) \in Nat
    BY CallsAssumption, FS_CardinalityType, FS_Union DEF Calls
  <2> SUFFICES ASSUME NEW m \in executed
               PROVE  /\ handed[m] \in Nat /\ Count(m) \in Nat
                      /\ handed[m] + Left(m) <= Count(m)
    OBVIOUS
  <2>2. handed[m] \in Nat
    BY <2>1 DEF Types
  <2>3. handed[m] + Left(m) <= Cardinality({c \in Calls : stage[c] = "done" /\ answer[c] = m})
    BY DEF HandedOnce
  <2>4. QED
    BY <2>2, <2>3, VerifiedCount DEF VerifiedFor
\* A step that completes no call and hands nothing out.
<1>1. ASSUME UNCHANGED <<answer, executed, certificates, handed>>,
             \A d \in Calls : stage'[d] = "done" <=> stage[d] = "done"
      PROVE  HandedOnce'
  <2>1. \A m \in executed :
          {c \in Calls : stage'[c] = "done" /\ answer'[c] = m} = VerifiedFor(m)
    BY <1>1 DEF VerifiedFor
  <2>2. QED
    BY <1>0, <1>1, <2>1 DEF HandedOnce
<1>2. CASE UNCHANGED vars
  BY <1>1, <1>2 DEF vars
<1>3. ASSUME NEW c \in Calls,
             Make(c) \/ Enqueue(c) \/ OpenFails(c) \/ Dispatch(c) \/ CallFails(c) \/ Verify(c)
      PROVE  HandedOnce'
  <2>1. PICK s \in Stages \ {"done"} : MoveTo(c, s) /\ stage[c] # "done"
    BY <1>3 DEF Make, Enqueue, OpenFails, Dispatch, CallFails, Verify, Stages, Asked
  <2>2. \A d \in Calls : stage'[d] = "done" <=> stage[d] = "done"
    BY <2>1 DEF MoveTo, Types
  <2>3. UNCHANGED <<answer, executed, certificates, handed>>
    BY <1>3 DEF Make, Enqueue, OpenFails, Dispatch, CallFails, Verify
  <2>4. QED
    BY <1>1, <2>2, <2>3
<1>4. ASSUME NEW c \in Calls, Answer(c) PROVE HandedOnce'
  <2>1. PICK x \in ContentMaps :
          /\ answer' = [answer EXCEPT ![c] = x]
          /\ \/ UNCHANGED <<executed, handed>>
             \/ /\ x \notin executed
                /\ executed' = executed \cup {x}
                /\ handed' = [y \in executed' |-> IF y = x THEN 0 ELSE handed[y]]
    BY <1>4 DEF Answer, Types
  <2>2. /\ \A d \in Calls : stage'[d] = "done" <=> stage[d] = "done"
        /\ stage[c] # "done" /\ certificates' = certificates
    BY <1>4 DEF Answer, MoveTo, Types
  <2>3. \A m : {d \in Calls : stage'[d] = "done" /\ answer'[d] = m} = VerifiedFor(m)
    BY <2>1, <2>2 DEF VerifiedFor, Types
  <2>4. ASSUME NEW m \in executed'
        PROVE  handed'[m] + (IF m \in certificates' THEN 1 ELSE 0) <= Count(m)
    <3>1. CASE m \in executed
      <4>1. handed'[m] = handed[m]
        BY <2>1, <3>1
      <4>2. QED
        BY <1>0, <2>2, <3>1, <4>1
    <3>2. CASE m \notin executed
      <4>1. handed'[m] = 0 /\ m \notin certificates'
        BY <2>1, <2>2, <3>2 DEF Types
      <4>2. Count(m) \in Nat
        BY VerifiedCount
      <4>3. QED
        BY <4>1, <4>2
    <3>3. QED
      BY <3>1, <3>2
  <2>5. QED
    BY <2>3, <2>4 DEF HandedOnce
<1>5. ASSUME NEW c \in Calls, Certify(c) PROVE HandedOnce'
  <2>1. CASE ~HoldsReply(c)
    BY <1>1, <1>5, <2>1 DEF Certify, MoveTo, Types
  <2>2. CASE HoldsReply(c)
    <3>1. /\ UNCHANGED <<answer, executed, handed>> /\ stage[c] = "verifying"
          /\ certificates' = certificates \cup {answer[c]} /\ answer[c] \in executed
          /\ \A d \in Calls : stage'[d] = IF d = c THEN "done" ELSE stage[d]
      BY <1>5, <2>2 DEF Certify, MoveTo, Types, HoldsReply
    <3>2. ASSUME NEW m \in executed
          PROVE  handed[m] + (IF m \in certificates' THEN 1 ELSE 0)
                   <= Cardinality({d \in Calls : stage'[d] = "done" /\ answer'[d] = m})
      <4>1. CASE m = answer[c]
        <5>1. {d \in Calls : stage'[d] = "done" /\ answer'[d] = m} = VerifiedFor(m) \cup {c}
          BY <3>1, <4>1 DEF VerifiedFor
        <5>2. c \notin VerifiedFor(m)
          BY <3>1 DEF VerifiedFor
        <5>3. Cardinality(VerifiedFor(m) \cup {c}) = Count(m) + 1
          BY <5>2, VerifiedCount, FS_AddElement
        <5>4. Cardinality({d \in Calls : stage'[d] = "done" /\ answer'[d] = m}) = Count(m) + 1
          BY <5>1, <5>3
        <5>5. handed[m] \in Nat /\ Count(m) \in Nat /\ handed[m] <= Count(m)
          BY <1>0
        <5>6. QED
          BY <5>4, <5>5
      <4>2. CASE m # answer[c]
        <5>1. {d \in Calls : stage'[d] = "done" /\ answer'[d] = m} = VerifiedFor(m)
          BY <3>1, <4>2 DEF VerifiedFor
        <5>2. QED
          BY <1>0, <3>1, <4>2, <5>1
      <4>3. QED
        BY <4>1, <4>2
    <3>3. QED
      BY <3>1, <3>2 DEF HandedOnce
  <2>3. QED
    BY <2>1, <2>2
<1>6. ASSUME NEW x \in certificates, ReadState(x) PROVE HandedOnce'
  <2>1. /\ UNCHANGED <<answer, executed, stage>> /\ certificates' = certificates \ {x}
        /\ handed' = [handed EXCEPT ![x] = @ + 1] /\ x \in executed
    BY <1>6 DEF ReadState, DeleteCertificate, Types
  <2>2. \A m \in executed :
          {d \in Calls : stage'[d] = "done" /\ answer'[d] = m} = VerifiedFor(m)
    BY <2>1 DEF VerifiedFor
  <2>3. \A m \in executed : handed'[m] = IF m = x THEN handed[m] + 1 ELSE handed[m]
    BY <2>1 DEF Types
  <2>4. QED
    BY <1>0, <2>1, <2>2, <2>3 DEF HandedOnce
<1>7. ASSUME NEW a \in Accounts, ReplaceAccount(a) PROVE HandedOnce'
  BY <1>1, <1>7 DEF ReplaceAccount
<1>8. QED
  BY <1>2, <1>3, <1>4, <1>5, <1>6, <1>7 DEF Next, Continue

\* No certificate is handed out that was not verified for a call, nor more often
\* than it was verified.
THEOREM CertificatesAreHandedOnce == Spec => []HandedOnce
<1>1. Init => HandedOnce
  BY DEF Init, HandedOnce
<1>2. QED
  BY <1>1, NextHanded, QueueInvariant, PTL DEF Spec
=============================================================================
