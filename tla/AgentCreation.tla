--------------------------- MODULE AgentCreation ---------------------------
(***************************************************************************)
(* The creation of SignerAgents.  The constructor is guarded by a static   *)
(* flag that create() and createSync() set and the constructor clears;     *)
(* create() may wait for an HttpAgent in between.                          *)
(***************************************************************************)
EXTENDS TLAPS

CONSTANT Creations   \* the calls of create() and createSync()

VARIABLES
  isInternalConstructing,  \* the static guard
  creation                 \* what has become of each call

vars == <<isInternalConstructing, creation>>

TypeOK ==
  /\ isInternalConstructing \in BOOLEAN
  /\ creation \in [Creations -> {"idle", "awaiting", "created", "refused", "failed"}]

Init ==
  /\ isInternalConstructing = FALSE
  /\ creation = [c \in Creations |-> "idle"]

-----------------------------------------------------------------------------
\* The constructor, when the guard is as given: it clears the guard and throws
\* unless the guard was set.
Construct(c, guard) ==
  /\ isInternalConstructing' = FALSE
  /\ creation' = [creation EXCEPT ![c] = IF guard THEN "created" ELSE "refused"]

\* create() with an agent, or createSync(): the guard is set for the constructor.
CreateNow(c) ==
  /\ creation[c] = "idle"
  /\ Construct(c, TRUE)

\* HttpAgent.createSync() throws, and the guard stays set.
CreateNowFails(c) ==
  /\ creation[c] = "idle"
  /\ creation' = [creation EXCEPT ![c] = "failed"]
  /\ isInternalConstructing' = TRUE

\* create() without an agent, up to the await of HttpAgent.create().
Create(c) ==
  /\ creation[c] = "idle"
  /\ creation' = [creation EXCEPT ![c] = "awaiting"]
  /\ isInternalConstructing' = TRUE

\* HttpAgent.create() has resolved.
Resume(c) ==
  /\ creation[c] = "awaiting"
  /\ Construct(c, isInternalConstructing)

\* HttpAgent.create() has rejected, and the guard stays as it is.
HttpAgentFails(c) ==
  /\ creation[c] = "awaiting"
  /\ creation' = [creation EXCEPT ![c] = "failed"]
  /\ UNCHANGED isInternalConstructing

Next == \E c \in Creations :
  CreateNow(c) \/ CreateNowFails(c) \/ Create(c) \/ Resume(c) \/ HttpAgentFails(c)

Spec == Init /\ [][Next]_vars

-----------------------------------------------------------------------------
\* create() "creates a new SignerAgent": no creation whose HttpAgent is there is
\* refused by the constructor.
CreateSucceeds == \A c \in Creations : creation[c] # "refused"

\* The guard is there for a creation that nothing constructs in between: one is
\* refused only after another has left the constructor.
RefusedAfterAnother ==
  (\E c \in Creations : creation[c] = "refused")
    => \E d \in Creations : creation[d] = "created"

-----------------------------------------------------------------------------
Waits == \E c \in Creations : creation[c] = "awaiting"
Built == \E c \in Creations : creation[c] = "created"

\* The guard is clear under a creation that awaits its HttpAgent only if some
\* agent has been constructed.
GuardInv == TypeOK /\ RefusedAfterAnother /\ (Waits /\ ~isInternalConstructing => Built)

\* The inductive invariant of the guard.
LEMMA GuardInvariant == Spec => []GuardInv
<1>1. Init => GuardInv
  BY DEF Init, GuardInv, TypeOK, RefusedAfterAnother, Waits
<1>2. GuardInv /\ [Next]_vars => GuardInv'
  <2> SUFFICES ASSUME GuardInv, [Next]_vars PROVE GuardInv'
    OBVIOUS
  <2>1. CASE UNCHANGED vars
    BY <2>1 DEF GuardInv, TypeOK, RefusedAfterAnother, Waits, Built, vars
  <2>2. ASSUME NEW c \in Creations, CreateNow(c) PROVE GuardInv'
    BY <2>2 DEF GuardInv, TypeOK, RefusedAfterAnother, Waits, Built, CreateNow, Construct
  <2>3. ASSUME NEW c \in Creations, CreateNowFails(c) PROVE GuardInv'
    BY <2>3 DEF GuardInv, TypeOK, RefusedAfterAnother, Waits, Built, CreateNowFails
  <2>4. ASSUME NEW c \in Creations, Create(c) PROVE GuardInv'
    BY <2>4 DEF GuardInv, TypeOK, RefusedAfterAnother, Waits, Built, Create
  <2>5. ASSUME NEW c \in Creations, Resume(c) PROVE GuardInv'
    BY <2>5 DEF GuardInv, TypeOK, RefusedAfterAnother, Waits, Built, Resume, Construct
  <2>6. ASSUME NEW c \in Creations, HttpAgentFails(c) PROVE GuardInv'
    BY <2>6 DEF GuardInv, TypeOK, RefusedAfterAnother, Waits, Built, HttpAgentFails
  <2>7. QED
    BY <2>1, <2>2, <2>3, <2>4, <2>5, <2>6 DEF Next
<1>3. QED
  BY <1>1, <1>2, PTL DEF Spec

\* The constructor refuses a creation only after another one has passed it: the
\* first agent of an application is always created.
THEOREM RefusalsFollowCreations == Spec => []RefusedAfterAnother
<1>1. GuardInv => RefusedAfterAnother
  BY DEF GuardInv
<1>2. QED
  BY <1>1, GuardInvariant, PTL
=============================================================================
