--------------------------- MODULE UrlFlowProofs ----------------------------
(***************************************************************************)
(* Proofs about UrlFlow, for every set of programs, every set of faults    *)
(* and any number of loads.                                                *)
(***************************************************************************)
EXTENDS UrlFlow, FiniteSetTheorems, TLAPS

\* The steps that have taken a slot on this load, and those that hold the
\* redirect.
Taken   == {i \in Steps : status[i] # "new"}
Holding == {i \in Steps : status[i] \in {"running", "resolving"}}

\* #index and #inFlight count them; a step that has a slot has been issued, and
\* one that is done has a value.
Counts ==
  /\ index = Cardinality(Taken)
  /\ inFlight = Cardinality(Holding)
  /\ \A i \in Steps : status[i] # "new" => slot[i] # None
  /\ \A i \in Steps : status[i] = "done" => value[i] # None

\* A call that awaits the channel is of a request that has no slot yet; what it
\* came after is done.
Calling ==
  \A i \in calls :
    /\ status[i] = "new" /\ ~IsMemo(i)
    /\ \A j \in program[i].after : status[j] = "done"

TInv == TypeOK /\ Counts /\ Calling

LEMMA StepsFinite == IsFiniteSet(Steps) /\ Cardinality(Steps) \in Nat
  BY ProgramAssumption, FS_CardinalityType

LEMMA TakenFinite == IsFiniteSet(Taken) /\ Cardinality(Taken) \in Nat
<1>1. IsFiniteSet(Taken)
  BY StepsFinite, FS_Subset DEF Taken
<1>2. QED
  BY <1>1, FS_CardinalityType

LEMMA HoldingFinite == IsFiniteSet(Holding) /\ Cardinality(Holding) \in Nat
<1>1. IsFiniteSet(Holding)
  BY StepsFinite, FS_Subset DEF Holding
<1>2. QED
  BY <1>1, FS_CardinalityType

\* The next slot is there for a step that has not been issued.
LEMMA SlotLeft ==
  ASSUME TInv, NEW i \in Steps, status[i] = "new"
  PROVE  index + 1 \in Slots
<1>1. Taken \subseteq Steps /\ Taken # Steps
  BY DEF Taken
<1>2. Cardinality(Taken) < Cardinality(Steps)
  BY <1>1, StepsFinite, FS_Subset, FS_CardinalityType
<1>3. QED
  BY <1>2, TakenFinite, ProgramAssumption, StepsFinite DEF TInv, Counts, Slots

\* What the move of one step does to the two counters.
LEMMA Moves ==
  ASSUME TInv, NEW i \in Steps, NEW s \in Statuses \ {"new"},
         status' = [status EXCEPT ![i] = s]
  PROVE  /\ Cardinality(Taken') = index + (IF status[i] = "new" THEN 1 ELSE 0)
         /\ Cardinality(Holding') =
              inFlight - (IF i \in Holding THEN 1 ELSE 0)
                       + (IF s \in {"running", "resolving"} THEN 1 ELSE 0)
<1>1. \A j \in Steps : status'[j] = IF j = i THEN s ELSE status[j]
  BY DEF TInv, TypeOK
<1>2. Taken' = Taken \cup {i}
  BY <1>1 DEF Taken
<1>3. Cardinality(Taken \cup {i}) =
        IF i \in Taken THEN Cardinality(Taken) ELSE Cardinality(Taken) + 1
  BY TakenFinite, FS_AddElement
<1>4. Cardinality(Taken') = index + (IF status[i] = "new" THEN 1 ELSE 0)
  <2>1. i \in Taken <=> status[i] # "new"
    BY DEF Taken
  <2>2. QED
    BY <1>2, <1>3, <2>1, TakenFinite DEF TInv, Counts
<1>5. Holding' = IF s \in {"running", "resolving"} THEN Holding \cup {i} ELSE Holding \ {i}
  BY <1>1 DEF Holding
<1>6. /\ Cardinality(Holding \cup {i}) =
           IF i \in Holding THEN Cardinality(Holding) ELSE Cardinality(Holding) + 1
      /\ Cardinality(Holding \ {i}) =
           IF i \in Holding THEN Cardinality(Holding) - 1 ELSE Cardinality(Holding)
  BY HoldingFinite, FS_AddElement, FS_RemoveElement
<1>7. QED
  BY <1>4, <1>5, <1>6, HoldingFinite DEF TInv, Counts

\* Step i moves to s, with the value v if it is done: what a step of the code
\* does to the calling code and to the counters.
Moved(i, s, v) ==
  /\ status' = [status EXCEPT ![i] = s]
  /\ IF s = "done" THEN /\ value' = [value EXCEPT ![i] = v]
                        /\ given' = [given EXCEPT ![journal.flow][i] = v]
                   ELSE UNCHANGED <<value, given>>
  /\ IF status[i] = "new"
       THEN index' = index + 1 /\ slot' = [slot EXCEPT ![i] = index + 1]
       ELSE UNCHANGED <<index, slot>>
  /\ inFlight' = inFlight - (IF i \in Holding THEN 1 ELSE 0)
                          + (IF s \in {"running", "resolving"} THEN 1 ELSE 0)

\* The part of TypeOK that a move is about.
MoveTypes ==
  /\ index \in 0..Cardinality(Steps)
  /\ inFlight \in Nat
  /\ slot \in [Steps -> Slots \cup {None}]
  /\ status \in [Steps -> Statuses]
  /\ value \in [Steps -> Values \cup {None}]
  /\ given \in [1..MaxLoads -> [Steps -> Values \cup {None}]]

LEMMA MovesKeepTypes ==
  ASSUME TInv, NEW i \in Steps, NEW s \in Statuses \ {"new"}, NEW v \in Values,
         Moved(i, s, v)
  PROVE  MoveTypes' /\ Counts'
<1>1. /\ Cardinality(Taken') = index + (IF status[i] = "new" THEN 1 ELSE 0)
      /\ Cardinality(Holding') =
           inFlight - (IF i \in Holding THEN 1 ELSE 0)
                    + (IF s \in {"running", "resolving"} THEN 1 ELSE 0)
  BY Moves DEF Moved
<1>2. index' = Cardinality(Taken') /\ inFlight' = Cardinality(Holding')
  BY <1>1 DEF Moved, TInv, TypeOK
<1>3. \A j \in Steps : status'[j] = IF j = i THEN s ELSE status[j]
  BY DEF Moved, TInv, TypeOK
<1>4. status' \in [Steps -> Statuses]
  BY DEF Moved, TInv, TypeOK
<1>5. index' \in 0..Cardinality(Steps) /\ inFlight' \in Nat
  <2>1. IsFiniteSet(Taken') /\ IsFiniteSet(Holding') /\ Taken' \subseteq Steps
    BY StepsFinite, FS_Subset DEF Taken, Holding
  <2>2. /\ Cardinality(Taken') \in Nat /\ Cardinality(Holding') \in Nat
        /\ Cardinality(Taken') <= Cardinality(Steps)
    BY <2>1, StepsFinite, FS_Subset, FS_CardinalityType
  <2>3. QED
    BY <1>2, <2>2, StepsFinite
<1>6. /\ slot' \in [Steps -> Slots \cup {None}]
      /\ \A j \in Steps : status'[j] # "new" => slot'[j] # None
  <2>1. CASE status[i] = "new"
    <3>1. index + 1 \in Slots /\ index + 1 # None
      BY <2>1, SlotLeft, NoneAssumption, ProgramAssumption, StepsFinite DEF Slots, TInv, TypeOK
    <3>2. slot' = [slot EXCEPT ![i] = index + 1]
      BY <2>1 DEF Moved
    <3>3. QED
      BY <1>3, <3>1, <3>2 DEF TInv, TypeOK, Counts
  <2>2. CASE status[i] # "new"
    BY <1>3, <2>2 DEF Moved, TInv, TypeOK, Counts
  <2>3. QED
    BY <2>1, <2>2
<1>7. journal.flow \in 1..MaxLoads
  BY DEF TInv, TypeOK, Journals
<1>8. /\ value' \in [Steps -> Values \cup {None}]
      /\ given' \in [1..MaxLoads -> [Steps -> Values \cup {None}]]
      /\ \A j \in Steps : status'[j] = "done" => value'[j] # None
  <2>1. CASE s = "done"
    <3>1. /\ value' = [value EXCEPT ![i] = v] /\ given' = [given EXCEPT ![journal.flow][i] = v]
          /\ v # None
      BY <2>1, NoneAssumption DEF Moved
    <3>2. value' \in [Steps -> Values \cup {None}]
      BY <3>1 DEF TInv, TypeOK
    <3>3. given' \in [1..MaxLoads -> [Steps -> Values \cup {None}]]
      BY <1>7, <3>1 DEF TInv, TypeOK
    <3>4. \A j \in Steps : status'[j] = "done" => value'[j] # None
      BY <1>3, <3>1 DEF TInv, TypeOK, Counts
    <3>5. QED
      BY <3>2, <3>3, <3>4
  <2>2. CASE s # "done"
    BY <1>3, <2>2 DEF Moved, TInv, TypeOK, Counts
  <2>3. QED
    BY <2>1, <2>2
<1>9. QED
  BY <1>2, <1>4, <1>5, <1>6, <1>8 DEF MoveTypes, Counts

\* The rest of TypeOK.
OtherTypes ==
  /\ program \in Programs
  /\ stored \in Flows \cup {None}
  /\ journal \in Journals
  /\ buffer \in Batches
  /\ calls \in SUBSET Steps
  /\ flushTimer \in BOOLEAN /\ navigated \in BOOLEAN
  /\ navs \in Seq(Navs)
  /\ now \in 0..MaxTime /\ loads \in 1..MaxLoads
  /\ runs \in [Steps -> Nat]

LEMMA TypesSplit == TypeOK <=> MoveTypes /\ OtherTypes
  BY DEF TypeOK, MoveTypes, OtherTypes

\* What a step of the program is and what it may use.
LEMMA StepType ==
  ASSUME TypeOK, NEW i \in Steps
  PROVE  /\ program[i].kind \in Kinds
         /\ program[i].uses \in Steps \cup {None}
         /\ program[i].after \subseteq Steps
         /\ program[i].kind = "plain" /\ program[i].uses # None
              => program[i].uses \in program[i].after
  BY ProgramAssumption DEF TypeOK

LEMMA ContentType ==
  ASSUME TInv, NEW i \in Steps,
         program[i].uses # None => status[program[i].uses] = "done"
  PROVE  Content(i) \in Values
<1>1. CASE program[i].uses = None
  BY <1>1 DEF Content, Values
<1>2. CASE program[i].uses # None
  <2>1. value[program[i].uses] \in Values
    BY <1>2, StepType DEF TInv, TypeOK, Counts
  <2>2. value[program[i].uses][2] \in Nat
    BY <2>1 DEF Values
  <2>3. QED
    BY <1>2, <2>2 DEF Content, Values
<1>3. QED
  BY <1>1, <1>2

\* The uses of a plain step whose call was made have their value.
LEMMA CalledUses ==
  ASSUME TInv, NEW i \in calls, program[i].kind = "plain"
  PROVE  program[i].uses # None => status[program[i].uses] = "done"
<1>1. i \in Steps
  BY DEF TInv, TypeOK
<1>2. QED
  BY <1>1, StepType DEF Calling, TInv

\* A step that takes its slot is a memoize whose turn it is, or a request whose
\* call has arrived.  It was not done, and is no call that waits afterwards.
LEMMA CodeCalls ==
  ASSUME TInv, NEW i \in Steps, Code(i) \/ Produced(i)
  PROVE  /\ calls' = calls \/ calls' = calls \ {i}
         /\ i \notin calls' /\ status[i] # "done"
         /\ status[i] = "new" =>
              \/ Turn(i) /\ IsMemo(i)
              \/ Arrives(i) /\ ~IsMemo(i)
         /\ status[i] = "new" => \A j \in program[i].after : status[j] = "done"
<1>1. CASE Replay(i) \/ MemoizeSync(i) \/ MemoizeAsync(i)
  BY <1>1 DEF Replay, MemoizeSync, MemoizeAsync, Turn, Ready, IsMemo
<1>2. CASE Send(i) \/ SendPromise(i)
  BY <1>2 DEF Send, SendPromise, Arrives, IsMemo, TInv, Calling
<1>3. CASE PromiseSettles(i) \/ Produced(i)
  BY <1>3 DEF PromiseSettles, Produced, Settled, TInv, Calling
<1>4. QED
  BY <1>1, <1>2, <1>3 DEF Code

LEMMA MovesKeepCalling ==
  ASSUME TInv, UNCHANGED program, NEW i \in Steps, NEW s, NEW v, Moved(i, s, v),
         status[i] # "done", calls' \subseteq calls, i \notin calls'
  PROVE  Calling'
<1>1. \A j \in Steps : status'[j] = IF j = i THEN s ELSE status[j]
  BY DEF Moved, TInv, TypeOK
<1>2. calls \subseteq Steps /\ \A j \in Steps : program[j].after \subseteq Steps
  BY StepType DEF TInv, TypeOK
<1>3. QED
  BY <1>1, <1>2 DEF Calling, TInv, IsMemo

LEMMA PersistTypes ==
  ASSUME OtherTypes, NEW j \in Journals, NEW p \in Pendings \cup {None}, Persist(j, p)
  PROVE  journal' \in Journals /\ stored' \in Flows
<1> DEFINE stamped == [j EXCEPT !.createdAt = IF @ = None THEN now ELSE @]
<1>1. now \in Nat
  BY BoundsAssumption DEF OtherTypes
<1>2. stamped \in Journals
  BY <1>1 DEF Journals
<1>3. QED
  BY <1>2 DEF Persist, Flows

\* Step i resolves or becomes s, with its slot if it has just been issued.
LEMMA SendAtTypes ==
  ASSUME TInv, NEW i \in Steps, NEW s \in Slots, Content(i) \in Values, SendAt(i, s)
  PROVE  /\ journal' \in Journals /\ buffer' \in Batches
         /\ \/ Resolve(i, journal.results[s]) /\ journal.results[s] \in Values
            \/ Become(i, "diverged")
            \/ Become(i, "sent")
<1>1. journal \in Journals /\ buffer \in Batches /\ journal.results[s] \in Values \cup {None}
  BY DEF TInv, TypeOK, Journals
<1>2. CASE UNCHANGED <<journal, buffer>> /\ journal.results[s] # None
  BY <1>1, <1>2 DEF SendAt
<1>3. CASE /\ buffer' = buffer \cup {[index |-> s, id |-> i, key |-> Content(i)]}
           /\ journal' = [journal EXCEPT !.requestKeys[s] = Content(i)]
           /\ Become(i, "sent")
  <2>1. buffer' \in Batches
    BY <1>1, <1>3 DEF Batches
  <2>2. journal' \in Journals
    BY <1>1, <1>3 DEF Journals
  <2>3. QED
    BY <1>3, <2>1, <2>2
<1>4. QED
  BY <1>2, <1>3 DEF SendAt

LEMMA RecordTypes ==
  ASSUME TInv, NEW i \in Steps, NEW s \in Slots, Record(i, s)
  PROVE  /\ journal' \in Journals /\ stored' \in Flows
         /\ runs' \in [Steps -> Nat]
         /\ \E v \in Values : Resolve(i, v)
<1> DEFINE v == <<i, runs[i] + 1>>
           j == [journal EXCEPT !.results[s] = v, !.asyncSlots = AsyncSlotsWith(i, s)]
<1>1. v \in Values /\ runs' \in [Steps -> Nat]
  BY DEF Record, Values, TInv, TypeOK
<1>2. AsyncSlotsWith(i, s) \in SUBSET Slots
  BY DEF AsyncSlotsWith, TInv, TypeOK, Journals
<1>3. j \in Journals
  BY <1>1, <1>2 DEF TInv, TypeOK, Journals
<1>4. Persist(j, None) /\ Resolve(i, v)
  BY DEF Record
<1>5. QED
  BY <1>1, <1>3, <1>4, PersistTypes, TypesSplit DEF TInv

\* The journal that a load starts with.
LEMMA FreshJournalType ==
  ASSUME NEW f \in 1..MaxLoads, NEW u \in Urls
  PROVE  FreshJournal(f, u) \in Journals
  BY DEF FreshJournal, Journals

LEMMA AbsorbType ==
  ASSUME NEW results \in [Slots -> Values \cup {None}], NEW requests,
         NEW answers, \A a \in answers : a.content \in Values
  PROVE  Absorb(results, requests, answers) \in [Slots -> Values \cup {None}]
<1> DEFINE matches(s) == {a \in answers : \E q \in requests : q.index = s /\ q.id = a.id}
<1>1. ASSUME NEW s \in Slots, matches(s) # {}
      PROVE  (CHOOSE a \in matches(s) : TRUE).content \in Values
  BY <1>1
<1>2. QED
  BY <1>1 DEF Absorb

LEMMA LoadTypes ==
  ASSUME TInv, UNCHANGED program, NEW state, NEW answers,
         \A a \in answers : a.content \in Values, Load(state, answers)
  PROVE  TInv'
<1>1. loads' \in 1..MaxLoads /\ loads + 1 \in 1..MaxLoads
  BY BoundsAssumption DEF Load, TInv, TypeOK
<1>2. PICK u \in Urls :
        IF state # None /\ stored # None /\ ~Expired
             /\ stored.pending # None /\ stored.pending.state = state
          THEN Persist([stored.journal EXCEPT
                          !.url = Target(u),
                          !.results = Absorb(@, stored.pending.requests, answers)],
                       None)
          ELSE /\ journal' = FreshJournal(loads + 1, u)
               /\ stored' = IF Expired THEN None ELSE stored
  BY DEF Load
<1>3. journal' \in Journals /\ stored' \in Flows \cup {None}
  <2>1. CASE state # None /\ stored # None /\ ~Expired
               /\ stored.pending # None /\ stored.pending.state = state
    <3> DEFINE j == [stored.journal EXCEPT
                       !.url = Target(u),
                       !.results = Absorb(@, stored.pending.requests, answers)]
    <3>1. stored \in Flows /\ stored.journal \in Journals
      BY <2>1 DEF TInv, TypeOK, Flows
    <3>2. Absorb(stored.journal.results, stored.pending.requests, answers)
            \in [Slots -> Values \cup {None}]
      BY <3>1, AbsorbType DEF Journals
    <3>3. j \in Journals
      BY <3>1, <3>2 DEF Journals, Target
    <3>4. Persist(j, None)
      BY <1>2, <2>1
    <3>5. QED
      BY <3>3, <3>4, PersistTypes, TypesSplit DEF TInv
  <2>2. CASE /\ journal' = FreshJournal(loads + 1, u)
             /\ stored' = IF Expired THEN None ELSE stored
    BY <1>1, <2>2, FreshJournalType DEF TInv, TypeOK
  <2>3. QED
    BY <1>2, <2>1, <2>2
<1>4. OtherTypes'
  BY <1>1, <1>3 DEF Load, OtherTypes, TInv, TypeOK, Batches
<1>5. MoveTypes'
  BY StepsFinite DEF Load, MoveTypes, TInv, TypeOK, Statuses
<1>6. Counts' /\ Calling'
  <2>1. Taken' = {} /\ Holding' = {}
    BY DEF Load, Taken, Holding
  <2>2. \A i \in Steps : status'[i] = "new"
    BY DEF Load
  <2>3. QED
    BY <2>1, <2>2, FS_EmptySet DEF Load, Counts, Calling
<1>7. QED
  BY <1>4, <1>5, <1>6 DEF TInv, TypeOK, MoveTypes, OtherTypes

\* A step of the calling code moves one of its steps.
LEMMA CodeTypes ==
  ASSUME TInv, UNCHANGED program, NEW i \in Steps, Code(i) \/ Produced(i)
  PROVE  TInv' /\ \E s \in Statuses \ {"new"}, v \in Values : Moved(i, s, v)
<1>a. calls' \subseteq calls /\ i \notin calls' /\ status[i] # "done"
  BY CodeCalls
<1> SUFFICES OtherTypes' /\ \E s \in Statuses \ {"new"}, v \in Values : Moved(i, s, v)
  BY <1>a, MovesKeepTypes, MovesKeepCalling DEF TInv, TypeOK, MoveTypes, OtherTypes
<1>0. /\ TypeOK /\ OtherTypes /\ <<i, 0>> \in Values
      /\ index \in Nat /\ inFlight \in Nat
      /\ calls' \in SUBSET Steps
  BY <1>a, TypesSplit, StepsFinite DEF TInv, TypeOK, Values
<1>1. CASE Replay(i)
  <2>1. status[i] = "new" /\ i \notin Holding /\ Take(i) /\ inFlight' = inFlight
    BY <1>1 DEF Replay, Turn, Ready, Holding
  <2>2. index + 1 \in Slots
    BY <2>1, SlotLeft
  <2>3. journal.results[index + 1] \in Values
    BY <1>0, <1>1, <2>2 DEF Replay, TypeOK, Journals
  <2>4. \/ Moved(i, "done", journal.results[index + 1])
        \/ Moved(i, "diverged", <<i, 0>>)
    BY <1>0, <1>1, <2>1 DEF Replay, Moved, Take, Resolve, Become
  <2>5. OtherTypes'
    BY <1>0, <1>1 DEF Replay, OtherTypes
  <2>6. QED
    BY <1>0, <2>3, <2>4, <2>5 DEF Statuses
<1>2. CASE MemoizeSync(i)
  <2>1. status[i] = "new" /\ i \notin Holding /\ Take(i) /\ inFlight' = inFlight
    BY <1>2 DEF MemoizeSync, Turn, Ready, Holding
  <2>2. index + 1 \in Slots
    BY <2>1, SlotLeft
  <2>3. CASE Record(i, index + 1)
    <3>1. PICK v \in Values : Resolve(i, v)
      BY <2>2, <2>3, RecordTypes
    <3>2. Moved(i, "done", v)
      BY <1>0, <2>1, <3>1 DEF Moved, Take, Resolve
    <3>3. OtherTypes'
      BY <1>0, <1>2, <2>2, <2>3, RecordTypes DEF MemoizeSync, OtherTypes
    <3>4. QED
      BY <3>2, <3>3 DEF Statuses
  <2>4. CASE Become(i, "failed") /\ UNCHANGED <<stored, journal, runs>>
    <3>1. Moved(i, "failed", <<i, 0>>)
      BY <1>0, <2>1, <2>4 DEF Moved, Take, Become
    <3>2. OtherTypes'
      BY <1>0, <1>2, <2>4 DEF MemoizeSync, OtherTypes
    <3>3. QED
      BY <1>0, <3>1, <3>2 DEF Statuses
  <2>5. QED
    BY <1>2, <2>3, <2>4 DEF MemoizeSync
<1>3. CASE MemoizeAsync(i)
  <2>1. Moved(i, "running", <<i, 0>>)
    BY <1>0, <1>3 DEF MemoizeAsync, Turn, Ready, Holding, Moved, Take, Become
  <2>2. OtherTypes'
    BY <1>0, <1>3 DEF MemoizeAsync, OtherTypes
  <2>3. QED
    BY <1>0, <2>1, <2>2 DEF Statuses
<1>4. CASE Produced(i)
  <2>1. status[i] = "running" /\ i \in Holding /\ inFlight' = inFlight - 1
    BY <1>4 DEF Produced, Release, Holding
  <2>2. slot[i] \in Slots
    BY <1>0, <2>1 DEF TInv, Counts, TypeOK
  <2>3. CASE Record(i, slot[i])
    <3>1. PICK v \in Values : Resolve(i, v)
      BY <2>2, <2>3, RecordTypes
    <3>2. Moved(i, "done", v)
      BY <1>0, <1>4, <2>1, <3>1 DEF Moved, Resolve, Produced
    <3>3. OtherTypes'
      BY <1>0, <1>4, <2>2, <2>3, RecordTypes DEF Produced, Release, OtherTypes
    <3>4. QED
      BY <3>2, <3>3 DEF Statuses
  <2>4. CASE Become(i, "failed") /\ UNCHANGED <<stored, journal, runs>>
    <3>1. Moved(i, "failed", <<i, 0>>)
      BY <1>0, <1>4, <2>1, <2>4 DEF Moved, Become, Produced
    <3>2. OtherTypes'
      BY <1>0, <1>4, <2>4 DEF Produced, Release, OtherTypes
    <3>3. QED
      BY <1>0, <3>1, <3>2 DEF Statuses
  <2>5. QED
    BY <1>4, <2>3, <2>4 DEF Produced
<1>5. CASE Send(i)
  <2>1. status[i] = "new" /\ i \notin Holding /\ Take(i) /\ inFlight' = inFlight
    BY <1>5 DEF Send, Arrives, Calling, TInv, Holding
  <2>2. index + 1 \in Slots /\ Content(i) \in Values
    BY <1>5, <2>1, SlotLeft, ContentType, CalledUses DEF Send, Arrives
  <2>3. SendAt(i, index + 1)
    BY <1>5 DEF Send
  <2>4. /\ journal' \in Journals /\ buffer' \in Batches
        /\ \/ /\ Resolve(i, journal.results[index + 1])
              /\ journal.results[index + 1] \in Values
           \/ Become(i, "diverged")
           \/ Become(i, "sent")
    BY <2>2, <2>3, SendAtTypes
  <2>5. \E s \in Statuses \ {"new"}, v \in Values : Moved(i, s, v)
    <3>1. CASE Resolve(i, journal.results[index + 1]) /\ journal.results[index + 1] \in Values
      <4>1. Moved(i, "done", journal.results[index + 1])
        BY <1>0, <2>1, <3>1 DEF Moved, Take, Resolve
      <4>2. QED
        BY <3>1, <4>1 DEF Statuses
    <3>2. CASE Become(i, "diverged")
      <4>1. Moved(i, "diverged", <<i, 0>>)
        BY <1>0, <2>1, <3>2 DEF Moved, Take, Become
      <4>2. QED
        BY <1>0, <4>1 DEF Statuses
    <3>3. CASE Become(i, "sent")
      <4>1. Moved(i, "sent", <<i, 0>>)
        BY <1>0, <2>1, <3>3 DEF Moved, Take, Become
      <4>2. QED
        BY <1>0, <4>1 DEF Statuses
    <3>4. QED
      BY <2>4, <3>1, <3>2, <3>3
  <2>6. OtherTypes'
    BY <1>0, <1>5, <2>4 DEF Send, OtherTypes
  <2>7. QED
    BY <2>5, <2>6
<1>6. CASE SendPromise(i)
  <2>1. Moved(i, "resolving", <<i, 0>>)
    BY <1>0, <1>6 DEF SendPromise, Arrives, Calling, TInv, Holding, Moved, Take, Become
  <2>2. OtherTypes'
    BY <1>0, <1>6 DEF SendPromise, OtherTypes
  <2>3. QED
    BY <1>0, <2>1, <2>2 DEF Statuses
<1>7. CASE PromiseSettles(i)
  <2>1. /\ status[i] = "resolving" /\ i \in Holding /\ inFlight' = inFlight - 1
        /\ UNCHANGED <<index, slot>>
    BY <1>7 DEF PromiseSettles, Settled, Release, Holding
  <2>2. slot[i] \in Slots
    BY <1>0, <2>1 DEF TInv, Counts, TypeOK
  <2>3. CASE Become(i, "failed") /\ UNCHANGED <<journal, buffer>>
    <3>1. Moved(i, "failed", <<i, 0>>)
      BY <1>0, <2>1, <2>3 DEF Moved, Become
    <3>2. OtherTypes'
      BY <1>0, <1>7, <2>3 DEF PromiseSettles, Release, OtherTypes
    <3>3. QED
      BY <1>0, <3>1, <3>2 DEF Statuses
  <2>4. CASE /\ SendAt(i, slot[i])
             /\ program[i].uses # None => status[program[i].uses] = "done"
    <3>1. /\ journal' \in Journals /\ buffer' \in Batches
          /\ \/ /\ Resolve(i, journal.results[slot[i]])
                /\ journal.results[slot[i]] \in Values
             \/ Become(i, "diverged")
             \/ Become(i, "sent")
      BY <2>2, <2>4, SendAtTypes, ContentType
    <3>2. OtherTypes'
      BY <1>0, <1>7, <3>1 DEF PromiseSettles, Release, OtherTypes
    <3>3. CASE Resolve(i, journal.results[slot[i]]) /\ journal.results[slot[i]] \in Values
      <4>1. Moved(i, "done", journal.results[slot[i]])
        BY <1>0, <2>1, <3>3 DEF Moved, Resolve
      <4>2. QED
        BY <3>2, <3>3, <4>1 DEF Statuses
    <3>4. CASE Become(i, "diverged")
      <4>1. Moved(i, "diverged", <<i, 0>>)
        BY <1>0, <2>1, <3>4 DEF Moved, Become
      <4>2. QED
        BY <1>0, <3>2, <4>1 DEF Statuses
    <3>5. CASE Become(i, "sent")
      <4>1. Moved(i, "sent", <<i, 0>>)
        BY <1>0, <2>1, <3>5 DEF Moved, Become
      <4>2. QED
        BY <1>0, <3>2, <4>1 DEF Statuses
    <3>6. QED
      BY <3>1, <3>3, <3>4, <3>5
  <2>5. QED
    BY <1>7, <2>3, <2>4 DEF PromiseSettles
<1>8. QED
  BY <1>1, <1>2, <1>3, <1>4, <1>5, <1>6, <1>7 DEF Code

LEMMA AnswerType ==
  ASSUME TInv, NEW k \in 1..Len(navs), NEW answered \in SUBSET navs[k].batch
  PROVE  \A a \in Answers(answered) : a.content \in Values
<1>1. navs[k] \in Navs
  BY DEF TInv, TypeOK
<1>2. \A q \in answered : q.key \in Values
  BY <1>1 DEF Navs, Batches
<1>3. QED
  BY <1>2 DEF Answers

LEMMA NextTInv == TInv /\ [Next]_vars => TInv'
<1> SUFFICES ASSUME TInv, [Next]_vars PROVE TInv'
  OBVIOUS
<1>1. CASE UNCHANGED vars
  BY <1>1 DEF vars, pageVars, stepVars, TInv, TypeOK, Counts, Calling, Taken, Holding, IsMemo
<1>2. CASE Next
  <2>0. UNCHANGED program
    BY <1>2 DEF Next
  <2>1. ASSUME NEW i \in Steps, Code(i) \/ Produced(i) PROVE TInv'
    BY <2>0, <2>1, CodeTypes
  <2>2. CASE Flush
    <3>1. Counts' /\ MoveTypes' /\ Calling'
      BY <2>0, <2>2 DEF Flush, stepVars, TInv, TypeOK, Counts, Calling, MoveTypes, Taken,
                        Holding, IsMemo
    <3>2. CASE UNCHANGED <<stored, journal, buffer, navigated, navs>>
      BY <2>0, <2>2, <3>1, <3>2 DEF Flush, TInv, TypeOK, MoveTypes
    <3>3. CASE /\ navigated' = TRUE /\ buffer' = {}
               /\ Persist(journal, [state |-> Len(navs) + 1, requests |-> buffer])
               /\ navs' = Append(navs, [flow |-> journal.flow, url |-> journal.url,
                                        batch |-> buffer])
      <4>1. [state |-> Len(navs) + 1, requests |-> buffer] \in Pendings
        BY DEF TInv, TypeOK, Pendings
      <4>2. journal' \in Journals /\ stored' \in Flows
        BY <3>3, <4>1, PersistTypes, TypesSplit DEF TInv, OtherTypes
      <4>3. [flow |-> journal.flow, url |-> journal.url, batch |-> buffer] \in Navs
        BY DEF TInv, TypeOK, Journals, Navs
      <4>4. navs' \in Seq(Navs) /\ buffer' \in Batches
        BY <3>3, <4>3 DEF TInv, TypeOK, Batches
      <4>5. QED
        BY <2>0, <2>2, <3>1, <3>3, <4>2, <4>4 DEF Flush, TInv, TypeOK, MoveTypes
    <3>4. QED
      BY <2>2, <3>2, <3>3 DEF Flush
  <2>3. ASSUME NEW k \in 1..MaxLoads, Return(k) PROVE TInv'
    <3>1. k \in 1..Len(navs)
      BY <2>3 DEF Return
    <3>2. PICK answered \in SUBSET navs[k].batch : Load(k, Answers(answered))
      BY <2>3 DEF Return
    <3>3. QED
      BY <2>0, <3>1, <3>2, AnswerType, LoadTypes
  <2>4. CASE Visit
    BY <2>0, <2>4, LoadTypes DEF Visit
  <2>5. CASE Tick
    <3>1. now' \in 0..MaxTime
      BY <2>5, BoundsAssumption DEF Tick, TInv, TypeOK
    <3>2. QED
      BY <2>0, <2>5, <3>1 DEF Tick, pageVars, stepVars, TInv, TypeOK, Counts, Calling, Taken,
                              Holding, IsMemo
  <2>6. ASSUME NEW i \in Steps, Request(i) PROVE TInv'
    <3>1. /\ calls' = calls \cup {i} /\ status[i] = "new" /\ ~IsMemo(i)
          /\ \A j \in program[i].after : status[j] = "done"
          /\ UNCHANGED <<stored, journal, index, buffer, inFlight, flushTimer, navigated,
                         slot, status, value, given, navs, now, loads, runs>>
      BY <2>6 DEF Request, Turn, Ready, stepVars
    <3>2. Calling'
      BY <2>0, <3>1 DEF TInv, Calling, IsMemo
    <3>3. Counts' /\ TypeOK'
      BY <2>0, <3>1 DEF TInv, TypeOK, Counts, Taken, Holding
    <3>4. QED
      BY <3>2, <3>3 DEF TInv
  <2>7. QED
    BY <1>2, <2>1, <2>2, <2>3, <2>4, <2>5, <2>6 DEF Next
<1>3. QED
  BY <1>1, <1>2

LEMMA InitTInv == Init => TInv
<1> SUFFICES ASSUME Init PROVE TInv
  OBVIOUS
<1>1. TypeOK
  <2>1. 1 \in 1..MaxLoads
    BY BoundsAssumption
  <2>2. journal \in Journals
    BY <2>1, FreshJournalType DEF Init
  <2>3. MoveTypes
    BY StepsFinite DEF Init, MoveTypes, Statuses
  <2>4. OtherTypes
    <3>1. navs \in Seq(Navs)
      BY DEF Init
    <3>2. buffer \in Batches /\ runs \in [Steps -> Nat]
      BY DEF Init, Batches
    <3>3. now \in 0..MaxTime /\ loads \in 1..MaxLoads
      BY <2>1, BoundsAssumption DEF Init
    <3>4. QED
      BY <2>2, <3>1, <3>2, <3>3 DEF Init, OtherTypes
  <2>5. QED
    BY <2>3, <2>4, TypesSplit
<1>2. Taken = {} /\ Holding = {}
  BY DEF Init, Taken, Holding
<1>3. Counts /\ Calling
  BY <1>2, FS_EmptySet DEF Init, Counts, Calling
<1>4. QED
  BY <1>1, <1>3 DEF TInv

LEMMA TypeInvariant == Spec => []TInv
  BY InitTInv, NextTInv, PTL DEF Spec

\* The state has its type: a step always finds a slot, and a hold is never
\* released twice.
THEOREM TypeCorrect == Spec => []TypeOK
<1>1. TInv => TypeOK
  BY DEF TInv
<1>2. QED
  BY <1>1, TypeInvariant, PTL

\* The page is not left while a producer runs or a request is resolving: #inFlight
\* counts exactly those.
THEOREM RedirectsWait == Spec => RedirectWaits
<1>1. ASSUME TInv, [Next]_vars, navs' # navs, NEW i \in Steps
      PROVE  status[i] \notin {"running", "resolving"}
  <2>1. Flush
    <3>1. \A j \in Steps : ~Request(j) /\ ~Code(j) /\ ~Produced(j)
      BY <1>1 DEF Request, Code, Produced, Replay, MemoizeSync, MemoizeAsync, Send, SendPromise,
                  PromiseSettles
    <3>2. ~Visit /\ ~Tick /\ \A k \in 1..MaxLoads : ~Return(k)
      BY <1>1 DEF Visit, Tick, Return, Load
    <3>3. QED
      BY <1>1, <3>1, <3>2 DEF Next, vars
  <2>2. inFlight = 0
    BY <1>1, <2>1 DEF Flush, Held, TInv, TypeOK
  <2>3. Holding = {}
    BY <1>1, <2>2, HoldingFinite, FS_EmptySet DEF TInv, Counts
  <2>4. QED
    BY <2>3 DEF Holding
<1>2. TInv /\ [Next]_vars =>
        [navs' # navs => \A i \in Steps : status[i] \notin {"running", "resolving"}]_vars
  BY <1>1
<1>3. QED
  BY <1>2, TypeInvariant, PTL DEF Spec, RedirectWaits

-----------------------------------------------------------------------------
(***************************************************************************)
(* The signer of a flow                                                    *)
(***************************************************************************)

\* Journals of one flow have one url: the one in memory, the one in storage and
\* those of the redirects so far.  Flows are numbered by the loads that began
\* them, so a fresh one is none of these.
FlowUrls ==
  /\ journal.flow <= loads
  /\ \A k \in DOMAIN navs :
       /\ navs[k].flow <= loads
       /\ navs[k].flow = journal.flow => navs[k].url = journal.url
  /\ stored # None =>
       /\ stored.journal.flow <= loads
       /\ stored.journal.flow = journal.flow => stored.journal.url = journal.url
       /\ \A k \in DOMAIN navs :
            navs[k].flow = stored.journal.flow => navs[k].url = stored.journal.url

SInv == TInv /\ FlowUrls /\ SameSigner

\* What is persisted is what is in memory.
LEMMA PersistKeeps ==
  ASSUME NEW j \in Journals, NEW p, Persist(j, p)
  PROVE  /\ stored'.journal = journal' /\ stored'.pending = p
         /\ journal'.flow = j.flow /\ journal'.url = j.url
         /\ journal'.results = j.results /\ journal'.asyncSlots = j.asyncSlots
         /\ journal'.requestKeys = j.requestKeys
  BY DEF Persist, Journals

\* A step of the code stays in its flow.
LEMMA CodeKeepsFlow ==
  ASSUME TInv, NEW i \in Steps, Code(i) \/ Produced(i)
  PROVE  /\ UNCHANGED <<navs, loads>>
         /\ journal'.flow = journal.flow /\ journal'.url = journal.url
         /\ stored' = stored \/ (stored' # None => stored'.journal = journal')
<1>0. journal \in Journals
  BY DEF TInv, TypeOK
<1>1. ASSUME NEW s, SendAt(i, s)
      PROVE  journal'.flow = journal.flow /\ journal'.url = journal.url
  BY <1>0, <1>1 DEF SendAt, Journals
<1>2. ASSUME NEW s, Record(i, s)
      PROVE  /\ journal'.flow = journal.flow /\ journal'.url = journal.url
             /\ stored'.journal = journal'
  BY <1>0, <1>2 DEF Record, Persist, Journals
<1>3. CASE MemoizeSync(i) \/ Produced(i)
  BY <1>2, <1>3 DEF MemoizeSync, Produced
<1>4. CASE Send(i) \/ PromiseSettles(i)
  BY <1>1, <1>4 DEF Send, PromiseSettles
<1>5. CASE Replay(i) \/ MemoizeAsync(i) \/ SendPromise(i)
  BY <1>5 DEF Replay, MemoizeAsync, SendPromise
<1>6. QED
  BY <1>3, <1>4, <1>5 DEF Code

\* A load goes on with the stored flow or begins one that is new.
LEMMA LoadFlow ==
  ASSUME TInv, NEW state, NEW answers, Load(state, answers)
  PROVE  /\ UNCHANGED navs /\ loads' = loads + 1
         /\ \/ /\ stored # None /\ stored'.journal = journal'
               /\ journal'.flow = stored.journal.flow /\ journal'.url = stored.journal.url
            \/ /\ journal'.flow = loads + 1
               /\ stored' = stored \/ stored' = None
<1>1. UNCHANGED navs /\ loads' = loads + 1
  BY DEF Load
<1>2. PICK u \in Urls :
        IF state # None /\ stored # None /\ ~Expired
             /\ stored.pending # None /\ stored.pending.state = state
          THEN Persist([stored.journal EXCEPT
                          !.url = Target(u),
                          !.results = Absorb(@, stored.pending.requests, answers)],
                       None)
          ELSE /\ journal' = FreshJournal(loads + 1, u)
               /\ stored' = IF Expired THEN None ELSE stored
  BY DEF Load
<1>3. CASE /\ stored # None
           /\ Persist([stored.journal EXCEPT
                         !.url = Target(u),
                         !.results = Absorb(@, stored.pending.requests, answers)],
                      None)
  <2>1. stored.journal \in Journals
    BY <1>3 DEF TInv, TypeOK, Flows
  <2>2. /\ stored'.journal = journal'
        /\ journal'.flow = stored.journal.flow /\ journal'.url = stored.journal.url
    BY <1>3, <2>1 DEF Persist, Target, Journals
  <2>3. QED
    BY <1>1, <1>3, <2>2
<1>4. CASE /\ journal' = FreshJournal(loads + 1, u)
           /\ stored' = IF Expired THEN None ELSE stored
  BY <1>1, <1>4 DEF FreshJournal
<1>5. QED
  BY <1>2, <1>3, <1>4

LEMMA NextSInv == SInv /\ [Next]_vars => SInv'
<1> SUFFICES ASSUME SInv, [Next]_vars PROVE FlowUrls' /\ SameSigner'
  BY NextTInv DEF SInv
<1>a. TInv /\ journal \in Journals /\ navs \in Seq(Navs) /\ stored \in Flows \cup {None}
  BY DEF SInv, TInv, TypeOK
<1>b. loads \in Nat /\ journal.flow \in Nat
  BY <1>a, BoundsAssumption DEF TInv, TypeOK, Journals
<1>c. ASSUME NEW k \in DOMAIN navs PROVE navs[k].flow \in Nat
  <2>1. navs[k] \in Navs
    BY <1>a
  <2>2. QED
    BY <2>1, BoundsAssumption DEF Navs
<1>d. ASSUME stored # None PROVE stored.journal.flow \in Nat
  <2>1. stored.journal \in Journals
    BY <1>a, <1>d DEF Flows
  <2>2. QED
    BY <2>1, BoundsAssumption DEF Journals
<1>0. /\ TInv /\ loads \in Nat /\ journal.flow \in Nat /\ navs \in Seq(Navs)
      /\ \A k \in DOMAIN navs : navs[k].flow \in Nat
      /\ stored # None => stored.journal.flow \in Nat
  BY <1>a, <1>b, <1>c, <1>d
<1>1. CASE UNCHANGED vars
  BY <1>1 DEF vars, SInv, FlowUrls, SameSigner
<1>2. ASSUME NEW i \in Steps, Code(i) \/ Produced(i) PROVE FlowUrls' /\ SameSigner'
  BY <1>0, <1>2, CodeKeepsFlow DEF SInv, FlowUrls, SameSigner
<1>3. CASE Flush
  <2>1. CASE UNCHANGED <<stored, journal, navs>>
    BY <1>3, <2>1 DEF Flush, SInv, FlowUrls, SameSigner
  <2>2. CASE /\ Persist(journal, [state |-> Len(navs) + 1, requests |-> buffer])
             /\ navs' = Append(navs, [flow |-> journal.flow, url |-> journal.url,
                                      batch |-> buffer])
    <3>1. /\ stored'.journal = journal'
          /\ journal'.flow = journal.flow /\ journal'.url = journal.url
      BY <2>2 DEF Persist, SInv, TInv, TypeOK, Journals
    <3>2. \A k \in DOMAIN navs' :
            \/ k \in DOMAIN navs /\ navs'[k] = navs[k]
            \/ navs'[k].flow = journal.flow /\ navs'[k].url = journal.url
      BY <1>0, <2>2
    <3>3. loads' = loads
      BY <1>3 DEF Flush
    <3>4. FlowUrls'
      BY <1>0, <3>1, <3>2, <3>3 DEF SInv, FlowUrls
    <3>5. SameSigner'
      BY <3>2 DEF SInv, FlowUrls, SameSigner
    <3>6. QED
      BY <3>4, <3>5
  <2>3. QED
    BY <1>3, <2>1, <2>2 DEF Flush
<1>4. ASSUME NEW state, NEW answers, Load(state, answers) PROVE FlowUrls' /\ SameSigner'
  <2>0. navs' = navs /\ loads' = loads + 1
    BY <1>0, <1>4, LoadFlow
  <2>1. SameSigner'
    BY <2>0 DEF SInv, SameSigner
  <2>2. CASE /\ stored # None /\ stored'.journal = journal'
             /\ journal'.flow = stored.journal.flow /\ journal'.url = stored.journal.url
    <3>1. FlowUrls'
      BY <1>0, <2>0, <2>2 DEF SInv, FlowUrls
    <3>2. QED
      BY <2>1, <3>1
  <2>3. CASE journal'.flow = loads + 1 /\ (stored' = stored \/ stored' = None)
    <3>1. \A k \in DOMAIN navs : navs[k].flow # journal'.flow /\ navs[k].flow <= loads'
      BY <1>0, <2>0, <2>3 DEF SInv, FlowUrls
    <3>2. stored # None => stored.journal.flow # journal'.flow /\ stored.journal.flow <= loads'
      BY <1>0, <2>0, <2>3 DEF SInv, FlowUrls
    <3>3. journal'.flow <= loads'
      BY <1>0, <2>0, <2>3
    <3>4. FlowUrls'
      BY <2>0, <2>3, <3>1, <3>2, <3>3 DEF SInv, FlowUrls
    <3>5. QED
      BY <2>1, <3>4
  <2>4. QED
    BY <1>0, <1>4, <2>2, <2>3, LoadFlow
<1>5. ASSUME NEW k \in 1..MaxLoads, Return(k) PROVE FlowUrls' /\ SameSigner'
  BY <1>4, <1>5 DEF Return
<1>6. CASE Visit
  BY <1>4, <1>6 DEF Visit
<1>7. CASE Tick
  BY <1>7 DEF Tick, SInv, FlowUrls, SameSigner
<1>8. ASSUME NEW i \in Steps, Request(i) PROVE FlowUrls' /\ SameSigner'
  BY <1>8 DEF Request, SInv, FlowUrls, SameSigner
<1>9. QED
  BY <1>1, <1>2, <1>3, <1>5, <1>6, <1>7, <1>8 DEF Next

LEMMA InitSInv == Init => SInv
<1> SUFFICES ASSUME Init PROVE FlowUrls /\ SameSigner
  BY InitTInv DEF SInv
<1>1. journal.flow = 1 /\ navs = <<>> /\ stored = None /\ loads = 1
  BY DEF Init, FreshJournal
<1>2. DOMAIN navs = {}
  BY <1>1
<1>3. QED
  BY <1>1, <1>2 DEF FlowUrls, SameSigner

\* Every redirect of a flow goes to the same signer.
THEOREM SignerIsKept == Spec => []SameSigner
<1>1. SInv => SameSigner
  BY DEF SInv
<1>2. QED
  BY <1>1, InitSInv, NextSInv, PTL DEF Spec
-----------------------------------------------------------------------------
(***************************************************************************)
(* The replay of code whose steps take their slots in a fixed order        *)
(***************************************************************************)

\* The slot of a step is its number.
InOrder ==
  \A i \in Steps :
    /\ status[i] # "new" <=> i <= index
    /\ status[i] # "new" => slot[i] = i

\* The steps before a call that awaits the channel have been issued too.
EarlierCalled ==
  \A i \in calls, j \in Steps : j < i => status[j] # "new" \/ j \in calls

\* The content that the request of step i has in journal j.
Recorded(i, j) ==
  <<i, IF program[i].uses = None THEN 0 ELSE j.results[program[i].uses][2]>>

\* What a journal says of slot i: a memoize step has no request key, an answer
\* is that to the request recorded, a request carries the recorded value, and the
\* slots of asynchronous producers are known once they have a result.
Consistent(i, j) ==
  /\ IsMemo(i) => j.requestKeys[i] = None
  /\ ~IsMemo(i) /\ j.results[i] # None => j.results[i] = j.requestKeys[i]
  /\ j.requestKeys[i] # None =>
       /\ j.requestKeys[i] = Recorded(i, j)
       /\ program[i].uses # None => j.results[program[i].uses] # None
  /\ i \in j.asyncSlots => program[i].kind = "async"
  /\ program[i].kind = "async" /\ j.results[i] # None => i \in j.asyncSlots

\* What is known of step i: it holds what the journal has for it.
Valued(i) ==
  /\ status[i] # "diverged"
  /\ status[i] = "running" => IsMemo(i) /\ journal.results[i] = None
  /\ status[i] = "resolving" => ~IsMemo(i)
  /\ status[i] = "done" /\ IsMemo(i) => value[i] = journal.results[i]
  /\ status[i] = "done" /\ ~IsMemo(i) =>
       /\ value[i] = Content(i)
       /\ program[i].uses # None => status[program[i].uses] = "done"

\* A batch is of requests, with the content that journal j recorded.
BatchOf(batch, j) ==
  \A q \in batch : ~IsMemo(q.id) /\ q.index = q.id /\ q.key = j.requestKeys[q.id]

StoredFits ==
  stored # None =>
    /\ \A i \in Steps : Consistent(i, stored.journal)
    /\ stored.pending # None =>
         /\ stored.pending.state \in DOMAIN navs
         /\ stored.pending.requests = navs[stored.pending.state].batch
         /\ BatchOf(stored.pending.requests, stored.journal)

RInv ==
  /\ InOrder /\ EarlierCalled
  /\ \A i \in Steps : Consistent(i, journal) /\ Valued(i)
  /\ BatchOf(buffer, journal)
  /\ StoredFits

OInv == TInv /\ (InFixedOrder => RInv)

\* The value a request uses is that of a memoize step.
LEMMA UsesMemo ==
  ASSUME TInv, NEW i \in Steps, program[i].uses # None
  PROVE  program[i].uses \in Steps /\ IsMemo(program[i].uses)
  BY ProgramAssumption DEF TInv, TypeOK, IsMemo

\* Whether a program has a fixed slot order does not change.
LEMMA ProgramStays ==
  ASSUME UNCHANGED program
  PROVE  InFixedOrder' <=> InFixedOrder
  BY DEF InFixedOrder, CalledInOrder, RequestsAwaited, IsMemo, SameTurn

\* The steps before one whose turn it is have been issued.
LEMMA TurnIsLast ==
  ASSUME TInv, InFixedOrder, NEW i \in Steps, Turn(i), NEW j \in Steps, j < i
  PROVE  status[j] # "new" \/ j \in calls
  BY DEF Turn, Ready, InFixedOrder, CalledInOrder

\* A step takes the slot of its number.
LEMMA TakesOwnSlot ==
  ASSUME TInv, InFixedOrder, RInv, NEW i \in Steps, Code(i) \/ Produced(i),
         status[i] = "new"
  PROVE  i = index + 1
<1>1. Steps \subseteq Nat /\ index \in Nat /\ i >= 1 /\ \A n \in Nat : 1 <= n /\ n <= i => n \in Steps
  BY ProgramAssumption, StepsFinite DEF TInv, TypeOK
<1>2. /\ \/ Turn(i) /\ IsMemo(i)
         \/ Arrives(i) /\ ~IsMemo(i)
      /\ \A j \in program[i].after : status[j] = "done"
  BY CodeCalls
<1>3. ASSUME NEW j \in Steps, j < i PROVE status[j] # "new"
  <2>1. status[j] # "new" \/ j \in calls
    <3>1. CASE Turn(i)
      BY <1>3, <3>1, TurnIsLast
    <3>2. CASE Arrives(i)
      BY <1>3, <3>2 DEF Arrives, RInv, EarlierCalled
    <3>3. QED
      BY <1>2, <3>1, <3>2
  <2>2. ASSUME j \in calls PROVE FALSE
    <3>1. ~IsMemo(j) /\ status[j] = "new"
      BY <2>2 DEF TInv, Calling
    <3>2. j \in program[i].after \/ (~IsMemo(i) /\ SameTurn(j, i))
      BY <1>3, <3>1 DEF InFixedOrder, RequestsAwaited
    <3>3. ~IsMemo(i) /\ SameTurn(i, j)
      BY <1>2, <3>1, <3>2 DEF SameTurn
    <3>4. j >= i
      BY <1>2, <2>2, <3>3 DEF Arrives
    <3>5. QED
      BY <1>1, <1>3, <3>4
  <2>3. QED
    BY <2>1, <2>2
<1>4. ~(i <= index)
  BY DEF RInv, InOrder
<1>5. CASE i = 1
  BY <1>1, <1>4, <1>5
<1>6. CASE i # 1
  <2>1. i - 1 \in Steps /\ i - 1 < i
    BY <1>1, <1>6
  <2>2. i - 1 <= index
    BY <1>3, <2>1 DEF RInv, InOrder
  <2>3. QED
    BY <1>1, <1>4, <2>2
<1>7. QED
  BY <1>5, <1>6

LEMMA OrderKept ==
  ASSUME TInv, InOrder, NEW i \in Steps, NEW s \in Statuses \ {"new"}, NEW v,
         Moved(i, s, v), status[i] = "new" => i = index + 1
  PROVE  InOrder'
<1>1. \A j \in Steps : status'[j] = IF j = i THEN s ELSE status[j]
  BY DEF Moved, TInv, TypeOK
<1>2. Steps \subseteq Nat /\ index \in Nat
  BY ProgramAssumption, StepsFinite DEF TInv, TypeOK
<1>3. CASE status[i] = "new"
  <2>1. index' = i /\ index + 1 = i /\ \A j \in Steps : slot'[j] = IF j = i THEN i ELSE slot[j]
    BY <1>3 DEF Moved, TInv, TypeOK
  <2>2. QED
    BY <1>1, <1>2, <2>1 DEF InOrder
<1>4. CASE status[i] # "new"
  BY <1>1, <1>2, <1>4 DEF Moved, InOrder
<1>5. QED
  BY <1>3, <1>4

\* A move of step i leaves what is known of the others.
LEMMA OthersKept ==
  ASSUME TInv, UNCHANGED program, NEW i \in Steps, NEW s \in Statuses \ {"new"}, NEW v,
         Moved(i, s, v), status[i] # "done", \A j \in Steps : Valued(j),
         \A j \in Steps \ {i} : journal'.results[j] = journal.results[j]
  PROVE  \A j \in Steps \ {i} : Valued(j)'
<1>1. \A j \in Steps \ {i} : status'[j] = status[j] /\ value'[j] = value[j]
  BY DEF Moved, TInv, TypeOK
<1>2. TAKE j \in Steps \ {i}
<1>3. ASSUME status[j] = "done", ~IsMemo(j)
      PROVE  Content(j)' = Content(j) /\ (program[j].uses # None => status'[program[j].uses] = "done")
  <2>1. CASE program[j].uses = None
    BY <2>1 DEF Content
  <2>2. CASE program[j].uses # None
    <3>1. program[j].uses \in Steps \ {i}
      BY <1>3, <2>2, UsesMemo DEF Valued
    <3>2. QED
      BY <1>1, <1>3, <2>2, <3>1 DEF Content, Valued
  <2>3. QED
    BY <2>1, <2>2
<1>4. QED
  BY <1>1, <1>3 DEF Valued, IsMemo

\* The content of a request is what the journal says it is.
LEMMA ContentRecorded ==
  ASSUME TInv, NEW i \in Steps, \A j \in Steps : Valued(j),
         program[i].uses # None => status[program[i].uses] = "done"
  PROVE  /\ Content(i) = Recorded(i, journal)
         /\ program[i].uses # None => journal.results[program[i].uses] # None
<1>1. CASE program[i].uses = None
  BY <1>1 DEF Content, Recorded
<1>2. CASE program[i].uses # None
  <2>1. value[program[i].uses] = journal.results[program[i].uses]
    BY <1>2, UsesMemo DEF Valued
  <2>2. value[program[i].uses] # None
    BY <1>2, UsesMemo DEF TInv, Counts
  <2>3. QED
    BY <1>2, <2>1, <2>2 DEF Content, Recorded
<1>3. QED
  BY <1>1, <1>2
\* Recording the value of a memoize step fits the journal.
LEMMA RecordFits ==
  ASSUME TInv, UNCHANGED program, NEW i \in Steps, IsMemo(i), journal.results[i] = None,
         \A j \in Steps : Consistent(j, journal), Record(i, i)
  PROVE  /\ \A j \in Steps : Consistent(j, journal)'
         /\ \A j \in Steps \ {i} : journal'.results[j] = journal.results[j]
         /\ journal'.requestKeys = journal.requestKeys
         /\ status'[i] = "done" /\ value'[i] = journal'.results[i]
         /\ stored'.journal = journal' /\ stored'.pending = None
<1> DEFINE v == <<i, runs[i] + 1>>
           j0 == [journal EXCEPT !.results[i] = v, !.asyncSlots = AsyncSlotsWith(i, i)]
<1>1. journal \in Journals /\ v \in Values /\ i \in Slots
  BY DEF TInv, TypeOK, Values, Slots
<1>2. j0 \in Journals
  <2>1. AsyncSlotsWith(i, i) \in SUBSET Slots
    BY <1>1 DEF AsyncSlotsWith, Journals
  <2>2. QED
    BY <1>1, <2>1 DEF Journals
<1>3. Persist(j0, None) /\ Resolve(i, v)
  BY DEF Record
<1>4. /\ stored'.journal = journal' /\ stored'.pending = None
      /\ journal'.results = j0.results /\ journal'.requestKeys = j0.requestKeys
      /\ journal'.asyncSlots = j0.asyncSlots
  BY <1>2, <1>3, PersistKeeps
<1>5. /\ \A j \in Steps : journal'.results[j] = IF j = i THEN v ELSE journal.results[j]
      /\ journal'.requestKeys = journal.requestKeys
      /\ journal'.asyncSlots = AsyncSlotsWith(i, i)
  BY <1>1, <1>4 DEF Journals, Slots
<1>6. status'[i] = "done" /\ value'[i] = v
  BY <1>3 DEF Resolve, TInv, TypeOK
<1>7. ASSUME NEW j \in Steps PROVE Consistent(j, journal)'
  <2>1. CASE journal.requestKeys[j] = None
    BY <1>5, <1>7, <2>1, NoneAssumption DEF Consistent, IsMemo, AsyncSlotsWith
  <2>2. CASE journal.requestKeys[j] # None
    <3>1. j # i /\ (program[j].uses # None => program[j].uses # i)
      BY <2>2 DEF Consistent
    <3>2. program[j].uses # None => program[j].uses \in Steps \ {i}
      BY <3>1, UsesMemo
    <3>3. Recorded(j, journal)' = Recorded(j, journal)
      BY <1>5, <3>2 DEF Recorded
    <3>4. QED
      BY <1>5, <1>7, <3>1, <3>2, <3>3 DEF Consistent, IsMemo, AsyncSlotsWith
  <2>3. QED
    BY <2>1, <2>2
<1>8. QED
  BY <1>4, <1>5, <1>6, <1>7

\* Sending a request fits the journal: it is buffered with the content recorded,
\* or it is answered with the answer to that content.
LEMMA SendFits ==
  ASSUME TInv, UNCHANGED program, NEW i \in Steps, ~IsMemo(i),
         \A j \in Steps : Consistent(j, journal) /\ Valued(j), BatchOf(buffer, journal),
         program[i].uses # None => status[program[i].uses] = "done",
         SendAt(i, i)
  PROVE  /\ \A j \in Steps : Consistent(j, journal)'
         /\ journal'.results = journal.results
         /\ BatchOf(buffer, journal)'
         /\ status'[i] = "sent" \/ (status'[i] = "done" /\ value'[i] = Content(i))
<1>1. journal \in Journals /\ i \in Slots /\ buffer \in Batches /\ Content(i) \in Values
  BY ContentType DEF TInv, TypeOK, Slots
<1>2. /\ Content(i) = Recorded(i, journal)
      /\ program[i].uses # None => journal.results[program[i].uses] # None
  BY ContentRecorded
<1>3. CASE journal.results[i] # None
  <2>1. journal.results[i] = journal.requestKeys[i]
    BY <1>3 DEF Consistent
  <2>2. SameRequest(i, i) /\ journal.results[i] = Content(i)
    BY <1>2, <1>3, <2>1 DEF Consistent, SameRequest
  <2>3. Resolve(i, Content(i)) /\ UNCHANGED <<journal, buffer>>
    BY <1>3, <2>2 DEF SendAt
  <2>4. status'[i] = "done" /\ value'[i] = Content(i)
    BY <2>3 DEF Resolve, TInv, TypeOK
  <2>5. \A j \in Steps : Consistent(j, journal)'
    BY <2>3 DEF Consistent, IsMemo, Recorded
  <2>6. QED
    BY <2>3, <2>4, <2>5 DEF BatchOf, IsMemo
<1>4. CASE journal.results[i] = None
  <2>1. /\ buffer' = buffer \cup {[index |-> i, id |-> i, key |-> Content(i)]}
        /\ journal' = [journal EXCEPT !.requestKeys[i] = Content(i)]
        /\ Become(i, "sent")
    BY <1>4 DEF SendAt
  <2>2. /\ journal'.results = journal.results /\ journal'.asyncSlots = journal.asyncSlots
        /\ \A j \in Steps : journal'.requestKeys[j] =
                              IF j = i THEN Content(i) ELSE journal.requestKeys[j]
    BY <1>1, <2>1 DEF Journals, Slots
  <2>3. \A j \in Steps : Recorded(j, journal)' = Recorded(j, journal)
    BY <2>2 DEF Recorded
  <2>4. \A j \in Steps : Consistent(j, journal)'
    BY <1>2, <1>4, <2>2, <2>3 DEF Consistent, IsMemo
  <2>5. ASSUME NEW q \in buffer
        PROVE  ~IsMemo(q.id) /\ q.index = q.id /\ q.key = journal'.requestKeys[q.id]
    <3>1. q.id \in Steps /\ q.key \in Values
      BY <1>1 DEF Batches
    <3>2. ~IsMemo(q.id) /\ q.index = q.id /\ q.key = journal.requestKeys[q.id]
      BY DEF BatchOf
    <3>3. q.id = i => q.key = Content(i)
      BY <1>2, <3>1, <3>2, NoneAssumption DEF Consistent
    <3>4. QED
      BY <2>2, <3>1, <3>2, <3>3
  <2>6. BatchOf(buffer, journal)'
    <3>1. SUFFICES ASSUME NEW q \in buffer'
          PROVE  ~IsMemo(q.id) /\ q.index = q.id /\ q.key = journal'.requestKeys[q.id]
      BY DEF BatchOf, IsMemo
    <3>2. CASE q \in buffer
      BY <2>5, <3>2
    <3>3. CASE q = [index |-> i, id |-> i, key |-> Content(i)]
      BY <2>2, <3>3
    <3>4. QED
      BY <2>1, <3>2, <3>3
  <2>7. status'[i] = "sent"
    BY <2>1 DEF Become, TInv, TypeOK
  <2>8. QED
    BY <2>2, <2>4, <2>6, <2>7
<1>5. QED
  BY <1>3, <1>4
\* What is stored still fits if the calling code leaves it alone.
LEMMA StoredKept ==
  ASSUME StoredFits, UNCHANGED <<program, stored, navs>>
  PROVE  StoredFits'
  BY DEF StoredFits, Consistent, Recorded, IsMemo, BatchOf

\* A step of calling code with a fixed slot order.
LEMMA CodeReplays ==
  ASSUME TInv, RInv, InFixedOrder, UNCHANGED program, NEW i \in Steps,
         Code(i) \/ Produced(i)
  PROVE  RInv'
<1>1. PICK s \in Statuses \ {"new"}, v \in Values : Moved(i, s, v)
  BY CodeTypes
<1>2. status'[i] = s /\ UNCHANGED navs
  <2>1. status'[i] = s
    BY <1>1 DEF Moved, TInv, TypeOK
  <2>2. QED
    BY <2>1, CodeKeepsFlow
<1>3. status[i] = "new" => i = index + 1
  BY TakesOwnSlot
<1>4. InOrder' /\ EarlierCalled'
  <2>1. InOrder'
    BY <1>1, <1>3, OrderKept DEF RInv
  <2>2. \A j \in Steps : status'[j] = IF j = i THEN s ELSE status[j]
    BY <1>1 DEF Moved, TInv, TypeOK
  <2>3. calls' = calls \/ calls' = calls \ {i}
    BY CodeCalls
  <2>4. QED
    BY <2>1, <2>2, <2>3 DEF RInv, EarlierCalled
<1>5. status[i] # "done"
  BY CodeCalls
\* It is enough to see what the step does to the journal and to step i.
<1>6. ASSUME \A j \in Steps \ {i} : journal'.results[j] = journal.results[j],
             \A j \in Steps : Consistent(j, journal)', Valued(i)',
             BatchOf(buffer, journal)', StoredFits'
      PROVE  RInv'
  <2>1. \A j \in Steps \ {i} : Valued(j)'
    BY <1>1, <1>5, <1>6, OthersKept DEF RInv
  <2>2. QED
    BY <1>4, <1>6, <2>1 DEF RInv
\* The journal is not touched.
<1>7. ASSUME UNCHANGED <<journal, buffer, stored>>, Valued(i)'
      PROVE  RInv'
  <2>1. \A j \in Steps : Consistent(j, journal)'
    BY <1>7 DEF RInv, Consistent, Recorded, IsMemo
  <2>2. BatchOf(buffer, journal)'
    BY <1>7 DEF RInv, BatchOf, IsMemo
  <2>3. StoredFits'
    BY <1>2, <1>7, StoredKept DEF RInv
  <2>4. QED
    BY <1>6, <1>7, <2>1, <2>2, <2>3
<1>8. ASSUME IsMemo(i), journal.results[i] = None, Record(i, i), UNCHANGED buffer
      PROVE  RInv'
  <2>1. /\ \A j \in Steps : Consistent(j, journal)'
        /\ \A j \in Steps \ {i} : journal'.results[j] = journal.results[j]
        /\ journal'.requestKeys = journal.requestKeys
        /\ status'[i] = "done" /\ value'[i] = journal'.results[i]
        /\ stored'.journal = journal' /\ stored'.pending = None
    BY <1>8, RecordFits DEF RInv
  <2>2. Valued(i)'
    BY <1>8, <2>1 DEF Valued, IsMemo
  <2>3. BatchOf(buffer, journal)'
    BY <1>8, <2>1 DEF RInv, BatchOf, IsMemo
  <2>4. StoredFits'
    BY <2>1 DEF StoredFits, Consistent, Recorded, IsMemo
  <2>5. QED
    BY <1>6, <2>1, <2>2, <2>3, <2>4
<1>9. ASSUME ~IsMemo(i), SendAt(i, i), UNCHANGED stored,
             program[i].uses # None => status[program[i].uses] = "done"
      PROVE  RInv'
  <2>1. /\ \A j \in Steps : Consistent(j, journal)'
        /\ journal'.results = journal.results
        /\ BatchOf(buffer, journal)'
        /\ status'[i] = "sent" \/ (status'[i] = "done" /\ value'[i] = Content(i))
    BY <1>9, SendFits DEF RInv
  <2>2. program[i].uses # None =>
          /\ status'[program[i].uses] = "done" /\ value'[program[i].uses] = value[program[i].uses]
    <3>1. program[i].uses # None => program[i].uses \in Steps \ {i}
      BY <1>9, UsesMemo
    <3>2. QED
      BY <1>1, <1>9, <3>1 DEF Moved, TInv, TypeOK
  <2>3. Content(i)' = Content(i)
    BY <2>2 DEF Content
  <2>4. Valued(i)'
    BY <1>9, <2>1, <2>2, <2>3 DEF Valued, IsMemo
  <2>5. StoredFits'
    BY <1>2, <1>9, StoredKept DEF RInv
  <2>6. QED
    BY <1>6, <2>1, <2>4, <2>5
<1>10. ASSUME Become(i, "failed") PROVE Valued(i)'
  <2>1. status'[i] = "failed"
    BY <1>10 DEF Become, TInv, TypeOK
  <2>2. QED
    BY <2>1 DEF Valued
<1>11. CASE Replay(i)
  <2>1. IsMemo(i) /\ i = index + 1 /\ UNCHANGED <<journal, buffer, stored>>
    BY <1>3, <1>11 DEF Replay, Turn, Ready
  <2>2. Resolve(i, journal.results[i])
    BY <1>11, <2>1 DEF Replay, RInv, Consistent
  <2>3. status'[i] = "done" /\ value'[i] = journal'.results[i]
    BY <2>1, <2>2 DEF Resolve, TInv, TypeOK
  <2>4. Valued(i)'
    BY <2>1, <2>3 DEF Valued, IsMemo
  <2>5. QED
    BY <1>7, <2>1, <2>4
<1>12. CASE MemoizeSync(i)
  <2>1. IsMemo(i) /\ i = index + 1 /\ journal.results[i] = None /\ UNCHANGED buffer
    BY <1>3, <1>12 DEF MemoizeSync, Turn, Ready, IsMemo
  <2>2. QED
    BY <1>7, <1>8, <1>10, <1>12, <2>1 DEF MemoizeSync
<1>13. CASE MemoizeAsync(i)
  <2>1. /\ IsMemo(i) /\ i = index + 1 /\ journal.results[i] = None
        /\ UNCHANGED <<journal, buffer, stored>> /\ Become(i, "running")
    BY <1>3, <1>13 DEF MemoizeAsync, Turn, Ready, IsMemo
  <2>2. status'[i] = "running"
    BY <2>1 DEF Become, TInv, TypeOK
  <2>3. Valued(i)'
    BY <2>1, <2>2 DEF Valued, IsMemo
  <2>4. QED
    BY <1>7, <2>1, <2>3
<1>14. CASE Produced(i)
  <2>1. /\ IsMemo(i) /\ journal.results[i] = None /\ slot[i] = i /\ UNCHANGED buffer
    BY <1>14 DEF Produced, RInv, Valued, InOrder
  <2>2. QED
    BY <1>7, <1>8, <1>10, <1>14, <2>1 DEF Produced
<1>15. CASE Send(i)
  <2>1. /\ ~IsMemo(i) /\ i = index + 1 /\ SendAt(i, i) /\ UNCHANGED stored
        /\ i \in calls /\ program[i].kind = "plain"
    BY <1>3, <1>15 DEF Send, Arrives, TInv, Calling, IsMemo
  <2>2. QED
    BY <1>9, <2>1, CalledUses
<1>16. CASE SendPromise(i)
  <2>1. ~IsMemo(i) /\ UNCHANGED <<journal, buffer, stored>> /\ Become(i, "resolving")
    BY <1>16 DEF SendPromise, IsMemo
  <2>2. status'[i] = "resolving"
    BY <2>1 DEF Become, TInv, TypeOK
  <2>3. Valued(i)'
    BY <2>1, <2>2 DEF Valued, IsMemo
  <2>4. QED
    BY <1>7, <2>1, <2>3
<1>17. CASE PromiseSettles(i)
  <2>1. ~IsMemo(i) /\ slot[i] = i /\ UNCHANGED stored
    BY <1>17 DEF PromiseSettles, Settled, RInv, Valued, InOrder
  <2>2. QED
    BY <1>7, <1>9, <1>10, <1>17, <2>1 DEF PromiseSettles
<1>18. QED
  BY <1>11, <1>12, <1>13, <1>14, <1>15, <1>16, <1>17 DEF Code
\* A redirect stores the journal as it is, and its batch as what is pending.
LEMMA FlushReplays ==
  ASSUME TInv, RInv, UNCHANGED program, Flush
  PROVE  RInv'
<1>1. UNCHANGED stepVars /\ UNCHANGED index
  BY DEF Flush
<1>2. /\ journal'.results = journal.results /\ journal'.requestKeys = journal.requestKeys
      /\ journal'.asyncSlots = journal.asyncSlots
      /\ buffer' = {} \/ buffer' = buffer
      /\ \/ UNCHANGED <<stored, navs>>
         \/ /\ navs' = Append(navs, [flow |-> journal.flow, url |-> journal.url,
                                     batch |-> buffer])
            /\ stored'.journal = journal'
            /\ stored'.pending = [state |-> Len(navs) + 1, requests |-> buffer]
  <2>1. journal \in Journals
    BY DEF TInv, TypeOK
  <2>2. CASE UNCHANGED <<stored, journal, buffer, navs>>
    BY <2>2
  <2>3. CASE /\ buffer' = {}
             /\ Persist(journal, [state |-> Len(navs) + 1, requests |-> buffer])
             /\ navs' = Append(navs, [flow |-> journal.flow, url |-> journal.url,
                                      batch |-> buffer])
    BY <2>1, <2>3, PersistKeeps
  <2>4. QED
    BY <2>2, <2>3 DEF Flush
<1>3. ASSUME NEW j \in Steps PROVE Consistent(j, journal)' /\ Valued(j)'
  BY <1>1, <1>2, <1>3 DEF RInv, Consistent, Recorded, Valued, IsMemo, Content, stepVars
<1>4. BatchOf(buffer, journal')
  BY <1>2 DEF RInv, BatchOf
<1>5. BatchOf(buffer, journal)'
  BY <1>2, <1>4 DEF BatchOf, IsMemo
<1>6. StoredFits'
  <2>1. CASE UNCHANGED <<stored, navs>>
    BY <2>1, StoredKept DEF RInv
  <2>2. CASE /\ navs' = Append(navs, [flow |-> journal.flow, url |-> journal.url,
                                      batch |-> buffer])
             /\ stored'.journal = journal'
             /\ stored'.pending = [state |-> Len(navs) + 1, requests |-> buffer]
    <3>1. Len(navs) + 1 \in DOMAIN navs' /\ navs'[Len(navs) + 1].batch = buffer
      BY <2>2 DEF TInv, TypeOK
    <3>2. \A j \in Steps : Consistent(j, stored.journal)'
      BY <1>3, <2>2 DEF Consistent, Recorded, IsMemo
    <3>3. BatchOf(stored.pending.requests, stored.journal)'
      BY <1>4, <2>2 DEF BatchOf, IsMemo
    <3>4. QED
      BY <2>2, <3>1, <3>2, <3>3 DEF StoredFits
  <2>3. QED
    BY <1>2, <2>1, <2>2
<1>7. InOrder' /\ EarlierCalled'
  BY <1>1 DEF RInv, InOrder, EarlierCalled, Flush, stepVars
<1>8. QED
  BY <1>3, <1>5, <1>6, <1>7 DEF RInv

\* A fresh journal says nothing of any slot.
LEMMA FreshConsistent ==
  ASSUME NEW f, NEW u, NEW i \in Steps
  PROVE  Consistent(i, FreshJournal(f, u))
  BY DEF Consistent, FreshJournal, Slots

\* Answers to requests of a journal fit it.
LEMMA AbsorbFits ==
  ASSUME TInv, NEW j \in Journals, \A i \in Steps : Consistent(i, j),
         NEW batch \in Batches, BatchOf(batch, j), NEW answered \in SUBSET batch,
         NEW r, r = Absorb(j.results, batch, Answers(answered))
  PROVE  \A i \in Steps :
           /\ IsMemo(i) => r[i] = j.results[i]
           /\ ~IsMemo(i) /\ r[i] # None => r[i] = j.requestKeys[i]
           /\ j.results[i] # None => r[i] = j.results[i]
<1> DEFINE matches(i) == {a \in Answers(answered) : \E q \in batch : q.index = i /\ q.id = a.id}
<1>1. ASSUME NEW i \in Steps, NEW a \in matches(i)
      PROVE  ~IsMemo(i) /\ a.content = j.requestKeys[i]
  <2>1. PICK q \in batch : q.index = i /\ q.id = a.id
    BY <1>1
  <2>2. PICK p \in answered : a = [id |-> p.id, content |-> p.key]
    BY <1>1 DEF Answers
  <2>3. QED
    BY <2>1, <2>2 DEF BatchOf
<1>2. ASSUME NEW i \in Steps
      PROVE  r[i] = IF matches(i) = {} THEN j.results[i]
                                       ELSE (CHOOSE a \in matches(i) : TRUE).content
  BY DEF Absorb, Slots
<1>3. ASSUME NEW i \in Steps, matches(i) # {}
      PROVE  ~IsMemo(i) /\ r[i] = j.requestKeys[i]
  <2>1. (CHOOSE a \in matches(i) : TRUE) \in matches(i)
    BY <1>3
  <2>2. QED
    BY <1>1, <1>2, <1>3, <2>1
<1>4. QED
  BY <1>2, <1>3 DEF Consistent

LEMMA LoadReplays ==
  ASSUME TInv, RInv, UNCHANGED program, NEW state, NEW answers, Load(state, answers),
         state # None => /\ state \in DOMAIN navs
                         /\ \E answered \in SUBSET navs[state].batch :
                              answers = Answers(answered)
  PROVE  RInv'
<1>1. PICK u \in Urls :
        IF state # None /\ stored # None /\ ~Expired
             /\ stored.pending # None /\ stored.pending.state = state
          THEN Persist([stored.journal EXCEPT
                          !.url = Target(u),
                          !.results = Absorb(@, stored.pending.requests, answers)],
                       None)
          ELSE /\ journal' = FreshJournal(loads + 1, u)
               /\ stored' = IF Expired THEN None ELSE stored
  BY DEF Load
<1>2. /\ \A i \in Steps : status'[i] = "new"
      /\ index' = 0 /\ buffer' = {} /\ UNCHANGED navs
  BY DEF Load
<1>3. InOrder' /\ EarlierCalled' /\ BatchOf(buffer, journal)' /\ \A i \in Steps : Valued(i)'
  <2>1. \A i \in Steps : i > 0
    BY ProgramAssumption, StepsFinite
  <2>2. InOrder'
    BY <1>2, <2>1, ProgramAssumption, StepsFinite DEF InOrder
  <2>3. EarlierCalled' /\ BatchOf(buffer, journal)' /\ \A i \in Steps : Valued(i)'
    BY <1>2 DEF EarlierCalled, BatchOf, Valued, Load
  <2>4. QED
    BY <2>2, <2>3
<1>4. (\A i \in Steps : Consistent(i, journal)') /\ StoredFits'
  <2>1. CASE state # None /\ stored # None /\ ~Expired
               /\ stored.pending # None /\ stored.pending.state = state
    <3> DEFINE r == Absorb(stored.journal.results, stored.pending.requests, answers)
               j0 == [stored.journal EXCEPT
                        !.url = Target(u),
                        !.results = Absorb(@, stored.pending.requests, answers)]
    <3>1. stored.journal \in Journals /\ stored.pending.requests \in Batches
      BY <2>1 DEF TInv, TypeOK, Flows, Pendings
    <3>2. /\ \A i \in Steps : Consistent(i, stored.journal)
          /\ stored.pending.requests = navs[state].batch
          /\ BatchOf(stored.pending.requests, stored.journal)
      BY <2>1 DEF RInv, StoredFits
    <3>3. PICK answered \in SUBSET stored.pending.requests : answers = Answers(answered)
      BY <2>1, <3>2
    <3>4. \A i \in Steps :
            /\ IsMemo(i) => r[i] = stored.journal.results[i]
            /\ ~IsMemo(i) /\ r[i] # None => r[i] = stored.journal.requestKeys[i]
      BY <3>1, <3>2, <3>3, AbsorbFits
    <3>5. j0 \in Journals
      <4>1. \A a \in answers : a.content \in Values
        BY <3>1, <3>3 DEF Answers, Batches
      <4>2. r \in [Slots -> Values \cup {None}]
        BY <3>1, <4>1, AbsorbType DEF Journals
      <4>3. QED
        BY <3>1, <4>2 DEF Journals, Target
    <3>6. /\ stored'.journal = journal' /\ stored'.pending = None
          /\ journal'.results = r /\ journal'.requestKeys = stored.journal.requestKeys
          /\ journal'.asyncSlots = stored.journal.asyncSlots
      <4>1. Persist(j0, None)
        BY <1>1, <2>1
      <4>2. /\ j0.results = r /\ j0.requestKeys = stored.journal.requestKeys
            /\ j0.asyncSlots = stored.journal.asyncSlots
        BY <3>1 DEF Journals
      <4>3. QED
        BY <3>5, <4>1, <4>2, PersistKeeps
    <3>7. ASSUME NEW i \in Steps PROVE Consistent(i, journal)'
      <4>1. program[i].uses # None => r[program[i].uses] = stored.journal.results[program[i].uses]
        BY <3>4, UsesMemo
      <4>2. Recorded(i, journal)' = Recorded(i, stored.journal)
        BY <3>6, <4>1 DEF Recorded
      <4>3. QED
        BY <3>2, <3>4, <3>6, <3>7, <4>1, <4>2 DEF Consistent, IsMemo
    <3>8. StoredFits'
      BY <3>6, <3>7 DEF StoredFits, Consistent, Recorded, IsMemo
    <3>9. QED
      BY <3>7, <3>8
  <2>2. CASE /\ journal' = FreshJournal(loads + 1, u)
             /\ stored' = IF Expired THEN None ELSE stored
    <3>1. ASSUME NEW i \in Steps PROVE Consistent(i, journal)'
      BY <2>2 DEF Consistent, FreshJournal, Slots
    <3>2. CASE stored' = stored
      BY <1>2, <3>1, <3>2, StoredKept DEF RInv
    <3>3. CASE stored' = None
      BY <3>1, <3>3 DEF StoredFits
    <3>4. QED
      BY <2>2, <3>2, <3>3
  <2>3. QED
    BY <1>1, <2>1, <2>2
<1>5. QED
  BY <1>3, <1>4 DEF RInv

LEMMA NextOInv == OInv /\ [Next]_vars => OInv'
<1> SUFFICES ASSUME OInv, [Next]_vars, InFixedOrder' PROVE RInv'
  BY NextTInv DEF OInv
<1>0. UNCHANGED program
  BY DEF Next, vars
<1>1. TInv /\ InFixedOrder /\ RInv
  BY <1>0, ProgramStays DEF OInv
<1>2. ASSUME UNCHANGED <<stored, journal, index, buffer, slot, status, value, navs>>,
             EarlierCalled'
      PROVE  RInv'
  <2>1. InOrder' /\ StoredFits'
    BY <1>0, <1>1, <1>2, StoredKept DEF RInv, InOrder
  <2>2. \A i \in Steps : Consistent(i, journal)' /\ Valued(i)'
    BY <1>0, <1>1, <1>2 DEF RInv, Consistent, Recorded, Valued, IsMemo, Content
  <2>3. BatchOf(buffer, journal)'
    BY <1>0, <1>1, <1>2 DEF RInv, BatchOf, IsMemo
  <2>4. QED
    BY <1>2, <2>1, <2>2, <2>3 DEF RInv
<1>3. CASE UNCHANGED vars \/ Tick
  <2>1. EarlierCalled'
    BY <1>1, <1>3 DEF vars, pageVars, stepVars, Tick, RInv, EarlierCalled
  <2>2. QED
    BY <1>2, <1>3, <2>1 DEF vars, pageVars, stepVars, Tick
<1>4. ASSUME NEW i \in Steps, Code(i) \/ Produced(i) PROVE RInv'
  BY <1>0, <1>1, <1>4, CodeReplays
<1>5. CASE Flush
  BY <1>0, <1>1, <1>5, FlushReplays
<1>6. ASSUME NEW k \in 1..MaxLoads, Return(k) PROVE RInv'
  <2>1. k \in DOMAIN navs /\ k # None
    BY <1>1, <1>6, NoneAssumption DEF Return, TInv, TypeOK
  <2>2. PICK answered \in SUBSET navs[k].batch : Load(k, Answers(answered))
    BY <1>6 DEF Return
  <2>3. QED
    BY <1>0, <1>1, <2>1, <2>2, LoadReplays
<1>7. CASE Visit
  BY <1>0, <1>1, <1>7, LoadReplays DEF Visit
<1>8. ASSUME NEW i \in Steps, Request(i) PROVE RInv'
  <2>1. /\ Turn(i) /\ calls' = calls \cup {i} /\ status' = status
        /\ UNCHANGED <<stored, journal, index, buffer, slot, value, navs>>
    BY <1>8 DEF Request, stepVars
  <2>2. \A j \in Steps : j < i => status[j] # "new" \/ j \in calls
    BY <1>1, <2>1, TurnIsLast
  <2>3. EarlierCalled'
    BY <1>1, <2>1, <2>2 DEF RInv, EarlierCalled
  <2>4. QED
    BY <1>2, <2>1, <2>3
<1>9. QED
  BY <1>3, <1>4, <1>5, <1>6, <1>7, <1>8 DEF Next

LEMMA InitOInv == Init => OInv
<1> SUFFICES ASSUME Init PROVE RInv
  BY InitTInv DEF OInv
<1>1. \A i \in Steps : i \in Nat /\ i > 0
  BY ProgramAssumption, StepsFinite
<1>2. InOrder /\ EarlierCalled
  BY <1>1 DEF Init, InOrder, EarlierCalled
<1>3. BatchOf(buffer, journal) /\ StoredFits /\ \A i \in Steps : Valued(i)
  BY DEF Init, BatchOf, StoredFits, Valued
<1>4. ASSUME NEW i \in Steps PROVE Consistent(i, journal)
  BY FreshConsistent DEF Init
<1>5. QED
  BY <1>2, <1>3, <1>4 DEF RInv

\* Code whose steps take their slots in a fixed order never diverges, whatever was
\* lost, repeated, late or partial.  The order of the calls is not enough: a request
\* takes its slot some time after its call (signer.ts, sendRequest), so the code
\* must wait for it before later steps, but for the requests of the same turn.
THEOREM FixedOrderReplays == Spec => []NeverDiverges
<1>1. OInv => NeverDiverges
  BY DEF OInv, RInv, Valued, NeverDiverges
<1>2. QED
  BY <1>1, InitOInv, NextOInv, PTL DEF Spec

\* The answer a request of such code resolves to is the signer's answer to that
\* very request, carrying the value the code holds on this load.
THEOREM AnswersAreOwn == Spec => [](InFixedOrder => AnswersMatch)
<1>1. OInv => (InFixedOrder => AnswersMatch)
  BY DEF OInv, RInv, Valued, AnswersMatch
<1>2. QED
  BY <1>1, InitOInv, NextOInv, PTL DEF Spec

\* Code with a fixed slot order is also given a promise by memoize where its
\* producer made one, on every load.
THEOREM ShapesAreKept == Spec => [](InFixedOrder => ShapeKept)
<1>1. ASSUME OInv, InFixedOrder, NEW i \in Steps, status[i] = "done", IsMemo(i)
      PROVE  slot[i] \in journal.asyncSlots <=> program[i].kind = "async"
  <2>1. slot[i] = i /\ value[i] = journal.results[i] /\ Consistent(i, journal)
    BY <1>1 DEF OInv, RInv, InOrder, Valued
  <2>2. journal.results[i] # None
    BY <1>1, <2>1 DEF OInv, TInv, Counts
  <2>3. QED
    BY <2>1, <2>2 DEF Consistent
<1>2. OInv => (InFixedOrder => ShapeKept)
  BY <1>1 DEF ShapeKept
<1>3. QED
  BY <1>2, InitOInv, NextOInv, PTL DEF Spec
-----------------------------------------------------------------------------
(***************************************************************************)
(* What code with a fixed slot order was given                             *)
(***************************************************************************)

\* What the steps of the flow of journal j were given is in j.
Holds(j) ==
  \A i \in Steps : given[j.flow][i] # None => j.results[i] = given[j.flow][i]

\* The requests of a batch have no answer in journal j.
Open(batch, j) == \A q \in batch : j.results[q.id] = None

\* The two journals hold what their flows were given, and they are the same if
\* the flow is; a flow that is pending waits for an answer, and one that has not
\* begun has been given nothing.
GivenInv ==
  /\ \A f \in 1..MaxLoads, i \in Steps : f > loads => given[f][i] = None
  /\ Holds(journal) /\ Open(buffer, journal)
  /\ stored # None =>
       /\ Holds(stored.journal)
       /\ stored.journal.flow = journal.flow => stored.journal.results = journal.results
       /\ stored.pending # None =>
            stored.pending.requests # {} /\ Open(stored.pending.requests, stored.journal)

GInv == SInv /\ OInv /\ (InFixedOrder => GivenInv)

\* What a step of the calling code does to the journal and to what is given.
LEMMA CodeGives ==
  ASSUME TInv, RInv, InFixedOrder, UNCHANGED program, NEW i \in Steps,
         Code(i) \/ Produced(i)
  PROVE  /\ given' = given \/ given' = [given EXCEPT ![journal.flow][i] = journal'.results[i]]
         /\ \A j \in Steps \ {i} : journal'.results[j] = journal.results[j]
         /\ journal'.results[i] = journal.results[i]
              \/ (journal.results[i] = None /\ IsMemo(i))
         /\ \/ stored' = stored /\ journal'.results = journal.results
            \/ stored'.journal = journal' /\ stored'.pending = None
         /\ \A q \in buffer' : q \in buffer \/ (q.id = i /\ journal'.results[i] = None)
<1> DEFINE Goal ==
         /\ given' = given \/ given' = [given EXCEPT ![journal.flow][i] = journal'.results[i]]
         /\ \A j \in Steps \ {i} : journal'.results[j] = journal.results[j]
         /\ journal'.results[i] = journal.results[i]
              \/ (journal.results[i] = None /\ IsMemo(i))
         /\ \/ stored' = stored /\ journal'.results = journal.results
            \/ stored'.journal = journal' /\ stored'.pending = None
         /\ \A q \in buffer' : q \in buffer \/ (q.id = i /\ journal'.results[i] = None)
<1> SUFFICES Goal
  OBVIOUS
<1>0. journal \in Journals /\ i \in Slots
  BY DEF TInv, TypeOK, Slots
<1>1. ASSUME UNCHANGED <<stored, journal, buffer, given>> PROVE Goal
  BY <1>1
<1>2. ASSUME Resolve(i, journal.results[i]), UNCHANGED <<stored, journal, buffer>> PROVE Goal
  BY <1>2 DEF Resolve
<1>3. ASSUME IsMemo(i), journal.results[i] = None, Record(i, i), UNCHANGED buffer PROVE Goal
  <2>1. /\ \A j \in Steps \ {i} : journal'.results[j] = journal.results[j]
        /\ status'[i] = "done" /\ value'[i] = journal'.results[i]
        /\ stored'.journal = journal' /\ stored'.pending = None
    BY <1>3, RecordFits DEF RInv
  <2>2. given' = [given EXCEPT ![journal.flow][i] = value'[i]]
    BY <1>3 DEF Record, Resolve, TInv, TypeOK
  <2>3. QED
    BY <1>3, <2>1, <2>2
<1>4. ASSUME SendAt(i, i), UNCHANGED stored PROVE Goal
  <2>1. CASE Resolve(i, journal.results[i]) /\ UNCHANGED <<journal, buffer>>
    BY <1>2, <1>4, <2>1
  <2>2. CASE Become(i, "diverged") /\ UNCHANGED <<journal, buffer>>
    BY <1>1, <1>4, <2>2 DEF Become
  <2>3. CASE /\ journal.results[i] = None
             /\ buffer' = buffer \cup {[index |-> i, id |-> i, key |-> Content(i)]}
             /\ journal' = [journal EXCEPT !.requestKeys[i] = Content(i)]
             /\ Become(i, "sent")
    <3>1. journal'.results = journal.results
      BY <1>0, <2>3 DEF Journals
    <3>2. QED
      BY <1>4, <2>3, <3>1 DEF Become
  <2>4. QED
    BY <1>4, <2>1, <2>2, <2>3 DEF SendAt
<1>5. status[i] = "new" => i = index + 1
  BY TakesOwnSlot
<1>6. CASE Replay(i)
  <2>1. IsMemo(i) /\ i = index + 1 /\ UNCHANGED <<journal, buffer, stored>>
    BY <1>5, <1>6 DEF Replay, Turn, Ready
  <2>2. Resolve(i, journal.results[i]) \/ Become(i, "diverged")
    BY <1>6, <2>1 DEF Replay
  <2>3. QED
    BY <1>1, <1>2, <2>1, <2>2 DEF Become
<1>7. CASE MemoizeSync(i)
  <2>1. IsMemo(i) /\ i = index + 1 /\ journal.results[i] = None /\ UNCHANGED buffer
    BY <1>5, <1>7 DEF MemoizeSync, Turn, Ready, IsMemo
  <2>2. QED
    BY <1>1, <1>3, <1>7, <2>1 DEF MemoizeSync, Become
<1>8. CASE MemoizeAsync(i) \/ SendPromise(i)
  BY <1>1, <1>8 DEF MemoizeAsync, SendPromise, Become
<1>9. CASE Produced(i)
  <2>1. IsMemo(i) /\ journal.results[i] = None /\ slot[i] = i /\ UNCHANGED buffer
    BY <1>9 DEF Produced, RInv, Valued, InOrder
  <2>2. QED
    BY <1>1, <1>3, <1>9, <2>1 DEF Produced, Become
<1>10. CASE Send(i)
  <2>1. SendAt(i, i) /\ UNCHANGED stored
    BY <1>5, <1>10 DEF Send, Arrives, TInv, Calling
  <2>2. QED
    BY <1>4, <2>1
<1>11. CASE PromiseSettles(i)
  <2>1. slot[i] = i /\ UNCHANGED stored
    BY <1>11 DEF PromiseSettles, Settled, RInv, InOrder
  <2>2. QED
    BY <1>1, <1>4, <1>11, <2>1 DEF PromiseSettles, Become
<1>12. QED
  BY <1>6, <1>7, <1>8, <1>9, <1>10, <1>11 DEF Code

\* What a step of a flow was given does not change in a later step.
Stable == \A f \in 1..MaxLoads, i \in Steps : given[f][i] # None => given'[f][i] = given[f][i]

LEMMA CodeStable ==
  ASSUME SInv, RInv, GivenInv, InFixedOrder, UNCHANGED program, NEW i \in Steps,
         Code(i) \/ Produced(i)
  PROVE  GivenInv' /\ Stable
<1>1. /\ given' = given \/ given' = [given EXCEPT ![journal.flow][i] = journal'.results[i]]
      /\ \A j \in Steps \ {i} : journal'.results[j] = journal.results[j]
      /\ journal'.results[i] = journal.results[i]
           \/ (journal.results[i] = None /\ IsMemo(i))
      /\ \/ stored' = stored /\ journal'.results = journal.results
         \/ stored'.journal = journal' /\ stored'.pending = None
      /\ \A q \in buffer' : q \in buffer \/ (q.id = i /\ journal'.results[i] = None)
  BY CodeGives DEF SInv
<1>2. loads' = loads /\ journal'.flow = journal.flow
  BY CodeKeepsFlow DEF SInv
<1>3. /\ journal \in Journals /\ stored \in Flows \cup {None} /\ buffer \in Batches
      /\ journal.flow \in 1..MaxLoads /\ journal.flow <= loads
      /\ given \in [1..MaxLoads -> [Steps -> Values \cup {None}]]
  BY DEF SInv, TInv, TypeOK, FlowUrls, Journals
<1>4. \A f \in 1..MaxLoads, j \in Steps :
        given'[f][j] = IF f = journal.flow /\ j = i /\ given' # given
                         THEN journal'.results[i] ELSE given[f][j]
  <2>1. CASE given' = given
    BY <2>1
  <2>2. CASE given' # given
    <3>1. given' = [given EXCEPT ![journal.flow][i] = journal'.results[i]]
      BY <1>1, <2>2
    <3>2. \A f \in 1..MaxLoads, j \in Steps :
            given'[f][j] = IF f = journal.flow /\ j = i THEN journal'.results[i] ELSE given[f][j]
      BY <1>3, <3>1
    <3>3. QED
      BY <2>2, <3>2
  <2>3. QED
    BY <2>1, <2>2
<1>5. Stable
  BY <1>1, <1>4 DEF Stable, GivenInv, Holds
<1>6. \A f \in 1..MaxLoads, j \in Steps : f > loads' => given'[f][j] = None
  <2>1. loads \in Nat /\ \A f \in 1..MaxLoads : f \in Nat
    BY BoundsAssumption DEF SInv, TInv, TypeOK
  <2>2. QED
    BY <1>2, <1>3, <1>4, <2>1 DEF GivenInv
<1>7. Holds(journal)'
  BY <1>1, <1>2, <1>3, <1>4 DEF GivenInv, Holds
<1>8. Open(buffer, journal)'
  <2>1. ASSUME NEW q \in buffer PROVE q.id \in Steps /\ (q.id # i \/ journal'.results[q.id] = None)
    <3>1. q.id \in Steps /\ ~IsMemo(q.id) /\ journal.results[q.id] = None
      BY <1>3 DEF Batches, RInv, BatchOf, GivenInv, Open
    <3>2. QED
      BY <1>1, <3>1
  <2>2. QED
    BY <1>1, <2>1 DEF GivenInv, Open
<1>9. ASSUME stored' # None
      PROVE  /\ Holds(stored.journal)'
             /\ stored'.journal.flow = journal'.flow => stored'.journal.results = journal'.results
             /\ stored'.pending # None =>
                  /\ stored'.pending.requests # {}
                  /\ Open(stored.pending.requests, stored.journal)'
  <2>1. CASE stored'.journal = journal' /\ stored'.pending = None
    BY <1>7, <2>1 DEF Holds
  <2>2. CASE stored' = stored /\ journal'.results = journal.results
    <3>1. stored.journal \in Journals /\ stored.journal.flow \in 1..MaxLoads
      BY <1>3, <1>9, <2>2 DEF Flows, Journals
    <3>2. Holds(stored.journal)'
      BY <1>2, <1>4, <1>9, <2>2, <3>1 DEF GivenInv, Holds
    <3>3. QED
      BY <1>2, <1>9, <2>2, <3>2 DEF GivenInv, Open
  <2>3. QED
    BY <1>1, <2>1, <2>2
<1>10. QED
  BY <1>5, <1>6, <1>7, <1>8, <1>9 DEF GivenInv
LEMMA FlushStable ==
  ASSUME SInv, RInv, GivenInv, Flush
  PROVE  GivenInv' /\ UNCHANGED given
<1>1. /\ journal \in Journals /\ stored \in Flows \cup {None}
      /\ UNCHANGED <<given, loads>>
  BY DEF Flush, stepVars, SInv, TInv, TypeOK
<1>2. CASE UNCHANGED <<stored, journal, buffer>>
  BY <1>1, <1>2 DEF GivenInv, Holds, Open
<1>3. CASE /\ buffer # {} /\ buffer' = {}
           /\ Persist(journal, [state |-> Len(navs) + 1, requests |-> buffer])
  <2>1. /\ stored'.journal = journal' /\ stored'.pending.requests = buffer
        /\ journal'.flow = journal.flow /\ journal'.results = journal.results
    BY <1>1, <1>3, PersistKeeps
  <2>2. Holds(journal)'
    BY <1>1, <2>1 DEF GivenInv, Holds
  <2>3. Holds(stored.journal)'
    BY <2>1, <2>2 DEF Holds
  <2>4. Open(buffer, journal)' /\ Open(stored.pending.requests, stored.journal)'
    BY <1>3, <2>1 DEF GivenInv, Open
  <2>5. QED
    BY <1>1, <1>3, <2>1, <2>2, <2>3, <2>4 DEF GivenInv
<1>4. QED
  BY <1>1, <1>2, <1>3 DEF Flush

\* A load goes on with the pending flow and all that was in its journal, or
\* begins a flow of its own.
LEMMA LoadGives ==
  ASSUME TInv, RInv, NEW state, NEW answers, Load(state, answers),
         state # None => /\ state \in DOMAIN navs
                         /\ \E answered \in SUBSET navs[state].batch :
                              answers = Answers(answered)
  PROVE  \/ /\ stored # None /\ stored.pending # None
            /\ journal'.flow = stored.journal.flow
            /\ \A i \in Steps : stored.journal.results[i] # None =>
                                  journal'.results[i] = stored.journal.results[i]
            /\ stored'.journal = journal' /\ stored'.pending = None
         \/ journal'.flow = loads + 1 /\ (stored' = stored \/ stored' = None)
<1>1. PICK u \in Urls :
        IF state # None /\ stored # None /\ ~Expired
             /\ stored.pending # None /\ stored.pending.state = state
          THEN Persist([stored.journal EXCEPT
                          !.url = Target(u),
                          !.results = Absorb(@, stored.pending.requests, answers)],
                       None)
          ELSE /\ journal' = FreshJournal(loads + 1, u)
               /\ stored' = IF Expired THEN None ELSE stored
  BY DEF Load
<1>2. CASE state # None /\ stored # None /\ ~Expired
             /\ stored.pending # None /\ stored.pending.state = state
  <2> DEFINE r == Absorb(stored.journal.results, stored.pending.requests, answers)
             j0 == [stored.journal EXCEPT
                      !.url = Target(u),
                      !.results = Absorb(@, stored.pending.requests, answers)]
  <2>1. stored.journal \in Journals /\ stored.pending.requests \in Batches
    BY <1>2 DEF TInv, TypeOK, Flows, Pendings
  <2>2. /\ \A i \in Steps : Consistent(i, stored.journal)
        /\ stored.pending.requests = navs[state].batch
        /\ BatchOf(stored.pending.requests, stored.journal)
    BY <1>2 DEF RInv, StoredFits
  <2>3. PICK answered \in SUBSET stored.pending.requests : answers = Answers(answered)
    BY <1>2, <2>2
  <2>4. \A i \in Steps : stored.journal.results[i] # None => r[i] = stored.journal.results[i]
    BY <2>1, <2>2, <2>3, AbsorbFits
  <2>5. Persist(j0, None)
    BY <1>1, <1>2
  <2>6. /\ journal'.results = j0.results /\ journal'.flow = j0.flow
        /\ stored'.journal = journal' /\ stored'.pending = None
    BY <2>5 DEF Persist, Journals
  <2>7. j0.results = r /\ j0.flow = stored.journal.flow
    BY <2>1 DEF Journals
  <2>8. QED
    BY <1>2, <2>4, <2>6, <2>7
<1>3. CASE /\ journal' = FreshJournal(loads + 1, u)
           /\ stored' = IF Expired THEN None ELSE stored
  BY <1>3 DEF FreshJournal
<1>4. QED
  BY <1>1, <1>2, <1>3

\* A flow that is over is not continued.
Ends ==
  \A f \in 1..MaxLoads :
    (\A i \in Steps : given[f][i] # None) /\ loads' # loads => journal'.flow # f

LEMMA LoadStable ==
  ASSUME SInv, RInv, GivenInv, NEW state, NEW answers, Load(state, answers),
         state # None => /\ state \in DOMAIN navs
                         /\ \E answered \in SUBSET navs[state].batch :
                              answers = Answers(answered)
  PROVE  GivenInv' /\ UNCHANGED given /\ Ends
<1>1. /\ loads \in Nat /\ loads + 1 \in 1..MaxLoads /\ loads' = loads + 1
      /\ buffer' = {} /\ UNCHANGED given
      /\ \A f \in 1..MaxLoads : f \in Nat
  BY BoundsAssumption DEF Load, SInv, TInv, TypeOK
<1>2. \A f \in 1..MaxLoads, i \in Steps : f > loads' => given'[f][i] = None
  BY <1>1 DEF GivenInv
<1>3. Open(buffer, journal)'
  BY <1>1 DEF Open
<1>4. CASE /\ stored # None /\ stored.pending # None
           /\ journal'.flow = stored.journal.flow
           /\ \A i \in Steps : stored.journal.results[i] # None =>
                                 journal'.results[i] = stored.journal.results[i]
           /\ stored'.journal = journal' /\ stored'.pending = None
  <2>1. Holds(journal)'
    BY <1>1, <1>4 DEF GivenInv, Holds
  <2>2. Holds(stored.journal)'
    BY <1>4, <2>1 DEF Holds
  <2>3. Ends
    <3>1. stored.pending.requests \in Batches
      BY <1>4 DEF SInv, TInv, TypeOK, Flows, Pendings
    <3>2. PICK q \in stored.pending.requests : TRUE
      BY <1>4 DEF GivenInv
    <3>3. q.id \in Steps /\ stored.journal.results[q.id] = None
      BY <1>4, <3>1 DEF GivenInv, Open, Batches
    <3>4. given[journal'.flow][q.id] = None
      BY <1>4, <3>3 DEF GivenInv, Holds
    <3>5. QED
      BY <3>3, <3>4 DEF Ends
  <2>4. QED
    BY <1>1, <1>2, <1>3, <1>4, <2>1, <2>2, <2>3 DEF GivenInv
<1>5. CASE journal'.flow = loads + 1 /\ (stored' = stored \/ stored' = None)
  <2>1. \A i \in Steps : given[journal'.flow][i] = None
    BY <1>1, <1>5 DEF GivenInv
  <2>2. Holds(journal)'
    BY <1>1, <2>1 DEF Holds
  <2>3. stored # None => stored.journal.flow # journal'.flow
    <3>1. stored # None => stored.journal \in Journals /\ stored.journal.flow <= loads
      BY DEF SInv, TInv, TypeOK, Flows, FlowUrls
    <3>2. stored # None => stored.journal.flow \in Nat
      BY <1>1, <3>1 DEF Journals
    <3>3. QED
      BY <1>1, <1>5, <3>1, <3>2
  <2>4. Ends
    BY <2>1, ProgramAssumption DEF Ends
  <2>5. stored' # None => stored' = stored /\ Holds(stored.journal)'
    BY <1>1, <1>5 DEF GivenInv, Holds
  <2>6. QED
    BY <1>1, <1>2, <1>3, <2>2, <2>3, <2>4, <2>5 DEF GivenInv, Open
<1>6. QED
  BY <1>4, <1>5, LoadGives DEF SInv

LEMMA NextGiven ==
  ASSUME GInv, InFixedOrder, [Next]_vars
  PROVE  GivenInv' /\ Stable /\ Ends
<1>0. SInv /\ TInv /\ RInv /\ GivenInv
  BY DEF GInv, SInv, OInv
<1>1. UNCHANGED given => Stable
  BY DEF Stable
<1>2. loads' = loads => Ends
  BY DEF Ends
<1>3. CASE UNCHANGED vars \/ Tick \/ \E i \in Steps : Request(i)
  <2>1. UNCHANGED <<given, loads, stored, journal, buffer>>
    BY <1>3 DEF vars, pageVars, stepVars, Tick, Request
  <2>2. GivenInv'
    BY <1>0, <2>1 DEF GivenInv, Holds, Open
  <2>3. QED
    BY <1>1, <1>2, <2>1, <2>2
<1>4. ASSUME NEW i \in Steps, Code(i) \/ Produced(i), UNCHANGED program
      PROVE  GivenInv' /\ Stable /\ Ends
  BY <1>0, <1>2, <1>4, CodeStable, CodeKeepsFlow
<1>5. CASE Flush
  <2>1. loads' = loads
    BY <1>5 DEF Flush
  <2>2. QED
    BY <1>0, <1>1, <1>2, <1>5, <2>1, FlushStable
<1>6. ASSUME NEW k \in 1..MaxLoads, Return(k) PROVE GivenInv' /\ Stable /\ Ends
  <2>1. k \in DOMAIN navs
    BY <1>0, <1>6 DEF Return, TInv, TypeOK
  <2>2. PICK answered \in SUBSET navs[k].batch : Load(k, Answers(answered))
    BY <1>6 DEF Return
  <2>3. QED
    BY <1>0, <1>1, <2>1, <2>2, LoadStable
<1>7. CASE Visit
  BY <1>0, <1>1, <1>7, LoadStable DEF Visit
<1>8. QED
  BY <1>3, <1>4, <1>5, <1>6, <1>7 DEF Next

LEMMA OrderStays == InFixedOrder /\ [Next]_vars => InFixedOrder'
<1>1. [Next]_vars => UNCHANGED program
  BY DEF Next, vars
<1>2. QED
  BY <1>1, ProgramStays

LEMMA InitGInv == Init => GInv
<1> SUFFICES ASSUME Init PROVE GivenInv
  BY InitSInv, InitOInv DEF GInv
<1>1. stored = None /\ buffer = {} /\ journal.flow \in 1..MaxLoads
      /\ \A f \in 1..MaxLoads, i \in Steps : given[f][i] = None
  BY BoundsAssumption DEF Init, FreshJournal
<1>2. QED
  BY <1>1 DEF GivenInv, Holds, Open

LEMMA NextGInv == GInv /\ [Next]_vars => GInv'
<1> SUFFICES ASSUME GInv, [Next]_vars, InFixedOrder' PROVE GivenInv'
  BY NextSInv, NextOInv DEF GInv
<1>1. UNCHANGED program
  BY DEF Next, vars
<1>2. InFixedOrder
  BY <1>1, ProgramStays
<1>3. QED
  BY <1>2, NextGiven

\* In a flow of code with a fixed slot order a step resolves to the same value on every load: no
\* nonce is produced twice, whatever returns, reloads and failures there are.
THEOREM ValuesAreStable == Spec => (InFixedOrder => StableValues)
<1>1. GInv /\ InFixedOrder /\ [Next]_vars =>
        [\A f \in 1..MaxLoads, i \in Steps :
           given[f][i] # None => given'[f][i] = given[f][i]]_vars
  BY NextGiven DEF Stable
<1>2. QED
  BY <1>1, InitGInv, NextGInv, OrderStays, PTL DEF Spec, StableValues

\* A flow in which every step has been given its value is never run again.
THEOREM FlowsFinishOnce == Spec => (InFixedOrder => FinishesOnce)
<1>1. GInv /\ InFixedOrder /\ [Next]_vars =>
        [\A f \in 1..MaxLoads :
           /\ \A i \in Steps : given[f][i] # None
           /\ loads' # loads
           => journal'.flow # f]_vars
  BY NextGiven DEF Ends
<1>2. QED
  BY <1>1, InitGInv, NextGInv, OrderStays, PTL DEF Spec, FinishesOnce
-----------------------------------------------------------------------------
(***************************************************************************)
(* One redirect for each stage of code with a fixed slot order             *)
(***************************************************************************)

\* The signer answers all it is asked, and no producer rejects.  A request that
\* was left without an answer is asked again, and so is one whose promise was
\* rejected: both take another redirect for their stage.
NothingLost == "partial" \notin Faults /\ "producer" \notin Faults

\* A request that waits for the same steps as request i has left the page.
Asked(f, i) ==
  \E k \in DOMAIN navs :
    navs[k].flow = f /\ \E q \in navs[k].batch : program[q.id].after = program[i].after

\* Once a stage has left the page, each request of it has its answer or is in
\* the batch.
Covered(j, batch) ==
  \A i \in Steps : ~IsMemo(i) /\ Asked(j.flow, i) =>
    j.results[i] # None \/ \E q \in batch : q.id = i

\* What a step that has been issued came after is done; what is done is in the
\* journal, and what is sent waits in the buffer until the page is left.
Issued(i) ==
  /\ status[i] # "failed"
  /\ status[i] # "new" => \A j \in program[i].after : status[j] = "done"
  /\ status[i] = "done" => journal.results[i] # None
  /\ status[i] = "sent" /\ ~navigated => \E q \in buffer : q.id = i

\* The flow that runs, and the one that is pending, have covered the stages they
\* have asked for.
HopInv ==
  /\ OneHopPerStage
  /\ \A i \in Steps : Issued(i)
  /\ \A q \in buffer : status[q.id] # "new"
  /\ ~navigated => Covered(journal, {})
  /\ stored # None =>
       (stored.pending # None => Covered(stored.journal, stored.pending.requests))

\* What sending a request leaves behind.
LEMMA SentOrDone ==
  ASSUME TInv, NEW i \in Steps, SendAt(i, i)
  PROVE  /\ buffer \subseteq buffer'
         /\ status'[i] \in {"done", "diverged", "sent"}
         /\ status'[i] = "done" => journal'.results[i] # None
         /\ status'[i] = "sent" => \E q \in buffer' : q.id = i
<1>0. status \in [Steps -> Statuses]
  BY DEF TInv, TypeOK
<1>1. CASE journal.results[i] # None /\ UNCHANGED <<journal, buffer>>
           /\ (Resolve(i, journal.results[i]) \/ Become(i, "diverged"))
  BY <1>0, <1>1 DEF Resolve, Become
<1>2. CASE /\ buffer' = buffer \cup {[index |-> i, id |-> i, key |-> Content(i)]}
           /\ Become(i, "sent")
  <2>1. \E q \in buffer' : q.id = i
    <3> DEFINE m == [index |-> i, id |-> i, key |-> Content(i)]
    <3>1. m \in buffer' /\ m.id = i
      BY <1>2
    <3>2. QED
      BY <3>1
  <2>2. status'[i] = "sent" /\ buffer \subseteq buffer'
    BY <1>0, <1>2 DEF Become
  <2>3. QED
    BY <2>1, <2>2
<1>3. QED
  BY <1>1, <1>2 DEF SendAt

\* A step of the calling code issues what is ready, and finishes or sends it.
LEMMA CodeIssues ==
  ASSUME TInv, RInv, InFixedOrder, NothingLost, \A j \in Steps : Issued(j),
         UNCHANGED program, NEW i \in Steps, Code(i) \/ Produced(i)
  PROVE  /\ status[i] # "done"
         /\ status[i] = "new" => \A j \in program[i].after : status[j] = "done"
         /\ status'[i] # "failed"
         /\ status'[i] = "done" => journal'.results[i] # None
         /\ status'[i] = "sent" => \E q \in buffer' : q.id = i
         /\ buffer \subseteq buffer' /\ navigated' = navigated
<1>0. status \in [Steps -> Statuses] /\ journal \in Journals
  BY DEF TInv, TypeOK
<1>1. /\ status[i] # "done"
      /\ status[i] = "new" =>
           (\A j \in program[i].after : status[j] = "done") /\ i = index + 1
  BY CodeCalls, TakesOwnSlot
<1>2. navigated' = navigated
  BY DEF Code, Produced, Replay, MemoizeSync, MemoizeAsync, Send, SendPromise, PromiseSettles
<1>3. ASSUME Record(i, i), IsMemo(i), journal.results[i] = None
      PROVE  status'[i] = "done" /\ journal'.results[i] # None
  <2>1. status'[i] = "done" /\ value'[i] = journal'.results[i]
    BY <1>3, RecordFits DEF RInv
  <2>2. value'[i] = <<i, runs[i] + 1>> /\ <<i, runs[i] + 1>> \in Values
    BY <1>3 DEF Record, Resolve, TInv, TypeOK, Values
  <2>3. QED
    BY <2>1, <2>2, NoneAssumption
<1> SUFFICES /\ status'[i] # "failed"
             /\ status'[i] = "done" => journal'.results[i] # None
             /\ status'[i] = "sent" => \E q \in buffer' : q.id = i
             /\ buffer \subseteq buffer'
  BY <1>1, <1>2
<1>4. CASE Replay(i)
  <2>1. i = index + 1 /\ UNCHANGED <<journal, buffer>> /\ journal.results[i] # None
    BY <1>1, <1>4 DEF Replay, Turn, Ready
  <2>2. status'[i] \in {"done", "diverged"}
    BY <1>0, <1>4 DEF Replay, Resolve, Become
  <2>3. QED
    BY <2>1, <2>2
<1>5. CASE MemoizeSync(i)
  <2>1. i = index + 1 /\ UNCHANGED buffer /\ IsMemo(i) /\ journal.results[i] = None
    BY <1>1, <1>5 DEF MemoizeSync, Turn, Ready, IsMemo
  <2>2. Record(i, i)
    BY <1>5, <2>1 DEF MemoizeSync, NothingLost
  <2>3. QED
    BY <1>3, <2>1, <2>2
<1>6. CASE MemoizeAsync(i) \/ SendPromise(i)
  <2>1. UNCHANGED buffer /\ status'[i] \in {"running", "resolving"}
    BY <1>0, <1>6 DEF MemoizeAsync, SendPromise, Become
  <2>2. QED
    BY <2>1
<1>7. CASE Produced(i)
  <2>1. slot[i] = i /\ UNCHANGED buffer /\ IsMemo(i) /\ journal.results[i] = None
    BY <1>7 DEF Produced, RInv, Valued, InOrder
  <2>2. Record(i, i)
    BY <1>7, <2>1 DEF Produced, NothingLost
  <2>3. QED
    BY <1>3, <2>1, <2>2
<1>8. CASE Send(i)
  <2>1. SendAt(i, i)
    BY <1>1, <1>8 DEF Send, Arrives, TInv, Calling
  <2>2. QED
    BY <2>1, SentOrDone
<1>9. CASE PromiseSettles(i)
  <2>1. slot[i] = i
    BY <1>9 DEF PromiseSettles, Settled, RInv, InOrder
  <2>2. program[i].uses # None => status[program[i].uses] = "done"
    <3>1. program[i].uses # None => program[i].uses \in Steps
      BY UsesMemo
    <3>2. QED
      BY <1>9, <3>1 DEF PromiseSettles, Settled, Issued, RInv, Valued
  <2>3. SendAt(i, i)
    BY <1>9, <2>1, <2>2 DEF PromiseSettles
  <2>4. QED
    BY <2>3, SentOrDone
<1>10. QED
  BY <1>4, <1>5, <1>6, <1>7, <1>8, <1>9 DEF Code

\* A journal that has grown covers what it covered.
LEMMA CoverKept ==
  ASSUME UNCHANGED <<program, navs>>, NEW j, NEW k, NEW batch,
         k.flow = j.flow, \A i \in Steps : j.results[i] # None => k.results[i] # None,
         Covered(j, batch)
  PROVE  /\ \A i \in Steps : ~IsMemo(i)' /\ Asked(j.flow, i)' =>
              k.results[i] # None \/ \E q \in batch : q.id = i
  BY DEF Covered, Asked, IsMemo

LEMMA CodeHops ==
  ASSUME SInv, RInv, GivenInv, HopInv, InFixedOrder, NothingLost, UNCHANGED program,
         NEW i \in Steps, Code(i) \/ Produced(i)
  PROVE  HopInv'
<1>1. TInv /\ \A j \in Steps : Issued(j)
  BY DEF SInv, HopInv
<1>2. /\ status[i] # "done"
      /\ status[i] = "new" => \A j \in program[i].after : status[j] = "done"
      /\ status'[i] # "failed"
      /\ status'[i] = "done" => journal'.results[i] # None
      /\ status'[i] = "sent" => \E q \in buffer' : q.id = i
      /\ buffer \subseteq buffer' /\ navigated' = navigated
  BY <1>1, CodeIssues
<1>3. UNCHANGED navs /\ journal'.flow = journal.flow
  BY <1>1, CodeKeepsFlow
<1>4. /\ \A j \in Steps : journal.results[j] # None => journal'.results[j] # None
      /\ stored' = stored \/ stored'.pending = None
  <2>1. /\ \A j \in Steps \ {i} : journal'.results[j] = journal.results[j]
        /\ journal'.results[i] = journal.results[i] \/ journal.results[i] = None
        /\ stored' = stored \/ stored'.pending = None
    BY <1>1, CodeGives
  <2>2. QED
    BY <2>1
<1>5. PICK s \in Statuses \ {"new"}, v \in Values : Moved(i, s, v)
  BY <1>1, CodeTypes
<1>6. \A j \in Steps : status'[j] = IF j = i THEN s ELSE status[j]
  BY <1>1, <1>5 DEF Moved, TInv, TypeOK
<1>7. ASSUME NEW j \in Steps PROVE Issued(j)'
  <2>1. program[j].after \subseteq Steps
    BY <1>1, StepType DEF TInv
  <2>2. status'[j] # "new" => \A a \in program[j].after : status'[a] = "done"
    <3>1. status'[j] # "new" => \A a \in program[j].after : status[a] = "done"
      BY <1>1, <1>2, <1>6 DEF Issued
    <3>2. QED
      BY <1>2, <1>6, <2>1, <3>1
  <2>3. QED
    BY <1>1, <1>2, <1>4, <1>6, <2>2 DEF Issued
<1>8. ~navigated' => Covered(journal, {})'
  BY <1>2, <1>3, <1>4 DEF HopInv, Covered, Asked, IsMemo
<1>9. stored' # None =>
        (stored'.pending # None => Covered(stored.journal, stored.pending.requests)')
  BY <1>3, <1>4 DEF HopInv, Covered, Asked, IsMemo
<1>10. OneHopPerStage'
  BY <1>3 DEF HopInv, OneHopPerStage
<1>11. \A q \in buffer' : status'[q.id] # "new"
  <2>1. \A q \in buffer' : q \in buffer \/ q.id = i
    BY <1>1, CodeGives
  <2>2. \A q \in buffer : q.id \in Steps
    BY <1>1 DEF TInv, TypeOK, Batches
  <2>3. QED
    BY <1>6, <2>1, <2>2 DEF HopInv
<1>12. QED
  BY <1>7, <1>8, <1>9, <1>10, <1>11 DEF HopInv

\* When the page is left, the stage of each request in the batch leaves with it.
LEMMA FlushHops ==
  ASSUME SInv, RInv, GivenInv, HopInv, UNCHANGED program, Flush
  PROVE  HopInv'
<1>0. /\ TInv /\ navs \in Seq(Navs) /\ journal \in Journals /\ buffer \in Batches
      /\ UNCHANGED <<status, inFlight>>
  BY DEF SInv, TInv, TypeOK, Flush, stepVars
<1>1. CASE UNCHANGED <<stored, journal, buffer, navigated, navs>>
  BY <1>0, <1>1 DEF HopInv, Covered, Asked, IsMemo, OneHopPerStage, Issued
<1>2. CASE /\ ~Held /\ ~navigated /\ navigated'
           /\ Persist(journal, [state |-> Len(navs) + 1, requests |-> buffer])
           /\ buffer' = {}
           /\ navs' = Append(navs, [flow |-> journal.flow, url |-> journal.url,
                                    batch |-> buffer])
  <2> DEFINE n == Len(navs) + 1
  <2>1. /\ stored'.journal = journal' /\ stored'.pending.requests = buffer
        /\ journal'.flow = journal.flow /\ journal'.results = journal.results
    BY <1>0, <1>2, PersistKeeps
  <2>2. /\ DOMAIN navs' = DOMAIN navs \cup {n} /\ n \notin DOMAIN navs
        /\ \A k \in DOMAIN navs : navs'[k] = navs[k]
        /\ navs'[n].flow = journal.flow /\ navs'[n].batch = buffer
    BY <1>0, <1>2
  <2>3. ASSUME NEW p \in buffer
        PROVE  p.id \in Steps /\ ~IsMemo(p.id) /\ journal.results[p.id] = None
    BY <1>0 DEF Batches, RInv, BatchOf, GivenInv, Open
  <2>4. ASSUME NEW p \in buffer PROVE ~Asked(journal.flow, p.id)
    BY <1>2, <2>3 DEF HopInv, Covered
  <2>5. OneHopPerStage'
    <3>1. ASSUME NEW k \in DOMAIN navs, navs[k].flow = journal.flow,
                 NEW p \in navs[k].batch, NEW q \in buffer
          PROVE  program[p.id].after # program[q.id].after
      BY <2>4, <3>1 DEF Asked
    <3>2. SUFFICES ASSUME NEW k \in DOMAIN navs', NEW m \in DOMAIN navs', k # m,
                          navs'[k].flow = navs'[m].flow,
                          NEW p \in navs'[k].batch, NEW q \in navs'[m].batch
                   PROVE  program[p.id].after # program[q.id].after
      BY DEF OneHopPerStage
    <3>3. CASE k = n \/ m = n
      BY <2>2, <3>1, <3>2, <3>3
    <3>4. CASE k # n /\ m # n
      BY <2>2, <3>2, <3>4 DEF HopInv, OneHopPerStage
    <3>5. QED
      BY <3>3, <3>4
  <2>6. ASSUME NEW i \in Steps, ~IsMemo(i), NEW p \in buffer,
               program[p.id].after = program[i].after
        PROVE  journal.results[i] # None \/ \E q \in buffer : q.id = i
    <3>1. \A j \in program[i].after : status[j] = "done"
      BY <2>3, <2>6 DEF HopInv, Issued
    <3>2. status[i] # "new"
      BY <3>1 DEF Flush, Quiescent, Ready
    <3>3. Holding = {}
      <4>1. inFlight = 0
        BY <1>0, <1>2 DEF Held, TInv, TypeOK
      <4>2. QED
        BY <1>0, <4>1, HoldingFinite, FS_EmptySet DEF TInv, Counts
    <3>4. status[i] \in {"done", "sent"}
      BY <1>0, <3>2, <3>3 DEF TInv, TypeOK, Statuses, Holding, HopInv, Issued, RInv, Valued
    <3>5. QED
      BY <1>2, <3>4 DEF HopInv, Issued
  <2>7. Covered(stored.journal, stored.pending.requests)'
    <3>1. SUFFICES ASSUME NEW i \in Steps, ~IsMemo(i),
                          NEW k \in DOMAIN navs', navs'[k].flow = journal.flow,
                          NEW p \in navs'[k].batch, program[p.id].after = program[i].after
                   PROVE  journal.results[i] # None \/ \E q \in buffer : q.id = i
      BY <2>1 DEF Covered, Asked, IsMemo
    <3>2. CASE k = n
      BY <2>2, <2>6, <3>1, <3>2
    <3>3. CASE k # n
      <4>1. Asked(journal.flow, i)
        BY <2>2, <3>1, <3>3 DEF Asked
      <4>2. QED
        BY <1>2, <3>1, <4>1 DEF HopInv, Covered
    <3>4. QED
      BY <3>2, <3>3
  <2>8. (\A i \in Steps : Issued(i)') /\ \A q \in buffer' : status'[q.id] # "new"
    <3>1. \A i \in Steps : Issued(i)'
      BY <1>0, <1>2, <2>1 DEF HopInv, Issued
    <3>2. QED
      BY <1>0, <1>2, <3>1 DEF Flush
  <2>9. QED
    BY <1>2, <2>5, <2>7, <2>8 DEF HopInv
<1>3. QED
  BY <1>1, <1>2 DEF Flush

\* A return with all the answers leaves no request of its batch open.
LEMMA AbsorbAll ==
  ASSUME TInv, NEW results \in [Slots -> Values \cup {None}],
         NEW batch \in Batches, \A q \in batch : q.index = q.id,
         NEW r, r = Absorb(results, batch, Answers(batch))
  PROVE  \A i \in Steps :
           results[i] # None \/ (\E q \in batch : q.id = i) => r[i] # None
<1> DEFINE matches(i) == {a \in Answers(batch) : \E q \in batch : q.index = i /\ q.id = a.id}
<1>1. ASSUME NEW i \in Steps
      PROVE  r[i] = IF matches(i) = {} THEN results[i]
                                       ELSE (CHOOSE a \in matches(i) : TRUE).content
  BY DEF Absorb, Slots
<1>2. \A i \in Steps : \A a \in matches(i) : a.content # None
  BY NoneAssumption DEF Answers, Batches
<1>3. ASSUME NEW i \in Steps, matches(i) # {} PROVE r[i] # None
  <2>1. (CHOOSE a \in matches(i) : TRUE) \in matches(i)
    BY <1>3
  <2>2. QED
    BY <1>1, <1>2, <1>3, <2>1
<1>4. ASSUME NEW i \in Steps, NEW q \in batch, q.id = i PROVE matches(i) # {}
  <2>1. [id |-> q.id, content |-> q.key] \in matches(i)
    BY <1>4 DEF Answers
  <2>2. QED
    BY <2>1
<1>5. QED
  BY <1>1, <1>3, <1>4

LEMMA LoadHops ==
  ASSUME SInv, RInv, HopInv, UNCHANGED program, NEW state, NEW answers,
         Load(state, answers),
         state # None => state \in DOMAIN navs /\ answers = Answers(navs[state].batch)
  PROVE  HopInv'
<1>0. /\ TInv /\ stored \in Flows \cup {None} /\ UNCHANGED navs
      /\ loads \in Nat /\ buffer' = {}
      /\ \A i \in Steps : status'[i] = "new"
  BY BoundsAssumption DEF SInv, TInv, TypeOK, Load
<1>1. PICK u \in Urls :
        IF state # None /\ stored # None /\ ~Expired
             /\ stored.pending # None /\ stored.pending.state = state
          THEN Persist([stored.journal EXCEPT
                          !.url = Target(u),
                          !.results = Absorb(@, stored.pending.requests, answers)],
                       None)
          ELSE /\ journal' = FreshJournal(loads + 1, u)
               /\ stored' = IF Expired THEN None ELSE stored
  BY DEF Load
<1>2. /\ OneHopPerStage' /\ \A q \in buffer' : status'[q.id] # "new"
      /\ \A i \in Steps : Issued(i)'
  BY <1>0 DEF HopInv, OneHopPerStage, Issued
<1>3. CASE state # None /\ stored # None /\ ~Expired
             /\ stored.pending # None /\ stored.pending.state = state
  <2> DEFINE r == Absorb(stored.journal.results, stored.pending.requests, answers)
             j0 == [stored.journal EXCEPT
                      !.url = Target(u),
                      !.results = Absorb(@, stored.pending.requests, answers)]
  <2>1. stored.journal \in Journals /\ stored.pending.requests \in Batches
    BY <1>0, <1>3 DEF Flows, Pendings
  <2>2. /\ stored.pending.requests = navs[state].batch
        /\ BatchOf(stored.pending.requests, stored.journal)
    BY <1>3 DEF RInv, StoredFits
  <2>3. \A i \in Steps :
          stored.journal.results[i] # None \/ (\E q \in stored.pending.requests : q.id = i)
            => r[i] # None
    <3>1. stored.journal.results \in [Slots -> Values \cup {None}]
      BY <2>1 DEF Journals
    <3>2. \A q \in stored.pending.requests : q.index = q.id
      BY <2>2 DEF BatchOf
    <3>3. answers = Answers(stored.pending.requests)
      BY <1>3, <2>2
    <3>4. QED
      BY <1>0, <2>1, <3>1, <3>2, <3>3, AbsorbAll
  <2>4. Persist(j0, None)
    BY <1>1, <1>3
  <2>5. /\ journal'.results = r /\ journal'.flow = stored.journal.flow
        /\ stored'.pending = None
    BY <2>1, <2>4 DEF Persist, Journals
  <2>6. Covered(stored.journal, stored.pending.requests)
    BY <1>3 DEF HopInv
  <2>7. Covered(journal, {})'
    BY <1>0, <2>3, <2>5, <2>6 DEF Covered, Asked, IsMemo
  <2>8. QED
    BY <1>2, <2>5, <2>7 DEF HopInv
<1>4. CASE /\ journal' = FreshJournal(loads + 1, u)
           /\ stored' = IF Expired THEN None ELSE stored
  <2>1. journal'.flow = loads + 1
    BY <1>4 DEF FreshJournal
  <2>2. \A k \in DOMAIN navs : navs[k].flow # loads + 1
    <3>1. ASSUME NEW k \in DOMAIN navs PROVE navs[k].flow \in Nat /\ navs[k].flow <= loads
      <4>1. navs[k] \in Navs
        BY <1>0 DEF TInv, TypeOK
      <4>2. QED
        BY <4>1, BoundsAssumption DEF Navs, SInv, FlowUrls
    <3>2. QED
      BY <1>0, <3>1
  <2>3. Covered(journal, {})'
    BY <1>0, <2>1, <2>2 DEF Covered, Asked
  <2>4. stored' # None =>
          (stored'.pending # None => Covered(stored.journal, stored.pending.requests)')
    BY <1>0, <1>4 DEF HopInv, Covered, Asked, IsMemo
  <2>5. QED
    BY <1>2, <2>3, <2>4 DEF HopInv
<1>5. QED
  BY <1>1, <1>3, <1>4

HopsInv == GInv /\ (InFixedOrder => HopInv)

LEMMA InitHopsInv == Init => HopsInv
<1> SUFFICES ASSUME Init PROVE HopInv
  BY InitGInv DEF HopsInv
<1>1. DOMAIN navs = {} /\ stored = None /\ buffer = {}
      /\ \A i \in Steps : status[i] = "new"
  BY DEF Init
<1>2. QED
  BY <1>1 DEF HopInv, OneHopPerStage, Issued, Covered, Asked

LEMMA NextHopsInv ==
  ASSUME NothingLost, HopsInv, [Next]_vars
  PROVE  HopsInv'
<1> SUFFICES ASSUME InFixedOrder' PROVE HopInv'
  BY NextGInv DEF HopsInv
<1>0. UNCHANGED program
  BY DEF Next, vars
<1>1. InFixedOrder /\ SInv /\ RInv /\ GivenInv /\ HopInv
  BY <1>0, ProgramStays DEF HopsInv, GInv, OInv
<1>2. CASE UNCHANGED vars \/ Tick \/ \E i \in Steps : Request(i)
  <2>1. UNCHANGED <<stored, journal, buffer, navigated, status, navs>>
    BY <1>2 DEF vars, pageVars, stepVars, Tick, Request
  <2>2. QED
    BY <1>0, <1>1, <2>1 DEF HopInv, OneHopPerStage, Issued, Covered, Asked, IsMemo
<1>3. ASSUME NEW i \in Steps, Code(i) \/ Produced(i) PROVE HopInv'
  BY <1>0, <1>1, <1>3, CodeHops
<1>4. CASE Flush
  BY <1>0, <1>1, <1>4, FlushHops
<1>5. ASSUME NEW k \in 1..MaxLoads, Return(k) PROVE HopInv'
  <2>1. k \in DOMAIN navs /\ Load(k, Answers(navs[k].batch))
    BY <1>1, <1>5 DEF Return, SInv, TInv, TypeOK, NothingLost
  <2>2. QED
    BY <1>0, <1>1, <2>1, LoadHops
<1>6. CASE Visit
  BY <1>0, <1>1, <1>6, LoadHops DEF Visit
<1>7. QED
  BY <1>2, <1>3, <1>4, <1>5, <1>6 DEF Next

\* Code with a fixed slot order leaves the page once for each stage: the requests
\* that wait for the same steps share one redirect, and none is sent again,
\* whatever old returns, reloads and visits there are (urlFlow.ts, #flush sends
\* what is buffered once no step holds the redirect).
THEOREM OneRedirectForEachStage ==
  ASSUME NothingLost
  PROVE  Spec => [](InFixedOrder => OneHopPerStage)
<1>1. HopsInv /\ [Next]_vars => HopsInv'
  BY NextHopsInv
<1>2. HopsInv => (InFixedOrder => OneHopPerStage)
  BY DEF HopsInv, HopInv
<1>3. QED
  BY <1>1, <1>2, InitHopsInv, PTL DEF Spec
-----------------------------------------------------------------------------
(***************************************************************************)
(* The answers, for code in any order                                      *)
(***************************************************************************)

\* No two steps have taken the same slot on this load.
OwnSlots ==
  /\ \A i \in Steps : status[i] # "new" => slot[i] <= index
  /\ \A i, j \in Steps :
       status[i] # "new" /\ status[j] # "new" /\ slot[i] = slot[j] => i = j

\* A slot with a request and a result has the answer to that request.
Keyed(j) ==
  \A s \in Slots : j.results[s] # None /\ j.requestKeys[s] # None =>
                     j.results[s] = j.requestKeys[s]

\* A batch asks each request once, as the journal has recorded it.
Asking(batch, j) ==
  /\ \A q \in batch : j.requestKeys[q.index] = q.key
  /\ \A p, q \in batch : p.id = q.id => p = q

\* A request was recorded for slot s, and has no answer.
Awaiting(j, s) == j.requestKeys[s] # None /\ j.results[s] = None

\* What is known of step i: it resolved to the answer to its request, and no
\* request has been recorded for the slot of a producer that runs.
Matched(i) ==
  /\ status[i] = "done" /\ ~IsMemo(i) =>
       /\ value[i] = Content(i)
       /\ program[i].uses # None => status[program[i].uses] = "done"
  /\ status[i] = "running" => IsMemo(i) /\ journal.requestKeys[slot[i]] = None
  /\ status[i] = "resolving" => ~IsMemo(i)

\* A request that waits for its answer has been sent on this load, and leaves
\* with the next redirect.
InMemory ==
  /\ Keyed(journal) /\ Asking(buffer, journal)
  /\ \A q \in buffer : status[q.id] = "sent" /\ slot[q.id] = q.index
  /\ \A s \in Slots : Awaiting(journal, s) =>
       /\ \E i \in Steps : status[i] = "sent" /\ slot[i] = s
       /\ ~navigated => \E q \in buffer : q.index = s

InStorage ==
  stored # None =>
    (stored.pending # None =>
       /\ stored.pending.state \in DOMAIN navs
       /\ stored.pending.requests = navs[stored.pending.state].batch
       /\ Keyed(stored.journal) /\ Asking(stored.pending.requests, stored.journal)
       /\ \A s \in Slots : Awaiting(stored.journal, s) =>
            \E q \in stored.pending.requests : q.index = s)

KInv ==
  /\ OwnSlots
  /\ \A i \in Steps : Matched(i)
  /\ InMemory
  /\ InStorage

\* A step of the code takes the next slot or keeps its own.
LEMMA SlotsKept ==
  ASSUME TInv, OwnSlots, NEW i \in Steps, NEW s \in Statuses \ {"new"}, NEW v,
         Moved(i, s, v)
  PROVE  /\ OwnSlots'
         /\ \A j \in Steps : status'[j] = IF j = i THEN s ELSE status[j]
         /\ \A j \in Steps \ {i} : slot'[j] = slot[j]
         /\ slot'[i] = IF status[i] = "new" THEN index + 1 ELSE slot[i]
<1>1. \A j \in Steps : status'[j] = IF j = i THEN s ELSE status[j]
  BY DEF Moved, TInv, TypeOK
<1>2. /\ index \in Nat /\ \A j \in Steps : status[j] # "new" => slot[j] \in Nat
      /\ slot \in [Steps -> Slots \cup {None}]
  BY ProgramAssumption, StepsFinite DEF TInv, TypeOK, Counts, Slots
<1>3. CASE status[i] = "new"
  <2>1. index' = index + 1 /\ \A j \in Steps : slot'[j] = IF j = i THEN index + 1 ELSE slot[j]
    BY <1>2, <1>3 DEF Moved
  <2>2. \A j \in Steps : status'[j] # "new" => slot'[j] <= index'
    BY <1>1, <1>2, <2>1 DEF OwnSlots
  <2>3. \A j \in Steps \ {i} : status'[j] # "new" => slot'[j] # slot'[i]
    BY <1>1, <1>2, <2>1 DEF OwnSlots
  <2>4. OwnSlots'
    BY <1>1, <2>1, <2>2, <2>3 DEF OwnSlots
  <2>5. QED
    BY <1>1, <1>3, <2>1, <2>4
<1>4. CASE status[i] # "new"
  <2>1. UNCHANGED <<index, slot>>
    BY <1>4 DEF Moved
  <2>2. QED
    BY <1>1, <1>4, <2>1 DEF OwnSlots
<1>5. QED
  BY <1>3, <1>4

\* The next slot has no request that waits.
LEMMA NextSlotFree ==
  ASSUME TInv, KInv, index + 1 \in Slots
  PROVE  ~Awaiting(journal, index + 1)
<1>1. \A i \in Steps : status[i] # "new" => slot[i] <= index /\ slot[i] \in Nat
  BY ProgramAssumption, StepsFinite DEF TInv, TypeOK, Counts, Slots, KInv, OwnSlots
<1>2. index \in Nat
  BY StepsFinite DEF TInv, TypeOK
<1>3. QED
  BY <1>1, <1>2 DEF KInv, InMemory

\* What is known of the other steps is not disturbed.
LEMMA OthersMatched ==
  ASSUME TInv, UNCHANGED program, NEW i \in Steps, NEW s \in Statuses \ {"new"}, NEW v,
         Moved(i, s, v), status[i] # "done", \A j \in Steps : Matched(j),
         \A j \in Steps \ {i} :
           status[j] = "running" => journal'.requestKeys[slot[j]] = journal.requestKeys[slot[j]]
  PROVE  \A j \in Steps \ {i} : Matched(j)'
<1>1. \A j \in Steps \ {i} :
        status'[j] = status[j] /\ value'[j] = value[j] /\ slot'[j] = slot[j]
  BY DEF Moved, TInv, TypeOK
<1>2. TAKE j \in Steps \ {i}
<1>3. ASSUME status[j] = "done", ~IsMemo(j)
      PROVE  Content(j)' = Content(j) /\ (program[j].uses # None => status'[program[j].uses] = "done")
  <2>1. CASE program[j].uses = None
    BY <2>1 DEF Content
  <2>2. CASE program[j].uses # None
    <3>1. program[j].uses \in Steps \ {i}
      BY <1>3, <2>2, UsesMemo DEF Matched
    <3>2. QED
      BY <1>1, <1>3, <2>2, <3>1 DEF Content, Matched
  <2>3. QED
    BY <2>1, <2>2
<1>4. QED
  BY <1>1, <1>3 DEF Matched, IsMemo

\* A producer is recorded in a slot for which no request was.
LEMMA RecordMatches ==
  ASSUME TInv, KInv, UNCHANGED <<program, buffer, navigated>>,
         NEW i \in Steps, IsMemo(i), status[i] \in {"new", "running"},
         NEW s \in Slots, journal.requestKeys[s] = None, Record(i, s),
         NEW v, Moved(i, "done", v)
  PROVE  KInv'
<1> DEFINE w == <<i, runs[i] + 1>>
           j0 == [journal EXCEPT !.results[s] = w, !.asyncSlots = AsyncSlotsWith(i, s)]
<1>1. journal \in Journals /\ w \in Values /\ w # None
  BY NoneAssumption DEF TInv, TypeOK, Values
<1>2. /\ journal'.requestKeys = journal.requestKeys /\ journal'.results = j0.results
      /\ stored'.pending = None
  BY <1>1 DEF Record, Persist, Journals
<1>3. \A t \in Slots : journal'.results[t] = IF t = s THEN w ELSE journal.results[t]
  BY <1>1, <1>2 DEF Journals
<1>4. /\ OwnSlots' /\ \A j \in Steps : status'[j] = IF j = i THEN "done" ELSE status[j]
      /\ \A j \in Steps \ {i} : slot'[j] = slot[j]
  BY SlotsKept DEF KInv, Statuses
<1>5. \A j \in Steps : Matched(j)'
  <2>1. \A j \in Steps \ {i} : Matched(j)'
    BY <1>2, OthersMatched DEF KInv, Statuses
  <2>2. Matched(i)'
    BY <1>4 DEF Matched, IsMemo
  <2>3. QED
    BY <2>1, <2>2
<1>6. Keyed(journal)' /\ Asking(buffer, journal)'
  BY <1>2, <1>3 DEF KInv, InMemory, Keyed, Asking
<1>7. \A q \in buffer' : status'[q.id] = "sent" /\ slot'[q.id] = q.index
  <2>1. \A q \in buffer : q.id \in Steps /\ status[q.id] = "sent" /\ slot[q.id] = q.index
    BY DEF TInv, TypeOK, Batches, KInv, InMemory
  <2>2. QED
    BY <1>4, <2>1
<1>8. ASSUME NEW t \in Slots, Awaiting(journal, t)'
      PROVE  /\ \E j \in Steps : status'[j] = "sent" /\ slot'[j] = t
             /\ ~navigated' => \E q \in buffer' : q.index = t
  <2>1. Awaiting(journal, t)
    BY <1>1, <1>2, <1>3, <1>8 DEF Awaiting
  <2>2. PICK j \in Steps : status[j] = "sent" /\ slot[j] = t
    BY <2>1 DEF KInv, InMemory
  <2>3. status'[j] = "sent" /\ slot'[j] = t
    BY <1>4, <2>2
  <2>4. QED
    BY <2>1, <2>3 DEF KInv, InMemory
<1>9. InMemory'
  BY <1>6, <1>7, <1>8 DEF InMemory
<1>10. InStorage'
  BY <1>2 DEF InStorage
<1>11. QED
  BY <1>4, <1>5, <1>9, <1>10 DEF KInv

\* A request is answered by what was recorded for it, or is recorded and waits.
LEMMA SendMatches ==
  ASSUME TInv, KInv, UNCHANGED <<program, stored, navs, navigated>>,
         NEW i \in Steps, ~IsMemo(i), status[i] \in {"new", "resolving"},
         program[i].uses # None => status[program[i].uses] = "done",
         NEW s \in Slots, SendAt(i, s),
         NEW st \in Statuses \ {"new"}, NEW v, Moved(i, st, v), slot'[i] = s
  PROVE  KInv'
<1>0. journal \in Journals /\ buffer \in Batches /\ value \in [Steps -> Values \cup {None}]
  BY DEF TInv, TypeOK
<1>1. Content(i) \in Values /\ Content(i) # None
  BY ContentType, NoneAssumption
<1>2. /\ OwnSlots' /\ \A j \in Steps : status'[j] = IF j = i THEN st ELSE status[j]
      /\ \A j \in Steps \ {i} : slot'[j] = slot[j]
  BY SlotsKept DEF KInv
<1>3. \A q \in buffer : q.id \in Steps \ {i} /\ status[q.id] = "sent" /\ slot[q.id] = q.index
  BY <1>0 DEF Batches, KInv, InMemory
<1>4. \A j \in Steps \ {i} : status[j] # "new" => slot[j] # s
  BY <1>2 DEF OwnSlots
<1>5. InStorage'
  BY DEF KInv, InStorage, Keyed, Asking, Awaiting
<1>6. CASE UNCHANGED <<journal, buffer>> /\ journal.results[s] # None
  <2>1. st # "sent" /\ st # "running"
        /\ (st = "done" => /\ journal.requestKeys[s] = Content(i)
                           /\ value' = [value EXCEPT ![i] = journal.results[s]])
    <3>1. status'[i] = st
      BY <1>2
    <3>2. status \in [Steps -> Statuses]
      BY DEF TInv, TypeOK
    <3>3. CASE Resolve(i, journal.results[s]) /\ SameRequest(i, s)
      BY <3>1, <3>2, <3>3 DEF Resolve, SameRequest
    <3>4. CASE Become(i, "diverged")
      BY <3>1, <3>2, <3>4 DEF Become
    <3>5. QED
      BY <1>6, <3>3, <3>4 DEF SendAt
  <2>2. Matched(i)'
    <3>1. CASE st = "done"
      <4>1. journal.results[s] = Content(i)
        BY <1>1, <1>6, <2>1, <3>1 DEF KInv, InMemory, Keyed
      <4>2. value'[i] = Content(i)
        BY <1>0, <2>1, <3>1, <4>1
      <4>3. program[i].uses # None =>
              /\ program[i].uses \in Steps /\ program[i].uses # i
        BY UsesMemo
      <4>4. Content(i)' = Content(i)
        BY <1>0, <2>1, <3>1, <4>3 DEF Content
      <4>5. program[i].uses # None => status'[program[i].uses] = "done"
        BY <1>2, <4>3
      <4>6. QED
        BY <1>2, <3>1, <4>2, <4>4, <4>5 DEF Matched
    <3>2. CASE st # "done"
      BY <1>2, <2>1, <3>2 DEF Matched, IsMemo
    <3>3. QED
      BY <3>1, <3>2
  <2>3. \A j \in Steps : Matched(j)'
    BY <1>6, <2>2, OthersMatched DEF KInv
  <2>4. \A t \in Slots : Awaiting(journal, t)' =>
          /\ \E j \in Steps : status'[j] = "sent" /\ slot'[j] = t
          /\ ~navigated' => \E q \in buffer' : q.index = t
    <3>1. SUFFICES ASSUME NEW t \in Slots, Awaiting(journal, t)
                   PROVE  /\ \E j \in Steps : status'[j] = "sent" /\ slot'[j] = t
                          /\ ~navigated => \E q \in buffer : q.index = t
      BY <1>6 DEF Awaiting
    <3>2. PICK j \in Steps : status[j] = "sent" /\ slot[j] = t
      BY <3>1 DEF KInv, InMemory
    <3>3. status'[j] = "sent" /\ slot'[j] = t
      BY <1>2, <3>2
    <3>4. QED
      BY <3>1, <3>3 DEF KInv, InMemory
  <2>5. InMemory'
    BY <1>2, <1>3, <1>6, <2>4 DEF KInv, InMemory, Keyed, Asking
  <2>6. QED
    BY <1>2, <1>5, <2>3, <2>5 DEF KInv
<1>7. CASE /\ journal.results[s] = None
           /\ buffer' = buffer \cup {[index |-> s, id |-> i, key |-> Content(i)]}
           /\ journal' = [journal EXCEPT !.requestKeys[s] = Content(i)]
           /\ Become(i, "sent")
  <2> DEFINE m == [index |-> s, id |-> i, key |-> Content(i)]
  <2>1. st = "sent"
    BY <1>2, <1>7 DEF Become, TInv, TypeOK
  <2>2. /\ journal'.results = journal.results
        /\ \A t \in Slots : journal'.requestKeys[t] =
             IF t = s THEN Content(i) ELSE journal.requestKeys[t]
    BY <1>0, <1>7 DEF Journals
  <2>3. \A j \in Steps : Matched(j)'
    <3>1. \A j \in Steps \ {i} : status[j] = "running" =>
            journal'.requestKeys[slot[j]] = journal.requestKeys[slot[j]]
      BY <1>4, <2>2 DEF TInv, TypeOK, Counts
    <3>2. Matched(i)'
      BY <1>2, <2>1 DEF Matched
    <3>3. QED
      BY <3>1, <3>2, OthersMatched DEF KInv
  <2>4. Keyed(journal)'
    BY <1>7, <2>2 DEF KInv, InMemory, Keyed
  <2>5. \A q \in buffer : q.index \in Slots /\ q.index # s /\ q.id # i
    BY <1>0, <1>3, <1>4 DEF Batches
  <2>6. Asking(buffer, journal)'
    BY <1>7, <2>2, <2>5 DEF KInv, InMemory, Asking
  <2>7. \A q \in buffer' : status'[q.id] = "sent" /\ slot'[q.id] = q.index
    <3>1. status'[m.id] = "sent" /\ slot'[m.id] = m.index
      BY <1>2, <2>1
    <3>2. QED
      BY <1>2, <1>3, <1>7, <3>1
  <2>8. ASSUME NEW t \in Slots, Awaiting(journal, t)'
        PROVE  /\ \E j \in Steps : status'[j] = "sent" /\ slot'[j] = t
               /\ ~navigated' => \E q \in buffer' : q.index = t
    <3>1. CASE t = s
      <4>1. m \in buffer' /\ m.index = t
        BY <1>7, <3>1
      <4>2. QED
        BY <1>2, <2>1, <3>1, <4>1
    <3>2. CASE t # s
      <4>1. Awaiting(journal, t)
        BY <2>2, <2>8, <3>2 DEF Awaiting
      <4>2. PICK j \in Steps : status[j] = "sent" /\ slot[j] = t
        BY <4>1 DEF KInv, InMemory
      <4>3. status'[j] = "sent" /\ slot'[j] = t
        BY <1>2, <4>2
      <4>4. QED
        BY <1>7, <4>1, <4>3 DEF KInv, InMemory
    <3>3. QED
      BY <3>1, <3>2
  <2>9. InMemory'
    BY <2>4, <2>6, <2>7, <2>8 DEF InMemory
  <2>10. QED
    BY <1>2, <1>5, <2>3, <2>9 DEF KInv
<1>8. QED
  BY <1>6, <1>7 DEF SendAt

\* A step that leaves the journal and the buffer alone.
LEMMA MoveMatches ==
  ASSUME TInv, KInv, UNCHANGED <<program, journal, buffer, stored, navs, navigated>>,
         NEW i \in Steps, status[i] \notin {"done", "sent"},
         NEW s \in Statuses \ {"new"}, NEW v, Moved(i, s, v), Matched(i)'
  PROVE  KInv'
<1>1. /\ OwnSlots' /\ \A j \in Steps : status'[j] = IF j = i THEN s ELSE status[j]
      /\ \A j \in Steps \ {i} : slot'[j] = slot[j]
  BY SlotsKept DEF KInv
<1>2. \A j \in Steps : Matched(j)'
  BY OthersMatched DEF KInv
<1>3. \A q \in buffer : q.id \in Steps /\ status[q.id] = "sent" /\ slot[q.id] = q.index
  BY DEF TInv, TypeOK, Batches, KInv, InMemory
<1>4. ASSUME NEW t \in Slots, Awaiting(journal, t)
      PROVE  /\ \E j \in Steps : status'[j] = "sent" /\ slot'[j] = t
             /\ ~navigated => \E q \in buffer : q.index = t
  <2>1. PICK j \in Steps : status[j] = "sent" /\ slot[j] = t
    BY <1>4 DEF KInv, InMemory
  <2>2. status'[j] = "sent" /\ slot'[j] = t
    BY <1>1, <2>1
  <2>3. QED
    BY <1>4, <2>2 DEF KInv, InMemory
<1>5. InMemory'
  BY <1>1, <1>3, <1>4 DEF KInv, InMemory, Keyed, Asking, Awaiting
<1>6. InStorage'
  BY DEF KInv, InStorage, Keyed, Asking, Awaiting
<1>7. QED
  BY <1>1, <1>2, <1>5, <1>6 DEF KInv

LEMMA CodeMatches ==
  ASSUME TInv, KInv, UNCHANGED program, NEW i \in Steps, Code(i) \/ Produced(i)
  PROVE  KInv'
<1>1. PICK s \in Statuses \ {"new"}, v \in Values : Moved(i, s, v)
  BY CodeTypes
<1>2. UNCHANGED <<navs, navigated>> /\ status'[i] = s
  <2>1. status'[i] = s
    BY <1>1 DEF Moved, TInv, TypeOK
  <2>2. navigated' = navigated
    BY DEF Code, Produced, Replay, MemoizeSync, MemoizeAsync, Send, SendPromise,
           PromiseSettles
  <2>3. QED
    BY <2>1, <2>2, CodeKeepsFlow
<1>3. status[i] = "new" => index + 1 \in Slots /\ slot'[i] = index + 1
  BY <1>1, SlotLeft, SlotsKept DEF KInv
<1>4. ASSUME status[i] = "new", journal.results[index + 1] = None
      PROVE  journal.requestKeys[index + 1] = None
  BY <1>3, <1>4, NextSlotFree DEF Awaiting
<1>5. ASSUME Become(i, "failed"), status[i] \notin {"done", "sent"},
             UNCHANGED <<journal, buffer, stored>>
      PROVE  KInv'
  <2>1. status'[i] = "failed"
    BY <1>5 DEF Become, TInv, TypeOK
  <2>2. Matched(i)'
    BY <2>1 DEF Matched
  <2>3. QED
    BY <1>1, <1>2, <1>5, <2>2, MoveMatches
<1>6. ASSUME NEW t \in Slots, Record(i, t), IsMemo(i), status[i] \in {"new", "running"},
             journal.requestKeys[t] = None, UNCHANGED buffer
      PROVE  KInv'
  <2>1. s = "done"
    BY <1>2, <1>6 DEF Record, Resolve, TInv, TypeOK
  <2>2. QED
    BY <1>1, <1>2, <1>6, <2>1, RecordMatches
<1>7. CASE Replay(i)
  <2>1. IsMemo(i) /\ status[i] = "new" /\ UNCHANGED <<journal, buffer, stored>>
    BY <1>7 DEF Replay, Turn, Ready
  <2>2. status'[i] \in {"done", "diverged"}
    BY <1>7 DEF Replay, Resolve, Become, TInv, TypeOK
  <2>3. Matched(i)'
    BY <2>1, <2>2 DEF Matched, IsMemo
  <2>4. QED
    BY <1>1, <1>2, <2>1, <2>3, MoveMatches
<1>8. CASE MemoizeSync(i)
  <2>1. /\ IsMemo(i) /\ status[i] = "new" /\ UNCHANGED buffer
        /\ journal.results[index + 1] = None
    BY <1>8 DEF MemoizeSync, Turn, Ready, IsMemo
  <2>2. QED
    BY <1>3, <1>4, <1>5, <1>6, <1>8, <2>1 DEF MemoizeSync
<1>9. CASE MemoizeAsync(i)
  <2>1. /\ IsMemo(i) /\ status[i] = "new" /\ UNCHANGED <<journal, buffer, stored>>
        /\ journal.results[index + 1] = None /\ status'[i] = "running"
    BY <1>9 DEF MemoizeAsync, Turn, Ready, IsMemo, Become, TInv, TypeOK
  <2>2. Matched(i)'
    BY <1>3, <1>4, <2>1 DEF Matched, IsMemo
  <2>3. QED
    BY <1>1, <1>2, <2>1, <2>2, MoveMatches
<1>10. CASE SendPromise(i)
  <2>1. /\ status[i] = "new" /\ ~IsMemo(i) /\ UNCHANGED <<journal, buffer, stored>>
        /\ status'[i] = "resolving"
    BY <1>10 DEF SendPromise, Arrives, Calling, IsMemo, Become, TInv, TypeOK
  <2>2. Matched(i)'
    BY <2>1 DEF Matched, IsMemo
  <2>3. QED
    BY <1>1, <1>2, <2>1, <2>2, MoveMatches
<1>11. CASE Produced(i)
  <2>1. /\ status[i] = "running" /\ IsMemo(i) /\ UNCHANGED buffer
        /\ slot[i] \in Slots /\ journal.requestKeys[slot[i]] = None
    BY <1>11 DEF Produced, KInv, Matched, TInv, TypeOK, Counts
  <2>2. QED
    BY <1>5, <1>6, <1>11, <2>1 DEF Produced
<1>12. CASE Send(i)
  <2>1. /\ status[i] = "new" /\ ~IsMemo(i) /\ UNCHANGED stored
        /\ SendAt(i, index + 1)
        /\ program[i].uses # None => status[program[i].uses] = "done"
    BY <1>12, CalledUses DEF Send, Arrives, TInv, Calling, IsMemo
  <2>2. QED
    BY <1>1, <1>2, <1>3, <2>1, SendMatches
<1>13. CASE PromiseSettles(i)
  <2>1. status[i] = "resolving" /\ UNCHANGED stored /\ slot'[i] = slot[i] /\ slot[i] \in Slots
    BY <1>13 DEF PromiseSettles, Settled, TInv, TypeOK, Counts
  <2>2. CASE Become(i, "failed") /\ UNCHANGED <<journal, buffer>>
    BY <1>5, <2>1, <2>2
  <2>3. CASE /\ ~(program[i].uses # None /\ status[program[i].uses] # "done")
             /\ SendAt(i, slot[i])
    <3>1. ~IsMemo(i)
      BY <2>1 DEF KInv, Matched
    <3>2. QED
      BY <1>1, <1>2, <2>1, <2>3, <3>1, SendMatches
  <2>4. QED
    BY <1>13, <2>2, <2>3 DEF PromiseSettles
<1>14. QED
  BY <1>7, <1>8, <1>9, <1>10, <1>11, <1>12, <1>13 DEF Code

LEMMA FlushMatches ==
  ASSUME TInv, KInv, UNCHANGED program, Flush
  PROVE  KInv'
<1>0. /\ navs \in Seq(Navs) /\ journal \in Journals /\ UNCHANGED <<index, slot, status, value>>
  BY DEF TInv, TypeOK, Flush, stepVars
<1>1. CASE UNCHANGED <<stored, journal, buffer, navigated, navs>>
  <2>1. OwnSlots' /\ \A i \in Steps : Matched(i)'
    BY <1>0, <1>1 DEF KInv, OwnSlots, Matched, IsMemo, Content
  <2>2. InMemory' /\ InStorage'
    BY <1>0, <1>1 DEF KInv, InMemory, InStorage, Keyed, Asking, Awaiting
  <2>3. QED
    BY <2>1, <2>2 DEF KInv
<1>2. CASE /\ ~navigated /\ navigated' /\ buffer' = {}
           /\ Persist(journal, [state |-> Len(navs) + 1, requests |-> buffer])
           /\ navs' = Append(navs, [flow |-> journal.flow, url |-> journal.url,
                                    batch |-> buffer])
  <2>1. /\ stored'.journal = journal' /\ journal'.results = journal.results
        /\ journal'.requestKeys = journal.requestKeys
        /\ stored'.pending.state = Len(navs) + 1 /\ stored'.pending.requests = buffer
    BY <1>0, <1>2 DEF Persist, Journals
  <2>2. Len(navs) + 1 \in DOMAIN navs' /\ navs'[Len(navs) + 1].batch = buffer
    BY <1>0, <1>2
  <2>3. OwnSlots' /\ \A i \in Steps : Matched(i)'
    BY <1>0, <2>1 DEF KInv, OwnSlots, Matched, IsMemo, Content
  <2>4. \A t \in Slots : Awaiting(journal, t)' <=> Awaiting(journal, t)
    BY <2>1 DEF Awaiting
  <2>5. Keyed(journal)' /\ Asking({}, journal') /\ Asking(buffer, journal')
    BY <2>1 DEF KInv, InMemory, Keyed, Asking
  <2>6. InMemory'
    BY <1>0, <1>2, <2>4, <2>5 DEF KInv, InMemory, Asking
  <2>7. InStorage'
    <3>1. Keyed(stored.journal)' /\ Asking(stored.pending.requests, stored.journal)'
      BY <2>1, <2>5 DEF Keyed, Asking
    <3>2. \A t \in Slots : Awaiting(stored.journal, t)' => \E q \in buffer : q.index = t
      BY <1>2, <2>1, <2>4 DEF KInv, InMemory, Awaiting
    <3>3. QED
      BY <2>1, <2>2, <3>1, <3>2 DEF InStorage
  <2>8. QED
    BY <2>3, <2>6, <2>7 DEF KInv
<1>3. QED
  BY <1>1, <1>2 DEF Flush

\* All the answers to a batch fill the slots that wait for them, each with its own.
LEMMA AbsorbMatches ==
  ASSUME TInv, NEW j \in Journals, NEW batch \in Batches, Keyed(j), Asking(batch, j),
         \A s \in Slots : Awaiting(j, s) => \E q \in batch : q.index = s,
         NEW r, r = Absorb(j.results, batch, Answers(batch))
  PROVE  \A s \in Slots : j.requestKeys[s] # None => r[s] = j.requestKeys[s]
<1> DEFINE matches(s) == {a \in Answers(batch) : \E q \in batch : q.index = s /\ q.id = a.id}
<1>1. ASSUME NEW s \in Slots
      PROVE  r[s] = IF matches(s) = {} THEN j.results[s]
                                       ELSE (CHOOSE a \in matches(s) : TRUE).content
  BY DEF Absorb
<1>2. ASSUME NEW s \in Slots, NEW a \in matches(s) PROVE a.content = j.requestKeys[s]
  <2>1. PICK q \in batch : q.index = s /\ q.id = a.id
    BY <1>2
  <2>2. PICK p \in batch : a = [id |-> p.id, content |-> p.key]
    BY <1>2 DEF Answers
  <2>3. p = q
    BY <2>1, <2>2 DEF Asking
  <2>4. QED
    BY <2>1, <2>2, <2>3 DEF Asking
<1>3. ASSUME NEW s \in Slots, matches(s) # {} PROVE r[s] = j.requestKeys[s]
  <2>1. (CHOOSE a \in matches(s) : TRUE) \in matches(s)
    BY <1>3
  <2>2. QED
    BY <1>1, <1>2, <1>3, <2>1
<1>4. ASSUME NEW s \in Slots, j.requestKeys[s] # None, matches(s) = {}
      PROVE  r[s] = j.requestKeys[s]
  <2>1. ~Awaiting(j, s)
    <3>1. SUFFICES ASSUME NEW q \in batch, q.index = s PROVE FALSE
      BY DEF Asking
    <3>2. [id |-> q.id, content |-> q.key] \in matches(s)
      BY <3>1 DEF Answers
    <3>3. QED
      BY <1>4, <3>2
  <2>2. QED
    BY <1>1, <1>4, <2>1 DEF Awaiting, Keyed
<1>5. QED
  BY <1>3, <1>4

LEMMA LoadMatches ==
  ASSUME TInv, KInv, UNCHANGED program, NEW state, NEW answers, Load(state, answers),
         state # None => state \in DOMAIN navs /\ answers = Answers(navs[state].batch)
  PROVE  KInv'
<1>0. /\ stored \in Flows \cup {None} /\ UNCHANGED navs /\ buffer' = {}
      /\ \A i \in Steps : status'[i] = "new"
  BY DEF TInv, TypeOK, Load
<1>1. PICK u \in Urls :
        IF state # None /\ stored # None /\ ~Expired
             /\ stored.pending # None /\ stored.pending.state = state
          THEN Persist([stored.journal EXCEPT
                          !.url = Target(u),
                          !.results = Absorb(@, stored.pending.requests, answers)],
                       None)
          ELSE /\ journal' = FreshJournal(loads + 1, u)
               /\ stored' = IF Expired THEN None ELSE stored
  BY DEF Load
<1>2. OwnSlots' /\ \A i \in Steps : Matched(i)'
  BY <1>0 DEF OwnSlots, Matched
<1>3. CASE state # None /\ stored # None /\ ~Expired
             /\ stored.pending # None /\ stored.pending.state = state
  <2> DEFINE r == Absorb(stored.journal.results, stored.pending.requests, answers)
             j0 == [stored.journal EXCEPT
                      !.url = Target(u),
                      !.results = Absorb(@, stored.pending.requests, answers)]
  <2>1. stored.journal \in Journals /\ stored.pending.requests \in Batches
    BY <1>0, <1>3 DEF Flows, Pendings
  <2>2. answers = Answers(stored.pending.requests)
    BY <1>3 DEF KInv, InStorage
  <2>3. \A s \in Slots :
          stored.journal.requestKeys[s] # None => r[s] = stored.journal.requestKeys[s]
    BY <1>3, <2>1, <2>2, AbsorbMatches DEF KInv, InStorage
  <2>4. Persist(j0, None)
    BY <1>1, <1>3
  <2>5. /\ journal'.results = r /\ journal'.requestKeys = stored.journal.requestKeys
        /\ stored'.pending = None
    BY <2>1, <2>4 DEF Persist, Journals
  <2>6. InMemory'
    BY <1>0, <2>3, <2>5 DEF InMemory, Keyed, Asking, Awaiting
  <2>7. QED
    BY <1>2, <2>5, <2>6 DEF KInv, InStorage
<1>4. CASE /\ journal' = FreshJournal(loads + 1, u)
           /\ stored' = IF Expired THEN None ELSE stored
  <2>1. InMemory'
    BY <1>0, <1>4 DEF FreshJournal, InMemory, Keyed, Asking, Awaiting
  <2>2. InStorage'
    BY <1>0, <1>4 DEF KInv, InStorage, Keyed, Asking, Awaiting
  <2>3. QED
    BY <1>2, <2>1, <2>2 DEF KInv
<1>5. QED
  BY <1>1, <1>3, <1>4

LEMMA InitKInv == Init => KInv
<1>1. Init => \A i \in Steps : status[i] = "new"
  BY DEF Init
<1>2. QED
  BY <1>1 DEF Init, FreshJournal, KInv, OwnSlots, Matched, InMemory, InStorage, Keyed,
              Asking, Awaiting

LEMMA NextKInv ==
  ASSUME "partial" \notin Faults, TInv, KInv, [Next]_vars
  PROVE  KInv'
<1>0. UNCHANGED program
  BY DEF Next, vars
<1>1. CASE UNCHANGED vars \/ Tick \/ \E i \in Steps : Request(i)
  <2>1. UNCHANGED <<stored, journal, index, buffer, navigated, slot, status, value, navs>>
    BY <1>1 DEF vars, pageVars, stepVars, Tick, Request
  <2>2. OwnSlots' /\ \A i \in Steps : Matched(i)'
    BY <1>0, <2>1 DEF KInv, OwnSlots, Matched, IsMemo, Content
  <2>3. InMemory' /\ InStorage'
    BY <2>1 DEF KInv, InMemory, InStorage, Keyed, Asking, Awaiting
  <2>4. QED
    BY <2>2, <2>3 DEF KInv
<1>2. ASSUME NEW i \in Steps, Code(i) \/ Produced(i) PROVE KInv'
  BY <1>0, <1>2, CodeMatches
<1>3. CASE Flush
  BY <1>0, <1>3, FlushMatches
<1>4. ASSUME NEW k \in 1..MaxLoads, Return(k) PROVE KInv'
  <2>1. k \in DOMAIN navs /\ Load(k, Answers(navs[k].batch))
    BY <1>4 DEF Return, TInv, TypeOK
  <2>2. QED
    BY <1>0, <2>1, LoadMatches
<1>5. CASE Visit
  BY <1>0, <1>5, LoadMatches DEF Visit
<1>6. QED
  BY <1>1, <1>2, <1>3, <1>4, <1>5 DEF Next

\* If the signer answers all it is asked, a request resolves to the answer to
\* that very request whatever order the code issues its steps in on each load:
\* the divergence guard (urlChannel.ts, #sendAt) refuses every other answer.
\* Partial answers are outside: a memoize step that takes a slot whose request is
\* unanswered is recorded under the key of that request.
THEOREM AnswersMatchInAnyOrder ==
  ASSUME "partial" \notin Faults
  PROVE  Spec => []AnswersMatch
<1>1. TInv /\ KInv /\ [Next]_vars => KInv'
  BY NextKInv
<1>2. KInv => AnswersMatch
  BY DEF KInv, Matched, AnswersMatch
<1>3. QED
  BY <1>1, <1>2, InitTInv, NextTInv, InitKInv, PTL DEF Spec
=============================================================================
