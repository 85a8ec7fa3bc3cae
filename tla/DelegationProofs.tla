--------------------------- MODULE DelegationProofs ---------------------------
(***************************************************************************)
(* What the relying party may conclude from a chain that it has accepted,  *)
(* for chains of every length, all clocks and all answers of the signer.   *)
(*                                                                         *)
(* The two folds of the validation are recursive functions on the subsets  *)
(* of a chain's positions.  Each is shown to have a solution, the closed   *)
(* form, and every solution to have the values of that form, by the well-  *)
(* foundedness of strict inclusion on finite sets (SmallestSet).           *)
(***************************************************************************)
EXTENDS Delegation, FiniteSets, FiniteSetTheorems, TLAPS

-----------------------------------------------------------------------------
(***************************************************************************)
(* Induction on finite sets                                                *)
(***************************************************************************)

\* Among finite sets there is one that contains no other.
LEMMA SmallestSet ==
  ASSUME NEW S, NEW F, F \subseteq FiniteSubsetsOf(S), F # {}
  PROVE  \E A \in F : \A B \in F : B \subseteq A => B = A
<1>1. IsWellFoundedOn(StrictSubsetOrdering(S), FiniteSubsetsOf(S))
  BY FS_StrictSubsetOrderingWellFounded
<1>2. \E A \in F : \A B \in F : <<B, A>> \notin StrictSubsetOrdering(S)
  BY <1>1, WFMin
<1>3. F \subseteq SUBSET S
  BY DEF FiniteSubsetsOf
<1>4. QED
  BY <1>2, <1>3 DEF StrictSubsetOrdering

\* Every set of natural numbers that has an element has a least one.
LEMMA LeastNumber ==
  ASSUME NEW E \in SUBSET Nat, E # {}
  PROVE  Min(E) \in E /\ \A e \in E : Min(E) <= e
<1> DEFINE F == {0..e : e \in E}
<1>1. F \subseteq FiniteSubsetsOf(Nat) /\ F # {}
  <2>1. ASSUME NEW e \in E PROVE IsFiniteSet(0..e) /\ 0..e \in SUBSET Nat
    BY FS_Interval
  <2>2. QED
    BY <2>1 DEF FiniteSubsetsOf
<1>2. PICK A \in F : \A B \in F : B \subseteq A => B = A
  <2> HIDE DEF F
  <2> QED
    BY <1>1, SmallestSet
<1>3. PICK m \in E : A = 0..m
  OBVIOUS
<1>4. ASSUME NEW e \in E PROVE m <= e
  <2>1. CASE e <= m
    <3>1. 0..e \subseteq 0..m
      BY <2>1
    <3>2. 0..e = 0..m
      BY <1>2, <1>3, <3>1
    <3>3. m \in 0..e
      BY <3>2
    <3>4. QED
      BY <3>3
  <2>2. QED
    BY <2>1
<1>5. QED
  BY <1>4 DEF Min

\* The least of the numbers in E and of one more.
LEMMA LeastOfOneMore ==
  ASSUME NEW E \in SUBSET Nat, NEW a \in E, \A e \in E : a <= e, NEW x \in Nat,
         NEW b, b = IF x < a THEN x ELSE a
  PROVE  /\ b \in E \cup {x} /\ \A e \in E \cup {x} : b <= e
         /\ \A m \in E \cup {x} : (\A e \in E \cup {x} : m <= e) => m = b
<1>1. a \in Nat /\ b \in E \cup {x} /\ \A e \in E \cup {x} : b <= e
  OBVIOUS
<1>2. \A m \in E \cup {x} : m <= b /\ b <= m => m = b
  BY <1>1
<1>3. QED
  BY <1>1, <1>2

\* A set of positions that is not empty has a last one.
LEMMA LastPosition ==
  ASSUME NEW n \in Nat, NEW T \in SUBSET (1..n), T # {}
  PROVE  Max(T) \in T
<1> DEFINE E == {n - k : k \in T}
<1>1. E \in SUBSET Nat /\ E # {}
  <2>1. ASSUME NEW k \in T PROVE n - k \in Nat
    <3>1. k \in 1..n
      OBVIOUS
    <3>2. QED
      BY <3>1
  <2>2. QED
    BY <2>1
<1>2. PICK m \in E : \A e \in E : m <= e
  <2> HIDE DEF E
  <2> QED
    BY <1>1, LeastNumber
<1>3. PICK k \in T : m = n - k
  OBVIOUS
<1>4. ASSUME NEW j \in T PROVE k >= j
  <2>1. m <= n - j
    BY <1>2
  <2>2. QED
    BY <1>3, <2>1
<1>5. QED
  BY <1>4 DEF Max

\* What holds of no position, and of positions if it holds of those before the
\* last, holds of all of them.
LEMMA PositionInduction ==
  ASSUME NEW n \in Nat, NEW G, {} \in G,
         \A T \in SUBSET (1..n) : T # {} /\ T \ {Max(T)} \in G => T \in G
  PROVE  1..n \in G
<1> DEFINE F == {T \in SUBSET (1..n) : T \notin G}
<1> SUFFICES ASSUME F # {} PROVE FALSE
  OBVIOUS
<1>1. F \subseteq FiniteSubsetsOf(1..n)
  <2>1. IsFiniteSet(1..n)
    BY FS_Interval
  <2>2. QED
    BY <2>1, FS_Subset DEF FiniteSubsetsOf
<1>2. PICK A \in F : \A B \in F : B \subseteq A => B = A
  <2> HIDE DEF F
  <2> QED
    BY <1>1, SmallestSet
<1>3. A # {} /\ A \in SUBSET (1..n)
  OBVIOUS
<1>4. Max(A) \in A
  BY <1>3, LastPosition
<1>5. A \ {Max(A)} \notin F
  BY <1>2, <1>4
<1>6. QED
  BY <1>3, <1>5

-----------------------------------------------------------------------------
(***************************************************************************)
(* The folds of the validation                                             *)
(***************************************************************************)

\* A chain is a sequence of hops, of some length.
LEMMA ChainsAreSequences ==
  ASSUME NEW chain \in Chains
  PROVE  /\ Len(chain) \in Nat /\ DOMAIN chain = 1..Len(chain)
         /\ \A k \in DOMAIN chain : chain[k] \in Hops
         /\ chain # <<>> <=> Len(chain) # 0
<1>1. PICK n \in 0..MaxHops : chain \in [1..n -> Hops]
  BY DEF Chains
<1>2. n \in Nat /\ chain \in Seq(Hops)
  BY <1>1, DelegationAssumption
<1>3. QED
  BY <1>1, <1>2

\* delegationChainExpiration returns the expiration of a hop, and no hop has an
\* earlier one: the reduce finds the end of the time in which the whole chain
\* is valid.
THEOREM ChainExpirationIsEarliest ==
  ASSUME NEW chain \in Chains, chain # <<>>, Decodes(chain)
  PROVE  /\ \E k \in DOMAIN chain : ChainExpiration(chain) = chain[k].expiration
         /\ \A k \in DOMAIN chain : ChainExpiration(chain) <= chain[k].expiration
<1> DEFINE n == Len(chain)
           E(k) == chain[k].expiration
           In(s) == {E(1)} \cup {E(k) : k \in s}
           Shorter(e, k) == IF E(k) < e THEN E(k) ELSE e
           Step(f, s) == IF s = {} THEN E(1) ELSE Shorter(f[s \ {Max(s)}], Max(s))
           closed == [s \in SUBSET (1..n) |-> Min(In(s))]
           iter == CHOOSE f : f = [s \in SUBSET (1..n) |-> Step(f, s)]
<1>1. n \in Nat /\ DOMAIN chain = 1..n /\ 1 \in 1..n
  BY ChainsAreSequences
<1>2. ASSUME NEW k \in 1..n PROVE E(k) \in Nat
  <2>1. chain[k].expiration \in 0..(MaxU64 + 1) \cup {Malformed}
    BY <1>1, ChainsAreSequences DEF Hops
  <2>2. chain[k].expiration # Malformed
    BY <1>1 DEF Decodes, ToExpiration
  <2>3. QED
    BY <2>1, <2>2, DelegationAssumption
<1>3. ASSUME NEW s \in SUBSET (1..n)
      PROVE  Min(In(s)) \in In(s) /\ \A e \in In(s) : e \in Nat /\ Min(In(s)) <= e
  <2>1. In(s) \in SUBSET Nat /\ In(s) # {}
    BY <1>1, <1>2
  <2> HIDE DEF In
  <2>2. QED
    BY <2>1, LeastNumber
<1>4. ASSUME NEW s \in SUBSET (1..n) PROVE closed[s] = Step(closed, s)
  <2>1. CASE s = {}
    <3>1. Min(In(s)) \in {E(1)}
      BY <1>3, <2>1
    <3>2. QED
      BY <2>1, <3>1
  <2>2. CASE s # {}
    <3> DEFINE k == Max(s)
               t == s \ {k}
    <3>1. k \in s /\ t \in SUBSET (1..n)
      BY <1>1, <2>2, LastPosition
    <3>2. In(s) = In(t) \cup {E(k)}
      BY <3>1
    <3>3. Min(In(s)) = Shorter(Min(In(t)), k)
      <4>1. E(k) \in Nat
        BY <1>2, <3>1
      <4> HIDE DEF k, t
      <4>2. /\ Min(In(s)) \in In(s) /\ \A e \in In(s) : Min(In(s)) <= e
            /\ Min(In(t)) \in In(t) /\ \A e \in In(t) : Min(In(t)) <= e
            /\ In(t) \in SUBSET Nat
        BY <1>3, <3>1
      <4> HIDE DEF In, E
      <4> DEFINE a == Min(In(t))
                 b == Shorter(a, k)
                 m == Min(In(s))
      <4>3. m \in In(t) \cup {E(k)} /\ \A e \in In(t) \cup {E(k)} : m <= e
        BY <3>2, <4>2
      <4>4. a \in In(t) /\ (\A e \in In(t) : a <= e) /\ b = IF E(k) < a THEN E(k) ELSE a
        BY <4>2
      <4>5. QED
        <5> HIDE DEF a, b, m
        <5>1. m = b
          BY <4>1, <4>2, <4>3, <4>4, LeastOfOneMore
        <5>2. QED
          BY <5>1 DEF a, b, m
    <3>4. QED
      BY <2>2, <3>1, <3>3
  <2>3. QED
    BY <2>1, <2>2
<1>5. iter = [s \in SUBSET (1..n) |-> Step(iter, s)]
  <2> HIDE DEF Step
  <2>1. closed = [s \in SUBSET (1..n) |-> Step(closed, s)]
    BY <1>4
  <2> HIDE DEF closed
  <2>2. QED
    BY <2>1
<1>6. ChainExpiration(chain) = iter[1..n]
  BY <1>1 DEF ChainExpiration, FoldLeft, MapThenFoldSet
<1>7. iter[1..n] \in In(1..n) /\ \A e \in In(1..n) : iter[1..n] <= e
  <2> DEFINE G == {s \in SUBSET (1..n) :
                     iter[s] \in In(s) /\ \A e \in In(s) : iter[s] <= e}
  <2>1. {} \in G
    <3>1. iter[{}] = E(1)
      BY <1>5
    <3>2. In({}) = {E(1)} /\ E(1) \in Nat
      BY <1>1, <1>2
    <3> HIDE DEF iter, In, E
    <3>3. QED
      BY <3>1, <3>2
  <2>2. ASSUME NEW s \in SUBSET (1..n), s # {}, s \ {Max(s)} \in G PROVE s \in G
    <3> DEFINE k == Max(s)
               t == s \ {k}
    <3>1. k \in s /\ t \in SUBSET (1..n)
      BY <1>1, <2>2, LastPosition
    <3>2. iter[s] = Shorter(iter[t], k)
      BY <1>5, <2>2
    <3>3. In(s) = In(t) \cup {E(k)} /\ In(t) \in SUBSET Nat /\ E(k) \in Nat
      BY <1>1, <1>2, <3>1
    <3>4. iter[t] \in In(t) /\ \A e \in In(t) : iter[t] <= e
      BY <2>2
    <3>5. iter[s] \in In(s) /\ \A e \in In(s) : iter[s] <= e
      <4> HIDE DEF k, t, In, E, iter
      <4>1. QED
        BY <3>2, <3>3, <3>4, LeastOfOneMore
    <3>6. QED
      BY <3>5
  <2> HIDE DEF G
  <2>3. 1..n \in G
    BY <1>1, <2>1, <2>2, PositionInduction
  <2>4. QED
    BY <2>3 DEF G
<1>8. QED
  BY <1>1, <1>6, <1>7

\* The loop over the scoped hops leaves `effective` undefined if no hop of the
\* chain has targets, and otherwise holds the canisters that every hop permits.
THEOREM EffectiveScopeIsIntersection ==
  ASSUME NEW chain \in Chains
  PROVE  EffectiveScope(chain) =
           IF \A k \in DOMAIN chain : chain[k].targets = Unscoped THEN Unscoped
           ELSE {c \in Canisters : Reaches(chain, c)}
<1> DEFINE n == Len(chain)
           T(k) == chain[k].targets
           Of(s) == IF \A k \in s : T(k) = Unscoped THEN Unscoped
                    ELSE {c \in Canisters : \A k \in s : T(k) # Unscoped => c \in T(k)}
           Step(f, s) == IF s = {} THEN Unscoped ELSE Both(f[s \ {Max(s)}], T(Max(s)))
           closed == [s \in SUBSET (1..n) |-> Of(s)]
           iter == CHOOSE f : f = [s \in SUBSET (1..n) |-> Step(f, s)]
<1>1. n \in Nat /\ DOMAIN chain = 1..n
  BY ChainsAreSequences
<1>2. ASSUME NEW k \in 1..n PROVE T(k) # Unscoped => T(k) \in SUBSET Canisters
  BY <1>1, ChainsAreSequences DEF Hops, Scopes
<1>3. ASSUME NEW s \in SUBSET (1..n), s # {}
      PROVE  /\ Max(s) \in s /\ s \ {Max(s)} \in SUBSET (1..n)
             /\ Of(s) = Both(Of(s \ {Max(s)}), T(Max(s)))
  <2> DEFINE k == Max(s)
             t == s \ {k}
  <2>1. k \in s /\ k \in 1..n /\ t \in SUBSET (1..n) /\ s = t \cup {k}
    BY <1>1, <1>3, LastPosition
  <2> SUFFICES Of(s) = Both(Of(t), T(k))
    BY <2>1
  <2> HIDE DEF k, t
  <2> DEFINE Permits(j, c) == T(j) # Unscoped => c \in T(j)
             Permitted(q) == {c \in Canisters : \A j \in q : Permits(j, c)}
  <2>2. \A q : Of(q) = IF \A j \in q : T(j) = Unscoped THEN Unscoped ELSE Permitted(q)
    OBVIOUS
  <2>3. Permitted(s) = {c \in Permitted(t) : Permits(k, c)}
    <3> HIDE DEF Permits
    <3> QED
      BY <2>1
  <2>4. Permitted(t) \in SUBSET Canisters
    OBVIOUS
  <2>5. (\A j \in s : T(j) = Unscoped) <=> T(k) = Unscoped /\ \A j \in t : T(j) = Unscoped
    BY <2>1
  <2>6. CASE T(k) = Unscoped
    <3>1. Permitted(s) = Permitted(t)
      BY <2>3, <2>6
    <3> HIDE DEF Of, T, Permitted
    <3>2. QED
      BY <2>2, <2>5, <2>6, <3>1 DEF Both
  <2>7. CASE T(k) # Unscoped /\ \A j \in t : T(j) = Unscoped
    <3>1. Permitted(t) = Canisters
      BY <2>7
    <3>2. Permitted(s) = T(k)
      <4> HIDE DEF Permitted
      <4> QED
        BY <1>2, <2>1, <2>3, <2>7, <3>1
    <3> HIDE DEF Of, T, Permitted
    <3>3. QED
      BY <2>2, <2>5, <2>7, <3>2 DEF Both
  <2>8. CASE T(k) # Unscoped /\ \E j \in t : T(j) # Unscoped
    <3>1. Permitted(s) = Permitted(t) \cap T(k)
      <4> HIDE DEF Permitted
      <4> QED
        BY <2>3, <2>8
    <3>2. Permitted(t) # Unscoped
      BY <2>4, DelegationAssumption
    <3> HIDE DEF Of, T, Permitted
    <3>3. QED
      BY <2>2, <2>5, <2>8, <3>1, <3>2 DEF Both
  <2>9. QED
    BY <2>6, <2>7, <2>8
<1>4. iter = [s \in SUBSET (1..n) |-> Step(iter, s)]
  <2>1. ASSUME NEW s \in SUBSET (1..n) PROVE closed[s] = Step(closed, s)
    <3>1. CASE s = {}
      BY <3>1
    <3>2. CASE s # {}
      <4> HIDE DEF Of, T
      <4> QED
        BY <1>3, <3>2
    <3>3. QED
      BY <3>1, <3>2
  <2> HIDE DEF Step
  <2>2. closed = [s \in SUBSET (1..n) |-> Step(closed, s)]
    BY <2>1
  <2> HIDE DEF closed
  <2>3. QED
    BY <2>2
<1>5. EffectiveScope(chain) = iter[1..n]
  BY <1>1 DEF EffectiveScope, FoldLeft, MapThenFoldSet
<1>6. iter[1..n] = Of(1..n)
  <2> DEFINE G == {s \in SUBSET (1..n) : iter[s] = Of(s)}
  <2>1. {} \in G
    <3>1. iter[{}] = Unscoped
      BY <1>4
    <3> HIDE DEF iter
    <3>2. QED
      BY <3>1
  <2>2. ASSUME NEW s \in SUBSET (1..n), s # {}, s \ {Max(s)} \in G PROVE s \in G
    <3>1. iter[s] = Both(iter[s \ {Max(s)}], T(Max(s)))
      BY <1>4, <2>2
    <3> HIDE DEF iter, Of, T
    <3>2. QED
      BY <1>3, <2>2, <3>1
  <2> HIDE DEF G
  <2>3. 1..n \in G
    BY <1>1, <2>1, <2>2, PositionInduction
  <2>4. QED
    BY <2>3 DEF G
<1>7. Of(1..n) = IF \A k \in 1..n : chain[k].targets = Unscoped THEN Unscoped
                 ELSE {c \in Canisters : Reaches(chain, c)}
  BY <1>1 DEF Reaches
<1>8. QED
  <2> HIDE DEF Of, iter
  <2> QED
    BY <1>1, <1>5, <1>6, <1>7

-----------------------------------------------------------------------------
(***************************************************************************)
(* What a validated chain grants                                           *)
(***************************************************************************)

\* The chain that the signer sent is a chain, and the clock is a number.
Readings == params \in Params /\ clock \in Nat /\ drift \in (-Skew)..Skew

\* toExpiration leaves 64-bit expirations only.
LEMMA ExpirationsAreTimes ==
  ASSUME NEW chain \in Chains, Decodes(chain)
  PROVE  /\ \A k \in DOMAIN chain : chain[k].expiration \in AnyTime
         /\ chain # <<>> => ChainExpiration(chain) \in AnyTime
<1>1. ASSUME NEW k \in DOMAIN chain PROVE chain[k].expiration \in AnyTime
  <2>1. chain[k].expiration \in 0..(MaxU64 + 1) \cup {Malformed}
    BY ChainsAreSequences DEF Hops
  <2>2. chain[k].expiration # Malformed /\ chain[k].expiration <= MaxU64
    BY DEF Decodes, ToExpiration
  <2>3. QED
    BY <2>1, <2>2, DelegationAssumption DEF AnyTime
<1>2. QED
  BY <1>1, ChainExpirationIsEarliest

\* The validation lets through only chains that grant what was requested.
LEMMA ValidatedGrantsOnly ==
  ASSUME Readings, NEW chain \in Chains, Validates(chain)
  PROVE  GrantsOnly(chain, clock + Skew)
<1>1. /\ chain # <<>> /\ chain[Len(chain)].pubkey = params.publicKey
      /\ Decodes(chain)
  BY DEF Validates, LeafKey, Last
<1>2. ASSUME params.targets # Unscoped, NEW c \in Anything, Reaches(chain, c)
      PROVE  c \in params.targets
  <2>1. EffectiveScope(chain) # Unscoped /\ EffectiveScope(chain) \subseteq params.targets
    BY <1>2 DEF Validates, TargetScope
  <2>2. PICK k \in DOMAIN chain : chain[k].targets # Unscoped
    BY <2>1, EffectiveScopeIsIntersection
  <2>3. c \in chain[k].targets /\ chain[k].targets \in SUBSET Canisters
    BY <1>2, <2>2, ChainsAreSequences DEF Reaches, Hops, Scopes
  <2>4. c \in EffectiveScope(chain)
    BY <1>2, <2>1, <2>3, EffectiveScopeIsIntersection
  <2>5. QED
    BY <2>1, <2>4
<1>3. ASSUME params.maxTimeToLive # None, NEW t \in AnyTime, Lives(chain, t)
      PROVE  t <= clock + Skew + params.maxTimeToLive
  <2>1. ChainExpiration(chain) <= clock + params.maxTimeToLive + Skew
    BY <1>3 DEF Validates, Lifetime
  <2>2. PICK k \in DOMAIN chain : ChainExpiration(chain) = chain[k].expiration
    BY <1>1, ChainExpirationIsEarliest
  <2>3. t <= ChainExpiration(chain)
    BY <1>3, <2>2 DEF Lives
  <2>4. params.maxTimeToLive \in Nat /\ t \in Nat /\ ChainExpiration(chain) \in Nat
    BY <1>1, <1>3, ExpirationsAreTimes, DelegationAssumption DEF Readings, Params, AnyTime
  <2>5. QED
    BY <2>1, <2>3, <2>4, DelegationAssumption DEF Readings
<1>4. QED
  BY <1>1, <1>2, <1>3 DEF GrantsOnly

\* A chain that keeps to the request by the clock of the signer passes.
LEMMA HonestValidates ==
  ASSUME Readings, NEW chain \in Chains, Decodes(chain),
         GrantsOnly(chain, clock + drift)
  PROVE  Validates(chain)
<1>1. chain # <<>> /\ LeafKey(chain, params.publicKey)
  BY DEF GrantsOnly, LeafKey, Last
<1>2. TargetScope(chain, params.targets)
  <2> SUFFICES ASSUME params.targets # Unscoped
               PROVE  /\ EffectiveScope(chain) # Unscoped
                      /\ EffectiveScope(chain) \subseteq params.targets
    BY DEF TargetScope
  <2>1. \A c \in Anything : Reaches(chain, c) => c \in params.targets
    BY DEF GrantsOnly
  <2>2. None \notin params.targets
    BY DelegationAssumption DEF Readings, Params, Scopes
  <2>3. ~ \A k \in DOMAIN chain : chain[k].targets = Unscoped
    BY <2>1, <2>2 DEF Reaches, Anything
  <2>4. EffectiveScope(chain) = {c \in Canisters : Reaches(chain, c)}
    BY <2>3, EffectiveScopeIsIntersection
  <2>5. EffectiveScope(chain) # Unscoped
    <3>1. {c \in Canisters : Reaches(chain, c)} \in SUBSET Canisters
      OBVIOUS
    <3>2. QED
      BY <2>4, <3>1, DelegationAssumption
  <2>6. QED
    BY <2>1, <2>4, <2>5 DEF Anything
<1>3. Lifetime(chain, params.maxTimeToLive)
  <2> SUFFICES ASSUME params.maxTimeToLive # None
               PROVE  ChainExpiration(chain) <= clock + params.maxTimeToLive + Skew
    BY DEF Lifetime
  <2> DEFINE e == ChainExpiration(chain)
  <2>1. e \in AnyTime
    BY <1>1, ExpirationsAreTimes
  <2>2. Lives(chain, e)
    BY <1>1, ChainExpirationIsEarliest DEF Lives
  <2>3. e <= clock + drift + params.maxTimeToLive
    BY <2>1, <2>2 DEF GrantsOnly
  <2>4. params.maxTimeToLive \in Nat /\ e \in Nat
    BY <2>1, DelegationAssumption DEF Readings, Params, AnyTime
  <2> HIDE DEF e
  <2>5. e <= clock + params.maxTimeToLive + Skew
    BY <2>3, <2>4, DelegationAssumption DEF Readings
  <2>6. QED
    BY <2>5 DEF e
<1>4. QED
  BY <1>1, <1>2, <1>3 DEF Validates

\* What passes passes later.
LEMMA StillValidates ==
  ASSUME Readings, NEW chain \in Chains, Validates(chain),
         params' = params, clock' \in {clock, clock + 1}
  PROVE  Validates(chain)'
<1>1. Decodes(chain) /\ chain # <<>>
  BY DEF Validates, LeafKey
<1>2. Lifetime(chain, params.maxTimeToLive)'
  <2> SUFFICES ASSUME params.maxTimeToLive # None
               PROVE  ChainExpiration(chain) <= clock' + params.maxTimeToLive + Skew
    BY DEF Lifetime
  <2>1. ChainExpiration(chain) \in Nat /\ params.maxTimeToLive \in Nat
    BY <1>1, ExpirationsAreTimes, DelegationAssumption DEF Readings, Params, AnyTime
  <2>2. ChainExpiration(chain) <= clock + params.maxTimeToLive + Skew
    BY DEF Validates, Lifetime
  <2>3. QED
    BY <2>1, <2>2, DelegationAssumption DEF Readings
<1>3. QED
  BY <1>2 DEF Validates

-----------------------------------------------------------------------------
(***************************************************************************)
(* The request and its answer                                              *)
(***************************************************************************)

\* What was accepted passes now, and so does what an honest signer has sent: the
\* validation only gets more lenient as the clock goes on.
Judged ==
  /\ verdict = "requested" => ~honest
  /\ verdict = "accepted" \/ honest => Validates(answer)
  /\ honest => verdict # "rejected"

DInv == TypeOK /\ Judged

LEMMA InitDInv == Init => DInv
<1> SUFFICES ASSUME Init PROVE DInv
  OBVIOUS
<1>1. <<>> \in Chains
  <2>1. <<>> \in [1..0 -> Hops] /\ 0 \in 0..MaxHops
    BY DelegationAssumption
  <2>2. QED
    BY <2>1 DEF Chains
<1>2. clock \in 0..MaxTime
  BY DelegationAssumption DEF Init
<1>3. TypeOK
  BY <1>1, <1>2 DEF Init, TypeOK
<1>4. Judged
  BY Zenon DEF Init, Judged
<1>5. QED
  BY <1>3, <1>4 DEF DInv

LEMMA NextDInv ==
  DInv /\ [Next]_vars => DInv' /\ (verdict = "accepted" => verdict' = "accepted")
<1> SUFFICES ASSUME DInv, [Next]_vars
             PROVE  DInv' /\ (verdict = "accepted" => verdict' = "accepted")
  OBVIOUS
<1>1. Readings /\ answer \in Chains
  BY DelegationAssumption DEF DInv, TypeOK, Readings
<1>2. CASE Tick
  <2>1. /\ params' = params /\ clock' = clock + 1
        /\ UNCHANGED <<drift, answer, honest, verdict>>
    BY <1>2 DEF Tick
  <2>2. TypeOK'
    <3>1. clock' \in 0..MaxTime
      BY <1>2, DelegationAssumption DEF Tick, DInv, TypeOK
    <3>2. QED
      BY <2>1, <3>1 DEF DInv, TypeOK
  <2>3. Validates(answer) => Validates(answer)'
    BY <1>1, <2>1, StillValidates
  <2>4. QED
    BY <2>1, <2>2, <2>3 DEF DInv, Judged
<1>3. CASE Answer
  <2>1. PICK chain \in Chains :
          answer' = chain
          /\ honest' = (Decodes(chain) /\ GrantsOnly(chain, clock + drift))
    BY <1>3 DEF Answer
  <2>2. verdict = "requested" /\ verdict' = "answered" /\ UNCHANGED <<params, clock, drift>>
    BY <1>3 DEF Answer
  <2>3. honest' => Validates(chain)
    BY <1>1, <2>1, HonestValidates
  <2>4. honest' => Validates(answer)'
    BY <2>1, <2>2, <2>3 DEF Validates, Lifetime
  <2>5. QED
    BY <2>1, <2>2, <2>4 DEF DInv, TypeOK, Judged
<1>4. CASE Receive
  <2>1. /\ verdict # "requested"
        /\ verdict' = IF Validates(answer) THEN "accepted" ELSE "rejected"
        /\ UNCHANGED <<params, clock, drift, answer, honest>>
    BY <1>4 DEF Receive
  <2>2. Validates(answer) <=> Validates(answer)'
    BY <2>1 DEF Validates, Lifetime
  <2>3. Validates(answer) => \A k \in DOMAIN answer : answer[k].expiration \in AnyTime
    BY <1>1, ExpirationsAreTimes DEF Validates
  <2>4. TypeOK'
    BY <2>1, <2>3 DEF DInv, TypeOK
  <2>5. QED
    BY <2>1, <2>2, <2>4 DEF DInv, Judged
<1>5. CASE UNCHANGED vars
  <2>1. Validates(answer)' <=> Validates(answer)
    BY <1>5 DEF vars, Validates, Lifetime
  <2>2. TypeOK' /\ Judged'
    BY <1>5, <2>1 DEF vars, DInv, TypeOK, Judged
  <2>3. QED
    BY <1>5, <2>2 DEF vars, DInv
<1>6. QED
  BY <1>2, <1>3, <1>4, <1>5 DEF Next

\* Whatever the signer sends, what is accepted has 64-bit expirations only.
THEOREM TypeCorrect == Spec => []TypeOK
<1>1. DInv => TypeOK
  BY DEF DInv
<1>2. QED
  BY <1>1, InitDInv, NextDInv, PTL DEF Spec

\* An accepted chain grants no more than was requested: for chains of any
\* length, the relying party can use it for no canister that it did not ask for,
\* and for no longer than maxTimeToLive and the skew margin.
THEOREM AcceptedGrantsNoMore == Spec => []GrantsNoMore
<1>1. DInv => GrantsNoMore
  <2> SUFFICES ASSUME DInv, verdict = "accepted" PROVE GrantsOnly(answer, clock + Skew)
    BY DEF GrantsNoMore
  <2>1. Readings /\ answer \in Chains /\ Validates(answer)
    BY DelegationAssumption DEF DInv, TypeOK, Judged, Readings
  <2>2. QED
    BY <2>1, ValidatedGrantsOnly
<1>2. QED
  BY <1>1, InitDInv, NextDInv, PTL DEF Spec

\* A signer that honoured the request by its own clock is never rejected, if
\* the clocks are apart by no more than the margin.
THEOREM HonestSignersAreAccepted == Spec => []HonestAccepted
<1>1. DInv => HonestAccepted
  BY DEF DInv, Judged, HonestAccepted
<1>2. QED
  BY <1>1, InitDInv, NextDInv, PTL DEF Spec

\* A chain that was accepted is accepted whenever the answer is replayed.
THEOREM AcceptanceStays == Spec => StaysAccepted
<1>1. DInv /\ [Next]_vars => [verdict = "accepted" => verdict' = "accepted"]_vars
  BY NextDInv
<1>2. QED
  BY <1>1, InitDInv, NextDInv, PTL DEF Spec, StaysAccepted
=============================================================================
