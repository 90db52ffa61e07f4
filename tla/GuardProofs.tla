---------------------------- MODULE GuardProofs -----------------------------
(***************************************************************************)
(* Theorems about Guard, for every set of executors and requests and every *)
(* limit.  The count of what was let through only grows where the          *)
(* positions were just read, and then by the executors at most.            *)
(***************************************************************************)
EXTENDS Guard, FiniteSetTheorems, TLAPS

\* What executor e has been allowed to send, until the broker decides.
UnderWay(e, r) ==
    /\ worker[e].at = r
    /\ worker[e].step = "allowed" \/ (worker[e].step = "sent" /\ place[r] = "wire")

\* Market orders on symbol s that are a position, or that an executor may make one.
Exposure(s) ==
    {r \in Market : /\ SymbolOf[r] = s /\ r \notin adrift
                    /\ place[r] = "open" \/ \E e \in Executor : UnderWay(e, r)}

Bounded ==
    \A s \in Symbol : Cardinality(Exposure(s)) <= MaxAureonPositions - 1 + Cardinality(Executor)

\* What is on the wire is in a hand or adrift; only pending orders rest.
WireIsAwaited ==
    \A r \in Request : place[r] = "wire" /\ r \notin adrift =>
        \E e \in Executor : worker[e].at = r /\ worker[e].step = "sent"

OnlyPendingRests == \A r \in Market : place[r] # "resting"

\* Who has a step has a request, which nobody else can claim.
HandsAreClaimed ==
    \A e \in Executor : worker[e].step # "idle" => worker[e].at \in Request \ confirmed

\* A barred request was claimed with the switch off, which is off.
BarredIsOff ==
    /\ barred # {} => ~enabled
    /\ barred \cap confirmed = {}
    /\ \A e \in Executor : worker[e].step # "idle" /\ worker[e].at \in barred => ~worker[e].on
    /\ \A e \in Executor : worker[e].step = "allowed" => worker[e].on

IInv ==
    /\ TypeOK /\ Bounded /\ WireIsAwaited /\ OnlyPendingRests
    /\ HandsAreClaimed /\ BarredIsOff

-----------------------------------------------------------------------------
(* Counting.                                                                 *)

\* Sets of requests are finite, and a smaller one counts no more.
LEMMA Fewer ==
    ASSUME NEW A, NEW B, B \subseteq Request, A \subseteq B
    PROVE  /\ IsFiniteSet(A) /\ Cardinality(A) \in Nat /\ Cardinality(B) \in Nat
           /\ Cardinality(A) <= Cardinality(B)
<1>1. IsFiniteSet(B)
  BY GuardAssumption, FS_Subset
<1>2. IsFiniteSet(A) /\ Cardinality(A) <= Cardinality(B)
  BY <1>1, FS_Subset
<1> QED
  BY <1>1, <1>2, FS_CardinalityType

\* The executors hold no more requests than there are executors.
LEMMA OneEach ==
    ASSUME TypeOK
    PROVE  LET held == {worker[e].at : e \in Executor}
           IN  IsFiniteSet(held) /\ Cardinality(held) <= Cardinality(Executor)
<1> DEFINE held == {worker[e].at : e \in Executor}
           hand == [e \in Executor |-> worker[e].at]
<1>1. hand \in Surjection(Executor, held)
  BY DEF Surjection
<1> HIDE DEF hand
<1> QED
  BY <1>1, FS_Surjection, GuardAssumption

\* Reading positions below the limit bounds the exposure by the executors.
LEMMA ReadIsBound ==
    ASSUME TypeOK, NEW e \in Executor, worker[e].at \in Request, WithinLimits(worker[e].at),
           NEW X, X \subseteq Request,
           NEW s, s = SymbolOf[worker[e].at],
           \A r \in X : \/ place[r] = "open" /\ SymbolOf[r] = s
                        \/ \E f \in Executor : worker[f].at = r
    PROVE  Cardinality(X) <= MaxAureonPositions - 1 + Cardinality(Executor)
<1> DEFINE held == {worker[f].at : f \in Executor}
           there == OnSymbol(worker[e].at)
<1>1. IsFiniteSet(held) /\ Cardinality(held) <= Cardinality(Executor)
  BY OneEach
<1>2. there \subseteq Request
  BY DEF OnSymbol, Positions
<1>3. IsFiniteSet(there) /\ Cardinality(there) \in Nat
  BY <1>2, Fewer
<1>4. Cardinality(there) < MaxAureonPositions
  BY DEF WithinLimits
<1>5. X \subseteq there \cup held
  BY DEF OnSymbol, Positions
<1> HIDE DEF held, there
<1>6. /\ IsFiniteSet(there \cup held)
      /\ Cardinality(there \cup held) =
             Cardinality(there) + Cardinality(held) - Cardinality(there \cap held)
  BY <1>1, <1>3, FS_Union
<1>7. IsFiniteSet(there \cap held)
  BY <1>3, FS_Subset
<1>8. /\ Cardinality(there \cap held) \in Nat /\ Cardinality(held) \in Nat
      /\ Cardinality(there \cup held) \in Nat /\ Cardinality(Executor) \in Nat
  BY <1>1, <1>6, <1>7, FS_CardinalityType, GuardAssumption
<1>9. Cardinality(X) <= Cardinality(there \cup held) /\ Cardinality(X) \in Nat
  BY <1>5, <1>6, FS_Subset, FS_CardinalityType
<1> QED
  BY <1>1, <1>3, <1>4, <1>6, <1>8, <1>9, GuardAssumption

\* Where nothing joins the exposure, the bound stays.
LEMMA NothingJoinsOne ==
    ASSUME Bounded, NEW s \in Symbol, Exposure(s)' \subseteq Exposure(s)
    PROVE  Cardinality(Exposure(s)') <= MaxAureonPositions - 1 + Cardinality(Executor)
<1> DEFINE X == Exposure(s)
           Y == Exposure(s)'
<1>1. X \subseteq Request /\ Y \subseteq X
  BY DEF Exposure, Request
<1>2. Cardinality(X) <= MaxAureonPositions - 1 + Cardinality(Executor)
  BY DEF Bounded
<1> HIDE DEF X, Y
<1>3. Cardinality(Y) \in Nat /\ Cardinality(X) \in Nat /\ Cardinality(Y) <= Cardinality(X)
  BY <1>1, Fewer
<1>4. Cardinality(Y) <= MaxAureonPositions - 1 + Cardinality(Executor)
  BY <1>2, <1>3, GuardAssumption, FS_CardinalityType
<1> QED
  BY <1>4 DEF Y

LEMMA NothingJoins ==
    ASSUME Bounded, \A s \in Symbol : Exposure(s)' \subseteq Exposure(s)
    PROVE  Bounded'
BY NothingJoinsOne DEF Bounded

-----------------------------------------------------------------------------
(* What each kind of step preserves.                                         *)

\* The operators, the humans who trade by hand, and the broker.
World ==
    \/ Disable \/ Enable \/ ByHand
    \/ \E r \in Request : BrokerTakes(r) \/ BrokerRefuses(r) \/ RestingFills(r)
                          \/ RestingLeaves(r) \/ PositionCloses(r)

LEMMA TypesStay ==
    ASSUME TypeOK, HandsAreClaimed, [Next]_vars
    PROVE  TypeOK'
<1>1. CASE World
  BY <1>1 DEF World, TypeOK, Disable, Enable, ByHand, BrokerTakes, BrokerRefuses,
     RestingFills, RestingLeaves, PositionCloses, Moves
<1>2. ASSUME NEW e \in Executor, NEW r \in Request, Claim(e, r)
      PROVE  TypeOK'
  BY <1>2 DEF TypeOK, Claim
<1>3. ASSUME NEW e \in Executor, ReadSettings(e)
      PROVE  TypeOK'
  BY <1>3 DEF TypeOK, ReadSettings
<1>7. ASSUME NEW e \in Executor, Allow(e)
      PROVE  TypeOK'
  BY <1>7 DEF TypeOK, Allow
<1>4. ASSUME NEW e \in Executor, Leave(e) \/ Answered(e)
      PROVE  TypeOK'
  <2>1. worker' = [worker EXCEPT ![e] = Idle]
    BY <1>4 DEF Leave, Answered
  <2>2. UNCHANGED <<enabled, confirmed, place, manual, barred, adrift>>
    BY <1>4 DEF Leave, Answered
  <2>3. Idle \in [step : {"idle", "claimed", "settings", "allowed", "sent"},
                  at : Request \cup {None}, on : BOOLEAN]
    BY DEF Idle
  <2> QED
    BY <2>1, <2>2, <2>3 DEF TypeOK
<1>5. ASSUME NEW e \in Executor, Send(e)
      PROVE  TypeOK'
  <2>1. /\ worker' = [worker EXCEPT ![e].step = "sent"]
        /\ place' = [place EXCEPT ![worker[e].at] = "wire"]
        /\ UNCHANGED <<enabled, confirmed, manual, barred, adrift>>
    BY <1>5 DEF Send, Holds
  <2> QED
    BY <2>1 DEF TypeOK
<1>8. ASSUME NEW e \in Executor, Unanswered(e)
      PROVE  TypeOK'
  <2>1. worker[e].at \in Request
    BY <1>8 DEF HandsAreClaimed, Unanswered, At
  <2>2. adrift' \subseteq Request
    BY <1>8, <2>1 DEF TypeOK, Unanswered, Holds
  <2>3. worker' = [worker EXCEPT ![e] = Idle]
    BY <1>8 DEF Unanswered
  <2>4. UNCHANGED <<enabled, confirmed, place, manual, barred>>
    BY <1>8 DEF Unanswered
  <2>5. Idle \in [step : {"idle", "claimed", "settings", "allowed", "sent"},
                  at : Request \cup {None}, on : BOOLEAN]
    BY DEF Idle
  <2> QED
    BY <2>2, <2>3, <2>4, <2>5 DEF TypeOK
<1>6. CASE UNCHANGED vars
  BY <1>6 DEF TypeOK, vars
<1> QED
  BY <1>1, <1>2, <1>3, <1>4, <1>5, <1>6, <1>7, <1>8 DEF Next, World

LEMMA HandsStay ==
    ASSUME TypeOK, HandsAreClaimed, [Next]_vars
    PROVE  HandsAreClaimed'
<1>1. CASE World
  BY <1>1 DEF World, HandsAreClaimed, Disable, Enable, ByHand, BrokerTakes, BrokerRefuses,
     RestingFills, RestingLeaves, PositionCloses, Moves
<1>2. ASSUME NEW e \in Executor, NEW r \in Request, Claim(e, r)
      PROVE  HandsAreClaimed'
  BY <1>2 DEF TypeOK, HandsAreClaimed, Claim
<1>3. ASSUME NEW e \in Executor, ReadSettings(e) \/ Allow(e) \/ Send(e)
      PROVE  HandsAreClaimed'
  BY <1>3 DEF TypeOK, HandsAreClaimed, ReadSettings, Allow, Send, At
<1>4. ASSUME NEW e \in Executor, Leave(e) \/ Answered(e) \/ Unanswered(e)
      PROVE  HandsAreClaimed'
  BY <1>4 DEF TypeOK, HandsAreClaimed, Leave, Answered, Unanswered, Idle
<1>5. CASE UNCHANGED vars
  BY <1>5 DEF HandsAreClaimed, vars
<1> QED
  BY <1>1, <1>2, <1>3, <1>4, <1>5 DEF Next, World

\* Only a claim made with the switch off bars a request, and only turning it on frees one.
LEMMA BarredStays ==
    ASSUME TypeOK, HandsAreClaimed, BarredIsOff, [Next]_vars
    PROVE  BarredIsOff'
<1>1. CASE World
  BY <1>1 DEF World, BarredIsOff, Disable, Enable, ByHand, BrokerTakes, BrokerRefuses,
     RestingFills, RestingLeaves, PositionCloses, Moves
<1>2. ASSUME NEW e \in Executor, NEW r \in Request, Claim(e, r)
      PROVE  BarredIsOff'
  <2>1. (barred # {} => ~enabled)'
    BY <1>2 DEF BarredIsOff, Claim
  <2>2. (barred \cap confirmed = {})'
    BY <1>2 DEF BarredIsOff, Claim
  <2>3. \A f \in Executor : f # e => worker'[f] = worker[f]
    BY <1>2 DEF Claim, TypeOK
  <2>4. worker'[e] = [step |-> "claimed", at |-> r, on |-> FALSE]
    BY <1>2 DEF Claim, TypeOK
  <2>5. \A f \in Executor : worker[f].step # "idle" => worker[f].at # r
    BY <1>2 DEF Claim, HandsAreClaimed
  <2>6. barred' \subseteq barred \cup {r}
    BY <1>2 DEF Claim
  <2> QED
    BY <2>1, <2>2, <2>3, <2>4, <2>5, <2>6 DEF BarredIsOff
<1>3. ASSUME NEW e \in Executor, ReadSettings(e)
      PROVE  BarredIsOff'
  <2>1. PICK on \in BOOLEAN :
            /\ ReadsSwitch(on)
            /\ worker' = [worker EXCEPT ![e].step = "settings", ![e].on = on]
    BY <1>3 DEF ReadSettings
  <2>2. on => enabled
    BY <2>1 DEF ReadsSwitch, TypeOK
  <2>3. \A f \in Executor : f # e => worker'[f] = worker[f]
    BY <2>1 DEF TypeOK
  <2>4. worker'[e].step = "settings" /\ worker'[e].at = worker[e].at /\ worker'[e].on = on
    BY <2>1 DEF TypeOK
  <2> QED
    BY <1>3, <2>2, <2>3, <2>4 DEF BarredIsOff, ReadSettings
<1>4. ASSUME NEW e \in Executor, Allow(e) \/ Send(e)
      PROVE  BarredIsOff'
  BY <1>4 DEF TypeOK, BarredIsOff, Allow, Send, At
<1>5. ASSUME NEW e \in Executor, Leave(e) \/ Answered(e) \/ Unanswered(e)
      PROVE  BarredIsOff'
  BY <1>5 DEF TypeOK, BarredIsOff, Leave, Answered, Unanswered, Idle
<1>6. CASE UNCHANGED vars
  BY <1>6 DEF BarredIsOff, vars
<1> QED
  BY <1>1, <1>2, <1>3, <1>4, <1>5, <1>6 DEF Next, World

LEMMA WireStays ==
    ASSUME TypeOK, HandsAreClaimed, WireIsAwaited, OnlyPendingRests, [Next]_vars
    PROVE  WireIsAwaited' /\ OnlyPendingRests'
<1>1. CASE Disable \/ Enable \/ ByHand \/ UNCHANGED vars
  BY <1>1 DEF WireIsAwaited, OnlyPendingRests, Disable, Enable, ByHand, vars
<1>2. ASSUME NEW r \in Request,
             \/ BrokerTakes(r) \/ BrokerRefuses(r) \/ RestingFills(r)
             \/ RestingLeaves(r) \/ PositionCloses(r)
      PROVE  WireIsAwaited' /\ OnlyPendingRests'
  <2>1. PICK to \in {"resting", "open", "gone"} :
            /\ place' = [place EXCEPT ![r] = to]
            /\ to = "resting" => r \notin Market
    BY <1>2 DEF BrokerTakes, BrokerRefuses, RestingFills, RestingLeaves, PositionCloses, Moves
  <2>2. UNCHANGED <<worker, adrift>>
    BY <1>2 DEF BrokerTakes, BrokerRefuses, RestingFills, RestingLeaves, PositionCloses, Moves
  <2>3. \A q \in Request : place'[q] = IF q = r THEN to ELSE place[q]
    BY <2>1 DEF TypeOK
  <2> QED
    BY <2>1, <2>2, <2>3 DEF WireIsAwaited, OnlyPendingRests, Request
<1>3. ASSUME NEW e \in Executor, NEW r \in Request, Claim(e, r)
      PROVE  WireIsAwaited' /\ OnlyPendingRests'
  BY <1>3 DEF TypeOK, WireIsAwaited, OnlyPendingRests, Claim, At
<1>4. ASSUME NEW e \in Executor, ReadSettings(e) \/ Allow(e) \/ Leave(e)
      PROVE  WireIsAwaited' /\ OnlyPendingRests'
  <2>1. worker[e].step # "sent" /\ \A f \in Executor : f # e => worker'[f] = worker[f]
    BY <1>4 DEF TypeOK, ReadSettings, Allow, Leave, At
  <2>2. UNCHANGED <<place, adrift>>
    BY <1>4 DEF ReadSettings, Allow, Leave
  <2> QED
    BY <2>1, <2>2 DEF WireIsAwaited, OnlyPendingRests
<1>5. ASSUME NEW e \in Executor, Send(e)
      PROVE  WireIsAwaited' /\ OnlyPendingRests'
  <2>1. worker[e].at \in Request /\ worker[e].step = "allowed"
    BY <1>5 DEF HandsAreClaimed, Send, At
  <2>2. \A q \in Request : place'[q] = IF q = worker[e].at THEN "wire" ELSE place[q]
    BY <1>5, <2>1 DEF TypeOK, Send, Holds
  <2>3. worker'[e].step = "sent" /\ worker'[e].at = worker[e].at
    BY <1>5 DEF TypeOK, Send
  <2>4. \A f \in Executor : f # e => worker'[f] = worker[f]
    BY <1>5 DEF TypeOK, Send
  <2>5. adrift' = adrift
    BY <1>5 DEF Send
  <2>6. OnlyPendingRests'
    BY <2>2 DEF OnlyPendingRests, Request
  <2> QED
    BY <2>1, <2>2, <2>3, <2>4, <2>5, <2>6 DEF WireIsAwaited
<1>6. ASSUME NEW e \in Executor, Answered(e) \/ Unanswered(e)
      PROVE  WireIsAwaited' /\ OnlyPendingRests'
  <2>1. place' = place /\ adrift \subseteq adrift'
    BY <1>6 DEF Answered, Unanswered
  <2>2. place[worker[e].at] = "wire" => worker[e].at \in adrift'
    BY <1>6 DEF Answered, Unanswered, Holds
  <2>3. \A f \in Executor : f # e => worker'[f] = worker[f]
    BY <1>6 DEF TypeOK, Answered, Unanswered
  <2> QED
    BY <2>1, <2>2, <2>3 DEF WireIsAwaited, OnlyPendingRests
<1> QED
  BY <1>1, <1>2, <1>3, <1>4, <1>5, <1>6 DEF Next

\* Only an executor that has just read the positions adds to the exposure.
LEMMA BoundStays ==
    ASSUME TypeOK, HandsAreClaimed, WireIsAwaited, OnlyPendingRests, Bounded, [Next]_vars
    PROVE  Bounded'
<1>1. CASE Disable \/ Enable \/ ByHand \/ UNCHANGED vars
  <2>1. \A s \in Symbol : Exposure(s)' = Exposure(s)
    BY <1>1 DEF Exposure, UnderWay, Disable, Enable, ByHand, vars
  <2> QED
    BY <2>1, NothingJoins
<1>2. ASSUME NEW r \in Request,
             \/ BrokerTakes(r) \/ BrokerRefuses(r) \/ RestingFills(r)
             \/ RestingLeaves(r) \/ PositionCloses(r)
      PROVE  Bounded'
  <2>1. PICK to \in {"resting", "open", "gone"} :
            /\ place' = [place EXCEPT ![r] = to]
            /\ to = "open" => place[r] \in {"wire", "resting"}
    BY <1>2 DEF BrokerTakes, BrokerRefuses, RestingFills, RestingLeaves, PositionCloses, Moves
  <2>2. UNCHANGED <<worker, adrift>>
    BY <1>2 DEF BrokerTakes, BrokerRefuses, RestingFills, RestingLeaves, PositionCloses, Moves
  <2>3. \A q \in Request : place'[q] = IF q = r THEN to ELSE place[q]
    BY <2>1 DEF TypeOK
  <2>4. ASSUME NEW s \in Symbol, NEW q \in Exposure(s)'
        PROVE  q \in Exposure(s)
    <3>1. /\ q \in Market /\ SymbolOf[q] = s /\ q \notin adrift
          /\ place'[q] = "open" \/ \E e \in Executor : UnderWay(e, q)'
      BY <2>2, <2>4 DEF Exposure
    <3>2. ASSUME NEW e \in Executor, UnderWay(e, q)'
          PROVE  UnderWay(e, q)
      BY <2>1, <2>2, <2>3, <3>1, <3>2 DEF UnderWay, Request
    <3>3. ASSUME place'[q] = "open"
          PROVE  place[q] = "open" \/ place[q] = "wire"
      BY <2>1, <2>3, <3>1, <3>3 DEF OnlyPendingRests, Request
    <3>4. ASSUME place[q] = "wire"
          PROVE  \E e \in Executor : UnderWay(e, q)
      BY <3>1, <3>4 DEF WireIsAwaited, UnderWay, Request
    <3> QED
      BY <3>1, <3>2, <3>3, <3>4 DEF Exposure
  <2> QED
    BY <2>4, NothingJoins
<1>3. ASSUME NEW e \in Executor, NEW r \in Request, Claim(e, r)
      PROVE  Bounded'
  <2>1. worker'[e].step = "claimed" /\ \A f \in Executor : f # e => worker'[f] = worker[f]
    BY <1>3 DEF TypeOK, Claim
  <2>2. UNCHANGED <<place, adrift>>
    BY <1>3 DEF Claim
  <2>3. \A s \in Symbol : Exposure(s)' \subseteq Exposure(s)
    BY <2>1, <2>2 DEF Exposure, UnderWay
  <2> QED
    BY <2>3, NothingJoins
<1>4. ASSUME NEW e \in Executor, ReadSettings(e) \/ Leave(e) \/ Answered(e) \/ Unanswered(e)
      PROVE  Bounded'
  <2>1. /\ worker'[e].step \in {"settings", "idle"}
        /\ \A f \in Executor : f # e => worker'[f] = worker[f]
    BY <1>4 DEF TypeOK, ReadSettings, Leave, Answered, Unanswered, Idle
  <2>2. place' = place /\ adrift \subseteq adrift'
    BY <1>4 DEF ReadSettings, Leave, Answered, Unanswered
  <2>3. \A s \in Symbol : Exposure(s)' \subseteq Exposure(s)
    BY <2>1, <2>2 DEF Exposure, UnderWay
  <2> QED
    BY <2>3, NothingJoins
<1>5. ASSUME NEW e \in Executor, Send(e)
      PROVE  Bounded'
  <2>1. worker[e].at \in Request /\ worker[e].step = "allowed"
    BY <1>5 DEF HandsAreClaimed, Send, At
  <2>2. \A q \in Request : place'[q] = IF q = worker[e].at THEN "wire" ELSE place[q]
    BY <1>5, <2>1 DEF TypeOK, Send, Holds
  <2>3. /\ worker'[e].at = worker[e].at /\ adrift' = adrift
        /\ \A f \in Executor : f # e => worker'[f] = worker[f]
    BY <1>5 DEF TypeOK, Send
  <2>4. worker'[e].step = "sent"
    BY <1>5 DEF TypeOK, Send
  <2>5. ASSUME NEW s \in Symbol, NEW q \in Exposure(s)'
        PROVE  q \in Exposure(s)
    <3>1. q \in Request /\ q \in Market /\ SymbolOf[q] = s /\ q \notin adrift
      BY <2>3, <2>5 DEF Exposure, Request
    <3>2. place'[q] = "open" \/ \E f \in Executor : UnderWay(f, q)'
      BY <2>5 DEF Exposure
    <3>3. ASSUME q = worker[e].at
          PROVE  UnderWay(e, q)
      <4>1. worker[e].at = q
        BY <3>3
      <4> QED
        BY <2>1, <4>1 DEF UnderWay
    <3>4. q # worker[e].at => place'[q] = place[q]
      BY <2>2, <3>1
    <3>5. ASSUME NEW f \in Executor, UnderWay(f, q)', q # worker[e].at
          PROVE  UnderWay(f, q)
      BY <2>3, <3>4, <3>5 DEF UnderWay
    <3> QED
      BY <3>1, <3>2, <3>3, <3>4, <3>5 DEF Exposure
  <2> QED
    BY <2>5, NothingJoins
<1>6. ASSUME NEW e \in Executor, Allow(e)
      PROVE  Bounded'
  <2>1. worker[e].at \in Request /\ WithinLimits(worker[e].at)
    BY <1>6 DEF HandsAreClaimed, Allow, At, Holds
  <2>2. UNCHANGED <<place, adrift>>
    BY <1>6 DEF Allow
  <2>3. /\ worker'[e].at = worker[e].at
        /\ \A f \in Executor : f # e => worker'[f] = worker[f]
    BY <1>6 DEF TypeOK, Allow
  <2>4. ASSUME NEW s \in Symbol, s # SymbolOf[worker[e].at]
        PROVE  Exposure(s)' \subseteq Exposure(s)
    BY <2>2, <2>3, <2>4 DEF Exposure, UnderWay
  <2>5. ASSUME NEW s \in Symbol, s = SymbolOf[worker[e].at]
        PROVE  Cardinality(Exposure(s)') <= MaxAureonPositions - 1 + Cardinality(Executor)
    <3>1. Exposure(s)' \subseteq Request
      BY DEF Exposure, Request
    <3>2. \A r \in Exposure(s)' : \/ place[r] = "open" /\ SymbolOf[r] = s
                                  \/ \E f \in Executor : worker[f].at = r
      BY <2>2, <2>3 DEF Exposure, UnderWay
    <3> QED
      BY <2>1, <2>5, <3>1, <3>2, ReadIsBound
  <2>6. ASSUME NEW s \in Symbol, s # SymbolOf[worker[e].at]
        PROVE  Cardinality(Exposure(s)') <= MaxAureonPositions - 1 + Cardinality(Executor)
    BY <2>4, <2>6, NothingJoinsOne
  <2> QED
    BY <2>5, <2>6 DEF Bounded
<1> QED
  BY <1>1, <1>2, <1>3, <1>4, <1>5, <1>6 DEF Next

-----------------------------------------------------------------------------
(* The theorems.                                                             *)

THEOREM Invariance == Spec => []IInv
<1>1. Init => IInv
  <2> SUFFICES ASSUME Init PROVE IInv
    OBVIOUS
  <2>1. TypeOK
    <3>1. Idle \in [step : {"idle", "claimed", "settings", "allowed", "sent"},
                    at : Request \cup {None}, on : BOOLEAN]
      BY DEF Idle
    <3>2. manual \in 0..MaxManual
      BY GuardAssumption DEF Init
    <3> QED
      BY <3>1, <3>2 DEF Init, TypeOK
  <2>2. WireIsAwaited /\ OnlyPendingRests
    BY DEF Init, WireIsAwaited, OnlyPendingRests, Request
  <2>3. HandsAreClaimed /\ BarredIsOff
    BY DEF Init, HandsAreClaimed, BarredIsOff, Idle
  <2>4. ASSUME NEW s \in Symbol
        PROVE  Cardinality(Exposure(s)) <= MaxAureonPositions - 1 + Cardinality(Executor)
    <3>1. Exposure(s) = {}
      BY DEF Init, Exposure, UnderWay, Idle, Request
    <3>2. Cardinality(Exposure(s)) = 0
      BY <3>1, FS_EmptySet
    <3>3. Cardinality(Executor) \in Nat /\ Cardinality(Executor) # 0
      BY GuardAssumption, FS_CardinalityType, FS_EmptySet
    <3> QED
      BY <3>2, <3>3, GuardAssumption
  <2> QED
    BY <2>1, <2>2, <2>3, <2>4 DEF IInv, Bounded
<1>2. IInv /\ [Next]_vars => IInv'
  BY TypesStay, HandsStay, BarredStays, WireStays, BoundStays DEF IInv
<1> QED
  BY <1>1, <1>2, PTL DEF Spec

\* The guard's types.
THEOREM TypesHold == Spec => []TypeOK
<1>1. IInv => TypeOK
  BY DEF IInv
<1> QED
  BY <1>1, Invariance, PTL

\* On one symbol, what the guard let through exceeds its limit by one order at most for every
\* executor that read the positions before another's order showed: ExecutionWorker._guard.
THEOREM RacesAreBounded == Spec => []OnlyRacesPyramid
<1>1. IInv => OnlyRacesPyramid
  <2> SUFFICES ASSUME IInv, NEW s \in Symbol
               PROVE  Cardinality({r \in Positions \cap Market :
                                       SymbolOf[r] = s /\ r \notin adrift})
                          <= MaxAureonPositions - 1 + Cardinality(Executor)
    BY DEF OnlyRacesPyramid
  <2> DEFINE A == {r \in Positions \cap Market : SymbolOf[r] = s /\ r \notin adrift}
             X == Exposure(s)
  <2>1. X \subseteq Request /\ A \subseteq X
    BY DEF Exposure, Positions, Request
  <2>2. Cardinality(X) <= MaxAureonPositions - 1 + Cardinality(Executor)
    BY DEF IInv, Bounded
  <2> HIDE DEF A, X
  <2>3. Cardinality(A) \in Nat /\ Cardinality(X) \in Nat /\ Cardinality(A) <= Cardinality(X)
    BY <2>1, Fewer
  <2>4. Cardinality(A) <= MaxAureonPositions - 1 + Cardinality(Executor)
    BY <2>2, <2>3, GuardAssumption, FS_CardinalityType
  <2> QED
    BY <2>4 DEF A
<1> QED
  BY <1>1, Invariance, PTL

\* A request claimed with the switch off is not sent before it is turned on again.
THEOREM SwitchHolds == Spec => DisableBlocksTheNext
<1>1. ASSUME IInv, [Next]_vars,
             NEW r \in Request, place[r] = "nowhere", place'[r] = "wire"
      PROVE  r \notin barred
  <2>1. CASE \E e \in Executor : Send(e)
    <3>1. PICK e \in Executor : Send(e)
      BY <2>1
    <3>2. r = worker[e].at /\ worker[e].step = "allowed"
      BY <1>1, <3>1 DEF Send, At, Holds, IInv, TypeOK
    <3> QED
      BY <1>1, <3>2 DEF IInv, BarredIsOff
  <2>2. CASE \E q \in Request : \/ BrokerTakes(q) \/ BrokerRefuses(q) \/ RestingFills(q)
                                \/ RestingLeaves(q) \/ PositionCloses(q)
    <3>1. PICK q \in Request, to \in {"resting", "open", "gone"} :
              place' = [place EXCEPT ![q] = to]
      BY <2>2 DEF BrokerTakes, BrokerRefuses, RestingFills, RestingLeaves, PositionCloses, Moves
    <3> QED
      BY <1>1, <3>1 DEF IInv, TypeOK
  <2>3. CASE UNCHANGED place
    BY <1>1, <2>3
  <2> QED
    BY <1>1, <2>1, <2>2, <2>3 DEF Next, Disable, Enable, ByHand, Claim, ReadSettings, Allow,
       Leave, Answered, Unanswered, vars
<1>2. IInv /\ [Next]_vars =>
        [\A r \in Request : place[r] = "nowhere" /\ place'[r] = "wire" => r \notin barred]_vars
  BY <1>1
<1> QED
  BY <1>2, Invariance, PTL DEF Spec, DisableBlocksTheNext
=============================================================================
