--------------------------- MODULE AgentRunProofs ---------------------------
(***************************************************************************)
(* Proofs about AgentRun: slots are held exactly while a call needs them,  *)
(* a backend's limits are kept, the requests of a run are bounded, and few *)
(* of them are begun when its context is done, for any number of runs,     *)
(* backends, base URLs, limits, attempts and tool rounds.                  *)
(***************************************************************************)
EXTENDS AgentRun, FiniteSetTheorems, TLAPS

\* A semaphore's size is a positive number.
LEMMA ConcurrencyType == \A r \in Runs : Concurrency(r) \in Nat \ {0}
  <1>1. \A r \in Runs : EndpointKey(r) \in Keys
    BY AgentAssumption, Zenon DEF EndpointKey, Keys
  <1>2. EnvConcurrency["default"] \in Nat
    BY AgentAssumption, Zenon DEF Keys
  <1>3. DefaultConcurrency \in Nat \ {0}
    BY <1>2 DEF DefaultConcurrency
  <1> QED BY <1>1, <1>3, AgentAssumption DEF Concurrency

\* A rate is a number of requests and of seconds, so a bucket has a size.
LEMMA RateType == \A r \in Runs : Bucket(r)[3] \in Nat
  <1>1. \A r \in Runs : EndpointKey(r) \in Keys
    BY AgentAssumption, Zenon DEF EndpointKey, Keys
  <1>2. \A r \in Runs : RateLimit(r) \in Nat \X (Nat \ {0})
    BY <1>1, AgentAssumption, Zenon DEF RateLimit
  <1> QED BY <1>2, Zenon DEF Bucket

\* The initial state.
LEMMA InitInv == Init => AgentInv
  <1> SUFFICES ASSUME Init PROVE AgentInv
    BY Zenon
  <1>1. TypeOK
    BY AgentAssumption, RateType DEF Init, TypeOK, PC, Content, Result, Buckets
  <1>2. SlotsHeld
    BY Zenon DEF Init, SlotsHeld
  <1>3. SemBound
    BY ConcurrencyType, FS_EmptySet DEF Init, SemBound, SemKeys, SemKey
  <1>4. TurnsCounted
    BY AgentAssumption DEF Init, TurnsCounted
  <1>5. RequestsCounted
    BY AgentAssumption DEF Init, RequestsCounted
  <1>6. LateLast
    BY DEF Init, LateLast
  <1> QED BY <1>1, <1>2, <1>3, <1>4, <1>5, <1>6, Zenon DEF AgentInv

\* Complete's deferred receive: the semaphore of r, and no other, loses r.
LEMMA SlotFreed ==
  ASSUME AgentInv, NEW r \in Runs, FreeSlot(r)
  PROVE  /\ sem' \in [SemKeys -> SUBSET Runs]
         /\ \A k \in SemKeys : sem'[k] = sem[k] \ {r}
         /\ SemBound'
  <1>1. sem' \in [SemKeys -> SUBSET Runs]
    BY Zenon DEF AgentInv, TypeOK, FreeSlot
  <1>2. \A k \in SemKeys : sem'[k] = sem[k] \ {r}
    BY DEF AgentInv, TypeOK, FreeSlot, SlotsHeld
  <1>3. ASSUME NEW k \in SemKeys PROVE Cardinality(sem'[k]) <= k[2]
    <2>1. IsFiniteSet(sem[k])
      BY AgentAssumption, FS_Subset, Zenon DEF AgentInv, TypeOK
    <2>2. Cardinality(sem[k] \ {r}) <= Cardinality(sem[k])
      BY <2>1, FS_Subset, Zenon
    <2>3. Cardinality(sem[k]) \in Nat /\ Cardinality(sem[k] \ {r}) \in Nat
      BY <2>1, FS_CardinalityType, FS_RemoveElement, Zenon
    <2>4. k[2] \in Nat
      BY ConcurrencyType DEF SemKeys, SemKey
    <2> QED BY <1>2, <2>2, <2>3, <2>4 DEF AgentInv, SemBound
  <1> QED BY <1>1, <1>2, <1>3, Zenon DEF SemBound

\* A step of a run keeps the types.
LEMMA TypeStep ==
  ASSUME AgentInv, NEW r \in Runs, Step(r)
  PROVE  TypeOK'
  <1> USE AgentAssumption DEF AgentInv, TypeOK, PC, Content, Result, Goto, limits, counters
  <1>1. CASE Reject(r)
    BY <1>1, Zenon DEF Reject, End
  <1>2. CASE Begin(r)
    BY <1>2, Zenon DEF Begin
  <1>3. CASE RateToken(r)
    <2>1. CASE Limited(r)
      <3>1. Bucket(r) \in Buckets /\ tokens[Bucket(r)] \in Nat \ {0}
        BY <1>3, <2>1 DEF RateToken, Buckets
      <3>2. tokens' \in [Buckets -> Nat]
        BY <1>3, <2>1, <3>1 DEF RateToken
      <3> QED BY <1>3, <3>2, Zenon DEF RateToken
    <2>2. CASE ~Limited(r)
      BY <1>3, <2>2, Zenon DEF RateToken
    <2> QED BY <2>1, <2>2, Zenon
  <1>4. CASE RateFails(r)
    BY <1>4 DEF RateFails, Broken, End
  <1>5. CASE Acquire(r)
    <2>1. sem' \in [SemKeys -> SUBSET Runs]
      BY <1>5, ZenonT(60) DEF Acquire
    <2>2. attempt' \in [Runs -> 0..MaxAttempts]
      BY <1>5 DEF Acquire
    <2>3. /\ sent' \in [Runs -> Nat] /\ late' \in [Runs -> Nat]
          /\ turns' \in [Runs -> Nat]
      BY <1>5 DEF Acquire, Attempt
    <2> QED BY <1>5, <2>1, <2>2, <2>3, Zenon DEF Acquire
  <1>6. CASE SlotCancelled(r)
    BY <1>6 DEF SlotCancelled, Broken, End
  <1>7. CASE AttemptFails(r)
    BY <1>7 DEF AttemptFails
  <1>8. CASE CallFails(r)
    BY <1>8, SlotFreed DEF CallFails, Broken, End
  <1>9. CASE Retry(r)
    <2>1. attempt' \in [Runs -> 0..MaxAttempts]
      BY <1>9 DEF Retry, RequestsCounted
    <2>2. sent' \in [Runs -> Nat] /\ late' \in [Runs -> Nat]
      BY <1>9 DEF Retry, Attempt
    <2> QED BY <1>9, <2>1, <2>2, Zenon DEF Retry
  <1>10. CASE BackoffCancelled(r)
    BY <1>10, SlotFreed DEF BackoffCancelled, Broken, End
  <1>11. CASE ToolCalls(r)
    BY <1>11, SlotFreed, Zenon DEF ToolCalls
  <1>12. CASE Answer(r)
    <2>1. Answers(r) \subseteq Content
      BY DEF Answers
    <2> QED BY <1>12, <2>1, SlotFreed DEF Answer
  <1>13. CASE NextRound(r)
    BY <1>13 DEF NextRound
  <1>14. CASE RoundsExceeded(r)
    BY <1>14, Zenon DEF RoundsExceeded, End
  <1>15. CASE Accept(r)
    BY <1>15, Zenon DEF Accept, End
  <1>16. CASE InvalidJSON(r)
    BY <1>16, Zenon DEF InvalidJSON, End
  <1>17. CASE RepairSchema(r)
    BY <1>17, Zenon DEF RepairSchema
  <1>18. CASE RepairFails(r)
    BY <1>18 DEF RepairFails, End
  <1>19. CASE AcceptRepaired(r)
    BY <1>19, Zenon DEF AcceptRepaired, End
  <1> QED BY <1>1, <1>2, <1>3, <1>4, <1>5, <1>6, <1>7, <1>8, <1>9,
             <1>10, <1>11, <1>12, <1>13, <1>14, <1>15, <1>16, <1>17, <1>18,
             <1>19, Zenon DEF Step

\* A step of a run takes and frees the slots of that run only, and takes one
\* only below the size of the semaphore.
LEMMA SlotsStep ==
  ASSUME AgentInv, NEW r \in Runs, Step(r)
  PROVE  SlotsHeld' /\ SemBound'
  <1> USE AgentAssumption DEF AgentInv, TypeOK, Goto, limits, counters, SlotsHeld, SemBound
  <1>1. CASE Reject(r)
    BY <1>1, Zenon DEF Reject, End
  <1>2. CASE Begin(r)
    BY <1>2, Zenon DEF Begin
  <1>3. CASE RateToken(r)
    BY <1>3, Zenon DEF RateToken
  <1>4. CASE RateFails(r)
    BY <1>4, Zenon DEF RateFails, Broken, End
  <1>5. CASE Acquire(r)
    <2>1. SemKey(r) \in SemKeys /\ SemKey(r)[2] = Concurrency(r)
      BY Zenon DEF SemKeys, SemKey
    <2>2. \A k \in SemKeys : sem'[k] = IF k = SemKey(r) THEN sem[k] \cup {r} ELSE sem[k]
      BY <1>5, Zenon DEF Acquire
    <2>3. SlotsHeld'
      BY <1>5, <2>1, <2>2 DEF Acquire
    <2>4. IsFiniteSet(sem[SemKey(r)])
      BY <2>1, FS_Subset, Zenon
    <2>5. Cardinality(sem[SemKey(r)] \cup {r}) = Cardinality(sem[SemKey(r)]) + 1
      BY <1>5, <2>1, <2>4, FS_AddElement, Zenon DEF Acquire
    <2>6. Cardinality(sem[SemKey(r)]) \in Nat
      BY <2>4, FS_CardinalityType, Zenon
    <2>7. Cardinality(sem'[SemKey(r)]) <= Concurrency(r)
      BY <1>5, <2>1, <2>2, <2>5, <2>6, ConcurrencyType DEF Acquire
    <2>8. SemBound'
      BY <2>1, <2>2, <2>7, Zenon
    <2> QED BY <2>3, <2>8, Zenon
  <1>6. CASE SlotCancelled(r)
    BY <1>6, Zenon DEF SlotCancelled, Broken, End
  <1>7. CASE AttemptFails(r)
    BY <1>7, Zenon DEF AttemptFails
  <1>8. CASE CallFails(r)
    <2>1. SemBound' /\ \A k \in SemKeys : sem'[k] = sem[k] \ {r}
      BY <1>8, SlotFreed, Zenon DEF CallFails
    <2> QED BY <1>8, <2>1 DEF CallFails, Broken, End
  <1>9. CASE Retry(r)
    BY <1>9, Zenon DEF Retry
  <1>10. CASE BackoffCancelled(r)
    <2>1. SemBound' /\ \A k \in SemKeys : sem'[k] = sem[k] \ {r}
      BY <1>10, SlotFreed, Zenon DEF BackoffCancelled
    <2> QED BY <1>10, <2>1 DEF BackoffCancelled, Broken, End
  <1>11. CASE ToolCalls(r)
    <2>1. SemBound' /\ \A k \in SemKeys : sem'[k] = sem[k] \ {r}
      BY <1>11, SlotFreed, Zenon DEF ToolCalls
    <2> QED BY <1>11, <2>1 DEF ToolCalls
  <1>12. CASE Answer(r)
    <2>1. SemBound' /\ \A k \in SemKeys : sem'[k] = sem[k] \ {r}
      BY <1>12, SlotFreed, Zenon DEF Answer
    <2> QED BY <1>12, <2>1 DEF Answer
  <1>13. CASE NextRound(r)
    BY <1>13, Zenon DEF NextRound
  <1>14. CASE RoundsExceeded(r)
    BY <1>14, Zenon DEF RoundsExceeded, End
  <1>15. CASE Accept(r)
    BY <1>15, Zenon DEF Accept, End
  <1>16. CASE InvalidJSON(r)
    BY <1>16, Zenon DEF InvalidJSON, End
  <1>17. CASE RepairSchema(r)
    BY <1>17 DEF RepairSchema
  <1>18. CASE RepairFails(r)
    BY <1>18, Zenon DEF RepairFails, End
  <1>19. CASE AcceptRepaired(r)
    BY <1>19, Zenon DEF AcceptRepaired, End
  <1> QED BY <1>1, <1>2, <1>3, <1>4, <1>5, <1>6, <1>7, <1>8, <1>9,
             <1>10, <1>11, <1>12, <1>13, <1>14, <1>15, <1>16, <1>17, <1>18,
             <1>19, Zenon DEF Step

\* Every step counts the turns.
LEMMA TurnsStep ==
  ASSUME AgentInv, NEW r \in Runs, Step(r)
  PROVE  TurnsCounted'
  <1> USE AgentAssumption DEF AgentInv, TypeOK, Goto, limits, counters, TurnsCounted
  <1>1. CASE Reject(r)
    BY <1>1 DEF Reject, End
  <1>2. CASE Begin(r)
    BY <1>2 DEF Begin
  <1>3. CASE RateToken(r)
    BY <1>3 DEF RateToken
  <1>4. CASE RateFails(r)
    BY <1>4 DEF RateFails, Broken, End
  <1>5. CASE Acquire(r)
    BY <1>5 DEF Acquire
  <1>6. CASE SlotCancelled(r)
    BY <1>6 DEF SlotCancelled, Broken, End
  <1>7. CASE AttemptFails(r)
    BY <1>7 DEF AttemptFails
  <1>8. CASE CallFails(r)
    BY <1>8 DEF CallFails, Broken, End
  <1>9. CASE Retry(r)
    BY <1>9 DEF Retry
  <1>10. CASE BackoffCancelled(r)
    BY <1>10 DEF BackoffCancelled, Broken, End
  <1>11. CASE ToolCalls(r)
    BY <1>11 DEF ToolCalls
  <1>12. CASE Answer(r)
    BY <1>12 DEF Answer
  <1>13. CASE NextRound(r)
    BY <1>13 DEF NextRound
  <1>14. CASE RoundsExceeded(r)
    BY <1>14 DEF RoundsExceeded, End
  <1>15. CASE Accept(r)
    BY <1>15 DEF Accept, End
  <1>16. CASE InvalidJSON(r)
    BY <1>16 DEF InvalidJSON, End
  <1>17. CASE RepairSchema(r)
    BY <1>17 DEF RepairSchema
  <1>18. CASE RepairFails(r)
    BY <1>18 DEF RepairFails, End
  <1>19. CASE AcceptRepaired(r)
    BY <1>19 DEF AcceptRepaired, End
  <1> QED BY <1>1, <1>2, <1>3, <1>4, <1>5, <1>6, <1>7, <1>8, <1>9,
             <1>10, <1>11, <1>12, <1>13, <1>14, <1>15, <1>16, <1>17, <1>18,
             <1>19, Zenon DEF Step

\* Every step counts the requests.
LEMMA RequestsStep ==
  ASSUME AgentInv, NEW r \in Runs, Step(r)
  PROVE  RequestsCounted'
  <1> USE AgentAssumption DEF AgentInv, TypeOK, Goto, limits, counters, RequestsCounted
  <1>1. CASE Reject(r)
    BY <1>1, Zenon DEF Reject, End
  <1>2. CASE Begin(r)
    BY <1>2, Zenon DEF Begin
  <1>3. CASE RateToken(r)
    BY <1>3, Zenon DEF RateToken
  <1>4. CASE RateFails(r)
    BY <1>4, Zenon DEF RateFails, Broken, End
  <1>5. CASE Acquire(r)
    BY <1>5 DEF Acquire, Attempt
  <1>6. CASE SlotCancelled(r)
    BY <1>6, Zenon DEF SlotCancelled, Broken, End
  <1>7. CASE AttemptFails(r)
    BY <1>7, Zenon DEF AttemptFails
  <1>8. CASE CallFails(r)
    BY <1>8 DEF CallFails, Broken, End
  <1>9. CASE Retry(r)
    BY <1>9 DEF Retry, Attempt
  <1>10. CASE BackoffCancelled(r)
    BY <1>10 DEF BackoffCancelled, Broken, End
  <1>11. CASE ToolCalls(r)
    BY <1>11 DEF ToolCalls
  <1>12. CASE Answer(r)
    BY <1>12 DEF Answer
  <1>13. CASE NextRound(r)
    BY <1>13, Zenon DEF NextRound
  <1>14. CASE RoundsExceeded(r)
    BY <1>14, Zenon DEF RoundsExceeded, End
  <1>15. CASE Accept(r)
    BY <1>15, Zenon DEF Accept, End
  <1>16. CASE InvalidJSON(r)
    BY <1>16, Zenon DEF InvalidJSON, End
  <1>17. CASE RepairSchema(r)
    BY <1>17, Zenon DEF RepairSchema
  <1>18. CASE RepairFails(r)
    BY <1>18, Zenon DEF RepairFails, End
  <1>19. CASE AcceptRepaired(r)
    BY <1>19, Zenon DEF AcceptRepaired, End
  <1> QED BY <1>1, <1>2, <1>3, <1>4, <1>5, <1>6, <1>7, <1>8, <1>9,
             <1>10, <1>11, <1>12, <1>13, <1>14, <1>15, <1>16, <1>17, <1>18,
             <1>19, Zenon DEF Step

\* No step begins a second late request: the first one has no answer, and the
\* sleep after it ends in an error.
LEMMA LateStep ==
  ASSUME AgentInv, NEW r \in Runs, Step(r)
  PROVE  LateLast'
  <1> USE DEF AgentInv, TypeOK, LateLast, Goto, End, Broken, counters
  <1>1. CASE Acquire(r) \/ Retry(r)
    BY <1>1 DEF Acquire, Retry, Attempt
  <1>2. CASE AttemptFails(r) \/ ToolCalls(r) \/ Answer(r)
    BY <1>2 DEF AttemptFails, ToolCalls, Answer
  <1>3. CASE CallFails(r) \/ BackoffCancelled(r) \/ RateFails(r) \/ SlotCancelled(r)
    BY <1>3 DEF CallFails, BackoffCancelled, RateFails, SlotCancelled
  <1>4. CASE Accept(r) \/ AcceptRepaired(r) \/ RepairFails(r) \/ InvalidJSON(r)
    BY <1>4 DEF Accept, AcceptRepaired, RepairFails, InvalidJSON
  <1>5. CASE Reject(r) \/ Begin(r) \/ RateToken(r)
    BY <1>5 DEF Reject, Begin, RateToken
  <1>6. CASE NextRound(r) \/ RoundsExceeded(r) \/ RepairSchema(r)
    BY <1>6 DEF NextRound, RoundsExceeded, RepairSchema
  <1> QED BY <1>1, <1>2, <1>3, <1>4, <1>5, <1>6, Zenon DEF Step

\* The other actions leave the runs' counters and slots alone.
LEMMA OtherSteps ==
  ASSUME AgentInv, \/ \E r \in Runs : Cancel(r)
                   \/ \E b \in Buckets : Refill(b)
                   \/ UNCHANGED vars
  PROVE  AgentInv'
  <1> USE AgentAssumption DEF AgentInv, TypeOK, SlotsHeld, SemBound, TurnsCounted, RequestsCounted,
                              LateLast, limits, counters
  <1>1. ASSUME NEW r \in Runs, Cancel(r) PROVE AgentInv'
    BY <1>1 DEF Cancel
  <1>2. ASSUME NEW b \in Buckets, Refill(b) PROVE AgentInv'
    BY <1>2, SMTT(30) DEF Refill
  <1>3. CASE UNCHANGED vars
    BY <1>3 DEF vars
  <1> QED BY <1>1, <1>2, <1>3, Zenon

\* AgentInv holds in every reachable state.
THEOREM AgentInvariant == Spec => []AgentInv
  <1>1. AgentInv /\ [Next]_vars => AgentInv'
    <2> SUFFICES ASSUME AgentInv, [Next]_vars PROVE AgentInv'
      BY Zenon
    <2>1. ASSUME NEW r \in Runs, Step(r) PROVE AgentInv'
      BY <2>1, TypeStep, SlotsStep, TurnsStep, RequestsStep, LateStep, Zenon DEF AgentInv
    <2> QED BY <2>1, OtherSteps, Zenon DEF Next
  <1> QED BY InitInv, <1>1, PTL DEF Spec

\* Slots are held exactly while a request is made or about to be repeated:
\* no path through Complete, its errors and cancellations included, keeps
\* a slot or returns one twice.
THEOREM SlotsAreHeld == Spec => []SlotsHeld
  <1>1. AgentInv => SlotsHeld
    BY Zenon DEF AgentInv
  <1> QED BY AgentInvariant, <1>1, PTL

\* The requests of a key on whose limit its blueprints agree are that many at
\* most: they all hold slots of one semaphore.
LEMMA KeyBound ==
  ASSUME AgentInv, NEW e, NEW n \in Sizes, Agreed(e, n)
  PROVE  LET S == {r \in Runs : EndpointKey(r) = e /\ pc[r] = "http"}
         IN  IsFiniteSet(S) /\ Cardinality(S) <= n /\ n \in Nat
  <1> DEFINE S == {r \in Runs : EndpointKey(r) = e /\ pc[r] = "http"}
             k == <<e, n>>
  <1>1. n \in Nat
    BY ConcurrencyType DEF Sizes
  <1>2. \A r \in S : SemKey(r) = k /\ k \in SemKeys
    BY Zenon DEF SemKey, SemKeys, Agreed
  <1>3. CASE S = {}
    <2>1. IsFiniteSet(S) /\ Cardinality(S) = 0
      BY <1>3, FS_EmptySet, Zenon
    <2> QED BY <1>1, <2>1
  <1>4. CASE S # {}
    <2>1. k \in SemKeys
      BY <1>2, <1>4, Zenon
    <2>2. S \subseteq sem[k]
      BY <1>2, Zenon DEF AgentInv, SlotsHeld
    <2>3. IsFiniteSet(sem[k])
      BY <2>1, AgentAssumption, FS_Subset, Zenon DEF AgentInv, TypeOK
    <2>4. /\ IsFiniteSet(S) /\ Cardinality(S) <= Cardinality(sem[k])
          /\ Cardinality(S) \in Nat /\ Cardinality(sem[k]) \in Nat
      BY <2>2, <2>3, FS_Subset, FS_CardinalityType, Zenon
    <2>5. Cardinality(sem[k]) <= k[2]
      BY <2>1, Zenon DEF AgentInv, SemBound
    <2> QED BY <1>1, <2>4, <2>5
  <1> QED BY <1>3, <1>4, Zenon

\* A backend sees at most what its two keys allow, where the blueprints of each
\* agree: the requests that name it, and those that get it by default.
THEOREM BackendsBounded == Spec => []BackendBound
  <1>1. AgentInv => BackendBound
    <2> SUFFICES ASSUME AgentInv, NEW h \in Hosts, NEW m \in Sizes, NEW n \in Sizes,
                        Agreed(h, m), Agreed("default", n)
                 PROVE  Cardinality(InFlight(h))
                            <= m + IF HostPort[DefaultURL] = h THEN n ELSE 0
      BY Zenon DEF BackendBound
    <2> DEFINE Named == {r \in Runs : EndpointKey(r) = h /\ pc[r] = "http"}
               Blank == {r \in Runs : EndpointKey(r) = "default" /\ pc[r] = "http"}
    <2>1. IsFiniteSet(Named) /\ Cardinality(Named) <= m /\ m \in Nat
      BY KeyBound, Zenon
    <2>2. IsFiniteSet(Blank) /\ Cardinality(Blank) <= n /\ n \in Nat
      BY KeyBound, Zenon
    <2>3. Cardinality(Named) \in Nat /\ Cardinality(Blank) \in Nat
      BY <2>1, <2>2, FS_CardinalityType, Zenon
    <2>4. CASE HostPort[DefaultURL] = h
      <3>1. InFlight(h) \subseteq Named \cup Blank
        BY Zenon DEF InFlight, Backend, EndpointKey
      <3>2. /\ IsFiniteSet(Named \cup Blank)
            /\ Cardinality(Named \cup Blank)
                   = Cardinality(Named) + Cardinality(Blank) - Cardinality(Named \cap Blank)
        BY <2>1, <2>2, FS_Union, Zenon
      <3>3. /\ Cardinality(InFlight(h)) <= Cardinality(Named \cup Blank)
            /\ Cardinality(InFlight(h)) \in Nat /\ Cardinality(Named \cup Blank) \in Nat
        BY <3>1, <3>2, FS_Subset, FS_CardinalityType, Zenon
      <3>4. Cardinality(Named \cap Blank) \in Nat
        BY <2>1, FS_Intersection, FS_CardinalityType, Zenon
      <3> QED BY <2>1, <2>2, <2>3, <2>4, <3>2, <3>3, <3>4
    <2>5. CASE HostPort[DefaultURL] # h
      <3>1. InFlight(h) \subseteq Named
        BY <2>5, Zenon DEF InFlight, Backend, EndpointKey
      <3>2. /\ Cardinality(InFlight(h)) <= Cardinality(Named)
            /\ Cardinality(InFlight(h)) \in Nat
        BY <2>1, <3>1, FS_Subset, FS_CardinalityType, Zenon
      <3> QED BY <2>1, <2>3, <2>5, <3>2
    <2> QED BY <2>4, <2>5, Zenon
  <1> QED BY AgentInvariant, <1>1, PTL

\* A run makes at most MaxAttempts requests in each of its turns, and has at
\* most the rounds of the tool loop and one repair.
THEOREM RequestsBounded == Spec => []CallsBounded
  <1>1. AgentInv => CallsBounded
    <2> SUFFICES ASSUME AgentInv, NEW r \in Runs
                 PROVE  sent[r] <= MaxAttempts * MaxTurns(r)
      BY Zenon DEF CallsBounded
    <2>1. /\ sent[r] \in Nat /\ turns[r] \in Nat /\ round[r] \in Nat
          /\ attempt[r] \in Nat /\ attempt[r] <= MaxAttempts
          /\ MaxAttempts \in Nat /\ maxToolRounds \in Nat \ {0}
      BY AgentAssumption DEF AgentInv, TypeOK
    <2>2. MaxTurns(r) \in Nat /\ turns[r] <= MaxTurns(r)
      BY <2>1, AgentAssumption DEF AgentInv, TurnsCounted, MaxTurns
    <2>3. sent[r] <= MaxAttempts * turns[r]
      <3>1. CASE pc[r] \in {"http", "backoff"}
        <4>1. sent[r] <= MaxAttempts * (turns[r] - 1) + attempt[r]
          BY <3>1, Zenon DEF AgentInv, RequestsCounted
        <4>2. MaxAttempts * (turns[r] - 1) + MaxAttempts = MaxAttempts * turns[r]
          BY <2>1
        <4> QED BY <2>1, <4>1, <4>2
      <3>2. CASE pc[r] \notin {"http", "backoff"}
        BY <3>2, Zenon DEF AgentInv, RequestsCounted
      <3> QED BY <3>1, <3>2, Zenon
    <2>4. MaxAttempts * turns[r] <= MaxAttempts * MaxTurns(r)
      <3> HIDE DEF MaxTurns
      <3> DEFINE a == MaxAttempts  t == turns[r]  m == MaxTurns(r)
      <3>1. a \in Nat /\ t \in Nat /\ m \in Nat /\ t <= m
        BY <2>1, <2>2, Zenon
      <3> HIDE DEF a, t, m
      <3>2. a * (m - t) \in Nat
        BY <3>1
      <3>3. a * m = a * t + a * (m - t) /\ a * t \in Nat
        BY <3>1
      <3>4. a * t <= a * m
        BY <3>2, <3>3
      <3> QED BY <3>4, Zenon DEF a, t, m
    <2>5. MaxAttempts * turns[r] \in Nat /\ MaxAttempts * MaxTurns(r) \in Nat
      BY <2>1, <2>2
    <2> QED BY <2>1, <2>3, <2>4, <2>5
  <1> QED BY AgentInvariant, <1>1, PTL
-----------------------------------------------------------------------------
\* Every variable of a run keeps its type, and no turn makes more attempts than
\* the retry decorator allows.
COROLLARY TypeCorrect == Spec => []TypeOK
  <1>1. AgentInv => TypeOK
    BY Zenon DEF AgentInv
  <1> QED BY <1>1, AgentInvariant, PTL

\* A run whose context is done begins at most one more request, and does not
\* succeed through it.
THEOREM CancelledRunsStop == Spec => []CancelStops
  <1>1. AgentInv => CancelStops
    BY Zenon DEF AgentInv, LateLast, CancelStops
  <1> QED BY <1>1, AgentInvariant, PTL
=============================================================================
