-------------------------- MODULE RedisStoreProofs --------------------------
(***************************************************************************)
(* Proofs about RedisStore, for any number of callers, connections, jobs   *)
(* and faults: the replies of the pooled connections never get mixed up,   *)
(* the index agrees with the hashes, and the store implements JobStore.    *)
(***************************************************************************)
EXTENDS RedisStoreSteps, RedisStoreAbstract, FiniteSetTheorems

LEMMA ZRangeLists ==
  ASSUME StoreInv, NEW s \in Status, NEW q \in ZRange(index[s])
  PROVE  q \in Seq({j \in Jobs : Created(j)})
  <1> DEFINE J == {i \in Jobs : hash[i].status = s}
             z == {<<hash[j].seq, j>> : j \in J}
             f == [j \in J |-> <<hash[j].seq, j>>]
  <1>1. index[s] = z
    BY Zenon DEF StoreInv, IndexAgrees
  <1>2. IsFiniteSet(J)
    BY RedisAssumption, FS_Subset, Zenon
  <1>3. f \in Surjection(J, z)
    BY Zenon DEF Surjection
  <1>4. IsFiniteSet(z)
    <2> HIDE DEF J, z, f
    <2> QED BY <1>2, <1>3, FS_Surjection, Zenon
  <1>5. Cardinality(z) \in Nat
    <2> HIDE DEF z
    <2> QED BY <1>4, FS_CardinalityType, Zenon
  <1>6. q \in [1..Cardinality(z) -> {e[2] : e \in z}]
    BY <1>1, Zenon DEF ZRange
  <1>7. s # "blank"
    BY RedisAssumption, Zenon
  <1>8. {e[2] : e \in z} \subseteq {j \in Jobs : Created(j)}
    BY <1>7 DEF Created
  <1> HIDE DEF z
  <1> QED BY <1>5, <1>6, <1>8

LEMMA ZrangeStep ==
  ASSUME StoreInv, NEW k \in Conns, ExecZrange(k)
  PROVE  StoreInv'
  <1> DEFINE b == Head(req[k])
  <1>0. PICK c : c = b.by
    BY Zenon
  <1>1. Next1(k, "ZRANGE") /\ UNCHANGED <<redis, caller>>
    BY Zenon DEF ExecZrange
  <1>2. PICK q \in ZRange(index[b.status]) :
            Answer(k, <<[kind |-> "*", ids |-> q]>>) /\ Effective(c, Ids(q))
    BY <1>0, Zenon DEF ExecZrange
  <1> DEFINE r == [kind |-> "*", ids |-> q]
  <1>3. r.kind = "*" /\ r.ids = q /\ Answer(k, <<r>>)
    BY <1>2, Zenon
  <1> HIDE DEF r
  <1>4. c \in Callers
    BY <1>0, <1>1, Owner, Zenon DEF Next1, StoreInv
  <1>5. /\ DOMAIN ans' = Callers /\ ans'[c] = Ids(q)
        /\ \A d \in Callers \ {c} : ans'[d] = ans[d]
    BY <1>2, <1>4, AnswersDomain, Zenon DEF StoreInv
  <1>6. /\ Aligned' /\ ClientTypes' /\ c \in Callers /\ call[c] # NoCall
        /\ Batch(c).op = "ZRANGE" /\ b = Batch(c)
        /\ \A d \in Callers \ {c} : Same(d)
        /\ ~Heard(c) /\ Heard(c)' /\ Decisive(c)' = r
        /\ UNCHANGED <<call, stage, mem, start, out>>
    <2>1. r.kind # "-" /\ "ZRANGE" # "TX"
      BY <1>3
    <2>2. Single(k, "ZRANGE", r, c)
      BY <1>0, <1>1, <1>3, <1>5, <2>1, Zenon DEF Single
    <2> QED BY <2>2, SingleEffect, Zenon
  <1>7. stage[c] = "ids" /\ b.status = call[c].status
    BY <1>6, BatchFacts DEF StoreInv
  <1>8. call[c].op = "list" /\ call[c].status \in Status
    BY <1>6, <1>7, StageFacts, Zenon DEF StoreInv
  <1>9. q \in Seq({j \in Jobs : Created(j)})
    BY <1>2, <1>7, <1>8, ZRangeLists, Zenon
  <1>10. {j \in Jobs : Created(j)}' = {j \in Jobs : Created(j)}
    BY <1>1, CreatedFrame, Zenon DEF redis
  <1>11. AnswerHeld(c)'
    BY <1>3, <1>5, <1>6, <1>7, <1>9, <1>10, Zenon DEF AnswerHeld, Ids
  <1> QED BY <1>1, <1>5, <1>6, <1>7, <1>8, <1>11, ReadStep, ZenonT(60)

LEMMA ExecuteStep ==
  ASSUME StoreInv, NEW k \in Conns, Execute(k)
  PROVE  StoreInv'
  <1>1. CASE ExecTx(k)
    <2>1. PICK c : c = Head(req[k]).by
      BY Zenon
    <2>2. call[c].op \in {"create", "set"}
      BY <1>1, <2>1, TxEffect, Zenon
    <2> QED BY <1>1, <2>1, <2>2, CreateTxStep, SetTxStep, Zenon
  <1> QED BY <1>1, IncrStep, HsetnxStep, HmgetStep, HgetallStep, ZrangeStep,
             RpushStep, LrangeStep, Zenon DEF Execute

LEMMA StoreStep ==
  ASSUME StoreInv, [Next]_vars
  PROVE  StoreInv'
  BY InvokeStep, SendStep, ProceedStep, FailsStep, ExecuteStep, RefuseStep, BreakStep,
     CrashStep, StutterStep, Zenon DEF Next

\* The invariant of the Redis store, from which the properties below follow.
THEOREM StoreInvariant == Spec => []StoreInv
  BY StoreInit, StoreStep, PTL DEF Spec

\* A caller reads its own replies, on whatever connection it gets from the pool.
THEOREM RepliesAligned == Spec => []Aligned
  BY StoreInvariant, PTL DEF StoreInv

\* The index sets agree with the hashes between any two commands of any calls.
THEOREM IndexesAgree == Spec => []IndexAgrees
  BY StoreInvariant, PTL DEF StoreInv

\* No two jobs have the same rank.
THEOREM RanksAreDistinct == Spec => []RanksDistinct
  BY StoreInvariant, PTL DEF StoreInv
-----------------------------------------------------------------------------
(***************************************************************************)
(* The bound on the pool.  A connection is in use because a caller holds   *)
(* it, and one is dialed when none is idle: then every open connection is  *)
(* held, by a caller other than the one that dials.                        *)
(***************************************************************************)
Open == {k \in Conns : at[k] # "closed"}

UsedHeld == \A k \in Conns : at[k] = "used" => \E c \in Callers : using[c] = k

LEMMA PoolFinite ==
  /\ IsFiniteSet(Open) /\ Cardinality(Open) \in Nat
  /\ IsFiniteSet(Callers) /\ Cardinality(Callers) \in Nat
  <1>1. Open \subseteq Conns
    BY Zenon DEF Open
  <1>2. IsFiniteSet(Open)
    BY <1>1, FiniteClient, FS_Subset, Zenon
  <1> QED BY <1>2, FiniteClient, FS_CardinalityType, Zenon

\* Fewer connections are open than there are callers when one is dialed.
LEMMA DialRoom ==
  ASSUME TypeOK, UsedHeld, Idle = {}, NEW c \in Callers, using[c] = NoConn
  PROVE  Cardinality(Open) + 1 <= Cardinality(Callers)
  <1> DEFINE H == {d \in Callers : using[d] \in Open}
             f == [d \in H |-> using[d]]
  <1>1. f \in Surjection(H, Open)
    <2>1. \A k \in Open : at[k] = "used" /\ k \in Conns
      BY Zenon DEF Open, Idle, TypeOK
    <2>2. \A k \in Open : \E d \in H : using[d] = k
      BY <2>1, Zenon DEF UsedHeld
    <2> QED BY <2>2, Zenon DEF Surjection
  <1>2. H \subseteq Callers \ {c}
    BY ClientAssumption, Zenon DEF Open
  <1> HIDE DEF H, f
  <1>3. IsFiniteSet(Callers \ {c}) /\ Cardinality(Callers \ {c}) = Cardinality(Callers) - 1
    BY FiniteClient, FS_RemoveElement, Zenon
  <1>4. IsFiniteSet(H) /\ Cardinality(H) <= Cardinality(Callers \ {c})
    BY <1>2, <1>3, FS_Subset, Zenon
  <1>5. Cardinality(Open) <= Cardinality(H)
    BY <1>1, <1>4, FS_Surjection, Zenon
  <1>6. Cardinality(H) \in Nat
    BY <1>4, FS_CardinalityType, Zenon
  <1> QED BY <1>3, <1>4, <1>5, <1>6, PoolFinite

LEMMA FewerOpen ==
  ASSUME Open' \subseteq Open, PoolBounded
  PROVE  PoolBounded'
  <1>1. Cardinality(Open') <= Cardinality(Open)
    BY PoolFinite, FS_Subset, Zenon
  <1>2. Cardinality(Open') \in Nat
    BY PoolFinite, FS_Subset, FS_CardinalityType, Zenon
  <1> QED BY <1>1, <1>2, PoolFinite DEF PoolBounded, Open

LEMMA SendPool ==
  ASSUME StoreInv, UsedHeld, PoolBounded, NEW c \in Callers, NEW k \in Conns,
         NEW b, NEW n, Send(c, k, b, n)
  PROVE  UsedHeld' /\ PoolBounded'
  <1> USE DEF StoreInv
  <1>1. /\ at' = [at EXCEPT ![k] = "used"] /\ using' = [using EXCEPT ![c] = k]
        /\ using[c] = NoConn
        /\ at[k] = "idle" \/ Idle = {}
    BY Zenon DEF Send, Get
  <1>2. UsedHeld'
    <2>1. using'[c] = k /\ \A d \in Callers \ {c} : using'[d] = using[d]
      BY <1>1, Zenon DEF TypeOK
    <2>2. \A i \in Conns \ {k} : at'[i] = at[i]
      BY <1>1, Zenon DEF TypeOK
    <2>3. NoConn # k /\ \A i \in Conns : i # NoConn
      BY ClientAssumption, Zenon
    <2> QED BY <1>1, <2>1, <2>2, <2>3 DEF UsedHeld
  <1>3. (at[k] = "idle" => Open' \subseteq Open) /\ Open' = Open \cup {k}
    <2>1. at'[k] = "used" /\ \A i \in Conns \ {k} : at'[i] = at[i]
      BY <1>1, Zenon DEF TypeOK
    <2> QED BY <2>1, Zenon DEF Open
  <1>4. CASE at[k] = "idle"
    BY <1>2, <1>3, <1>4, FewerOpen, Zenon
  <1>5. CASE Idle = {}
    <2>1. Cardinality(Open) + 1 <= Cardinality(Callers)
      BY <1>1, <1>5, DialRoom, Zenon
    <2>2. Cardinality(Open') <= Cardinality(Open) + 1 /\ Cardinality(Open') \in Nat
      <3>1. /\ IsFiniteSet(Open \cup {k})
            /\ Cardinality(Open \cup {k}) = IF k \in Open THEN Cardinality(Open) ELSE Cardinality(Open) + 1
        BY PoolFinite, FS_AddElement, Zenon
      <3> QED BY <1>3, <3>1, PoolFinite
    <2> QED BY <1>2, <2>1, <2>2, PoolFinite DEF PoolBounded, Open
  <1> QED BY <1>1, <1>4, <1>5, Zenon

\* A caller gives up its connection, which goes to the pool or is closed.
LEMMA ReleasePool ==
  ASSUME StoreInv, UsedHeld, PoolBounded, NEW c \in Callers, Receive(c) \/ ReadFails(c)
  PROVE  UsedHeld' /\ PoolBounded'
  <1> USE DEF StoreInv
  <1>1. PICK k : k = using[c]
    BY Zenon
  <1>2. k \in Conns /\ using' = [using EXCEPT ![c] = NoConn]
    BY <1>1, Zenon DEF Receive, Replied, ReadFails, Release, TypeOK
  <1>3. \/ at' = [at EXCEPT ![k] = "idle"]
        \/ at' = [at EXCEPT ![k] = "closed"]
    BY <1>1, Zenon DEF Receive, ReadFails, Put, Discard
  <1>4. at[k] = "used"
    BY <1>1, <1>2, ClientAssumption, Zenon DEF Aligned
  <1>5. UsedHeld'
    <2>1. at'[k] # "used" /\ \A i \in Conns \ {k} : at'[i] = at[i]
      BY <1>2, <1>3, Zenon DEF TypeOK
    <2>2. \A d \in Callers \ {c} : using'[d] = using[d]
      BY <1>2, Zenon DEF TypeOK
    <2>3. ASSUME NEW i \in Conns, at'[i] = "used"
          PROVE  \E d \in Callers : using'[d] = i
      <3>1. i # k /\ at[i] = "used"
        BY <2>1, <2>3, Zenon
      <3>2. PICK d \in Callers : using[d] = i
        BY <3>1, Zenon DEF UsedHeld
      <3>3. d # c
        BY <1>1, <3>1, <3>2, Zenon
      <3> QED BY <2>2, <3>2, <3>3, Zenon
    <2> QED BY <2>3, Zenon DEF UsedHeld
  <1>6. Open' \subseteq Open
    BY <1>2, <1>3, <1>4, Zenon DEF TypeOK, Open
  <1> QED BY <1>5, <1>6, FewerOpen, Zenon

LEMMA PoolKept ==
  ASSUME UsedHeld, PoolBounded, UNCHANGED <<at, using>>
  PROVE  UsedHeld' /\ PoolBounded'
  BY Zenon DEF UsedHeld, PoolBounded

LEMMA CrashPool ==
  ASSUME Crash, PoolBounded
  PROVE  UsedHeld' /\ PoolBounded'
  <1>1. \A k \in Conns : at'[k] = "closed"
    BY Zenon DEF Crash, CloseAll
  <1>2. UsedHeld' /\ Open' = {}
    BY <1>1, Zenon DEF UsedHeld, Open
  <1> QED BY <1>2, FewerOpen, Zenon

LEMMA PoolStep ==
  ASSUME StoreInv, UsedHeld, PoolBounded, [Next]_vars
  PROVE  UsedHeld' /\ PoolBounded'
  <1>1. ASSUME NEW c \in Callers, SendBatch(c)
        PROVE  UsedHeld' /\ PoolBounded'
    BY <1>1, SendPool, Zenon DEF SendBatch
  <1>2. ASSUME NEW c \in Callers, Proceed(c)
        PROVE  UsedHeld' /\ PoolBounded'
    <2>1. Receive(c)
      BY <1>2, Zenon DEF Proceed, GotSeq, GotClaim, GotRead, GotExists, GotWrite, GotRow, GotIds,
                  GotListed, GotPush, GotRange, Good
    <2> QED BY <2>1, ReleasePool, Zenon
  <1>3. ASSUME NEW c \in Callers, Fails(c)
        PROVE  UsedHeld' /\ PoolBounded'
    BY <1>3, ReleasePool, PoolKept, Zenon DEF Fails, DialFails, clientVars
  <1>4. ASSUME NEW c \in Callers, NEW x, Invoke(c, x)
        PROVE  UsedHeld' /\ PoolBounded'
    BY <1>4, PoolKept, Zenon DEF Invoke, clientVars
  <1>5. ASSUME NEW k \in Conns, Execute(k) \/ Refuse(k) \/ BreakConn(k)
        PROVE  UsedHeld' /\ PoolBounded'
    <2>1. UNCHANGED <<at, using>>
      BY <1>5, Zenon DEF Execute, ExecIncr, ExecHsetnx, ExecHmget, ExecHgetall, ExecZrange, ExecRpush,
                  ExecLrange, ExecTx, Refuse, Refused, Answer, Reply, BreakConn, Break
    <2> QED BY <2>1, PoolKept, Zenon
  <1>6. CASE UNCHANGED vars
    BY <1>6, PoolKept, Zenon DEF vars
  <1> QED BY <1>1, <1>2, <1>3, <1>4, <1>5, <1>6, CrashPool, Zenon DEF Next

\* There are never more connections than callers, though nothing in client.go
\* counts the dials.
THEOREM PoolIsBounded == Spec => []PoolBounded
  <1>1. Init => UsedHeld /\ PoolBounded
    <2>1. ASSUME Init
          PROVE  Open = {} /\ UsedHeld
      BY <2>1, Zenon DEF Init, ClientInit, Open, UsedHeld
    <2> QED BY <2>1, FS_EmptySet, PoolFinite DEF PoolBounded, Open
  <1> QED BY <1>1, StoreInvariant, PoolStep, PTL DEF Spec
-----------------------------------------------------------------------------
(***************************************************************************)
(* The Redis store implements JobStore.  A step of RedisStore that answers *)
(* an operation is that operation's step of JobStore; INCR moves the       *)
(* clock; the end of an operation is its return; the other commands, and   *)
(* all traffic between them, are stuttering steps.                         *)
(***************************************************************************)
JobBar == [j \in Jobs |-> IF Created(j) THEN hash[j].status ELSE "NONE"]
RankBar == [j \in Jobs |-> hash[j].seq]

\* Append adds a sequence of one.
LEMMA Appended ==
  ASSUME NEW S, NEW q \in Seq(S), NEW e \in S
  PROVE  Append(q, e) = q \o <<e>>
  <1>1. Len(Append(q, e)) = Len(q \o <<e>>)
    OBVIOUS
  <1>2. \A i \in 1..Len(Append(q, e)) : Append(q, e)[i] = (q \o <<e>>)[i]
    OBVIOUS
  <1>3. Append(q, e) \in Seq(S) /\ (q \o <<e>>) \in Seq(S)
    OBVIOUS
  <1> QED BY <1>1, <1>2, <1>3

\* The two modules build calls and answers in the same way.
LEMMA SameTerms ==
  /\ Abstract!NoCall = NoCall /\ Abstract!NoAns = NoAns
  /\ Abstract!Error = Error /\ Abstract!Done = Done
  /\ \A x : Abstract!Row(x) = Row(x) /\ Abstract!Ids(x) = Ids(x) /\ Abstract!Count(x) = Count(x)
  /\ Abstract!Calls = Calls
  /\ \A z : Abstract!OldestFirst(z) = ZRange(z)
  <1>1. \A o, j, s : Abstract!Op(o, j, s) = Op(o, j, s)
    BY Zenon DEF Abstract!Op, Op
  <1>2. Abstract!NoCall = NoCall /\ Abstract!Calls = Calls
    BY DEF Abstract!NoCall, NoCall, Abstract!Calls, Calls, Abstract!Op, Op
  <1>3. Abstract!NoAns = NoAns /\ Abstract!Error = Error /\ Abstract!Done = Done
    BY Zenon DEF Abstract!NoAns, NoAns, Abstract!Error, Error, Abstract!Done, Done
  <1>4. \A x : Abstract!Row(x) = Row(x) /\ Abstract!Ids(x) = Ids(x) /\ Abstract!Count(x) = Count(x)
    BY Zenon DEF Abstract!Row, Row, Abstract!Ids, Ids, Abstract!Count, Count
  <1>5. \A z : Abstract!OldestFirst(z) = ZRange(z)
    <2>1. \A z : Abstract!Cardinality(z) = Cardinality(z)
      BY Zenon DEF Abstract!Cardinality, Cardinality
    <2> QED BY <2>1, Zenon DEF Abstract!OldestFirst, ZRange
  <1> QED BY <1>2, <1>3, <1>4, <1>5, Zenon

LEMMA BarsFrame ==
  ASSUME \A j \in Jobs : hash'[j].status = hash[j].status /\ hash'[j].seq = hash[j].seq
  PROVE  JobBar' = JobBar /\ RankBar' = RankBar
  BY Zenon DEF JobBar, RankBar, Created

LEMMA InitRefines ==
  ASSUME Init
  PROVE  Abstract!Init
  <1>1. \A j \in Jobs : hash[j].status = "blank" /\ hash[j].seq = 0
    BY Zenon DEF Init
  <1>2. JobBar = [j \in Jobs |-> "NONE"] /\ RankBar = [j \in Jobs |-> 0]
    BY <1>1, Zenon DEF JobBar, RankBar, Created
  <1>3. /\ seqno = 0 /\ rows = [j \in Jobs |-> 0] /\ call = [c \in Callers |-> NoCall]
        /\ start = [c \in Callers |-> 0]
        /\ ans = [c \in Callers |-> NoAns] /\ out = [c \in Callers |-> NoAns]
    BY Zenon DEF Init
  <1> QED BY <1>2, <1>3, SameTerms, Zenon DEF Abstract!Init, JobBar, RankBar

\* Nothing JobStore speaks of changes.
LEMMA Stutters ==
  ASSUME \A j \in Jobs : hash'[j].status = hash[j].status /\ hash'[j].seq = hash[j].seq,
         UNCHANGED <<seqno, rows, call, start, ans, out>>
  PROVE  UNCHANGED Abstract!vars
  BY BarsFrame, Zenon DEF Abstract!vars, JobBar, RankBar

\* An operation ends: with an error, or with the answer it has.
LEMMA EndRefines ==
  ASSUME NEW c \in Callers, call[c] # NoCall, UNCHANGED redis, NEW o, Finish(c, o),
         o = Error \/ (ans[c] # NoAns /\ o = ans[c])
  PROVE  Abstract!Next
  <1>1. JobBar' = JobBar /\ RankBar' = RankBar /\ UNCHANGED <<seqno, rows>>
    BY BarsFrame, Zenon DEF redis
  <1>2. UNCHANGED Abstract!storeVars
    BY <1>1, Zenon DEF Abstract!storeVars, JobBar, RankBar
  <1>3. Abstract!Leave(c, o)
    BY SameTerms, Zenon DEF Finish, Abstract!Leave
  <1>4. Abstract!Fail(c) \/ Abstract!Return(c)
    BY <1>2, <1>3, SameTerms, Zenon DEF Abstract!Fail, Abstract!Return
  <1> QED BY <1>4, Zenon DEF Abstract!Next

\* An operation is answered, and changes nothing.
LEMMA AnswerRefines ==
  ASSUME NEW c, NEW o, NEW a, StoreInv, c \in Callers,
         call[c].op = o, ans[c] = NoAns, Effective(c, a), UNCHANGED <<call, start, out>>
  PROVE  Abstract!Answer(c, o, a)
  BY SameTerms, Zenon DEF Effective, Abstract!Answer

LEMMA StoreFrame ==
  ASSUME UNCHANGED redis
  PROVE  UNCHANGED Abstract!storeVars
  BY BarsFrame, Zenon DEF redis, Abstract!storeVars, JobBar, RankBar

LEMMA InvokeRefines ==
  ASSUME NEW c \in Callers, NEW x \in Calls, Invoke(c, x)
  PROVE  Abstract!Next
  <1>1. UNCHANGED Abstract!storeVars
    BY StoreFrame, Zenon DEF Invoke
  <1>2. Abstract!Invoke(c, x)
    BY <1>1, SameTerms, Zenon DEF Invoke, Abstract!Invoke
  <1>3. x \in Abstract!Calls
    BY SameTerms, Zenon
  <1> QED BY <1>2, <1>3, Zenon DEF Abstract!Next

\* What an operation returns is what it was answered.
LEMMA ProceedRefines ==
  ASSUME StoreInv, NEW c \in Callers, Proceed(c)
  PROVE  Abstract!Next \/ UNCHANGED Abstract!vars
  <1>1. ASSUME NEW s, Good(c, s), s # "none", NEW o, Finish(c, o),
               o = Error \/ (ans[c] # NoAns /\ o = ans[c])
        PROVE  Abstract!Next
    <2>1. UNCHANGED redis /\ stage[c] = s
      BY <1>1, Zenon DEF Good
    <2>2. call[c] # NoCall
      BY <1>1, <2>1, StageFacts, Zenon DEF StoreInv
    <2> QED BY <1>1, <2>1, <2>2, EndRefines, Zenon
  <1>2. ASSUME NEW s, Good(c, s), NEW t, NEW m, GoOn(c, t, m)
        PROVE  UNCHANGED Abstract!vars
    <2>1. UNCHANGED <<hash, seqno, rows, call, start, ans, out>>
      BY <1>2, Zenon DEF Good, GoOn, redis
    <2> QED BY <2>1, Stutters, Zenon
  <1>3. ASSUME NEW s, Good(c, s), NEW o, Finish(c, o)
        PROVE  stage[c] = s /\ Heard(c) /\ AnswerHeld(c)
    BY <1>3, GoodEffect, Zenon
  <1>4. \A x : Done # NoAns /\ Row(x) # NoAns /\ Ids(x) # NoAns /\ Count(x) # NoAns
    BY Zenon DEF Done, NoAns, Row, Ids, Count
  <1>5. CASE GotSeq(c)
    BY <1>2, <1>5, Zenon DEF GotSeq
  <1>6. CASE GotClaim(c)
    BY <1>1, <1>2, <1>6, Zenon DEF GotClaim
  <1>7. CASE GotRead(c)
    BY <1>2, <1>7, Zenon DEF GotRead
  <1>8. CASE GotExists(c)
    BY <1>1, <1>2, <1>8, Zenon DEF GotExists
  <1>9. CASE GotWrite(c)
    <2>1. Good(c, "write") /\ Finish(c, Done)
      BY <1>9, Zenon DEF GotWrite
    <2>2. ans[c] = Done
      BY <2>1, <1>3, Zenon DEF AnswerHeld
    <2> QED BY <1>1, <1>4, <2>1, <2>2, Zenon
  <1>10. CASE GotRow(c)
    <2>1. Good(c, "row") /\ Finish(c, Row(Decisive(c).fields))
      BY <1>10, Zenon DEF GotRow
    <2>2. ans[c] = Row(Decisive(c).fields)
      BY <2>1, <1>3, Zenon DEF AnswerHeld
    <2> QED BY <1>1, <1>4, <2>1, <2>2, Zenon
  <1>11. CASE GotIds(c)
    <2>1. Good(c, "ids")
      BY <1>11, Zenon DEF GotIds
    <2>2. CASE Finish(c, Ids(<< >>)) /\ Decisive(c).ids = << >>
      <3>1. ans[c] = Ids(<< >>)
        BY <2>1, <2>2, <1>3, Zenon DEF AnswerHeld
      <3> QED BY <1>1, <1>4, <2>1, <2>2, <3>1, Zenon
    <2>3. CASE \E m : GoOn(c, "rows", m)
      BY <1>2, <2>1, <2>3, Zenon
    <2> QED BY <1>11, <2>2, <2>3, Zenon DEF GotIds
  <1>12. CASE GotListed(c)
    <2>1. Good(c, "rows")
      BY <1>12, Zenon DEF GotListed
    <2>2. CASE \E m : GoOn(c, "rows", m)
      BY <1>2, <2>1, <2>2, Zenon
    <2>3. CASE \E o : Finish(c, o)
      <3>1. /\ stage[c] = "rows" /\ Heard(c) /\ Decisive(c).fields # "NONE"
            /\ mem[c].ids # << >> /\ mem[c].ids \in Seq({j \in Jobs : Created(j)})
            /\ ans[c] = Ids(mem[c].got \o mem[c].ids)
        BY <1>3, <2>1, <2>3, ZenonT(60) DEF AnswerHeld
      <3>2. mem[c].ids \in Seq(Jobs) /\ mem[c].got \in Seq(Jobs)
        BY Zenon DEF StoreInv, TypeOK
      <3>3. CASE Len(mem[c].ids) = 1 /\ Finish(c, Ids(Append(mem[c].got, Head(mem[c].ids))))
        <4>1. Append(mem[c].got, Head(mem[c].ids)) = mem[c].got \o mem[c].ids
          <5>1. mem[c].ids = <<Head(mem[c].ids)>> /\ Head(mem[c].ids) \in Jobs
            BY <3>2, <3>3
          <5> QED BY <3>2, <5>1, Appended, Zenon
        <4> QED BY <1>1, <1>4, <2>1, <3>1, <3>3, <4>1, Zenon
      <3> QED BY <1>2, <1>12, <2>1, <3>1, <3>3, Zenon DEF GotListed
    <2> QED BY <1>12, <2>2, <2>3, Zenon DEF GotListed
  <1>13. CASE GotPush(c)
    <2>1. Good(c, "push") /\ Finish(c, Done)
      BY <1>13, Zenon DEF GotPush
    <2>2. ans[c] = Done
      BY <2>1, <1>3, Zenon DEF AnswerHeld
    <2> QED BY <1>1, <1>4, <2>1, <2>2, Zenon
  <1>14. CASE GotRange(c)
    <2>1. Good(c, "range") /\ Finish(c, Count(Decisive(c).items))
      BY <1>14, Zenon DEF GotRange
    <2>2. ans[c] = Count(Decisive(c).items)
      BY <2>1, <1>3, Zenon DEF AnswerHeld
    <2> QED BY <1>1, <1>4, <2>1, <2>2, Zenon
  <1> QED BY <1>5, <1>6, <1>7, <1>8, <1>9, <1>10, <1>11, <1>12, <1>13, <1>14, Zenon DEF Proceed

LEMMA FailsRefines ==
  ASSUME NEW c \in Callers, Fails(c)
  PROVE  Abstract!Next
  BY EndRefines, Zenon DEF Fails

LEMMA CrashRefines ==
  ASSUME Crash
  PROVE  Abstract!Next
  <1>1. UNCHANGED Abstract!storeVars
    BY StoreFrame, Zenon DEF Crash
  <1>2. Abstract!Stop
    BY <1>1, SameTerms, Zenon DEF Crash, Abstract!Stop
  <1> QED BY <1>2, Zenon DEF Abstract!Next
-----------------------------------------------------------------------------
(***************************************************************************)
(* The commands.                                                           *)
(***************************************************************************)
LEMMA IncrRefines ==
  ASSUME NEW k \in Conns, ExecIncr(k)
  PROVE  Abstract!Next
  <1>1. /\ seqno' = seqno + 1
        /\ UNCHANGED <<hash, rows, call, start, ans, out>>
    BY Zenon DEF ExecIncr, caller
  <1>2. JobBar' = JobBar /\ RankBar' = RankBar
    BY <1>1, BarsFrame, Zenon
  <1>3. Abstract!Tick
    BY <1>1, <1>2, Zenon DEF Abstract!Tick, Abstract!callVars, JobBar, RankBar
  <1> QED BY <1>3, Zenon DEF Abstract!Next

LEMMA HsetnxRefines ==
  ASSUME StoreInv, NEW k \in Conns, ExecHsetnx(k)
  PROVE  UNCHANGED Abstract!vars
  <1>1. /\ hash' = [hash EXCEPT ![Head(req[k]).job] =
                        [claimed |-> TRUE, status |-> @.status, seq |-> @.seq]]
        /\ UNCHANGED <<seqno, rows, call, start, ans, out>>
    BY Zenon DEF ExecHsetnx, caller
  <1>2. \A j \in Jobs : hash'[j].status = hash[j].status /\ hash'[j].seq = hash[j].seq
    BY <1>1, Zenon DEF StoreInv, TypeOK
  <1> QED BY <1>1, <1>2, Stutters, Zenon

\* The operation whose command is the next of connection k.
LEMMA Answering ==
  ASSUME StoreInv, NEW k \in Conns, req[k] # << >>, NEW c, c = Head(req[k]).by
  PROVE  /\ c \in Callers /\ call[c] # NoCall /\ Head(req[k]) = Batch(c) /\ ~Heard(c)
         /\ stage[c] # "rows" => ans[c] = NoAns
  <1>1. c \in Callers /\ using[c] = k /\ call[c] # NoCall /\ Head(req[k]) = Batch(c) /\ rep[k] = << >>
    BY Owner, Zenon DEF StoreInv
  <1>2. ~Heard(c)
    BY <1>1, Zenon DEF Heard
  <1> QED BY <1>1, <1>2, Unanswered, Zenon

LEMMA HgetallRefines ==
  ASSUME StoreInv, NEW k \in Conns, ExecHgetall(k)
  PROVE  Abstract!Next \/ UNCHANGED Abstract!vars
  <1>0. PICK c : c = Head(req[k]).by
    BY Zenon
  <1>1. /\ UNCHANGED redis /\ UNCHANGED <<call, start, out>>
        /\ call[c].op = "get" => Effective(c, Row(Fields(Head(req[k]).job)))
        /\ call[c].op # "get" => UNCHANGED ans
        /\ req[k] # << >> /\ Head(req[k]).op = "HGETALL"
    BY <1>0, Zenon DEF ExecHgetall, caller, Next1
  <1>2. c \in Callers /\ call[c] # NoCall /\ Head(req[k]) = Batch(c)
    BY <1>0, <1>1, Answering, Zenon
  <1>3. CASE call[c].op # "get"
    <2>1. UNCHANGED <<hash, seqno, rows, call, start, ans, out>>
      BY <1>1, <1>3, Zenon DEF redis
    <2> QED BY <2>1, Stutters, Zenon
  <1>4. CASE call[c].op = "get"
    <2>1. stage[c] = "row" /\ call[c].job \in Jobs
      BY <1>2, <1>4, StageFacts, ZenonT(60) DEF StoreInv
    <2>2. Head(req[k]).job = call[c].job /\ ans[c] = NoAns
      <3>1. Head(req[k]).job = call[c].job
        <4>1. TypeOK /\ Head(req[k]).job = Batch(c).job
          BY <1>2, Zenon DEF StoreInv
        <4> QED BY <1>2, <2>1, <4>1, BatchFacts, ZenonT(60)
      <3>2. ans[c] = NoAns
        BY <1>0, <1>1, <2>1, Answering, Zenon
      <3> QED BY <3>1, <3>2, Zenon
    <2>3. Abstract!Answer(c, "get", Row(Fields(call[c].job)))
      BY <1>1, <1>2, <1>4, <2>2, AnswerRefines, Zenon
    <2>4. \/ Fields(call[c].job) = JobBar[call[c].job]
          \/ Fields(call[c].job) = "blank" /\ JobBar[call[c].job] = "NONE"
      BY <2>1, Zenon DEF StoreInv, HashesWhole, Fields, JobBar, Created
    <2>5. Abstract!Get(c)
      BY <1>1, <2>1, <2>3, <2>4, StoreFrame, SameTerms, Zenon DEF Abstract!Get, JobBar
    <2> QED BY <1>2, <2>5, Zenon DEF Abstract!Next
  <1> QED BY <1>3, <1>4, Zenon

LEMMA ZrangeRefines ==
  ASSUME StoreInv, NEW k \in Conns, ExecZrange(k)
  PROVE  Abstract!Next
  <1>0. PICK c : c = Head(req[k]).by
    BY Zenon
  <1>1. /\ UNCHANGED redis /\ UNCHANGED <<call, start, out>>
        /\ req[k] # << >> /\ Head(req[k]).op = "ZRANGE"
    BY Zenon DEF ExecZrange, caller, Next1
  <1>2. PICK q \in ZRange(index[Head(req[k]).status]) : Effective(c, Ids(q))
    BY <1>0, Zenon DEF ExecZrange
  <1>3. c \in Callers /\ call[c] # NoCall /\ Head(req[k]) = Batch(c)
    BY <1>0, <1>1, Answering, ZenonT(60)
  <1>4. /\ stage[c] = "ids" /\ call[c].op = "list" /\ call[c].status \in Status
        /\ Head(req[k]).status = call[c].status
    <2>1. stage[c] = "ids" /\ Head(req[k]).status = call[c].status
      <3>1. TypeOK /\ Batch(c).op = "ZRANGE" /\ Head(req[k]).status = Batch(c).status
        BY <1>1, <1>3, Zenon DEF StoreInv
      <3> QED BY <1>3, <3>1, BatchFacts, ZenonT(60)
    <2>2. call[c].op = "list" /\ call[c].status \in Status
      BY <1>3, <2>1, StageFacts, Zenon DEF StoreInv
    <2> QED BY <2>1, <2>2, Zenon
  <1>5. ans[c] = NoAns
    BY <1>0, <1>1, <1>4, Answering, Zenon
  <1>6. Abstract!Answer(c, "list", Ids(q))
    BY <1>1, <1>2, <1>3, <1>4, <1>5, AnswerRefines, Zenon
  <1>7. index[call[c].status] = {<<RankBar[j], j>> : j \in {i \in Jobs : JobBar[i] = call[c].status}}
    <2>1. call[c].status # "blank" /\ call[c].status # "NONE"
      BY <1>4, RedisAssumption, Zenon
    <2>2. {i \in Jobs : JobBar[i] = call[c].status} = {i \in Jobs : hash[i].status = call[c].status}
      BY <2>1, Zenon DEF JobBar, Created
    <2>3. index[call[c].status] =
              {<<hash[j].seq, j>> : j \in {i \in Jobs : hash[i].status = call[c].status}}
      BY <1>4, Zenon DEF StoreInv, IndexAgrees
    <2>4. \A j \in Jobs : RankBar[j] = hash[j].seq
      BY Zenon DEF RankBar
    <2> QED BY <2>2, <2>3, <2>4
  <1>8. Abstract!List(c)
    <2>1. q \in Abstract!OldestFirst(
                    {<<RankBar[j], j>> : j \in {i \in Jobs : JobBar[i] = call[c].status}})
      BY <1>2, <1>4, <1>7, SameTerms, Zenon
    <2> QED BY <1>1, <1>6, <2>1, StoreFrame, SameTerms, Zenon DEF Abstract!List, JobBar, RankBar
  <1> QED BY <1>3, <1>8, Zenon DEF Abstract!Next

LEMMA RpushRefines ==
  ASSUME StoreInv, NEW k \in Conns, ExecRpush(k)
  PROVE  Abstract!Next
  <1>0. PICK c : c = Head(req[k]).by
    BY Zenon
  <1>1. /\ UNCHANGED <<hash, seqno, call, start, out>> /\ Effective(c, Done)
        /\ rows' = [rows EXCEPT ![Head(req[k]).job] = @ + 1]
        /\ req[k] # << >> /\ Head(req[k]).op = "RPUSH"
    BY <1>0, Zenon DEF ExecRpush, caller, Next1
  <1>2. c \in Callers /\ call[c] # NoCall /\ Head(req[k]) = Batch(c)
    BY <1>0, <1>1, Answering, ZenonT(60)
  <1>3. stage[c] = "push" /\ call[c].op = "append" /\ Head(req[k]).job = call[c].job
    <2>1. stage[c] = "push" /\ Head(req[k]).job = call[c].job
      <3>1. TypeOK /\ Batch(c).op = "RPUSH" /\ Head(req[k]).job = Batch(c).job
        BY <1>1, <1>2, Zenon DEF StoreInv
      <3> QED BY <1>2, <3>1, BatchFacts, ZenonT(60)
    <2>2. call[c].op = "append"
      BY <1>2, <2>1, StageFacts, Zenon DEF StoreInv
    <2> QED BY <2>1, <2>2, Zenon
  <1>4. ans[c] = NoAns
    BY <1>0, <1>1, <1>3, Answering, Zenon
  <1>5. Abstract!Answer(c, "append", Done)
    BY <1>1, <1>2, <1>3, <1>4, AnswerRefines, Zenon
  <1>6. JobBar' = JobBar /\ RankBar' = RankBar
    BY <1>1, BarsFrame, Zenon
  <1>7. Abstract!Append1(c)
    BY <1>1, <1>3, <1>5, <1>6, SameTerms, Zenon DEF Abstract!Append1, JobBar, RankBar
  <1> QED BY <1>2, <1>7, Zenon DEF Abstract!Next

LEMMA LrangeRefines ==
  ASSUME StoreInv, NEW k \in Conns, ExecLrange(k)
  PROVE  Abstract!Next
  <1>0. PICK c : c = Head(req[k]).by
    BY Zenon
  <1>1. /\ UNCHANGED redis /\ UNCHANGED <<call, start, out>>
        /\ Effective(c, Count(rows[Head(req[k]).job]))
        /\ req[k] # << >> /\ Head(req[k]).op = "LRANGE"
    BY <1>0, Zenon DEF ExecLrange, caller, Next1
  <1>2. c \in Callers /\ call[c] # NoCall /\ Head(req[k]) = Batch(c)
    BY <1>0, <1>1, Answering, ZenonT(60)
  <1>3. stage[c] = "range" /\ call[c].op = "steps" /\ Head(req[k]).job = call[c].job
    <2>1. stage[c] = "range" /\ Head(req[k]).job = call[c].job
      <3>1. TypeOK /\ Batch(c).op = "LRANGE" /\ Head(req[k]).job = Batch(c).job
        BY <1>1, <1>2, Zenon DEF StoreInv
      <3> QED BY <1>2, <3>1, BatchFacts, ZenonT(60)
    <2>2. call[c].op = "steps"
      BY <1>2, <2>1, StageFacts, Zenon DEF StoreInv
    <2> QED BY <2>1, <2>2, Zenon
  <1>4. ans[c] = NoAns
    BY <1>0, <1>1, <1>3, Answering, Zenon
  <1>5. Abstract!Answer(c, "steps", Count(rows[call[c].job]))
    BY <1>1, <1>2, <1>3, <1>4, AnswerRefines, Zenon
  <1>6. Abstract!Steps(c)
    BY <1>1, <1>5, StoreFrame, SameTerms, Zenon DEF Abstract!Steps
  <1> QED BY <1>2, <1>6, Zenon DEF Abstract!Next

\* CreateJob's transaction: the job was not there, and its rank is new.
LEMMA CreateTxRefines ==
  ASSUME StoreInv, NEW k \in Conns, ExecTx(k), NEW c, c = Head(req[k]).by,
         call[c].op = "create"
  PROVE  Abstract!Next
  <1> USE DEF StoreInv
  <1>1. /\ c \in Callers /\ stage[c] = "write" /\ ~Heard(c)
        /\ UNCHANGED <<call, start, out>> /\ call[c].job \in Jobs
    BY TxEffect, Zenon
  <1>2. PICK j, n : j = call[c].job /\ n = mem[c].seq
    BY Zenon
  <1>3. n \in Nat /\ Ticket(c, n) /\ Claim(c, j) /\ j \in Jobs
    BY <1>1, <1>2, Zenon DEF TypeOK, Ticket, Claim
  <1>4. /\ start[c] < n /\ n <= seqno /\ ~Created(j)
        /\ \A i \in Jobs : Created(i) => hash[i].seq # n
    BY <1>1, <1>3, Zenon DEF TicketsFresh, ClaimsExclusive
  <1>5. n # 0 /\ n \in (start[c] + 1)..seqno
    <2>1. start[c] \in Nat /\ seqno \in Nat
      BY <1>1, Zenon DEF TypeOK
    <2> HIDE DEF StoreInv
    <2> QED BY <1>3, <1>4, <2>1
  <1>6. /\ \A i \in Jobs : hash'[i] =
               IF i = j THEN [claimed |-> hash[i].claimed, status |-> "PENDING", seq |-> n]
                        ELSE hash[i]
        /\ seqno' = seqno /\ rows' = rows
    <2>1. c = Head(req[k]).by /\ ExecTx(k) /\ call[c].op = "create" /\ mem[c].seq # 0
      BY <1>2, <1>5, Zenon
    <2>2. TxCreates(c) /\ seqno' = seqno /\ rows' = rows
      <3> HIDE DEF StoreInv
      <3> QED BY <2>1, TxRedis, Zenon
    <2> QED BY <1>2, <2>2, Zenon DEF TxCreates
  <1>7. hash'[j].status = "PENDING" /\ hash'[j].seq = n /\ \A i \in Jobs \ {j} : hash'[i] = hash[i]
    <2>1. hash'[j] = [claimed |-> hash[j].claimed, status |-> "PENDING", seq |-> n]
      BY <1>3, <1>6, Zenon
    <2>2. hash'[j].status = "PENDING" /\ hash'[j].seq = n
      BY <2>1
    <2>3. \A i \in Jobs \ {j} : hash'[i] = hash[i]
      BY <1>6, Zenon
    <2> QED BY <2>2, <2>3, Zenon
  <1>8. JobBar' = [JobBar EXCEPT ![j] = "PENDING"] /\ RankBar' = [RankBar EXCEPT ![j] = n]
    BY <1>3, <1>7, Zenon DEF JobBar, RankBar, Created
  <1>9. JobBar[j] = "NONE" /\ \A i \in Jobs : JobBar[i] # "NONE" => RankBar[i] # n
    BY <1>3, <1>4, Zenon DEF JobBar, RankBar
  <1>10. ans[c] = NoAns /\ Effective(c, Done)
    BY <1>1, Unanswered, Zenon DEF ExecTx
  <1>11. Abstract!Answer(c, "create", Done)
    BY <1>1, <1>10, AnswerRefines, Zenon
  <1>12. Abstract!Create(c)
    BY <1>2, <1>5, <1>6, <1>8, <1>9, <1>11, SameTerms, Zenon DEF Abstract!Create, JobBar, RankBar
  <1> QED BY <1>1, <1>12, Zenon DEF Abstract!Next

\* SetJobStatus's transaction: the job is there.
LEMMA SetTxRefines ==
  ASSUME StoreInv, NEW k \in Conns, ExecTx(k), NEW c, c = Head(req[k]).by,
         call[c].op = "set"
  PROVE  Abstract!Next
  <1> USE DEF StoreInv
  <1>1. /\ c \in Callers /\ stage[c] = "write" /\ ~Heard(c)
        /\ UNCHANGED <<call, start, out>> /\ call[c].job \in Jobs
    BY TxEffect, Zenon
  <1>2. PICK j : j = call[c].job
    BY Zenon
  <1>3. j \in Jobs /\ Created(j)
    BY <1>1, <1>2, Zenon DEF SetExclusive, ReadHolds, Created
  <1>4. /\ \A i \in Jobs : hash'[i] =
               IF i = j THEN [claimed |-> hash[i].claimed, status |-> call[c].status, seq |-> hash[i].seq]
                        ELSE hash[i]
        /\ seqno' = seqno /\ rows' = rows
    <2>1. TxSets(c) /\ seqno' = seqno /\ rows' = rows
      <3> HIDE DEF StoreInv
      <3> QED BY TxRedis, Zenon
    <2> QED BY <1>2, <2>1, Zenon DEF TxSets
  <1>5. /\ hash'[j].status = call[c].status /\ hash'[j].seq = hash[j].seq
        /\ \A i \in Jobs \ {j} : hash'[i] = hash[i]
    <2>1. hash'[j] = [claimed |-> hash[j].claimed, status |-> call[c].status, seq |-> hash[j].seq]
      BY <1>3, <1>4, ZenonT(60)
    <2>2. hash'[j].status = call[c].status /\ hash'[j].seq = hash[j].seq
      BY <2>1
    <2>3. \A i \in Jobs \ {j} : hash'[i] = hash[i]
      BY <1>4, Zenon
    <2> QED BY <2>2, <2>3, Zenon
  <1>6. call[c].status # "blank" /\ call[c].status \in Status
    <2>1. call[c].status \in Status
      BY <1>1, StageFacts, ZenonT(60)
    <2> QED BY <2>1, RedisAssumption, Zenon
  <1>7. JobBar' = [JobBar EXCEPT ![j] = call[c].status] /\ RankBar' = RankBar
    BY <1>3, <1>5, <1>6, Zenon DEF JobBar, RankBar, Created
  <1>8. JobBar[j] # "NONE"
    <2>1. hash[j].status \in Status
      BY <1>3, Zenon DEF TypeOK, Created
    <2> QED BY <1>3, <2>1, RedisAssumption, Zenon DEF JobBar
  <1>9. ans[c] = NoAns /\ Effective(c, Done)
    BY <1>1, Unanswered, Zenon DEF ExecTx
  <1>10. Abstract!Answer(c, "set", Done)
    BY <1>1, <1>9, AnswerRefines, Zenon
  <1>11. Abstract!Set(c)
    BY <1>2, <1>4, <1>7, <1>8, <1>10, SameTerms, Zenon DEF Abstract!Set, JobBar, RankBar
  <1> QED BY <1>1, <1>11, Zenon DEF Abstract!Next

LEMMA ExecuteRefines ==
  ASSUME StoreInv, NEW k \in Conns, Execute(k)
  PROVE  Abstract!Next \/ UNCHANGED Abstract!vars
  <1>1. CASE ExecTx(k)
    <2>1. PICK c : c = Head(req[k]).by
      BY Zenon
    <2>2. call[c].op \in {"create", "set"}
      BY <1>1, <2>1, TxEffect, Zenon
    <2> QED BY <1>1, <2>1, <2>2, CreateTxRefines, SetTxRefines, Zenon
  <1>2. CASE ExecHmget(k)
    <2>1. UNCHANGED <<hash, seqno, rows, call, start, ans, out>>
      BY <1>2, Zenon DEF ExecHmget, redis, caller
    <2> QED BY <2>1, Stutters, Zenon
  <1> QED BY <1>1, <1>2, IncrRefines, HsetnxRefines, HgetallRefines, ZrangeRefines,
             RpushRefines, LrangeRefines, Zenon DEF Execute

LEMMA StepRefines ==
  ASSUME StoreInv, [Next]_vars
  PROVE  [Abstract!Next]_(Abstract!vars)
  <1>1. ASSUME UNCHANGED <<hash, seqno, rows, call, start, ans, out>>
        PROVE  UNCHANGED Abstract!vars
    BY <1>1, Stutters, Zenon
  <1>2. CASE UNCHANGED vars
    BY <1>1, <1>2, Zenon DEF vars
  <1>3. CASE \E c \in Callers : SendBatch(c)
    BY <1>1, <1>3, Zenon DEF SendBatch, redis, caller
  <1>4. CASE \E k \in Conns : Refuse(k) \/ BreakConn(k)
    BY <1>1, <1>4, Zenon DEF Refuse, BreakConn, redis, caller
  <1> QED BY <1>2, <1>3, <1>4, InvokeRefines, ProceedRefines, FailsRefines, ExecuteRefines,
             CrashRefines, Zenon DEF Next

\* Every behaviour of the Redis store is one of the abstract store: each
\* operation of redis.go, however many commands it takes and however other
\* calls' commands run between them, takes effect at one instant, and returns
\* an error or what was true at that instant.
THEOREM RedisImplementsJobStore == Spec => ImplementsJobStore
  <1>1. Spec => Abstract!Spec
    BY StoreInvariant, InitRefines, StepRefines, PTL DEF Spec, Abstract!Spec
  <1> QED BY <1>1, Zenon DEF ImplementsJobStore
=============================================================================
