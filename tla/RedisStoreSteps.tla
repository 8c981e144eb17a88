-------------------------- MODULE RedisStoreSteps --------------------------
(***************************************************************************)
(* What the steps of a caller, of the environment and of Redis preserve,   *)
(* one lemma per action, for any number of callers, connections, jobs and  *)
(* faults.  The theorems that follow are in RedisStoreProofs.              *)
(***************************************************************************)
EXTENDS RedisStore, TLAPS

\* Which stages an operation goes through, and which command each sends.
LEMMA StageFacts ==
  ASSUME TypeOK, NEW c \in Callers
  PROVE  /\ call[c].op \in {"none", "create", "get", "set", "list", "append", "steps"}
         /\ call[c] = NoCall <=> call[c].op = "none"
         /\ call[c] = NoCall <=> stage[c] = "none"
         /\ call[c].op = "create" <=> stage[c] \in {"seq", "claim"} \/ (stage[c] = "write" /\ call[c].op # "set")
         /\ call[c].op = "get" <=> stage[c] = "row"
         /\ call[c].op = "set" <=> stage[c] \in {"read", "exists"} \/ (stage[c] = "write" /\ call[c].op # "create")
         /\ call[c].op = "list" <=> stage[c] \in {"ids", "rows"}
         /\ call[c].op = "append" <=> stage[c] = "push"
         /\ call[c].op = "steps" <=> stage[c] = "range"
         /\ call[c].op \in {"create", "get", "set", "append", "steps"} => call[c].job \in Jobs
         /\ call[c].op \in {"set", "list"} => call[c].status \in Status
  <1>1. call[c] \in Calls \cup {NoCall} /\ <<call[c].op, stage[c]>> \in Stages
    BY Zenon DEF TypeOK
  <1>2. CASE call[c] = NoCall
    <2>1. call[c].op = "none"
      BY <1>2 DEF NoCall, Op
    <2>2. stage[c] = "none"
      BY <1>1, <2>1, Zenon DEF Stages
    <2> QED BY <1>2, <2>1, <2>2, Zenon
  <1>3. CASE call[c] \in Calls
    <2>1. CASE \E o \in {"create", "get", "append", "steps"}, j \in Jobs : call[c] = Op(o, j, "blank")
      BY <1>1, <2>1 DEF Op, NoCall, Stages
    <2>2. CASE \E j \in Jobs, s \in Status : call[c] = Op("set", j, s)
      BY <1>1, <2>2 DEF Op, NoCall, Stages
    <2>3. CASE \E s \in Status : call[c] = Op("list", NoJob, s)
      BY <1>1, <2>3 DEF Op, NoCall, Stages
    <2> QED BY <1>3, <2>1, <2>2, <2>3 DEF Calls
  <1> QED BY <1>1, <1>2, <1>3, Zenon

LEMMA BatchFacts ==
  ASSUME TypeOK, NEW c \in Callers, call[c] # NoCall
  PROVE  /\ Batch(c).by = c
         /\ Batch(c).op = "INCR" <=> stage[c] = "seq"
         /\ Batch(c).op = "HSETNX" <=> stage[c] = "claim"
         /\ Batch(c).op = "HMGET" <=> stage[c] = "read"
         /\ Batch(c).op = "HGETALL" <=> stage[c] \in {"row", "exists", "rows"}
         /\ Batch(c).op = "ZRANGE" <=> stage[c] = "ids"
         /\ Batch(c).op = "RPUSH" <=> stage[c] = "push"
         /\ Batch(c).op = "LRANGE" <=> stage[c] = "range"
         /\ Batch(c).op = "TX" <=> stage[c] = "write"
         /\ stage[c] \in {"claim", "read", "row", "exists", "push", "range", "write"}
            => Batch(c).job = call[c].job
         /\ stage[c] = "rows" => Batch(c).job = Head(mem[c].ids)
         /\ stage[c] = "ids" => Batch(c).status = call[c].status
         /\ stage[c] = "write" /\ call[c].op = "create" => Batch(c) = CreateTx(c)
         /\ stage[c] = "write" /\ call[c].op = "set" => Batch(c) = SetTx(c)
  <1>1. stage[c] \in {"seq", "claim", "row", "exists", "read", "ids", "rows", "push", "range", "write"}
    BY StageFacts, Zenon
  <1>2. CASE stage[c] = "seq"
    BY <1>2, Zenon DEF Batch, Cmd
  <1>3. CASE stage[c] = "claim"
    BY <1>3, Zenon DEF Batch, Cmd
  <1>4. CASE stage[c] \in {"row", "exists"}
    BY <1>4, Zenon DEF Batch, Cmd
  <1>5. CASE stage[c] = "read"
    BY <1>5, Zenon DEF Batch, Cmd
  <1>6. CASE stage[c] = "ids"
    BY <1>6, Zenon DEF Batch, Cmd
  <1>7. CASE stage[c] = "rows"
    BY <1>7, Zenon DEF Batch, Cmd
  <1>8. CASE stage[c] = "push"
    BY <1>8, Zenon DEF Batch, Cmd
  <1>9. CASE stage[c] = "range"
    BY <1>9, Zenon DEF Batch, Cmd
  <1>10. CASE stage[c] = "write"
    <2>1. CASE call[c].op = "create"
      <3>1. Batch(c) = CreateTx(c)
        BY <1>10, <2>1, Zenon DEF Batch
      <3> QED BY <1>10, <2>1, <3>1 DEF CreateTx, Tx
    <2>2. CASE call[c].op = "set"
      <3>1. Batch(c) = SetTx(c)
        BY <1>10, <2>2, Zenon DEF Batch
      <3> QED BY <1>10, <2>2, <3>1 DEF SetTx, Tx
    <2> QED BY <1>10, <2>1, <2>2, StageFacts, Zenon
  <1> QED BY <1>1, <1>2, <1>3, <1>4, <1>5, <1>6, <1>7, <1>8, <1>9, <1>10, Zenon

LEMMA SizeFacts ==
  ASSUME NEW b
  PROVE  Size(b) \in Nat /\ Size(b) >= 1
  BY DEF Size

\* A command depends on nothing but its own caller's state.
LEMMA BatchFrame ==
  ASSUME NEW c \in Callers,
         call'[c] = call[c], stage'[c] = stage[c], mem'[c] = mem[c]
  PROVE  Batch(c)' = Batch(c)
  <1>1. CreateTx(c)' = CreateTx(c) /\ SetTx(c)' = SetTx(c)
    BY Zenon DEF CreateTx, SetTx, Tx
  <1> QED BY <1>1, Zenon DEF Batch, Cmd

\* The batch at the head of a connection is the current one of its holder.
LEMMA Owner ==
  ASSUME TypeOK, Aligned, NEW k \in Conns, req[k] # << >>,
         NEW c, c = Head(req[k]).by
  PROVE  /\ c \in Callers
         /\ using[c] = k
         /\ call[c] # NoCall
         /\ req[k] = <<Batch(c)>>
         /\ Head(req[k]) = Batch(c)
         /\ rep[k] = << >>
         /\ want[c] = Size(Batch(c))
  <1>1. c \in Callers /\ using[c] = k
    BY Zenon DEF Aligned
  <1>2. using[c] # NoConn
    BY <1>1, ClientAssumption, Zenon
  <1> QED BY <1>1, <1>2 DEF Aligned

-----------------------------------------------------------------------------
(***************************************************************************)
(* Steps of one caller, seen by the others.                                *)
(***************************************************************************)
\* Nothing that caller d holds, has read or may read next has changed.
Same(d) ==
    /\ using'[d] = using[d]
    /\ want'[d] = want[d]
    /\ using[d] # NoConn => rep'[using[d]] = rep[using[d]]
    /\ call'[d] = call[d]
    /\ stage'[d] = stage[d]
    /\ mem'[d] = mem[d]
    /\ start'[d] = start[d]
    /\ ans'[d] = ans[d]

LEMMA SameFacts ==
  ASSUME NEW d \in Callers, Same(d)
  PROVE  /\ Heard(d)' <=> Heard(d)
         /\ Heard(d) => Decisive(d)' = Decisive(d)
         /\ \A n : Ticket(d, n)' <=> Ticket(d, n)
         /\ \A j : Claim(d, j)' <=> Claim(d, j)
         /\ Batch(d)' = Batch(d)
  <1>1. (Heard(d)' <=> Heard(d)) /\ (Heard(d) => Decisive(d)' = Decisive(d))
    BY Zenon DEF Same, Heard, Decisive
  <1>2. Batch(d)' = Batch(d)
    BY BatchFrame, Zenon DEF Same
  <1>3. \A n : Ticket(d, n)' <=> Ticket(d, n)
    BY <1>1, Zenon DEF Same, Ticket
  <1>4. \A j : Claim(d, j)' <=> Claim(d, j)
    BY <1>1, Zenon DEF Same, Claim
  <1> QED BY <1>1, <1>2, <1>3, <1>4, Zenon

\* A step of caller c on connection k leaves the others aligned.
LEMMA AlignedStep ==
  ASSUME TypeOK, Aligned, NEW c \in Callers, NEW k \in Conns,
         \A d \in Callers \ {c} : Same(d) /\ using[d] # k,
         \A i \in Conns \ {k} : /\ at'[i] = at[i] /\ up'[i] = up[i]
                                /\ req'[i] = req[i] /\ rep'[i] = rep[i],
         using[c] \in {k, NoConn}, using'[c] \in {k, NoConn},
         at'[k] # "used" => req'[k] = << >> /\ rep'[k] = << >>,
         req'[k] # << >> => Head(req'[k]).by = c /\ using'[c] = k,
         using'[c] = k =>
            /\ call'[c] # NoCall /\ at'[k] = "used" /\ want'[c] = Size(Batch(c)')
            /\ \/ req'[k] = <<Batch(c)'>> /\ rep'[k] = << >>
               \/ req'[k] = << >> /\ Len(rep'[k]) = want'[c] /\ rep'[k] # << >>
               \/ req'[k] = << >> /\ rep'[k] = << >> /\ ~up'[k]
  PROVE  Aligned'
  <1>1. \A i \in Conns : at'[i] # "used" => req'[i] = << >> /\ rep'[i] = << >>
    BY ZenonT(60) DEF Aligned
  <1>2. ASSUME NEW i \in Conns, req'[i] # << >>
        PROVE  Head(req'[i]).by \in Callers /\ using'[Head(req'[i]).by] = i
    <2>1. CASE i = k
      BY <1>2, <2>1, Zenon
    <2>2. CASE i # k
      <3>1. Head(req[i]).by \in Callers /\ using[Head(req[i]).by] = i /\ req'[i] = req[i]
        BY <1>2, <2>2, Zenon DEF Aligned
      <3>2. Head(req[i]).by # c
        BY <3>1, <2>2, ClientAssumption, ZenonT(60)
      <3> QED BY <3>1, <3>2 DEF Same
    <2> QED BY <2>1, <2>2, Zenon
  <1>3. ASSUME NEW d \in Callers, using'[d] # NoConn
        PROVE  /\ call'[d] # NoCall
               /\ at'[using'[d]] = "used"
               /\ want'[d] = Size(Batch(d)')
               /\ \A e \in Callers : using'[e] = using'[d] => e = d
               /\ \/ req'[using'[d]] = <<Batch(d)'>> /\ rep'[using'[d]] = << >>
                  \/ req'[using'[d]] = << >> /\ Len(rep'[using'[d]]) = want'[d] /\ rep'[using'[d]] # << >>
                  \/ req'[using'[d]] = << >> /\ rep'[using'[d]] = << >> /\ ~up'[using'[d]]
    <2>1. CASE d = c
      <3>1. using'[d] = k
        BY <1>3, <2>1, Zenon
      <3>2. \A e \in Callers : using'[e] = using'[d] => e = d
        BY <2>1, <3>1 DEF Same
      <3> QED BY <2>1, <3>1, <3>2, Zenon
    <2>2. CASE d # c
      <3>1. Same(d) /\ Batch(d)' = Batch(d)
        BY <2>2, SameFacts, Zenon
      <3>2. using'[d] = using[d] /\ using[d] \in Conns \ {k}
        BY <1>3, <2>2, <3>1 DEF Same, TypeOK
      <3>3. \A e \in Callers : using'[e] = using'[d] => e = d
        <4>1. \A e \in Callers \ {c} : using'[e] = using[e]
          BY Zenon DEF Same
        <4>2. using'[c] # using[d]
          BY <3>2, ClientAssumption, Zenon
        <4>3. \A e \in Callers : using[e] = using[d] => e = d
          BY <3>2, ClientAssumption, Zenon DEF Aligned
        <4> QED BY <3>2, <4>1, <4>2, <4>3, Zenon
      <3>4. using[d] # NoConn
        BY <3>2, ClientAssumption, Zenon
      <3> DEFINE i == using[d]
      <3>5. /\ call[d] # NoCall /\ at[i] = "used" /\ want[d] = Size(Batch(d))
            /\ \/ req[i] = <<Batch(d)>> /\ rep[i] = << >>
               \/ req[i] = << >> /\ Len(rep[i]) = want[d] /\ rep[i] # << >>
               \/ req[i] = << >> /\ rep[i] = << >> /\ ~up[i]
        BY <3>4, Zenon DEF Aligned
      <3>6. at'[i] = at[i] /\ up'[i] = up[i] /\ req'[i] = req[i] /\ rep'[i] = rep[i]
        BY <3>2, Zenon
      <3>7. call'[d] = call[d] /\ want'[d] = want[d]
        BY <3>1, Zenon DEF Same
      <3> HIDE DEF i
      <3>8. using'[d] = i
        BY <3>2, Zenon DEF i
      <3> QED BY <3>1, <3>3, <3>5, <3>6, <3>7, <3>8, Zenon
    <2> QED BY <2>1, <2>2, Zenon
  <1>4. NoCall' = NoCall
    BY Zenon DEF NoCall, Op
  <1> QED BY <1>1, <1>2, <1>3, <1>4, Zenon DEF Aligned, Size

LEMMA SendEffect ==
  ASSUME TypeOK, Aligned, NEW c \in Callers, SendBatch(c)
  PROVE  /\ Aligned'
         /\ \A d \in Callers \ {c} : Same(d)
         /\ ~Heard(c) /\ ~Heard(c)'
         /\ UNCHANGED <<call, stage, mem, start, ans, out, hash, index, seqno, rows>>
  <1>1. call[c] # NoCall /\ UNCHANGED <<call, stage, mem, start, ans, out, hash, index, seqno, rows>>
    BY Zenon DEF SendBatch, redis, caller
  <1>2. PICK k \in Conns : Send(c, k, Batch(c), Size(Batch(c)))
    BY Zenon DEF SendBatch
  <1>3. at[k] # "used" /\ using[c] = NoConn
    BY <1>2, Zenon DEF Send, Get
  <1>4. req[k] = << >> /\ rep[k] = << >>
    BY <1>3, Zenon DEF Aligned
  <1>5. \A d \in Callers : using[d] # k
    BY <1>3, ClientAssumption DEF Aligned
  <1>6. /\ at' = [at EXCEPT ![k] = "used"]
        /\ req' = [req EXCEPT ![k] = Append(@, Batch(c))]
        /\ using' = [using EXCEPT ![c] = k]
        /\ want' = [want EXCEPT ![c] = Size(Batch(c))]
        /\ rep' = rep
    BY <1>2, Zenon DEF Send
  <1>7. \A i \in Conns \ {k} : up'[i] = up[i]
    BY <1>2, Zenon DEF Send, Get, TypeOK
  <1>8. Batch(c)' = Batch(c)
    BY <1>1, BatchFrame, Zenon
  <1>9. \A d \in Callers \ {c} : Same(d) /\ using[d] # k
    BY <1>1, <1>5, <1>6, Zenon DEF Same, TypeOK
  <1>10. req'[k] = <<Batch(c)>>
    BY <1>4, <1>6 DEF TypeOK
  <1>11. Head(req'[k]).by = c
    BY <1>1, <1>10, BatchFacts
  <1>12. /\ at'[k] = "used" /\ using'[c] = k /\ want'[c] = Size(Batch(c)) /\ rep'[k] = << >>
         /\ \A i \in Conns \ {k} : at'[i] = at[i] /\ req'[i] = req[i] /\ rep'[i] = rep[i]
    BY <1>4, <1>6, Zenon DEF TypeOK
  <1>13. Aligned'
    BY <1>1, <1>3, <1>7, <1>8, <1>9, <1>10, <1>11, <1>12, AlignedStep
  <1>14. ~Heard(c) /\ ~Heard(c)'
    BY <1>3, <1>12, Zenon DEF Heard
  <1> QED BY <1>1, <1>9, <1>13, <1>14, Zenon

\* A connection in use belongs to one caller.
LEMMA UsedByOne ==
  ASSUME Aligned, NEW c \in Callers, using[c] # NoConn
  PROVE  at[using[c]] = "used" /\ \A d \in Callers : using[d] = using[c] => d = c
  BY Zenon DEF Aligned

\* Redis answers the batch of caller c with the replies rs.
Replies(k, rs, c) ==
    /\ c = Head(req[k]).by
    /\ \E S : rs \in Seq(S)
    /\ Reply(k, rs) /\ Len(rs) = Size(Head(req[k]))
    /\ UNCHANGED <<call, stage, mem, start>>
    /\ \A d \in Callers \ {c} : ans'[d] = ans[d]

LEMMA ReplyEffect ==
  ASSUME TypeOK, Aligned, NEW k \in Conns, NEW rs, NEW c, Replies(k, rs, c)
  PROVE  /\ Aligned'
         /\ c \in Callers /\ using[c] = k /\ call[c] # NoCall
         /\ Head(req[k]) = Batch(c)
         /\ \A d \in Callers \ {c} : Same(d)
         /\ ~Heard(c)
         /\ Decisive(c)' = rs[Size(Batch(c))]
         /\ Heard(c)' <=> rs[Size(Batch(c))].kind # "-"
  <1>0. PICK S : rs \in Seq(S)
    BY Zenon DEF Replies
  <1> /\ c = Head(req[k]).by
      /\ Reply(k, rs) /\ Len(rs) = Size(Head(req[k]))
      /\ UNCHANGED <<call, stage, mem, start>>
      /\ \A d \in Callers \ {c} : ans'[d] = ans[d]
    BY Zenon DEF Replies
  <1>1. req[k] # << >> /\ up[k] /\ UNCHANGED <<at, up, using, want>>
        /\ req' = [req EXCEPT ![k] = Tail(@)]
        /\ rep' = [rep EXCEPT ![k] = @ \o rs]
    BY Zenon DEF Reply
  <1>2. /\ c \in Callers /\ using[c] = k /\ call[c] # NoCall /\ req[k] = <<Batch(c)>>
        /\ Head(req[k]) = Batch(c) /\ rep[k] = << >> /\ want[c] = Size(Batch(c))
    BY <1>1, Owner, Zenon
  <1>3. req'[k] = << >>
    BY <1>1, <1>2 DEF TypeOK
  <1>4. rep'[k] = rs
    <2>1. rep'[k] = << >> \o rs
      BY <1>1, <1>2, Zenon DEF TypeOK
    <2>2. << >> \o rs = rs
      BY <1>0
    <2> QED BY <2>1, <2>2, Zenon
  <1>5. rs # << >> /\ Len(rs) >= 1
    <2>1. Len(rs) \in Nat /\ Len(rs) >= 1
      BY SizeFacts, Zenon
    <2> QED BY <1>0, <2>1
  <1>6. at[k] = "used" /\ \A d \in Callers : using[d] = k => d = c
    <2>1. using[c] # NoConn
      BY <1>2, ClientAssumption, Zenon
    <2>2. at[using[c]] = "used" /\ \A d \in Callers : using[d] = using[c] => d = c
      BY <1>2, <2>1, UsedByOne, Zenon
    <2> QED BY <1>2, <2>2, Zenon
  <1>7. \A d \in Callers \ {c} : Same(d) /\ using[d] # k
    BY <1>1, <1>6 DEF Same, TypeOK
  <1>8. \A i \in Conns \ {k} : at'[i] = at[i] /\ up'[i] = up[i] /\ req'[i] = req[i] /\ rep'[i] = rep[i]
    BY <1>1, Zenon DEF TypeOK
  <1>9. Batch(c)' = Batch(c)
    BY <1>2, BatchFrame, Zenon
  <1>10. /\ at'[k] = "used" /\ using'[c] = k /\ want'[c] = Size(Batch(c)) /\ call'[c] = call[c]
         /\ Len(rep'[k]) = want'[c] /\ rep'[k] # << >>
    BY <1>1, <1>2, <1>4, <1>5, <1>6, Zenon
  <1>11. Aligned'
    <2>1. /\ c \in Callers /\ using[c] \in {k, NoConn} /\ using'[c] \in {k, NoConn}
          /\ call'[c] # NoCall /\ want'[c] = Size(Batch(c)')
      BY <1>2, <1>9, <1>10, Zenon
    <2> QED BY <1>3, <1>7, <1>8, <1>10, <2>1, AlignedStep
  <1>12. ~Heard(c)
    BY <1>2, Zenon DEF Heard
  <1>13. Decisive(c)' = rs[Size(Batch(c))]
    BY <1>4, <1>10, Zenon DEF Decisive
  <1>14. Heard(c)' <=> rs[Size(Batch(c))].kind # "-"
    BY <1>10, <1>13, ClientAssumption, Zenon DEF Heard
  <1> QED BY <1>2, <1>7, <1>11, <1>12, <1>13, <1>14, Zenon

LEMMA NoneLeft ==
  ASSUME NEW s, Len(s) \in Nat
  PROVE  SubSeq(s, Len(s) + 1, Len(s)) = << >>
  OBVIOUS

\* The connection goes back to the pool, or is closed.
LEMMA ReleaseEffect ==
  ASSUME TypeOK, Aligned, NEW c \in Callers, Receive(c) \/ ReadFails(c),
         \A d \in Callers \ {c} : /\ call'[d] = call[d] /\ stage'[d] = stage[d]
                                  /\ mem'[d] = mem[d] /\ start'[d] = start[d]
                                  /\ ans'[d] = ans[d]
  PROVE  /\ Aligned'
         /\ \A d \in Callers \ {c} : Same(d)
         /\ call[c] # NoCall
         /\ Receive(c) /\ Decisive(c).kind # "-" => Heard(c)
         /\ using'[c] = NoConn /\ ~Heard(c)'
  <1> DEFINE k == using[c]
  <1>1. k # NoConn
    BY Zenon DEF Receive, Replied, ReadFails
  <1>2. k \in Conns
    BY <1>1, Zenon DEF TypeOK
  <1>3. /\ call[c] # NoCall /\ at[k] = "used" /\ want[c] = Size(Batch(c))
        /\ \A d \in Callers : using[d] = k => d = c
        /\ \/ req[k] = <<Batch(c)>> /\ rep[k] = << >>
           \/ req[k] = << >> /\ Len(rep[k]) = want[c] /\ rep[k] # << >>
           \/ req[k] = << >> /\ rep[k] = << >> /\ ~up[k]
    BY <1>1, Zenon DEF Aligned
  <1>4. want[c] \in Nat /\ want[c] >= 1
    BY <1>3, SizeFacts, Zenon
  <1>5. using' = [using EXCEPT ![c] = NoConn] /\ want' = [want EXCEPT ![c] = 0]
    BY Zenon DEF Receive, ReadFails, Release
  <1>6. Receive(c) => req[k] = << >> /\ Len(rep[k]) = want[c] /\ rep[k] # << >>
    BY <1>3, <1>4 DEF Receive, Replied
  <1>7. /\ at'[k] # "used" /\ req'[k] = << >> /\ rep'[k] = << >>
        /\ \A i \in Conns \ {k} : at'[i] = at[i] /\ up'[i] = up[i] /\ req'[i] = req[i] /\ rep'[i] = rep[i]
    <2>1. CASE ReadFails(c) \/ (Receive(c) /\ Discard(k))
      BY <1>2, <2>1, Zenon DEF ReadFails, Discard, TypeOK
    <2>2. CASE Receive(c) /\ ~Discard(k)
      <3>1. /\ at' = [at EXCEPT ![k] = "idle"]
            /\ rep' = [rep EXCEPT ![k] = SubSeq(@, want[c] + 1, Len(@))]
            /\ UNCHANGED <<up, req>>
        BY <2>2, Zenon DEF Receive, Put
      <3>2. rep'[k] = SubSeq(rep[k], want[c] + 1, Len(rep[k]))
        BY <1>2, <3>1, Zenon DEF TypeOK
      <3>3. rep'[k] = << >>
        BY <1>4, <1>6, <2>2, <3>2, NoneLeft, Zenon
      <3> QED BY <1>2, <1>6, <2>2, <3>1, <3>3, Zenon DEF TypeOK
    <2> QED BY <2>1, <2>2, Zenon
  <1>8. \A d \in Callers \ {c} : Same(d) /\ using[d] # k
    <2>1. \A d \in Callers \ {c} : using'[d] = using[d] /\ want'[d] = want[d] /\ using[d] # k
      BY <1>3, <1>5, Zenon DEF TypeOK
    <2>2. \A d \in Callers \ {c} : using[d] # NoConn => using[d] \in Conns \ {k}
      BY <2>1, Zenon DEF TypeOK
    <2> HIDE DEF k
    <2> QED BY <1>7, <2>1, <2>2, Zenon DEF Same
  <1>9. using'[c] = NoConn
    BY <1>5, Zenon DEF TypeOK
  <1>10. Aligned'
    <2> HIDE DEF k
    <2>1. using[c] = k /\ NoConn # k
      BY <1>1, Zenon DEF k
    <2> QED BY <1>2, <1>7, <1>8, <1>9, <2>1, AlignedStep
  <1>11. Receive(c) /\ Decisive(c).kind # "-" => Heard(c)
    BY <1>1, <1>6, Zenon DEF Heard
  <1>12. ~Heard(c)'
    BY <1>9, Zenon DEF Heard
  <1> QED BY <1>3, <1>8, <1>9, <1>10, <1>11, <1>12, Zenon

\* A dial that fails touches no connection.
LEMMA DialEffect ==
  ASSUME TypeOK, Aligned, NEW c \in Callers,
         using[c] = NoConn, UNCHANGED clientVars,
         \A d \in Callers \ {c} : /\ call'[d] = call[d] /\ stage'[d] = stage[d]
                                  /\ mem'[d] = mem[d] /\ start'[d] = start[d]
                                  /\ ans'[d] = ans[d]
  PROVE  /\ Aligned'
         /\ \A d \in Callers \ {c} : Same(d)
         /\ ~Heard(c) /\ ~Heard(c)'
         /\ using'[c] = NoConn
  <1>1. UNCHANGED <<at, up, req, rep, using, want, faults>>
    BY Zenon DEF clientVars
  <1>2. \A d \in Callers \ {c} : Same(d)
    BY <1>1, Zenon DEF Same
  <1>3. \A d \in Callers : using[d] # NoConn => call'[d] = call[d] /\ Batch(d)' = Batch(d)
    BY <1>2, SameFacts, Zenon DEF Same
  <1>4. NoCall' = NoCall
    BY Zenon DEF NoCall, Op
  <1>5. Aligned'
    <2>1. \A i \in Conns : at'[i] # "used" => req'[i] = << >> /\ rep'[i] = << >>
      BY <1>1, Zenon DEF Aligned
    <2>2. \A i \in Conns : req'[i] # << >> =>
            Head(req'[i]).by \in Callers /\ using'[Head(req'[i]).by] = i
      BY <1>1, Zenon DEF Aligned
    <2>3. \A d \in Callers : using'[d] # NoConn =>
        /\ call'[d] # NoCall
        /\ at'[using'[d]] = "used"
        /\ want'[d] = Size(Batch(d)')
        /\ \A e \in Callers : using'[e] = using'[d] => e = d
        /\ \/ req'[using'[d]] = <<Batch(d)'>> /\ rep'[using'[d]] = << >>
           \/ req'[using'[d]] = << >> /\ Len(rep'[using'[d]]) = want'[d] /\ rep'[using'[d]] # << >>
           \/ req'[using'[d]] = << >> /\ rep'[using'[d]] = << >> /\ ~up'[using'[d]]
      BY <1>1, <1>3 DEF Aligned
    <2> QED BY <1>4, <2>1, <2>2, <2>3, Zenon DEF Aligned, Size
  <1> QED BY <1>1, <1>2, <1>5, Zenon DEF Heard

LEMMA BreakEffect ==
  ASSUME TypeOK, Aligned, NEW k \in Conns, BreakConn(k)
  PROVE  Aligned' /\ \A d \in Callers : Same(d)
  <1>1. /\ UNCHANGED <<at, rep, using, want, call, stage, mem, start, ans>>
        /\ up' = [up EXCEPT ![k] = FALSE]
        /\ req' = [req EXCEPT ![k] = << >>]
    BY Zenon DEF BreakConn, Break, caller
  <1>2. \A d \in Callers : Same(d)
    BY <1>1, Zenon DEF Same
  <1>3. \A d \in Callers : Batch(d)' = Batch(d)
    BY <1>2, SameFacts, Zenon
  <1>4. NoCall' = NoCall
    BY Zenon DEF NoCall, Op
  <1>5. \A i \in Conns : at'[i] # "used" => req'[i] = << >> /\ rep'[i] = << >>
    BY <1>1, Zenon DEF Aligned, TypeOK
  <1>6. \A i \in Conns : req'[i] # << >> =>
          Head(req'[i]).by \in Callers /\ using'[Head(req'[i]).by] = i
    BY <1>1, Zenon DEF Aligned, TypeOK
  <1>7. ASSUME NEW d \in Callers, using'[d] # NoConn
        PROVE  /\ call'[d] # NoCall
               /\ at'[using'[d]] = "used"
               /\ want'[d] = Size(Batch(d)')
               /\ \A e \in Callers : using'[e] = using'[d] => e = d
               /\ \/ req'[using'[d]] = <<Batch(d)'>> /\ rep'[using'[d]] = << >>
                  \/ req'[using'[d]] = << >> /\ Len(rep'[using'[d]]) = want'[d] /\ rep'[using'[d]] # << >>
                  \/ req'[using'[d]] = << >> /\ rep'[using'[d]] = << >> /\ ~up'[using'[d]]
    <2>1. using[d] \in Conns
      BY <1>1, <1>7, Zenon DEF TypeOK
    <2>2. CASE using[d] = k
      BY <1>1, <1>3, <1>7, <2>1, <2>2, Zenon DEF Aligned, TypeOK
    <2>3. CASE using[d] # k
      <3>1. req'[using[d]] = req[using[d]] /\ up'[using[d]] = up[using[d]]
        BY <1>1, <2>1, <2>3, Zenon DEF TypeOK
      <3> QED BY <1>1, <1>3, <1>7, <3>1, Zenon DEF Aligned
    <2> QED BY <2>2, <2>3, Zenon
  <1>8. Aligned'
    BY <1>4, <1>5, <1>6, <1>7, Zenon DEF Aligned, Size
  <1> QED BY <1>2, <1>8, Zenon
-----------------------------------------------------------------------------
(***************************************************************************)
(* Steps that change nothing in Redis.                                     *)
(***************************************************************************)
LEMMA CreatedFrame ==
  ASSUME hash' = hash
  PROVE  /\ \A j : Created(j)' <=> Created(j)
         /\ {j \in Jobs : Created(j)}' = {j \in Jobs : Created(j)}
  BY Zenon DEF Created

LEMMA ReadFrame ==
  ASSUME NEW d \in Callers, Same(d), hash'[call[d].job] = hash[call[d].job]
  PROVE  ReadHolds(d)' <=> ReadHolds(d)
  <1>1. (Heard(d)' <=> Heard(d)) /\ (Heard(d) => Decisive(d)' = Decisive(d))
    BY SameFacts, Zenon
  <1> QED BY <1>1, Zenon DEF Same, ReadHolds

LEMMA AnswerFrame ==
  ASSUME NEW d \in Callers, Same(d), AnswerHeld(d),
         NEW S, NEW T, S = {j \in Jobs : Created(j)}, T = {j \in Jobs : Created(j)}',
         S \subseteq T
  PROVE  AnswerHeld(d)'
  <1>1. (Heard(d)' <=> Heard(d)) /\ (Heard(d) => Decisive(d)' = Decisive(d))
    BY SameFacts, Zenon
  <1>2. Seq(S) \subseteq Seq(T)
    OBVIOUS
  <1>3. stage[d] = "ids" /\ Heard(d) => Decisive(d).ids \in Seq(S)
    BY Zenon DEF AnswerHeld
  <1>4. stage[d] = "rows" => mem[d].ids \in Seq(S)
    BY Zenon DEF AnswerHeld
  <1>5. stage'[d] = "ids" /\ Heard(d)' => Decisive(d)'.ids \in Seq({j \in Jobs : Created(j)}')
    BY <1>1, <1>2, <1>3, Zenon DEF Same
  <1>6. stage'[d] = "rows" => mem'[d].ids \in Seq({j \in Jobs : Created(j)}')
    BY <1>2, <1>4, Zenon DEF Same
  <1>7. stage'[d] = stage[d] /\ ans'[d] = ans[d] /\ mem'[d] = mem[d]
    BY Zenon DEF Same
  <1> QED BY <1>1, <1>5, <1>6, <1>7, Zenon DEF AnswerHeld, NoAns, Done, Row, Count, Ids

LEMMA LocalTickets ==
  ASSUME TicketsFresh, NEW c \in Callers, \A d \in Callers \ {c} : Same(d),
         hash' = hash, seqno' = seqno, start'[c] <= seqno,
         \A n \in Nat : Ticket(c, n)' => Ticket(c, n) /\ start'[c] = start[c]
  PROVE  TicketsFresh'
  <1>1. \A d \in Callers, n \in Nat : Ticket(d, n)' => Ticket(d, n) /\ start'[d] = start[d]
    BY SameFacts, Zenon DEF Same
  <1>2. \A j \in Jobs : Created(j)' <=> Created(j)
    BY CreatedFrame, Zenon
  <1>3. \A d \in Callers : start'[d] <= seqno'
    BY Zenon DEF Same, TicketsFresh
  <1> QED BY <1>1, <1>2, <1>3, Zenon DEF TicketsFresh

LEMMA LocalClaims ==
  ASSUME ClaimsExclusive, NEW c \in Callers, \A d \in Callers \ {c} : Same(d),
         hash' = hash,
         \A j \in Jobs : Claim(c, j)' => Claim(c, j)
  PROVE  ClaimsExclusive'
  <1>1. \A d \in Callers, j \in Jobs : Claim(d, j)' => Claim(d, j)
    BY SameFacts, Zenon
  <1>2. \A j \in Jobs : Created(j)' <=> Created(j)
    BY CreatedFrame, Zenon
  <1> QED BY <1>1, <1>2, Zenon DEF ClaimsExclusive

LEMMA LocalSets ==
  ASSUME SetExclusive, NEW c \in Callers, \A d \in Callers \ {c} : Same(d),
         hash' = hash,
         call'[c] = call[c] \/ call'[c] = NoCall,
         call'[c].op = "set" => ReadHolds(c)'
  PROVE  SetExclusive'
  <1>1. NoCall.op = "none"
    BY Zenon DEF NoCall, Op
  <1>2. \A d \in Callers : call'[d] = call[d] \/ call'[d].op = "none"
    BY <1>1, Zenon DEF Same
  <1>3. \A d \in Callers : call'[d].op = "set" => ReadHolds(d)'
    <2>1. \A d \in Callers \ {c} : ReadHolds(d)' <=> ReadHolds(d)
      BY ReadFrame, Zenon
    <2> QED BY <2>1, Zenon DEF Same, SetExclusive
  <1>4. \A j : Created(j)' <=> Created(j)
    BY CreatedFrame, Zenon
  <1> QED BY <1>2, <1>3, <1>4, Zenon DEF SetExclusive

LEMMA LocalStep ==
  ASSUME StoreInv, NEW c \in Callers, \A d \in Callers \ {c} : Same(d),
         UNCHANGED <<hash, index, seqno, rows>>, TypeOK', Aligned',
         start'[c] <= seqno,
         \A n \in Nat : Ticket(c, n)' => Ticket(c, n) /\ start'[c] = start[c],
         \A j \in Jobs : Claim(c, j)' => Claim(c, j),
         call'[c] = call[c] \/ call'[c] = NoCall,
         call'[c].op = "set" => ReadHolds(c)',
         AnswerHeld(c)'
  PROVE  StoreInv'
  <1>1. TicketsFresh'
    BY LocalTickets, Zenon DEF StoreInv
  <1>2. ClaimsExclusive'
    BY LocalClaims, Zenon DEF StoreInv
  <1>3. SetExclusive'
    BY LocalSets, Zenon DEF StoreInv
  <1>4. HashesWhole' /\ IndexAgrees' /\ RanksDistinct'
    BY Zenon DEF StoreInv, HashesWhole, IndexAgrees, RanksDistinct, Created
  <1>5. AnswersHeld'
    <2>1. \A d \in Callers \ {c} : AnswerHeld(d)'
      BY AnswerFrame, CreatedFrame, Zenon DEF StoreInv, AnswersHeld
    <2> QED BY <2>1, Zenon DEF AnswersHeld
  <1> QED BY <1>1, <1>2, <1>3, <1>4, <1>5, Zenon DEF StoreInv

\* The client's part of TypeOK.
ClientTypes ==
    /\ at \in [Conns -> {"closed", "idle", "used"}]
    /\ up \in [Conns -> BOOLEAN]
    /\ DOMAIN req = Conns /\ DOMAIN rep = Conns
    /\ using \in [Callers -> Conns \cup {NoConn}]
    /\ want \in [Callers -> Nat]

Mem == [seq : Nat, old : Status \cup {"blank"}, ids : Seq(Jobs), got : Seq(Jobs)]

LEMMA ClientTypesStep ==
  ASSUME TypeOK, NEW c \in Callers, NEW k \in Conns, NEW rs, NEW b,
         \/ Send(c, k, b, Size(b)) \/ Reply(k, rs)
         \/ Receive(c) \/ ReadFails(c) \/ Break(k)
  PROVE  ClientTypes'
  <1>1. CASE Send(c, k, b, Size(b))
    BY <1>1, SizeFacts, Zenon DEF Send, Get, TypeOK, ClientTypes
  <1>2. CASE Reply(k, rs)
    BY <1>2, Zenon DEF Reply, TypeOK, ClientTypes
  <1>3. CASE Receive(c)
    <2>1. using[c] \in Conns /\ UNCHANGED faults /\ using' = [using EXCEPT ![c] = NoConn] /\ want' = [want EXCEPT ![c] = 0]
      BY <1>3, Zenon DEF Receive, Replied, Release, TypeOK
    <2>2. Put(using[c], want[c])
      BY <1>3, Zenon DEF Receive
    <2> QED BY <2>1, <2>2, Zenon DEF Put, Discard, TypeOK, ClientTypes
  <1>4. CASE ReadFails(c)
    BY <1>4, Zenon DEF ReadFails, Discard, Release, TypeOK, ClientTypes
  <1>5. CASE Break(k)
    BY <1>5, Zenon DEF Break, TypeOK, ClientTypes
  <1> QED BY <1>1, <1>2, <1>3, <1>4, <1>5, Zenon

LEMMA NoneTypes ==
  /\ <<NoCall.op, "none">> \in Stages
  /\ NoMem \in Mem
  BY DEF NoCall, Op, Stages, NoMem, Read, Mem

LEMMA FinishTypes ==
  ASSUME TypeOK, ClientTypes', NEW c \in Callers, NEW o, Finish(c, o), UNCHANGED redis
  PROVE  TypeOK'
  <1>1. \A d \in Callers : <<call'[d].op, stage'[d]>> \in Stages
    BY NoneTypes, Zenon DEF Finish, TypeOK
  <1>2. mem' \in [Callers -> Mem]
    BY NoneTypes, Zenon DEF Finish, TypeOK, Mem
  <1>3. /\ call' \in [Callers -> Calls \cup {NoCall}]
        /\ DOMAIN stage' = Callers
        /\ start' \in [Callers -> Nat]
        /\ DOMAIN ans' = Callers /\ DOMAIN out' = Callers
    <2>1. call' \in [Callers -> Calls \cup {NoCall}]
      <3>1. call \in [Callers -> Calls \cup {NoCall}]
        BY Zenon DEF TypeOK
      <3> QED BY <3>1, Zenon DEF Finish
    <2>4. DOMAIN stage' = Callers
      BY Zenon DEF Finish, TypeOK
    <2>2. start' \in [Callers -> Nat]
      BY Zenon DEF Finish, TypeOK
    <2>3. DOMAIN ans' = Callers /\ DOMAIN out' = Callers
      BY Zenon DEF Finish, TypeOK
    <2> QED BY <2>1, <2>2, <2>3, <2>4, Zenon
  <1>4. Calls' = Calls /\ NoCall' = NoCall
    BY DEF Calls, NoCall, Op
  <1> QED BY <1>1, <1>2, <1>3, <1>4, Zenon DEF TypeOK, ClientTypes, redis, Mem, Stages

LEMMA GoOnTypes ==
  ASSUME TypeOK, ClientTypes', NEW c \in Callers, NEW s, NEW m \in Mem,
         GoOn(c, s, m), <<call[c].op, s>> \in Stages, UNCHANGED redis
  PROVE  TypeOK'
  <1>1. \A d \in Callers : <<call'[d].op, stage'[d]>> \in Stages
    BY Zenon DEF GoOn, TypeOK
  <1>2. mem' \in [Callers -> Mem]
    BY Zenon DEF GoOn, TypeOK, Mem
  <1>3. UNCHANGED <<call, start, ans, out>> /\ DOMAIN stage' = Callers
    BY Zenon DEF GoOn, TypeOK
  <1>4. Calls' = Calls /\ NoCall' = NoCall
    BY DEF Calls, NoCall, Op
  <1> QED BY <1>1, <1>2, <1>3, <1>4, Zenon DEF TypeOK, ClientTypes, redis, Mem, Stages

\* Nothing but the client's variables, Redis and the answers change.
LEMMA CallTypes ==
  ASSUME TypeOK, ClientTypes', UNCHANGED caller, DOMAIN ans' = Callers,
         hash' \in [Jobs -> [claimed : BOOLEAN, status : Status \cup {"blank"}, seq : Nat]],
         index' \in [Status -> SUBSET (Nat \X Jobs)],
         seqno' \in Nat,
         rows' \in [Jobs -> Nat]
  PROVE  TypeOK'
  <1>1. Calls' = Calls /\ NoCall' = NoCall
    BY DEF Calls, NoCall, Op
  <1> QED BY <1>1, Zenon DEF TypeOK, ClientTypes, caller, Stages
-----------------------------------------------------------------------------
(***************************************************************************)
(* The steps of a caller.                                                  *)
(***************************************************************************)
LEMMA SendStep ==
  ASSUME StoreInv, NEW c \in Callers, SendBatch(c)
  PROVE  StoreInv'
  <1> USE DEF StoreInv
  <1>1. /\ Aligned' /\ \A d \in Callers \ {c} : Same(d)
        /\ ~Heard(c) /\ ~Heard(c)'
        /\ UNCHANGED <<call, stage, mem, start, ans, out, hash, index, seqno, rows>>
    BY SendEffect, Zenon
  <1>2. TypeOK'
    <2>1. ClientTypes'
      BY ClientTypesStep, Zenon DEF SendBatch
    <2> QED BY <1>1, <2>1, CallTypes, Zenon DEF TypeOK, caller
  <1>3. \A n \in Nat : Ticket(c, n)' => Ticket(c, n) /\ start'[c] = start[c]
    BY <1>1, Zenon DEF Ticket
  <1>4. \A j \in Jobs : Claim(c, j)' => Claim(c, j)
    BY <1>1, Zenon DEF Claim
  <1>5. ReadHolds(c) => ReadHolds(c)'
    BY <1>1, Zenon DEF ReadHolds
  <1>6. call'[c].op = "set" => ReadHolds(c)'
    BY <1>1, <1>5, Zenon DEF SetExclusive
  <1>7. AnswerHeld(c)'
    <2>1. AnswerHeld(c)
      BY Zenon DEF AnswersHeld
    <2>2. {j \in Jobs : Created(j)}' = {j \in Jobs : Created(j)}
      BY <1>1, CreatedFrame, Zenon
    <2> QED BY <1>1, <2>1, <2>2, Zenon DEF AnswerHeld, NoAns, Ids
  <1>8. start'[c] <= seqno
    BY <1>1, Zenon DEF TicketsFresh
  <1> QED BY <1>1, <1>2, <1>3, <1>4, <1>6, <1>7, <1>8, LocalStep, Zenon

\* The effect of returning.
LEMMA FinishStep ==
  ASSUME StoreInv, NEW c \in Callers, NEW o, Finish(c, o), UNCHANGED redis,
         ClientTypes', Aligned', ~Heard(c)', \A d \in Callers \ {c} : Same(d)
  PROVE  StoreInv'
  <1>1. TypeOK'
    BY FinishTypes, Zenon DEF StoreInv
  <1>2. /\ call'[c] = NoCall /\ stage'[c] = "none" /\ ans'[c] = NoAns /\ start'[c] <= seqno
    BY DEF Finish, StoreInv, TypeOK
  <1>3. UNCHANGED <<hash, index, seqno, rows>>
    BY Zenon DEF redis
  <1>4. NoCall.op = "none"
    BY Zenon DEF NoCall, Op
  <1>5. \A n \in Nat : ~Ticket(c, n)'
    BY <1>2, Zenon DEF Ticket
  <1>6. \A j \in Jobs : ~Claim(c, j)'
    BY <1>2, <1>4, Zenon DEF Claim
  <1>7. AnswerHeld(c)'
    BY <1>2, Zenon DEF AnswerHeld, NoAns
  <1> QED BY <1>1, <1>2, <1>3, <1>4, <1>5, <1>6, <1>7, LocalStep, Zenon

\* The effect of going on.
LEMMA GoOnStep ==
  ASSUME StoreInv, NEW c \in Callers, NEW s, NEW m \in Mem,
         GoOn(c, s, m), <<call[c].op, s>> \in Stages, UNCHANGED redis,
         ClientTypes', Aligned', ~Heard(c)', \A d \in Callers \ {c} : Same(d),
         s \notin {"seq", "ids", "row", "range", "read"},
         s = "claim" => Ticket(c, m.seq),
         s = "write" /\ call[c].op = "create" => Ticket(c, m.seq) /\ Claim(c, call[c].job),
         s = "exists" => ~hash[call[c].job].claimed,
         s = "write" /\ call[c].op = "set" =>
            LET h == hash[call[c].job] IN
            h.status # "blank" /\ m.old = h.status /\ m.seq = h.seq,
         s = "rows" => m.ids # << >> /\ m.ids \in Seq({j \in Jobs : Created(j)})
                       /\ ans[c] = Ids(m.got \o m.ids),
         s # "rows" => ans[c] = NoAns
  PROVE  StoreInv'
  <1>1. TypeOK'
    BY GoOnTypes, Zenon DEF StoreInv
  <1>2. /\ stage'[c] = s /\ mem'[c] = m /\ call' = call /\ start' = start /\ ans' = ans
    BY Zenon DEF GoOn, StoreInv, TypeOK
  <1>3. UNCHANGED <<hash, index, seqno, rows>>
    BY Zenon DEF redis
  <1>4. \A n \in Nat : Ticket(c, n)' => Ticket(c, n) /\ start'[c] = start[c]
    BY <1>2, Zenon DEF Ticket
  <1>5. \A j \in Jobs : Claim(c, j)' => Claim(c, j)
    BY <1>2, Zenon DEF Claim
  <1>6. call'[c].op = "set" => ReadHolds(c)'
    BY <1>2, <1>3, Zenon DEF ReadHolds
  <1>7. {j \in Jobs : Created(j)}' = {j \in Jobs : Created(j)}
    BY <1>3, CreatedFrame, Zenon
  <1>8. AnswerHeld(c)'
    BY <1>2, <1>7, Zenon DEF AnswerHeld, NoAns, Ids
  <1>9. start'[c] <= seqno
    BY <1>2, Zenon DEF StoreInv, TicketsFresh
  <1> QED BY <1>1, <1>2, <1>3, <1>4, <1>5, <1>6, <1>8, <1>9, LocalStep, Zenon

LEMMA GoodEffect ==
  ASSUME StoreInv, NEW c \in Callers, NEW s, Good(c, s),
         (\E o : Finish(c, o)) \/ (\E t, m : GoOn(c, t, m))
  PROVE  /\ ClientTypes' /\ Aligned' /\ ~Heard(c)' /\ UNCHANGED redis
         /\ \A d \in Callers \ {c} : Same(d)
         /\ stage[c] = s /\ Heard(c) /\ AnswerHeld(c)
  <1>1. Receive(c) /\ stage[c] = s /\ Decisive(c).kind # "-" /\ UNCHANGED redis
    BY Zenon DEF Good
  <1>2. \A d \in Callers \ {c} : /\ call'[d] = call[d] /\ stage'[d] = stage[d]
                                 /\ mem'[d] = mem[d] /\ start'[d] = start[d]
                                 /\ ans'[d] = ans[d]
    BY DEF Finish, GoOn, StoreInv, TypeOK
  <1>3. /\ Aligned' /\ \A d \in Callers \ {c} : Same(d)
        /\ Heard(c) /\ ~Heard(c)'
    BY <1>1, <1>2, ReleaseEffect, Zenon DEF StoreInv
  <1>4. using[c] \in Conns
    BY <1>1, Zenon DEF Receive, Replied, StoreInv, TypeOK
  <1>5. ClientTypes'
    BY <1>1, <1>4, ClientTypesStep, Zenon DEF StoreInv
  <1> QED BY <1>1, <1>3, <1>5, Zenon DEF StoreInv, AnswersHeld

LEMMA Listed ==
  ASSUME NEW S, NEW g \in Seq(S), NEW q \in Seq(S), q # << >>
  PROVE  /\ Head(q) \in S /\ Tail(q) \in Seq(S) /\ Append(g, Head(q)) \in Seq(S)
         /\ Append(g, Head(q)) \o Tail(q) = g \o q
         /\ Len(q) # 1 => Tail(q) # << >>
  <1>0. Len(q) \in Nat /\ Len(q) > 0 /\ q \in [1..Len(q) -> S]
    OBVIOUS
  <1>1. Head(q) \in S
    BY <1>0
  <1>2. Tail(q) \in Seq(S) /\ Len(Tail(q)) = Len(q) - 1
    BY <1>0
  <1>9. \A i \in 1..Len(Tail(q)) : Tail(q)[i] = q[i+1]
    BY <1>0, <1>2
  <1>3. Append(g, Head(q)) \in Seq(S) /\ Len(Append(g, Head(q))) = Len(g) + 1
    BY <1>0, <1>1
  <1>10. \A i \in 1..(Len(g) + 1) : Append(g, Head(q))[i] = IF i <= Len(g) THEN g[i] ELSE q[1]
    BY <1>0, <1>3
  <1> DEFINE a == Append(g, Head(q)) \o Tail(q)
             b == g \o q
  <1>8. Len(Tail(q)) \in Nat /\ Len(g) \in Nat /\ Len(Append(g, Head(q))) \in Nat
    BY <1>2, <1>3
  <1>4. a \in Seq(S) /\ b \in Seq(S) /\ Len(a) = Len(b) /\ Len(b) = Len(g) + Len(q)
    BY <1>0, <1>2, <1>3, <1>8
  <1>5. ASSUME NEW i \in 1..Len(a) PROVE a[i] = b[i]
    <2>1. CASE i <= Len(g)
      BY <1>0, <1>2, <1>9, <1>3, <1>10, <1>8, <1>4, <2>1
    <2>2. CASE i > Len(g)
      BY <1>0, <1>2, <1>9, <1>3, <1>10, <1>8, <1>4, <2>2
    <2> QED BY <1>4, <2>1, <2>2
  <1>6. a = b
    <2> HIDE DEF a, b
    <2> QED BY <1>4, <1>5
  <1>7. Len(q) # 1 => Tail(q) # << >>
    <2>1. Len(<< >>) = 0
      BY Zenon
    <2>2. Tail(q) = << >> => Len(q) - 1 = 0
      BY <1>2, <2>1, Zenon
    <2> QED BY <1>0, <2>2
  <1> QED BY <1>1, <1>2, <1>3, <1>6, <1>7, Zenon

LEMMA ProceedStep ==
  ASSUME StoreInv, NEW c \in Callers, Proceed(c)
  PROVE  StoreInv'
  <1> USE DEF StoreInv
  <1>1. ASSUME NEW s, Good(c, s), NEW o, Finish(c, o)
        PROVE  StoreInv'
    BY <1>1, GoodEffect, FinishStep, Zenon
  <1>2. CASE GotSeq(c)
    <2> DEFINE m == Read(Decisive(c).num, "blank", << >>, << >>)
    <2>1. Good(c, "seq") /\ GoOn(c, "claim", m)
      BY <1>2, Zenon DEF GotSeq
    <2>2. /\ ClientTypes' /\ Aligned' /\ ~Heard(c)' /\ UNCHANGED redis
          /\ \A d \in Callers \ {c} : Same(d)
          /\ stage[c] = "seq" /\ Heard(c) /\ AnswerHeld(c)
      BY <2>1, GoodEffect, Zenon
    <2>3. ans[c] = NoAns /\ Decisive(c).num \in Nat
      BY <2>2, Zenon DEF AnswerHeld
    <2>4. m \in Mem /\ m.seq = Decisive(c).num
      BY <2>3 DEF Mem, Read
    <2>5. call[c].op = "create"
      BY <2>2, StageFacts, Zenon
    <2>6. <<call[c].op, "claim">> \in Stages
      BY <2>5, Zenon DEF Stages
    <2>7. Ticket(c, m.seq)
      BY <2>2, <2>4, Zenon DEF Ticket
    <2> HIDE DEF m
    <2> QED BY <2>1, <2>2, <2>3, <2>4, <2>6, <2>7, GoOnStep, Zenon
  <1>3. CASE GotClaim(c)
    <2>1. Good(c, "claim")
      BY <1>3, Zenon DEF GotClaim
    <2>2. CASE Finish(c, Error)
      BY <1>1, <2>1, <2>2, Zenon
    <2>3. CASE GoOn(c, "write", mem[c]) /\ Decisive(c).num # 0
      <3>1. /\ ClientTypes' /\ Aligned' /\ ~Heard(c)' /\ UNCHANGED redis
            /\ \A d \in Callers \ {c} : Same(d)
            /\ stage[c] = "claim" /\ Heard(c) /\ AnswerHeld(c)
        BY <2>1, <2>3, GoodEffect, Zenon
      <3>2. ans[c] = NoAns
        BY <3>1, Zenon DEF AnswerHeld
      <3>3. call[c].op = "create"
        BY <3>1, StageFacts, Zenon
      <3>4. <<call[c].op, "write">> \in Stages
        BY <3>3, Zenon DEF Stages
      <3>5. Ticket(c, mem[c].seq) /\ Claim(c, call[c].job)
        BY <2>3, <3>1, <3>3, Zenon DEF Ticket, Claim
      <3>6. mem[c] \in Mem
        BY Zenon DEF TypeOK, Mem
      <3> QED BY <2>3, <3>1, <3>2, <3>3, <3>4, <3>5, <3>6, GoOnStep, Zenon
    <2> QED BY <1>3, <2>2, <2>3, Zenon DEF GotClaim
  <1>4. CASE GotRead(c)
    <2>1. Good(c, "read")
      BY <1>4, Zenon DEF GotRead
    <2>2. (\E o : Finish(c, o)) \/ (\E t, m : GoOn(c, t, m))
      BY <1>4, Zenon DEF GotRead
    <2>3. /\ ClientTypes' /\ Aligned' /\ ~Heard(c)' /\ UNCHANGED redis
          /\ \A d \in Callers \ {c} : Same(d)
          /\ stage[c] = "read" /\ Heard(c) /\ AnswerHeld(c)
      BY <2>1, <2>2, GoodEffect, Zenon
    <2>4. ans[c] = NoAns
      BY <2>3, Zenon DEF AnswerHeld
    <2>5. call[c].op = "set" /\ call[c].job \in Jobs
      BY <2>3, StageFacts, Zenon
    <2> DEFINE h == hash[call[c].job]
    <2>6. /\ h.claimed => h.status # "blank"
          /\ Decisive(c).status = h.status /\ Decisive(c).seq = h.seq
      BY <2>3, <2>5, Zenon DEF SetExclusive, ReadHolds, Created
    <2>7. h.status = "blank" => h.seq = 0
      BY <2>5, Zenon DEF HashesWhole, Created
    <2>8. h.status \in Status \cup {"blank"} /\ h.seq \in Nat
      BY <2>5, Zenon DEF TypeOK
    <2>9. <<call[c].op, "exists">> \in Stages /\ <<call[c].op, "write">> \in Stages
      BY <2>5, Zenon DEF Stages
    <2>10. CASE h.status = "blank"
      <3>1. GoOn(c, "exists", NoMem) /\ ~h.claimed
        BY <1>4, <2>6, <2>7, <2>10, Zenon DEF GotRead
      <3> QED BY <2>3, <2>4, <2>9, <3>1, NoneTypes, GoOnStep, Zenon
    <2>11. CASE h.status # "blank"
      <3> DEFINE m == Read(Decisive(c).seq, Decisive(c).status, << >>, << >>)
      <3>1. GoOn(c, "write", m)
        BY <1>4, <2>6, <2>11, Zenon DEF GotRead
      <3>2. m \in Mem /\ m.old = h.status /\ m.seq = h.seq
        BY <2>6, <2>8 DEF Mem, Read
      <3> HIDE DEF m
      <3> QED BY <2>3, <2>4, <2>5, <2>9, <2>11, <3>1, <3>2, GoOnStep, Zenon
    <2> QED BY <2>10, <2>11, Zenon
  <1>5. CASE GotExists(c)
    <2>1. Good(c, "exists")
      BY <1>5, Zenon DEF GotExists
    <2>2. (\E o : Finish(c, o)) \/ (\E t, m : GoOn(c, t, m))
      BY <1>5, Zenon DEF GotExists
    <2>3. stage[c] = "exists" /\ Heard(c)
      BY <2>1, <2>2, GoodEffect, Zenon
    <2>4. Decisive(c).fields = "NONE"
      BY <2>3, StageFacts, Zenon DEF SetExclusive, ReadHolds
    <2> QED BY <1>1, <1>5, <2>1, <2>4, Zenon DEF GotExists
  <1>6. CASE GotWrite(c)
    BY <1>1, <1>6, Zenon DEF GotWrite
  <1>7. CASE GotRow(c)
    BY <1>1, <1>7, Zenon DEF GotRow
  <1>8. CASE GotIds(c)
    <2>1. Good(c, "ids")
      BY <1>8, Zenon DEF GotIds
    <2>2. CASE Finish(c, Ids(<< >>))
      BY <1>1, <2>1, <2>2, Zenon
    <2> DEFINE q == Decisive(c).ids
               m == Read(0, "blank", q, << >>)
    <2>3. CASE GoOn(c, "rows", m) /\ q # << >>
      <3>1. /\ ClientTypes' /\ Aligned' /\ ~Heard(c)' /\ UNCHANGED redis
            /\ \A d \in Callers \ {c} : Same(d)
            /\ stage[c] = "ids" /\ Heard(c) /\ AnswerHeld(c)
        BY <2>1, <2>3, GoodEffect, Zenon
      <3>2. ans[c] = Ids(q) /\ q \in Seq({j \in Jobs : Created(j)})
        BY <3>1, Zenon DEF AnswerHeld
      <3>3. call[c].op = "list"
        BY <3>1, StageFacts, Zenon
      <3>4. <<call[c].op, "rows">> \in Stages
        BY <3>3, Zenon DEF Stages
      <3> HIDE DEF q
      <3>5. q \in Seq(Jobs)
        BY <3>2
      <3>6. m \in Mem /\ m.ids = q /\ m.got = << >>
        BY <3>5 DEF Mem, Read
      <3>7. << >> \o q = q
        BY <3>5
      <3> HIDE DEF m
      <3> QED BY <2>3, <3>1, <3>2, <3>4, <3>6, <3>7, GoOnStep, Zenon
    <2> QED BY <1>8, <2>2, <2>3, Zenon DEF GotIds
  <1>9. CASE GotListed(c)
    <2> DEFINE q == mem[c].ids
               got == IF Decisive(c).fields = "NONE" THEN mem[c].got ELSE Append(mem[c].got, Head(q))
               m == Read(0, "blank", Tail(q), got)
    <2>1. Good(c, "rows")
      BY <1>9, Zenon DEF GotListed
    <2>2. CASE Finish(c, Ids(got))
      BY <1>1, <2>1, <2>2, Zenon
    <2>3. CASE GoOn(c, "rows", m) /\ Len(q) # 1
      <3>1. /\ ClientTypes' /\ Aligned' /\ ~Heard(c)' /\ UNCHANGED redis
            /\ \A d \in Callers \ {c} : Same(d)
            /\ stage[c] = "rows" /\ Heard(c) /\ AnswerHeld(c)
        BY <2>1, <2>3, GoodEffect, Zenon
      <3>2. /\ q # << >> /\ q \in Seq({j \in Jobs : Created(j)})
            /\ ans[c] = Ids(mem[c].got \o q) /\ Decisive(c).fields # "NONE"
        BY <3>1, Zenon DEF AnswerHeld
      <3>3. call[c].op = "list"
        BY <3>1, StageFacts, Zenon
      <3>4. <<call[c].op, "rows">> \in Stages
        BY <3>3, Zenon DEF Stages
      <3>5. mem[c] \in Mem /\ mem[c].got \in Seq(Jobs) /\ q \in Seq(Jobs)
        BY Zenon DEF TypeOK, Mem
      <3>6. got = Append(mem[c].got, Head(q))
        BY <3>2, Zenon
      <3>7. Tail(q) \in Seq(Jobs) /\ got \in Seq(Jobs) /\ got \o Tail(q) = mem[c].got \o q
            /\ Tail(q) # << >>
        BY <2>3, <3>2, <3>5, <3>6, Listed, Zenon
      <3>8. Tail(q) \in Seq({j \in Jobs : Created(j)})
        BY <3>2
      <3>9. m \in Mem /\ m.ids = Tail(q) /\ m.got = got
        <4> HIDE DEF q, got
        <4> QED BY <3>5, <3>7, Zenon DEF Mem, Read
      <3> HIDE DEF m, q, got
      <3> QED BY <2>3, <3>1, <3>2, <3>4, <3>7, <3>8, <3>9, GoOnStep, Zenon
    <2> QED BY <1>9, <2>2, <2>3, Zenon DEF GotListed
  <1>10. CASE GotPush(c)
    BY <1>1, <1>10, Zenon DEF GotPush
  <1>11. CASE GotRange(c)
    BY <1>1, <1>11, Zenon DEF GotRange
  <1> QED BY <1>2, <1>3, <1>4, <1>5, <1>6, <1>7, <1>8, <1>9, <1>10, <1>11, Zenon DEF Proceed

LEMMA FailsStep ==
  ASSUME StoreInv, NEW c \in Callers, Fails(c)
  PROVE  StoreInv'
  <1>1. Finish(c, Error) /\ UNCHANGED redis
    BY Zenon DEF Fails
  <1>2. \A d \in Callers \ {c} : /\ call'[d] = call[d] /\ stage'[d] = stage[d]
                                 /\ mem'[d] = mem[d] /\ start'[d] = start[d]
                                 /\ ans'[d] = ans[d]
    BY <1>1, Zenon DEF Finish, StoreInv, TypeOK
  <1>3. CASE Receive(c) \/ ReadFails(c)
    <2>1. Aligned' /\ (\A d \in Callers \ {c} : Same(d)) /\ ~Heard(c)'
      BY <1>2, <1>3, ReleaseEffect, Zenon DEF StoreInv
    <2>2. using[c] \in Conns
      BY <1>3, Zenon DEF Receive, ReadFails, Replied, StoreInv, TypeOK
    <2>3. ClientTypes'
      BY <1>3, <2>2, ClientTypesStep, Zenon DEF StoreInv
    <2> QED BY <1>1, <2>1, <2>3, FinishStep, Zenon
  <1>4. CASE DialFails(c)
    <2>1. Aligned' /\ (\A d \in Callers \ {c} : Same(d)) /\ ~Heard(c)'
      BY <1>2, <1>4, DialEffect, Zenon DEF StoreInv, DialFails
    <2>2. ClientTypes'
      BY <1>4, Zenon DEF DialFails, clientVars, ClientTypes, StoreInv, TypeOK
    <2> QED BY <1>1, <2>1, <2>2, FinishStep, Zenon
  <1> QED BY <1>3, <1>4, Zenon DEF Fails

LEMMA FirstFacts ==
  ASSUME NEW x \in Calls
  PROVE  /\ <<x.op, First(x.op)>> \in Stages
         /\ First(x.op) \notin {"claim", "write", "exists", "rows"}
         /\ x.op = "set" => First(x.op) = "read"
         /\ x.op # "none"
  <1>1. x.op \in {"create", "get", "append", "steps", "set", "list"}
    BY DEF Calls, Op
  <1>2. /\ First("create") = "seq" /\ First("get") = "row" /\ First("set") = "read"
        /\ First("list") = "ids" /\ First("append") = "push" /\ First("steps") = "range"
    BY Zenon DEF First
  <1> QED BY <1>1, <1>2, Zenon DEF Stages

LEMMA InvokeStep ==
  ASSUME StoreInv, NEW c \in Callers, NEW x \in Calls, Invoke(c, x)
  PROVE  StoreInv'
  <1> USE DEF StoreInv
  <1>1. /\ call[c] = NoCall /\ MayCall(x)
        /\ call' = [call EXCEPT ![c] = x]
        /\ stage' = [stage EXCEPT ![c] = First(x.op)]
        /\ start' = [start EXCEPT ![c] = IF x.op = "create" THEN seqno ELSE 0]
        /\ out' = [out EXCEPT ![c] = NoAns]
        /\ UNCHANGED <<clientVars, hash, index, seqno, rows, mem, ans>>
    BY Zenon DEF Invoke, redis
  <1>2. using[c] = NoConn
    BY <1>1, Zenon DEF Aligned
  <1>3. /\ Aligned' /\ (\A d \in Callers \ {c} : Same(d)) /\ ~Heard(c) /\ ~Heard(c)'
    BY <1>1, <1>2, DialEffect, Zenon DEF TypeOK
  <1>4. call'[c] = x /\ stage'[c] = First(x.op)
    BY <1>1, Zenon DEF TypeOK
  <1>5. TypeOK'
    <2>1. Calls' = Calls /\ NoCall' = NoCall
      BY DEF Calls, NoCall, Op
    <2>2. \A d \in Callers : <<call'[d].op, stage'[d]>> \in Stages
      BY <1>1, FirstFacts, Zenon DEF TypeOK
    <2>3. start' \in [Callers -> Nat]
      BY <1>1, Zenon DEF TypeOK
    <2>4. call' \in [Callers -> Calls \cup {NoCall}] /\ DOMAIN stage' = Callers /\ DOMAIN out' = Callers
      <3>1. call \in [Callers -> Calls \cup {NoCall}] /\ DOMAIN stage = Callers /\ DOMAIN out = Callers
        BY Zenon DEF TypeOK
      <3> QED BY <1>1, <3>1, Zenon
    <2> QED BY <1>1, <2>1, <2>2, <2>3, <2>4, Zenon DEF TypeOK, clientVars, Stages
  <1>6. TicketsFresh'
    <2>1. \A n \in Nat : ~Ticket(c, n)'
      BY <1>3, <1>4, FirstFacts, Zenon DEF Ticket
    <2>2. start'[c] <= seqno
      BY <1>1 DEF TypeOK
    <2> QED BY <1>1, <1>3, <2>1, <2>2, LocalTickets, Zenon
  <1>7. ClaimsExclusive'
    <2>1. \A j \in Jobs : ~Claim(c, j)'
      BY <1>3, <1>4, FirstFacts, Zenon DEF Claim
    <2> QED BY <1>1, <1>3, <2>1, LocalClaims, Zenon
  <1>8. SetExclusive'
    <2>1. /\ x.op \in {"set", "create"} => Running("set", x.job) = {}
          /\ x.op = "set" => Running("create", x.job) = {} /\ (hash[x.job].claimed => Created(x.job))
      BY <1>1, Zenon DEF MayCall
    <2>2. \A d \in Callers \ {c} : call'[d] = call[d]
      BY <1>3, Zenon DEF Same
    <2>3. \A d \in Callers \ {c} : ReadHolds(d)' <=> ReadHolds(d)
      BY <1>1, <1>3, ReadFrame, Zenon
    <2>4. x.op = "set" => ReadHolds(c)'
      BY <1>3, <1>4, FirstFacts, Zenon DEF ReadHolds
    <2>6. ASSUME NEW d \in Callers, NEW e \in Callers, call'[d].op = "set",
                 call'[e].op \in {"set", "create"}, call'[e].job = call'[d].job
          PROVE  e = d
      <3>1. CASE d = c /\ e # c
        BY <1>4, <2>1, <2>2, <2>6, <3>1, Zenon DEF Running
      <3>2. CASE d # c /\ e = c
        BY <1>4, <2>1, <2>2, <2>6, <3>2, Zenon DEF Running
      <3>3. CASE d # c /\ e # c
        BY <2>2, <2>6, <3>3, Zenon DEF SetExclusive
      <3> QED BY <3>1, <3>2, <3>3, Zenon
    <2>7. ASSUME NEW d \in Callers, call'[d].op = "set"
          PROVE  /\ hash'[call'[d].job].claimed => Created(call[d].job)'
                 /\ ReadHolds(d)'
      <3>1. CASE d = c
        BY <1>1, <1>4, <2>1, <2>4, <2>7, <3>1, Zenon DEF Created
      <3>2. CASE d # c
        BY <1>1, <2>2, <2>3, <2>7, <3>2, Zenon DEF SetExclusive, Created
      <3> QED BY <3>1, <3>2, Zenon
    <2> QED BY <2>6, <2>7, Zenon DEF SetExclusive
  <1>9. HashesWhole' /\ IndexAgrees' /\ RanksDistinct'
    BY <1>1, Zenon DEF HashesWhole, IndexAgrees, RanksDistinct, Created
  <1>10. AnswersHeld'
    <2>1. \A d \in Callers \ {c} : AnswerHeld(d)'
      BY <1>1, <1>3, AnswerFrame, CreatedFrame, Zenon DEF AnswersHeld
    <2>2. ans[c] = NoAns /\ NoAns' = NoAns
      <3>1. stage[c] # "rows"
        BY <1>1, StageFacts, Zenon
      <3> QED BY <1>3, <3>1, Zenon DEF AnswersHeld, AnswerHeld, NoAns
    <2>3. AnswerHeld(c)'
      BY <1>1, <1>3, <1>4, <2>2, FirstFacts, Zenon DEF AnswerHeld
    <2> QED BY <2>1, <2>3, Zenon DEF AnswersHeld
  <1> QED BY <1>3, <1>5, <1>6, <1>7, <1>8, <1>9, <1>10, Zenon

\* A broken connection changes nothing that was read or answered.
LEMMA BreakStep ==
  ASSUME StoreInv, NEW k \in Conns, BreakConn(k)
  PROVE  StoreInv'
  <1> USE DEF StoreInv
  <1>1. Aligned' /\ \A d \in Callers : Same(d)
    BY BreakEffect, Zenon
  <1>2. UNCHANGED <<hash, index, seqno, rows, call, stage, mem, start, out, ans>>
    BY Zenon DEF BreakConn, redis, caller
  <1>3. TypeOK'
    <2>1. at' = at /\ up' \in [Conns -> BOOLEAN] /\ DOMAIN req' = Conns
          /\ rep' = rep /\ using' = using /\ want' = want
      BY Zenon DEF BreakConn, Break, TypeOK
    <2>2. ClientTypes'
      BY <2>1, Zenon DEF ClientTypes, TypeOK
    <2> QED BY <1>2, <2>2, CallTypes, Zenon DEF TypeOK, caller
  <1>4. TicketsFresh'
    <2>1. \A d \in Callers, n \in Nat : Ticket(d, n)' <=> Ticket(d, n)
      BY <1>1, SameFacts, Zenon
    <2>2. \A j \in Jobs : Created(j)' <=> Created(j)
      BY <1>2, CreatedFrame, Zenon
    <2> QED BY <1>2, <2>1, <2>2, Zenon DEF TicketsFresh
  <1>5. ClaimsExclusive'
    <2>1. \A d \in Callers, j \in Jobs : Claim(d, j)' <=> Claim(d, j)
      BY <1>1, SameFacts, Zenon
    <2>2. \A j \in Jobs : Created(j)' <=> Created(j)
      BY <1>2, CreatedFrame, Zenon
    <2> QED BY <1>2, <2>1, <2>2, Zenon DEF ClaimsExclusive
  <1>6. SetExclusive'
    <2>1. \A d \in Callers : ReadHolds(d)' <=> ReadHolds(d)
      BY <1>1, <1>2, ReadFrame, Zenon
    <2>2. \A j : Created(j)' <=> Created(j)
      BY <1>2, CreatedFrame, Zenon
    <2> QED BY <1>2, <2>1, <2>2, Zenon DEF SetExclusive
  <1>7. HashesWhole' /\ IndexAgrees' /\ RanksDistinct'
    BY <1>2, Zenon DEF HashesWhole, IndexAgrees, RanksDistinct, Created
  <1>8. AnswersHeld'
    BY <1>1, <1>2, AnswerFrame, CreatedFrame, Zenon DEF AnswersHeld
  <1> QED BY <1>1, <1>3, <1>4, <1>5, <1>6, <1>7, <1>8, Zenon

LEMMA CrashStep ==
  ASSUME StoreInv, Crash
  PROVE  StoreInv'
  <1>1. /\ at' = [k \in Conns |-> "closed"] /\ up' = [k \in Conns |-> FALSE]
        /\ req' = [k \in Conns |-> << >>] /\ rep' = [k \in Conns |-> << >>]
        /\ using' = [c \in Callers |-> NoConn] /\ want' = [c \in Callers |-> 0]
    BY Zenon DEF Crash, CloseAll
  <1>2. /\ call' = [c \in Callers |-> NoCall] /\ stage' = [c \in Callers |-> "none"]
        /\ mem' = [c \in Callers |-> NoMem] /\ start' = [c \in Callers |-> 0]
        /\ ans' = [c \in Callers |-> NoAns] /\ out' = [c \in Callers |-> NoAns]
        /\ UNCHANGED <<hash, index, seqno, rows>>
    BY Zenon DEF Crash, redis
  <1>3. NoCall.op = "none" /\ NoCall' = NoCall /\ Calls' = Calls /\ NoAns' = NoAns
    BY DEF NoCall, Op, Calls, NoAns
  <1>4. TypeOK'
    <2>1. ClientTypes'
      BY <1>1, Zenon DEF ClientTypes
    <2>2. \A c \in Callers : <<call'[c].op, stage'[c]>> \in Stages
      BY <1>2, NoneTypes, Zenon
    <2>3. mem' \in [Callers -> Mem]
      BY <1>2, NoneTypes, Zenon
    <2>4. /\ call' \in [Callers -> Calls \cup {NoCall}] /\ DOMAIN stage' = Callers
          /\ start' \in [Callers -> Nat] /\ DOMAIN ans' = Callers /\ DOMAIN out' = Callers
      BY <1>2, Zenon
    <2> QED BY <1>2, <1>3, <2>1, <2>2, <2>3, <2>4, Zenon DEF StoreInv, TypeOK, ClientTypes, Mem, Stages
  <1>5. \A c \in Callers : ~Heard(c)' /\ call'[c] = NoCall /\ stage'[c] = "none" /\ ans'[c] = NoAns
    BY <1>1, <1>2, Zenon DEF Heard
  <1>6. Aligned'
    BY <1>1, Zenon DEF Aligned
  <1>7. TicketsFresh' /\ ClaimsExclusive' /\ SetExclusive'
    <2>1. \A c \in Callers : start'[c] <= seqno'
      BY <1>2 DEF StoreInv, TypeOK
    <2> QED BY <1>3, <1>5, <2>1, Zenon DEF TicketsFresh, ClaimsExclusive, SetExclusive, Ticket, Claim
  <1>8. HashesWhole' /\ IndexAgrees' /\ RanksDistinct'
    BY <1>2, Zenon DEF StoreInv, HashesWhole, IndexAgrees, RanksDistinct, Created
  <1>9. AnswersHeld'
    BY <1>3, <1>5, Zenon DEF AnswersHeld, AnswerHeld
  <1> QED BY <1>4, <1>6, <1>7, <1>8, <1>9, Zenon DEF StoreInv
-----------------------------------------------------------------------------
(***************************************************************************)
(* The first state, and a step that changes nothing.                       *)
(***************************************************************************)
\* An empty Redis and callers at rest satisfy the invariant.
LEMMA StoreInit ==
  ASSUME Init
  PROVE  StoreInv
  <1>1. ClientTypes
    BY Zenon DEF Init, ClientInit, ClientTypes
  <1>2. /\ \A c \in Callers : call[c] = NoCall /\ stage[c] = "none" /\ using[c] = NoConn
                              /\ ans[c] = NoAns /\ start[c] = 0
        /\ \A j \in Jobs : hash[j].status = "blank" /\ hash[j].seq = 0
        /\ seqno = 0 /\ index = [s \in Status |-> {}]
    BY Zenon DEF Init, ClientInit
  <1>3. NoCall.op = "none"
    BY Zenon DEF NoCall, Op
  <1>4. TypeOK
    <2>1. \A c \in Callers : <<call[c].op, stage[c]>> \in Stages
      BY <1>2, NoneTypes, Zenon
    <2>2. mem \in [Callers -> Mem]
      BY NoneTypes, Zenon DEF Init
    <2>3. /\ call \in [Callers -> Calls \cup {NoCall}] /\ DOMAIN stage = Callers
          /\ start \in [Callers -> Nat] /\ DOMAIN ans = Callers /\ DOMAIN out = Callers
      BY Zenon DEF Init
    <2>4. /\ hash \in [Jobs -> [claimed : BOOLEAN, status : Status \cup {"blank"}, seq : Nat]]
          /\ index \in [Status -> SUBSET (Nat \X Jobs)]
          /\ seqno \in Nat /\ rows \in [Jobs -> Nat]
      BY Zenon DEF Init
    <2> QED BY <1>1, <2>1, <2>2, <2>3, <2>4, Zenon DEF TypeOK, ClientTypes, Mem
  <1>5. \A c \in Callers : ~Heard(c)
    BY <1>2, Zenon DEF Heard
  <1>6. Aligned
    BY Zenon DEF Init, ClientInit, Aligned
  <1>7. TicketsFresh /\ ClaimsExclusive /\ SetExclusive
    BY <1>2, <1>3 DEF TicketsFresh, ClaimsExclusive, SetExclusive, Ticket, Claim
  <1>8. HashesWhole /\ RanksDistinct
    BY <1>2, Zenon DEF HashesWhole, RanksDistinct, Created
  <1>9. IndexAgrees
    <2>1. \A s \in Status : {i \in Jobs : hash[i].status = s} = {}
      BY <1>2, RedisAssumption, Zenon
    <2> QED BY <1>2, <2>1, Zenon DEF IndexAgrees
  <1>10. AnswersHeld
    BY <1>2, <1>5, Zenon DEF AnswersHeld, AnswerHeld
  <1> QED BY <1>4, <1>6, <1>7, <1>8, <1>9, <1>10, Zenon DEF StoreInv

\* The invariant is about vars and nothing else.
LEMMA StutterStep ==
  ASSUME StoreInv, UNCHANGED vars
  PROVE  StoreInv'
  <1>1. \A d \in Callers : Same(d)
    BY Zenon DEF vars, Same
  <1>2. UNCHANGED <<at, up, req, rep, using, want, hash, index, seqno, rows, call, stage, mem, start, ans, out>>
    BY Zenon DEF vars
  <1>3. \A d \in Callers : /\ Batch(d)' = Batch(d)
                           /\ \A n : Ticket(d, n)' <=> Ticket(d, n)
                           /\ \A j : Claim(d, j)' <=> Claim(d, j)
                           /\ ReadHolds(d)' <=> ReadHolds(d)
    BY <1>1, <1>2, SameFacts, ReadFrame, Zenon
  <1>4. TypeOK'
    <2>1. ClientTypes'
      BY <1>2, Zenon DEF StoreInv, TypeOK, ClientTypes
    <2> QED BY <1>2, <2>1, CallTypes, Zenon DEF StoreInv, TypeOK, caller
  <1>5. Aligned'
    <2>1. \A d \in Callers : Size(Batch(d))' = Size(Batch(d))
      BY <1>3, Zenon DEF Size
    <2>2. NoCall' = NoCall
      BY Zenon DEF NoCall, Op
    <2> QED BY <1>2, <1>3, <2>1, <2>2, Zenon DEF StoreInv, Aligned
  <1>6. TicketsFresh' /\ ClaimsExclusive' /\ SetExclusive'
    BY <1>2, <1>3, CreatedFrame, Zenon DEF StoreInv, TicketsFresh, ClaimsExclusive, SetExclusive, Created
  <1>7. HashesWhole' /\ IndexAgrees' /\ RanksDistinct'
    BY <1>2, Zenon DEF StoreInv, HashesWhole, IndexAgrees, RanksDistinct, Created
  <1>8. AnswersHeld'
    BY <1>1, <1>2, AnswerFrame, CreatedFrame, Zenon DEF StoreInv, AnswersHeld
  <1> QED BY <1>4, <1>5, <1>6, <1>7, <1>8, Zenon DEF StoreInv
-----------------------------------------------------------------------------
(***************************************************************************)
(* The steps of Redis: commands, transactions and refusals.                *)
(***************************************************************************)
\* Redis executes command o of caller c, with reply r.
Single(k, o, r, c) ==
    /\ Next1(k, o) /\ o # "TX"
    /\ Answer(k, <<r>>) /\ r.kind # "-"
    /\ UNCHANGED caller
    /\ c = Head(req[k]).by
    /\ \A d \in Callers \ {c} : ans'[d] = ans[d]

\* A batch other than a transaction is one command with one reply r.
LEMMA SingleEffect ==
  ASSUME StoreInv, NEW k \in Conns, NEW o, NEW r, NEW c, Single(k, o, r, c)
  PROVE  /\ Aligned' /\ ClientTypes'
         /\ c \in Callers /\ call[c] # NoCall /\ Batch(c).op = o
         /\ Head(req[k]) = Batch(c)
         /\ \A d \in Callers \ {c} : Same(d)
         /\ ~Heard(c) /\ Heard(c)' /\ Decisive(c)' = r
         /\ UNCHANGED <<call, stage, mem, start, out>>
  <1>1. Reply(k, <<r>>) /\ UNCHANGED <<call, stage, mem, start, out>>
        /\ req[k] # << >> /\ Head(req[k]).op = o /\ o # "TX"
        /\ c = Head(req[k]).by /\ r.kind # "-"
        /\ \A d \in Callers \ {c} : ans'[d] = ans[d]
    BY Zenon DEF Single, Answer, caller, Next1
  <1>2. <<r>> \in Seq({r}) /\ Len(<<r>>) = 1
    OBVIOUS
  <1>3. Size(Head(req[k])) = 1
    BY <1>1, Zenon DEF Size
  <1>4. /\ Aligned' /\ c \in Callers /\ call[c] # NoCall
        /\ Head(req[k]) = Batch(c)
        /\ \A d \in Callers \ {c} : Same(d)
        /\ ~Heard(c)
        /\ Decisive(c)' = <<r>>[Size(Batch(c))]
        /\ Heard(c)' <=> <<r>>[Size(Batch(c))].kind # "-"
    <2> DEFINE rs == <<r>>
    <2>1. rs \in Seq({r}) /\ Len(rs) = Size(Head(req[k])) /\ Reply(k, rs)
      BY <1>1, <1>2, <1>3, Zenon
    <2> HIDE DEF rs
    <2>2. /\ Aligned' /\ c \in Callers /\ call[c] # NoCall
          /\ Head(req[k]) = Batch(c)
          /\ \A d \in Callers \ {c} : Same(d)
          /\ ~Heard(c)
          /\ Decisive(c)' = rs[Size(Batch(c))]
          /\ Heard(c)' <=> rs[Size(Batch(c))].kind # "-"
      <3>1. Replies(k, rs, c)
        BY <1>1, <2>1, Zenon DEF Replies
      <3>2. TypeOK /\ Aligned
        BY Zenon DEF StoreInv
      <3> QED BY <3>1, <3>2, ReplyEffect, Zenon
    <2> QED BY <2>2, Zenon DEF rs
  <1>5. Size(Batch(c)) = 1 /\ <<r>>[1] = r
    BY <1>3, <1>4, Zenon
  <1>6. ClientTypes'
    BY <1>1, <1>4, ClientTypesStep, Zenon DEF StoreInv
  <1> QED BY <1>1, <1>4, <1>5, <1>6, Zenon

LEMMA AnswersDomain ==
  ASSUME TypeOK, NEW c \in Callers, NEW a, Effective(c, a)
  PROVE  /\ DOMAIN ans' = Callers /\ ans'[c] = a
         /\ \A d \in Callers \ {c} : ans'[d] = ans[d]
  BY Zenon DEF Effective, TypeOK

\* Nothing was answered to a command that is about to be executed.
LEMMA Unanswered ==
  ASSUME StoreInv, NEW c \in Callers, ~Heard(c), stage[c] # "rows"
  PROVE  ans[c] = NoAns
  BY Zenon DEF StoreInv, AnswersHeld, AnswerHeld

\* A command that only reads.
LEMMA ReadStep ==
  ASSUME StoreInv, NEW c \in Callers, \A d \in Callers \ {c} : Same(d),
         UNCHANGED redis, UNCHANGED caller, DOMAIN ans' = Callers,
         ClientTypes', Aligned',
         stage[c] \notin {"seq", "claim", "write"},
         call[c].op = "set" => ReadHolds(c)',
         AnswerHeld(c)'
  PROVE  StoreInv'
  <1>1. UNCHANGED <<hash, index, seqno, rows, call, stage, mem, start, out>>
    BY Zenon DEF redis, caller
  <1>2. TypeOK'
    BY <1>1, CallTypes, Zenon DEF StoreInv, TypeOK
  <1>3. \A n \in Nat : ~Ticket(c, n)'
    BY <1>1, Zenon DEF Ticket
  <1>4. \A j \in Jobs : ~Claim(c, j)'
    BY <1>1, Zenon DEF Claim
  <1>5. start'[c] <= seqno
    BY <1>1, Zenon DEF StoreInv, TicketsFresh
  <1> QED BY <1>1, <1>2, <1>3, <1>4, <1>5, LocalStep, Zenon

LEMMA HmgetStep ==
  ASSUME StoreInv, NEW k \in Conns, ExecHmget(k)
  PROVE  StoreInv'
  <1> DEFINE b == Head(req[k])
  <1>0. PICK c : c = b.by
    BY Zenon
  <1> DEFINE r == [kind |-> "*", status |-> hash[b.job].status, seq |-> hash[b.job].seq]
  <1>1. Next1(k, "HMGET") /\ Answer(k, <<r>>) /\ UNCHANGED <<redis, caller, ans>>
    BY Zenon DEF ExecHmget
  <1>2. r.kind = "*" /\ r.status = hash[b.job].status /\ r.seq = hash[b.job].seq
    BY Zenon
  <1> HIDE DEF r
  <1>3. /\ Aligned' /\ ClientTypes' /\ c \in Callers /\ call[c] # NoCall
        /\ Batch(c).op = "HMGET" /\ b = Batch(c)
        /\ \A d \in Callers \ {c} : Same(d)
        /\ ~Heard(c) /\ Heard(c)' /\ Decisive(c)' = r
        /\ UNCHANGED <<call, stage, mem, start, out>>
    <2>1. r.kind # "-" /\ "HMGET" # "TX"
      BY <1>2
    <2>2. Single(k, "HMGET", r, c)
      BY <1>0, <1>1, <2>1, Zenon DEF Single
    <2> HIDE DEF StoreInv
    <2> QED BY <2>2, SingleEffect, Zenon
  <1>4. stage[c] = "read" /\ b.job = call[c].job
    <2>1. stage[c] = "read"
      BY <1>3, BatchFacts, Zenon DEF StoreInv
    <2>2. Batch(c).job = call[c].job
      BY <1>3, <2>1, BatchFacts, Zenon DEF StoreInv
    <2> QED BY <1>3, <2>1, <2>2, Zenon
  <1>5. ans[c] = NoAns /\ NoAns' = NoAns /\ ans' = ans
    BY <1>1, <1>3, <1>4, Unanswered, Zenon DEF NoAns
  <1>6. AnswerHeld(c)'
    BY <1>3, <1>4, <1>5, Zenon DEF AnswerHeld
  <1>7. ReadHolds(c)'
    BY <1>1, <1>2, <1>3, <1>4, Zenon DEF ReadHolds, redis
  <1>8. DOMAIN ans' = Callers
    BY <1>5, Zenon DEF StoreInv, TypeOK
  <1> QED BY <1>1, <1>3, <1>4, <1>6, <1>7, <1>8, ReadStep, Zenon

LEMMA HgetallStep ==
  ASSUME StoreInv, NEW k \in Conns, ExecHgetall(k)
  PROVE  StoreInv'
  <1> DEFINE b == Head(req[k])
  <1>0. PICK c : c = b.by
    BY Zenon
  <1> DEFINE r == [kind |-> "*", fields |-> Fields(b.job)]
  <1>1. /\ Next1(k, "HGETALL") /\ Answer(k, <<r>>) /\ UNCHANGED <<redis, caller>>
        /\ call[c].op = "get" => Effective(c, Row(Fields(b.job)))
        /\ call[c].op # "get" => UNCHANGED ans
    BY <1>0, Zenon DEF ExecHgetall
  <1>2. r.kind = "*" /\ r.fields = Fields(b.job)
    BY Zenon
  <1> HIDE DEF r
  <1>3. req[k] # << >> /\ c \in Callers
    BY <1>0, <1>1, Owner, Zenon DEF Next1, StoreInv
  <1>4. DOMAIN ans' = Callers /\ \A d \in Callers \ {c} : ans'[d] = ans[d]
    BY <1>1, <1>3, AnswersDomain, Zenon DEF StoreInv, TypeOK
  <1>5. /\ Aligned' /\ ClientTypes' /\ c \in Callers /\ call[c] # NoCall
        /\ Batch(c).op = "HGETALL" /\ b = Batch(c)
        /\ \A d \in Callers \ {c} : Same(d)
        /\ ~Heard(c) /\ Heard(c)' /\ Decisive(c)' = r
        /\ UNCHANGED <<call, stage, mem, start, out>>
    <2>1. r.kind # "-" /\ "HGETALL" # "TX"
      BY <1>2
    <2>2. Single(k, "HGETALL", r, c)
      BY <1>0, <1>1, <1>4, <2>1, Zenon DEF Single
    <2> HIDE DEF StoreInv
    <2> QED BY <2>2, SingleEffect, Zenon
  <1>6. stage[c] \in {"row", "exists", "rows"}
    BY <1>5, BatchFacts, Zenon DEF StoreInv
  <1>7. NoAns' = NoAns /\ UNCHANGED hash
    BY <1>1, Zenon DEF NoAns, redis
  <1>8. CASE stage[c] = "row"
    <2>1. call[c].op = "get"
      BY <1>5, <1>8, StageFacts, Zenon DEF StoreInv
    <2>2. ans'[c] = Row(Fields(b.job))
      BY <1>1, <1>5, <2>1, AnswersDomain, Zenon DEF StoreInv
    <2>3. AnswerHeld(c)'
      BY <1>2, <1>5, <1>8, <2>2, Zenon DEF AnswerHeld, Row
    <2> QED BY <1>1, <1>4, <1>5, <1>8, <2>1, <2>3, ReadStep, Zenon
  <1>9. CASE stage[c] = "exists"
    <2>1. call[c].op = "set" /\ b.job = call[c].job
      <3>1. call[c].op = "set"
        BY <1>5, <1>9, StageFacts, Zenon DEF StoreInv
      <3>2. Batch(c).job = call[c].job
        BY <1>5, <1>9, BatchFacts, Zenon DEF StoreInv
      <3> QED BY <1>5, <3>1, <3>2, Zenon
    <2>2. ans'[c] = NoAns
      BY <1>1, <1>5, <1>9, <2>1, Unanswered, Zenon
    <2>3. AnswerHeld(c)'
      BY <1>5, <1>7, <1>9, <2>2, Zenon DEF AnswerHeld
    <2>4. ~hash[b.job].claimed
      BY <1>5, <1>9, <2>1, Zenon DEF StoreInv, SetExclusive, ReadHolds
    <2>5. ReadHolds(c)'
      BY <1>2, <1>5, <1>7, <1>9, <2>1, <2>4, Zenon DEF ReadHolds, Fields
    <2> QED BY <1>1, <1>4, <1>5, <1>9, <2>3, <2>5, ReadStep, Zenon
  <1>10. CASE stage[c] = "rows"
    <2>1. call[c].op = "list" /\ b.job = Head(mem[c].ids)
      <3>1. call[c].op = "list"
        BY <1>5, <1>10, StageFacts, Zenon DEF StoreInv
      <3>2. Batch(c).job = Head(mem[c].ids)
        BY <1>5, <1>10, BatchFacts, Zenon DEF StoreInv
      <3> QED BY <1>5, <3>1, <3>2, Zenon
    <2>2. AnswerHeld(c)
      BY <1>5, Zenon DEF StoreInv, AnswersHeld
    <2>3. /\ mem[c].ids # << >> /\ mem[c].ids \in Seq({j \in Jobs : Created(j)})
          /\ ans[c] = Ids(mem[c].got \o mem[c].ids)
      BY <1>10, <2>2, Zenon DEF AnswerHeld
    <2>4. b.job \in Jobs /\ Created(b.job)
      BY <2>1, <2>3, Listed
    <2>5. hash[b.job].claimed /\ hash[b.job].status \in Status
      BY <2>4, Zenon DEF StoreInv, HashesWhole, TypeOK, Created
    <2>6. Fields(b.job) # "NONE"
      BY <2>5, RedisAssumption, Zenon DEF Fields
    <2>7. {j \in Jobs : Created(j)}' = {j \in Jobs : Created(j)}
      BY <1>7, CreatedFrame, Zenon
    <2>8. AnswerHeld(c)'
      BY <1>1, <1>2, <1>5, <1>10, <2>1, <2>3, <2>6, <2>7, Zenon DEF AnswerHeld, Ids
    <2> QED BY <1>1, <1>4, <1>5, <1>10, <2>1, <2>8, ReadStep, Zenon
  <1> QED BY <1>6, <1>8, <1>9, <1>10, Zenon

LEMMA LrangeStep ==
  ASSUME StoreInv, NEW k \in Conns, ExecLrange(k)
  PROVE  StoreInv'
  <1> DEFINE b == Head(req[k])
  <1>0. PICK c : c = b.by
    BY Zenon
  <1> DEFINE r == [kind |-> "*", items |-> rows[b.job]]
  <1>1. /\ Next1(k, "LRANGE") /\ Answer(k, <<r>>) /\ UNCHANGED <<redis, caller>>
        /\ Effective(c, Count(rows[b.job]))
    BY <1>0, Zenon DEF ExecLrange
  <1>2. r.kind = "*" /\ r.items = rows[b.job]
    BY Zenon
  <1> HIDE DEF r
  <1>3. c \in Callers
    BY <1>0, <1>1, Owner, Zenon DEF Next1, StoreInv
  <1>4. /\ DOMAIN ans' = Callers /\ ans'[c] = Count(rows[b.job])
        /\ \A d \in Callers \ {c} : ans'[d] = ans[d]
    BY <1>1, <1>3, AnswersDomain, Zenon DEF StoreInv
  <1>5. /\ Aligned' /\ ClientTypes' /\ c \in Callers /\ call[c] # NoCall
        /\ Batch(c).op = "LRANGE" /\ b = Batch(c)
        /\ \A d \in Callers \ {c} : Same(d)
        /\ ~Heard(c) /\ Heard(c)' /\ Decisive(c)' = r
        /\ UNCHANGED <<call, stage, mem, start, out>>
    <2>1. r.kind # "-" /\ "LRANGE" # "TX"
      BY <1>2
    <2>2. Single(k, "LRANGE", r, c)
      BY <1>0, <1>1, <1>4, <2>1, Zenon DEF Single
    <2> HIDE DEF StoreInv
    <2> QED BY <2>2, SingleEffect, Zenon
  <1>6. stage[c] = "range" /\ call[c].op = "steps"
    BY <1>5, BatchFacts, StageFacts, Zenon DEF StoreInv
  <1>7. AnswerHeld(c)'
    BY <1>2, <1>4, <1>5, <1>6, Zenon DEF AnswerHeld, Count
  <1> QED BY <1>1, <1>4, <1>5, <1>6, <1>7, ReadStep, Zenon

\* An error reply tells its caller nothing.
LEMMA RefuseStep ==
  ASSUME StoreInv, NEW k \in Conns, Refuse(k)
  PROVE  StoreInv'
  <1> USE DEF StoreInv
  <1> DEFINE n == Size(Head(req[k]))
             rs == [i \in 1..n |-> IF i = 1 /\ n > 1 THEN Simple ELSE RedisError]
  <1>0. PICK c : c = Head(req[k]).by
    BY Zenon
  <1>1. Reply(k, rs) /\ UNCHANGED <<hash, index, seqno, rows, call, stage, mem, start, out, ans>>
    BY Zenon DEF Refuse, Refused, redis, caller
  <1>2. n \in Nat /\ n >= 1
    BY SizeFacts, Zenon
  <1> HIDE DEF n
  <1>3. rs \in Seq({Simple, RedisError}) /\ Len(rs) = n /\ rs[n] = RedisError
    BY <1>2
  <1>4. RedisError.kind = "-"
    BY Zenon DEF RedisError
  <1> HIDE DEF rs
  <1>5. /\ Aligned' /\ c \in Callers /\ call[c] # NoCall
        /\ Head(req[k]) = Batch(c)
        /\ \A d \in Callers \ {c} : Same(d)
        /\ ~Heard(c)
        /\ Heard(c)' <=> rs[Size(Batch(c))].kind # "-"
    <2>1. Replies(k, rs, c)
      BY <1>0, <1>1, <1>3, Zenon DEF Replies, n
    <2>2. TypeOK /\ Aligned
      BY Zenon
    <2> HIDE DEF StoreInv
    <2> QED BY <2>1, <2>2, ReplyEffect, Zenon
  <1>6. ~Heard(c)'
    BY <1>3, <1>4, <1>5, Zenon DEF n
  <1>7. TypeOK'
    <2>1. ClientTypes'
      BY <1>1, <1>5, ClientTypesStep, Zenon
    <2> QED BY <1>1, <2>1, CallTypes, Zenon DEF TypeOK, caller
  <1>8. \A i \in Nat : Ticket(c, i)' => Ticket(c, i) /\ start'[c] = start[c]
    BY <1>1, <1>5, <1>6, Zenon DEF Ticket
  <1>9. \A j \in Jobs : Claim(c, j)' => Claim(c, j)
    BY <1>1, <1>5, <1>6, Zenon DEF Claim
  <1>10. call'[c].op = "set" => ReadHolds(c)'
    <2>1. ReadHolds(c) => ReadHolds(c)'
      BY <1>1, <1>5, <1>6, Zenon DEF ReadHolds
    <2> QED BY <1>1, <1>5, <2>1, Zenon DEF SetExclusive
  <1>11. AnswerHeld(c)'
    <2>1. AnswerHeld(c)
      BY <1>5, Zenon DEF AnswersHeld
    <2>2. {j \in Jobs : Created(j)}' = {j \in Jobs : Created(j)}
      BY <1>1, CreatedFrame, Zenon
    <2> QED BY <1>1, <1>5, <1>6, <2>1, <2>2, Zenon DEF AnswerHeld, NoAns, Ids
  <1>12. start'[c] <= seqno
    BY <1>1, <1>5, Zenon DEF TicketsFresh
  <1> QED BY <1>1, <1>5, <1>7, <1>8, <1>9, <1>10, <1>11, <1>12, LocalStep, Zenon

LEMMA IncrStep ==
  ASSUME StoreInv, NEW k \in Conns, ExecIncr(k)
  PROVE  StoreInv'
  <1> USE DEF StoreInv
  <1> DEFINE b == Head(req[k])
  <1>0. PICK c : c = b.by
    BY Zenon
  <1> DEFINE r == Integer(seqno + 1)
  <1>1. /\ Next1(k, "INCR") /\ Answer(k, <<r>>) /\ UNCHANGED <<caller, ans>>
        /\ seqno' = seqno + 1 /\ UNCHANGED <<hash, index, rows>>
    BY Zenon DEF ExecIncr
  <1>2. r.kind = ":" /\ r.num = seqno + 1 /\ seqno + 1 \in Nat /\ seqno \in Nat
    BY DEF Integer, TypeOK
  <1> HIDE DEF r
  <1>3. /\ Aligned' /\ ClientTypes' /\ c \in Callers /\ call[c] # NoCall
        /\ Batch(c).op = "INCR" /\ b = Batch(c)
        /\ \A d \in Callers \ {c} : Same(d)
        /\ ~Heard(c) /\ Heard(c)' /\ Decisive(c)' = r
        /\ UNCHANGED <<call, stage, mem, start, out>>
    <2>1. r.kind # "-" /\ "INCR" # "TX"
      BY <1>2
    <2>2. Single(k, "INCR", r, c)
      BY <1>0, <1>1, <2>1, Zenon DEF Single
    <2> HIDE DEF StoreInv
    <2> QED BY <2>2, SingleEffect, Zenon
  <1>4. stage[c] = "seq" /\ call[c].op = "create"
    BY <1>3, BatchFacts, StageFacts, Zenon
  <1>5. TypeOK'
    BY <1>1, <1>2, <1>3, CallTypes, Zenon DEF TypeOK
  <1>6. \A j \in Jobs : Created(j)' <=> Created(j)
    BY <1>1, CreatedFrame, Zenon
  <1>7. TicketsFresh'
    <2>1. \A n \in Nat : Ticket(c, n)' <=> n = seqno + 1
      BY <1>2, <1>3, <1>4, Zenon DEF Ticket
    <2>2. \A d \in Callers \ {c}, n \in Nat : Ticket(d, n)' <=> Ticket(d, n)
      BY <1>3, SameFacts, Zenon
    <2>3. \A d \in Callers, n \in Nat : Ticket(d, n) => n # seqno + 1
      BY <1>2 DEF TicketsFresh
    <2>4. \A j \in Jobs : Created(j) => hash[j].seq \in 1..seqno
      BY Zenon DEF HashesWhole
    <2>5. ASSUME NEW d \in Callers
          PROVE  start'[d] <= seqno'
      <3>1. start[d] \in Nat /\ seqno \in Nat
        BY <2>5, Zenon DEF TypeOK
      <3>2. start'[d] = start[d] /\ seqno' = seqno + 1 /\ start[d] <= seqno
        BY <1>1, <1>3, <2>5, Zenon DEF TicketsFresh
      <3> HIDE DEF StoreInv
      <3> QED BY <3>1, <3>2
    <2>6. ASSUME NEW d \in Callers, NEW n \in Nat, Ticket(d, n)'
          PROVE  /\ start'[d] < n /\ n <= seqno'
                 /\ \A j \in Jobs : Created(j)' => hash'[j].seq # n
                 /\ \A e \in Callers : Ticket(e, n)' => e = d
      <3>1. CASE d = c
        <4>1. n = seqno + 1
          BY <2>1, <2>6, <3>1, Zenon
        <4>2. start[d] <= seqno /\ start[d] \in Nat
          BY Zenon DEF TicketsFresh, TypeOK
        <4>3. \A e \in Callers : Ticket(e, n)' => e = d
          BY <2>2, <2>3, <3>1, <4>1, Zenon
        <4>4. \A j \in Jobs : Created(j)' => hash'[j].seq # n
          BY <1>1, <1>2, <1>6, <2>4, <4>1
        <4> QED BY <1>1, <1>2, <1>3, <4>1, <4>2, <4>3, <4>4
      <3>2. CASE d # c
        <4>1. Ticket(d, n) /\ n # seqno + 1
          BY <2>2, <2>3, <2>6, <3>2, Zenon
        <4>2. /\ start[d] < n /\ n <= seqno
              /\ \A j \in Jobs : Created(j) => hash[j].seq # n
              /\ \A e \in Callers : Ticket(e, n) => e = d
          BY <4>1, Zenon DEF TicketsFresh
        <4>3. \A e \in Callers : Ticket(e, n)' => e = d
          BY <2>1, <2>2, <4>1, <4>2, Zenon
        <4>4. start'[d] < n /\ \A j \in Jobs : Created(j)' => hash'[j].seq # n
          BY <1>1, <1>3, <1>6, <4>2, Zenon
        <4>5. n <= seqno'
          <5> HIDE DEF StoreInv
          <5> QED BY <1>1, <1>2, <4>2
        <4> QED BY <4>3, <4>4, <4>5, Zenon
      <3> QED BY <3>1, <3>2, Zenon
    <2> QED BY <2>5, <2>6, Zenon DEF TicketsFresh
  <1>8. ClaimsExclusive'
    <2>1. \A j \in Jobs : ~Claim(c, j)'
      BY <1>3, <1>4, Zenon DEF Claim
    <2> QED BY <1>1, <1>3, <2>1, LocalClaims, Zenon
  <1>9. SetExclusive'
    BY <1>1, <1>3, <1>4, LocalSets, Zenon
  <1>10. HashesWhole'
    BY <1>1, <1>2, <1>6 DEF HashesWhole
  <1>11. IndexAgrees' /\ RanksDistinct'
    BY <1>1, Zenon DEF IndexAgrees, RanksDistinct, Created
  <1>12. AnswersHeld'
    <2>1. \A d \in Callers \ {c} : AnswerHeld(d)'
      BY <1>1, <1>3, AnswerFrame, CreatedFrame, Zenon DEF AnswersHeld
    <2>2. ans[c] = NoAns /\ NoAns' = NoAns
      BY <1>3, <1>4, Unanswered, Zenon DEF NoAns
    <2>3. AnswerHeld(c)'
      BY <1>1, <1>2, <1>3, <1>4, <2>2, Zenon DEF AnswerHeld
    <2> QED BY <2>1, <2>3, Zenon DEF AnswersHeld
  <1> QED BY <1>3, <1>5, <1>7, <1>8, <1>9, <1>10, <1>11, <1>12, Zenon

LEMMA RpushStep ==
  ASSUME StoreInv, NEW k \in Conns, ExecRpush(k)
  PROVE  StoreInv'
  <1> USE DEF StoreInv
  <1> DEFINE b == Head(req[k])
  <1>0. PICK c : c = b.by
    BY Zenon
  <1> DEFINE r == Integer(rows[b.job] + 1)
  <1>1. /\ Next1(k, "RPUSH") /\ Answer(k, <<r>>) /\ UNCHANGED caller
        /\ rows' = [rows EXCEPT ![b.job] = @ + 1] /\ Effective(c, Done)
        /\ UNCHANGED <<hash, index, seqno>>
    BY <1>0, Zenon DEF ExecRpush
  <1>2. r.kind = ":"
    BY Zenon DEF Integer
  <1> HIDE DEF r
  <1>3. c \in Callers
    BY <1>0, <1>1, Owner, Zenon DEF Next1
  <1>4. /\ DOMAIN ans' = Callers /\ ans'[c] = Done
        /\ \A d \in Callers \ {c} : ans'[d] = ans[d]
    BY <1>1, <1>3, AnswersDomain, Zenon
  <1>5. /\ Aligned' /\ ClientTypes' /\ c \in Callers /\ call[c] # NoCall
        /\ Batch(c).op = "RPUSH" /\ b = Batch(c)
        /\ \A d \in Callers \ {c} : Same(d)
        /\ ~Heard(c) /\ Heard(c)' /\ Decisive(c)' = r
        /\ UNCHANGED <<call, stage, mem, start, out>>
    <2>1. r.kind # "-" /\ "RPUSH" # "TX"
      BY <1>2
    <2>2. Single(k, "RPUSH", r, c)
      BY <1>0, <1>1, <1>4, <2>1, Zenon DEF Single
    <2> HIDE DEF StoreInv
    <2> QED BY <2>2, SingleEffect, Zenon
  <1>6. stage[c] = "push" /\ call[c].op = "append"
    BY <1>5, BatchFacts, StageFacts, Zenon
  <1>7. TypeOK'
    <2>1. rows' \in [Jobs -> Nat]
      <3>1. rows \in [Jobs -> Nat]
        BY Zenon DEF TypeOK
      <3>2. b.job \in Jobs
        <4>1. Batch(c).job = call[c].job
          BY <1>5, <1>6, BatchFacts, Zenon
        <4>2. call[c].job \in Jobs
          BY <1>5, <1>6, StageFacts, Zenon
        <4> QED BY <1>5, <4>1, <4>2, Zenon
      <3> HIDE DEF b
      <3> QED BY <1>1, <3>1, <3>2
    <2> QED BY <1>1, <1>4, <1>5, <2>1, CallTypes, Zenon DEF TypeOK
  <1>8. TicketsFresh'
    <2>1. \A n \in Nat : ~Ticket(c, n)'
      BY <1>5, <1>6, Zenon DEF Ticket
    <2>2. start'[c] <= seqno
      BY <1>5, Zenon DEF TicketsFresh
    <2> QED BY <1>1, <1>5, <2>1, <2>2, LocalTickets, Zenon
  <1>9. ClaimsExclusive'
    <2>1. \A j \in Jobs : ~Claim(c, j)'
      BY <1>5, <1>6, Zenon DEF Claim
    <2> QED BY <1>1, <1>5, <2>1, LocalClaims, Zenon
  <1>10. SetExclusive'
    BY <1>1, <1>5, <1>6, LocalSets, Zenon
  <1>11. HashesWhole' /\ IndexAgrees' /\ RanksDistinct'
    BY <1>1, Zenon DEF HashesWhole, IndexAgrees, RanksDistinct, Created
  <1>12. AnswersHeld'
    <2>1. \A d \in Callers \ {c} : AnswerHeld(d)'
      BY <1>1, <1>5, AnswerFrame, CreatedFrame, Zenon DEF AnswersHeld
    <2>2. AnswerHeld(c)'
      BY <1>4, <1>5, <1>6, Zenon DEF AnswerHeld, Done
    <2> QED BY <2>1, <2>2, Zenon DEF AnswersHeld
  <1> QED BY <1>5, <1>7, <1>8, <1>9, <1>10, <1>11, <1>12, Zenon

LEMMA HsetnxStep ==
  ASSUME StoreInv, NEW k \in Conns, ExecHsetnx(k)
  PROVE  StoreInv'
  <1> USE DEF StoreInv
  <1> DEFINE b == Head(req[k])
  <1>0. PICK c, j : c = b.by /\ j = b.job
    BY Zenon
  <1> DEFINE r == Integer(IF hash[j].claimed THEN 0 ELSE 1)
  <1>1. /\ Next1(k, "HSETNX") /\ Answer(k, <<r>>) /\ UNCHANGED <<caller, ans>>
        /\ hash' = [hash EXCEPT ![j] = [claimed |-> TRUE, status |-> @.status, seq |-> @.seq]]
        /\ UNCHANGED <<index, seqno, rows>>
    BY <1>0, Zenon DEF ExecHsetnx
  <1>2. r.kind = ":" /\ r.num = (IF hash[j].claimed THEN 0 ELSE 1)
    BY Zenon DEF Integer
  <1> HIDE DEF r
  <1>3. /\ Aligned' /\ ClientTypes' /\ c \in Callers /\ call[c] # NoCall
        /\ Batch(c).op = "HSETNX" /\ b = Batch(c)
        /\ \A d \in Callers \ {c} : Same(d)
        /\ ~Heard(c) /\ Heard(c)' /\ Decisive(c)' = r
        /\ UNCHANGED <<call, stage, mem, start, out>>
    <2>1. /\ Next1(k, "HSETNX") /\ Answer(k, <<r>>) /\ UNCHANGED caller /\ ans' = ans
      BY <1>1, Zenon
    <2>2. r.kind # "-" /\ "HSETNX" # "TX"
      BY <1>2
    <2>3. Single(k, "HSETNX", r, c)
      BY <1>0, <2>1, <2>2, Zenon DEF Single
    <2> HIDE DEF StoreInv
    <2> QED BY <2>3, SingleEffect, Zenon
  <1>4. stage[c] = "claim" /\ call[c].op = "create" /\ call[c].job = j /\ j \in Jobs
    <2>1. stage[c] = "claim" /\ Batch(c).job = call[c].job
      BY <1>3, BatchFacts, Zenon
    <2>2. call[c].op = "create" /\ call[c].job \in Jobs
      BY <1>3, <2>1, StageFacts, Zenon
    <2> QED BY <1>0, <1>3, <2>1, <2>2, Zenon
  <1>5. /\ hash' \in [Jobs -> [claimed : BOOLEAN, status : Status \cup {"blank"}, seq : Nat]]
        /\ \A i \in Jobs : hash'[i].status = hash[i].status /\ hash'[i].seq = hash[i].seq
        /\ \A i \in Jobs : hash[i].claimed => hash'[i].claimed
        /\ hash'[j].claimed
        /\ \A i \in Jobs \ {j} : hash'[i] = hash[i]
    BY <1>1, <1>4, Zenon DEF TypeOK
  <1>6. TypeOK'
    BY <1>1, <1>3, <1>5, CallTypes, Zenon DEF TypeOK
  <1>7. \A i \in Jobs : Created(i)' <=> Created(i)
    BY <1>5, Zenon DEF Created
  <1>8. TicketsFresh'
    <2>1. \A n \in Nat : Ticket(c, n)' <=> Ticket(c, n)
      BY <1>3, <1>4, Zenon DEF Ticket
    <2>2. \A d \in Callers, n \in Nat : Ticket(d, n)' <=> Ticket(d, n)
      BY <1>3, <2>1, SameFacts, Zenon
    <2>3. /\ TicketsFresh /\ start' = start /\ seqno' = seqno
          /\ \A i \in Jobs : (Created(i)' <=> Created(i)) /\ hash'[i].seq = hash[i].seq
      BY <1>1, <1>3, <1>5, <1>7, Zenon
    <2> HIDE DEF StoreInv
    <2> QED BY <2>2, <2>3, Zenon DEF TicketsFresh
  <1>9. ClaimsExclusive'
    <2>1. \A i \in Jobs : Claim(c, i)' => i = j /\ ~hash[j].claimed
      BY <1>2, <1>3, <1>4, Zenon DEF Claim
    <2>2. \A d \in Callers \ {c}, i \in Jobs : Claim(d, i)' <=> Claim(d, i)
      BY <1>3, SameFacts, Zenon
    <2>3. \A d \in Callers, i \in Jobs : Claim(d, i) =>
            hash[i].claimed /\ ~Created(i) /\ \A e \in Callers : Claim(e, i) => e = d
      BY Zenon DEF ClaimsExclusive
    <2>4. ~hash[j].claimed => ~Created(j)
      BY <1>4, Zenon DEF HashesWhole
    <2>5. ASSUME NEW d \in Callers, NEW i \in Jobs, Claim(d, i)'
          PROVE  /\ hash'[i].claimed /\ ~Created(i)'
                 /\ \A e \in Callers : Claim(e, i)' => e = d
      <3>1. CASE d = c
        BY <1>5, <1>7, <2>1, <2>2, <2>3, <2>4, <2>5, <3>1, Zenon
      <3>2. CASE d # c
        BY <1>5, <1>7, <2>1, <2>2, <2>3, <2>5, <3>2
      <3> QED BY <3>1, <3>2, Zenon
    <2> QED BY <2>5, Zenon DEF ClaimsExclusive
  <1>10. SetExclusive'
    <2>1. \A d \in Callers : call'[d] = call[d]
      BY <1>3, Zenon
    <2>2. ASSUME NEW d \in Callers, call[d].op = "set"
          PROVE  d # c /\ call[d].job \in Jobs \ {j} /\ hash'[call[d].job] = hash[call[d].job]
      <3>1. call[d].job \in Jobs /\ d # c
        BY <1>4, <2>2, StageFacts, Zenon
      <3>2. call[d].job # j
        BY <1>3, <1>4, <2>2, <3>1, Zenon DEF SetExclusive
      <3> QED BY <1>5, <3>1, <3>2, Zenon
    <2>3. \A d \in Callers : call[d].op = "set" => ReadHolds(d)'
      BY <1>3, <2>2, ReadFrame, Zenon DEF SetExclusive
    <2> QED BY <1>3, <2>1, <2>2, <2>3, Zenon DEF SetExclusive, Created
  <1>11. HashesWhole'
    BY <1>1, <1>5, <1>7, ZenonT(60) DEF HashesWhole
  <1>12. IndexAgrees' /\ RanksDistinct'
    <2>1. IndexAgrees'
      BY <1>1, <1>5 DEF IndexAgrees
    <2>2. RanksDistinct'
      BY <1>5, <1>7, Zenon DEF RanksDistinct
    <2> QED BY <2>1, <2>2, Zenon
  <1>13. AnswersHeld'
    <2>1. {i \in Jobs : Created(i)}' = {i \in Jobs : Created(i)}
      BY <1>7, Zenon
    <2>2. \A d \in Callers \ {c} : AnswerHeld(d)'
      BY <1>3, <2>1, AnswerFrame, Zenon DEF AnswersHeld
    <2>3. ans[c] = NoAns /\ NoAns' = NoAns
      BY <1>3, <1>4, Unanswered, Zenon DEF NoAns
    <2>4. AnswerHeld(c)'
      BY <1>1, <1>3, <1>4, <2>3, Zenon DEF AnswerHeld
    <2> QED BY <2>2, <2>4, Zenon DEF AnswersHeld
  <1> QED BY <1>3, <1>6, <1>8, <1>9, <1>10, <1>11, <1>12, <1>13, Zenon

\* What a transaction does to its caller, and which one it is.
LEMMA TxEffect ==
  ASSUME StoreInv, NEW k \in Conns, ExecTx(k), NEW c, c = Head(req[k]).by
  PROVE  /\ Aligned' /\ ClientTypes'
         /\ c \in Callers /\ stage[c] = "write" /\ Head(req[k]) = Batch(c)
         /\ \A d \in Callers \ {c} : Same(d)
         /\ ~Heard(c) /\ Heard(c)'
         /\ UNCHANGED <<call, stage, mem, start, out>>
         /\ DOMAIN ans' = Callers /\ ans'[c] = Done
         /\ call[c].op \in {"create", "set"} /\ call[c].job \in Jobs
  <1> USE DEF StoreInv
  <1> DEFINE b == Head(req[k])
             rs == [i \in 1..Size(b) |-> Simple]
  <1>1. /\ req[k] # << >> /\ b.op = "TX" /\ Reply(k, rs) /\ Effective(c, Done)
        /\ UNCHANGED <<call, stage, mem, start, out>>
    BY Zenon DEF ExecTx, Next1, Answer, caller
  <1>2. c \in Callers
    BY <1>1, Owner, Zenon
  <1>3. /\ DOMAIN ans' = Callers /\ ans'[c] = Done
        /\ \A d \in Callers \ {c} : ans'[d] = ans[d]
    BY <1>1, <1>2, AnswersDomain, Zenon
  <1>4. Size(b) \in Nat /\ Size(b) >= 1
    BY SizeFacts, Zenon
  <1>5. rs \in Seq({Simple}) /\ Len(rs) = Size(b) /\ rs[Size(b)] = Simple
    <2> HIDE DEF b
    <2> QED BY <1>4
  <1> HIDE DEF rs
  <1>6. /\ Aligned' /\ c \in Callers /\ call[c] # NoCall
        /\ b = Batch(c)
        /\ \A d \in Callers \ {c} : Same(d)
        /\ ~Heard(c)
        /\ Heard(c)' <=> rs[Size(Batch(c))].kind # "-"
    <2>1. TypeOK /\ Aligned
      BY Zenon
    <2>2. PICK e : e = c
      BY Zenon
    <2>3. Replies(k, rs, e)
      BY <1>1, <1>3, <1>5, <2>2, Zenon DEF Replies
    <2> HIDE DEF StoreInv, b
    <2>4. /\ Aligned' /\ e \in Callers /\ call[e] # NoCall
          /\ Head(req[k]) = Batch(e)
          /\ \A d \in Callers \ {e} : Same(d)
          /\ ~Heard(e)
          /\ Heard(e)' <=> rs[Size(Batch(e))].kind # "-"
      BY <2>1, <2>3, ReplyEffect, Zenon
    <2> QED BY <2>2, <2>4, Zenon DEF b
  <1>7. Heard(c)'
    BY <1>5, <1>6 DEF Simple
  <1>8. ClientTypes'
    BY <1>1, <1>6, ClientTypesStep, Zenon
  <1>9. stage[c] = "write" /\ call[c].op \in {"create", "set"} /\ call[c].job \in Jobs
    BY <1>1, <1>6, BatchFacts, StageFacts, Zenon
  <1> QED BY <1>1, <1>3, <1>6, <1>7, <1>8, <1>9, Zenon

\* What CreateJob's transaction, and SetJobStatus's, do to Redis.
TxCreates(c) ==
  /\ \A i \in Jobs : hash'[i] =
        IF i = call[c].job THEN [claimed |-> hash[i].claimed, status |-> "PENDING", seq |-> mem[c].seq]
                           ELSE hash[i]
  /\ \A s \in Status : index'[s] =
        IF s = "PENDING" THEN ZAdd(index[s], mem[c].seq, call[c].job) ELSE index[s]

TxSets(c) ==
  /\ \A i \in Jobs : hash'[i] =
        IF i = call[c].job THEN [claimed |-> hash[i].claimed, status |-> call[c].status, seq |-> hash[i].seq]
                           ELSE hash[i]
  /\ mem[c].old # "blank" /\ mem[c].old # call[c].status => \A s \in Status : index'[s] =
        IF s = call[c].status THEN ZAdd(index[s], mem[c].seq, call[c].job)
        ELSE IF s = mem[c].old THEN ZRem(index[s], call[c].job) ELSE index[s]
  /\ mem[c].old = "blank" \/ mem[c].old = call[c].status => \A s \in Status : index'[s] = index[s]

\* A transaction writes status s and number n to the hash of job j.
Writes(j, s, n) == hash'[j] = [claimed |-> hash[j].claimed, status |-> s, seq |-> n]

\* The fields of a hash that a transaction has written.
LEMMA Written ==
  ASSUME NEW j, NEW s, NEW n, Writes(j, s, n)
  PROVE  hash'[j].status = s /\ hash'[j].seq = n
  <1>1. PICK h, c : h = hash'[j] /\ c = hash[j].claimed
    BY Zenon
  <1>2. h = [claimed |-> c, status |-> s, seq |-> n]
    BY <1>1, Zenon DEF Writes
  <1>3. h.status = s /\ h.seq = n
    BY <1>2
  <1> QED BY <1>1, <1>3, Zenon

\* The fields of the three transactions.
LEMMA CreateFields ==
  ASSUME NEW c, Batch(c) = CreateTx(c)
  PROVE  /\ Batch(c).job = call[c].job /\ Batch(c).status = "PENDING" /\ Batch(c).seq = mem[c].seq
         /\ Batch(c).rem = "blank" /\ Batch(c).add /\ Batch(c).score = mem[c].seq
  BY DEF CreateTx, Tx

LEMMA MoveFields ==
  ASSUME NEW c, Batch(c) = SetTx(c), mem[c].old # "blank", mem[c].old # call[c].status
  PROVE  /\ Batch(c).job = call[c].job /\ Batch(c).status = call[c].status /\ Batch(c).seq = 0
         /\ Batch(c).rem = mem[c].old /\ Batch(c).add /\ Batch(c).score = mem[c].seq
  BY DEF SetTx, Tx

LEMMA StayFields ==
  ASSUME NEW c, Batch(c) = SetTx(c), mem[c].old = "blank" \/ mem[c].old = call[c].status
  PROVE  /\ Batch(c).job = call[c].job /\ Batch(c).status = call[c].status /\ Batch(c).seq = 0
         /\ Batch(c).rem = "blank" /\ ~Batch(c).add
  BY DEF SetTx, Tx

LEMMA TxRedis ==
  ASSUME StoreInv, NEW k \in Conns, ExecTx(k), NEW c, c = Head(req[k]).by
  PROVE  /\ call[c].op = "create" /\ mem[c].seq # 0 => TxCreates(c)
         /\ call[c].op = "set" => TxSets(c)
         /\ seqno' = seqno /\ rows' = rows
  <1> USE DEF StoreInv
  <1>1. c \in Callers /\ stage[c] = "write" /\ Head(req[k]) = Batch(c) /\ call[c] # NoCall
    <2>1. c \in Callers /\ stage[c] = "write" /\ Head(req[k]) = Batch(c)
      BY TxEffect, Zenon
    <2> QED BY <2>1, StageFacts, Zenon
  <1>2. \A s \in Status : s # "blank"
    BY RedisAssumption, Zenon
  <1>3. /\ hash' = [hash EXCEPT ![Batch(c).job] =
                       [claimed |-> @.claimed, status |-> Batch(c).status,
                        seq |-> IF Batch(c).seq # 0 THEN Batch(c).seq ELSE @.seq]]
        /\ index' = [s \in Status |->
                       LET z == IF s = Batch(c).rem THEN ZRem(index[s], Batch(c).job) ELSE index[s]
                       IN  IF Batch(c).add /\ s = Batch(c).status
                           THEN ZAdd(z, Batch(c).score, Batch(c).job) ELSE z]
        /\ seqno' = seqno /\ rows' = rows
    BY <1>1, Zenon DEF ExecTx
  <1>4. /\ \A i \in Jobs : hash'[i] =
               IF i = Batch(c).job
               THEN [claimed |-> hash[i].claimed, status |-> Batch(c).status,
                     seq |-> IF Batch(c).seq # 0 THEN Batch(c).seq ELSE hash[i].seq]
               ELSE hash[i]
        /\ \A s \in Status : index'[s] =
               LET z == IF s = Batch(c).rem THEN ZRem(index[s], Batch(c).job) ELSE index[s]
               IN  IF Batch(c).add /\ s = Batch(c).status
                   THEN ZAdd(z, Batch(c).score, Batch(c).job) ELSE z
    BY <1>3, Zenon DEF TypeOK
  <1>5. CASE call[c].op = "create" /\ mem[c].seq # 0
    <2>1. Batch(c) = CreateTx(c)
      BY <1>1, <1>5, BatchFacts, Zenon
    <2>2. /\ Batch(c).job = call[c].job /\ Batch(c).status = "PENDING" /\ Batch(c).seq = mem[c].seq
          /\ Batch(c).rem = "blank" /\ Batch(c).add /\ Batch(c).score = mem[c].seq
      BY <2>1, CreateFields, Zenon
    <2> QED BY <1>2, <1>3, <1>4, <1>5, <2>2, ZenonT(60) DEF TxCreates
  <1>6. CASE call[c].op = "set"
    <2>1. Batch(c) = SetTx(c)
      BY <1>1, <1>6, BatchFacts, Zenon
    <2>2. CASE mem[c].old # "blank" /\ mem[c].old # call[c].status
      <3>1. /\ Batch(c).job = call[c].job /\ Batch(c).status = call[c].status /\ Batch(c).seq = 0
            /\ Batch(c).rem = mem[c].old /\ Batch(c).add /\ Batch(c).score = mem[c].seq
        BY <2>1, <2>2, MoveFields, Zenon
      <3>2. \A i \in Jobs : hash'[i] =
                IF i = call[c].job THEN [claimed |-> hash[i].claimed, status |-> call[c].status, seq |-> hash[i].seq]
                         ELSE hash[i]
        <4>1. Batch(c).job = call[c].job /\ Batch(c).status = call[c].status /\ Batch(c).seq = 0
          BY <3>1, Zenon
        <4>2. ASSUME NEW i \in Jobs, i = call[c].job
              PROVE  hash'[i] = [claimed |-> hash[i].claimed, status |-> call[c].status, seq |-> hash[i].seq]
          BY <1>4, <4>1, <4>2, ZenonT(60)
        <4>3. ASSUME NEW i \in Jobs, i # call[c].job
              PROVE  hash'[i] = hash[i]
          BY <1>4, <4>1, <4>3, Zenon
        <4> QED BY <4>2, <4>3, Zenon
      <3>3. \A s \in Status : index'[s] =
                IF s = call[c].status THEN ZAdd(index[s], mem[c].seq, call[c].job)
                ELSE IF s = mem[c].old THEN ZRem(index[s], call[c].job) ELSE index[s]
        <4>1. ASSUME NEW s \in Status
              PROVE  index'[s] = IF s = Batch(c).status THEN ZAdd(index[s], Batch(c).score, Batch(c).job)
                                 ELSE IF s = Batch(c).rem THEN ZRem(index[s], Batch(c).job) ELSE index[s]
          <5>1. index'[s] = LET z == IF s = Batch(c).rem THEN ZRem(index[s], Batch(c).job) ELSE index[s]
                            IN  IF Batch(c).add /\ s = Batch(c).status
                                THEN ZAdd(z, Batch(c).score, Batch(c).job) ELSE z
            BY <1>4, Zenon
          <5>2. Batch(c).add /\ Batch(c).rem # Batch(c).status
            BY <2>2, <3>1, Zenon
          <5>3. CASE s = Batch(c).status
            <6>1. ~(s = Batch(c).rem)
              BY <5>2, <5>3, Zenon
            <6> QED BY <5>1, <5>2, <5>3, <6>1, Zenon
          <5>4. CASE ~(s = Batch(c).status)
            BY <5>1, <5>4, Zenon
          <5> QED BY <5>3, <5>4, Zenon
        <4>2. /\ Batch(c).status = call[c].status /\ Batch(c).job = call[c].job
              /\ Batch(c).rem = mem[c].old /\ Batch(c).score = mem[c].seq
          BY <3>1, Zenon
        <4> QED BY <4>1, <4>2, ZenonT(60)
      <3> QED BY <1>3, <1>6, <2>2, <3>2, <3>3, Zenon DEF TxSets
    <2>3. CASE mem[c].old = "blank" \/ mem[c].old = call[c].status
      <3>1. /\ Batch(c).job = call[c].job /\ Batch(c).status = call[c].status /\ Batch(c).seq = 0
            /\ Batch(c).rem = "blank" /\ ~Batch(c).add
        BY <2>1, <2>3, StayFields, Zenon
      <3>2. \A i \in Jobs : hash'[i] =
                IF i = call[c].job THEN [claimed |-> hash[i].claimed, status |-> call[c].status, seq |-> hash[i].seq]
                         ELSE hash[i]
        BY <1>4, <3>1, ZenonT(60)
      <3>3. \A s \in Status : index'[s] = index[s]
        BY <1>2, <1>4, <3>1, Zenon
      <3> QED BY <1>3, <1>6, <2>3, <3>2, <3>3, Zenon DEF TxSets
    <2> QED BY <2>2, <2>3, Zenon
  <1> QED BY <1>3, <1>4, <1>5, <1>6, Zenon

LEMMA TxFunctions ==
  ASSUME TypeOK, NEW k \in Conns, ExecTx(k)
  PROVE  hash' = [i \in Jobs |-> hash'[i]] /\ index' = [s \in Status |-> index'[s]]
  BY Zenon DEF ExecTx, TypeOK

\* The job of another caller's SetJobStatus is not the one this one writes.
LEMMA OtherSets ==
  ASSUME StoreInv, NEW c \in Callers, call[c].op \in {"create", "set"},
         NEW d \in Callers \ {c}, call[d].op = "set"
  PROVE  call[d].job \in Jobs \ {call[c].job}
  <1>1. call[d].job \in Jobs
    BY StageFacts, Zenon DEF StoreInv
  <1> QED BY <1>1, Zenon DEF StoreInv, SetExclusive

LEMMA CreateTxStep ==
  ASSUME StoreInv, NEW k \in Conns, ExecTx(k), NEW c, c = Head(req[k]).by,
         call[c].op = "create"
  PROVE  StoreInv'
  <1> USE DEF StoreInv
  <1>0. PICK j, n, t, o : /\ j = call[c].job /\ n = mem[c].seq
                          /\ t = call[c].status /\ o = mem[c].old
    BY Zenon
  <1>1. /\ Aligned' /\ ClientTypes'
        /\ c \in Callers /\ stage[c] = "write"
        /\ \A d \in Callers \ {c} : Same(d)
        /\ ~Heard(c) /\ Heard(c)'
        /\ UNCHANGED <<call, stage, mem, start, out>>
        /\ DOMAIN ans' = Callers /\ ans'[c] = Done
        /\ j \in Jobs
    BY <1>0, TxEffect, Zenon
  <1>2. n \in Nat /\ Ticket(c, n) /\ Claim(c, j)
    BY <1>0, <1>1, Zenon DEF TypeOK, Ticket, Claim
  <1>3. /\ start[c] < n /\ n <= seqno
        /\ \A i \in Jobs : Created(i) => hash[i].seq # n
        /\ \A d \in Callers : Ticket(d, n) => d = c
    BY <1>1, <1>2, Zenon DEF TicketsFresh
  <1>4. /\ hash[j].claimed /\ ~Created(j) /\ hash[j].status = "blank"
        /\ \A d \in Callers : Claim(d, j) => d = c
    BY <1>1, <1>2, Zenon DEF ClaimsExclusive, Created
  <1>5. n # 0 /\ n \in 1..seqno
    <2>1. start[c] \in Nat /\ seqno \in Nat
      BY <1>1, Zenon DEF TypeOK
    <2> HIDE DEF StoreInv
    <2> QED BY <1>2, <1>3, <2>1
  <1>6. /\ \A i \in Jobs : hash'[i] =
               IF i = j THEN [claimed |-> hash[i].claimed, status |-> "PENDING", seq |-> n]
                        ELSE hash[i]
        /\ \A s \in Status : index'[s] =
               IF s = "PENDING" THEN ZAdd(index[s], n, j) ELSE index[s]
        /\ seqno' = seqno /\ rows' = rows
    <2>1. mem[c].seq # 0
      BY <1>0, <1>5, Zenon
    <2>2. /\ \A i \in Jobs : hash'[i] =
                 IF i = call[c].job THEN [claimed |-> hash[i].claimed, status |-> "PENDING", seq |-> mem[c].seq]
                          ELSE hash[i]
          /\ \A s \in Status : index'[s] =
                 IF s = "PENDING" THEN ZAdd(index[s], mem[c].seq, call[c].job) ELSE index[s]
          /\ seqno' = seqno /\ rows' = rows
      <3>1. TxCreates(c) /\ seqno' = seqno /\ rows' = rows
        <4> HIDE DEF StoreInv
        <4> QED BY <2>1, TxRedis, Zenon
      <3> QED BY <3>1, Zenon DEF TxCreates
    <2> QED BY <1>0, <2>2, Zenon
  <1>7. /\ hash' \in [Jobs -> [claimed : BOOLEAN, status : Status \cup {"blank"}, seq : Nat]]
        /\ \A i \in Jobs \ {j} : hash'[i] = hash[i]
        /\ hash'[j].claimed /\ hash'[j].status = "PENDING" /\ hash'[j].seq = n
    <2>1. hash' = [i \in Jobs |-> hash'[i]]
      BY TxFunctions, Zenon
    <2>2. /\ \A i \in Jobs \ {j} : hash'[i] = hash[i]
          /\ hash'[j].claimed /\ hash'[j].status = "PENDING" /\ hash'[j].seq = n
      <3>1. hash'[j] = [claimed |-> hash[j].claimed, status |-> "PENDING", seq |-> n]
        BY <1>1, <1>6, Zenon
      <3>2. hash'[j].claimed = hash[j].claimed
        <4>1. hash[j].claimed \in BOOLEAN
          BY <1>1, Zenon DEF TypeOK
        <4> HIDE DEF StoreInv
        <4> QED BY <3>1, <4>1
      <3>3. hash'[j].status = "PENDING" /\ hash'[j].seq = n
        <4>1. Writes(j, "PENDING", n)
          BY <3>1, Zenon DEF Writes
        <4> HIDE DEF StoreInv
        <4> QED BY <4>1, Written, Zenon
      <3>4. \A i \in Jobs \ {j} : hash'[i] = hash[i]
        BY <1>6, Zenon
      <3> QED BY <1>4, <3>2, <3>3, <3>4, Zenon
    <2>3. \A i \in Jobs : hash'[i] \in [claimed : BOOLEAN, status : Status \cup {"blank"}, seq : Nat]
      <3>1. \A i \in Jobs : /\ hash[i] \in [claimed : BOOLEAN, status : Status \cup {"blank"}, seq : Nat]
                            /\ hash[i].claimed \in BOOLEAN
        BY Zenon DEF TypeOK
      <3>2. \A b \in BOOLEAN : [claimed |-> b, status |-> "PENDING", seq |-> n]
                                 \in [claimed : BOOLEAN, status : Status \cup {"blank"}, seq : Nat]
        BY <1>2, RedisAssumption, Zenon
      <3> QED BY <1>6, <3>1, <3>2, Zenon
    <2> QED BY <2>1, <2>2, <2>3, Zenon
  <1>8. \A i \in Jobs : Created(i)' <=> Created(i) \/ i = j
    BY <1>4, <1>7, Zenon DEF Created
  <1>9. IndexAgrees'
    <2>1. ASSUME NEW s \in Status
          PROVE  index'[s] = {<<hash'[i].seq, i>> : i \in {i \in Jobs : hash'[i].status = s}}
      <3>1. index[s] = {<<hash[i].seq, i>> : i \in {i \in Jobs : hash[i].status = s}}
        BY Zenon DEF IndexAgrees
      <3>2. hash[j].status # s
        BY <1>4, RedisAssumption, Zenon
      <3>3. CASE s = "PENDING"
        <4>1. index'[s] = ZAdd(index[s], n, j)
          BY <1>6, <3>3, Zenon
        <4>2. ZRem(index[s], j) = index[s]
          BY <3>1, <3>2 DEF ZRem
        <4>3. {i \in Jobs : hash'[i].status = s} = {i \in Jobs : hash[i].status = s} \cup {j}
          BY <1>1, <1>7, <3>3, Zenon
        <4> QED BY <1>7, <3>1, <3>2, <4>1, <4>2, <4>3 DEF ZAdd
      <3>4. CASE s # "PENDING"
        <4>1. index'[s] = index[s]
          BY <1>6, <3>4, Zenon
        <4>2. {i \in Jobs : hash'[i].status = s} = {i \in Jobs : hash[i].status = s}
          BY <1>1, <1>7, <3>2, <3>4, ZenonT(60)
        <4> QED BY <1>7, <3>1, <3>2, <4>1, <4>2
      <3> QED BY <3>3, <3>4, Zenon
    <2> QED BY <2>1, Zenon DEF IndexAgrees
  <1>10. TypeOK'
    <2>1. index' \in [Status -> SUBSET (Nat \X Jobs)]
      <3>1. \A s \in Status : index'[s] \in SUBSET (Nat \X Jobs)
        <4>1. \A s \in Status : index[s] \in SUBSET (Nat \X Jobs)
          BY Zenon DEF TypeOK
        <4>2. \A z \in SUBSET (Nat \X Jobs) : ZAdd(z, n, j) \in SUBSET (Nat \X Jobs)
          BY <1>1, <1>2 DEF ZAdd, ZRem
        <4> QED BY <1>6, <4>1, <4>2, ZenonT(60)
      <3>2. index' = [s \in Status |-> index'[s]]
        BY TxFunctions, Zenon
      <3> QED BY <3>1, <3>2, Zenon
    <2> QED BY <1>1, <1>6, <1>7, <2>1, CallTypes, Zenon DEF TypeOK, caller
  <1>11. TicketsFresh'
    <2>1. \A m \in Nat : ~Ticket(c, m)'
      BY <1>1, Zenon DEF Ticket
    <2>2. \A d \in Callers \ {c}, m \in Nat : Ticket(d, m)' <=> Ticket(d, m)
      BY <1>1, SameFacts, Zenon
    <2>3. \A d \in Callers : start'[d] <= seqno'
      BY <1>1, <1>6, Zenon DEF TicketsFresh
    <2>4. ASSUME NEW d \in Callers, NEW m \in Nat, Ticket(d, m)'
          PROVE  /\ start'[d] < m /\ m <= seqno'
                 /\ \A i \in Jobs : Created(i)' => hash'[i].seq # m
                 /\ \A e \in Callers : Ticket(e, m)' => e = d
      <3>1. d # c /\ Ticket(d, m)
        BY <2>1, <2>2, <2>4, Zenon
      <3>2. m # n
        BY <1>3, <3>1, Zenon
      <3>3. /\ start[d] < m /\ m <= seqno
            /\ \A i \in Jobs : Created(i) => hash[i].seq # m
            /\ \A e \in Callers : Ticket(e, m) => e = d
        BY <3>1, Zenon DEF TicketsFresh
      <3>4. \A i \in Jobs : Created(i)' => hash'[i].seq # m
        BY <1>7, <1>8, <3>2, <3>3, Zenon
      <3> QED BY <1>1, <1>6, <2>1, <2>2, <3>3, <3>4, Zenon
    <2> QED BY <2>3, <2>4, Zenon DEF TicketsFresh
  <1>12. ClaimsExclusive'
    <2>1. \A i \in Jobs : ~Claim(c, i)'
      BY <1>1, Zenon DEF Claim
    <2>2. \A d \in Callers \ {c}, i \in Jobs : Claim(d, i)' <=> Claim(d, i)
      BY <1>1, SameFacts, Zenon
    <2>3. ASSUME NEW d \in Callers, NEW i \in Jobs, Claim(d, i)'
          PROVE  /\ hash'[i].claimed /\ ~Created(i)'
                 /\ \A e \in Callers : Claim(e, i)' => e = d
      <3>1. d # c /\ Claim(d, i)
        BY <2>1, <2>2, <2>3, Zenon
      <3>2. i # j
        BY <1>1, <1>4, <3>1, Zenon
      <3>3. /\ hash[i].claimed /\ ~Created(i)
            /\ \A e \in Callers : Claim(e, i) => e = d
        BY <3>1, Zenon DEF ClaimsExclusive
      <3> QED BY <1>7, <1>8, <2>1, <2>2, <3>2, <3>3, Zenon
    <2> QED BY <2>3, Zenon DEF ClaimsExclusive
  <1>13. SetExclusive'
    <2>1. \A d \in Callers : call[d].op = "set" =>
              d # c /\ call[d].job \in Jobs \ {j} /\ hash'[call[d].job] = hash[call[d].job]
      BY <1>0, <1>1, <1>7, OtherSets, Zenon
    <2>2. \A d \in Callers : call[d].op = "set" => ReadHolds(d)'
      BY <1>1, <2>1, ReadFrame, Zenon DEF SetExclusive
    <2> QED BY <1>1, <2>1, <2>2, ZenonT(60) DEF SetExclusive, Created
  <1>14. HashesWhole'
    BY <1>5, <1>6, <1>7, <1>8, Zenon DEF HashesWhole
  <1>15. RanksDistinct'
    <2>1. /\ hash'[j].seq = n /\ \A i \in Jobs \ {j} : hash'[i].seq = hash[i].seq
          /\ \A i \in Jobs \ {j} : Created(i)' => Created(i) /\ hash[i].seq # n
      BY <1>3, <1>7, <1>8, Zenon
    <2>2. \A i, m \in Jobs \ {j} : Created(i) /\ Created(m) /\ hash[i].seq = hash[m].seq => i = m
      BY Zenon DEF RanksDistinct
    <2> HIDE DEF StoreInv
    <2>3. ASSUME NEW i \in Jobs, NEW m \in Jobs, Created(i)', Created(m)', hash'[i].seq = hash'[m].seq
          PROVE  i = m
      <3>1. CASE i = j
        BY <2>1, <2>3, <3>1, Zenon
      <3>2. CASE i # j
        <4>1. m # j
          BY <2>1, <2>3, <3>2, Zenon
        <4> QED BY <2>1, <2>2, <2>3, <3>2, <4>1, Zenon
      <3> QED BY <3>1, <3>2, Zenon
    <2> QED BY <2>3, Zenon DEF RanksDistinct
  <1>16. AnswersHeld'
    <2>1. {i \in Jobs : Created(i)} \subseteq {i \in Jobs : Created(i)}'
      BY <1>8, Zenon
    <2>2. \A d \in Callers \ {c} : AnswerHeld(d)'
      BY <1>1, <2>1, AnswerFrame, Zenon DEF AnswersHeld
    <2>3. AnswerHeld(c)'
      BY <1>1, Zenon DEF AnswerHeld, Done
    <2> QED BY <2>2, <2>3, Zenon DEF AnswersHeld
  <1> QED BY <1>1, <1>9, <1>10, <1>11, <1>12, <1>13, <1>14, <1>15, <1>16, Zenon

LEMMA SetTxStep ==
  ASSUME StoreInv, NEW k \in Conns, ExecTx(k), NEW c, c = Head(req[k]).by,
         call[c].op = "set"
  PROVE  StoreInv'
  <1> USE DEF StoreInv
  <1>0. PICK j, n, t, o : /\ j = call[c].job /\ n = mem[c].seq
                          /\ t = call[c].status /\ o = mem[c].old
    BY Zenon
  <1>1. /\ Aligned' /\ ClientTypes'
        /\ c \in Callers /\ stage[c] = "write"
        /\ \A d \in Callers \ {c} : Same(d)
        /\ ~Heard(c) /\ Heard(c)'
        /\ UNCHANGED <<call, stage, mem, start, out>>
        /\ DOMAIN ans' = Callers /\ ans'[c] = Done
        /\ j \in Jobs
    BY <1>0, TxEffect, Zenon
  <1>2. t \in Status /\ t # "blank"
    BY <1>0, <1>1, StageFacts, RedisAssumption, Zenon
  <1>3. hash[j].status # "blank" /\ o = hash[j].status /\ n = hash[j].seq
    BY <1>0, <1>1, Zenon DEF SetExclusive, ReadHolds
  <1>4. /\ \A i \in Jobs : hash'[i] =
               IF i = j THEN [claimed |-> hash[i].claimed, status |-> t, seq |-> hash[i].seq]
                        ELSE hash[i]
        /\ o # t => \A s \in Status : index'[s] =
               IF s = t THEN ZAdd(index[s], n, j)
               ELSE IF s = o THEN ZRem(index[s], j) ELSE index[s]
        /\ o = t => \A s \in Status : index'[s] = index[s]
        /\ seqno' = seqno /\ rows' = rows
    <2>1. mem[c].old # "blank"
      BY <1>0, <1>3, Zenon
    <2>2. /\ \A i \in Jobs : hash'[i] =
                 IF i = call[c].job THEN [claimed |-> hash[i].claimed, status |-> call[c].status, seq |-> hash[i].seq]
                          ELSE hash[i]
          /\ mem[c].old # call[c].status => \A s \in Status : index'[s] =
                 IF s = call[c].status THEN ZAdd(index[s], mem[c].seq, call[c].job)
                 ELSE IF s = mem[c].old THEN ZRem(index[s], call[c].job) ELSE index[s]
          /\ mem[c].old = call[c].status => \A s \in Status : index'[s] = index[s]
          /\ seqno' = seqno /\ rows' = rows
      <3>1. TxSets(c) /\ seqno' = seqno /\ rows' = rows
        <4> HIDE DEF StoreInv
        <4> QED BY TxRedis, Zenon
      <3> QED BY <2>1, <3>1, Zenon DEF TxSets
    <2> QED BY <1>0, <2>2, Zenon
  <1>5. /\ hash' \in [Jobs -> [claimed : BOOLEAN, status : Status \cup {"blank"}, seq : Nat]]
        /\ \A i \in Jobs \ {j} : hash'[i] = hash[i]
        /\ \A i \in Jobs : hash'[i].claimed = hash[i].claimed /\ hash'[i].seq = hash[i].seq
        /\ hash'[j].status = t
    <2>1. hash' = [i \in Jobs |-> hash'[i]]
      BY TxFunctions, Zenon
    <2>2. /\ \A i \in Jobs \ {j} : hash'[i] = hash[i]
          /\ \A i \in Jobs : hash'[i].claimed = hash[i].claimed /\ hash'[i].seq = hash[i].seq
          /\ hash'[j].status = t
      <3>1. hash'[j] = [claimed |-> hash[j].claimed, status |-> t, seq |-> hash[j].seq]
        BY <1>1, <1>4, ZenonT(60)
      <3>2. hash'[j].claimed = hash[j].claimed
        <4>1. hash[j].claimed \in BOOLEAN
          BY <1>1, Zenon DEF TypeOK
        <4> HIDE DEF StoreInv
        <4> QED BY <3>1, <4>1
      <3>3. hash'[j].status = t /\ hash'[j].seq = hash[j].seq
        <4>1. Writes(j, t, hash[j].seq)
          BY <3>1, Zenon DEF Writes
        <4> HIDE DEF StoreInv
        <4> QED BY <4>1, Written, Zenon
      <3>4. \A i \in Jobs \ {j} : hash'[i] = hash[i]
        BY <1>4, Zenon
      <3> QED BY <3>2, <3>3, <3>4, Zenon
    <2>3. \A i \in Jobs : hash'[i] \in [claimed : BOOLEAN, status : Status \cup {"blank"}, seq : Nat]
      <3>1. \A i \in Jobs : /\ hash[i] \in [claimed : BOOLEAN, status : Status \cup {"blank"}, seq : Nat]
                            /\ hash[i].claimed \in BOOLEAN /\ hash[i].seq \in Nat
        BY Zenon DEF TypeOK
      <3>2. \A b \in BOOLEAN, m \in Nat : [claimed |-> b, status |-> t, seq |-> m]
                                 \in [claimed : BOOLEAN, status : Status \cup {"blank"}, seq : Nat]
        BY <1>2, Zenon
      <3>3. hash'[j] = [claimed |-> hash[j].claimed, status |-> t, seq |-> hash[j].seq]
        BY <1>1, <1>4, Zenon
      <3>4. hash'[j] \in [claimed : BOOLEAN, status : Status \cup {"blank"}, seq : Nat]
        BY <1>1, <3>1, <3>2, <3>3
      <3> QED BY <2>2, <3>1, <3>4, Zenon
    <2> QED BY <2>1, <2>2, <2>3, Zenon
  <1>6. \A i \in Jobs : Created(i)' <=> Created(i)
    BY <1>2, <1>3, <1>5, Zenon DEF Created
  <1>7. IndexAgrees'
    <2>1. ASSUME NEW s \in Status
          PROVE  index'[s] = {<<hash'[i].seq, i>> : i \in {i \in Jobs : hash'[i].status = s}}
      <3> DEFINE J == {i \in Jobs : hash[i].status = s}
                 K == {i \in Jobs : hash'[i].status = s}
      <3>1. index[s] = {<<hash[i].seq, i>> : i \in J}
        BY Zenon DEF IndexAgrees
      <3>2. \A i \in Jobs : hash'[i].seq = hash[i].seq
        BY <1>5, Zenon
      <3>3. CASE s = t /\ o # t
        <4>1. index'[s] = ZAdd(index[s], n, j)
          BY <1>4, <3>3, Zenon
        <4>2. K = J \cup {j} /\ j \notin J
          BY <1>1, <1>3, <1>5, <3>3, ZenonT(60)
        <4>3. ZRem(index[s], j) = index[s]
          BY <3>1, <4>2 DEF ZRem
        <4>4. K \subseteq Jobs
          BY Zenon
        <4> HIDE DEF J, K
        <4>5. {<<hash'[i].seq, i>> : i \in K} = {<<hash[i].seq, i>> : i \in K}
          BY <3>2, <4>4, Zenon
        <4>6. {<<hash[i].seq, i>> : i \in K} = {<<hash[i].seq, i>> : i \in J} \cup {<<n, j>>}
          BY <1>3, <4>2, Zenon
        <4>7. index'[s] = {<<hash[i].seq, i>> : i \in J} \cup {<<n, j>>}
          BY <3>1, <4>1, <4>3, Zenon DEF ZAdd
        <4>8. index'[s] = {<<hash'[i].seq, i>> : i \in K}
          BY <4>5, <4>6, <4>7, Zenon
        <4> QED BY <4>8, Zenon DEF K
      <3>4. CASE s # t /\ s = o
        <4>1. index'[s] = ZRem(index[s], j)
          BY <1>4, <3>4, Zenon
        <4>2. K = J \ {j}
          BY <1>1, <1>3, <1>5, <3>4, Zenon
        <4>3. K \subseteq Jobs
          BY Zenon
        <4> HIDE DEF J, K
        <4>4. {<<hash'[i].seq, i>> : i \in K} = {<<hash[i].seq, i>> : i \in K}
          BY <3>2, <4>3, Zenon
        <4>5. {<<hash[i].seq, i>> : i \in K} = ZRem(index[s], j)
          BY <3>1, <4>2 DEF ZRem
        <4>6. index'[s] = {<<hash'[i].seq, i>> : i \in K}
          BY <4>1, <4>4, <4>5, Zenon
        <4> QED BY <4>6, Zenon DEF K
      <3>5. CASE o = t \/ (s # t /\ s # o)
        <4>1. index'[s] = index[s]
          BY <1>4, <3>5, Zenon
        <4>2. K = J
          BY <1>1, <1>3, <1>5, <3>5, ZenonT(60)
        <4>3. J \subseteq Jobs
          BY Zenon
        <4> HIDE DEF J, K
        <4>4. {<<hash'[i].seq, i>> : i \in J} = {<<hash[i].seq, i>> : i \in J}
          BY <3>2, <4>3, Zenon
        <4>5. {<<hash'[i].seq, i>> : i \in K} = {<<hash[i].seq, i>> : i \in J}
          BY <4>2, <4>4, Zenon
        <4> QED BY <3>1, <4>1, <4>5, Zenon DEF K
      <3> QED BY <3>3, <3>4, <3>5, Zenon
    <2> QED BY <2>1, Zenon DEF IndexAgrees
  <1>8. TypeOK'
    <2>1. n \in Nat
      BY <1>1, <1>3, Zenon DEF TypeOK
    <2>2. index' \in [Status -> SUBSET (Nat \X Jobs)]
      <3>1. \A s \in Status : index[s] \in SUBSET (Nat \X Jobs)
        BY Zenon DEF TypeOK
      <3>2. \A s \in Status : ZRem(index[s], j) \in SUBSET (Nat \X Jobs)
        BY <3>1, Zenon DEF ZRem
      <3>3. \A z \in SUBSET (Nat \X Jobs) : ZAdd(z, n, j) \in SUBSET (Nat \X Jobs)
        BY <1>1, <2>1 DEF ZAdd, ZRem
      <3>4. CASE o # t
        <4>1. ASSUME NEW s \in Status
              PROVE  index'[s] \in SUBSET (Nat \X Jobs)
          <5>1. index'[s] \in {ZAdd(index[s], n, j), ZRem(index[s], j), index[s]}
            BY <1>4, <3>4, Zenon
          <5>2. ZAdd(index[s], n, j) \in SUBSET (Nat \X Jobs)
            BY <3>1, <3>3, Zenon
          <5> QED BY <3>1, <3>2, <5>1, <5>2, Zenon
        <4> QED BY <4>1, TxFunctions, Zenon
      <3>5. CASE o = t
        BY <1>4, <3>1, <3>5, TxFunctions, Zenon
      <3> QED BY <3>4, <3>5, Zenon
    <2> QED BY <1>1, <1>4, <1>5, <2>2, CallTypes, ZenonT(60) DEF TypeOK, caller
  <1>9. TicketsFresh'
    <2>1. \A m \in Nat : ~Ticket(c, m)'
      BY <1>1, Zenon DEF Ticket
    <2>2. \A d \in Callers \ {c}, m \in Nat : Ticket(d, m)' <=> Ticket(d, m)
      BY <1>1, SameFacts, Zenon
    <2>3. \A d \in Callers : start'[d] <= seqno'
      BY <1>1, <1>4, Zenon DEF TicketsFresh
    <2>4. ASSUME NEW d \in Callers, NEW m \in Nat, Ticket(d, m)'
          PROVE  /\ start'[d] < m /\ m <= seqno'
                 /\ \A i \in Jobs : Created(i)' => hash'[i].seq # m
                 /\ \A e \in Callers : Ticket(e, m)' => e = d
      <3>1. d # c /\ Ticket(d, m)
        BY <2>1, <2>2, <2>4, Zenon
      <3>2. /\ start[d] < m /\ m <= seqno
            /\ \A i \in Jobs : Created(i) => hash[i].seq # m
            /\ \A e \in Callers : Ticket(e, m) => e = d
        BY <3>1, Zenon DEF TicketsFresh
      <3>3. \A i \in Jobs : Created(i)' => hash'[i].seq # m
        BY <1>5, <1>6, <3>2, Zenon
      <3> QED BY <1>1, <1>4, <2>1, <2>2, <3>2, <3>3, Zenon
    <2> QED BY <2>3, <2>4, Zenon DEF TicketsFresh
  <1>10. ClaimsExclusive'
    <2>1. \A i \in Jobs : ~Claim(c, i)'
      BY <1>1, Zenon DEF Claim
    <2>2. \A d \in Callers \ {c}, i \in Jobs : Claim(d, i)' <=> Claim(d, i)
      BY <1>1, SameFacts, Zenon
    <2>3. ASSUME NEW d \in Callers, NEW i \in Jobs, Claim(d, i)'
          PROVE  /\ hash'[i].claimed /\ ~Created(i)'
                 /\ \A e \in Callers : Claim(e, i)' => e = d
      <3>1. d # c /\ Claim(d, i)
        BY <2>1, <2>2, <2>3, Zenon
      <3>2. /\ hash[i].claimed /\ ~Created(i)
            /\ \A e \in Callers : Claim(e, i) => e = d
        BY <3>1, Zenon DEF ClaimsExclusive
      <3>3. hash'[i].claimed /\ ~Created(i)'
        BY <1>5, <1>6, <3>2, Zenon
      <3> QED BY <2>1, <2>2, <3>2, <3>3, Zenon
    <2> QED BY <2>3, Zenon DEF ClaimsExclusive
  <1>11. SetExclusive'
    <2>1. \A d \in Callers \ {c} : call[d].op = "set" =>
              call[d].job \in Jobs \ {j} /\ hash'[call[d].job] = hash[call[d].job]
      BY <1>0, <1>1, <1>5, OtherSets, Zenon
    <2>2. \A d \in Callers \ {c} : call[d].op = "set" => ReadHolds(d)'
      BY <1>1, <2>1, ReadFrame, Zenon DEF SetExclusive
    <2>3. ReadHolds(c)'
      BY <1>1, Zenon DEF ReadHolds
    <2>4. \A d \in Callers : call[d].op = "set" => Created(call[d].job)' \/ ~hash'[call[d].job].claimed
      <3>1. hash'[call[c].job].status # "blank"
        BY <1>0, <1>2, <1>5, Zenon
      <3> QED BY <1>1, <2>1, <3>1, Zenon DEF SetExclusive, Created
    <2> QED BY <1>1, <2>2, <2>3, <2>4, Zenon DEF SetExclusive
  <1>12. HashesWhole'
    BY <1>4, <1>5, <1>6, Zenon DEF HashesWhole
  <1>13. RanksDistinct'
    BY <1>5, <1>6, Zenon DEF RanksDistinct
  <1>14. AnswersHeld'
    <2>1. {i \in Jobs : Created(i)}' = {i \in Jobs : Created(i)}
      BY <1>6, Zenon
    <2>2. \A d \in Callers \ {c} : AnswerHeld(d)'
      BY <1>1, <2>1, AnswerFrame, Zenon DEF AnswersHeld
    <2>3. AnswerHeld(c)'
      BY <1>1, Zenon DEF AnswerHeld, Done
    <2> QED BY <2>2, <2>3, Zenon DEF AnswersHeld
  <1> QED BY <1>1, <1>7, <1>8, <1>9, <1>10, <1>11, <1>12, <1>13, <1>14, Zenon
=============================================================================
