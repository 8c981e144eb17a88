----------------------------- MODULE RedisStore -----------------------------
(***************************************************************************)
(* The Redis implementation of store.Store: every operation is a sequence  *)
(* of calls of RedisClient, and other callers' commands run between two of *)
(* them.  Redis executes one batch at a time; a transaction is one batch,  *)
(* a queued command it refuses makes EXEC refuse all of it.                *)
(*                                                                         *)
(* The callers are the goroutines of one process and keep to what the pool *)
(* does with a store: two calls that write a job's status never overlap,   *)
(* and only a job that was created is updated.  CreateJob may be called    *)
(* with an id that exists or is being created.                             *)
(*                                                                         *)
(* A field that a hash does not have is decoded as the empty string, which *)
(* is "blank" here (0 for seq); "NONE" stands for a hash without fields.   *)
(***************************************************************************)
EXTENDS RedisClient

CONSTANTS
    Jobs,           \* session ids
    Status,         \* job statuses
    NoJob,
    MaxSeq,         \* bound on creations
    MaxRows,        \* bound on step results of a job
    MaxOther        \* bound on calls in flight that write no status

ASSUME RedisAssumption ==
    /\ "PENDING" \in Status
    /\ {"blank", "NONE"} \cap Status = {}
    /\ NoJob \notin Jobs
    /\ IsFiniteSet(Jobs)
    /\ MaxSeq \in Nat
    /\ MaxRows \in Nat
    /\ MaxOther \in Nat

VARIABLES
    hash,           \* hash[j]: jh:job:<j>, the fields the store reads back
    index,          \* index[s]: jh:jobs:<s>, a set of <<score, job>>
    seqno,          \* jh:seq
    rows,           \* rows[j]: length of jh:steps:<j>
    call,           \* call[c]: the operation c is running
    stage,          \* stage[c]: the command it sends next or waits for
    mem,            \* mem[c]: what it has read so far
    start,          \* start[c]: seqno when a creation was invoked (history)
    ans,            \* ans[c]: its answer once it has taken effect (history)
    out             \* out[c]: what the last operation of c returned

redis == <<hash, index, seqno, rows>>
caller == <<call, stage, mem, start, out>>
vars == <<at, up, req, rep, using, want, faults,
          hash, index, seqno, rows, call, stage, mem, start, ans, out>>

Op(o, j, s) == [op |-> o, job |-> j, status |-> s]
NoCall == Op("none", NoJob, "blank")
\* What a call has answered or returned.
NoAns == [is |-> "none"]
Error == [is |-> "error"]
Done == [is |-> "done"]
Row(s) == [is |-> "row", status |-> s]
Ids(q) == [is |-> "ids", ids |-> q]
Count(n) == [is |-> "count", rows |-> n]

Read(n, o, q, g) == [seq |-> n, old |-> o, ids |-> q, got |-> g]
NoMem == Read(0, "blank", << >>, << >>)
Calls == {Op(o, j, "blank") : o \in {"create", "get", "append", "steps"}, j \in Jobs}
         \cup {Op("set", j, s) : j \in Jobs, s \in Status}
         \cup {Op("list", NoJob, s) : s \in Status}

\* The first command of an operation.
First(o) ==
    CASE o = "create" -> "seq"
      [] o = "get" -> "row"
      [] o = "set" -> "read"
      [] o = "list" -> "ids"
      [] o = "append" -> "push"
      [] o = "steps" -> "range"

Running(o, j) == {c \in Callers : call[c].op = o /\ call[c].job = j}
Created(j) == hash[j].status # "blank"

\* ZADD, ZREM and ZRANGE 0 -1 on a sorted set.  No two scores are equal, so
\* there is one order.
ZRem(z, j) == {e \in z : e[2] # j}
ZAdd(z, n, j) == ZRem(z, j) \cup {<<n, j>>}
ZRange(z) ==
    {q \in [1..Cardinality(z) -> {e[2] : e \in z}] :
        \A i, j \in DOMAIN q : i < j =>
            \E e, f \in z : e[2] = q[i] /\ f[2] = q[j] /\ e[1] < f[1]}
-----------------------------------------------------------------------------
Init ==
    /\ ClientInit
    /\ hash = [j \in Jobs |-> [claimed |-> FALSE, status |-> "blank", seq |-> 0]]
    /\ index = [s \in Status |-> {}]
    /\ seqno = 0
    /\ rows = [j \in Jobs |-> 0]
    /\ call = [c \in Callers |-> NoCall]
    /\ stage = [c \in Callers |-> "none"]
    /\ mem = [c \in Callers |-> NoMem]
    /\ start = [c \in Callers |-> 0]
    /\ ans = [c \in Callers |-> NoAns]
    /\ out = [c \in Callers |-> NoAns]

\* How the pool and the API use the store, and the bounds.
MayCall(x) ==
    LET j == x.job
        Other == {"get", "list", "append", "steps"}
    IN
    /\ x.op = "create" =>
        /\ Running("set", j) = {}
        /\ seqno + Cardinality({c \in Callers : call[c].op = "create"}) < MaxSeq
    /\ x.op = "set" =>
        /\ Running("set", j) = {}
        /\ Running("create", j) = {}
        /\ hash[j].claimed => Created(j)
    /\ x.op = "append" =>
        /\ Running("append", j) = {}
        /\ hash[j].status = "RUNNING"
        /\ rows[j] < MaxRows
    /\ x.op = "steps" => Created(j)
    /\ x.op \in Other =>
        Cardinality({c \in Callers : call[c].op \in Other}) < MaxOther

Invoke(c, x) ==
    /\ call[c] = NoCall
    /\ MayCall(x)
    /\ call' = [call EXCEPT ![c] = x]
    /\ stage' = [stage EXCEPT ![c] = First(x.op)]
    /\ start' = [start EXCEPT ![c] = IF x.op = "create" THEN seqno ELSE 0]
    /\ out' = [out EXCEPT ![c] = NoAns]
    /\ UNCHANGED <<clientVars, redis, mem, ans>>
-----------------------------------------------------------------------------
(***************************************************************************)
(* The commands.                                                           *)
(***************************************************************************)
Cmd(c, o, j, s) == [by |-> c, op |-> o, job |-> j, status |-> s,
                    seq |-> 0, rem |-> "blank", add |-> FALSE, score |-> 0]

\* MULTI; HSET of status s, and of seq unless n is 0; ZREM from old unless it
\* is "blank"; ZADD to s when moves; EXEC.
Tx(c, s, n, old, moves) ==
    [by |-> c, op |-> "TX", job |-> call[c].job, status |-> s,
     seq |-> n, rem |-> old, add |-> moves, score |-> mem[c].seq]

CreateTx(c) == Tx(c, "PENDING", mem[c].seq, "blank", TRUE)

\* Mutant: the job stays in the index of its old status.
SetTxKeepsOld(c) == Tx(c, call[c].status, 0, "blank", TRUE)

\* The index moves only when there was a status and it changes.
SetTx(c) ==
    IF mem[c].old # "blank" /\ mem[c].old # call[c].status
    THEN Tx(c, call[c].status, 0, mem[c].old, TRUE)
    ELSE Tx(c, call[c].status, 0, "blank", FALSE)

Batch(c) ==
    LET j == call[c].job IN
    CASE stage[c] = "seq" -> Cmd(c, "INCR", NoJob, "blank")
      [] stage[c] = "claim" -> Cmd(c, "HSETNX", j, "blank")
      [] stage[c] \in {"row", "exists"} -> Cmd(c, "HGETALL", j, "blank")
      [] stage[c] = "read" -> Cmd(c, "HMGET", j, "blank")
      [] stage[c] = "ids" -> Cmd(c, "ZRANGE", NoJob, call[c].status)
      [] stage[c] = "rows" -> Cmd(c, "HGETALL", Head(mem[c].ids), "blank")
      [] stage[c] = "push" -> Cmd(c, "RPUSH", j, "blank")
      [] stage[c] = "range" -> Cmd(c, "LRANGE", j, "blank")
      [] stage[c] = "write" ->
            IF call[c].op = "create" THEN CreateTx(c) ELSE SetTx(c)

\* The replies to a batch: one, or those of MULTI, the queued commands, EXEC.
Size(b) ==
    IF b.op # "TX" THEN 1
    ELSE 3 + (IF b.rem # "blank" THEN 1 ELSE 0) + (IF b.add THEN 1 ELSE 0)

SendBatch(c) ==
    /\ call[c] # NoCall
    /\ \E k \in Conns : Send(c, k, Batch(c), Size(Batch(c)))
    /\ UNCHANGED <<redis, caller, ans>>
-----------------------------------------------------------------------------
(***************************************************************************)
(* Redis.                                                                  *)
(***************************************************************************)
\* The batch at the head of connection k is a command o.
Next1(k, o) == req[k] # << >> /\ Head(req[k]).op = o

Effective(c, a) == ans' = [ans EXCEPT ![c] = a]

\* Mutant: the next number is read, and not taken.
ExecPeek(k) ==
    /\ Next1(k, "INCR")
    /\ Answer(k, <<Integer(seqno + 1)>>)
    /\ UNCHANGED <<redis, caller, ans>>

ExecIncr(k) ==
    /\ Next1(k, "INCR")
    /\ Answer(k, <<Integer(seqno + 1)>>)
    /\ seqno' = seqno + 1
    /\ UNCHANGED <<hash, index, rows, caller, ans>>

\* Mutant: HSET, which does not say that the field was there.
ExecHset(k) ==
    LET j == Head(req[k]).job IN
    /\ Next1(k, "HSETNX")
    /\ Answer(k, <<Integer(1)>>)
    /\ hash' = [hash EXCEPT ![j] =
                    [claimed |-> TRUE, status |-> @.status, seq |-> @.seq]]
    /\ UNCHANGED <<index, seqno, rows, caller, ans>>

\* 1 when the session_id field was not there, 0 when it was.
ExecHsetnx(k) ==
    LET j == Head(req[k]).job IN
    /\ Next1(k, "HSETNX")
    /\ Answer(k, <<Integer(IF hash[j].claimed THEN 0 ELSE 1)>>)
    /\ hash' = [hash EXCEPT ![j] =
                    [claimed |-> TRUE, status |-> @.status, seq |-> @.seq]]
    /\ UNCHANGED <<index, seqno, rows, caller, ans>>

ExecHmget(k) ==
    LET j == Head(req[k]).job IN
    /\ Next1(k, "HMGET")
    /\ Answer(k, <<[kind |-> "*", status |-> hash[j].status, seq |-> hash[j].seq]>>)
    /\ UNCHANGED <<redis, caller, ans>>

\* The fields of a hash that is not there are none at all.
Fields(j) == IF hash[j].claimed THEN hash[j].status ELSE "NONE"

ExecHgetall(k) ==
    LET b == Head(req[k]) IN
    /\ Next1(k, "HGETALL")
    /\ Answer(k, <<[kind |-> "*", fields |-> Fields(b.job)]>>)
    /\ IF call[b.by].op = "get" THEN Effective(b.by, Row(Fields(b.job)))
                                ELSE UNCHANGED ans
    /\ UNCHANGED <<redis, caller>>

ExecZrange(k) ==
    LET b == Head(req[k]) IN
    /\ Next1(k, "ZRANGE")
    /\ \E q \in ZRange(index[b.status]) :
        /\ Answer(k, <<[kind |-> "*", ids |-> q]>>)
        /\ Effective(b.by, Ids(q))
    /\ UNCHANGED <<redis, caller>>

ExecRpush(k) ==
    LET b == Head(req[k]) IN
    /\ Next1(k, "RPUSH")
    /\ Answer(k, <<Integer(rows[b.job] + 1)>>)
    /\ rows' = [rows EXCEPT ![b.job] = @ + 1]
    /\ Effective(b.by, Done)
    /\ UNCHANGED <<hash, index, seqno, caller>>

ExecLrange(k) ==
    LET b == Head(req[k]) IN
    /\ Next1(k, "LRANGE")
    /\ Answer(k, <<[kind |-> "*", items |-> rows[b.job]]>>)
    /\ Effective(b.by, Count(rows[b.job]))
    /\ UNCHANGED <<redis, caller>>

\* EXEC: the HSET, then the ZREM and the ZADD.
ExecTx(k) ==
    LET b == Head(req[k]) IN
    /\ Next1(k, "TX")
    /\ Answer(k, [i \in 1..Size(b) |-> Simple])
    /\ hash' = [hash EXCEPT ![b.job] =
                    [claimed |-> @.claimed, status |-> b.status,
                     seq |-> IF b.seq # 0 THEN b.seq ELSE @.seq]]
    /\ index' = [s \in Status |->
                    LET z == IF s = b.rem THEN ZRem(index[s], b.job) ELSE index[s]
                    IN  IF b.add /\ s = b.status THEN ZAdd(z, b.score, b.job) ELSE z]
    /\ Effective(b.by, Done)
    /\ UNCHANGED <<seqno, rows, caller>>

\* An error reply (out of memory, read-only, loading): to a single command, or
\* to every queued command and to EXEC.
Refuse(k) ==
    LET n == Size(Head(req[k])) IN
    /\ req[k] # << >>
    /\ Refused(k, [i \in 1..n |-> IF i = 1 /\ n > 1 THEN Simple ELSE RedisError])
    /\ UNCHANGED <<redis, caller, ans>>

Execute(k) ==
    \/ ExecIncr(k) \/ ExecHsetnx(k) \/ ExecHmget(k) \/ ExecHgetall(k)
    \/ ExecZrange(k) \/ ExecRpush(k) \/ ExecLrange(k) \/ ExecTx(k)
-----------------------------------------------------------------------------
(***************************************************************************)
(* What an operation does with the reply to its command.                   *)
(***************************************************************************)
\* The operation returns o.
Finish(c, o) ==
    /\ call' = [call EXCEPT ![c] = NoCall]
    /\ stage' = [stage EXCEPT ![c] = "none"]
    /\ mem' = [mem EXCEPT ![c] = NoMem]
    /\ start' = [start EXCEPT ![c] = 0]
    /\ ans' = [ans EXCEPT ![c] = NoAns]
    /\ out' = [out EXCEPT ![c] = o]

\* The operation goes on to stage s, having read m.
GoOn(c, s, m) ==
    /\ stage' = [stage EXCEPT ![c] = s]
    /\ mem' = [mem EXCEPT ![c] = m]
    /\ UNCHANGED <<call, start, ans, out>>

\* The command of stage s was executed, and c reads its reply.
Good(c, s) ==
    /\ stage[c] = s
    /\ Receive(c)
    /\ Decisive(c).kind # "-"
    /\ UNCHANGED redis

GotSeq(c) ==
    /\ Good(c, "seq")
    /\ GoOn(c, "claim", Read(Decisive(c).num, "blank", << >>, << >>))

\* CreateJob: the id exists, or is being created by another call.
GotClaim(c) ==
    /\ Good(c, "claim")
    /\ IF Decisive(c).num = 0 THEN Finish(c, Error) ELSE GoOn(c, "write", mem[c])

\* SetJobStatus: no status and no seq may mean that there is no such job.
GotRead(c) ==
    /\ Good(c, "read")
    /\ IF Decisive(c).status = "blank" /\ Decisive(c).seq = 0
       THEN GoOn(c, "exists", NoMem)
       ELSE GoOn(c, "write",
                 Read(Decisive(c).seq, Decisive(c).status, << >>, << >>))

GotExists(c) ==
    /\ Good(c, "exists")
    /\ IF Decisive(c).fields = "NONE" THEN Finish(c, Error) ELSE GoOn(c, "write", NoMem)

GotWrite(c) == Good(c, "write") /\ Finish(c, Done)

GotRow(c) == Good(c, "row") /\ Finish(c, Row(Decisive(c).fields))

GotIds(c) ==
    /\ Good(c, "ids")
    /\ IF Decisive(c).ids = << >> THEN Finish(c, Ids(<< >>))
       ELSE GoOn(c, "rows", Read(0, "blank", Decisive(c).ids, << >>))

\* ListJobsByStatus: GetJob of each id in turn; a job that is gone is skipped.
GotListed(c) ==
    LET ids == mem[c].ids
        got == IF Decisive(c).fields = "NONE" THEN mem[c].got
               ELSE Append(mem[c].got, Head(ids))
    IN
    /\ Good(c, "rows")
    /\ IF Len(ids) = 1 THEN Finish(c, Ids(got))
       ELSE GoOn(c, "rows", Read(0, "blank", Tail(ids), got))

GotPush(c) == Good(c, "push") /\ Finish(c, Done)

GotRange(c) == Good(c, "range") /\ Finish(c, Count(Decisive(c).items))

\* A command that fails, whatever the reason, fails the operation.
Fails(c) ==
    /\ call[c] # NoCall
    /\ \/ Receive(c) /\ Decisive(c).kind = "-"
       \/ ReadFails(c)
       \/ DialFails(c)
    /\ Finish(c, Error)
    /\ UNCHANGED redis

BreakConn(k) == Break(k) /\ UNCHANGED <<redis, caller, ans>>

\* The process stops, whatever its calls are doing, and starts again.
Crash ==
    /\ CloseAll
    /\ call' = [c \in Callers |-> NoCall]
    /\ stage' = [c \in Callers |-> "none"]
    /\ mem' = [c \in Callers |-> NoMem]
    /\ start' = [c \in Callers |-> 0]
    /\ ans' = [c \in Callers |-> NoAns]
    /\ out' = [c \in Callers |-> NoAns]
    /\ UNCHANGED redis

Proceed(c) ==
    \/ GotSeq(c) \/ GotClaim(c) \/ GotRead(c) \/ GotExists(c) \/ GotWrite(c)
    \/ GotRow(c) \/ GotIds(c) \/ GotListed(c) \/ GotPush(c) \/ GotRange(c)

Next ==
    \/ \E c \in Callers :
        \/ \E x \in Calls : Invoke(c, x)
        \/ SendBatch(c) \/ Proceed(c) \/ Fails(c)
    \/ \E k \in Conns : Execute(k) \/ Refuse(k) \/ BreakConn(k)
    \/ Crash

Spec == Init /\ [][Next]_vars
-----------------------------------------------------------------------------
\* The commands of each operation.
Stages == {<<"none", "none">>, <<"create", "seq">>, <<"create", "claim">>,
           <<"create", "write">>, <<"get", "row">>, <<"set", "read">>,
           <<"set", "exists">>, <<"set", "write">>, <<"list", "ids">>,
           <<"list", "rows">>, <<"append", "push">>, <<"steps", "range">>}

\* The ranges of the variables, and which command belongs to which operation.
TypeOK ==
    /\ at \in [Conns -> {"closed", "idle", "used"}]
    /\ up \in [Conns -> BOOLEAN]
    /\ DOMAIN req = Conns /\ DOMAIN rep = Conns
    /\ using \in [Callers -> Conns \cup {NoConn}]
    /\ want \in [Callers -> Nat]
    /\ hash \in [Jobs -> [claimed : BOOLEAN, status : Status \cup {"blank"}, seq : Nat]]
    /\ index \in [Status -> SUBSET (Nat \X Jobs)]
    /\ seqno \in Nat
    /\ rows \in [Jobs -> Nat]
    /\ call \in [Callers -> Calls \cup {NoCall}]
    /\ DOMAIN stage = Callers
    /\ \A c \in Callers : <<call[c].op, stage[c]>> \in Stages
    /\ mem \in [Callers -> [seq : Nat, old : Status \cup {"blank"},
                            ids : Seq(Jobs), got : Seq(Jobs)]]
    /\ start \in [Callers -> Nat]
    /\ DOMAIN ans = Callers /\ DOMAIN out = Callers

\* A caller reads its own replies.  A connection in use is held by one caller
\* and owes it exactly the replies to its current command, unless it is broken;
\* an idle or closed one owes none (client.go do, doMulti, get, put).
Aligned ==
    /\ \A k \in Conns : at[k] # "used" => req[k] = << >> /\ rep[k] = << >>
    /\ \A k \in Conns : req[k] # << >> =>
        Head(req[k]).by \in Callers /\ using[Head(req[k]).by] = k
    /\ \A c \in Callers : using[c] # NoConn =>
        LET k == using[c] IN
        /\ call[c] # NoCall
        /\ at[k] = "used"
        /\ want[c] = Size(Batch(c))
        /\ \A d \in Callers : using[d] = k => d = c
        /\ \/ req[k] = <<Batch(c)>> /\ rep[k] = << >>
           \/ req[k] = << >> /\ Len(rep[k]) = want[c] /\ rep[k] # << >>
           \/ req[k] = << >> /\ rep[k] = << >> /\ ~up[k]

\* No more connections are open than there are callers, though nothing counts
\* or limits the dials: get dials only when every open connection is in use by
\* somebody else (client.go get, put).
PoolBounded ==
    Cardinality({k \in Conns : at[k] # "closed"}) <= Cardinality(Callers)

\* The index sets and the hashes agree: a job is listed under its status and
\* under no other, with the rank it was created with.  A job whose creation
\* stopped half-way is in no index (redis.go CreateJob, SetJobStatus).
IndexAgrees ==
    \A s \in Status :
        index[s] = {<<hash[j].seq, j>> : j \in {i \in Jobs : hash[i].status = s}}

\* Two jobs never have the same rank, however their creations overlap, so the
\* order of a listing is the order of creation (CreateJob's INCR, kept by every
\* SetJobStatus through scoreOrDefault).
RanksDistinct ==
    \A i, j \in Jobs : Created(i) /\ Created(j) /\ hash[i].seq = hash[j].seq => i = j

(***************************************************************************)
(* What makes these invariants inductive: what each caller may count on    *)
(* between its commands.                                                   *)
(***************************************************************************)
\* The reply to the current command of c is there, and is not an error.
Heard(c) ==
    /\ using[c] # NoConn
    /\ rep[using[c]] # << >>
    /\ Decisive(c).kind # "-"

\* c is creating a job, with rank n.
Ticket(c, n) ==
    \/ stage[c] = "seq" /\ Heard(c) /\ Decisive(c).num = n
    \/ stage[c] = "claim" /\ mem[c].seq = n
    \/ stage[c] = "write" /\ call[c].op = "create" /\ ~Heard(c) /\ mem[c].seq = n

\* c has claimed job j and has yet to write it.
Claim(c, j) ==
    /\ call[c].op = "create"
    /\ call[c].job = j
    /\ \/ stage[c] = "claim" /\ Heard(c) /\ Decisive(c).num # 0
       \/ stage[c] = "write" /\ ~Heard(c)

\* A rank is new, was given out during the call, and belongs to one call.
TicketsFresh ==
    \A c \in Callers :
        /\ start[c] <= seqno
        /\ \A n \in Nat : Ticket(c, n) =>
            /\ start[c] < n /\ n <= seqno
            /\ \A j \in Jobs : Created(j) => hash[j].seq # n
            /\ \A d \in Callers : Ticket(d, n) => d = c

\* A claim is on a job that is not there yet, and belongs to one call.
ClaimsExclusive ==
    \A c \in Callers : \A j \in Jobs : Claim(c, j) =>
        /\ hash[j].claimed /\ ~Created(j)
        /\ \A d \in Callers : Claim(d, j) => d = c

\* What a call that sets a status has read is true.
ReadHolds(c) ==
    LET h == hash[call[c].job] IN
    /\ stage[c] = "read" /\ Heard(c) =>
        Decisive(c).status = h.status /\ Decisive(c).seq = h.seq
    /\ stage[c] = "exists" => ~h.claimed
    /\ stage[c] = "exists" /\ Heard(c) => Decisive(c).fields = "NONE"
    /\ stage[c] = "write" /\ ~Heard(c) =>
        h.status # "blank" /\ mem[c].old = h.status /\ mem[c].seq = h.seq

\* While a call sets the status of a job, no other call writes it, and what
\* the call has read stays true until its transaction.
SetExclusive ==
    \A c \in Callers : call[c].op = "set" =>
        /\ hash[call[c].job].claimed => Created(call[c].job)
        /\ \A d \in Callers :
            call[d].op \in {"set", "create"} /\ call[d].job = call[c].job => d = c
        /\ ReadHolds(c)

\* A hash with a status is complete, and one without has no rank.
HashesWhole ==
    \A j \in Jobs :
        IF Created(j) THEN hash[j].claimed /\ hash[j].seq \in 1..seqno
                      ELSE hash[j].seq = 0

\* The answer of c is the one of the instant the operation took effect.
AnswerHeld(c) ==
    /\ stage[c] # "rows" /\ ~Heard(c) => ans[c] = NoAns
    /\ stage[c] \in {"seq", "claim", "read", "exists"} => ans[c] = NoAns
    /\ stage[c] = "seq" /\ Heard(c) => Decisive(c).num \in Nat
    /\ stage[c] \in {"write", "push"} /\ Heard(c) => ans[c] = Done
    /\ stage[c] = "row" /\ Heard(c) => ans[c] = Row(Decisive(c).fields)
    /\ stage[c] = "range" /\ Heard(c) => ans[c] = Count(Decisive(c).items)
    /\ stage[c] = "ids" /\ Heard(c) =>
        /\ ans[c] = Ids(Decisive(c).ids)
        /\ Decisive(c).ids \in Seq({j \in Jobs : Created(j)})
    /\ stage[c] = "rows" =>
        /\ mem[c].ids # << >>
        /\ mem[c].ids \in Seq({j \in Jobs : Created(j)})
        /\ ans[c] = Ids(mem[c].got \o mem[c].ids)
    /\ stage[c] = "rows" /\ Heard(c) => Decisive(c).fields # "NONE"

AnswersHeld == \A c \in Callers : AnswerHeld(c)

StoreInv ==
    /\ TypeOK /\ Aligned
    /\ TicketsFresh /\ ClaimsExclusive /\ SetExclusive /\ HashesWhole
    /\ IndexAgrees /\ RanksDistinct /\ AnswersHeld
=============================================================================
