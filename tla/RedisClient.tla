---------------------------- MODULE RedisClient ----------------------------
(***************************************************************************)
(* The pooled RESP client of internal/store/redis.  A call of cmd or multi *)
(* takes a connection from the pool or dials one, flushes a batch of       *)
(* commands, reads as many replies, and puts the connection back.  The     *)
(* replies of a connection are a stream: nothing but their order says      *)
(* which command one belongs to.  What the batches do in Redis is          *)
(* RedisStore.                                                             *)
(*                                                                         *)
(* The pool is a stack in the code and a set here.  A connection that      *)
(* breaks loses the commands Redis has not executed: an error never comes  *)
(* before the effect of a command it is about.  EXEC answers nil only      *)
(* under WATCH, and holds an error only when a key has the wrong type:     *)
(* neither occurs with the keys the store uses.                            *)
(***************************************************************************)
EXTENDS Naturals, Sequences, FiniteSets

CONSTANTS
    Callers,        \* goroutines that use the store
    Conns,          \* names for connections
    NoConn,
    MaxIdle,        \* connections the pool keeps (8 in put)
    MaxFaults       \* bound on broken connections, refusals, crashes

ASSUME ClientAssumption ==
    /\ NoConn \notin Conns
    /\ MaxIdle \in Nat
    /\ MaxFaults \in Nat

ASSUME FiniteClient == IsFiniteSet(Callers) /\ IsFiniteSet(Conns)

VARIABLES
    at,             \* at[k]: "closed", "idle" (in the pool) or "used"
    up,             \* up[k]: the TCP connection works
    req,            \* req[k]: batches flushed and not yet executed
    rep,            \* rep[k]: replies sent and not yet read
    using,          \* using[c]: the connection c holds
    want,           \* want[c]: the replies it is going to read
    faults          \* faults so far

clientVars == <<at, up, req, rep, using, want, faults>>

Idle == {k \in Conns : at[k] = "idle"}

\* Replies, by RESP type: a simple string, an error, an integer; an array is
\* what the command that asked for it makes of it.
Simple == [kind |-> "+"]
RedisError == [kind |-> "-"]
Integer(n) == [kind |-> ":", num |-> n]

ClientInit ==
    /\ at = [k \in Conns |-> "closed"]
    /\ up = [k \in Conns |-> FALSE]
    /\ req = [k \in Conns |-> << >>]
    /\ rep = [k \in Conns |-> << >>]
    /\ using = [c \in Callers |-> NoConn]
    /\ want = [c \in Callers |-> 0]
    /\ faults = 0
-----------------------------------------------------------------------------
\* Mutant: get dials although a connection is idle.
GetDials(k) ==
    /\ at[k] = "closed"
    /\ up' = [up EXCEPT ![k] = TRUE]

\* pool.get: a pooled connection if there is one, else a new one.
Get(k) ==
    \/ at[k] = "idle" /\ UNCHANGED up
    \/ Idle = {} /\ at[k] = "closed" /\ up' = [up EXCEPT ![k] = TRUE]

\* get, then write and flush a batch of n commands.
Send(c, k, batch, n) ==
    /\ using[c] = NoConn
    /\ Get(k)
    /\ at' = [at EXCEPT ![k] = "used"]
    /\ req' = [req EXCEPT ![k] = Append(@, batch)]
    /\ using' = [using EXCEPT ![c] = k]
    /\ want' = [want EXCEPT ![c] = n]
    /\ UNCHANGED <<rep, faults>>

\* The dial fails (AUTH and SELECT included): the call returns the error.
DialFails(c) ==
    /\ using[c] = NoConn
    /\ Idle = {}
    /\ UNCHANGED clientVars

\* Redis takes the first batch of a connection and sends the replies rs.
Reply(k, rs) ==
    /\ up[k]
    /\ req[k] # << >>
    /\ req' = [req EXCEPT ![k] = Tail(@)]
    /\ rep' = [rep EXCEPT ![k] = @ \o rs]
    /\ UNCHANGED <<at, up, using, want>>

Fault ==
    /\ faults < MaxFaults
    /\ faults' = faults + 1

Answer(k, rs) == Reply(k, rs) /\ UNCHANGED faults
Refused(k, rs) == Reply(k, rs) /\ Fault

\* conn.close, and the connection is forgotten.
Discard(k) ==
    /\ at' = [at EXCEPT ![k] = "closed"]
    /\ up' = [up EXCEPT ![k] = FALSE]
    /\ req' = [req EXCEPT ![k] = << >>]
    /\ rep' = [rep EXCEPT ![k] = << >>]

\* pool.put, after n replies were read: keep the connection while the pool is
\* small.
Put(k, n) ==
    \/ /\ Cardinality(Idle) < MaxIdle
       /\ at' = [at EXCEPT ![k] = "idle"]
       /\ rep' = [rep EXCEPT ![k] = SubSeq(@, n + 1, Len(@))]
       /\ UNCHANGED <<up, req>>
    \/ /\ Cardinality(Idle) >= MaxIdle
       /\ Discard(k)

Release(c) ==
    /\ using' = [using EXCEPT ![c] = NoConn]
    /\ want' = [want EXCEPT ![c] = 0]
    /\ UNCHANGED faults

\* do / doMulti: the last reply of a batch decides what the call returns; the
\* ones of MULTI and of the queued commands are read whatever they say.
Replied(c) == using[c] # NoConn /\ Len(rep[using[c]]) >= want[c]
Decisive(c) == rep[using[c]][want[c]]

\* Mutant: doMulti returns at the first error it reads and leaves the rest.
ReceiveFirstError(c) ==
    LET bad == {i \in 1..want[c] : rep[using[c]][i].kind = "-"}
    IN  /\ Replied(c)
        /\ Put(using[c], IF bad = {} THEN want[c]
                         ELSE CHOOSE i \in bad : \A j \in bad : i <= j)
        /\ Release(c)

\* The replies are read.  An error of Redis leaves the connection usable.
Receive(c) ==
    /\ Replied(c)
    /\ Put(using[c], want[c])
    /\ Release(c)

\* A transport failure: the connection is closed, not returned.
ReadFails(c) ==
    /\ using[c] # NoConn
    /\ ~up[using[c]]
    /\ Discard(using[c])
    /\ Release(c)
-----------------------------------------------------------------------------
(***************************************************************************)
(* The environment.                                                        *)
(***************************************************************************)
Break(k) ==
    /\ up[k]
    /\ Fault
    /\ up' = [up EXCEPT ![k] = FALSE]
    /\ req' = [req EXCEPT ![k] = << >>]
    /\ UNCHANGED <<at, rep, using, want>>

\* The process stops, in pool.close or without it.
CloseAll ==
    /\ Fault
    /\ at' = [k \in Conns |-> "closed"]
    /\ up' = [k \in Conns |-> FALSE]
    /\ req' = [k \in Conns |-> << >>]
    /\ rep' = [k \in Conns |-> << >>]
    /\ using' = [c \in Callers |-> NoConn]
    /\ want' = [c \in Callers |-> 0]
=============================================================================
