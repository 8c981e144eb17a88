------------------------------ MODULE JobStore ------------------------------
(***************************************************************************)
(* What the store.Store interface promises the pool and the API: each call *)
(* takes effect at one instant between its invocation and its return.  A   *)
(* call that returns an error may have taken effect or not.  Jobs are      *)
(* listed oldest first: a job ranks after every job whose creation had     *)
(* returned when its own was invoked.                                      *)
(***************************************************************************)
EXTENDS Naturals, Sequences, FiniteSets

CONSTANTS
    Callers,        \* goroutines that use the store
    Jobs,           \* session ids
    Status,         \* job statuses
    NoJob           \* the job of a call that names none

VARIABLES
    job,            \* job[j]: its status, "NONE" when there is no such job
    rank,           \* rank[j]: its place in creation order
    clock,          \* ranks given out so far
    rows,           \* rows[j]: number of step results
    call,           \* call[c]: the operation c is running
    start,          \* start[c]: the clock when a creation was invoked
    ans,            \* ans[c]: its answer, once it has taken effect
    out             \* out[c]: what the last call of c returned

storeVars == <<job, rank, clock, rows>>
callVars == <<call, start, ans, out>>
vars == <<job, rank, clock, rows, call, start, ans, out>>

Op(o, j, s) == [op |-> o, job |-> j, status |-> s]
NoCall == Op("none", NoJob, "blank")
\* What a call has answered or returned.
NoAns == [is |-> "none"]
Error == [is |-> "error"]
Done == [is |-> "done"]
Row(s) == [is |-> "row", status |-> s]
Ids(q) == [is |-> "ids", ids |-> q]
Count(n) == [is |-> "count", rows |-> n]

Calls == {Op(o, j, "blank") : o \in {"create", "get", "append", "steps"}, j \in Jobs}
         \cup {Op("set", j, s) : j \in Jobs, s \in Status}
         \cup {Op("list", NoJob, s) : s \in Status}

\* The ways to list the jobs of a set of <<rank, job>> pairs, oldest first: one,
\* when no two ranks are equal.
OldestFirst(z) ==
    {q \in [1..Cardinality(z) -> {e[2] : e \in z}] :
        \A i, j \in DOMAIN q : i < j =>
            \E e, f \in z : e[2] = q[i] /\ f[2] = q[j] /\ e[1] < f[1]}

Init ==
    /\ job = [j \in Jobs |-> "NONE"]
    /\ rank = [j \in Jobs |-> 0]
    /\ clock = 0
    /\ rows = [j \in Jobs |-> 0]
    /\ call = [c \in Callers |-> NoCall]
    /\ start = [c \in Callers |-> 0]
    /\ ans = [c \in Callers |-> NoAns]
    /\ out = [c \in Callers |-> NoAns]

Invoke(c, x) ==
    /\ call[c] = NoCall
    /\ call' = [call EXCEPT ![c] = x]
    /\ start' = [start EXCEPT ![c] = IF x.op = "create" THEN clock ELSE 0]
    /\ out' = [out EXCEPT ![c] = NoAns]
    /\ UNCHANGED <<storeVars, ans>>

\* The clock moves on its own: a creation that fails also uses up a rank.
Tick ==
    /\ clock' = clock + 1
    /\ UNCHANGED <<job, rank, rows, callVars>>

Answer(c, o, a) ==
    /\ call[c].op = o
    /\ ans[c] = NoAns
    /\ ans' = [ans EXCEPT ![c] = a]
    /\ UNCHANGED <<call, start, out>>

\* CreateJob: the job is new, and no other job has its rank.
Create(c) ==
    LET j == call[c].job IN
    /\ Answer(c, "create", Done)
    /\ job[j] = "NONE"
    /\ \E n \in (start[c] + 1)..clock :
        /\ \A i \in Jobs : job[i] # "NONE" => rank[i] # n
        /\ rank' = [rank EXCEPT ![j] = n]
    /\ job' = [job EXCEPT ![j] = "PENDING"]
    /\ UNCHANGED <<clock, rows>>

\* SetJobStatus: of a job that exists.
Set(c) ==
    LET j == call[c].job IN
    /\ Answer(c, "set", Done)
    /\ job[j] # "NONE"
    /\ job' = [job EXCEPT ![j] = call[c].status]
    /\ UNCHANGED <<rank, clock, rows>>

\* GetJob.  While a creation is under way, or after one failed half-way, the
\* answer may also be a job without a status.
Get(c) ==
    LET j == call[c].job IN
    /\ \/ Answer(c, "get", Row(job[j]))
       \/ Answer(c, "get", Row("blank")) /\ job[j] = "NONE"
    /\ UNCHANGED storeVars

\* ListJobsByStatus: which jobs, and in which order, is fixed at one instant;
\* the row of each is read later.
List(c) ==
    /\ \E q \in OldestFirst({<<rank[j], j>> :
                             j \in {i \in Jobs : job[i] = call[c].status}}) :
        Answer(c, "list", Ids(q))
    /\ UNCHANGED storeVars

Append1(c) ==
    /\ Answer(c, "append", Done)
    /\ rows' = [rows EXCEPT ![call[c].job] = @ + 1]
    /\ UNCHANGED <<job, rank, clock>>

Steps(c) ==
    /\ Answer(c, "steps", Count(rows[call[c].job]))
    /\ UNCHANGED storeVars

\* The call returns o.
Leave(c, o) ==
    /\ call' = [call EXCEPT ![c] = NoCall]
    /\ start' = [start EXCEPT ![c] = 0]
    /\ ans' = [ans EXCEPT ![c] = NoAns]
    /\ out' = [out EXCEPT ![c] = o]

Return(c) ==
    /\ call[c] # NoCall
    /\ ans[c] # NoAns
    /\ Leave(c, ans[c])
    /\ UNCHANGED storeVars

Fail(c) ==
    /\ call[c] # NoCall
    /\ Leave(c, Error)
    /\ UNCHANGED storeVars

\* The process stops: none of its calls returns.
Stop ==
    /\ call' = [c \in Callers |-> NoCall]
    /\ start' = [c \in Callers |-> 0]
    /\ ans' = [c \in Callers |-> NoAns]
    /\ out' = [c \in Callers |-> NoAns]
    /\ UNCHANGED storeVars

Next ==
    \/ \E c \in Callers :
        \/ \E x \in Calls : Invoke(c, x)
        \/ Create(c) \/ Set(c) \/ Get(c) \/ List(c) \/ Append1(c) \/ Steps(c)
        \/ Return(c) \/ Fail(c)
    \/ Tick
    \/ Stop

Spec == Init /\ [][Next]_vars
=============================================================================
