------------------------------- MODULE Tenancy -------------------------------
(***************************************************************************)
(* multi-tenant-isolation: the timesheet service of each tenant, from its  *)
(* start (common.py: connect, ensure_seed, run) to the requests it answers *)
(* (common.py's handlers with fixed.py's two decisions).                   *)
(*                                                                         *)
(* A stack says which database each service is pointed at and which key it *)
(* signs with; two services may share either.  Every statement commits by  *)
(* itself, and services and databases may be stopped between any two.      *)
(***************************************************************************)
EXTENDS Integers, FiniteSets

CONSTANTS
    N,              \* the number of tenants of SEED, each with a service
    ROWS,           \* the rows SEED has for each
    Databases,
    Keys,
    Stacks,         \* the deployments: [db : tenant -> database, key : tenant -> key]
    MaxFaults       \* how often something is stopped

Tenants == 1..N

ASSUME SizesAssumption == N \in Nat \ {0} /\ ROWS \in Nat \ {0} /\ MaxFaults \in Nat
ASSUME StacksAssumption == Stacks \subseteq [db : [Tenants -> Databases], key : [Tenants -> Keys]]

NoOne == 0

Setup == {"checking", "creating", "counting", "inserting", "unlocking"}

VARIABLES
    stack,
    pc,             \* of each service
    at, row,        \* the tenant and the row of SEED a service has come to
    ready,          \* the databases that accept connections
    lock,           \* who holds the advisory lock of each database
    table,          \* the databases that have the table entries
    entries,        \* its rows: [id, tenant, n], n being the row of SEED
    serial,         \* the next id
    sessions,       \* the tokens handed out: [tenant, key]
    reply,          \* the last answer: [to, rows]
    torn,           \* the seeds that were stopped part-way: <<database, tenant>>
    faults

service == <<pc, at, row>>
database == <<ready, lock, table, entries, serial>>
traffic == <<sessions, reply>>
vars == <<stack, service, database, traffic, torn, faults>>

Db(s) == stack.db[s]
Key(s) == stack.key[s]

NoReply == [to |-> NoOne, rows |-> {}]

Init ==
    /\ stack \in Stacks
    /\ pc = [s \in Tenants |-> "down"]
    /\ at = [s \in Tenants |-> 1] /\ row = [s \in Tenants |-> 1]
    /\ ready = {} /\ table = {}
    /\ lock = [d \in Databases |-> NoOne]
    /\ entries = [d \in Databases |-> {}] /\ serial = [d \in Databases |-> 1]
    /\ sessions = {} /\ reply = NoReply
    /\ torn = {} /\ faults = 0

Goes(s, from, to) == pc[s] = from /\ pc' = [pc EXCEPT ![s] = to]

RowsOf(d, t) == {e \in entries[d] : e.tenant = t}
Whole(d, t) == \A n \in 1..ROWS : \E e \in RowsOf(d, t) : e.n = n

----------------------------------------------------------------------------
(* The start of a service. *)

Launch(s) ==
    /\ pc[s] \in {"down", "failed"} /\ pc' = [pc EXCEPT ![s] = "connecting"]
    /\ UNCHANGED <<stack, at, row, database, traffic, torn, faults>>

Connect(s) ==
    /\ Goes(s, "connecting", "waiting") /\ Db(s) \in ready
    /\ UNCHANGED <<stack, at, row, database, traffic, torn, faults>>

\* Thirty seconds went by without a connection.
ConnectFails(s) ==
    /\ Goes(s, "connecting", "failed") /\ Db(s) \notin ready
    /\ UNCHANGED <<stack, at, row, database, traffic, torn, faults>>

\* A plausible slip: no lock around the setup.
LockIgnored(s) ==
    /\ Goes(s, "waiting", "checking")
    /\ lock' = [lock EXCEPT ![Db(s)] = s]
    /\ UNCHANGED <<stack, at, row, ready, table, entries, serial, traffic, torn, faults>>
Lock(s) ==
    /\ Goes(s, "waiting", "checking") /\ lock[Db(s)] = NoOne
    /\ lock' = [lock EXCEPT ![Db(s)] = s]
    /\ UNCHANGED <<stack, at, row, ready, table, entries, serial, traffic, torn, faults>>

\* CREATE TABLE IF NOT EXISTS looks for the table, and then makes it.
CheckTable(s) ==
    /\ Goes(s, "checking", IF Db(s) \in table THEN "counting" ELSE "creating")
    /\ at' = [at EXCEPT ![s] = 1]
    /\ UNCHANGED <<stack, row, database, traffic, torn, faults>>

\* Had somebody made it meanwhile: a unique violation, and no service.
CreateTable(s) ==
    LET d == Db(s)
    IN  /\ Goes(s, "creating", IF d \in table THEN "failed" ELSE "counting")
        /\ table' = table \cup {d}
        /\ lock' = [lock EXCEPT ![d] = IF d \in table THEN NoOne ELSE @]
        /\ UNCHANGED <<stack, at, row, ready, entries, serial, traffic, torn, faults>>

\* A plausible slip: the rows are not counted before they are inserted.
CountIgnored(s) ==
    /\ Goes(s, "counting", IF at[s] > N THEN "unlocking" ELSE "inserting")
    /\ row' = [row EXCEPT ![s] = 1]
    /\ UNCHANGED <<stack, at, database, traffic, torn, faults>>
\* A plausible slip: the rows of every tenant are counted.
CountAnyone(s) ==
    /\ Goes(s, "counting", IF at[s] > N THEN "unlocking"
                           ELSE IF entries[Db(s)] = {} THEN "inserting" ELSE "counting")
    /\ row' = [row EXCEPT ![s] = 1]
    /\ at' = [at EXCEPT ![s] = IF @ <= N /\ entries[Db(s)] # {} THEN @ + 1 ELSE @]
    /\ UNCHANGED <<stack, database, traffic, torn, faults>>
\* The next tenant of SEED; one that has rows is left as it is.
Count(s) ==
    LET seeded == at[s] <= N /\ RowsOf(Db(s), at[s]) # {}
    IN  /\ Goes(s, "counting", IF at[s] > N THEN "unlocking"
                               ELSE IF seeded THEN "counting" ELSE "inserting")
        /\ row' = [row EXCEPT ![s] = 1]
        /\ at' = [at EXCEPT ![s] = IF seeded THEN @ + 1 ELSE @]
        /\ UNCHANGED <<stack, database, traffic, torn, faults>>

\* A plausible slip: one row more than there are.
InsertOneMore(s) ==
    LET d == Db(s)
        last == row[s] > ROWS
    IN  /\ Goes(s, "inserting", IF last THEN "counting" ELSE "inserting")
        /\ entries' = [entries EXCEPT ![d] =
                @ \cup {[id |-> serial[d], tenant |-> at[s], n |-> row[s]]}]
        /\ serial' = [serial EXCEPT ![d] = @ + 1]
        /\ row' = [row EXCEPT ![s] = @ + 1]
        /\ at' = [at EXCEPT ![s] = IF last THEN @ + 1 ELSE @]
        /\ UNCHANGED <<stack, ready, lock, table, traffic, torn, faults>>
Insert(s) ==
    LET d == Db(s)
        last == row[s] = ROWS
    IN  /\ Goes(s, "inserting", IF last THEN "counting" ELSE "inserting")
        /\ entries' = [entries EXCEPT ![d] =
                @ \cup {[id |-> serial[d], tenant |-> at[s], n |-> row[s]]}]
        /\ serial' = [serial EXCEPT ![d] = @ + 1]
        /\ row' = [row EXCEPT ![s] = @ + 1]
        /\ at' = [at EXCEPT ![s] = IF last THEN @ + 1 ELSE @]
        /\ UNCHANGED <<stack, ready, lock, table, traffic, torn, faults>>

\* A plausible slip: the lock is kept for as long as the connection is.
UnlockForgotten(s) ==
    /\ Goes(s, "unlocking", "serving")
    /\ UNCHANGED <<stack, at, row, database, traffic, torn, faults>>
Unlock(s) ==
    /\ Goes(s, "unlocking", "serving")
    /\ lock' = [lock EXCEPT ![Db(s)] = NoOne]
    /\ UNCHANGED <<stack, at, row, ready, table, entries, serial, traffic, torn, faults>>

Step(s) ==
    \/ Connect(s) \/ ConnectFails(s) \/ Lock(s) \/ CheckTable(s) \/ CreateTable(s)
    \/ Count(s) \/ Insert(s) \/ Unlock(s)

----------------------------------------------------------------------------
(* Requests.  A service that was cut off still opens sessions. *)

Serving(s) == pc[s] = "serving" /\ UNCHANGED <<stack, service, database, torn, faults>>
CutOff(s) == pc[s] = "cut off" /\ UNCHANGED <<stack, service, database, torn, faults>>

Login(s) ==
    /\ Serving(s) \/ CutOff(s)
    /\ sessions' = sessions \cup {[tenant |-> s, key |-> Key(s)]}
    /\ UNCHANGED reply

\* A plausible slip: a token signed with the right key will do.
AcceptsSigned(s, token) == token.key = Key(s)
\* read_token and accept_session
Accepts(s, token) == token.key = Key(s) /\ token.tenant = s

Answer(s, token, rows) ==
    /\ reply' = IF Accepts(s, token) THEN [to |-> token.tenant, rows |-> rows]
                ELSE NoReply
    /\ UNCHANGED sessions

\* GET /entries
ListEntries(s, token) == Serving(s) /\ Answer(s, token, RowsOf(Db(s), s))

\* A plausible slip: the tenant is not part of the query.
FoundOfAnyone(s, id) == {e \in entries[Db(s)] : e.id = id}
\* fetch_entry
Found(s, id) == {e \in entries[Db(s)] : e.id = id /\ e.tenant = s}

\* GET /entries/<id>
FetchEntry(s, token, id) == Serving(s) /\ Answer(s, token, Found(s, id))

\* The query raises, and the connection is closed without an answer.
QueryFails(s) == CutOff(s) /\ reply' = NoReply /\ UNCHANGED sessions

Request ==
    \E s \in Tenants :
        \/ Login(s)
        \/ QueryFails(s)
        \/ \E token \in sessions :
            \/ ListEntries(s, token)
            \/ \E e \in entries[Db(s)] : FetchEntry(s, token, e.id)

----------------------------------------------------------------------------
(* What may stop: a service, with its connection and its locks, and a      *)
(* database, with every connection to it.                                  *)

TornBy(S) ==
    {<<Db(s), at[s]>> : s \in {x \in S : pc[x] = "inserting" /\ row[x] > 1}}

Fault == faults < MaxFaults /\ faults' = faults + 1

Kill(s) ==
    /\ Fault /\ pc[s] # "down" /\ pc' = [pc EXCEPT ![s] = "down"]
    /\ lock' = [d \in Databases |-> IF lock[d] = s THEN NoOne ELSE lock[d]]
    /\ torn' = torn \cup TornBy({s})
    /\ UNCHANGED <<stack, at, row, ready, table, entries, serial, traffic>>

Ready(d) ==
    /\ d \notin ready /\ ready' = ready \cup {d}
    /\ UNCHANGED <<stack, service, lock, table, entries, serial, traffic, torn, faults>>

\* A service that was serving goes on without its connection, and never opens another.
Shutdown(d) ==
    LET cut == {s \in Tenants : Db(s) = d /\ pc[s] \in Setup \cup {"waiting", "serving"}}
    IN  /\ Fault /\ d \in ready /\ ready' = ready \ {d}
        /\ pc' = [s \in Tenants |->
                IF s \notin cut THEN pc[s]
                ELSE IF pc[s] = "serving" THEN "cut off" ELSE "failed"]
        /\ lock' = [lock EXCEPT ![d] = NoOne]
        /\ torn' = torn \cup TornBy(cut)
        /\ UNCHANGED <<stack, at, row, table, entries, serial, traffic>>

Next ==
    \/ \E s \in Tenants : Launch(s) \/ Step(s) \/ Kill(s)
    \/ \E d \in Databases : Ready(d) \/ Shutdown(d)
    \/ Request

Spec == Init /\ [][Next]_vars

\* Python and Postgres run what they can; nobody has to start or to stop anything.
Fairness == \A s \in Tenants : WF_vars(Step(s))
FairSpec == Spec /\ Fairness

----------------------------------------------------------------------------
TypeOK ==
    /\ stack \in Stacks
    /\ pc \in [Tenants -> Setup \cup {"down", "connecting", "waiting", "serving", "cut off", "failed"}]
    /\ at \in [Tenants -> 1..(N + 1)] /\ row \in [Tenants -> 1..(ROWS + 1)]
    /\ ready \subseteq Databases /\ table \subseteq Databases
    /\ lock \in [Databases -> Tenants \cup {NoOne}]
    /\ DOMAIN entries = Databases
    /\ \A d \in Databases : entries[d] \subseteq [id : Nat, tenant : Tenants, n : 1..ROWS]
    /\ serial \in [Databases -> Nat]
    /\ sessions \subseteq [tenant : Tenants, key : Keys]
    /\ torn \subseteq Databases \X Tenants
    /\ faults \in 0..MaxFaults

\* However the services start, stop and start again, no row of SEED is ever in a
\* database twice (common.py:23: "two callers can both see an empty table").
SeededOnce ==
    \A d \in Databases : \A e, f \in entries[d] :
        e.tenant = f.tenant /\ e.n = f.n => e = f

\* No service loses the race to create the table (README, "One bug found").
NoConflict == \A s \in Tenants : pc[s] = "creating" => Db(s) \notin table

\* A service that answers has every tenant's rows in its database, unless the
\* insertion of that tenant's was stopped; it has some even then, which is what
\* the probes need (verify.py:98).
SeededWhole ==
    \A s \in Tenants : pc[s] = "serving" => \A t \in Tenants :
        RowsOf(Db(s), t) # {} /\ (<<Db(s), t>> \in torn \/ Whole(Db(s), t))

\* Whatever databases and keys the tenants share, an answer holds rows of the
\* tenant alone where the session it answers was opened.
OwnRowsOnly == \A e \in reply.rows : e.tenant = reply.to

\* A service that waits for the others' setup comes to serve, unless it is stopped.
SetupEnds ==
    \A s \in Tenants :
        pc[s] = "waiting" ~> pc[s] \in {"serving", "cut off", "down", "failed"}
=============================================================================
