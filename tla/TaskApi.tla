------------------------------- MODULE TaskApi -------------------------------
(***************************************************************************)
(* flask-api-review/fixed/app.py: accounts, tokens, tasks and the list of  *)
(* users.  The threads of the server share one SQLite connection, and with *)
(* it one transaction, one last_insert_rowid and one count of changes, so  *)
(* what db().execute and db().commit do inside is taken apart as the       *)
(* sqlite3 module does it: look whether a transaction is open, begin one,  *)
(* run the statement, ask the connection for its counters.                 *)
(*                                                                         *)
(* Free choices are: which titles a search matches, whether a password is  *)
(* right, whether a token is expired or forged, whether a request is       *)
(* malformed or holds a value that SQLite does not take, and who is an     *)
(* admin (which no route changes).  LoginLimit counts failed logins.       *)
(***************************************************************************)
EXTENDS FlaskServer, Integers, FiniteSets

CONSTANTS
    MaxUsers, MaxTasks, MaxTokens   \* bounds of the exploration

ASSUME BoundsAssumption == MaxUsers \in Nat /\ MaxTasks \in Nat /\ MaxTokens \in Nat

VARIABLES
    up,
    key_kept,       \* whether a key from the environment has outlived a start
    users,          \* [id, username]
    tasks,          \* [id, owner_id, by]; by is the name of who created it (history)
    user_seq, task_seq,     \* what AUTOINCREMENT has given out
    saved,          \* the rows as of the last commit: [users, tasks]
    open,           \* whether a transaction is open on the connection
    last_rowid, changes,    \* of the connection
    tokens,         \* those the key verifies: [id, name], name being whose it was (history)
    pc, req,        \* of each thread: its step, and the request it is at
    gone            \* the ids of tasks that were deleted

process == <<up, key_kept>>
tables == <<users, tasks, user_seq, task_seq>>
connection == <<saved, open, last_rowid, changes>>
vars == <<process, tables, connection, tokens, pc, req, gone>>

NoOne == 0
Nobody == "nobody"
Answers == {"200", "201", "401", "403", "404", "409", "500"}
Writing == {"opening", "beginning", "writing", "counting", "committing"}

\* row is what the statement of the request did, told what the answer says of it
NoToken(u) == [id |-> NoOne, name |-> u]
Request(o, tk, i) ==
    [op |-> o, token |-> tk, id |-> i, row |-> 0, told |-> 0, shown |-> {}, alone |-> TRUE]
NoRequest == Request("none", NoToken(Nobody), 0)

Init ==
    /\ up = TRUE /\ key_kept = FALSE
    /\ users = {} /\ tasks = {} /\ user_seq = 0 /\ task_seq = 0
    /\ saved = [users |-> {}, tasks |-> {}]
    /\ open = FALSE /\ last_rowid = 0 /\ changes = 0
    /\ tokens = {} /\ gone = {}
    /\ pc = [t \in Threads |-> "idle"]
    /\ req = [t \in Threads |-> NoRequest]

Goes(t, from, to) == pc[t] = from /\ pc' = [pc EXCEPT ![t] = to]

\* A request that writes begins: it and those it finds writing are not alone.
EntersWith(t, r) ==
    req' = [x \in Threads |->
        IF x = t THEN [r EXCEPT !.alone = \A y \in Threads \ {t} : pc[y] \notin Writing]
        ELSE [req[x] EXCEPT !.alone = @ /\ pc[x] \notin Writing]]

----------------------------------------------------------------------------
(* The routes. *)

\* A plausible slip: whether the name is free is left to the table.
RegisterUnasked(t, u) ==
    /\ Goes(t, "idle", "opening") /\ up
    /\ EntersWith(t, Request("register", NoToken(u), 0))
    /\ UNCHANGED <<process, tables, connection, tokens, gone>>
\* register, up to the INSERT
Register(t, u) ==
    LET taken == \E a \in users : a.username = u
        r == Request("register", NoToken(u), 0)
    IN  /\ Goes(t, "idle", IF taken THEN "409" ELSE "opening") /\ up
        /\ IF taken THEN req' = [req EXCEPT ![t] = r] ELSE EntersWith(t, r)
        /\ UNCHANGED <<process, tables, connection, tokens, gone>>

\* login with the right password
Login(t, u) ==
    \E a \in users :
        /\ a.username = u
        /\ Goes(t, "idle", "200") /\ up
        /\ tokens' = tokens \cup {[id |-> a.id, name |-> u]} /\ Cardinality(tokens') <= MaxTokens
        /\ req' = [req EXCEPT ![t] = Request("login", NoToken(u), 0)]
        /\ UNCHANGED <<process, tables, connection, gone>>

\* current_user: the token is read, and its user looked up.
Authorize(t, o, tk, i) ==
    LET known == \E a \in users : a.id = tk.id
        writes == o \in {"create", "delete", "unfit"}
    IN  /\ Goes(t, "idle", IF ~known THEN "401" ELSE IF writes THEN "opening" ELSE "reading") /\ up
        /\ IF known /\ writes THEN EntersWith(t, Request(o, tk, i))
           ELSE req' = [req EXCEPT ![t] = Request(o, tk, i)]
        /\ UNCHANGED <<process, tables, connection, tokens, gone>>

\* ... and if it is expired, or never was good:
Unauthorized(t) ==
    /\ Goes(t, "idle", "401") /\ up
    /\ UNCHANGED <<process, tables, connection, tokens, req, gone>>

\* The body is not an object, a name or a password is not a string, the id of a
\* GET is beyond 64 bits: the handler answers, and no statement has written.
Malformed(t) ==
    /\ Goes(t, "idle", "500") /\ up
    /\ UNCHANGED <<process, tables, connection, tokens, req, gone>>

\* A plausible slip: the owner is not part of the lookup.
RowOfAnyone(r) == {k \in tasks : k.id = r.id}
\* WHERE id = ? AND owner_id = ?
OwnRow(r) == {k \in tasks : k.id = r.id /\ k.owner_id = r.token.id}
OwnRows(r) == {k \in tasks : k.owner_id = r.token.id}

Shows(t, S) ==
    /\ req' = [req EXCEPT ![t].shown = S]
    /\ UNCHANGED <<process, tables, connection, tokens, gone>>

ListTasks(t) == req[t].op = "list" /\ Goes(t, "reading", "200") /\ Shows(t, OwnRows(req[t]))

GetTask(t) ==
    LET found == OwnRow(req[t])
    IN  req[t].op = "get" /\ Goes(t, "reading", IF found = {} THEN "404" ELSE "200") /\ Shows(t, found)

SearchTasks(t) ==
    \E S \in SUBSET OwnRows(req[t]) :
        req[t].op = "search" /\ Goes(t, "reading", "200") /\ Shows(t, S)

\* Whether is_admin is set is a free choice; the users are not tasks.
AdminUsers(t) ==
    \E code \in {"200", "403"} : req[t].op = "admin" /\ Goes(t, "reading", code) /\ Shows(t, {})

----------------------------------------------------------------------------
(* execute and commit, on the connection the threads share. *)

\* Python's implicit transaction: is there one?
LookForTransaction(t) ==
    /\ Goes(t, "opening", IF open THEN "writing" ELSE "beginning")
    /\ UNCHANGED <<process, tables, connection, tokens, req, gone>>

\* Another thread may have begun one since.
Begin(t) ==
    /\ Goes(t, "beginning", IF open THEN "500" ELSE "writing")
    /\ open' = TRUE
    /\ UNCHANGED <<process, tables, saved, last_rowid, changes, tokens, req, gone>>

\* Outside a transaction a statement commits by itself.
SavesUnlessOpen == saved' = IF open THEN saved ELSE [users |-> users', tasks |-> tasks']

\* A plausible slip: the error handler rolls back.
RefusedRollingBack(t) ==
    /\ req[t].op = "register" /\ \E a \in users : a.username = req[t].token.name
    /\ Goes(t, "writing", "500")
    /\ changes' = 0 /\ open' = FALSE
    /\ users' = saved.users /\ tasks' = saved.tasks
    /\ UNCHANGED <<process, user_seq, task_seq, saved, last_rowid, tokens, req, gone>>
\* UNIQUE refuses a second row; the handler answers, and the transaction stays open.
InsertUserRefused(t) ==
    /\ req[t].op = "register" /\ \E a \in users : a.username = req[t].token.name
    /\ Goes(t, "writing", "500")
    /\ changes' = 0
    /\ UNCHANGED <<process, tables, saved, open, last_rowid, tokens, req, gone>>

\* A plausible slip: username is not UNIQUE, and the SELECT is relied on.
InsertUserTwice(t) ==
    LET id == user_seq + 1
    IN  /\ req[t].op = "register" /\ Goes(t, "writing", "counting") /\ id <= MaxUsers
        /\ users' = users \cup {[id |-> id, username |-> req[t].token.name]}
        /\ user_seq' = id /\ last_rowid' = id /\ changes' = 1
        /\ req' = [req EXCEPT ![t].row = id]
        /\ UNCHANGED tasks /\ SavesUnlessOpen
        /\ UNCHANGED <<process, task_seq, open, tokens, gone>>
InsertUser(t) ==
    LET id == user_seq + 1
    IN  /\ req[t].op = "register" /\ ~\E a \in users : a.username = req[t].token.name
        /\ Goes(t, "writing", "counting") /\ id <= MaxUsers
        /\ users' = users \cup {[id |-> id, username |-> req[t].token.name]}
        /\ user_seq' = id /\ last_rowid' = id /\ changes' = 1
        /\ req' = [req EXCEPT ![t].row = id]
        /\ UNCHANGED tasks /\ SavesUnlessOpen
        /\ UNCHANGED <<process, task_seq, open, tokens, gone>>

InsertTask(t) ==
    LET id == task_seq + 1
        r == req[t]
    IN  /\ r.op = "create" /\ Goes(t, "writing", "counting") /\ id <= MaxTasks
        /\ tasks' = tasks \cup {[id |-> id, owner_id |-> r.token.id, by |-> r.token.name]}
        /\ task_seq' = id /\ last_rowid' = id /\ changes' = 1
        /\ req' = [req EXCEPT ![t].row = id]
        /\ UNCHANGED users /\ SavesUnlessOpen
        /\ UNCHANGED <<process, user_seq, open, tokens, gone>>

\* An "unfit" request is a POST of a title or notes that the table or SQLite does
\* not take (null, a list, a number beyond 64 bits), or a DELETE of such an id: the
\* statement fails at its binding or at NOT NULL, and the transaction stays open.
StatementRefused(t) ==
    /\ req[t].op = "unfit"
    /\ Goes(t, "writing", "500")
    /\ changes' \in {0, changes}
    /\ UNCHANGED <<process, tables, saved, open, last_rowid, tokens, req, gone>>

\* A plausible slip: a key without AUTOINCREMENT.
DeleteLastAgain(t) ==
    LET found == OwnRow(req[t])
    IN  /\ req[t].op = "delete" /\ Goes(t, "writing", "counting")
        /\ tasks' = tasks \ found /\ changes' = Cardinality(found)
        /\ task_seq' = IF found # {} /\ task_seq = req[t].id THEN task_seq - 1 ELSE task_seq
        /\ gone' = gone \cup {k.id : k \in found}
        /\ req' = [req EXCEPT ![t].row = Cardinality(found)]
        /\ UNCHANGED users /\ SavesUnlessOpen
        /\ UNCHANGED <<process, user_seq, open, last_rowid, tokens>>
DeleteTask(t) ==
    LET found == OwnRow(req[t])
    IN  /\ req[t].op = "delete" /\ Goes(t, "writing", "counting")
        /\ tasks' = tasks \ found /\ changes' = Cardinality(found)
        /\ gone' = gone \cup {k.id : k \in found}
        /\ req' = [req EXCEPT ![t].row = Cardinality(found)]
        /\ UNCHANGED users /\ SavesUnlessOpen
        /\ UNCHANGED <<process, user_seq, task_seq, open, last_rowid, tokens>>

Answer(r) ==
    CASE r.op = "register" -> "201"
      [] r.op = "create" -> "201"
      [] OTHER -> IF r.told = 0 THEN "404" ELSE "200"

\* lastrowid and rowcount are asked of the connection; then commit looks whether
\* there is anything to commit.
ReadCounter(t) ==
    LET r == [req[t] EXCEPT !.told = IF req[t].op = "delete" THEN changes ELSE last_rowid]
    IN  /\ Goes(t, "counting", IF open THEN "committing" ELSE Answer(r))
        /\ req' = [req EXCEPT ![t] = r]
        /\ UNCHANGED <<process, tables, connection, tokens, gone>>

\* Another thread may have committed since: then there is no transaction to commit.
Commit(t) ==
    /\ Goes(t, "committing", IF open THEN Answer(req[t]) ELSE "500")
    /\ saved' = IF open THEN [users |-> users, tasks |-> tasks] ELSE saved
    /\ open' = FALSE
    /\ UNCHANGED <<process, tables, last_rowid, changes, tokens, req, gone>>

----------------------------------------------------------------------------
(* The process. *)

\* The answer has gone out, and the thread is free.
Finish(t) ==
    /\ pc[t] \in Answers /\ pc' = [pc EXCEPT ![t] = "idle"]
    /\ req' = [req EXCEPT ![t] = NoRequest]
    /\ UNCHANGED <<process, tables, connection, tokens, gone>>

\* What is in memory is lost, and nobody reads a file again: SCHEMA fails on a
\* file that has its tables, so only a database in memory is started on twice.
Kill ==
    /\ up /\ up' = FALSE
    /\ pc' = [t \in Threads |-> "idle"] /\ req' = [t \in Threads |-> NoRequest]
    /\ users' = {} /\ tasks' = {} /\ user_seq' = 0 /\ task_seq' = 0
    /\ saved' = [users |-> {}, tasks |-> {}]
    /\ open' = FALSE /\ last_rowid' = 0 /\ changes' = 0
    /\ gone' = {}
    /\ UNCHANGED <<key_kept, tokens>>

\* create_app again.
StartOver ==
    /\ ~up /\ up' = TRUE
    /\ UNCHANGED <<tables, connection, pc, req, gone>>

\* With a random key nothing that was signed before is good ...
Start == StartOver /\ tokens' = {} /\ key_kept' = FALSE
\* ... and with TASK_API_SECRET all of it is.
StartWithSecret == StartOver /\ tokens' = tokens /\ key_kept' = TRUE

Next ==
    \/ \E t \in Threads :
        \/ \E u \in Names : Register(t, u) \/ Login(t, u)
        \/ \E tk \in tokens :
            \/ \E o \in {"create", "unfit", "list", "search", "admin"} : Authorize(t, o, tk, 0)
            \/ \E o \in {"get", "delete"}, i \in 1..MaxTasks : Authorize(t, o, tk, i)
        \/ Unauthorized(t) \/ Malformed(t)
        \/ ListTasks(t) \/ GetTask(t) \/ SearchTasks(t) \/ AdminUsers(t)
        \/ LookForTransaction(t) \/ Begin(t)
        \/ InsertUserRefused(t) \/ InsertUser(t) \/ InsertTask(t) \/ DeleteTask(t)
        \/ StatementRefused(t)
        \/ ReadCounter(t) \/ Commit(t) \/ Finish(t)
    \/ Kill \/ Start \/ StartWithSecret

Spec == Init /\ [][Next]_vars
----------------------------------------------------------------------------
TokenType == [id : Nat, name : Names \cup {Nobody}]
RequestType ==
    [op : {"none", "register", "login", "create", "unfit", "delete", "list", "get", "search", "admin"},
     token : TokenType, id : Nat, row : Nat, told : Nat,
     shown : SUBSET [id : Nat, owner_id : Nat, by : Names], alone : BOOLEAN]
UserType == [id : Nat, username : Names]
TaskType == [id : Nat, owner_id : Nat, by : Names]

TypeOK ==
    /\ up \in BOOLEAN /\ key_kept \in BOOLEAN
    /\ users \subseteq UserType /\ tasks \subseteq TaskType
    /\ user_seq \in Nat /\ task_seq \in Nat
    /\ saved \in [users : SUBSET UserType, tasks : SUBSET TaskType]
    /\ open \in BOOLEAN /\ last_rowid \in Nat /\ changes \in Nat
    /\ tokens \subseteq [id : Nat, name : Names] /\ gone \subseteq Nat
    /\ pc \in [Threads -> {"idle", "reading"} \cup Writing \cup Answers]
    /\ req \in [Threads -> RequestType]

\* An answer only holds tasks that the account the token was given to created,
\* through any interleaving and any restart.  Left out are restarts with a key
\* from the environment (app.py:42): the tokens outlive them, the tables do not,
\* and an id is given out again.
OwnTasksOnly ==
    ~key_kept =>
        \A t \in Threads : \A k \in req[t].shown : k.by = req[t].token.name

\* However registrations overlap, a name belongs to one account, and each
\* account to one answer of 201 at most (app.py:85-93).
RegisteredOnce ==
    /\ \A a, b \in users : a.username = b.username \/ a.id = b.id => a = b
    /\ \A t, x \in Threads :
        ({t, x} \subseteq {y \in Threads : pc[y] = "201" /\ req[y].op = "register"}
            /\ req[t].token.name = req[x].token.name) => t = x

\* An id that was deleted never names another task (app.py:30, 136-142).
GoneForGood == \A k \in tasks : k.id \notin gone

\* What is answered as done is saved, whichever thread's commit has saved it,
\* and whatever other threads fail at on the same transaction (app.py:92, 139, 154).
AcksAreSaved ==
    \A t \in Threads :
        LET r == req[t]
        IN  /\ pc[t] = "201" /\ r.op = "register" => \E a \in saved.users : a.id = r.row
            /\ pc[t] = "201" /\ r.op = "create" => r.row \in gone \/ \E k \in saved.tasks : k.id = r.row
            /\ pc[t] = "200" /\ r.op = "delete" /\ r.row = 1 => ~\E k \in saved.tasks : k.id = r.id

\* A request whose writes no other thread's writes overlapped is told the id of its
\* own row, and whether it has deleted one, and is answered 500 only for a fault of
\* its own, whatever transaction earlier failures have left open (app.py:87, 136, 150).
QuietAnswers ==
    \A t \in Threads : pc[t] \in Answers /\ req[t].alone =>
        /\ pc[t] = "500" => req[t].op \in {"none", "unfit"}
        /\ req[t].op \in {"create", "register", "delete"} => req[t].told = req[t].row
=============================================================================
