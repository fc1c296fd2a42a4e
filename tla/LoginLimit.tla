----------------------------- MODULE LoginLimit -----------------------------
(***************************************************************************)
(* flask-api-review/fixed/app.py: login and its count of failures per      *)
(* username, as the threads of one process run it.  The count is a Python  *)
(* dict of lists with no lock around it: too_many_failures copies what is  *)
(* recent of a list into a new one and puts that into the dict, and        *)
(* record_failure takes the list of the dict and then appends to it.       *)
(*                                                                         *)
(* A list that is no longer in the dict may still be in a thread's hands,  *)
(* so lists are objects here.  failed and since are what really happened.  *)
(***************************************************************************)
EXTENDS FlaskServer, Integers, Sequences, FiniteSets

CONSTANTS
    LOGIN_MAX_ATTEMPTS, LOGIN_WINDOW_SECONDS,
    MaxTime, MaxAttempts        \* bounds of the exploration

ASSUME LimitsAssumption ==
    /\ LOGIN_MAX_ATTEMPTS \in Nat \ {0} /\ LOGIN_WINDOW_SECONDS \in Nat \ {0}
    /\ MaxTime \in Nat /\ MaxAttempts \in Nat

VARIABLES
    clock,          \* time.monotonic()
    failures,       \* the dict: a list of lists, or Absent, for each name
    lists,          \* the lists made so far: [name, items], items a set of failures
    step,             \* of each thread
    name,           \* the username of its request
    began,          \* when it took the time for its cutoff
    recent,         \* the list it made
    held,           \* the list it is about to append to
    asked,          \* when it took that list
    attempts,       \* how many requests there were
    failed,         \* the requests answered 401: [n, name, at]
    since,          \* those since the last success, for each name
    overlapped      \* the names that two requests were about at once

thread == <<step, name, began, recent, held, asked>>
history == <<attempts, failed, since, overlapped>>
limitVars == <<clock, failures, lists, thread, history>>

Absent == 0
Free == {"idle", "200", "401", "429"}
Busy == {"storing", "testing", "checking", "appending"}

LimitInit ==
    /\ clock = 0
    /\ failures = [u \in Names |-> Absent] /\ lists = << >>
    /\ step = [t \in Threads |-> "idle"]
    /\ name \in [Threads -> Names]
    /\ began = [t \in Threads |-> 0] /\ asked = [t \in Threads |-> 0]
    /\ recent = [t \in Threads |-> Absent] /\ held = [t \in Threads |-> Absent]
    /\ attempts = 0 /\ failed = {} /\ overlapped = {}
    /\ since = [u \in Names |-> {}]

Moves(t, from, to) == step[t] = from /\ step' = [step EXCEPT ![t] = to]

InWindow(F, end) == {f \in F : f.at > end - LOGIN_WINDOW_SECONDS}
Items(u) == IF failures[u] = Absent THEN {} ELSE lists[failures[u]].items

\* A plausible slip: failures do not get old.
RecentForever(u) == Items(u)
\* What too_many_failures keeps of a user's list
Recent(u) == InWindow(Items(u), clock)

----------------------------------------------------------------------------
\* too_many_failures: the recent failures, in a list of their own
Copy(t, u) ==
    /\ attempts < MaxAttempts /\ attempts' = attempts + 1
    /\ step[t] \in Free /\ step' = [step EXCEPT ![t] = "storing"]
    /\ name' = [name EXCEPT ![t] = u] /\ began' = [began EXCEPT ![t] = clock]
    /\ lists' = Append(lists, [name |-> u, items |-> Recent(u)])
    /\ recent' = [recent EXCEPT ![t] = Len(lists) + 1]
    /\ overlapped' = overlapped \cup {v \in {u} : \E x \in Threads : step[x] \in Busy /\ name[x] = v}
    /\ UNCHANGED <<clock, failures, held, asked, failed, since>>

\* ... which takes the place of the one in the dict
Store(t) ==
    /\ Moves(t, "storing", "testing")
    /\ failures' = [failures EXCEPT ![name[t]] = recent[t]]
    /\ UNCHANGED <<clock, lists, name, began, recent, held, asked, history>>

\* A plausible slip: more than the limit, instead of as many.
TestMore(t) ==
    /\ Moves(t, "testing",
            IF Cardinality(lists[recent[t]].items) > LOGIN_MAX_ATTEMPTS
            THEN "429" ELSE "checking")
    /\ UNCHANGED <<clock, failures, lists, name, began, recent, held, asked, history>>
\* ... and is counted, with what others have added to it by now.
Test(t) ==
    /\ Moves(t, "testing",
            IF Cardinality(lists[recent[t]].items) >= LOGIN_MAX_ATTEMPTS
            THEN "429" ELSE "checking")
    /\ UNCHANGED <<clock, failures, lists, name, began, recent, held, asked, history>>

\* A plausible slip: the count is not forgotten.
SucceedKeeping(t) ==
    /\ Moves(t, "checking", "200")
    /\ since' = [since EXCEPT ![name[t]] = {}]
    /\ UNCHANGED <<clock, failures, lists, name, began, recent, held, asked, attempts, failed, overlapped>>
\* The right password: the count is forgotten.
Succeed(t) ==
    /\ Moves(t, "checking", "200")
    /\ failures' = [failures EXCEPT ![name[t]] = Absent]
    /\ since' = [since EXCEPT ![name[t]] = {}]
    /\ UNCHANGED <<clock, lists, name, began, recent, held, asked, attempts, failed, overlapped>>

\* A plausible slip: the list is expected to be there.
TakeListThere(t) ==
    /\ Moves(t, "checking", "appending")
    /\ held' = [held EXCEPT ![t] = failures[name[t]]]
    /\ asked' = [asked EXCEPT ![t] = clock]
    /\ UNCHANGED <<clock, failures, lists, name, began, recent, history>>
\* record_failure: the list of the dict, or a new one where there is none
TakeList(t) ==
    LET u == name[t]
    IN  /\ Moves(t, "checking", "appending")
        /\ IF failures[u] = Absent
           THEN /\ lists' = Append(lists, [name |-> u, items |-> {}])
                /\ failures' = [failures EXCEPT ![u] = Len(lists) + 1]
                /\ held' = [held EXCEPT ![t] = Len(lists) + 1]
           ELSE held' = [held EXCEPT ![t] = failures[u]] /\ UNCHANGED <<lists, failures>>
        /\ asked' = [asked EXCEPT ![t] = clock]
        /\ UNCHANGED <<clock, name, began, recent, history>>

\* ... to which it is appended; the time is taken in between.
AppendFailure(t) ==
    \E at \in asked[t]..clock :
        LET f == [n |-> attempts, thread |-> t, name |-> name[t], at |-> at]
        IN  /\ Moves(t, "appending", "401")
            /\ lists' = [lists EXCEPT ![held[t]].items = @ \cup {f}]
            /\ failed' = failed \cup {f}
            /\ since' = [since EXCEPT ![name[t]] = @ \cup {f}]
            /\ UNCHANGED <<clock, failures, name, began, recent, held, asked, attempts, overlapped>>

Tick ==
    /\ clock < MaxTime /\ clock' = clock + 1
    /\ UNCHANGED <<failures, lists, thread, history>>

LimitNext ==
    \/ \E t \in Threads :
        \/ \E u \in Names : Copy(t, u)
        \/ Store(t) \/ Test(t) \/ Succeed(t) \/ TakeList(t) \/ AppendFailure(t)
    \/ Tick

LimitSpec == LimitInit /\ [][LimitNext]_limitVars
----------------------------------------------------------------------------
Failure == [n : Nat, thread : Threads, name : Names, at : Nat]

LimitTypeOK ==
    /\ clock \in Nat /\ attempts \in Nat
    /\ lists \in Seq([name : Names, items : SUBSET failed]) /\ failed \subseteq Failure
    /\ failures \in [Names -> 0..Len(lists)]
    /\ step \in [Threads -> Free \cup Busy] /\ name \in [Threads -> Names]
    /\ began \in [Threads -> 0..clock] /\ asked \in [Threads -> 0..clock]
    /\ recent \in [Threads -> 0..Len(lists)] /\ held \in [Threads -> 0..Len(lists)]
    /\ \A t \in Threads : /\ step[t] \in Busy => recent[t] # Absent
                          /\ step[t] = "appending" => held[t] # Absent
    /\ since \in [Names -> SUBSET failed] /\ overlapped \subseteq Names

\* Whatever the threads do to each other's lists, nobody is refused who has not
\* failed as often as the limit within the window.
RefusedRightly ==
    \A t \in Threads : step[t] = "429" =>
        Cardinality(InWindow({f \in failed : f.name = name[t]}, began[t])) >= LOGIN_MAX_ATTEMPTS

\* In no window of time does a user fail more often than the limit, unless a
\* request succeeds in between.
Limited(u) ==
    \A f \in since[u] :
        Cardinality(InWindow({g \in since[u] : g.at <= f.at}, f.at)) <= LOGIN_MAX_ATTEMPTS

\* That holds of a user whose requests came one after another ...
QuietLimit == \A u \in Names : u \notin overlapped => Limited(u)

\* ... and such a user is refused only for failures since the last success.
QuietRefusal ==
    [][\A t \in Threads : step[t] # "429" /\ step'[t] = "429" /\ name[t] \notin overlapped =>
        Cardinality(InWindow(since[name[t]], began[t])) >= LOGIN_MAX_ATTEMPTS]_limitVars

\* "429 after five failures in five minutes" (REVIEW.md:201), of requests that
\* may come at once.
AlwaysLimited == \A u \in Names : Limited(u)
=============================================================================
