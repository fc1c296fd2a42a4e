---------------------------- MODULE TenancyVerify ----------------------------
(***************************************************************************)
(* multi-tenant-isolation/verify.py probing the services of Tenancy, which *)
(* are started, stopped and asked by others while it runs.  It is called   *)
(* with the name of the stack that is up: shared-fixed or isolated.        *)
(***************************************************************************)
EXTENDS Tenancy

CONSTANT A, B       \* the two tenants it knows

ASSUME ProbedAssumption == A \in Tenants /\ B \in Tenants /\ A # B

VARIABLES
    probe,          \* the next request of verify.py
    target,         \* the id of tenant B's first row
    failures,
    code,           \* the exit code, or None
    undisturbed     \* nothing was stopped since it began (history)

verifier == <<probe, target, failures, code, undisturbed>>

None == -1

Shared == Db(A) = Db(B)

\* EXPECTED of the stack that is up
Expected ==
    [cross_tenant_read |-> FALSE, token_replay |-> FALSE,
     db_path_open |-> Shared, only_proxy_published |-> TRUE]

InitVerify ==
    /\ Init
    /\ probe = "idle" /\ target = 0 /\ failures = 0 /\ code = None
    /\ undisturbed = TRUE

----------------------------------------------------------------------------
\* The proxy answers 502 for a service that does not listen.
Listens(s) == pc[s] \in {"serving", "cut off"}

TokenOf(s) == [tenant |-> s, key |-> Key(s)]

\* The probe after the one that a request belongs to
After(p) ==
    CASE p \in {"login b", "list b", "login a", "fetch"} -> "login a again"
      [] p \in {"login a again", "whoami"} -> "path"
      [] p = "path" -> "ports"
      [] p = "ports" -> "end"

Quiet == UNCHANGED <<stack, service, database, reply, torn, faults, code, undisturbed>>

\* A probe that raises is counted as a failure, and the next one is made.
Raises(p) ==
    /\ probe = p /\ probe' = After(p) /\ failures' = failures + 1
    /\ UNCHANGED <<target, sessions>> /\ Quiet

\* A probe that says got, of what name is expected
Concludes(p, name, got) ==
    /\ probe = p /\ probe' = After(p)
    /\ failures' = IF got = Expected[name] THEN failures ELSE failures + 1
    /\ UNCHANGED <<target, sessions>> /\ Quiet

\* "Give the containers a few seconds after up before probing" (README).
StartVerify ==
    /\ probe = "idle" /\ probe' = "login b" /\ pc[A] = "serving" /\ pc[B] = "serving"
    /\ UNCHANGED <<vars, target, failures, code, undisturbed>>

LogsIn(p, s, then) ==
    /\ probe = p /\ Listens(s) /\ probe' = then
    /\ sessions' = sessions \cup {TokenOf(s)}
    /\ UNCHANGED <<target, failures>> /\ Quiet

LoginFails(p, s) == ~Listens(s) /\ Raises(p)

\* probe_cross_tenant_read: the first of B's rows ...
ListOfB ==
    LET rows == RowsOf(Db(B), B)
    IN  /\ probe = "list b" /\ probe' = "login a"
        /\ pc[B] = "serving" /\ Accepts(B, TokenOf(B)) /\ rows # {}
        /\ target' = CHOOSE i \in {e.id : e \in rows} : \A e \in rows : i <= e.id
        /\ UNCHANGED <<failures, sessions>> /\ Quiet

NoListOfB ==
    /\ pc[B] = "serving" => ~Accepts(B, TokenOf(B)) \/ RowsOf(Db(B), B) = {}
    /\ Raises("list b")

\* ... is asked of A, which answers 200 if it finds it.
FetchFromA ==
    Concludes("fetch", "cross_tenant_read",
              pc[A] = "serving" /\ Accepts(A, TokenOf(A)) /\ Found(A, target) # {})

\* probe_token_replay: whoami asks no database.
WhoamiOfB == Concludes("whoami", "token_replay", Listens(B) /\ Accepts(B, TokenOf(A)))

\* probe_db_path_open: from A's container, if there is one, over the one network
\* that a shared stack has
PathFromA ==
    Concludes("path", "db_path_open", Shared /\ Db(B) \in ready /\ pc[A] \notin {"down", "failed"})

\* probe_only_proxy_published: what is published does not change.
Published == Concludes("ports", "only_proxy_published", TRUE)

\* docker itself failed, or took too long.
DockerFails ==
    /\ probe \in {"path", "ports"} /\ probe' = After(probe)
    /\ \E n \in {0, 1} : failures' = failures + n
    /\ undisturbed' = FALSE
    /\ UNCHANGED <<vars, target, code>>

EndVerify ==
    /\ probe = "end" /\ probe' = "ended"
    /\ code' = IF failures > 0 THEN 1 ELSE 0
    /\ UNCHANGED <<vars, target, failures, undisturbed>>

Verify ==
    \/ StartVerify
    \/ LogsIn("login b", B, "list b") \/ LoginFails("login b", B)
    \/ ListOfB \/ NoListOfB
    \/ LogsIn("login a", A, "fetch") \/ LoginFails("login a", A)
    \/ FetchFromA
    \/ LogsIn("login a again", A, "whoami") \/ LoginFails("login a again", A)
    \/ WhoamiOfB \/ PathFromA \/ Published \/ DockerFails
    \/ EndVerify

\* The services go on; what is stopped meanwhile disturbs the probes.
Others ==
    /\ Next
    /\ undisturbed' = (undisturbed /\ (probe = "idle" \/ faults' = faults))
    /\ UNCHANGED <<probe, target, failures, code>>

NextVerify == Others \/ Verify

SpecVerify == InitVerify /\ [][NextVerify]_<<vars, verifier>> /\ Fairness

----------------------------------------------------------------------------
\* On services that are up and stay up, and whose seeds were not stopped
\* part-way, every probe finds what the stack claims: the ids of the two
\* databases agree although each is seeded by itself (verify.py:94-109; README,
\* "Every database is seeded with both tenants' rows").
ProbesMatch == code # None /\ undisturbed /\ torn = {} => code = 0
=============================================================================
