------------------------------ MODULE CostCheck ------------------------------
(***************************************************************************)
(* aws-cost-review/costcheck.py: which resources of a Terraform plan are   *)
(* read, what each rule makes of them, what goes into the two totals, and  *)
(* the exit code of --fail-over.                                           *)
(*                                                                         *)
(* A resource is its type and the values the rules look at, Null where a   *)
(* value is missing or null; its address is its place in the plan, and a   *)
(* list of resources is the set of their addresses, in whose order it is.  *)
(* Money is counted in whole units.  The text of a finding is left out.    *)
(***************************************************************************)
EXTENDS Integers, Sequences, FiniteSets, FiniteSetsExt

CONSTANTS
    Plans,          \* [resources, child_modules], child_modules being more of the same
    RateFiles,      \* the prices there may be
    Thresholds,     \* the values of --fail-over, Null among them
    Null

VARIABLES
    plan, rates, fail_over,     \* the input
    stage,
    rs, findings, total, avoidable,
    exit_code                   \* or Null

input == <<plan, rates, fail_over>>
costVars == <<input, stage, rs, findings, total, avoidable, exit_code>>

CostInit ==
    /\ plan \in Plans /\ rates \in RateFiles /\ fail_over \in Thresholds
    /\ stage = "loading" /\ exit_code = Null
    /\ rs = {} /\ findings = << >> /\ total = 0 /\ avoidable = 0

Moves(from, to) == stage = from /\ stage' = to

NAT_GATEWAYS_BEFORE_FLAGGING == 1
LAMBDA_MEMORY_MB_WORTH_CHECKING == 1024
MULTI_AZ_MULTIPLIER == 2
DEFAULT_LAMBDA_MEMORY_MB == 128

----------------------------------------------------------------------------
(* The plan. *)

Placed(module, m) == {<<m, n>> : n \in 1..Len(module.resources)}

\* A plausible slip: modules are not read.
RootResources(p) == Placed(p, 0)
\* The resources of the root module, and those of the modules it calls
Resources(p) ==
    Placed(p, 0) \cup UNION {Placed(p.child_modules[m], m) : m \in 1..Len(p.child_modules)}

ValuesIn(p, a) == IF a[1] = 0 THEN p.resources[a[2]] ELSE p.child_modules[a[1]].resources[a[2]]
Values(a) == ValuesIn(plan, a)
Precedes(a, b) == a[1] < b[1] \/ (a[1] = b[1] /\ a[2] < b[2])

\* What JSON and Terraform make of the input: lists have a length, sizes are
\* numbers; and no price is below zero, nor gp3 dearer than gp2 ("gp3 is cheaper
\* per GB", costcheck.py:188).
ASSUME NullAssumption == Null \notin Int
ASSUME PlansAssumption ==
    \A p \in Plans :
        /\ Len(p.resources) \in Nat /\ Len(p.child_modules) \in Nat
        /\ \A m \in 1..Len(p.child_modules) : Len(p.child_modules[m].resources) \in Nat
        /\ \A a \in Resources(p) :
            LET v == ValuesIn(p, a)
            IN  /\ v.type = "aws_db_instance" => v.allocated_storage \in Nat \cup {Null}
                /\ v.type = "aws_ebs_volume" => v.size \in Nat \cup {Null}
ASSUME RatesAssumption ==
    \A r \in RateFiles :
        /\ \A k \in {"nat_gateway_hourly", "hours_per_month", "eip_idle_hourly"} \cap DOMAIN r : r[k] \in Nat
        /\ \A k \in {"rds_instance_hourly", "rds_storage_per_gb_month"} \cap DOMAIN r :
            \A x \in DOMAIN r[k] : r[k][x] \in Nat
        /\ "ebs_per_gb_month" \in DOMAIN r =>
            LET ebs == r.ebs_per_gb_month
            IN  /\ \A x \in {"gp2", "gp3"} \cap DOMAIN ebs : ebs[x] \in Nat
                /\ {"gp2", "gp3"} \subseteq DOMAIN ebs => ebs.gp3 <= ebs.gp2
ASSUME ThresholdsAssumption == Thresholds \subseteq Int \cup {Null}

----------------------------------------------------------------------------
(* The rules. *)

OfType(type) == {a \in rs : Values(a).type = type}
Default(value, default) == IF value \in {Null, 0} THEN default ELSE value
OrGp2(kind) == IF kind = Null THEN "gp2" ELSE kind
Amount(x) == IF x = Null THEN 0 ELSE x

Finding(rule, S, monthly, saved) ==
    [rule |-> rule, resources |-> S, monthly |-> monthly, monthly_avoidable |-> saved]

\* What each rule looks at
Gateways == OfType("aws_nat_gateway")
Databases == OfType("aws_db_instance")
ForeverGroups == {g \in OfType("aws_cloudwatch_log_group") : Values(g).retention_in_days \in {Null, 0}}
BigLambdas ==
    {f \in OfType("aws_lambda_function") :
        Default(Values(f).memory_size, DEFAULT_LAMBDA_MEMORY_MB) >= LAMBDA_MEMORY_MB_WORTH_CHECKING}
Gp2Volumes == {v \in OfType("aws_ebs_volume") : OrGp2(Values(v).volume) = "gp2"}
Idle == Cardinality(OfType("aws_eip")) - Cardinality(Gateways)

CheckNatGateways ==
    LET each == rates.nat_gateway_hourly * rates.hours_per_month
        n == Cardinality(Gateways)
    IN  IF n <= NAT_GATEWAYS_BEFORE_FLAGGING THEN {}
        ELSE {Finding("nat-gateway-per-az", Gateways, each * n, each * (n - 1))}

CheckLogRetention ==
    IF ForeverGroups = {} THEN {}
    ELSE {Finding("log-group-never-expires", ForeverGroups, Null, Null)}

Multiplier(v) == IF v.multi_az = TRUE THEN MULTI_AZ_MULTIPLIER ELSE 1
PricedStorage(type) == IF type \in DOMAIN rates.rds_storage_per_gb_month THEN rates.rds_storage_per_gb_month[type] ELSE 0
DbMonthly(v) ==
    LET instance == rates.rds_instance_hourly[v.instance_class] * rates.hours_per_month * Multiplier(v)
        storage == Default(v.allocated_storage, 0) * PricedStorage(OrGp2(v.storage_type)) * Multiplier(v)
    IN  instance + storage
HasPrice(db) == Values(db).instance_class \in DOMAIN rates.rds_instance_hourly

\* A plausible slip: a class without a price costs nothing.
PricedRds == {Finding("rds-cost-drivers", {db}, DbMonthly(Values(db)), Null) : db \in {d \in Databases : HasPrice(d)}}
CheckDb(db) ==
    IF HasPrice(db) THEN Finding("rds-cost-drivers", {db}, DbMonthly(Values(db)), Null)
    ELSE Finding("rds-unpriced-class", {db}, Null, Null)
CheckRds == {CheckDb(db) : db \in Databases}

CheckLambdaMemory == {Finding("lambda-memory-reserved-not-measured", {f}, Null, Null) : f \in BigLambdas}

Size(v) == Default(Values(v).size, 0)
CheckGp2Volumes ==
    LET total_gb == MapThenSumSet(Size, Gp2Volumes)
        gp2 == rates.ebs_per_gb_month.gp2
    IN  IF Gp2Volumes = {} THEN {}
        ELSE {Finding("ebs-gp2-not-gp3", Gp2Volumes, total_gb * gp2,
                      total_gb * (gp2 - rates.ebs_per_gb_month.gp3))}

CheckIdleEips ==
    IF Idle <= 0 THEN {}
    ELSE {Finding("elastic-ip-idle", OfType("aws_eip"), Idle * rates.eip_idle_hourly * rates.hours_per_month, Null)}

Found == CheckNatGateways \cup CheckLogRetention \cup CheckRds \cup CheckLambdaMemory \cup CheckGp2Volumes \cup CheckIdleEips

\* The prices the rules ask the file for
Lookups ==
    LET of(applies, keys) == IF applies THEN keys ELSE {}
    IN  of(Cardinality(Gateways) > NAT_GATEWAYS_BEFORE_FLAGGING,
           {"nat_gateway_hourly", "hours_per_month", "nat_gateway_per_gb"})
        \cup of(ForeverGroups # {}, {"cloudwatch_logs_storage_per_gb_month"})
        \cup of(Databases # {}, {"rds_instance_hourly"})
        \cup of("rds_instance_hourly" \in DOMAIN rates /\ \E db \in Databases : HasPrice(db),
                {"hours_per_month", "rds_storage_per_gb_month"})
        \cup of(BigLambdas # {}, {"lambda_per_gb_second"})
        \cup of(Gp2Volumes # {}, {"ebs_per_gb_month"})
        \cup of(Idle > 0, {"eip_idle_hourly", "hours_per_month"})
PricesFound ==
    /\ Lookups \subseteq DOMAIN rates
    /\ Gp2Volumes # {} => {"gp2", "gp3"} \subseteq DOMAIN rates.ebs_per_gb_month

\* CHECKS, each by its rules
CHECKS ==
    <<{"nat-gateway-per-az"}, {"log-group-never-expires"}, {"rds-cost-drivers", "rds-unpriced-class"},
      {"lambda-memory-reserved-not-measured"}, {"ebs-gp2-not-gp3"}, {"elastic-ip-idle"}>>
FoundBefore(x, y) ==
    \E m, n \in DOMAIN CHECKS :
        /\ x.rule \in CHECKS[m] /\ y.rule \in CHECKS[n]
        /\ m < n \/ (m = n /\ \E a \in x.resources : \A b \in y.resources : Precedes(a, b))

\* Dearest first; those of one price as they were found
Above(x, y) ==
    \/ Amount(x.monthly) > Amount(y.monthly)
    \/ Amount(x.monthly) = Amount(y.monthly) /\ FoundBefore(x, y)
ByCost ==
    [n \in 1..Cardinality(Found) |-> CHOOSE x \in Found : Cardinality({y \in Found : Above(y, x)}) = n - 1]

----------------------------------------------------------------------------
(* main *)

ReadPlan ==
    /\ Moves("loading", "checking") /\ rs' = Resources(plan)
    /\ UNCHANGED <<input, findings, total, avoidable, exit_code>>

\* A file that is missing or not JSON: a traceback, and 1 as for too high a cost
ReadFails ==
    /\ Moves("loading", "crashed") /\ exit_code' = 1
    /\ UNCHANGED <<input, rs, findings, total, avoidable>>

RunChecks ==
    /\ Moves("checking", "totalling") /\ PricesFound
    /\ findings' = ByCost
    /\ UNCHANGED <<input, rs, total, avoidable, exit_code>>

\* A price that a rule asks for is not in the file: a traceback.
RateMissing ==
    /\ Moves("checking", "crashed") /\ exit_code' = 1 /\ ~PricesFound
    /\ UNCHANGED <<input, rs, findings, total, avoidable>>

Monthly(n) == Amount(findings[n].monthly)
Avoidable(n) == Amount(findings[n].monthly_avoidable)

\* A plausible slip: a finding that also names a cost by usage is left out of the total.
AddUpFixedOnly ==
    /\ Moves("totalling", "deciding")
    /\ total' = MapThenSumSet(Monthly, {n \in DOMAIN findings : findings[n].rule # "nat-gateway-per-az"})
    /\ avoidable' = MapThenSumSet(Avoidable, DOMAIN findings)
    /\ UNCHANGED <<input, rs, findings, exit_code>>
AddUp ==
    /\ Moves("totalling", "deciding")
    /\ total' = MapThenSumSet(Monthly, DOMAIN findings)
    /\ avoidable' = MapThenSumSet(Avoidable, DOMAIN findings)
    /\ UNCHANGED <<input, rs, findings, exit_code>>

Decide ==
    /\ Moves("deciding", "done")
    /\ exit_code' = IF fail_over # Null /\ total > fail_over THEN 1 ELSE 0
    /\ UNCHANGED <<input, rs, findings, total, avoidable>>

CostNext == ReadPlan \/ ReadFails \/ RunChecks \/ RateMissing \/ AddUp \/ Decide

CostSpec == CostInit /\ [][CostNext]_costVars
----------------------------------------------------------------------------
\* What the properties speak of: the resources of a plan whose modules call no
\* modules themselves, each by its address, and what each costs by itself.  Only
\* databases, gp2 volumes, gateways and idle addresses are priced at all.
Flat == \A m \in 1..Len(plan.child_modules) : plan.child_modules[m].child_modules = << >>
Places ==
    {<<0, n>> : n \in 1..Len(plan.resources)}
    \cup UNION {{<<m, n>> : n \in 1..Len(plan.child_modules[m].resources)} : m \in 1..Len(plan.child_modules)}
All(type) == {a \in Places : Values(a).type = type}
Count(type) == Cardinality(All(type))

DbCost(db) ==
    LET v == Values(db)
        az == IF v.multi_az = TRUE THEN 2 ELSE 1
        kind == IF v.storage_type = Null THEN "gp2" ELSE v.storage_type
        size == IF v.allocated_storage = Null THEN 0 ELSE v.allocated_storage
        per_gb == IF kind \in DOMAIN rates.rds_storage_per_gb_month THEN rates.rds_storage_per_gb_month[kind] ELSE 0
    IN  IF v.instance_class \notin DOMAIN rates.rds_instance_hourly THEN 0
        ELSE az * rates.rds_instance_hourly[v.instance_class] * rates.hours_per_month + az * size * per_gb
VolumeCost(volume) ==
    LET v == Values(volume)
    IN  IF v.volume \in {Null, "gp2"} /\ v.size # Null THEN v.size * rates.ebs_per_gb_month.gp2 ELSE 0

\* A gateway is billed by the hour whether or not traffic flows (costcheck.py:25).
GatewayCost ==
    IF {"nat_gateway_hourly", "hours_per_month"} \subseteq DOMAIN rates
    THEN rates.nat_gateway_hourly * rates.hours_per_month ELSE 0

Bill ==
    MapThenSumSet(DbCost, All("aws_db_instance"))
    + MapThenSumSet(VolumeCost, All("aws_ebs_volume"))
    + Count("aws_nat_gateway") * GatewayCost
    + (IF Count("aws_eip") > Count("aws_nat_gateway")
       THEN (Count("aws_eip") - Count("aws_nat_gateway")) * rates.eip_idle_hourly * rates.hours_per_month ELSE 0)

\* What the total leaves out: a gateway that is the only one is no finding.
LoneGateway == IF Count("aws_nat_gateway") = 1 THEN GatewayCost ELSE 0

\* The total is the bill of those resources, wherever in the plan they are, but
\* for a gateway that is the only one; and main answers 0 only if that much is
\* within the threshold, never when a price was missing (costcheck.py:39-44,
\* 57-58, 282-293).
BillAddsUp ==
    Flat => /\ stage = "done" => total = Bill - LoneGateway
            /\ exit_code = 0 /\ fail_over # Null => Bill - LoneGateway <= fail_over

\* No resource that costs something, or that may, is left out of the report, and
\* none is reported twice: a database, whether or not its class has a price, a
\* gp2 volume, a log group that keeps everything ("a resource the tool cannot
\* price vanishing from the report", README.md of aws-cost-review).
NothingVanishes ==
    stage = "done" /\ Flat =>
        \A a \in Places :
            LET v == Values(a)
            IN  \/ v.type = "aws_db_instance"
                \/ v.type = "aws_ebs_volume" /\ v.volume \in {Null, "gp2"}
                \/ v.type = "aws_cloudwatch_log_group" /\ v.retention_in_days \in {Null, 0}
                => \E n \in DOMAIN findings :
                       {m \in DOMAIN findings : a \in findings[m].resources} = {n}

\* What could be saved is part of what is paid (costcheck.py:61, 187, 245-246).
AvoidableWithinTotal == stage = "done" => 0 <= avoidable /\ avoidable <= total
=============================================================================
