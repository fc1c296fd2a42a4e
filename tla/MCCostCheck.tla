---------------------------- MODULE MCCostCheck ----------------------------
(***************************************************************************)
(* CostCheck on small plans out of a few resources.                        *)
(***************************************************************************)
EXTENDS CostCheck, TLC

Db(class, az, size, kind) ==
    [type |-> "aws_db_instance", instance_class |-> class, multi_az |-> az,
     allocated_storage |-> size, storage_type |-> kind]
Volume(kind, size) == [type |-> "aws_ebs_volume", volume |-> kind, size |-> size]
Logs(days) == [type |-> "aws_cloudwatch_log_group", retention_in_days |-> days]
Lambda(mb) == [type |-> "aws_lambda_function", memory_size |-> mb]
Nat1 == [type |-> "aws_nat_gateway"]
Eip == [type |-> "aws_eip"]

Some ==
    {Db("m5", TRUE, 10, Null), Db("m5", Null, Null, "gp3"), Db("odd", TRUE, 10, "gp2"), Db("m5", FALSE, 10, "io1"),
     Volume(Null, 8), Volume("gp2", Null), Volume("gp3", 8), Volume("io1", 8),
     Logs(Null), Logs(0), Logs(30), Lambda(Null), Lambda(1024), Nat1, Eip}

\* Three in the root; two there and one in each of two modules; and a module in a module
Module(R, M) == [resources |-> R, child_modules |-> M]
MCPlans ==
    {Module(R, << >>) : R \in [1..3 -> Some]}
    \cup {Module(R, <<Module(C, << >>)>>) : R \in [1..1 -> Some], C \in [1..2 -> Some]}
    \cup {Module(<< >>, <<Module(C, << >>), Module(D, << >>)>>) : C, D \in [1..1 -> Some]}
    \cup {Module(R, <<Module(C, <<Module(D, << >>)>>)>>) : R, C, D \in [1..1 -> {Nat1, Eip, Volume(Null, 8)}]}

Prices ==
    [nat_gateway_hourly |-> 4, nat_gateway_per_gb |-> 1, hours_per_month |-> 10, eip_idle_hourly |-> 1,
     cloudwatch_logs_storage_per_gb_month |-> 1, lambda_per_gb_second |-> 1,
     rds_instance_hourly |-> ("m5" :> 9), rds_storage_per_gb_month |-> [gp2 |-> 3, gp3 |-> 2],
     ebs_per_gb_month |-> [gp2 |-> 5, gp3 |-> 4]]
\* All prices, and files that lack one
MCRateFiles ==
    {Prices, [k \in (DOMAIN Prices) \ {"hours_per_month"} |-> Prices[k]],
     [Prices EXCEPT !.ebs_per_gb_month = [gp2 |-> 5]]}
MCThresholds == {Null, 80}
=============================================================================
