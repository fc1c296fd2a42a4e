------------------------------ MODULE MCTenancy ------------------------------
(***************************************************************************)
(* TenancyVerify for two tenants: the shared and the isolated stack, and   *)
(* the shared one with a key used twice.                                   *)
(***************************************************************************)
EXTENDS TenancyVerify

MCStacks ==
    {[db |-> <<"db-a", "db-a">>, key |-> <<"key-a", "key-b">>],
     [db |-> <<"db-a", "db-b">>, key |-> <<"key-a", "key-b">>],
     [db |-> <<"db-a", "db-a">>, key |-> <<"key-a", "key-a">>]}
=============================================================================
