---------------------------- MODULE TenancyProofs ----------------------------
(***************************************************************************)
(* For any number of tenants, however they share databases and keys and    *)
(* whatever is stopped: every seed is inserted once, nobody is shown       *)
(* another tenant's rows, and verify.py raises no false alarm.             *)
(***************************************************************************)
EXTENDS TenancyVerify, WellFoundedInduction, TLAPS

\* The lock: whoever is in the setup of a database holds it.
Locked == \A s \in Tenants : pc[s] \in Setup => lock[Db(s)] = s

\* Where a service has come to in the setup.
Place ==
    \A s \in Tenants :
        /\ pc[s] = "creating" => Db(s) \notin table /\ at[s] = 1
        /\ pc[s] = "inserting" => at[s] <= N /\ row[s] <= ROWS
        /\ pc[s] \in {"unlocking", "serving"} => at[s] = N + 1

\* A service that inserts has inserted the rows before the one it is at.
Inserting ==
    \A s \in Tenants : pc[s] = "inserting" =>
        /\ \A e \in RowsOf(Db(s), at[s]) : e.n < row[s]
        /\ \A n \in 1..(row[s] - 1) : \E e \in RowsOf(Db(s), at[s]) : e.n = n

\* The tenants before the one a service is at have their rows.
Seeded(d, t) == RowsOf(d, t) # {} /\ (<<d, t>> \in torn \/ Whole(d, t))
Behind ==
    \A s \in Tenants : pc[s] \in {"counting", "inserting", "unlocking", "serving"} =>
        \A t \in 1..(at[s] - 1) : Seeded(Db(s), t)

\* Rows that are there are all there, unless somebody is at it or was stopped.
Accounted ==
    \A d \in Databases, t \in Tenants : RowsOf(d, t) # {} =>
        \/ <<d, t>> \in torn \/ Whole(d, t)
        \/ \E s \in Tenants : Db(s) = d /\ pc[s] = "inserting" /\ at[s] = t

IInv ==
    /\ TypeOK /\ Locked /\ Place /\ Inserting /\ Behind /\ Accounted
    /\ SeededOnce /\ OwnRowsOnly

\* The tenant a service has come to.
LEMMA AtType ==
    ASSUME TypeOK, NEW s \in Tenants
    PROVE  /\ at[s] \in 1..(N + 1)
           /\ at[s] <= N => at[s] \in Tenants
           /\ \A t \in 1..(at[s] - 1) : t \in Tenants
<1>1. at[s] \in 1..(N + 1)
  BY DEF TypeOK
<1>2. N \in Nat
  BY SizesAssumption
<1> QED
  BY <1>1, <1>2 DEF Tenants

LEMMA DbType == ASSUME TypeOK PROVE \A s \in Tenants : Db(s) \in Databases
BY StacksAssumption DEF TypeOK, Db

LEMMA Above ==
    ASSUME NEW i \in 1..ROWS, NEW j \in 1..(ROWS + 1), i < j PROVE j > 1
BY SizesAssumption

LEMMA RowType ==
    ASSUME TypeOK, NEW d \in Databases, NEW e \in entries[d]
    PROVE  e.n \in 1..ROWS /\ e.tenant \in Tenants
<1>1. e \in [id : Nat, tenant : Tenants, n : 1..ROWS]
  BY DEF TypeOK
<1> QED
  BY <1>1

\* Two services in the setup of one database are one.
LEMMA Alone ==
    ASSUME IInv, NEW s \in Tenants, NEW x \in Tenants,
           pc[s] \in Setup, pc[x] \in Setup, Db(x) = Db(s)
    PROVE  x = s
BY DEF IInv, Locked

LEMMA InitIInv == Init => IInv
<1> SUFFICES ASSUME Init PROVE IInv
  OBVIOUS
<1> USE SizesAssumption DEF Init
<1>1. TypeOK
  BY DEF TypeOK, NoReply, Tenants, NoOne
<1>2. Locked /\ Place /\ Inserting /\ Behind
  BY DEF Locked, Place, Inserting, Behind, Setup
<1>3. Accounted /\ SeededOnce
  BY DEF Accounted, SeededOnce, RowsOf
<1>4. OwnRowsOnly
  BY DEF OwnRowsOnly, NoReply
<1> QED
  BY <1>1, <1>2, <1>3, <1>4 DEF IInv

----------------------------------------------------------------------------
(* What a step keeps when it leaves the rows, or the setup, alone. *)

\* No new row: a seed that was whole or torn stays so.
LEMMA SameRows ==
    ASSUME IInv, entries' = entries, torn \subseteq torn'
    PROVE  /\ \A d \in Databases, t \in Tenants : RowsOf(d, t)' = RowsOf(d, t)
           /\ \A d \in Databases, t \in Tenants : Whole(d, t)' = Whole(d, t)
           /\ \A d \in Databases, t \in Tenants : Seeded(d, t) => Seeded(d, t)'
           /\ SeededOnce'
<1>1. \A d \in Databases, t \in Tenants : RowsOf(d, t)' = RowsOf(d, t)
  BY DEF RowsOf
<1>2. \A d \in Databases, t \in Tenants : Whole(d, t)' = Whole(d, t)
  BY <1>1 DEF Whole
<1>3. \A d \in Databases, t \in Tenants : Seeded(d, t) => Seeded(d, t)'
  BY <1>1, <1>2 DEF Seeded
<1>4. SeededOnce'
  BY DEF IInv, SeededOnce
<1> QED
  BY <1>1, <1>2, <1>3, <1>4

\* A step of the start of one service that inserts nothing keeps all but its own place.
LEMMA QuietStep ==
    ASSUME IInv, TypeOK', NEW s \in Tenants,
           UNCHANGED <<stack, entries, torn, reply>>,
           pc[s] # "inserting",
           \A x \in Tenants \ {s} : pc'[x] = pc[x] /\ at'[x] = at[x] /\ row'[x] = row[x],
           \A x \in Tenants \ {s} : pc[x] \in Setup => lock'[Db(x)] = x,
           \A x \in Tenants \ {s} : pc[x] = "creating" => Db(x) \notin table',
           pc'[s] \in Setup => lock'[Db(s)] = s,
           pc'[s] = "creating" => Db(s) \notin table' /\ at'[s] = 1,
           pc'[s] = "inserting" => at'[s] <= N /\ row'[s] = 1 /\ RowsOf(Db(s), at'[s]) = {},
           pc'[s] \in {"unlocking", "serving"} => at'[s] = N + 1,
           pc'[s] \in {"counting", "inserting", "unlocking", "serving"} =>
              \A t \in 1..(at'[s] - 1) : Seeded(Db(s), t)
    PROVE  IInv'
<1> USE DEF IInv
<1>0. \A x \in Tenants : Db(x)' = Db(x) /\ Db(x) \in Databases
  BY DbType DEF Db
<1>1. /\ \A d \in Databases, t \in Tenants : RowsOf(d, t)' = RowsOf(d, t)
      /\ \A d \in Databases, t \in Tenants : Whole(d, t)' = Whole(d, t)
      /\ \A d \in Databases, t \in Tenants : Seeded(d, t) => Seeded(d, t)'
      /\ SeededOnce'
  BY SameRows
<1>2. Locked'
  BY <1>0 DEF Locked
<1>3. Place'
  BY <1>0, SizesAssumption DEF Place
<1>4. Inserting'
  <2> SUFFICES ASSUME NEW x \in Tenants, pc'[x] = "inserting"
               PROVE  /\ \A e \in RowsOf(Db(x), at[x])' : e.n < row'[x]
                      /\ \A n \in 1..(row'[x] - 1) : \E e \in RowsOf(Db(x), at[x])' : e.n = n
    BY DEF Inserting
  <2>1. CASE x = s
    <3>1. at'[s] \in 1..(N + 1) /\ at'[s] <= N
      BY <2>1 DEF TypeOK
    <3>a. at'[s] \in Tenants
      BY <3>1, SizesAssumption DEF Tenants
    <3>2. RowsOf(Db(x), at[x])' = {}
      BY <1>0, <1>1, <2>1, <3>a DEF RowsOf
    <3> QED
      BY <2>1, <3>2
  <2>2. CASE x # s
    <3>1. at[x] \in Tenants
      BY <2>2, AtType DEF Place
    <3>2. RowsOf(Db(x), at[x])' = RowsOf(Db(x), at[x])
      BY <1>0, <2>2 DEF RowsOf
    <3> QED
      BY <2>2, <3>2 DEF Inserting
  <2> QED
    BY <2>1, <2>2
<1>5. Behind'
  <2> SUFFICES ASSUME NEW x \in Tenants,
                      pc'[x] \in {"counting", "inserting", "unlocking", "serving"},
                      NEW t \in 1..(at'[x] - 1)
               PROVE  Seeded(Db(x), t)'
    BY DEF Behind
  <2>1. t \in Tenants
    <3>1. at'[x] \in 1..(N + 1)
      BY DEF TypeOK
    <3> QED
      BY <3>1, SizesAssumption DEF Tenants
  <2>2. Seeded(Db(x), t)
    BY DEF Behind
  <2>3. Db(x)' = Db(x) /\ Db(x) \in Databases
    BY <1>0
  <2> QED
    BY <1>1, <2>1, <2>2, <2>3 DEF Seeded, Whole, RowsOf
<1>6. Accounted'
  BY <1>0, <1>1 DEF Accounted
<1>7. OwnRowsOnly'
  BY DEF OwnRowsOnly
<1> QED
  BY <1>1, <1>2, <1>3, <1>4, <1>5, <1>6, <1>7

----------------------------------------------------------------------------
(* Types. *)

LEMMA TypeSetup ==
    ASSUME IInv, NEW s \in Tenants, Launch(s) \/ Step(s) PROVE TypeOK'
<1> USE SizesAssumption DEF IInv
<1>0. Db(s) \in Databases
  BY DbType
<1>1. CASE Launch(s) \/ Connect(s) \/ ConnectFails(s)
  BY <1>1 DEF Launch, Connect, ConnectFails, Goes, TypeOK, database, traffic
<1>2. CASE Lock(s)
  BY <1>0, <1>2 DEF Lock, Goes, TypeOK, traffic, Setup
<1>3. CASE CheckTable(s)
  <2>1. 1 \in 1..(N + 1)
    OBVIOUS
  <2> QED
    BY <1>3, <2>1 DEF CheckTable, Goes, TypeOK, database, traffic, Setup
<1>4. CASE CreateTable(s)
  BY <1>0, <1>4 DEF CreateTable, Goes, TypeOK, traffic, Setup
<1>5. CASE Count(s)
  <2>1. at' \in [Tenants -> 1..(N + 1)] /\ row' \in [Tenants -> 1..(ROWS + 1)]
    <3>1. at[s] \in 1..(N + 1) /\ (at[s] <= N => at[s] + 1 \in 1..(N + 1)) /\ 1 \in 1..(ROWS + 1)
      BY AtType
    <3>2. /\ at' = [at EXCEPT ![s] = IF at[s] <= N /\ RowsOf(Db(s), at[s]) # {} THEN at[s] + 1 ELSE at[s]]
          /\ row' = [row EXCEPT ![s] = 1]
      BY <1>5 DEF Count
    <3> QED
      BY <3>1, <3>2 DEF TypeOK
  <2>2. pc' \in [Tenants -> Setup \cup {"down", "connecting", "waiting", "serving", "cut off", "failed"}]
    BY <1>5 DEF Count, Goes, TypeOK, Setup
  <2> QED
    BY <1>5, <2>1, <2>2 DEF Count, TypeOK, database, traffic
<1>6. CASE Insert(s)
  <2>0. /\ pc[s] = "inserting" /\ at[s] \in 1..(N + 1) /\ at[s] <= N
        /\ row[s] \in 1..(ROWS + 1) /\ row[s] <= ROWS
    BY <1>6 DEF Insert, Goes, TypeOK, Place
  <2>1. at' \in [Tenants -> 1..(N + 1)] /\ row' \in [Tenants -> 1..(ROWS + 1)]
    <3>1. at[s] + 1 \in 1..(N + 1) /\ row[s] + 1 \in 1..(ROWS + 1)
      BY <2>0
    <3>2. /\ at' = [at EXCEPT ![s] = IF row[s] = ROWS THEN at[s] + 1 ELSE at[s]]
          /\ row' = [row EXCEPT ![s] = row[s] + 1]
      BY <1>6 DEF Insert
    <3> QED
      BY <2>0, <3>1, <3>2 DEF TypeOK
  <2>2. pc' \in [Tenants -> Setup \cup {"down", "connecting", "waiting", "serving", "cut off", "failed"}]
    BY <1>6 DEF Insert, Goes, TypeOK, Setup
  <2>a. serial[Db(s)] \in Nat
    BY <1>0 DEF TypeOK
  <2>b. serial[Db(s)] + 1 \in Nat
    BY <2>a
  <2>3. serial' \in [Databases -> Nat] /\ serial[Db(s)] \in Nat
    BY <1>0, <1>6, <2>a, <2>b DEF Insert, TypeOK
  <2>4. [id |-> serial[Db(s)], tenant |-> at[s], n |-> row[s]] \in [id : Nat, tenant : Tenants, n : 1..ROWS]
    BY <2>0, <2>3 DEF Tenants
  <2>5. /\ DOMAIN entries' = Databases
        /\ \A d \in Databases : entries'[d] \subseteq [id : Nat, tenant : Tenants, n : 1..ROWS]
    BY <1>0, <1>6, <2>4 DEF Insert, TypeOK
  <2> QED
    BY <1>6, <2>1, <2>2, <2>3, <2>5 DEF Insert, TypeOK, traffic
<1>7. CASE Unlock(s)
  BY <1>0, <1>7 DEF Unlock, Goes, TypeOK, traffic
<1> QED
  BY <1>1, <1>2, <1>3, <1>4, <1>5, <1>6, <1>7 DEF Step

LEMMA TypeFault ==
    ASSUME IInv, (\E s \in Tenants : Kill(s)) \/ (\E d \in Databases : Ready(d) \/ Shutdown(d))
    PROVE  TypeOK'
<1> USE SizesAssumption DEF IInv
<1>0. ASSUME NEW S \in SUBSET Tenants PROVE TornBy(S) \subseteq Databases \X Tenants
  <2> SUFFICES ASSUME NEW x \in S, pc[x] = "inserting" PROVE <<Db(x), at[x]>> \in Databases \X Tenants
    BY DEF TornBy
  <2>1. at[x] \in Tenants
    BY AtType DEF Place
  <2> QED
    BY <2>1, DbType
<1>1. ASSUME Fault PROVE faults' \in 0..MaxFaults
  <2>1. faults \in 0..MaxFaults
    BY DEF TypeOK
  <2> QED
    BY <1>1, <2>1 DEF Fault
<1>2. ASSUME NEW s \in Tenants, Kill(s) PROVE TypeOK'
  <2>1. torn' \subseteq Databases \X Tenants
    BY <1>0, <1>2 DEF Kill, TypeOK
  <2>2. lock' \in [Databases -> Tenants \cup {NoOne}]
    BY <1>2 DEF Kill, TypeOK
  <2> QED
    BY <1>1, <1>2, <2>1, <2>2 DEF Kill, TypeOK, traffic
<1>3. ASSUME NEW d \in Databases, Ready(d) PROVE TypeOK'
  BY <1>3 DEF Ready, TypeOK, service, traffic
<1>4. ASSUME NEW d \in Databases, Shutdown(d) PROVE TypeOK'
  <2> DEFINE cut == {s \in Tenants : Db(s) = d /\ pc[s] \in Setup \cup {"waiting", "serving"}}
  <2>1. torn' = torn \cup TornBy(cut)
    BY <1>4 DEF Shutdown
  <2>2. torn' \subseteq Databases \X Tenants
    BY <1>0, <2>1 DEF TypeOK
  <2>3. lock' \in [Databases -> Tenants \cup {NoOne}]
    BY <1>4 DEF Shutdown, TypeOK
  <2>4. pc' \in [Tenants -> Setup \cup {"down", "connecting", "waiting", "serving", "cut off", "failed"}]
    BY <1>4 DEF Shutdown, TypeOK
  <2> QED
    BY <1>1, <1>4, <2>2, <2>3, <2>4 DEF Shutdown, TypeOK, traffic
<1> QED
  BY <1>2, <1>3, <1>4

----------------------------------------------------------------------------
(* The start of a service. *)

LEMMA SetupStep ==
    ASSUME IInv, NEW s \in Tenants, Launch(s) \/ Step(s), ~Insert(s) PROVE IInv'
<1> USE DEF IInv
<1>0. TypeOK'
  BY TypeSetup
<1>1. Db(s) \in Databases /\ s # NoOne
  BY DbType DEF Tenants, NoOne
<1>2. CASE Launch(s) \/ Connect(s) \/ ConnectFails(s)
  <2>1. /\ pc' = [pc EXCEPT ![s] = pc'[s]]
        /\ pc'[s] \in {"connecting", "waiting", "failed"} /\ pc[s] # "inserting"
        /\ UNCHANGED <<stack, at, row, lock, table, entries, torn, reply>>
    BY <1>2 DEF Launch, Connect, ConnectFails, Goes, TypeOK, database, traffic
  <2>2. \A x \in Tenants \ {s} : pc'[x] = pc[x] /\ at'[x] = at[x] /\ row'[x] = row[x]
    BY <2>1 DEF TypeOK
  <2>3. /\ \A x \in Tenants \ {s} : pc[x] \in Setup => lock'[Db(x)] = x
        /\ \A x \in Tenants \ {s} : pc[x] = "creating" => Db(x) \notin table'
    BY <2>1 DEF Locked, Place
  <2> QED
    BY <1>0, <2>1, <2>2, <2>3, QuietStep DEF Setup
<1>3. CASE Lock(s)
  <2>1. /\ pc' = [pc EXCEPT ![s] = "checking"] /\ pc[s] = "waiting"
        /\ lock[Db(s)] = NoOne /\ lock' = [lock EXCEPT ![Db(s)] = s]
        /\ UNCHANGED <<stack, at, row, table, entries, torn, reply>>
    BY <1>3 DEF Lock, Goes, traffic
  <2>2. pc'[s] = "checking" /\ lock'[Db(s)] = s
    BY <1>1, <2>1 DEF TypeOK
  <2>3. \A x \in Tenants \ {s} : pc'[x] = pc[x] /\ at'[x] = at[x] /\ row'[x] = row[x]
    BY <2>1 DEF TypeOK
  <2>4. \A x \in Tenants \ {s} : pc[x] \in Setup => lock'[Db(x)] = x
    <3> SUFFICES ASSUME NEW x \in Tenants \ {s}, pc[x] \in Setup PROVE lock'[Db(x)] = x
      OBVIOUS
    <3>1. lock[Db(x)] = x /\ x # NoOne
      BY DEF Locked, Tenants, NoOne
    <3>2. Db(x) # Db(s)
      BY <2>1, <3>1
    <3> QED
      BY <2>1, <3>1, <3>2, DbType DEF TypeOK
  <2>5. \A x \in Tenants \ {s} : pc[x] = "creating" => Db(x) \notin table'
    BY <2>1 DEF Place
  <2> QED
    BY <1>0, <2>1, <2>2, <2>3, <2>4, <2>5, QuietStep
<1>4. CASE CheckTable(s)
  <2>1. /\ pc' = [pc EXCEPT ![s] = pc'[s]] /\ pc[s] = "checking"
        /\ pc'[s] = (IF Db(s) \in table THEN "counting" ELSE "creating")
        /\ at' = [at EXCEPT ![s] = 1]
        /\ UNCHANGED <<stack, row, lock, table, entries, torn, reply>>
    BY <1>4 DEF CheckTable, Goes, TypeOK, database, traffic
  <2>2. \A x \in Tenants \ {s} : pc'[x] = pc[x] /\ at'[x] = at[x] /\ row'[x] = row[x]
    BY <2>1 DEF TypeOK
  <2>3. /\ \A x \in Tenants : pc[x] \in Setup => lock'[Db(x)] = x
        /\ \A x \in Tenants : pc[x] = "creating" => Db(x) \notin table'
    BY <2>1 DEF Locked, Place
  <2>4. at'[s] = 1
    BY <2>1 DEF TypeOK
  <2>5. 1..(at'[s] - 1) = {}
    BY <2>4
  <2> QED
    BY <1>0, <2>1, <2>2, <2>3, <2>4, <2>5, QuietStep DEF Setup
<1>5. CASE CreateTable(s)
  <2>1. pc[s] = "creating" /\ Db(s) \notin table
    BY <1>5 DEF CreateTable, Goes, Place
  <2>2. /\ pc' = [pc EXCEPT ![s] = "counting"] /\ table' = table \cup {Db(s)}
        /\ UNCHANGED <<stack, at, row, lock, entries, torn, reply>>
    BY <1>5, <2>1 DEF CreateTable, Goes, TypeOK, traffic
  <2>3. pc'[s] = "counting" /\ \A x \in Tenants \ {s} : pc'[x] = pc[x] /\ at'[x] = at[x] /\ row'[x] = row[x]
    BY <2>2 DEF TypeOK
  <2>4. \A x \in Tenants : pc[x] \in Setup => lock'[Db(x)] = x
    BY <2>2 DEF Locked
  <2>5. \A x \in Tenants \ {s} : pc[x] = "creating" => Db(x) \notin table'
    BY <2>1, <2>2, Alone DEF Place, Setup
  <2>6. at[s] = 1
    BY <2>1 DEF Place
  <2> QED
    BY <1>0, <2>1, <2>2, <2>3, <2>4, <2>5, <2>6, QuietStep DEF Setup
<1>6. CASE Count(s)
  <2> DEFINE seeded == at[s] <= N /\ RowsOf(Db(s), at[s]) # {}
  <2>1. /\ pc[s] = "counting"
        /\ pc' = [pc EXCEPT ![s] = IF at[s] > N THEN "unlocking"
                                   ELSE IF seeded THEN "counting" ELSE "inserting"]
        /\ row' = [row EXCEPT ![s] = 1]
        /\ at' = [at EXCEPT ![s] = IF seeded THEN at[s] + 1 ELSE at[s]]
        /\ UNCHANGED <<stack, lock, table, entries, torn, reply>>
    BY <1>6 DEF Count, Goes, database, traffic
  <2>2. /\ pc'[s] = (IF at[s] > N THEN "unlocking" ELSE IF seeded THEN "counting" ELSE "inserting")
        /\ row'[s] = 1 /\ at'[s] = (IF seeded THEN at[s] + 1 ELSE at[s])
        /\ \A x \in Tenants \ {s} : pc'[x] = pc[x] /\ at'[x] = at[x] /\ row'[x] = row[x]
    BY <2>1 DEF TypeOK
  <2>3. at[s] \in 1..(N + 1) /\ (at[s] <= N => at[s] \in Tenants) /\ N \in Nat
    BY AtType, SizesAssumption
  <2>4. /\ \A x \in Tenants : pc[x] \in Setup => lock'[Db(x)] = x
        /\ \A x \in Tenants : pc[x] = "creating" => Db(x) \notin table'
    BY <2>1 DEF Locked, Place
  <2>5. \A t \in 1..(at[s] - 1) : Seeded(Db(s), t)
    BY <2>1 DEF Behind
  <2>6. seeded => Seeded(Db(s), at[s])
    <3> SUFFICES ASSUME seeded PROVE Seeded(Db(s), at[s])
      OBVIOUS
    <3>1. ~ \E x \in Tenants : Db(x) = Db(s) /\ pc[x] = "inserting" /\ at[x] = at[s]
      BY <2>1, Alone DEF Setup
    <3> QED
      BY <1>1, <2>3, <3>1 DEF Accounted, Seeded
  <2>7. \A t \in 1..(at'[s] - 1) : Seeded(Db(s), t)
    <3>1. CASE seeded
      <4>1. \A t \in 1..at[s] : t \in 1..(at[s] - 1) \/ t = at[s]
        BY <2>3
      <4>2. at'[s] - 1 = at[s]
        BY <2>2, <2>3, <3>1
      <4> QED
        BY <2>5, <2>6, <3>1, <4>1, <4>2
    <3>2. CASE ~seeded
      BY <2>2, <2>5, <3>2
    <3> QED
      BY <3>1, <3>2
  <2>8. pc'[s] = "inserting" => at'[s] <= N /\ row'[s] = 1 /\ RowsOf(Db(s), at'[s]) = {}
    BY <2>2, <2>3
  <2>9. pc'[s] \in {"unlocking", "serving"} => at'[s] = N + 1
    BY <2>2, <2>3
  <2>10. lock'[Db(s)] = s /\ pc'[s] # "creating" /\ pc[s] # "inserting"
    BY <2>1, <2>2, <2>4 DEF Setup
  <2> QED
    BY <1>0, <2>1, <2>2, <2>4, <2>7, <2>8, <2>9, <2>10, QuietStep
<1>7. CASE Unlock(s)
  <2>1. /\ pc[s] = "unlocking" /\ pc' = [pc EXCEPT ![s] = "serving"]
        /\ lock' = [lock EXCEPT ![Db(s)] = NoOne]
        /\ UNCHANGED <<stack, at, row, table, entries, torn, reply>>
    BY <1>7 DEF Unlock, Goes, traffic
  <2>2. pc'[s] = "serving" /\ \A x \in Tenants \ {s} : pc'[x] = pc[x] /\ at'[x] = at[x] /\ row'[x] = row[x]
    BY <2>1 DEF TypeOK
  <2>3. \A x \in Tenants \ {s} : pc[x] \in Setup => lock'[Db(x)] = x
    <3> SUFFICES ASSUME NEW x \in Tenants \ {s}, pc[x] \in Setup PROVE lock'[Db(x)] = x
      OBVIOUS
    <3>1. Db(x) # Db(s)
      BY <2>1, Alone DEF Setup
    <3> QED
      BY <2>1, <3>1, DbType DEF Locked, TypeOK
  <2>4. \A x \in Tenants \ {s} : pc[x] = "creating" => Db(x) \notin table'
    BY <2>1 DEF Place
  <2>5. at'[s] = N + 1 /\ \A t \in 1..(at'[s] - 1) : Seeded(Db(s), t)
    BY <2>1 DEF Place, Behind
  <2> QED
    BY <1>0, <2>1, <2>2, <2>3, <2>4, <2>5, QuietStep DEF Setup
<1> QED
  BY <1>2, <1>3, <1>4, <1>5, <1>6, <1>7 DEF Step

\* A row more, of the tenant the service is at.
LEMMA InsertStep == ASSUME IInv, NEW s \in Tenants, Insert(s) PROVE IInv'
<1> USE DEF IInv
<1>0. TypeOK'
  BY TypeSetup DEF Step
<1>a. /\ pc[s] = "inserting" /\ Db(s) \in Databases /\ at[s] \in Tenants /\ at[s] \in 1..N
      /\ row[s] \in 1..ROWS
  <2>1. row[s] \in 1..(ROWS + 1) /\ at[s] \in 1..(N + 1)
    BY DEF TypeOK
  <2>2. pc[s] = "inserting" /\ at[s] <= N /\ row[s] <= ROWS
    BY DEF Insert, Goes, Place
  <2> QED
    BY <2>1, <2>2, AtType, DbType, SizesAssumption
<1>b. PICK d0 \in Databases, t0 \in Tenants, r \in 1..ROWS, k \in {serial[Db(s)]} :
        d0 = Db(s) /\ t0 = at[s] /\ r = row[s]
  BY <1>a
<1> DEFINE e0 == [id |-> k, tenant |-> t0, n |-> r]
           last == r = ROWS
<1>1. /\ pc[s] = "inserting" /\ t0 \in 1..N /\ ROWS \in Nat /\ N \in Nat /\ r \in Nat
      /\ d0 = Db(s) /\ t0 = at[s] /\ r = row[s]
  BY <1>a, <1>b, SizesAssumption
<1>2. /\ entries' = [entries EXCEPT ![d0] = entries[d0] \cup {e0}]
      /\ pc' = [pc EXCEPT ![s] = IF last THEN "counting" ELSE "inserting"]
      /\ row' = [row EXCEPT ![s] = r + 1]
      /\ at' = [at EXCEPT ![s] = IF last THEN t0 + 1 ELSE t0]
      /\ UNCHANGED <<stack, lock, table, torn, reply>>
  BY <1>b DEF Insert, Goes, traffic
<1>3. \A x \in Tenants : Db(x)' = Db(x) /\ Db(x) \in Databases
  BY <1>2, DbType DEF Db
<1>4. /\ pc'[s] = (IF last THEN "counting" ELSE "inserting")
      /\ row'[s] = r + 1 /\ at'[s] = (IF last THEN t0 + 1 ELSE t0)
      /\ \A x \in Tenants \ {s} : pc'[x] = pc[x] /\ at'[x] = at[x] /\ row'[x] = row[x]
  BY <1>2 DEF TypeOK
<1>5. /\ e0.tenant = t0 /\ e0.n = r
      /\ entries'[d0] = entries[d0] \cup {e0}
      /\ \A d \in Databases : d # d0 => entries'[d] = entries[d]
  BY <1>1, <1>2 DEF TypeOK
<1>6. \A d \in Databases, t \in Tenants : d # d0 \/ t # t0 => RowsOf(d, t)' = RowsOf(d, t)
  BY <1>5 DEF RowsOf
<1>7. RowsOf(d0, t0)' = RowsOf(d0, t0) \cup {e0}
  BY <1>2, <1>5 DEF RowsOf
<1>8. /\ \A e \in RowsOf(d0, t0) : e.n < r
      /\ \A n \in 1..(r - 1) : \E e \in RowsOf(d0, t0) : e.n = n
  BY <1>1 DEF Inserting
<1>9. \A x \in Tenants \ {s} : pc[x] \in Setup => Db(x) # d0
  BY <1>1, Alone DEF Setup
<1> HIDE DEF e0, last
<1>10. ASSUME NEW d \in Databases, NEW t \in Tenants, Seeded(d, t) PROVE Seeded(d, t)'
  <2>1. RowsOf(d, t) \subseteq RowsOf(d, t)'
    BY <1>6, <1>7
  <2> QED
    BY <1>2, <1>10, <2>1 DEF Seeded, Whole
<1>11. ASSUME last PROVE Whole(d0, t0)'
  <2>1. \A n \in 1..ROWS : n \in 1..(r - 1) \/ n = r
    BY <1>1, <1>11 DEF last
  <2> QED
    BY <1>5, <1>7, <1>8, <2>1 DEF Whole
<1>12. Locked'
  BY <1>2, <1>3, <1>4, <1>1 DEF Locked, Setup
<1>13. Place'
  <2> SUFFICES ASSUME NEW x \in Tenants
               PROVE  /\ pc'[x] = "creating" => Db(x)' \notin table' /\ at'[x] = 1
                      /\ pc'[x] = "inserting" => at'[x] <= N /\ row'[x] <= ROWS
                      /\ pc'[x] \in {"unlocking", "serving"} => at'[x] = N + 1
    BY DEF Place
  <2>1. CASE x = s
    BY <1>1, <1>4, <2>1 DEF last
  <2>2. CASE x # s
    <3>1. pc'[x] = pc[x] /\ at'[x] = at[x] /\ row'[x] = row[x] /\ Db(x)' = Db(x) /\ table' = table
      BY <1>2, <1>3, <1>4, <2>2
    <3> QED
      BY <3>1 DEF Place
  <2> QED
    BY <2>1, <2>2
<1>14. Inserting'
  <2> SUFFICES ASSUME NEW x \in Tenants, pc'[x] = "inserting"
               PROVE  /\ \A e \in RowsOf(Db(x), at[x])' : e.n < row'[x]
                      /\ \A n \in 1..(row'[x] - 1) : \E e \in RowsOf(Db(x), at[x])' : e.n = n
    BY DEF Inserting
  <2>1. CASE x = s
    <3>1. ~last /\ at'[s] = t0 /\ Db(s)' = d0 /\ row'[s] = r + 1
      BY <1>1, <1>3, <1>4, <2>1
    <3>2. RowsOf(Db(x), at[x])' = RowsOf(d0, t0) \cup {e0}
      BY <1>2, <1>7, <2>1, <3>1 DEF RowsOf
    <3>3. \A e \in RowsOf(d0, t0) : e.n < r + 1
      <4>1. \A e \in RowsOf(d0, t0) : e.n \in Int
        BY RowType DEF RowsOf
      <4> QED
        BY <1>1, <1>8, <4>1
    <3>4. \A n \in 1..(r + 1 - 1) : n \in 1..(r - 1) \/ n = r
      BY <1>1
    <3> QED
      BY <1>1, <1>5, <1>8, <2>1, <3>1, <3>2, <3>3, <3>4
  <2>2. CASE x # s
    <3>1. pc[x] = "inserting" /\ Db(x) # d0 /\ at[x] \in Tenants
      BY <1>4, <1>9, <2>2, AtType DEF Place, Setup
    <3>2. RowsOf(Db(x), at[x])' = RowsOf(Db(x), at[x])
      BY <1>3, <1>4, <1>5, <2>2, <3>1 DEF RowsOf
    <3> QED
      BY <1>4, <2>2, <3>1, <3>2 DEF Inserting
  <2> QED
    BY <2>1, <2>2
<1>15. Behind'
  <2> SUFFICES ASSUME NEW x \in Tenants,
                      pc'[x] \in {"counting", "inserting", "unlocking", "serving"},
                      NEW t \in 1..(at'[x] - 1)
               PROVE  Seeded(Db(x), t)'
    BY DEF Behind
  <2>0. t \in Tenants
    <3>1. at'[x] \in 1..(N + 1)
      BY <1>0 DEF TypeOK
    <3> QED
      BY <1>1, <3>1 DEF Tenants
  <2>1. CASE x = s /\ t = t0 /\ last
    <3>1. RowsOf(d0, t0)' # {} /\ Whole(d0, t0)'
      BY <1>7, <1>11, <2>1
    <3>2. Seeded(d0, t0)'
      BY <3>1 DEF Seeded
    <3> QED
      BY <1>1, <1>3, <2>1, <3>2 DEF Seeded, Whole, RowsOf
  <2>2. CASE ~(x = s /\ t = t0 /\ last)
    <3>1. t \in 1..(at[x] - 1) /\ pc[x] \in {"counting", "inserting", "unlocking", "serving"}
      BY <1>1, <1>4, <2>2
    <3>2. Seeded(Db(x), t)
      BY <3>1 DEF Behind
    <3>3. Db(x) \in Databases /\ Db(x)' = Db(x)
      BY <1>3
    <3> QED
      BY <1>10, <2>0, <3>2, <3>3 DEF Seeded, Whole, RowsOf
  <2> QED
    BY <2>1, <2>2
<1>16. Accounted'
  <2> SUFFICES ASSUME NEW d \in Databases, NEW t \in Tenants, RowsOf(d, t)' # {}
               PROVE  \/ <<d, t>> \in torn' \/ Whole(d, t)'
                      \/ \E x \in Tenants : Db(x)' = d /\ pc'[x] = "inserting" /\ at'[x] = t
    BY DEF Accounted
  <2>1. CASE d = d0 /\ t = t0
    <3>1. CASE last
      BY <1>11, <2>1, <3>1
    <3>2. CASE ~last
      BY <1>1, <1>3, <1>4, <2>1, <3>2
    <3> QED
      BY <3>1, <3>2
  <2>2. CASE d # d0 \/ t # t0
    <3>1. RowsOf(d, t)' = RowsOf(d, t)
      BY <1>6, <2>2
    <3>2. Whole(d, t) => Whole(d, t)'
      BY <3>1 DEF Whole
    <3>3. \A x \in Tenants : Db(x) = d /\ pc[x] = "inserting" /\ at[x] = t
                          => Db(x)' = d /\ pc'[x] = "inserting" /\ at'[x] = t
      BY <1>1, <1>3, <1>4, <2>2
    <3> QED
      BY <1>2, <3>1, <3>2, <3>3 DEF Accounted
  <2> QED
    BY <2>1, <2>2
<1>17. SeededOnce'
  <2> SUFFICES ASSUME NEW d \in Databases, NEW e \in entries'[d], NEW f \in entries'[d],
                      e.tenant = f.tenant, e.n = f.n
               PROVE  e = f
    BY DEF SeededOnce
  <2>1. CASE e \in entries[d] /\ f \in entries[d]
    BY <2>1 DEF SeededOnce
  <2>2. \A g \in entries[d0] : g.tenant = t0 => g.n # r
    <3>1. \A g \in entries[d0] : g.tenant = t0 => g.n \in Int /\ g.n < r
      BY <1>8, RowType DEF RowsOf
    <3> QED
      BY <1>1, <3>1
  <2>3. CASE d = d0 /\ (e = e0 \/ f = e0)
    BY <1>5, <2>2, <2>3
  <2> QED
    BY <1>5, <2>1, <2>3
<1>18. OwnRowsOnly'
  BY <1>2 DEF OwnRowsOnly
<1> QED
  BY <1>0, <1>12, <1>13, <1>14, <1>15, <1>16, <1>17, <1>18

----------------------------------------------------------------------------
(* Stops, and requests. *)

\* The services in S are stopped: what they were at is remembered as torn.
Stops(S) ==
    /\ UNCHANGED <<stack, at, row, table, entries, reply>>
    /\ torn' = torn \cup TornBy(S)
    /\ \A x \in S : pc'[x] \in {"down", "failed", "cut off"}
    /\ \A x \in Tenants \ S : pc'[x] = pc[x]
    /\ \A x \in Tenants \ S : pc[x] \in Setup => lock'[Db(x)] = x

LEMMA StopStep == ASSUME IInv, TypeOK', NEW S \in SUBSET Tenants, Stops(S) PROVE IInv'
<1> USE DEF IInv, Stops
<1>0. \A x \in Tenants : Db(x)' = Db(x) /\ Db(x) \in Databases
  BY DbType DEF Db
<1>1. /\ \A d \in Databases, t \in Tenants : RowsOf(d, t)' = RowsOf(d, t)
      /\ \A d \in Databases, t \in Tenants : Whole(d, t)' = Whole(d, t)
      /\ \A d \in Databases, t \in Tenants : Seeded(d, t) => Seeded(d, t)'
      /\ SeededOnce'
  BY SameRows
<1>2. \A x \in Tenants : pc'[x] \in Setup \cup {"serving"} => x \notin S /\ pc'[x] = pc[x]
  BY DEF Setup
<1>3. Locked'
  BY <1>0, <1>2 DEF Locked
<1>4. Place'
  BY <1>0, <1>2 DEF Place, Setup
<1>5. Inserting'
  <2> SUFFICES ASSUME NEW x \in Tenants, pc'[x] = "inserting"
               PROVE  /\ \A e \in RowsOf(Db(x), at[x])' : e.n < row'[x]
                      /\ \A n \in 1..(row'[x] - 1) : \E e \in RowsOf(Db(x), at[x])' : e.n = n
    BY DEF Inserting
  <2>1. pc[x] = "inserting" /\ row'[x] = row[x] /\ RowsOf(Db(x), at[x])' = RowsOf(Db(x), at[x])
    BY <1>0, <1>2 DEF Setup, RowsOf
  <2>2. /\ \A e \in RowsOf(Db(x), at[x]) : e.n < row[x]
        /\ \A n \in 1..(row[x] - 1) : \E e \in RowsOf(Db(x), at[x]) : e.n = n
    BY <2>1 DEF Inserting
  <2> QED
    BY <2>1, <2>2
<1>6. Behind'
  <2> SUFFICES ASSUME NEW x \in Tenants,
                      pc'[x] \in {"counting", "inserting", "unlocking", "serving"},
                      NEW t \in 1..(at'[x] - 1)
               PROVE  Seeded(Db(x), t)'
    BY DEF Behind
  <2>1. Seeded(Db(x), t) /\ t \in Tenants
    BY <1>2, AtType DEF Behind, Setup
  <2> QED
    BY <1>0, <1>1, <2>1 DEF Seeded, Whole, RowsOf
<1>7. Accounted'
  <2>1. ASSUME NEW d \in Databases, NEW t \in Tenants, RowsOf(d, t)' # {}
        PROVE  \/ <<d, t>> \in torn' \/ Whole(d, t)'
               \/ \E x \in Tenants : Db(x)' = d /\ pc'[x] = "inserting" /\ at'[x] = t
    <3> SUFFICES ASSUME <<d, t>> \notin torn', ~Whole(d, t)'
                 PROVE  \E x \in Tenants : Db(x)' = d /\ pc'[x] = "inserting" /\ at'[x] = t
      OBVIOUS
    <3>1. RowsOf(d, t) # {} /\ ~Whole(d, t)
      BY <1>1, <2>1
    <3>2. PICK x \in Tenants : Db(x) = d /\ pc[x] = "inserting" /\ at[x] = t
      BY <3>1 DEF Accounted
    <3>3. row[x] > 1
      <4>1. PICK e \in RowsOf(d, t) : e.n \in 1..ROWS
        BY <3>1, RowType DEF RowsOf
      <4>2. e.n < row[x]
        BY <3>2 DEF Inserting
      <4>3. row[x] \in 1..(ROWS + 1)
        BY DEF TypeOK
      <4> QED
        BY <4>1, <4>2, <4>3, Above
    <3>4. x \notin S
      BY <3>2, <3>3 DEF TornBy
    <3> QED
      BY <1>0, <3>2, <3>4
  <2> QED
    BY <2>1, Zenon DEF Accounted
<1>8. OwnRowsOnly'
  BY DEF OwnRowsOnly
<1> QED
  BY <1>1, <1>3, <1>4, <1>5, <1>6, <1>7, <1>8

LEMMA FaultStep ==
    ASSUME IInv, (\E s \in Tenants : Kill(s)) \/ (\E d \in Databases : Ready(d) \/ Shutdown(d))
    PROVE  IInv'
<1> USE DEF IInv
<1>0. TypeOK'
  BY TypeFault
<1>1. ASSUME NEW s \in Tenants, Kill(s) PROVE IInv'
  <2>1. /\ UNCHANGED <<stack, at, row, table, entries, reply>>
        /\ torn' = torn \cup TornBy({s})
        /\ pc' = [pc EXCEPT ![s] = "down"]
        /\ lock' = [d \in Databases |-> IF lock[d] = s THEN NoOne ELSE lock[d]]
    BY <1>1 DEF Kill, traffic
  <2>2. pc'[s] = "down" /\ \A x \in Tenants \ {s} : pc'[x] = pc[x]
    BY <2>1 DEF TypeOK
  <2>3. \A x \in Tenants \ {s} : pc[x] \in Setup => lock'[Db(x)] = x
    BY <2>1, DbType DEF Locked
  <2>4. IInv /\ Stops({s}) /\ {s} \in SUBSET Tenants
    BY <2>1, <2>2, <2>3 DEF Stops
  <2> HIDE DEF IInv
  <2> QED
    BY <1>0, <2>4, StopStep
<1>2. ASSUME NEW d \in Databases, Ready(d) PROVE IInv'
  <2>1. UNCHANGED <<stack, at, row, table, entries, reply, pc, lock, torn>>
    BY <1>2 DEF Ready, service, traffic
  <2>2. Locked' /\ Place'
    BY <2>1 DEF Locked, Place, Db
  <2>3. Inserting' /\ Behind'
    BY <2>1 DEF Inserting, Behind, Seeded, Whole, RowsOf, Db
  <2>4. Accounted' /\ SeededOnce' /\ OwnRowsOnly'
    BY <2>1 DEF Accounted, SeededOnce, OwnRowsOnly, Whole, RowsOf, Db
  <2> QED
    BY <1>0, <2>2, <2>3, <2>4
<1>3. ASSUME NEW d \in Databases, Shutdown(d) PROVE IInv'
  <2> PICK S \in SUBSET Tenants :
          S = {s \in Tenants : Db(s) = d /\ pc[s] \in Setup \cup {"waiting", "serving"}}
    OBVIOUS
  <2>1. /\ UNCHANGED <<stack, at, row, table, entries, reply>>
        /\ torn' = torn \cup TornBy(S)
        /\ pc' = [s \in Tenants |->
                IF s \notin S THEN pc[s]
                ELSE IF pc[s] = "serving" THEN "cut off" ELSE "failed"]
        /\ lock' = [lock EXCEPT ![d] = NoOne]
    BY <1>3 DEF Shutdown, traffic
  <2>3. \A x \in Tenants \ S : pc[x] \in Setup => Db(x) # d
    OBVIOUS
  <2>4. /\ \A x \in S : pc'[x] \in {"down", "failed", "cut off"}
        /\ \A x \in Tenants \ S : pc'[x] = pc[x]
    BY <2>1
  <2>5. \A x \in Tenants \ S : pc[x] \in Setup => lock'[Db(x)] = x
    BY <2>1, <2>3, DbType DEF Locked, TypeOK
  <2>6. IInv
    OBVIOUS
  <2> HIDE DEF IInv
  <2>7. Stops(S)
    BY <2>1, <2>4, <2>5 DEF Stops
  <2> QED
    BY <1>0, <2>6, <2>7, StopStep
<1> QED
  BY <1>1, <1>2, <1>3

\* A request changes no row, and its answer is of the session's tenant.
LEMMA RequestStep == ASSUME IInv, Request PROVE IInv'
<1> USE DEF IInv
<1>1. UNCHANGED <<stack, service, database, torn, faults>>
  BY DEF Request, Login, QueryFails, ListEntries, FetchEntry, Serving, CutOff
<1>2. sessions' \subseteq [tenant : Tenants, key : Keys]
  <2>1. ASSUME NEW s \in Tenants PROVE [tenant |-> s, key |-> Key(s)] \in [tenant : Tenants, key : Keys]
    BY StacksAssumption DEF TypeOK, Key
  <2>2. \/ sessions' = sessions
        \/ \E s \in Tenants : sessions' = sessions \cup {[tenant |-> s, key |-> Key(s)]}
    BY DEF Request, Login, QueryFails, ListEntries, FetchEntry, Answer
  <2> QED
    BY <2>1, <2>2 DEF TypeOK
<1>3. OwnRowsOnly'
  <2>1. ASSUME NEW s \in Tenants, NEW token \in sessions, NEW R,
               \A e \in R : e.tenant = s, Answer(s, token, R)
        PROVE  OwnRowsOnly'
    BY <2>1 DEF Answer, Accepts, OwnRowsOnly, NoReply
  <2>2. ASSUME NEW s \in Tenants, NEW token \in sessions, ListEntries(s, token) PROVE OwnRowsOnly'
    BY <2>1, <2>2 DEF ListEntries, RowsOf
  <2>3. ASSUME NEW s \in Tenants, NEW token \in sessions, NEW i, FetchEntry(s, token, i) PROVE OwnRowsOnly'
    BY <2>1, <2>3 DEF FetchEntry, Found
  <2>4. ASSUME NEW s \in Tenants, Login(s) \/ QueryFails(s) PROVE OwnRowsOnly'
    BY <2>4 DEF Login, QueryFails, OwnRowsOnly, NoReply
  <2> QED
    BY <2>2, <2>3, <2>4 DEF Request
<1>4. TypeOK'
  BY <1>1, <1>2 DEF TypeOK, service, database
<1>5. Locked' /\ Place'
  BY <1>1 DEF Locked, Place, Db, service, database
<1>6. Inserting' /\ Behind'
  BY <1>1 DEF Inserting, Behind, Seeded, Whole, RowsOf, Db, service, database
<1>7. Accounted' /\ SeededOnce'
  BY <1>1 DEF Accounted, SeededOnce, Whole, RowsOf, Db, service, database
<1> QED
  BY <1>3, <1>4, <1>5, <1>6, <1>7

----------------------------------------------------------------------------
(* verify.py.  As long as no seed was torn, the ids of a database are those *)
(* of any other: SEED's rows are numbered through.                          *)

IdOf(t, n) == (t - 1) * ROWS + n

Numbered ==
    \A d \in Databases :
        /\ \A e \in entries[d] : e.id = IdOf(e.tenant, e.n) /\ e.id < serial[d]
        /\ \A e \in entries[d] : \A u \in 1..(e.tenant - 1) : RowsOf(d, u) # {}
        /\ \/ entries[d] = {} /\ serial[d] = 1
           \/ \E e \in entries[d] : serial[d] = e.id + 1

\* A service that inserts gives its row the number it has in SEED.
InTurn == \A s \in Tenants : pc[s] = "inserting" => serial[Db(s)] = IdOf(at[s], row[s])

\* A service that has a connection has it to a database that runs.
Connected == \A s \in Tenants : pc[s] \in Setup \cup {"waiting", "serving"} => Db(s) \in ready

Ids == (torn = {} => Numbered /\ InTurn) /\ Connected

\* What verify.py knows as long as nothing is stopped.
Probing ==
    /\ undisturbed /\ probe # "idle" => pc[A] = "serving" /\ pc[B] = "serving"
    /\ undisturbed /\ probe \in {"login a", "fetch"} =>
            \E e \in entries[Db(B)] : e.id = target /\ e.tenant = B
    /\ undisturbed /\ torn = {} => failures = 0 /\ code \in {None, 0}
----------------------------------------------------------------------------
\* The arithmetic of the numbers: they go through one tenant's rows after another's.
LEMMA Blocks ==
    ASSUME NEW t \in Tenants, NEW u \in Tenants, u < t, NEW n \in 1..ROWS
    PROVE  IdOf(u, n) <= (t - 1) * ROWS
<1>1. t \in Int /\ u \in Int /\ n \in Int /\ ROWS \in Int /\ n <= ROWS /\ 0 <= t - 1 - u /\ 0 < ROWS
  BY SizesAssumption DEF Tenants
<1>2. 0 <= (t - 1 - u) * ROWS
  BY <1>1
<1>3. (t - 1) * ROWS = (t - 1 - u) * ROWS + (u - 1) * ROWS + ROWS
  BY <1>1
<1> QED
  BY <1>1, <1>2, <1>3 DEF IdOf

\* No two rows of SEED have one number.
LEMMA OneNumber ==
    ASSUME NEW t \in Tenants, NEW u \in Tenants, NEW m \in 1..ROWS, NEW n \in 1..ROWS,
           IdOf(t, m) = IdOf(u, n)
    PROVE  t = u
<1>1. /\ t \in Int /\ u \in Int /\ m \in Int /\ n \in Int /\ 0 < m /\ 0 < n
      /\ (t - 1) * ROWS \in Int /\ (u - 1) * ROWS \in Int
  BY SizesAssumption DEF Tenants
<1>2. CASE u < t
  <2>1. IdOf(u, n) <= (t - 1) * ROWS
    BY <1>2, Blocks
  <2>2. IdOf(t, m) > (t - 1) * ROWS /\ IdOf(u, n) \in Int
    BY <1>1 DEF IdOf
  <2> QED
    BY <1>1, <2>1, <2>2
<1>3. CASE t < u
  <2>1. IdOf(t, m) <= (u - 1) * ROWS
    BY <1>3, Blocks
  <2>2. IdOf(u, n) > (u - 1) * ROWS /\ IdOf(t, m) \in Int
    BY <1>1 DEF IdOf
  <2> QED
    BY <1>1, <2>1, <2>2
<1> QED
  BY <1>1, <1>2, <1>3

\* A service that begins with a tenant finds the next number to be the tenant's first.
LEMMA FirstOfTenant ==
    ASSUME IInv, torn = {}, Numbered, NEW s \in Tenants, NEW t \in Tenants,
           pc[s] = "counting", at[s] = t, RowsOf(Db(s), t) = {}
    PROVE  serial[Db(s)] = IdOf(t, 1)
<1> DEFINE d == Db(s)
<1>1. d \in Databases /\ ROWS \in Nat \ {0} /\ t \in Nat \ {0} /\ serial[d] \in Nat
  <2>1. d \in Databases /\ serial \in [Databases -> Nat]
    BY DbType DEF IInv, TypeOK
  <2>2. t \in 1..N /\ N \in Nat /\ ROWS \in Nat \ {0}
    BY SizesAssumption DEF Tenants
  <2> QED
    BY <2>1, <2>2
<1>2. \A u \in 1..(t - 1) : u \in Tenants /\ RowsOf(d, u) # {} /\ Whole(d, u)
  BY AtType DEF IInv, Behind, Seeded
<1>3. ASSUME NEW e \in entries[d]
      PROVE  /\ e.tenant \in Tenants /\ e.tenant \in Nat /\ e.n \in 1..ROWS
             /\ e.id = IdOf(e.tenant, e.n) /\ e.tenant < t
  <2>1. e.tenant \in Tenants /\ e.n \in 1..ROWS /\ e.tenant \in Nat
    BY <1>1, RowType DEF IInv, Tenants
  <2>2. e.id = IdOf(e.tenant, e.n) /\ \A u \in 1..(e.tenant - 1) : RowsOf(d, u) # {}
    BY <1>1 DEF Numbered
  <2>3. e.tenant # t
    BY DEF RowsOf
  <2>4. t \notin 1..(e.tenant - 1)
    BY <2>2
  <2> QED
    BY <1>1, <2>1, <2>2, <2>3, <2>4
<1>4. CASE entries[d] = {} /\ serial[d] = 1
  <2>1. t = 1
    <3>1. ~(1 \in 1..(t - 1))
      BY <1>2, <1>4 DEF RowsOf
    <3> QED
      BY <1>1, <3>1
  <2> QED
    BY <1>1, <1>4, <2>1 DEF IdOf
<1>5. CASE \E e \in entries[d] : serial[d] = e.id + 1
  <2>1. PICK e \in entries[d] : serial[d] = e.id + 1
    BY <1>5
  <2>2. e.id <= (t - 1) * ROWS
    BY <1>3, Blocks
  <2>3. t - 1 \in 1..(t - 1) /\ ROWS \in 1..ROWS
    <3>1. e.tenant \in 1..N /\ e.tenant < t
      BY <1>3 DEF Tenants
    <3> QED
      BY <1>1, <3>1
  <2>4. PICK f \in RowsOf(d, t - 1) : f.n = ROWS
    BY <1>2, <2>3 DEF Whole
  <2>5. f \in entries[d] /\ f.tenant = t - 1
    BY <2>4 DEF RowsOf
  <2>6. f.id < serial[d] /\ f.id = IdOf(t - 1, ROWS)
    BY <1>1, <2>4, <2>5 DEF Numbered
  <2>7. IdOf(t - 1, ROWS) = (t - 1) * ROWS /\ (t - 1) * ROWS \in Int
    BY <1>1 DEF IdOf
  <2>8. e.id \in Int
    <3>1. e \in [id : Nat, tenant : Tenants, n : 1..ROWS]
      BY <1>1 DEF IInv, TypeOK
    <3> QED
      BY <3>1
  <2>9. serial[d] = (t - 1) * ROWS + 1
    BY <1>1, <2>1, <2>2, <2>6, <2>7, <2>8
  <2> QED
    BY <2>9 DEF IdOf
<1> QED
  BY <1>1, <1>4, <1>5 DEF Numbered

\* A row more, with the next number.
LEMMA InsertIds ==
    ASSUME IInv, IInv', torn = {}, Numbered, InTurn, NEW s \in Tenants, Insert(s)
    PROVE  Numbered' /\ InTurn'
<1> DEFINE d == Db(s)
           e0 == [id |-> serial[d], tenant |-> at[s], n |-> row[s]]
<1>1. /\ pc[s] = "inserting" /\ d \in Databases /\ at[s] \in Tenants /\ row[s] \in Nat
      /\ serial \in [Databases -> Nat]
  <2>1. pc[s] = "inserting" /\ d \in Databases /\ serial \in [Databases -> Nat]
    BY DbType DEF Insert, Goes, IInv, TypeOK
  <2>2. at[s] \in Tenants
    BY <2>1, AtType DEF IInv, Place
  <2>3. row[s] \in 1..(ROWS + 1)
    BY DEF IInv, TypeOK
  <2> QED
    BY <2>1, <2>2, <2>3, SizesAssumption
<1>2. /\ entries' = [entries EXCEPT ![d] = @ \cup {e0}]
      /\ serial' = [serial EXCEPT ![d] = @ + 1]
      /\ row' = [row EXCEPT ![s] = @ + 1]
      /\ at' = [at EXCEPT ![s] = IF row[s] = ROWS THEN @ + 1 ELSE @]
      /\ pc' = [pc EXCEPT ![s] = IF row[s] = ROWS THEN "counting" ELSE "inserting"]
      /\ stack' = stack
  BY DEF Insert, Goes
<1>3. /\ entries'[d] = entries[d] \cup {e0} /\ serial'[d] = serial[d] + 1
      /\ \A c \in Databases : c # d => entries'[c] = entries[c] /\ serial'[c] = serial[c]
  BY <1>1, <1>2 DEF IInv, TypeOK
<1>4. e0.id = IdOf(e0.tenant, e0.n) /\ e0.id = serial[d] /\ e0.tenant = at[s]
  BY <1>1 DEF InTurn
<1>5. ASSUME NEW c \in Databases, NEW u, RowsOf(c, u) # {}
      PROVE  {e \in entries'[c] : e.tenant = u} # {}
  <2>1. entries[c] \subseteq entries'[c]
    BY <1>3
  <2> QED
    BY <1>5, <2>1 DEF RowsOf
<1> HIDE DEF e0
<1>6. Numbered'
  <2> SUFFICES ASSUME NEW c \in Databases
               PROVE  /\ \A e \in entries'[c] : e.id = IdOf(e.tenant, e.n) /\ e.id < serial'[c]
                      /\ \A e \in entries'[c] : \A u \in 1..(e.tenant - 1) :
                            {f \in entries'[c] : f.tenant = u} # {}
                      /\ \/ entries'[c] = {} /\ serial'[c] = 1
                         \/ \E e \in entries'[c] : serial'[c] = e.id + 1
    BY DEF Numbered, IdOf, RowsOf
  <2>1. CASE c # d
    BY <1>3, <2>1 DEF Numbered, RowsOf
  <2>2. CASE c = d
    <3>1. ASSUME NEW e \in entries[d]
          PROVE  /\ e.id = IdOf(e.tenant, e.n) /\ e.id < serial'[d]
                 /\ \A u \in 1..(e.tenant - 1) : {f \in entries'[d] : f.tenant = u} # {}
      <4>1. e \in [id : Nat, tenant : Tenants, n : 1..ROWS]
        BY <1>1 DEF IInv, TypeOK
      <4>2. /\ e.id = IdOf(e.tenant, e.n) /\ e.id < serial[d]
            /\ \A u \in 1..(e.tenant - 1) : RowsOf(d, u) # {}
        BY <1>1 DEF Numbered
      <4>3. e.id \in Int /\ serial[d] \in Int
        BY <1>1, <4>1
      <4>4. e.id < serial'[d]
        BY <1>3, <4>2, <4>3
      <4>5. \A u \in 1..(e.tenant - 1) : {f \in entries'[d] : f.tenant = u} # {}
        BY <1>1, <1>5, <4>2
      <4> QED
        BY <4>2, <4>4, <4>5
    <3>2. \A u \in 1..(at[s] - 1) : {f \in entries'[d] : f.tenant = u} # {}
      <4>1. \A u \in 1..(at[s] - 1) : RowsOf(d, u) # {}
        BY <1>1 DEF IInv, Behind, Seeded
      <4> QED
        BY <1>1, <1>5, <4>1
    <3>3. e0.id < serial'[d] /\ serial'[d] = e0.id + 1
      BY <1>1, <1>3, <1>4
    <3>4. \A e \in entries'[d] : e \in entries[d] \/ e = e0
      BY <1>3
    <3>5. e0 \in entries'[d]
      BY <1>3
    <3>6. \A e \in entries'[d] : e.id = IdOf(e.tenant, e.n) /\ e.id < serial'[d]
      BY <1>4, <3>1, <3>3, <3>4
    <3>7. \A e \in entries'[d] : \A u \in 1..(e.tenant - 1) : {f \in entries'[d] : f.tenant = u} # {}
      BY <1>4, <3>1, <3>2, <3>4
    <3> QED
      BY <2>2, <3>3, <3>5, <3>6, <3>7
  <2> QED
    BY <2>1, <2>2
<1>7. InTurn'
  <2> SUFFICES ASSUME NEW x \in Tenants, pc'[x] = "inserting"
               PROVE  serial'[Db(x)'] = IdOf(at'[x], row'[x])
    BY DEF InTurn, IdOf
  <2>0. Db(x)' = Db(x) /\ Db(x) \in Databases
    BY <1>2, DbType DEF Db, IInv
  <2>1. CASE x = s
    <3>1. at'[s] = at[s] /\ row'[s] = row[s] + 1
      BY <1>2, <2>1 DEF IInv, TypeOK
    <3>2. serial[d] = IdOf(at[s], row[s]) /\ (at[s] - 1) * ROWS \in Int
      BY <1>1, SizesAssumption DEF InTurn, Tenants
    <3> QED
      BY <1>1, <1>3, <2>0, <2>1, <3>1, <3>2 DEF IdOf
  <2>2. CASE x # s
    <3>1. pc[x] = "inserting" /\ at'[x] = at[x] /\ row'[x] = row[x]
      BY <1>2, <2>2 DEF IInv, TypeOK
    <3>2. Db(x) # d
      BY <1>1, <2>2, <3>1, Alone DEF Setup
    <3> QED
      BY <1>3, <2>0, <3>1, <3>2 DEF InTurn
  <2> QED
    BY <2>1, <2>2
<1> QED
  BY <1>6, <1>7

\* Nothing else gives out numbers.
LEMMA NextIds == ASSUME IInv, IInv', Ids, [Next]_vars PROVE Ids'
<1>1. torn \subseteq torn'
  BY DEF Next, Launch, Step, Connect, ConnectFails, Lock, CheckTable, CreateTable, Count, Insert,
     Unlock, Kill, Ready, Shutdown, Request, Login, QueryFails, ListEntries, FetchEntry, Serving,
     CutOff, vars
<1>2. ASSUME torn' = {}, ~(\E s \in Tenants : Insert(s)) PROVE Numbered' /\ InTurn'
  <2>1. torn = {} /\ Numbered /\ InTurn
    BY <1>1, <1>2 DEF Ids
  <2>2. UNCHANGED <<stack, entries, serial>>
    BY <1>2 DEF Next, Launch, Step, Connect, ConnectFails, Lock, CheckTable, CreateTable, Count,
       Unlock, Kill, Ready, Shutdown, Request, Login, QueryFails, ListEntries, FetchEntry,
       Serving, CutOff, vars, database
  <2>3. Numbered'
    BY <2>1, <2>2 DEF Numbered, RowsOf, IdOf
  <2>4. ASSUME NEW x \in Tenants, pc'[x] = "inserting" PROVE serial'[Db(x)'] = IdOf(at'[x], row'[x])
    <3>0. serial'[Db(x)'] = serial[Db(x)]
      BY <2>2 DEF Db
    <3>1. CASE pc[x] = "inserting" /\ at'[x] = at[x] /\ row'[x] = row[x]
      BY <2>1, <3>0, <3>1 DEF InTurn
    <3>2. CASE Count(x)
      <4>1. /\ pc[x] = "counting" /\ at[x] \in Tenants /\ RowsOf(Db(x), at[x]) = {}
            /\ at'[x] = at[x] /\ row'[x] = 1
        <5> DEFINE seeded == at[x] <= N /\ RowsOf(Db(x), at[x]) # {}
        <5>1. /\ pc[x] = "counting"
              /\ pc' = [pc EXCEPT ![x] = IF at[x] > N THEN "unlocking"
                                       ELSE IF seeded THEN "counting" ELSE "inserting"]
              /\ row' = [row EXCEPT ![x] = 1]
              /\ at' = [at EXCEPT ![x] = IF seeded THEN @ + 1 ELSE @]
          BY <3>2 DEF Count, Goes
        <5>2. x \in DOMAIN pc /\ x \in DOMAIN at /\ x \in DOMAIN row /\ at[x] \in 1..(N + 1)
          BY DEF IInv, TypeOK
        <5>3. at[x] \in Int /\ N \in Int
          BY <5>2, SizesAssumption
        <5> HIDE DEF seeded
        <5>4. ~(at[x] > N) /\ ~seeded
          BY <2>4, <5>1, <5>2
        <5>5. at[x] <= N
          BY <5>3, <5>4
        <5>6. RowsOf(Db(x), at[x]) = {}
          BY <5>4, <5>5 DEF seeded
        <5>7. at[x] \in Tenants
          BY <5>2, <5>3, <5>5 DEF Tenants
        <5> QED
          BY <5>1, <5>2, <5>4, <5>6, <5>7
      <4> QED
        BY <2>1, <3>0, <4>1, FirstOfTenant
    <3>3. (pc[x] = "inserting" /\ at'[x] = at[x] /\ row'[x] = row[x]) \/ Count(x)
      <4>1. ASSUME NEW s \in Tenants,
                   Launch(s) \/ Connect(s) \/ ConnectFails(s) \/ Lock(s) \/ CheckTable(s)
                     \/ CreateTable(s) \/ Unlock(s) \/ Kill(s)
            PROVE  pc[x] = "inserting" /\ at'[x] = at[x] /\ row'[x] = row[x]
        BY <2>4, <4>1 DEF Launch, Connect, ConnectFails, Lock, CheckTable, CreateTable, Unlock,
           Kill, Goes, IInv, TypeOK
      <4>2. ASSUME NEW s \in Tenants, Count(s), s # x
            PROVE  pc[x] = "inserting" /\ at'[x] = at[x] /\ row'[x] = row[x]
        BY <2>4, <4>2 DEF Count, Goes, IInv, TypeOK
      <4>3. ASSUME NEW d \in Databases, Ready(d) \/ Shutdown(d)
            PROVE  pc[x] = "inserting" /\ at'[x] = at[x] /\ row'[x] = row[x]
        BY <2>4, <4>3 DEF Ready, Shutdown, service
      <4>4. CASE Request \/ UNCHANGED vars
        BY <2>4, <4>4 DEF Request, Login, QueryFails, ListEntries, FetchEntry, Serving, CutOff,
           vars, service
      <4> QED
        BY <1>2, <4>1, <4>2, <4>3, <4>4 DEF Next, Step
    <3> QED
      BY <3>1, <3>2, <3>3
  <2> QED
    BY <2>3, <2>4 DEF InTurn, IdOf
<1>3. ASSUME torn' = {}, NEW s \in Tenants, Insert(s) PROVE Numbered' /\ InTurn'
  BY <1>1, <1>3, InsertIds DEF Ids
<1>4. Connected'
  <2> SUFFICES ASSUME NEW x \in Tenants, pc'[x] \in Setup \cup {"waiting", "serving"}
               PROVE  Db(x)' \in ready'
    BY DEF Connected
  <2>0. Db(x)' = Db(x) /\ stack' = stack
    BY DEF Next, Launch, Step, Connect, ConnectFails, Lock, CheckTable, CreateTable, Count, Insert,
       Unlock, Kill, Ready, Shutdown, Request, Login, QueryFails, ListEntries, FetchEntry, Serving,
       CutOff, vars, Db
  <2>1. ASSUME NEW s \in Tenants, Launch(s) \/ Step(s) \/ Kill(s) PROVE Db(x) \in ready'
    <3>1. ready' = ready
      BY <2>1 DEF Launch, Step, Connect, ConnectFails, Lock, CheckTable, CreateTable, Count,
         Insert, Unlock, Kill, database
    <3>2. pc[x] \in Setup \cup {"waiting", "serving"} \/ Connect(x)
      BY <2>1 DEF Launch, Step, Connect, ConnectFails, Lock, CheckTable, CreateTable, Count,
         Insert, Unlock, Kill, Goes, IInv, TypeOK, Setup
    <3> QED
      BY <3>1, <3>2 DEF Ids, Connected, Connect
  <2>2. ASSUME NEW d \in Databases, Ready(d) \/ Shutdown(d) PROVE Db(x) \in ready'
    BY <2>2 DEF Ready, Shutdown, service, Ids, Connected, Setup
  <2>3. CASE Request \/ UNCHANGED vars
    <3>1. pc' = pc /\ ready' = ready
      <4>1. CASE UNCHANGED vars
        BY <4>1 DEF vars, service, database
      <4>2. CASE Request
        BY <4>2 DEF Request, Login, QueryFails, ListEntries, FetchEntry, Serving, CutOff, service,
           database
      <4> QED
        BY <2>3, <4>1, <4>2
    <3>2. Db(x) \in ready
      BY <3>1 DEF Ids, Connected
    <3> QED
      BY <2>0, <3>1, <3>2
  <2> QED
    BY <2>0, <2>1, <2>2, <2>3 DEF Next
<1> QED
  BY <1>2, <1>3, <1>4 DEF Ids

LEMMA InitIds == Init => Ids
BY DEF Init, Ids, Numbered, InTurn, Connected, Setup

----------------------------------------------------------------------------
\* The probes are requests like any other: verify.py beside the services is one
\* of the behaviours Tenancy describes.
LEMMA ProbesAreRequests == [NextVerify]_<<vars, verifier>> => [Next]_vars
<1>1. ASSUME NEW p, NEW s \in {A, B}, NEW then, LogsIn(p, s, then) PROVE Next
  <2>1. Login(s) /\ s \in Tenants
    BY <1>1, ProbedAssumption DEF LogsIn, Listens, Quiet, Login, Serving, CutOff, TokenOf
  <2> QED
    BY <2>1 DEF Next, Request
<1>2. ASSUME NEW p, Raises(p) PROVE UNCHANGED vars
  BY <1>2 DEF Raises, Quiet, vars, traffic
<1>3. ASSUME NEW p, NEW name, NEW got, Concludes(p, name, got) PROVE UNCHANGED vars
  BY <1>3 DEF Concludes, Quiet, vars, traffic
<1>4. CASE StartVerify \/ DockerFails \/ EndVerify \/ ListOfB
  BY <1>4 DEF StartVerify, DockerFails, EndVerify, ListOfB, Quiet, vars, traffic
<1> QED
  BY <1>1, <1>2, <1>3, <1>4 DEF NextVerify, Others, Verify, LoginFails, NoListOfB, FetchFromA,
     WhoamiOfB, PathFromA, Published, vars

\* A service that answers has a first row of each tenant, even of a torn seed.
LEMMA FirstRow ==
    ASSUME IInv, NEW s \in Tenants, NEW t \in Tenants, pc[s] = "serving"
    PROVE  \E i \in {e.id : e \in RowsOf(Db(s), t)} : \A e \in RowsOf(Db(s), t) : i <= e.id
<1> DEFINE I == {e.id : e \in RowsOf(Db(s), t)}
<1>1. RowsOf(Db(s), t) # {}
  <2>1. at[s] = N + 1
    BY DEF IInv, Place
  <2>2. t \in 1..(at[s] - 1)
    BY <2>1, SizesAssumption DEF Tenants
  <2> QED
    BY <2>2 DEF IInv, Behind, Seeded
<1>2. ASSUME NEW e \in RowsOf(Db(s), t) PROVE e.id \in Nat
  <2>1. e \in entries[Db(s)] /\ Db(s) \in Databases
    BY DbType DEF RowsOf, IInv
  <2>2. e \in [id : Nat, tenant : Tenants, n : 1..ROWS]
    BY <2>1 DEF IInv, TypeOK
  <2> QED
    BY <2>2
<1>3. I # {} /\ I \subseteq Nat
  BY <1>1, <1>2
<1>4. PICK i \in I : \A j \in I : ~(<<j, i>> \in OpToRel(<, Nat))
  BY <1>3, WFMin, NatLessThanWellFounded
<1>5. ASSUME NEW j \in I PROVE i <= j
  <2>1. i \in Nat /\ j \in Nat
    BY <1>3, <1>4
  <2>2. ~(j < i)
    BY <1>4, <2>1 DEF OpToRel
  <2> QED
    BY <2>1, <2>2
<1> QED
  BY <1>5

\* No row of tenant A has the number of a row of tenant B, in whichever databases.
LEMMA NotTheOthers ==
    ASSUME IInv, Numbered, NEW f \in entries[Db(B)], f.tenant = B
    PROVE  Found(A, f.id) = {}
<1>1. /\ A \in Tenants /\ B \in Tenants /\ A # B /\ Db(A) \in Databases /\ Db(B) \in Databases
      /\ TypeOK
  BY ProbedAssumption, DbType DEF IInv
<1>2. ASSUME NEW e \in Found(A, f.id) PROVE FALSE
  <2>1. e \in entries[Db(A)] /\ e.id = f.id /\ e.tenant = A
    BY DEF Found
  <2>2. e.n \in 1..ROWS /\ f.n \in 1..ROWS
    BY <1>1, <2>1, RowType
  <2>3. IdOf(A, e.n) = IdOf(B, f.n)
    BY <1>1, <2>1 DEF Numbered
  <2> QED
    BY <1>1, <2>2, <2>3, OneNumber
<1> QED
  BY <1>2

\* A probe of services that stay up finds what is expected.
LEMMA ProbeStep ==
    ASSUME IInv, Ids, Probing, Verify
    PROVE  Probing'
<1> USE ProbedAssumption
<1>1. CASE ~undisturbed
  <2>1. undisturbed' = FALSE \/ undisturbed' = undisturbed
    BY DEF Verify, StartVerify, LogsIn, LoginFails, Raises, ListOfB, NoListOfB, FetchFromA,
       WhoamiOfB, PathFromA, Published, Concludes, DockerFails, EndVerify, Quiet
  <2>2. ~undisturbed'
    BY <1>1, <2>1
  <2> QED
    BY <2>2 DEF Probing
<1>2. CASE undisturbed
  <2>1. probe # "idle" => pc[A] = "serving" /\ pc[B] = "serving"
    BY <1>2 DEF Probing
  <2>2. torn = {} => failures = 0 /\ code \in {None, 0}
    BY <1>2 DEF Probing
  <2>3. ASSUME NEW p, NEW name, NEW got, Concludes(p, name, got), p # "idle",
               After(p) \notin {"login a", "fetch"}, torn = {} => got = Expected[name]
        PROVE  Probing'
    BY <2>1, <2>2, <2>3 DEF Concludes, Quiet, Probing, service
  <2>4. CASE StartVerify
    BY <2>2, <2>4 DEF StartVerify, Probing, vars, service
  <2>5. CASE LogsIn("login b", B, "list b")
    BY <2>1, <2>2, <2>5 DEF LogsIn, Quiet, Probing, service
  <2>6. CASE LogsIn("login a", A, "fetch")
    <3>1. \E e \in entries[Db(B)] : e.id = target /\ e.tenant = B
      BY <1>2, <2>6 DEF LogsIn, Probing
    <3> QED
      BY <2>1, <2>2, <2>6, <3>1 DEF LogsIn, Quiet, Probing, service, database, Db
  <2>7. CASE LogsIn("login a again", A, "whoami")
    BY <2>1, <2>2, <2>7 DEF LogsIn, Quiet, Probing, service
  <2>8. ASSUME LoginFails("login b", B) \/ LoginFails("login a", A) \/ LoginFails("login a again", A)
        PROVE  FALSE
    BY <2>1, <2>8 DEF LoginFails, Listens, Raises
  <2>9. CASE ListOfB
    <3>1. probe = "list b" /\ pc[B] = "serving"
      BY <2>9 DEF ListOfB
    <3>2. target' = CHOOSE i \in {e.id : e \in RowsOf(Db(B), B)} : \A e \in RowsOf(Db(B), B) : i <= e.id
      BY <2>9 DEF ListOfB
    <3>3. target' \in {e.id : e \in RowsOf(Db(B), B)}
      BY <3>1, <3>2, FirstRow
    <3>4. \E e \in entries[Db(B)] : e.id = target' /\ e.tenant = B
      BY <3>3 DEF RowsOf
    <3> QED
      BY <2>1, <2>2, <2>9, <3>4 DEF ListOfB, Quiet, Probing, service, database, Db
  <2>10. ASSUME NoListOfB PROVE FALSE
    <3>1. probe = "list b" /\ pc[B] = "serving"
      BY <2>1, <2>10 DEF NoListOfB, Raises
    <3>2. RowsOf(Db(B), B) # {}
      BY <3>1, FirstRow
    <3>3. Accepts(B, TokenOf(B))
      BY DEF Accepts, TokenOf
    <3> QED
      BY <2>10, <3>1, <3>2, <3>3 DEF NoListOfB
  <2>11. CASE FetchFromA
    <3>1. PICK e \in entries[Db(B)] : e.id = target /\ e.tenant = B
      BY <1>2, <2>11 DEF FetchFromA, Concludes, Probing
    <3>2. torn = {} => Found(A, target) = {}
      BY <3>1, NotTheOthers DEF Ids
    <3> QED
      BY <2>3, <2>11, <3>2 DEF FetchFromA, Expected, After
  <2>12. CASE WhoamiOfB
    <3>1. ~Accepts(B, TokenOf(A))
      BY DEF Accepts, TokenOf
    <3> QED
      BY <2>3, <2>12, <3>1 DEF WhoamiOfB, Expected, After
  <2>13. CASE PathFromA
    <3>1. pc[A] = "serving" /\ pc[B] = "serving"
      BY <2>1, <2>13 DEF PathFromA, Concludes
    <3>2. Db(B) \in ready
      BY <3>1 DEF Ids, Connected
    <3>3. (Shared /\ Db(B) \in ready /\ pc[A] \notin {"down", "failed"}) = Shared
      BY <3>1, <3>2 DEF Shared
    <3> QED
      BY <2>3, <2>13, <3>3 DEF PathFromA, Expected, After
  <2>14. CASE Published
    BY <2>3, <2>14 DEF Published, Expected, After
  <2>15. CASE DockerFails
    BY <2>15 DEF DockerFails, Probing
  <2>16. CASE EndVerify
    BY <2>1, <2>2, <2>16 DEF EndVerify, Probing, vars, service, None
  <2> QED
    BY <2>4, <2>5, <2>6, <2>7, <2>8, <2>9, <2>10, <2>11, <2>12, <2>13, <2>14, <2>15, <2>16
       DEF Verify
<1> QED
  BY <1>1, <1>2

\* While nothing is stopped, services that serve go on serving, and no row goes.
LEMMA OthersStep ==
    ASSUME IInv, Probing, Others
    PROVE  Probing'
<1> USE ProbedAssumption
<1>1. torn' = {} => torn = {}
  BY DEF Others, Next, Launch, Step, Connect, ConnectFails, Lock, CheckTable, CreateTable, Count,
     Insert, Unlock, Kill, Ready, Shutdown, Request, Login, QueryFails, ListEntries, FetchEntry,
     Serving, CutOff
<1>2. ASSUME NEW d \in Databases PROVE entries[d] \subseteq entries'[d]
  <2>1. ASSUME NEW s \in Tenants, Insert(s) PROVE entries[d] \subseteq entries'[d]
    BY <2>1, DbType DEF Insert, IInv, TypeOK
  <2>2. CASE UNCHANGED entries
    BY <2>2
  <2> QED
    BY <2>1, <2>2 DEF Others, Next, Launch, Step, Connect, ConnectFails, Lock, CheckTable,
       CreateTable, Count, Unlock, Kill, Ready, Shutdown, Request, Login, QueryFails,
       ListEntries, FetchEntry, Serving, CutOff, database
<1>3. Db(B)' = Db(B) /\ Db(B) \in Databases
  <2>1. stack' = stack
    BY DEF Others, Next, Launch, Step, Connect, ConnectFails, Lock, CheckTable, CreateTable, Count,
       Insert, Unlock, Kill, Ready, Shutdown, Request, Login, QueryFails, ListEntries, FetchEntry,
       Serving, CutOff
  <2> QED
    BY <2>1, DbType DEF Db, IInv
<1>4. ASSUME faults' = faults, NEW x \in Tenants, pc[x] = "serving" PROVE pc'[x] = "serving"
  <2>0. faults \in Int
    <3>1. faults \in 0..MaxFaults
      BY DEF IInv, TypeOK
    <3> QED
      BY <3>1
  <2>1. ~Fault
    BY <1>4, <2>0 DEF Fault
  <2>2. ASSUME NEW s \in Tenants, Launch(s) \/ Step(s) PROVE pc'[x] = "serving"
    BY <1>4, <2>2 DEF Launch, Step, Connect, ConnectFails, Lock, CheckTable, CreateTable, Count,
       Insert, Unlock, Goes, IInv, TypeOK
  <2>3. CASE (\E d \in Databases : Ready(d)) \/ Request
    BY <1>4, <2>3 DEF Ready, Request, Login, QueryFails, ListEntries, FetchEntry, Serving, CutOff,
       service
  <2> QED
    BY <2>1, <2>2, <2>3 DEF Others, Next, Kill, Shutdown
<1>5. /\ undisturbed' => undisturbed /\ (probe = "idle" \/ faults' = faults)
      /\ UNCHANGED <<probe, target, failures, code>>
  BY DEF Others
<1>6. undisturbed' /\ probe' # "idle" => pc'[A] = "serving" /\ pc'[B] = "serving"
  BY <1>4, <1>5 DEF Probing
<1>7. undisturbed' /\ probe' \in {"login a", "fetch"} =>
        \E e \in entries'[Db(B)'] : e.id = target' /\ e.tenant = B
  BY <1>2, <1>3, <1>5 DEF Probing
<1>8. undisturbed' /\ torn' = {} => failures' = 0 /\ code' \in {None, 0}
  BY <1>1, <1>5 DEF Probing
<1> QED
  BY <1>6, <1>7, <1>8 DEF Probing, Db

----------------------------------------------------------------------------
\* The inductive invariant holds of every run.
THEOREM Invariance == Spec => []IInv
<1>1. Init => IInv
  BY InitIInv
<1>2. ASSUME IInv, [Next]_vars PROVE IInv'
  <2>1. ASSUME NEW s \in Tenants, Launch(s) \/ Step(s) PROVE IInv'
    BY <1>2, <2>1, SetupStep, InsertStep
  <2>2. CASE UNCHANGED vars
    <3>1. TypeOK'
      BY <1>2, <2>2 DEF IInv, TypeOK, vars, service, database, traffic
    <3>2. Locked' /\ Place'
      BY <1>2, <2>2 DEF IInv, Locked, Place, Db, vars, service, database
    <3>3. Inserting' /\ Behind'
      BY <1>2, <2>2 DEF IInv, Inserting, Behind, Seeded, Whole, RowsOf, Db, vars, service, database
    <3>4. Accounted' /\ SeededOnce' /\ OwnRowsOnly'
      BY <1>2, <2>2 DEF IInv, Accounted, SeededOnce, OwnRowsOnly, Whole, RowsOf, Db, vars, service, database, traffic
    <3> QED
      BY <3>1, <3>2, <3>3, <3>4 DEF IInv
  <2> QED
    BY <1>2, <2>1, <2>2, FaultStep, RequestStep DEF Next
<1> QED
  BY <1>1, <1>2, PTL DEF Spec

\* Every variable keeps its type, for any number of tenants and any stack.
THEOREM TenancyTypeCorrect == Spec => []TypeOK
<1>1. IInv => TypeOK
  BY DEF IInv
<1> QED
  BY <1>1, Invariance, PTL

\* No seed is inserted twice, whoever sets a database up together and however
\* often the setup is stopped and begun again.
THEOREM NoSeedTwice == Spec => []SeededOnce
<1>1. IInv => SeededOnce
  BY DEF IInv
<1> QED
  BY <1>1, Invariance, PTL

\* The race to create the table is never lost.
THEOREM TableCreatedOnce == Spec => []NoConflict
<1>1. IInv => NoConflict
  BY DEF IInv, Place, NoConflict
<1> QED
  BY <1>1, Invariance, PTL

\* A service that answers has every seed whole, but for those that were torn.
THEOREM SeedsServed == Spec => []SeededWhole
<1>1. IInv => SeededWhole
  <2> SUFFICES ASSUME IInv, NEW s \in Tenants, pc[s] = "serving", NEW t \in Tenants
               PROVE  Seeded(Db(s), t)
    BY DEF SeededWhole, Seeded
  <2>1. at[s] = N + 1
    BY DEF IInv, Place
  <2>2. t \in 1..(at[s] - 1)
    BY <2>1, SizesAssumption DEF Tenants
  <2> QED
    BY <2>2 DEF IInv, Behind
<1> QED
  BY <1>1, Invariance, PTL

\* Nobody is shown another tenant's rows, whatever the tenants share.
THEOREM NobodyElsesRows == Spec => []OwnRowsOnly
<1>1. IInv => OwnRowsOnly
  BY DEF IInv
<1> QED
  BY <1>1, Invariance, PTL

\* verify.py beside the services changes nothing about them: what is proved of
\* the services alone holds beside it as well.
THEOREM VerifyRunsTheServices == SpecVerify => Spec
<1>1. InitVerify => Init
  BY DEF InitVerify
<1> QED
  BY <1>1, ProbesAreRequests, PTL DEF SpecVerify, Spec

\* verify.py raises no alarm over services that stay up and whose seeds were whole,
\* for any number of tenants of which it probes two, whatever databases and keys
\* they share and whatever was stopped before (verify.py:94-109, 161-193).
THEOREM NoFalseAlarm == SpecVerify => []ProbesMatch
<1>1. InitVerify => Ids /\ Probing
  BY InitIds DEF InitVerify, Probing, None
<1>2. IInv /\ IInv' /\ Ids /\ Probing /\ [NextVerify]_<<vars, verifier>> => Ids' /\ Probing'
  <2> SUFFICES ASSUME IInv, IInv', Ids, Probing, [NextVerify]_<<vars, verifier>>
               PROVE  Ids' /\ Probing'
    OBVIOUS
  <2>1. Ids'
    BY ProbesAreRequests, NextIds
  <2>2. CASE UNCHANGED <<vars, verifier>>
    <3>1. UNCHANGED <<pc, stack, entries, torn, probe, target, failures, code, undisturbed>>
      BY <2>2 DEF vars, verifier, service, database
    <3>2. Probing'
      BY <3>1 DEF Probing, Db
    <3> QED
      BY <2>1, <3>2
  <2> QED
    BY <2>1, <2>2, ProbeStep, OthersStep DEF NextVerify
<1>3. SpecVerify => []IInv
  BY VerifyRunsTheServices, Invariance, PTL
<1>4. Probing => ProbesMatch
  BY DEF Probing, ProbesMatch
<1> QED
  BY <1>1, <1>2, <1>3, <1>4, PTL DEF SpecVerify

----------------------------------------------------------------------------
(* What waiting for the setup comes to: nobody keeps the lock for nothing, *)
(* and the setup of a service has so many steps.                           *)

\* Only a service in its setup holds the lock of a database, its own.
HeldInSetup ==
    \A d \in Databases : lock[d] # NoOne => pc[lock[d]] \in Setup /\ Db(lock[d]) = d

\* How much of its start a service has ahead of it
PerTenant == ROWS + 2
Work ==
  [s \in Tenants |->
    LET rest == (N + 1 - at[s]) * PerTenant
    IN  CASE pc[s] = "connecting" -> N * PerTenant + 6
          [] pc[s] = "waiting" -> N * PerTenant + 5
          [] pc[s] = "checking" -> N * PerTenant + 4
          [] pc[s] = "creating" -> N * PerTenant + 3
          [] pc[s] = "counting" -> rest + 2
          [] pc[s] = "inserting" -> rest + 2 - row[s]
          [] pc[s] = "unlocking" -> 1
          [] OTHER -> 0]

\* A step of the start of one service is no step of another's.
LEMMA StepOfOne ==
    ASSUME TypeOK, NEW s \in Tenants, Step(s) \/ Launch(s)
    PROVE  /\ \A x \in Tenants \ {s} :
                pc'[x] = pc[x] /\ at'[x] = at[x] /\ row'[x] = row[x]
           /\ stack' = stack
<1>1. pc \in [Tenants -> Setup \cup {"down", "connecting", "waiting", "serving", "cut off", "failed"}]
      /\ at \in [Tenants -> 1..(N + 1)] /\ row \in [Tenants -> 1..(ROWS + 1)]
    BY DEF TypeOK
<1>2. CASE Connect(s) \/ ConnectFails(s) \/ Lock(s) \/ Launch(s)
    BY <1>1, <1>2 DEF Connect, ConnectFails, Lock, Launch, Goes
<1>3. CASE CheckTable(s) \/ CreateTable(s) \/ Unlock(s)
    BY <1>1, <1>3 DEF CheckTable, CreateTable, Unlock, Goes
<1>4. CASE Count(s)
    BY <1>1, <1>4 DEF Count, Goes
<1>5. CASE Insert(s)
    BY <1>1, <1>5 DEF Insert, Goes
<1> QED
    BY <1>2, <1>3, <1>4, <1>5 DEF Step

\* The lock goes to a service that enters its setup, and is let go by one that
\* leaves it.
LEMMA StepHeld ==
    ASSUME IInv, HeldInSetup, NEW s \in Tenants, Step(s) \/ Launch(s)
    PROVE  HeldInSetup'
<1>1. /\ pc \in [Tenants -> Setup \cup {"down", "connecting", "waiting", "serving", "cut off", "failed"}]
      /\ lock \in [Databases -> Tenants \cup {NoOne}] /\ Db(s) \in Databases
    BY DbType DEF IInv, TypeOK
<1>2. \A x \in Tenants : Db(x)' = Db(x) /\ (x # s => pc'[x] = pc[x])
    BY StepOfOne DEF IInv, Db
<1>3. CASE Lock(s)
    <2>1. pc[s] = "waiting" /\ pc'[s] = "checking" /\ lock' = [lock EXCEPT ![Db(s)] = s]
        BY <1>1, <1>3 DEF Lock, Goes
    <2>2. \A d \in Databases : lock[d] # s
        BY <2>1, SizesAssumption DEF HeldInSetup, Setup, Tenants, NoOne
    <2> QED
        BY <1>1, <1>2, <2>1, <2>2 DEF HeldInSetup, Setup
<1>4. CASE lock' = lock /\ (pc[s] \in Setup => pc'[s] \in Setup)
    BY <1>1, <1>2, <1>4 DEF HeldInSetup
<1>5. CASE lock' = [lock EXCEPT ![Db(s)] = NoOne]
    <2>1. \A d \in Databases : lock'[d] # NoOne => lock'[d] = lock[d] /\ lock[d] # s
        BY <1>1, <1>5 DEF HeldInSetup
    <2> QED
        BY <1>1, <1>2, <2>1 DEF HeldInSetup
<1>6. CASE Connect(s) \/ ConnectFails(s) \/ Launch(s)
    <2>1. lock' = lock /\ pc[s] \notin Setup
        BY <1>6 DEF Connect, ConnectFails, Launch, Goes, database, Setup
    <2> QED
        BY <1>4, <2>1
<1>7. CASE CheckTable(s) \/ Count(s) \/ Insert(s)
    <2>1. lock' = lock /\ pc'[s] \in Setup
        BY <1>1, <1>7 DEF CheckTable, Count, Insert, Goes, database, Setup
    <2> QED
        BY <1>4, <2>1
<1>8. CASE CreateTable(s)
    <2>1. CASE Db(s) \in table
        BY <1>5, <1>8, <2>1 DEF CreateTable
    <2>2. CASE Db(s) \notin table
        <3>1. lock' = lock /\ pc'[s] \in Setup
            BY <1>1, <1>8, <2>2 DEF CreateTable, Goes, Setup
        <3> QED
            BY <1>4, <3>1
    <2> QED
        BY <2>1, <2>2
<1>9. CASE Unlock(s)
    BY <1>5, <1>9 DEF Unlock
<1> QED
    BY <1>3, <1>6, <1>7, <1>8, <1>9 DEF Step

\* A service or a database that is stopped lets its locks go.
LEMMA StopHeld ==
    ASSUME IInv, HeldInSetup,
           \/ \E s \in Tenants : Kill(s)
           \/ \E d \in Databases : Ready(d) \/ Shutdown(d)
           \/ Request
           \/ UNCHANGED vars
    PROVE  HeldInSetup'
<1>1. /\ pc \in [Tenants -> Setup \cup {"down", "connecting", "waiting", "serving", "cut off", "failed"}]
      /\ lock \in [Databases -> Tenants \cup {NoOne}]
      /\ \A s \in Tenants : Db(s) \in Databases
    BY DbType DEF IInv, TypeOK
<1>2. CASE \E s \in Tenants : Kill(s)
    <2>1. PICK s \in Tenants : Kill(s)
        BY <1>2
    <2>2. /\ \A x \in Tenants \ {s} : pc'[x] = pc[x]
          /\ \A d \in Databases : lock'[d] = IF lock[d] = s THEN NoOne ELSE lock[d]
          /\ stack' = stack
        BY <1>1, <2>1 DEF Kill
    <2> QED
        BY <1>1, <2>2 DEF HeldInSetup, Db
<1>3. CASE \E d \in Databases : Shutdown(d)
    <2>1. PICK d \in Databases : Shutdown(d)
        BY <1>3
    <2>2. /\ \A x \in Tenants : Db(x) # d => pc'[x] = pc[x]
          /\ lock' = [lock EXCEPT ![d] = NoOne]
          /\ stack' = stack
        BY <1>1, <2>1 DEF Shutdown
    <2> QED
        BY <1>1, <2>2 DEF HeldInSetup, Db
<1>4. CASE (\E d \in Databases : Ready(d)) \/ Request \/ UNCHANGED vars
    <2>1. UNCHANGED <<pc, lock, stack>>
        BY <1>4 DEF Ready, Request, Login, QueryFails, ListEntries, FetchEntry, Serving, CutOff,
                    vars, service, database
    <2> QED
        BY <2>1 DEF HeldInSetup, Db
<1> QED
    BY <1>2, <1>3, <1>4

\* However services and databases are stopped and started, the lock of a database
\* is free or with a service that is in its setup, so who waits for it waits for a
\* setup that goes on and never for a lock left behind (common.py:73-88).
THEOREM LockNeverLeftBehind == Spec => []HeldInSetup
<1>1. Init => HeldInSetup
    BY DEF Init, HeldInSetup
<1>2. IInv /\ HeldInSetup /\ [Next]_vars => HeldInSetup'
    BY StepHeld, StopHeld DEF Next
<1> QED
    BY <1>1, <1>2, Invariance, PTL DEF Spec

\* One tenant's share of the work that is left
LEMMA OneShare ==
    ASSUME NEW k \in Nat, k # 0
    PROVE  k * PerTenant = (k - 1) * PerTenant + PerTenant /\ (k - 1) * PerTenant \in Nat
BY SizesAssumption DEF PerTenant

\* Where a service is, as numbers
LEMMA PlaceType ==
    ASSUME IInv, NEW s \in Tenants
    PROVE  /\ N \in Nat /\ ROWS \in Nat /\ PerTenant = ROWS + 2 /\ PerTenant \in Nat
           /\ at[s] \in 1..(N + 1) /\ row[s] \in 1..(ROWS + 1)
           /\ s \in DOMAIN pc /\ s \in DOMAIN at /\ s \in DOMAIN row
<1>1. N \in Nat /\ ROWS \in Nat /\ PerTenant = ROWS + 2 /\ PerTenant \in Nat
    BY SizesAssumption DEF PerTenant
<1>2. /\ at[s] \in 1..(N + 1) /\ row[s] \in 1..(ROWS + 1)
      /\ s \in DOMAIN pc /\ s \in DOMAIN at /\ s \in DOMAIN row
    BY DEF IInv, TypeOK
<1> QED
    BY <1>1, <1>2

\* The work that is left is a natural number.
LEMMA WorkType ==
    ASSUME IInv, NEW s \in Tenants
    PROVE  Work[s] \in Nat
<1>1. /\ N \in Nat /\ ROWS \in Nat /\ PerTenant = ROWS + 2 /\ PerTenant \in Nat
      /\ at[s] \in 1..(N + 1) /\ row[s] \in 1..(ROWS + 1)
    BY PlaceType
<1>2. N + 1 - at[s] \in Nat
    BY <1>1
<1>3. N * PerTenant \in Nat /\ (N + 1 - at[s]) * PerTenant \in Nat
    BY <1>1, <1>2
<1>4. CASE pc[s] = "inserting"
    <2>1. at[s] <= N /\ row[s] <= ROWS
        BY <1>4 DEF IInv, Place
    <2>2. (N + 1 - at[s]) * PerTenant >= PerTenant
        BY <1>1, <1>2, <2>1, OneShare
    <2>3. Work[s] = (N + 1 - at[s]) * PerTenant + 2 - row[s]
        BY <1>4 DEF Work
    <2> QED
        BY <1>1, <1>3, <2>1, <2>2, <2>3
<1> QED
    BY <1>3, <1>4 DEF Work

\* Each step of a service's start leaves it less to do.
LEMMA StepLowersWork ==
    ASSUME IInv, NEW s \in Tenants, Step(s)
    PROVE  Work'[s] < Work[s]
<1>1. /\ N \in Nat /\ ROWS \in Nat /\ PerTenant = ROWS + 2 /\ PerTenant \in Nat
      /\ at[s] \in 1..(N + 1) /\ row[s] \in 1..(ROWS + 1)
      /\ s \in DOMAIN pc /\ s \in DOMAIN at /\ s \in DOMAIN row
    BY PlaceType
<1>2. N + 1 - at[s] \in Nat
    BY <1>1
<1>3. N * PerTenant \in Nat /\ (N + 1 - at[s]) * PerTenant \in Nat
    BY <1>1, <1>2
<1>4. CASE Connect(s) \/ ConnectFails(s) \/ Lock(s)
    <2>1. \/ pc[s] = "connecting" /\ pc'[s] \in {"waiting", "failed"}
          \/ pc[s] = "waiting" /\ pc'[s] = "checking"
        BY <1>1, <1>4 DEF Connect, ConnectFails, Lock, Goes
    <2> QED
        BY <1>3, <2>1 DEF Work
<1>5. CASE CheckTable(s)
    <2>1. pc[s] = "checking" /\ pc'[s] \in {"counting", "creating"} /\ at'[s] = 1
        BY <1>1, <1>5 DEF CheckTable, Goes
    <2>2. (N + 1 - at'[s]) * PerTenant = N * PerTenant
        BY <1>1, <2>1
    <2> QED
        BY <1>3, <2>1, <2>2 DEF Work, PerTenant
<1>6. CASE CreateTable(s)
    <2>1. pc[s] = "creating" /\ pc'[s] \in {"counting", "failed"} /\ at'[s] = 1
        BY <1>1, <1>6 DEF CreateTable, Goes, IInv, Place
    <2>2. (N + 1 - at'[s]) * PerTenant = N * PerTenant
        BY <1>1, <2>1
    <2> QED
        BY <1>3, <2>1, <2>2 DEF Work, PerTenant
<1>7. CASE Count(s)
    <2>1. Work[s] = (N + 1 - at[s]) * PerTenant + 2
        BY <1>7 DEF Count, Goes, Work
    <2>2. CASE pc'[s] = "unlocking"
        BY <1>3, <2>1, <2>2 DEF Work
    <2>3. CASE pc'[s] = "inserting"
        <3>1. at'[s] = at[s] /\ row'[s] = 1
            BY <1>1, <1>7, <2>3 DEF Count, Goes
        <3> QED
            BY <1>1, <1>3, <2>1, <2>3, <3>1 DEF Work, PerTenant
    <2>4. CASE pc'[s] = "counting"
        <3>1. at'[s] = at[s] + 1 /\ at[s] <= N
            BY <1>1, <1>7, <2>4 DEF Count, Goes
        <3>2. N + 1 - at'[s] = (N + 1 - at[s]) - 1 /\ N + 1 - at[s] # 0
            BY <1>1, <3>1
        <3>3. Work'[s] = ((N + 1 - at[s]) - 1) * PerTenant + 2
            BY <2>4, <3>2 DEF Work, PerTenant
        <3> QED
            BY <1>1, <1>2, <1>3, <2>1, <3>2, <3>3, OneShare
    <2> QED
        BY <1>1, <1>7, <2>2, <2>3, <2>4 DEF Count, Goes
<1>8. CASE Insert(s)
    <2>1. Work[s] = (N + 1 - at[s]) * PerTenant + 2 - row[s] /\ at[s] <= N /\ row[s] <= ROWS
        BY <1>8 DEF Insert, Goes, Work, IInv, Place
    <2>2. CASE row[s] = ROWS
        <3>1. at'[s] = at[s] + 1 /\ pc'[s] = "counting"
            BY <1>1, <1>8, <2>2 DEF Insert, Goes
        <3>2. N + 1 - at'[s] = (N + 1 - at[s]) - 1 /\ N + 1 - at[s] # 0
            BY <1>1, <2>1, <3>1
        <3>3. Work'[s] = ((N + 1 - at[s]) - 1) * PerTenant + 2
            BY <3>1, <3>2 DEF Work, PerTenant
        <3> QED
            BY <1>1, <1>2, <1>3, <2>1, <2>2, <3>2, <3>3, OneShare
    <2>3. CASE row[s] # ROWS
        <3>1. at'[s] = at[s] /\ pc'[s] = "inserting" /\ row'[s] = row[s] + 1
            BY <1>1, <1>8, <2>3 DEF Insert, Goes
        <3>2. Work'[s] = (N + 1 - at[s]) * PerTenant + 2 - (row[s] + 1)
            BY <3>1 DEF Work, PerTenant
        <3> QED
            BY <1>1, <1>3, <2>1, <3>2
    <2> QED
        BY <2>2, <2>3
<1>9. CASE Unlock(s)
    <2>1. pc[s] = "unlocking" /\ pc'[s] = "serving"
        BY <1>1, <1>9 DEF Unlock, Goes
    <2> QED
        BY <2>1 DEF Work
<1> QED
    BY <1>4, <1>5, <1>6, <1>7, <1>8, <1>9 DEF Step

\* Another's steps leave a service's work alone, or end it.
LEMMA OthersLeaveWork ==
    ASSUME IInv, [Next]_vars, NEW s \in Tenants, ~Launch(s), ~Step(s)
    PROVE  Work'[s] \in {Work[s], 0}
<1>1. pc \in [Tenants -> Setup \cup {"down", "connecting", "waiting", "serving", "cut off", "failed"}]
    BY DEF IInv, TypeOK
<1>2. ASSUME pc'[s] = pc[s], at'[s] = at[s], row'[s] = row[s] PROVE Work'[s] = Work[s]
    BY <1>2 DEF Work, PerTenant
<1>3. ASSUME pc'[s] \in {"down", "failed", "cut off"} PROVE Work'[s] = 0
    BY <1>3 DEF Work
<1>4. ASSUME NEW x \in Tenants, Launch(x) \/ Step(x) PROVE Work'[s] = Work[s]
    BY <1>2, <1>4, StepOfOne DEF IInv
<1>5. ASSUME NEW x \in Tenants, Kill(x) PROVE Work'[s] \in {Work[s], 0}
    <2>1. at' = at /\ row' = row /\ (pc'[s] = pc[s] \/ pc'[s] = "down")
        BY <1>1, <1>5 DEF Kill
    <2> QED
        BY <1>2, <1>3, <2>1
<1>6. ASSUME NEW d \in Databases, Shutdown(d) PROVE Work'[s] \in {Work[s], 0}
    <2>1. at' = at /\ row' = row /\ (pc'[s] = pc[s] \/ pc'[s] \in {"cut off", "failed"})
        BY <1>1, <1>6 DEF Shutdown
    <2> QED
        BY <1>2, <1>3, <2>1
<1>7. CASE (\E d \in Databases : Ready(d)) \/ Request \/ UNCHANGED vars
    <2>1. UNCHANGED <<pc, at, row>>
        BY <1>7 DEF Ready, Request, Login, QueryFails, ListEntries, FetchEntry, Serving, CutOff,
                    vars, service
    <2> QED
        BY <1>2, <2>1
<1> QED
    BY <1>4, <1>5, <1>6, <1>7 DEF Next

\* Every step of a service's start leaves it less to do, only starting it again gives
\* it more, and what others do leaves it as much or stops it: a setup is so many
\* statements long, whatever the databases and services around it do.  That it takes
\* those steps at all is what SetupEnds needs fairness for (common.py:54-88).
THEOREM SetupRunsOut ==
    Spec => /\ [](\A s \in Tenants : Work[s] \in Nat)
            /\ [][\A s \in Tenants : Step(s) => Work'[s] < Work[s]]_vars
            /\ [][\A s \in Tenants : Launch(s) \/ Step(s) \/ Work'[s] \in {Work[s], 0}]_vars
<1>1. IInv => \A s \in Tenants : Work[s] \in Nat
    BY WorkType
<1>2. IInv /\ [Next]_vars => [\A s \in Tenants : Step(s) => Work'[s] < Work[s]]_vars
    BY StepLowersWork
<1>3. IInv /\ [Next]_vars => [\A s \in Tenants : Launch(s) \/ Step(s) \/ Work'[s] \in {Work[s], 0}]_vars
    BY OthersLeaveWork
<1> QED
    BY <1>1, <1>2, <1>3, Invariance, PTL DEF Spec
=============================================================================
