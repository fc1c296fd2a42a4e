------------------------------ MODULE FlaskProofs ------------------------------
(***************************************************************************)
(* fixed/app.py, for any number of threads and users.                      *)
(*                                                                         *)
(* LoginLimit, for any limit: however the threads replace and extend each  *)
(* other's lists, whoever is refused has failed as often as the limit      *)
(* within the window; and a user whose requests do not overlap is held to  *)
(* the limit, whatever other users' requests do.                           *)
(*                                                                         *)
(* TaskApi: types, then the ids, then what each layer below it makes       *)
(* provable.                                                               *)
(***************************************************************************)
EXTENDS LoginLimit, TaskApi, FiniteSetTheorems, TLAPS

(***************************************************************************)
(* LoginLimit                                                              *)
(***************************************************************************)

\* A list belongs to one user, and whoever refers to it is about that user.
Belongs ==
    /\ \A k \in 1..Len(lists) : \A f \in lists[k].items : f.name = lists[k].name
    /\ \A u \in Names : failures[u] # Absent => lists[failures[u]].name = u
    /\ \A t \in Threads :
        /\ step[t] \in Busy => lists[recent[t]].name = name[t]
        /\ step[t] = "appending" => lists[held[t]].name = name[t]

\* The list a thread is about to count holds what is in its window, and whoever
\* appends to it took it from the dict after the copy was made.
Current ==
    \A t \in Threads : step[t] \in {"storing", "testing"} =>
        /\ \A f \in lists[recent[t]].items : f.at > began[t] - LOGIN_WINDOW_SECONDS
        /\ \A x \in Threads :
            step[x] = "appending" /\ held[x] = recent[t] => asked[x] >= began[t]

IInv == LimitTypeOK /\ IsFiniteSet(failed) /\ Belongs /\ Current /\ RefusedRightly

Item(F) == [name : Names, items : SUBSET F]

----------------------------------------------------------------------------
(* Sequences and windows. *)

LEMMA SeqGrows == ASSUME NEW A, NEW B, A \subseteq B, NEW s \in Seq(A) PROVE s \in Seq(B)
<1>1. Len(s) \in Nat /\ s \in [1..Len(s) -> A]
  OBVIOUS
<1> QED
  BY <1>1

LEMMA Appended ==
    ASSUME NEW A, NEW s \in Seq(A), NEW a \in A
    PROVE  /\ Append(s, a) \in Seq(A) /\ Len(Append(s, a)) = Len(s) + 1
           /\ \A k \in 1..Len(s) : Append(s, a)[k] = s[k]
           /\ Append(s, a)[Len(s) + 1] = a
OBVIOUS

\* The failures of a user in a window.
Against(F, u, end) == InWindow({f \in F : f.name = u}, end)

\* More failures do not make fewer in a window.
LEMMA WindowGrows ==
    ASSUME NEW F, NEW G, IsFiniteSet(G), F \subseteq G, NEW u, NEW end
    PROVE  /\ Cardinality(Against(F, u, end)) \in Nat
           /\ Cardinality(Against(G, u, end)) \in Nat
           /\ Cardinality(Against(F, u, end)) <= Cardinality(Against(G, u, end))
<1>1. Against(F, u, end) \subseteq Against(G, u, end) /\ Against(G, u, end) \subseteq G
  BY DEF Against, InWindow
<1>2. IsFiniteSet(Against(G, u, end))
  BY <1>1, FS_Subset
<1>3. /\ IsFiniteSet(Against(F, u, end))
      /\ Cardinality(Against(F, u, end)) <= Cardinality(Against(G, u, end))
  BY <1>1, <1>2, FS_Subset
<1> QED
  BY <1>2, <1>3, FS_CardinalityType

\* The lists, as facts about their elements.
LEMMA ListFacts ==
    ASSUME LimitTypeOK
    PROVE  /\ Len(lists) \in Nat /\ lists \in Seq(Item(failed))
           /\ \A k \in 1..Len(lists) : lists[k] \in Item(failed)
           /\ \A k \in 1..Len(lists) : lists[k].name \in Names /\ lists[k].items \subseteq failed
           /\ \A t \in Threads : step[t] \in Busy => recent[t] \in 1..Len(lists)
           /\ \A t \in Threads : step[t] = "appending" => held[t] \in 1..Len(lists)
           /\ \A u \in Names : failures[u] # Absent => failures[u] \in 1..Len(lists)
<1>1. Len(lists) \in Nat /\ lists \in Seq(Item(failed))
  BY DEF LimitTypeOK, Item
<1>2. \A k \in 1..Len(lists) : lists[k] \in Item(failed)
  BY <1>1
<1>3. \A t \in Threads : recent[t] \in 0..Len(lists) /\ held[t] \in 0..Len(lists)
  BY DEF LimitTypeOK
<1>4. \A u \in Names : failures[u] \in 0..Len(lists)
  BY DEF LimitTypeOK
<1>5. \A t \in Threads : /\ step[t] \in Busy => recent[t] # Absent
                         /\ step[t] = "appending" => held[t] # Absent
  BY DEF LimitTypeOK
<1>6. \A n \in 0..Len(lists) : n # Absent => n \in 1..Len(lists)
  BY <1>1 DEF Absent
<1> QED
  BY <1>1, <1>2, <1>3, <1>4, <1>5, <1>6 DEF Item

----------------------------------------------------------------------------
LEMMA InitIInv == LimitInit => IInv
<1> SUFFICES ASSUME LimitInit PROVE IInv
  OBVIOUS
<1> USE DEF LimitInit
<1>1. lists \in Seq(Item(failed)) /\ Len(lists) = 0
  OBVIOUS
<1>2. LimitTypeOK
  <2>1. lists \in Seq([name : Names, items : SUBSET failed])
    BY <1>1 DEF Item
  <2>2. failures \in [Names -> 0..Len(lists)]
    BY <1>1 DEF Absent
  <2>3. began \in [Threads -> 0..clock] /\ asked \in [Threads -> 0..clock]
    OBVIOUS
  <2>4. recent \in [Threads -> 0..Len(lists)] /\ held \in [Threads -> 0..Len(lists)]
    BY <1>1 DEF Absent
  <2>5. step \in [Threads -> Free \cup Busy] /\ \A t \in Threads : step[t] \notin Busy
    BY DEF Free, Busy
  <2>6. \A t \in Threads : step[t] # "appending"
    OBVIOUS
  <2> QED
    BY <2>1, <2>2, <2>3, <2>4, <2>5, <2>6 DEF LimitTypeOK
<1>3. IsFiniteSet(failed)
  BY FS_EmptySet
<1>4. Belongs
  BY <1>1 DEF Belongs, Busy
<1>5. Current /\ RefusedRightly
  BY DEF Current, RefusedRightly
<1> QED
  BY <1>2, <1>3, <1>4, <1>5 DEF IInv

\* Whoever was refused rightly stays so while its request is the same.
LEMMA StaysRefused ==
    ASSUME IInv, IsFiniteSet(failed'), failed \subseteq failed',
           \A x \in Threads : step'[x] = "429" =>
                step[x] = "429" /\ name'[x] = name[x] /\ began'[x] = began[x]
    PROVE  RefusedRightly'
<1> SUFFICES ASSUME NEW x \in Threads, step'[x] = "429"
             PROVE  Cardinality(Against(failed', name'[x], began'[x])) >= LOGIN_MAX_ATTEMPTS
  BY DEF RefusedRightly, Against, InWindow
<1>1. step[x] = "429" /\ name'[x] = name[x] /\ began'[x] = began[x]
  OBVIOUS
<1>2. Cardinality(Against(failed, name[x], began[x])) >= LOGIN_MAX_ATTEMPTS
  BY <1>1 DEF IInv, RefusedRightly, Against
<1>3. PICK F, G, u, e : F = failed /\ G = failed' /\ u = name[x] /\ e = began[x]
  OBVIOUS
<1>4. /\ Cardinality(Against(F, u, e)) \in Nat /\ Cardinality(Against(G, u, e)) \in Nat
      /\ Cardinality(Against(F, u, e)) <= Cardinality(Against(G, u, e))
  <2>1. IsFiniteSet(G) /\ F \subseteq G
    BY <1>3
  <2> QED
    BY <2>1, WindowGrows
<1>5. Cardinality(Against(F, u, e)) >= LOGIN_MAX_ATTEMPTS /\ LOGIN_MAX_ATTEMPTS \in Nat
  BY <1>2, <1>3, LimitsAssumption
<1>6. Cardinality(Against(G, u, e)) >= LOGIN_MAX_ATTEMPTS
  BY <1>4, <1>5
<1> QED
  BY <1>1, <1>3, <1>6

----------------------------------------------------------------------------
(* One step per action. *)

\* A copy is a new list, of what is recent.
LEMMA CopyStep == ASSUME IInv, NEW t \in Threads, NEW u \in Names, Copy(t, u) PROVE IInv'
<1> USE DEF Copy
<1>0. LimitTypeOK /\ IsFiniteSet(failed) /\ Belongs /\ Current
  BY DEF IInv
<1> PICK l : l = [name |-> u, items |-> Recent(u)]
  OBVIOUS
<1>1. /\ l \in Item(failed) /\ l.name = u
      /\ \A f \in l.items : f.name = u /\ f.at > clock - LOGIN_WINDOW_SECONDS
  <2>1. Recent(u) \subseteq Items(u) /\ \A f \in Recent(u) : f.at > clock - LOGIN_WINDOW_SECONDS
    BY DEF Recent, InWindow
  <2>2. Items(u) \subseteq failed /\ \A f \in Items(u) : f.name = u
    BY <1>0, ListFacts DEF Items, Belongs, Absent
  <2> QED
    BY <2>1, <2>2 DEF Item
<1>2. /\ lists' \in Seq(Item(failed)) /\ Len(lists') = Len(lists) + 1
      /\ \A k \in 1..Len(lists) : lists'[k] = lists[k]
      /\ lists'[Len(lists) + 1] = l
  BY <1>0, <1>1, ListFacts, Appended
<1>3. Len(lists) \in Nat /\ \A k \in 1..Len(lists') : k \in 1..Len(lists) \/ k = Len(lists) + 1
  BY <1>0, <1>2, ListFacts
<1>4. /\ step'[t] = "storing" /\ name'[t] = u /\ began'[t] = clock /\ recent'[t] = Len(lists) + 1
      /\ \A x \in Threads \ {t} : /\ step'[x] = step[x] /\ name'[x] = name[x]
                                  /\ began'[x] = began[x] /\ recent'[x] = recent[x]
  BY <1>0 DEF LimitTypeOK
<1>5. LimitTypeOK'
  <2>1. lists' \in Seq([name : Names, items : SUBSET failed'])
    BY <1>2 DEF Item
  <2>2. failures' \in [Names -> 0..Len(lists')] /\ held' \in [Threads -> 0..Len(lists')]
    BY <1>0, <1>2, <1>3 DEF LimitTypeOK
  <2>3. recent' \in [Threads -> 0..Len(lists')]
    BY <1>0, <1>2, <1>3 DEF LimitTypeOK
  <2>4. began' \in [Threads -> 0..clock'] /\ asked' \in [Threads -> 0..clock']
    BY <1>0 DEF LimitTypeOK
  <2>5. step' \in [Threads -> Free \cup Busy] /\ name' \in [Threads -> Names]
    BY <1>0 DEF LimitTypeOK, Busy
  <2>6. attempts' \in Nat /\ overlapped' \subseteq Names
    BY <1>0 DEF LimitTypeOK
  <2>7. \A x \in Threads : /\ step'[x] \in Busy => recent'[x] # Absent
                           /\ step'[x] = "appending" => held'[x] # Absent
    BY <1>0, <1>3, <1>4 DEF LimitTypeOK, Absent
  <2> QED
    BY <1>0, <2>1, <2>2, <2>3, <2>4, <2>5, <2>6, <2>7 DEF LimitTypeOK
<1>6. Belongs'
  <2>1. ASSUME NEW k \in 1..Len(lists') PROVE \A f \in lists'[k].items : f.name = lists'[k].name
    <3>1. CASE k \in 1..Len(lists)
      BY <1>0, <1>2, <3>1 DEF Belongs
    <3>2. CASE k = Len(lists) + 1
      BY <1>1, <1>2, <3>2
    <3> QED
      BY <1>3, <3>1, <3>2
  <2>2. \A v \in Names : failures'[v] # Absent => lists'[failures'[v]].name = v
    BY <1>0, <1>2, ListFacts DEF Belongs
  <2>3. ASSUME NEW x \in Threads
        PROVE  /\ step'[x] \in Busy => lists'[recent'[x]].name = name'[x]
               /\ step'[x] = "appending" => lists'[held'[x]].name = name'[x]
    <3>1. CASE x = t
      BY <1>1, <1>2, <1>4, <3>1
    <3>2. CASE x # t
      BY <1>0, <1>2, <1>4, <3>2, ListFacts DEF Belongs
    <3> QED
      BY <3>1, <3>2
  <2> QED
    BY <2>1, <2>2, <2>3 DEF Belongs
<1>7. Current'
  <2> SUFFICES ASSUME NEW x \in Threads, step'[x] \in {"storing", "testing"}
               PROVE  /\ \A f \in lists'[recent'[x]].items : f.at > began'[x] - LOGIN_WINDOW_SECONDS
                      /\ \A y \in Threads :
                           step'[y] = "appending" /\ held'[y] = recent'[x] => asked'[y] >= began'[x]
    BY DEF Current
  <2>1. CASE x = t
    <3>1. \A y \in Threads : step'[y] = "appending" => held'[y] # Len(lists) + 1
      BY <1>0, <1>3, <1>4, ListFacts
    <3> QED
      BY <1>1, <1>2, <1>4, <2>1, <3>1
  <2>2. CASE x # t
    <3>1. lists'[recent'[x]] = lists[recent[x]]
      BY <1>0, <1>2, <1>4, <2>2, ListFacts DEF Busy
    <3>2. \A y \in Threads : step'[y] = "appending" => step[y] = "appending"
      BY <1>4
    <3> QED
      BY <1>0, <1>4, <2>2, <3>1, <3>2 DEF Current
  <2> QED
    BY <2>1, <2>2
<1>8. RefusedRightly'
  BY <1>0, <1>4, StaysRefused
<1> QED
  BY <1>0, <1>5, <1>6, <1>7, <1>8 DEF IInv

\* Putting a list into the dict changes nothing of whose it is.
LEMMA StoreStep == ASSUME IInv, NEW t \in Threads, Store(t) PROVE IInv'
<1> USE DEF Store, Moves, history
<1>0. LimitTypeOK /\ IsFiniteSet(failed) /\ Belongs /\ Current
  BY DEF IInv
<1>1. /\ step[t] = "storing" /\ step'[t] = "testing"
      /\ \A x \in Threads \ {t} : step'[x] = step[x]
  BY <1>0 DEF LimitTypeOK
<1>2. recent[t] \in 1..Len(lists) /\ lists[recent[t]].name = name[t] /\ name[t] \in Names
  BY <1>0, <1>1, ListFacts DEF Busy, Belongs, LimitTypeOK
<1>3. LimitTypeOK'
  <2>1. failures' \in [Names -> 0..Len(lists')]
    BY <1>0, <1>2 DEF LimitTypeOK
  <2>2. step' \in [Threads -> Free \cup Busy]
    BY <1>0 DEF LimitTypeOK, Busy
  <2>3. \A x \in Threads : /\ step'[x] \in Busy => recent'[x] # Absent
                           /\ step'[x] = "appending" => held'[x] # Absent
    BY <1>0, <1>1 DEF LimitTypeOK, Busy
  <2> QED
    BY <1>0, <2>1, <2>2, <2>3 DEF LimitTypeOK
<1>4. Belongs'
  <2>1. \A v \in Names : failures'[v] # Absent => lists[failures'[v]].name = v
    BY <1>0, <1>2 DEF Belongs, LimitTypeOK
  <2> QED
    BY <1>0, <1>1, <2>1 DEF Belongs, Busy
<1>5. Current'
  BY <1>0, <1>1 DEF Current
<1>6. RefusedRightly'
  BY <1>0, <1>1, StaysRefused
<1> QED
  BY <1>0, <1>3, <1>4, <1>5, <1>6 DEF IInv

\* A refusal counts no more than the failures in the window.
LEMMA TestStep == ASSUME IInv, NEW t \in Threads, Test(t) PROVE IInv'
<1> USE DEF Test, Moves, history
<1>0. LimitTypeOK /\ IsFiniteSet(failed) /\ Belongs /\ Current /\ RefusedRightly
  BY DEF IInv
<1>1. /\ step[t] = "testing" /\ step'[t] \in {"429", "checking"}
      /\ \A x \in Threads \ {t} : step'[x] = step[x]
      /\ step'[t] = "429" => Cardinality(lists[recent[t]].items) >= LOGIN_MAX_ATTEMPTS
  BY <1>0 DEF LimitTypeOK
<1>2. recent[t] \in 1..Len(lists) /\ lists[recent[t]].name = name[t]
  BY <1>0, <1>1, ListFacts DEF Busy, Belongs
<1>3. lists[recent[t]].items \subseteq Against(failed, name[t], began[t])
  <2>1. lists[recent[t]].items \subseteq failed
    BY <1>0, <1>2, ListFacts
  <2>2. \A f \in lists[recent[t]].items : f.name = name[t]
    BY <1>0, <1>2 DEF Belongs
  <2>3. \A f \in lists[recent[t]].items : f.at > began[t] - LOGIN_WINDOW_SECONDS
    BY <1>0, <1>1 DEF Current
  <2> QED
    BY <2>1, <2>2, <2>3 DEF Against, InWindow
<1>4. Cardinality(lists[recent[t]].items) <= Cardinality(Against(failed, name[t], began[t]))
  <2>1. IsFiniteSet(Against(failed, name[t], began[t]))
    BY <1>0, FS_Subset DEF Against, InWindow
  <2> QED
    BY <1>3, <2>1, FS_Subset
<1>5. step'[t] = "429" => Cardinality(Against(failed, name[t], began[t])) >= LOGIN_MAX_ATTEMPTS
  <2>1. /\ IsFiniteSet(Against(failed, name[t], began[t]))
        /\ IsFiniteSet(lists[recent[t]].items)
    BY <1>0, <1>3, FS_Subset DEF Against, InWindow
  <2>2. /\ Cardinality(Against(failed, name[t], began[t])) \in Nat
        /\ Cardinality(lists[recent[t]].items) \in Nat
    BY <2>1, FS_CardinalityType
  <2> QED
    BY <1>1, <1>4, <2>2, LimitsAssumption
<1>6. LimitTypeOK'
  <2>1. step' \in [Threads -> Free \cup Busy]
    BY <1>0 DEF LimitTypeOK, Busy, Free
  <2>2. \A x \in Threads : /\ step'[x] \in Busy => recent'[x] # Absent
                           /\ step'[x] = "appending" => held'[x] # Absent
    BY <1>0, <1>1 DEF LimitTypeOK, Busy
  <2> QED
    BY <1>0, <2>1, <2>2 DEF LimitTypeOK
<1>7. Belongs'
  BY <1>0, <1>1 DEF Belongs, Busy
<1>8. Current'
  BY <1>0, <1>1 DEF Current
<1>9. RefusedRightly'
  <2> SUFFICES ASSUME NEW x \in Threads, step'[x] = "429"
               PROVE  Cardinality(Against(failed, name[x], began[x])) >= LOGIN_MAX_ATTEMPTS
    BY DEF RefusedRightly, Against, InWindow
  <2>1. CASE x = t
    BY <1>5, <2>1
  <2>2. CASE x # t
    BY <1>0, <1>1, <2>2 DEF RefusedRightly, Against
  <2> QED
    BY <2>1, <2>2
<1> QED
  BY <1>0, <1>6, <1>7, <1>8, <1>9 DEF IInv

\* A success takes a list out of the dict, and no thread's hands.
LEMMA SucceedStep == ASSUME IInv, NEW t \in Threads, Succeed(t) PROVE IInv'
<1> USE DEF Succeed, Moves
<1>0. LimitTypeOK /\ IsFiniteSet(failed) /\ Belongs /\ Current
  BY DEF IInv
<1>1. /\ step[t] = "checking" /\ step'[t] = "200"
      /\ \A x \in Threads \ {t} : step'[x] = step[x]
  BY <1>0 DEF LimitTypeOK
<1>2. \A v \in Names : failures'[v] = failures[v] \/ failures'[v] = Absent
  BY <1>0 DEF LimitTypeOK
<1>3. LimitTypeOK'
  <2>1. failures' \in [Names -> 0..Len(lists')] /\ since' \in [Names -> SUBSET failed']
    BY <1>0, ListFacts DEF LimitTypeOK, Absent
  <2>2. step' \in [Threads -> Free \cup Busy]
    BY <1>0 DEF LimitTypeOK, Free
  <2>3. \A x \in Threads : /\ step'[x] \in Busy => recent'[x] # Absent
                           /\ step'[x] = "appending" => held'[x] # Absent
    BY <1>0, <1>1 DEF LimitTypeOK, Busy
  <2> QED
    BY <1>0, <2>1, <2>2, <2>3 DEF LimitTypeOK
<1>4. Belongs'
  BY <1>0, <1>1, <1>2 DEF Belongs, Busy
<1>5. Current'
  BY <1>0, <1>1 DEF Current
<1>6. RefusedRightly'
  BY <1>0, <1>1, StaysRefused
<1> QED
  BY <1>0, <1>3, <1>4, <1>5, <1>6 DEF IInv

\* Whoever takes a list to append to takes it now, after every copy there is.
LEMMA TakeListStep == ASSUME IInv, NEW t \in Threads, TakeList(t) PROVE IInv'
<1> USE DEF TakeList, Moves, history
<1>0. LimitTypeOK /\ IsFiniteSet(failed) /\ Belongs /\ Current
  BY DEF IInv
<1>1. /\ step[t] = "checking" /\ step'[t] = "appending" /\ asked'[t] = clock
      /\ \A x \in Threads \ {t} : step'[x] = step[x] /\ asked'[x] = asked[x] /\ held'[x] = held[x]
  BY <1>0 DEF LimitTypeOK
<1>2. name[t] \in Names /\ failures[name[t]] \in 0..Len(lists) /\ Len(lists) \in Nat
  BY <1>0, ListFacts DEF LimitTypeOK
\* What both cases have in common.
<1>3. /\ lists' \in Seq(Item(failed)) /\ Len(lists') \in Nat /\ Len(lists) <= Len(lists')
      /\ \A k \in 1..Len(lists) : lists'[k] = lists[k]
      /\ \A k \in 1..Len(lists') : \A f \in lists'[k].items : f.name = lists'[k].name
      /\ failures' \in [Names -> 0..Len(lists')]
      /\ \A v \in Names : failures'[v] # Absent => lists'[failures'[v]].name = v
      /\ held'[t] \in 1..Len(lists') /\ lists'[held'[t]].name = name[t]
  <2>1. CASE failures[name[t]] = Absent
    <3> PICK l : l = [name |-> name[t], items |-> {}]
      OBVIOUS
    <3>1. l \in Item(failed) /\ l.name = name[t] /\ l.items = {}
      BY <1>2 DEF Item
    <3>2. /\ lists' \in Seq(Item(failed)) /\ Len(lists') = Len(lists) + 1
          /\ \A k \in 1..Len(lists) : lists'[k] = lists[k]
          /\ lists'[Len(lists) + 1] = l
      <4>1. lists' = Append(lists, l) /\ lists \in Seq(Item(failed))
        BY <1>0, <2>1, ListFacts
      <4> QED
        BY <3>1, <4>1, Appended
    <3>3. \A k \in 1..Len(lists') : k \in 1..Len(lists) \/ k = Len(lists) + 1
      BY <1>2, <3>2
    <3>4. \A k \in 1..Len(lists') : \A f \in lists'[k].items : f.name = lists'[k].name
      BY <1>0, <3>1, <3>2, <3>3 DEF Belongs
    <3>5. failures' \in [Names -> 0..Len(lists')]
      <4>1. failures' = [failures EXCEPT ![name[t]] = Len(lists) + 1]
        BY <2>1
      <4>2. failures \in [Names -> 0..Len(lists')] /\ Len(lists) + 1 \in 0..Len(lists')
        BY <1>0, <1>2, <3>2 DEF LimitTypeOK
      <4> QED
        BY <4>1, <4>2
    <3>6. failures'[name[t]] = Len(lists) + 1 /\ \A v \in Names \ {name[t]} : failures'[v] = failures[v]
      BY <1>0, <1>2, <2>1 DEF LimitTypeOK
    <3>7. \A v \in Names : failures'[v] # Absent => lists'[failures'[v]].name = v
      BY <1>0, <3>1, <3>2, <3>6, ListFacts DEF Belongs
    <3>8. held'[t] = Len(lists) + 1
      BY <1>0, <2>1 DEF LimitTypeOK
    <3> QED
      BY <1>2, <3>1, <3>2, <3>4, <3>5, <3>7, <3>8
  <2>2. CASE failures[name[t]] # Absent
    <3>1. lists' = lists /\ failures' = failures /\ held'[t] = failures[name[t]]
      BY <1>0, <2>2 DEF LimitTypeOK
    <3>2. held'[t] \in 1..Len(lists) /\ lists[held'[t]].name = name[t]
      BY <1>0, <1>2, <2>2, <3>1, ListFacts DEF Belongs
    <3>3. lists \in Seq(Item(failed)) /\ failures \in [Names -> 0..Len(lists)]
      BY <1>0, ListFacts DEF LimitTypeOK
    <3> QED
      BY <1>0, <1>2, <3>1, <3>2, <3>3 DEF Belongs
  <2> QED
    BY <2>1, <2>2
<1>4. LimitTypeOK'
  <2>1. lists' \in Seq([name : Names, items : SUBSET failed'])
    BY <1>3 DEF Item
  <2>2. recent' \in [Threads -> 0..Len(lists')]
    BY <1>0, <1>2, <1>3 DEF LimitTypeOK
  <2>3. held' \in [Threads -> 0..Len(lists')]
    <3>1. held \in [Threads -> 0..Len(lists')]
      BY <1>0, <1>2, <1>3 DEF LimitTypeOK
    <3>2. held'[t] \in 0..Len(lists')
      BY <1>3
    <3>3. \/ held' = [held EXCEPT ![t] = Len(lists) + 1]
          \/ held' = [held EXCEPT ![t] = failures[name[t]]]
      OBVIOUS
    <3>4. DOMAIN held' = Threads /\ \A x \in Threads : held'[x] \in 0..Len(lists')
      BY <1>1, <3>1, <3>2, <3>3
    <3> QED
      BY <3>1, <3>3, <3>4
  <2>4. asked' \in [Threads -> 0..clock']
    BY <1>0 DEF LimitTypeOK
  <2>5. step' \in [Threads -> Free \cup Busy]
    BY <1>0 DEF LimitTypeOK, Busy
  <2>6. \A x \in Threads : /\ step'[x] \in Busy => recent'[x] # Absent
                           /\ step'[x] = "appending" => held'[x] # Absent
    <3>1. held'[t] # Absent
      BY <1>3 DEF Absent
    <3> QED
      BY <1>0, <1>1, <3>1 DEF LimitTypeOK, Busy
  <2> QED
    BY <1>0, <1>3, <2>1, <2>2, <2>3, <2>4, <2>5, <2>6 DEF LimitTypeOK
<1>5. Belongs'
  <2>1. ASSUME NEW x \in Threads
        PROVE  /\ step'[x] \in Busy => lists'[recent'[x]].name = name'[x]
               /\ step'[x] = "appending" => lists'[held'[x]].name = name'[x]
    <3>1. step'[x] \in Busy => lists'[recent'[x]].name = name'[x]
      BY <1>0, <1>1, <1>3, ListFacts DEF Belongs, Busy
    <3>2. step'[x] = "appending" => lists'[held'[x]].name = name'[x]
      BY <1>0, <1>1, <1>3, ListFacts DEF Belongs
    <3> QED
      BY <3>1, <3>2
  <2> QED
    BY <1>3, <2>1 DEF Belongs
<1>6. Current'
  <2> SUFFICES ASSUME NEW x \in Threads, step'[x] \in {"storing", "testing"}
               PROVE  /\ \A f \in lists'[recent'[x]].items : f.at > began'[x] - LOGIN_WINDOW_SECONDS
                      /\ \A y \in Threads :
                           step'[y] = "appending" /\ held'[y] = recent'[x] => asked'[y] >= began'[x]
    BY DEF Current
  <2>1. step[x] \in {"storing", "testing"} /\ step[x] \in Busy
    BY <1>1 DEF Busy
  <2>2. lists'[recent'[x]] = lists[recent[x]]
    BY <1>0, <1>3, <2>1, ListFacts
  <2>3. began[x] \in 0..clock /\ clock \in Nat
    BY <1>0 DEF LimitTypeOK
  <2>4. asked'[t] >= began[x]
    BY <1>1, <2>3
  <2> QED
    BY <1>0, <1>1, <2>1, <2>2, <2>4 DEF Current
<1>7. RefusedRightly'
  BY <1>0, <1>1, StaysRefused
<1> QED
  BY <1>0, <1>4, <1>5, <1>6, <1>7 DEF IInv

\* A failure goes to a list of its user, with a time no thread about to count
\* that list has yet left behind.
LEMMA AppendStep == ASSUME IInv, NEW t \in Threads, AppendFailure(t) PROVE IInv'
<1>0. LimitTypeOK /\ IsFiniteSet(failed) /\ Belongs /\ Current
  BY DEF IInv
<1> PICK at \in asked[t]..clock :
      LET f == [n |-> attempts, thread |-> t, name |-> name[t], at |-> at]
      IN  /\ Moves(t, "appending", "401")
          /\ lists' = [lists EXCEPT ![held[t]].items = @ \cup {f}]
          /\ failed' = failed \cup {f}
          /\ since' = [since EXCEPT ![name[t]] = @ \cup {f}]
          /\ UNCHANGED <<clock, failures, name, began, recent, held, asked, attempts, overlapped>>
  BY DEF AppendFailure
<1> PICK f : f = [n |-> attempts, thread |-> t, name |-> name[t], at |-> at]
  OBVIOUS
<1>1. /\ step[t] = "appending" /\ step'[t] = "401" /\ step' = [step EXCEPT ![t] = "401"]
      /\ \A x \in Threads \ {t} : step'[x] = step[x]
  BY <1>0 DEF LimitTypeOK, Moves
<1>2. /\ lists' = [lists EXCEPT ![held[t]].items = @ \cup {f}]
      /\ failed' = failed \cup {f}
      /\ since' = [since EXCEPT ![name[t]] = @ \cup {f}]
      /\ UNCHANGED <<clock, failures, name, began, recent, held, asked, attempts, overlapped>>
  OBVIOUS
<1>3. held[t] \in 1..Len(lists) /\ lists[held[t]].name = name[t] /\ Len(lists) \in Nat
  BY <1>0, <1>1, ListFacts DEF Belongs
<1>4. asked[t] \in Nat /\ clock \in Nat /\ at \in Nat /\ at >= asked[t]
  BY <1>0 DEF LimitTypeOK
<1>5. f \in Failure /\ f.name = name[t] /\ f.at = at
  BY <1>0, <1>4 DEF LimitTypeOK, Failure
<1>6. failed \subseteq failed' /\ IsFiniteSet(failed')
  BY <1>0, <1>2, FS_AddElement
<1>7. /\ lists' \in Seq(Item(failed')) /\ Len(lists') = Len(lists)
      /\ \A k \in 1..Len(lists) : k # held[t] => lists'[k] = lists[k]
      /\ lists'[held[t]].items = lists[held[t]].items \cup {f}
      /\ lists'[held[t]].name = name[t]
  <2>1. Item(failed) \subseteq Item(failed')
    BY <1>6 DEF Item
  <2>2. lists \in Seq(Item(failed'))
    BY <1>0, <2>1, ListFacts, SeqGrows
  <2>3. lists[held[t]] \in Item(failed)
    BY <1>0, <1>3, ListFacts
  <2> PICK l : l = [lists[held[t]] EXCEPT !.items = @ \cup {f}]
    OBVIOUS
  <2>4. /\ l \in Item(failed') /\ l.name = name[t]
        /\ l.items = lists[held[t]].items \cup {f}
    BY <1>2, <1>3, <2>3 DEF Item
  <2>5. lists' = [lists EXCEPT ![held[t]] = l]
    BY <1>2
  <2>6. lists' \in Seq(Item(failed')) /\ Len(lists') = Len(lists)
    BY <1>3, <2>2, <2>4, <2>5
  <2>7. lists'[held[t]] = l /\ \A k \in 1..Len(lists) : k # held[t] => lists'[k] = lists[k]
    <3>1. DOMAIN lists = 1..Len(lists)
      BY <2>2
    <3> QED
      BY <1>3, <2>5, <3>1
  <2> QED
    BY <2>4, <2>6, <2>7
\* Lists keep their names.
<1>8. \A k \in 1..Len(lists) : lists'[k].name = lists[k].name
  BY <1>3, <1>7
<1>9. LimitTypeOK'
  <2>1. lists' \in Seq([name : Names, items : SUBSET failed'])
    BY <1>7 DEF Item
  <2>2. failed' \subseteq Failure
    BY <1>0, <1>2, <1>5 DEF LimitTypeOK
  <2>3. since' \in [Names -> SUBSET failed']
    <3>1. since \in [Names -> SUBSET failed'] /\ f \in failed'
      BY <1>0, <1>2, <1>6 DEF LimitTypeOK
    <3> QED
      BY <1>2, <3>1
  <2>4. step' \in [Threads -> Free \cup Busy]
    BY <1>0, <1>1 DEF LimitTypeOK, Free
  <2>5. \A x \in Threads : /\ step'[x] \in Busy => recent'[x] # Absent
                           /\ step'[x] = "appending" => held'[x] # Absent
    BY <1>0, <1>1, <1>2 DEF LimitTypeOK, Busy
  <2>6. /\ failures' \in [Names -> 0..Len(lists')]
        /\ recent' \in [Threads -> 0..Len(lists')] /\ held' \in [Threads -> 0..Len(lists')]
    BY <1>0, <1>2, <1>7 DEF LimitTypeOK
  <2>7. /\ clock' \in Nat /\ attempts' \in Nat /\ name' \in [Threads -> Names]
        /\ began' \in [Threads -> 0..clock'] /\ asked' \in [Threads -> 0..clock']
        /\ overlapped' \subseteq Names
    BY <1>0, <1>2 DEF LimitTypeOK
  <2> QED
    BY <2>1, <2>2, <2>3, <2>4, <2>5, <2>6, <2>7 DEF LimitTypeOK
<1>10. Belongs'
  <2>1. ASSUME NEW k \in 1..Len(lists') PROVE \A g \in lists'[k].items : g.name = lists'[k].name
    <3>1. CASE k = held[t]
      BY <1>0, <1>3, <1>5, <1>7, <3>1 DEF Belongs
    <3>2. CASE k # held[t]
      BY <1>0, <1>7, <3>2 DEF Belongs
    <3> QED
      BY <3>1, <3>2
  <2>2. \A v \in Names : failures'[v] # Absent => lists'[failures'[v]].name = v
    BY <1>0, <1>2, <1>8, ListFacts DEF Belongs
  <2>3. ASSUME NEW x \in Threads
        PROVE  /\ step'[x] \in Busy => lists'[recent'[x]].name = name'[x]
               /\ step'[x] = "appending" => lists'[held'[x]].name = name'[x]
    <3>1. CASE x = t
      BY <1>1, <3>1 DEF Busy
    <3>2. CASE x # t
      BY <1>0, <1>1, <1>2, <1>8, <3>2, ListFacts DEF Belongs
    <3> QED
      BY <3>1, <3>2
  <2> QED
    BY <2>1, <2>2, <2>3 DEF Belongs
<1>11. Current'
  <2> SUFFICES ASSUME NEW x \in Threads, step'[x] \in {"storing", "testing"}
               PROVE  /\ \A g \in lists'[recent'[x]].items : g.at > began'[x] - LOGIN_WINDOW_SECONDS
                      /\ \A y \in Threads :
                           step'[y] = "appending" /\ held'[y] = recent'[x] => asked'[y] >= began'[x]
    BY DEF Current
  <2>1. x # t /\ step[x] \in {"storing", "testing"} /\ step[x] \in Busy
    BY <1>1 DEF Busy
  <2>2. recent[x] \in 1..Len(lists) /\ began[x] \in Nat
    BY <1>0, <1>4, <2>1, ListFacts DEF LimitTypeOK
  <2>3. \A g \in lists[recent[x]].items : g.at > began[x] - LOGIN_WINDOW_SECONDS
    BY <1>0, <2>1 DEF Current
  <2>4. held[t] = recent[x] => f.at > began[x] - LOGIN_WINDOW_SECONDS
    <3>1. held[t] = recent[x] => asked[t] >= began[x]
      BY <1>0, <1>1, <2>1 DEF Current
    <3> QED
      BY <1>4, <1>5, <2>2, <3>1, LimitsAssumption
  <2>5. \A g \in lists'[recent[x]].items : g.at > began[x] - LOGIN_WINDOW_SECONDS
    <3>1. CASE held[t] = recent[x]
      BY <1>7, <2>3, <2>4, <3>1
    <3>2. CASE held[t] # recent[x]
      BY <1>7, <2>2, <2>3, <3>2
    <3> QED
      BY <3>1, <3>2
  <2>6. \A y \in Threads : step'[y] = "appending" => step[y] = "appending"
    BY <1>1
  <2> QED
    BY <1>0, <1>2, <2>1, <2>5, <2>6 DEF Current
<1>12. RefusedRightly'
  BY <1>1, <1>2, <1>6, StaysRefused
<1> QED
  BY <1>6, <1>9, <1>10, <1>11, <1>12 DEF IInv

\* Time only moves on.
LEMMA TickStep == ASSUME IInv, Tick PROVE IInv'
<1> USE DEF Tick, thread, history
<1>0. LimitTypeOK /\ IsFiniteSet(failed) /\ Belongs /\ Current /\ RefusedRightly
  BY DEF IInv
<1>1. LimitTypeOK'
  <2>1. clock' \in Nat /\ 0..clock \subseteq 0..clock'
    BY <1>0 DEF LimitTypeOK
  <2>2. began' \in [Threads -> 0..clock'] /\ asked' \in [Threads -> 0..clock']
    BY <1>0, <2>1 DEF LimitTypeOK
  <2> QED
    BY <1>0, <2>1, <2>2 DEF LimitTypeOK
<1>2. Belongs' /\ Current'
  BY <1>0 DEF Belongs, Current
<1>3. RefusedRightly'
  BY <1>0 DEF RefusedRightly, InWindow
<1> QED
  BY <1>0, <1>1, <1>2, <1>3 DEF IInv

\* Whatever the threads do, the invariant is kept.
LEMMA NextIInv == IInv /\ [LimitNext]_limitVars => IInv'
<1> SUFFICES ASSUME IInv, [LimitNext]_limitVars PROVE IInv'
  OBVIOUS
<1>1. ASSUME NEW t \in Threads, NEW u \in Names, Copy(t, u) PROVE IInv'
  BY <1>1, CopyStep
<1>2. ASSUME NEW t \in Threads, Store(t) PROVE IInv'
  BY <1>2, StoreStep
<1>3. ASSUME NEW t \in Threads, Test(t) PROVE IInv'
  BY <1>3, TestStep
<1>4. ASSUME NEW t \in Threads, Succeed(t) PROVE IInv'
  BY <1>4, SucceedStep
<1>5. ASSUME NEW t \in Threads, TakeList(t) PROVE IInv'
  BY <1>5, TakeListStep
<1>6. ASSUME NEW t \in Threads, AppendFailure(t) PROVE IInv'
  BY <1>6, AppendStep
<1>7. CASE Tick
  BY <1>7, TickStep
<1>8. CASE UNCHANGED limitVars
  BY <1>8 DEF limitVars, thread, history, IInv, LimitTypeOK, Belongs, Current, RefusedRightly, InWindow
<1> QED
  BY <1>1, <1>2, <1>3, <1>4, <1>5, <1>6, <1>7, <1>8 DEF LimitNext

----------------------------------------------------------------------------
(* A user whose requests come one after another. *)

About(t, u) == step[t] \in Busy /\ name[t] = u

\* What is counted of u is what failed since the last success, and all of it
\* that is recent.
Keeps(F, u, end) == InWindow(since[u], end) \subseteq F /\ F \subseteq since[u]

\* The one request about u: nothing has failed since it began, its list holds
\* what counts, and once it has passed the test there is room for its failure.
Pending(t, u) ==
    /\ \A g \in since[u] : g.at <= began[t]
    /\ Keeps(IF step[t] = "storing" THEN lists[recent[t]].items ELSE Items(u), u, began[t])
    /\ step[t] = "testing" => failures[u] = recent[t]
    /\ step[t] \in {"checking", "appending"} => Cardinality(Items(u)) < LOGIN_MAX_ATTEMPTS
    /\ step[t] = "appending" => held[t] = failures[u] /\ began[t] <= asked[t]

QuietUser(u) ==
    /\ \A t, x \in Threads : About(t, u) /\ About(x, u) => t = x
    /\ (\A t \in Threads : ~About(t, u)) => Keeps(Items(u), u, clock)
    /\ \A t \in Threads : About(t, u) => Pending(t, u)
    /\ Limited(u)

QuietInv ==
    /\ \A f \in failed : f.at <= clock
    /\ \A u \in Names : u \notin overlapped => QuietUser(u)

Step(t) == Store(t) \/ Test(t) \/ Succeed(t) \/ TakeList(t) \/ AppendFailure(t)

LEMMA InitQuiet == LimitInit => QuietInv
BY DEF LimitInit, QuietInv, QuietUser, About, Busy, Keeps, Items, InWindow, Limited, Absent

\* Whoever takes a step is about its user, and nobody else's state changes.
LEMMA StepOfOne ==
    ASSUME IInv, NEW t \in Threads, Step(t)
    PROVE  /\ step[t] \in Busy /\ clock' = clock /\ name' = name /\ began' = began
           /\ recent' = recent /\ overlapped' = overlapped
           /\ \A x \in Threads \ {t} : step'[x] = step[x] /\ held'[x] = held[x] /\ asked'[x] = asked[x]
           /\ \A u \in Names \ {name[t]} : since'[u] = since[u] /\ failures'[u] = failures[u]
<1>0. LimitTypeOK
  BY DEF IInv
<1>1. CASE Store(t)
  BY <1>0, <1>1 DEF Store, Moves, LimitTypeOK, Busy, history
<1>2. CASE Test(t)
  BY <1>0, <1>2 DEF Test, Moves, LimitTypeOK, Busy, history
<1>3. CASE Succeed(t)
  BY <1>0, <1>3 DEF Succeed, Moves, LimitTypeOK, Busy, history
<1>4. CASE TakeList(t)
  <2>1. failures' = failures \/ failures' = [failures EXCEPT ![name[t]] = Len(lists) + 1]
    BY <1>4 DEF TakeList
  <2>2. \A u \in Names \ {name[t]} : failures'[u] = failures[u]
    BY <1>0, <2>1 DEF LimitTypeOK
  <2>3. \A x \in Threads \ {t} : held'[x] = held[x] /\ asked'[x] = asked[x]
    BY <1>0, <1>4 DEF TakeList, LimitTypeOK
  <2> QED
    BY <1>0, <1>4, <2>2, <2>3 DEF TakeList, Moves, LimitTypeOK, Busy, history
<1>5. CASE AppendFailure(t)
  BY <1>0, <1>5 DEF AppendFailure, Moves, LimitTypeOK, Busy
<1> QED
  BY <1>1, <1>2, <1>3, <1>4, <1>5 DEF Step

\* The lists of other users stay as they are.
LEMMA OtherLists ==
    ASSUME IInv, NEW t \in Threads, Step(t), NEW k \in 1..Len(lists), lists[k].name # name[t]
    PROVE  lists'[k] = lists[k]
<1>0. LimitTypeOK /\ Belongs
  BY DEF IInv
<1>1. CASE Store(t) \/ Test(t) \/ Succeed(t)
  BY <1>1 DEF Store, Test, Succeed
<1>2. CASE TakeList(t)
  <2>1. lists' = lists \/ lists' = Append(lists, [name |-> name[t], items |-> {}])
    BY <1>2 DEF TakeList
  <2> QED
    BY <1>0, <2>1, ListFacts
<1>3. CASE AppendFailure(t)
  <2>1. step[t] = "appending"
    BY <1>3 DEF AppendFailure, Moves
  <2>2. held[t] # k
    BY <1>0, <2>1 DEF Belongs
  <2>3. \E f : lists' = [lists EXCEPT ![held[t]].items = @ \cup {f}]
    BY <1>3 DEF AppendFailure
  <2> QED
    BY <1>0, <2>2, <2>3, ListFacts
<1> QED
  BY <1>1, <1>2, <1>3 DEF Step

\* A step that leaves what is about u as it was, whatever the time.
LEMMA Undisturbed ==
    ASSUME IInv, NEW u \in Names, QuietUser(u), clock' \in Nat, clock <= clock',
           since'[u] = since[u], failures'[u] = failures[u], Items(u)' = Items(u),
           \A x \in Threads : About(x, u)' <=> About(x, u),
           \A x \in Threads : About(x, u) =>
                /\ step'[x] = step[x] /\ began'[x] = began[x] /\ held'[x] = held[x]
                /\ recent'[x] = recent[x] /\ asked'[x] = asked[x]
                /\ lists'[recent[x]].items = lists[recent[x]].items
    PROVE  QuietUser(u)'
<1>0. LimitTypeOK
  BY DEF IInv
<1>1. \A t, x \in Threads : About(t, u)' /\ About(x, u)' => t = x
  BY DEF QuietUser
<1>2. (\A t \in Threads : ~About(t, u)') => Keeps(Items(u), u, clock)'
  <2>1. \A f \in since[u] : f.at \in Nat
    BY <1>0 DEF LimitTypeOK, Failure
  <2>2. InWindow(since[u], clock') \subseteq InWindow(since[u], clock)
    BY <1>0, <2>1, LimitsAssumption DEF InWindow, LimitTypeOK
  <2> QED
    BY <2>2 DEF QuietUser, Keeps, InWindow
<1>3. ASSUME NEW t \in Threads, About(t, u)' PROVE Pending(t, u)'
  <2>1. About(t, u) /\ Pending(t, u)
    BY <1>3 DEF QuietUser
  <2> QED
    BY <2>1 DEF Pending, Keeps, InWindow
<1>4. Limited(u)'
  BY DEF QuietUser, Limited, InWindow
<1> QED
  BY <1>1, <1>2, <1>3, <1>4 DEF QuietUser

\* Another user's steps.
LEMMA OthersStep ==
    ASSUME IInv, NEW t \in Threads, Step(t), NEW u \in Names, u # name[t], QuietUser(u)
    PROVE  QuietUser(u)'
<1>0. LimitTypeOK /\ Belongs
  BY DEF IInv
<1>1. clock' = clock /\ clock \in Nat
  BY <1>0, StepOfOne DEF LimitTypeOK
<1>2. since'[u] = since[u] /\ failures'[u] = failures[u]
  BY StepOfOne
<1>3. Items(u)' = Items(u)
  <2>1. CASE failures[u] = Absent
    BY <1>2, <2>1 DEF Items
  <2>2. CASE failures[u] # Absent
    <3>1. failures[u] \in 1..Len(lists) /\ lists[failures[u]].name = u
      BY <1>0, <2>2, ListFacts DEF Belongs
    <3>2. lists'[failures[u]] = lists[failures[u]]
      BY <3>1, OtherLists
    <3> QED
      BY <1>2, <2>2, <3>2 DEF Items
  <2> QED
    BY <2>1, <2>2
<1>4. ASSUME NEW x \in Threads PROVE About(x, u)' <=> About(x, u)
  BY StepOfOne DEF About
<1>5. ASSUME NEW x \in Threads, About(x, u)
      PROVE  /\ step'[x] = step[x] /\ began'[x] = began[x] /\ held'[x] = held[x]
             /\ recent'[x] = recent[x] /\ asked'[x] = asked[x]
             /\ lists'[recent[x]].items = lists[recent[x]].items
  <2>1. x # t
    BY <1>5 DEF About
  <2>2. recent[x] \in 1..Len(lists) /\ lists[recent[x]].name = u
    BY <1>0, <1>5, ListFacts DEF About, Belongs
  <2>3. lists'[recent[x]] = lists[recent[x]]
    BY <2>2, OtherLists
  <2> QED
    BY <2>1, <2>3, StepOfOne
<1> QED
  BY <1>1, <1>2, <1>3, <1>4, <1>5, Undisturbed

\* A window that ends later reaches back less far.
LEMMA WindowShrinks ==
    ASSUME LimitTypeOK, NEW u \in Names, NEW a \in Int, NEW b \in Int, a <= b
    PROVE  InWindow(since[u], b) \subseteq InWindow(since[u], a)
<1>1. \A f \in since[u] : f.at \in Nat
  BY DEF LimitTypeOK, Failure
<1> QED
  BY <1>1, LimitsAssumption DEF InWindow

\* Between requests what was kept for the last one is kept for now.
LEMMA KeptTillNow ==
    ASSUME LimitTypeOK, NEW t \in Threads, NEW u \in Names, NEW F, Keeps(F, u, began[t])
    PROVE  Keeps(F, u, clock)
<1>1. began[t] \in Int /\ clock \in Int /\ began[t] <= clock
  BY DEF LimitTypeOK
<1> QED
  BY <1>1, WindowShrinks DEF Keeps

\* What a step of the one request about a user has to leave behind.
LEMMA OnlyRequest ==
    ASSUME IInv, NEW t \in Threads, Step(t), NEW u \in Names, u = name[t], QuietUser(u),
           step'[t] \in Busy => Pending(t, u)',
           step'[t] \notin Busy => Keeps(Items(u), u, clock)', Limited(u)'
    PROVE  QuietUser(u)'
<1>1. About(t, u) /\ \A x \in Threads \ {t} : ~About(x, u)
  BY StepOfOne DEF About, QuietUser
<1>2. \A x \in Threads \ {t} : ~About(x, u)'
  BY <1>1, StepOfOne DEF About
<1>3. About(t, u)' <=> step'[t] \in Busy
  BY StepOfOne DEF About
<1> QED
  BY <1>2, <1>3 DEF QuietUser

\* The copy takes the place of the list it was made from.
LEMMA StoreQuiet ==
    ASSUME IInv, NEW t \in Threads, Store(t), NEW u \in Names, u = name[t], QuietUser(u)
    PROVE  QuietUser(u)'
<1>0. LimitTypeOK /\ Step(t) /\ About(t, u)
  BY StepOfOne DEF IInv, Step, About
<1>1. step[t] = "storing" /\ step'[t] = "testing" /\ UNCHANGED <<lists, began, recent, since, clock>>
  BY <1>0 DEF Store, Moves, LimitTypeOK, history
<1>2. failures'[u] = recent[t] /\ recent[t] # Absent
  BY <1>0, <1>1 DEF Store, LimitTypeOK, Busy
<1>3. Items(u)' = lists[recent[t]].items
  BY <1>1, <1>2 DEF Items
<1>4. Pending(t, u)
  BY <1>0 DEF QuietUser
<1>5. Pending(t, u)'
  <2>1. Keeps(lists[recent[t]].items, u, began[t])
    BY <1>1, <1>4 DEF Pending
  <2>2. Keeps(Items(u), u, began[t])'
    BY <1>1, <1>3, <2>1 DEF Keeps, InWindow
  <2> QED
    BY <1>1, <1>2, <1>4, <2>2 DEF Pending
<1>6. Limited(u)'
  BY <1>1 DEF QuietUser, Limited, InWindow
<1> QED
  BY <1>0, <1>1, <1>5, <1>6, OnlyRequest DEF Busy

\* Who passes the test finds room for a failure.
LEMMA TestQuiet ==
    ASSUME IInv, NEW t \in Threads, Test(t), NEW u \in Names, u = name[t], QuietUser(u)
    PROVE  QuietUser(u)'
<1>0. LimitTypeOK /\ IsFiniteSet(failed) /\ Step(t) /\ About(t, u)
  BY StepOfOne DEF IInv, Step, About
<1>1. /\ step[t] = "testing" /\ UNCHANGED <<lists, failures, began, recent, since, clock>>
      /\ step'[t] = IF Cardinality(lists[recent[t]].items) >= LOGIN_MAX_ATTEMPTS
                  THEN "429" ELSE "checking"
  BY <1>0 DEF Test, Moves, LimitTypeOK, history
<1>2. Pending(t, u)
  BY <1>0 DEF QuietUser
<1>3. Items(u) = lists[recent[t]].items /\ Items(u)' = Items(u)
  BY <1>0, <1>1, <1>2 DEF Pending, Items, LimitTypeOK, Busy
<1>4. Keeps(Items(u), u, began[t])
  BY <1>1, <1>2 DEF Pending
<1>5. Limited(u)'
  BY <1>1 DEF QuietUser, Limited, InWindow
<1>6. CASE step'[t] = "429"
  <2>1. Keeps(Items(u), u, clock)
    BY <1>0, <1>4, KeptTillNow
  <2>2. Keeps(Items(u), u, clock)'
    BY <1>1, <1>3, <2>1 DEF Keeps, InWindow
  <2> QED
    BY <1>0, <1>5, <1>6, <2>2, OnlyRequest DEF Busy
<1>7. CASE step'[t] = "checking"
  <2>1. Cardinality(Items(u)) \in Nat
    <3>1. Items(u) \subseteq failed
      BY <1>0, <1>4 DEF Keeps, LimitTypeOK
    <3> QED
      BY <1>0, <3>1, FS_Subset, FS_CardinalityType
  <2>2. Cardinality(Items(u)) < LOGIN_MAX_ATTEMPTS
    BY <1>1, <1>3, <1>7, <2>1, LimitsAssumption
  <2>3. Keeps(Items(u), u, began[t])'
    BY <1>1, <1>3, <1>4 DEF Keeps, InWindow
  <2>4. Pending(t, u)'
    BY <1>1, <1>2, <1>3, <1>7, <2>2, <2>3 DEF Pending
  <2> QED
    BY <1>0, <1>5, <1>7, <2>4, OnlyRequest DEF Busy
<1> QED
  BY <1>1, <1>6, <1>7

\* A success leaves nothing to count.
LEMMA SucceedQuiet ==
    ASSUME IInv, NEW t \in Threads, Succeed(t), NEW u \in Names, u = name[t], QuietUser(u)
    PROVE  QuietUser(u)'
<1>0. LimitTypeOK /\ Step(t)
  BY DEF IInv, Step
<1>1. step'[t] = "200" /\ failures'[u] = Absent /\ since'[u] = {}
  BY <1>0 DEF Succeed, Moves, LimitTypeOK
<1>2. Keeps(Items(u), u, clock)' /\ Limited(u)'
  BY <1>1 DEF Keeps, Items, InWindow, Limited
<1> QED
  BY <1>0, <1>1, <1>2, OnlyRequest DEF Busy

\* The list of the dict, or an empty one where there is none, holds the same.
LEMMA TakeListQuiet ==
    ASSUME IInv, NEW t \in Threads, TakeList(t), NEW u \in Names, u = name[t], QuietUser(u)
    PROVE  QuietUser(u)'
<1>0. LimitTypeOK /\ Step(t) /\ About(t, u)
  BY StepOfOne DEF IInv, Step, About
<1>1. step[t] = "checking" /\ step'[t] = "appending" /\ UNCHANGED <<began, since, clock>>
  BY <1>0 DEF TakeList, Moves, LimitTypeOK, history
<1>2. Pending(t, u)
  BY <1>0 DEF QuietUser
<1>3. began'[t] <= asked'[t]
  BY <1>0 DEF TakeList, LimitTypeOK
<1>4. Items(u)' = Items(u) /\ held'[t] = failures'[u]
  <2>1. CASE failures[u] = Absent
    <3>1. /\ lists' = Append(lists, [name |-> u, items |-> {}])
          /\ failures'[u] = Len(lists) + 1 /\ held'[t] = Len(lists) + 1
      BY <1>0, <2>1 DEF TakeList, LimitTypeOK
    <3>2. lists'[Len(lists) + 1] = [name |-> u, items |-> {}] /\ Len(lists) + 1 # Absent
      BY <1>0, <3>1, ListFacts DEF Absent
    <3> QED
      BY <2>1, <3>1, <3>2 DEF Items
  <2>2. CASE failures[u] # Absent
    BY <1>0, <2>2 DEF TakeList, LimitTypeOK, Items
  <2> QED
    BY <2>1, <2>2
<1>5. Keeps(Items(u), u, began[t])'
  BY <1>1, <1>2, <1>4 DEF Pending, Keeps, InWindow
<1>6. Pending(t, u)'
  BY <1>1, <1>2, <1>3, <1>4, <1>5 DEF Pending
<1>7. Limited(u)'
  BY <1>1 DEF QuietUser, Limited, InWindow
<1> QED
  BY <1>0, <1>1, <1>6, <1>7, OnlyRequest DEF Busy

\* The failure has the room that the test found: the window that ends with it
\* holds what was in the list, and itself.
LEMMA AppendQuiet ==
    ASSUME IInv, NEW t \in Threads, AppendFailure(t), NEW u \in Names, u = name[t], QuietUser(u)
    PROVE  QuietUser(u)'
<1>0. LimitTypeOK /\ IsFiniteSet(failed) /\ Step(t) /\ About(t, u)
  BY StepOfOne DEF IInv, Step, About
<1> PICK at \in asked[t]..clock :
      LET f == [n |-> attempts, thread |-> t, name |-> name[t], at |-> at]
      IN  /\ Moves(t, "appending", "401")
          /\ lists' = [lists EXCEPT ![held[t]].items = @ \cup {f}]
          /\ failed' = failed \cup {f}
          /\ since' = [since EXCEPT ![name[t]] = @ \cup {f}]
          /\ UNCHANGED <<clock, failures, name, began, recent, held, asked, attempts, overlapped>>
  BY DEF AppendFailure
<1> DEFINE f == [n |-> attempts, thread |-> t, name |-> name[t], at |-> at]
           F == since[u]
           W == LOGIN_WINDOW_SECONDS
<1>1. step[t] = "appending" /\ step'[t] = "401" /\ UNCHANGED <<clock, began, failures>>
  BY <1>0 DEF LimitTypeOK, Moves
<1>2. since'[u] = F \cup {f} /\ lists' = [lists EXCEPT ![held[t]].items = @ \cup {f}]
  BY <1>0 DEF LimitTypeOK
<1>3. /\ \A g \in F : g.at <= began[t]
      /\ InWindow(F, began[t]) \subseteq Items(u) /\ Items(u) \subseteq F
      /\ Cardinality(Items(u)) < LOGIN_MAX_ATTEMPTS
      /\ held[t] = failures[u] /\ began[t] <= asked[t]
  BY <1>0, <1>1 DEF QuietUser, Pending, Keeps
<1>4. /\ F \subseteq failed /\ \A g \in F : g.at \in Nat
      /\ began[t] \in Nat /\ asked[t] \in Nat /\ clock \in Nat /\ f.at = at /\ at \in Nat
      /\ asked[t] <= at /\ at <= clock /\ W \in Nat
  BY <1>0, LimitsAssumption DEF LimitTypeOK, Failure
<1>5. Items(u)' = Items(u) \cup {f}
  <2>1. held[t] \in 1..Len(lists) /\ failures[u] # Absent
    BY <1>0, <1>1, <1>3, ListFacts DEF Absent
  <2>2. lists[held[t]] \in Item(failed) /\ DOMAIN lists = 1..Len(lists)
    BY <1>0, <2>1, ListFacts
  <2>3. lists'[held[t]].items = lists[held[t]].items \cup {f}
    BY <1>2, <2>1, <2>2 DEF Item
  <2> QED
    BY <1>1, <1>3, <2>1, <2>3 DEF Items
<1> HIDE DEF f, W
<1>6. Keeps(Items(u), u, clock)'
  <2>1. InWindow(F, clock) \subseteq Items(u)
    BY <1>3, <1>4, LimitsAssumption DEF InWindow
  <2>2. InWindow(F \cup {f}, clock) \subseteq Items(u) \cup {f}
    BY <2>1 DEF InWindow
  <2>3. Items(u) \cup {f} \subseteq F \cup {f}
    BY <1>3
  <2> QED
    BY <1>1, <1>2, <1>5, <2>2, <2>3 DEF Keeps, InWindow
\* The window that ends with the new failure
<1>7. Cardinality(InWindow({h \in F \cup {f} : h.at <= at}, at)) <= LOGIN_MAX_ATTEMPTS
  <2>1. InWindow({h \in F \cup {f} : h.at <= at}, at) \subseteq Items(u) \cup {f}
    BY <1>3, <1>4, LimitsAssumption DEF InWindow
  <2>2. IsFiniteSet(Items(u))
    BY <1>0, <1>3, <1>4, FS_Subset
  <2>3. /\ IsFiniteSet(Items(u) \cup {f}) /\ Cardinality(Items(u)) \in Nat
        /\ \/ Cardinality(Items(u) \cup {f}) = Cardinality(Items(u))
           \/ Cardinality(Items(u) \cup {f}) = Cardinality(Items(u)) + 1
    BY <2>2, FS_AddElement, FS_CardinalityType
  <2>4. IsFiniteSet(InWindow({h \in F \cup {f} : h.at <= at}, at))
    BY <2>1, <2>3, FS_Subset
  <2>5. /\ Cardinality(InWindow({h \in F \cup {f} : h.at <= at}, at)) \in Nat
        /\ Cardinality(InWindow({h \in F \cup {f} : h.at <= at}, at))
             <= Cardinality(Items(u) \cup {f})
    BY <2>1, <2>3, <2>4, FS_Subset, FS_CardinalityType
  <2> QED
    BY <1>3, <2>3, <2>5, LimitsAssumption
<1>8. Limited(u)'
  <2> SUFFICES ASSUME NEW g \in F \cup {f}
               PROVE  Cardinality(InWindow({h \in F \cup {f} : h.at <= g.at}, g.at)) <= LOGIN_MAX_ATTEMPTS
    BY <1>2 DEF Limited, InWindow
  <2>1. CASE g.at = at
    BY <1>7, <2>1
  <2>2. CASE g.at # at
    <3>1. g \in F /\ g.at < at
      BY <1>3, <1>4, <2>2
    <3>2. {h \in F \cup {f} : h.at <= g.at} = {h \in F : h.at <= g.at}
      BY <1>4, <3>1
    <3> QED
      BY <1>0, <3>1, <3>2 DEF QuietUser, Limited
  <2> QED
    BY <2>1, <2>2
<1> QED
  BY <1>0, <1>1, <1>6, <1>8, OnlyRequest DEF Busy

\* A request begins with a copy of what counts, for who has no other one.
LEMMA CopyQuiet ==
    ASSUME IInv, QuietInv, NEW t \in Threads, NEW u \in Names, Copy(t, u),
           NEW v \in Names, v \notin overlapped'
    PROVE  QuietUser(v)'
<1>0. LimitTypeOK /\ Belongs /\ QuietUser(v)
  BY DEF IInv, QuietInv, Copy
<1>1. /\ step[t] \in Free /\ step'[t] = "storing" /\ name'[t] = u /\ began'[t] = clock
      /\ \A x \in Threads \ {t} :
           /\ step'[x] = step[x] /\ name'[x] = name[x] /\ began'[x] = began[x] /\ recent'[x] = recent[x]
      /\ UNCHANGED <<clock, failures, held, asked, failed, since>>
  BY <1>0 DEF Copy, LimitTypeOK
<1>2. /\ recent'[t] = Len(lists) + 1 /\ lists'[Len(lists) + 1].items = Recent(u)
      /\ \A k \in 1..Len(lists) : lists'[k] = lists[k]
  BY <1>0, ListFacts DEF Copy, LimitTypeOK
<1>3. ~About(t, v)
  BY <1>1 DEF About, Free, Busy
<1>4. Items(v)' = Items(v)
  BY <1>0, <1>1, <1>2, ListFacts DEF Items
<1>5. CASE v # u
  <2>1. \A x \in Threads : About(x, v)' <=> About(x, v)
    BY <1>1, <1>3, <1>5 DEF About
  <2>2. ASSUME NEW x \in Threads, About(x, v)
        PROVE  /\ step'[x] = step[x] /\ began'[x] = began[x] /\ held'[x] = held[x]
               /\ recent'[x] = recent[x] /\ asked'[x] = asked[x]
               /\ lists'[recent[x]].items = lists[recent[x]].items
    BY <1>0, <1>1, <1>2, <1>3, <2>2, ListFacts DEF About
  <2>3. clock' \in Nat /\ clock <= clock'
    BY <1>0, <1>1 DEF LimitTypeOK
  <2> QED
    BY <1>0, <1>1, <1>4, <2>1, <2>2, <2>3, Undisturbed
<1>6. CASE v = u
  <2>1. \A x \in Threads : ~About(x, v)
    BY <1>6 DEF Copy, About
  <2>2. \A x \in Threads : About(x, v)' <=> x = t
    BY <1>1, <1>6, <2>1 DEF About, Busy
  <2>3. Keeps(Items(v), v, clock)
    BY <1>0, <2>1 DEF QuietUser
  <2>4. Keeps(Recent(v), v, clock)
    BY <2>3 DEF Recent, Keeps, InWindow
  <2>5. \A g \in since[v] : g.at <= clock
    BY <1>0 DEF QuietInv, LimitTypeOK
  <2>6. Pending(t, v)'
    BY <1>1, <1>2, <1>6, <2>4, <2>5 DEF Pending, Keeps, InWindow
  <2>7. Limited(v)'
    BY <1>0, <1>1 DEF QuietUser, Limited, InWindow
  <2> QED
    BY <2>2, <2>6, <2>7 DEF QuietUser
<1> QED
  BY <1>5, <1>6

\* Every step keeps what is true of users whose requests do not overlap.
LEMMA NextQuiet == IInv /\ QuietInv /\ [LimitNext]_limitVars => QuietInv'
<1> SUFFICES ASSUME IInv, QuietInv, [LimitNext]_limitVars PROVE QuietInv'
  OBVIOUS
<1>0. LimitTypeOK /\ clock \in Nat
  BY DEF IInv, LimitTypeOK
<1>1. ASSUME NEW t \in Threads, NEW u \in Names, Copy(t, u) PROVE QuietInv'
  <2>1. \A f \in failed' : f.at <= clock'
    BY <1>1 DEF Copy, QuietInv
  <2> QED
    BY <1>1, <2>1, CopyQuiet DEF QuietInv
<1>2. ASSUME NEW t \in Threads, Step(t) PROVE QuietInv'
  <2>1. \A f \in failed' : f.at <= clock'
    <3>1. CASE AppendFailure(t)
      BY <1>0, <3>1 DEF AppendFailure, QuietInv, LimitTypeOK
    <3>2. CASE Store(t) \/ Test(t) \/ Succeed(t) \/ TakeList(t)
      BY <3>2 DEF Store, Test, Succeed, TakeList, history, QuietInv
    <3> QED
      BY <1>2, <3>1, <3>2 DEF Step
  <2>2. ASSUME NEW u \in Names, u \notin overlapped' PROVE QuietUser(u)'
    <3>1. QuietUser(u)
      BY <1>2, <2>2, StepOfOne DEF QuietInv
    <3>2. CASE u # name[t]
      BY <1>2, <3>1, <3>2, OthersStep
    <3>3. CASE u = name[t]
      BY <1>2, <3>1, <3>3, StoreQuiet, TestQuiet, SucceedQuiet, TakeListQuiet, AppendQuiet DEF Step
    <3> QED
      BY <3>2, <3>3
  <2> QED
    BY <2>1, <2>2 DEF QuietInv
<1>3. CASE Tick \/ UNCHANGED limitVars
  <2>1. /\ clock' \in Nat /\ clock <= clock'
        /\ UNCHANGED <<failures, lists, step, name, began, recent, held, asked, failed, since, overlapped>>
    BY <1>0, <1>3 DEF Tick, limitVars, thread, history
  <2>2. \A f \in failed' : f.at <= clock'
    BY <1>0, <2>1 DEF QuietInv, LimitTypeOK, Failure
  <2>3. ASSUME NEW u \in Names, u \notin overlapped' PROVE QuietUser(u)'
    <3>1. QuietUser(u)
      BY <2>1, <2>3 DEF QuietInv
    <3>2. Items(u)' = Items(u) /\ \A x \in Threads : About(x, u)' <=> About(x, u)
      BY <2>1 DEF Items, About
    <3> QED
      BY <2>1, <3>1, <3>2, Undisturbed
  <2> QED
    BY <2>2, <2>3 DEF QuietInv
<1> QED
  BY <1>1, <1>2, <1>3 DEF LimitNext, Step

\* Whoever is refused is refused by the test.
LEMMA OnlyTestRefuses ==
    ASSUME IInv, [LimitNext]_limitVars, NEW x \in Threads, step[x] # "429", step'[x] = "429"
    PROVE  Test(x)
<1>0. step \in [Threads -> Free \cup Busy]
  BY DEF IInv, LimitTypeOK
<1>1. ~(\E t \in Threads, u \in Names : Copy(t, u))
  BY <1>0 DEF Copy
<1>2. ~(\E t \in Threads : Store(t) \/ Succeed(t) \/ TakeList(t) \/ AppendFailure(t))
  BY <1>0 DEF Store, Succeed, TakeList, AppendFailure, Moves
<1>3. ~Tick /\ ~UNCHANGED limitVars
  BY DEF Tick, limitVars, thread
<1>4. PICK t \in Threads : Test(t)
  BY <1>1, <1>2, <1>3 DEF LimitNext
<1> QED
  BY <1>0, <1>4 DEF Test, Moves

\* What it counts are failures since the last success.
LEMMA QuietlyRefused ==
    ASSUME IInv, QuietInv, [LimitNext]_limitVars, NEW x \in Threads,
           step[x] # "429", step'[x] = "429", name[x] \notin overlapped
    PROVE  Cardinality(InWindow(since[name[x]], began[x])) >= LOGIN_MAX_ATTEMPTS
<1> DEFINE u == name[x]
           L == lists[recent[x]].items
<1>0. LimitTypeOK /\ IsFiniteSet(failed) /\ Current /\ u \in Names
  BY DEF IInv, LimitTypeOK
<1>1. step[x] = "testing" /\ Cardinality(L) >= LOGIN_MAX_ATTEMPTS
  BY <1>0, OnlyTestRefuses DEF Test, Moves, LimitTypeOK
<1>2. Pending(x, u)
  BY <1>0, <1>1 DEF QuietInv, QuietUser, About, Busy
<1>3. Items(u) = L
  BY <1>0, <1>1, <1>2 DEF Pending, Items, LimitTypeOK, Busy
<1>4. L \subseteq since[u]
  BY <1>1, <1>2, <1>3 DEF Pending, Keeps
<1>5. L \subseteq InWindow(since[u], began[x])
  BY <1>0, <1>1, <1>4 DEF Current, InWindow
<1>6. IsFiniteSet(InWindow(since[u], began[x]))
  BY <1>0, FS_Subset DEF InWindow, LimitTypeOK
<1>7. /\ Cardinality(L) \in Nat /\ Cardinality(InWindow(since[u], began[x])) \in Nat
      /\ Cardinality(L) <= Cardinality(InWindow(since[u], began[x]))
  BY <1>5, <1>6, FS_Subset, FS_CardinalityType
<1> QED
  BY <1>1, <1>7, LimitsAssumption

----------------------------------------------------------------------------
\* Every reachable state of login satisfies the invariant.
THEOREM Invariance == LimitSpec => []IInv
BY InitIInv, NextIInv, PTL DEF LimitSpec

\* The dict, the lists and the threads' references (app.py:51-65) always have
\* their types: whoever counts or appends has a list to do it with.
THEOREM LimiterTypeCorrect == LimitSpec => []LimitTypeOK
<1>1. IInv => LimitTypeOK
  BY DEF IInv
<1> QED
  BY <1>1, Invariance, PTL

\* However requests interleave, login (app.py:98-99) answers 429 only to a user
\* who has failed as often as the limit within the window.
THEOREM NobodyRefusedWrongly == LimitSpec => []RefusedRightly
<1>1. IInv => RefusedRightly
  BY DEF IInv
<1> QED
  BY <1>1, Invariance, PTL

\* ... and what is true of users whose requests do not overlap
THEOREM QuietInvariance == LimitSpec => []QuietInv
BY InitQuiet, NextQuiet, Invariance, PTL DEF LimitSpec

\* A user whose requests come one after another fails as often as the limit in
\* no window (REVIEW.md:201), whatever other users' requests do meanwhile.
THEOREM QuietUsersLimited == LimitSpec => []QuietLimit
<1>1. QuietInv => QuietLimit
  BY DEF QuietInv, QuietUser, QuietLimit
<1> QED
  BY <1>1, QuietInvariance, PTL

\* ... and is refused (app.py:98-99) only for failures since the last success.
THEOREM QuietUsersRefused == LimitSpec => QuietRefusal
<1>1. IInv /\ QuietInv /\ [LimitNext]_limitVars =>
        [\A t \in Threads : step[t] # "429" /\ step'[t] = "429" /\ name[t] \notin overlapped =>
           Cardinality(InWindow(since[name[t]], began[t])) >= LOGIN_MAX_ATTEMPTS]_limitVars
  BY QuietlyRefused
<1> QED
  BY <1>1, Invariance, QuietInvariance, PTL DEF LimitSpec, QuietRefusal

----------------------------------------------------------------------------
(***************************************************************************)
(* TaskApi                                                                 *)
(***************************************************************************)

\* What a thread's step says of its request, and a stopped server of its tables
Shape ==
    /\ \A t \in Threads : req[t].op # "none" => req[t].token.name \in Names
    /\ \A t \in Threads : pc[t] = "idle" => req[t] = NoRequest
    /\ \A t \in Threads : pc[t] \in Writing => req[t].op \in {"register", "create", "unfit", "delete"}
    /\ ~up => users = {} /\ tasks = {} /\ \A t \in Threads : pc[t] = "idle"
    /\ IsFiniteSet(tasks)

Typed == TypeOK /\ Shape

----------------------------------------------------------------------------
\* Requests are of their type, whatever a thread does to them.
LEMMA RequestIsOne ==
    ASSUME NEW o \in {"register", "login", "create", "delete", "list", "get", "search", "admin"},
           NEW tk \in [id : Nat, name : Names], NEW i \in Nat
    PROVE  /\ Request(o, tk, i) \in RequestType /\ Request(o, tk, i).op = o
           /\ Request(o, tk, i).token = tk /\ Request(o, tk, i).id = i
           /\ Request(o, tk, i).row = 0 /\ Request(o, tk, i).told = 0 /\ Request(o, tk, i).shown = {}
           /\ Request(o, tk, i).alone = TRUE
    BY DEF Request, RequestType, TokenType

LEMMA NoRequestIsOne ==
    /\ NoRequest \in RequestType /\ NoRequest.op = "none" /\ NoRequest.shown = {}
    /\ NoRequest.told = 0 /\ NoRequest.row = 0
    BY DEF NoRequest, Request, NoToken, NoOne, RequestType, TokenType

\* One request changes, or one enters and the others learn of it.
LEMMA RequestsStay ==
    ASSUME req \in [Threads -> RequestType], NEW t \in Threads, NEW r \in RequestType,
           req' = [req EXCEPT ![t] = r]
    PROVE  /\ req' \in [Threads -> RequestType] /\ req'[t] = r
           /\ \A x \in Threads \ {t} : req'[x] = req[x]
    OBVIOUS

SameButAlone(r, s) ==
    /\ r.op = s.op /\ r.token = s.token /\ r.id = s.id
    /\ r.row = s.row /\ r.told = s.told /\ r.shown = s.shown

LEMMA Entering ==
    ASSUME req \in [Threads -> RequestType], NEW t \in Threads, NEW r \in RequestType, EntersWith(t, r)
    PROVE  /\ req' \in [Threads -> RequestType]
           /\ SameButAlone(req'[t], r)
           /\ \A x \in Threads \ {t} : SameButAlone(req'[x], req[x])
           /\ req'[t].alone = (\A y \in Threads \ {t} : pc[y] \notin Writing)
           /\ \A x \in Threads \ {t} : req'[x].alone = (req[x].alone /\ pc[x] \notin Writing)
<1>1. req' = [x \in Threads |->
        IF x = t THEN [r EXCEPT !.alone = \A y \in Threads \ {t} : pc[y] \notin Writing]
        ELSE [req[x] EXCEPT !.alone = @ /\ pc[x] \notin Writing]]
    BY DEF EntersWith
<1>2. ASSUME NEW s \in RequestType, NEW b \in BOOLEAN
      PROVE  [s EXCEPT !.alone = b] \in RequestType /\ SameButAlone([s EXCEPT !.alone = b], s)
             /\ [s EXCEPT !.alone = b].alone = b
    BY DEF RequestType, SameButAlone
<1>3. (\A y \in Threads \ {t} : pc[y] \notin Writing) \in BOOLEAN
    OBVIOUS
<1>4. req'[t] = [r EXCEPT !.alone = \A y \in Threads \ {t} : pc[y] \notin Writing]
    BY <1>1
<1>5. ASSUME NEW x \in Threads \ {t}
      PROVE  /\ req'[x] \in RequestType /\ SameButAlone(req'[x], req[x])
             /\ req'[x].alone = (req[x].alone /\ pc[x] \notin Writing)
    <2>1. req[x] \in RequestType
        OBVIOUS
    <2>2. (req[x].alone /\ pc[x] \notin Writing) \in BOOLEAN
        OBVIOUS
    <2>3. req'[x] = [req[x] EXCEPT !.alone = (req[x].alone /\ pc[x] \notin Writing)]
        BY <1>1, <2>1
    <2>4. QED
        BY <1>2, <2>1, <2>2, <2>3
<1>6. req'[t] \in RequestType /\ SameButAlone(req'[t], r)
      /\ req'[t].alone = (\A y \in Threads \ {t} : pc[y] \notin Writing)
    BY <1>2, <1>3, <1>4
<1>7. req' \in [Threads -> RequestType]
    <2>1. \A x \in Threads : req'[x] \in RequestType
        BY <1>5, <1>6
    <2>2. req' = [x \in Threads |-> req'[x]]
        BY <1>1
    <2>3. QED
        BY <2>1, <2>2
<1>8. QED
    BY <1>5, <1>6, <1>7

----------------------------------------------------------------------------
\* The requests that threads make, and what they do on the connection
Asks(t) ==
    \/ \E u \in Names : Register(t, u) \/ Login(t, u)
    \/ \E tk \in tokens :
        \/ \E o \in {"create", "unfit", "list", "search", "admin"} : Authorize(t, o, tk, 0)
        \/ \E o \in {"get", "delete"}, i \in 1..MaxTasks : Authorize(t, o, tk, i)
    \/ Unauthorized(t) \/ Malformed(t)
Reads(t) == ListTasks(t) \/ GetTask(t) \/ SearchTasks(t) \/ AdminUsers(t)
Writes(t) ==
    \/ LookForTransaction(t) \/ Begin(t)
    \/ InsertUserRefused(t) \/ InsertUser(t) \/ InsertTask(t) \/ DeleteTask(t)
    \/ StatementRefused(t) \/ ReadCounter(t) \/ Commit(t)
Serves(t) == Asks(t) \/ Reads(t) \/ Writes(t) \/ Finish(t)

LEMMA Steps == Next => (\E t \in Threads : Serves(t)) \/ Kill \/ Start \/ StartWithSecret
    BY DEF Next, Serves, Asks, Reads, Writes

\* What one thread does to the others: they may learn that they are not alone.
OthersStay(t) ==
    \A x \in Threads \ {t} :
        /\ pc'[x] = pc[x] /\ SameButAlone(req'[x], req[x])
        /\ req'[x].alone => req[x].alone
        /\ pc[x] \notin Writing => req'[x] = req[x]

\* A request begins: what it is, and whether it writes
Begins(t, r) ==
    /\ up /\ pc[t] = "idle" /\ pc'[t] \in {"opening", "reading", "200", "401", "409"}
    /\ r \in RequestType /\ r.op # "none" /\ r.token.name \in Names
    /\ r.row = 0 /\ r.told = 0 /\ r.shown = {}
    /\ SameButAlone(req'[t], r)
    /\ r.op = "login" => pc'[t] = "200"
    /\ r.op = "register" => pc'[t] \in {"opening", "409"}
    /\ r.op \in {"create", "delete", "unfit"} => pc'[t] \in {"opening", "401"}
    /\ r.op \notin {"login", "register"} => r.token \in tokens
    /\ pc'[t] = "opening" => r.op \in {"register", "create", "unfit", "delete"}
    /\ pc'[t] = "opening" /\ r.op = "register" => ~\E a \in users : a.username = r.token.name
    /\ pc'[t] = "opening" => \A y \in Threads \ {t} : pc[y] \in Writing => ~req'[t].alone /\ ~req'[y].alone

LEMMA OneStays ==
    ASSUME Typed, NEW t \in Threads, NEW to \in {"idle", "reading"} \cup Writing \cup Answers,
           NEW r \in RequestType,
           pc' = [pc EXCEPT ![t] = to], req' = [req EXCEPT ![t] = r]
    PROVE  /\ pc' \in [Threads -> {"idle", "reading"} \cup Writing \cup Answers]
           /\ req' \in [Threads -> RequestType]
           /\ pc'[t] = to /\ req'[t] = r /\ OthersStay(t)
    BY DEF Typed, TypeOK, OthersStay, SameButAlone

LEMMA OneEnters ==
    ASSUME Typed, NEW t \in Threads, NEW r \in RequestType,
           pc' = [pc EXCEPT ![t] = "opening"], EntersWith(t, r)
    PROVE  /\ pc' \in [Threads -> {"idle", "reading"} \cup Writing \cup Answers]
           /\ req' \in [Threads -> RequestType]
           /\ pc'[t] = "opening" /\ SameButAlone(req'[t], r) /\ OthersStay(t)
           /\ \A y \in Threads \ {t} : pc[y] \in Writing => ~req'[t].alone /\ ~req'[y].alone
<1>1. req \in [Threads -> RequestType] /\ pc \in [Threads -> {"idle", "reading"} \cup Writing \cup Answers]
    BY DEF Typed, TypeOK
<1>2. req' \in [Threads -> RequestType] /\ SameButAlone(req'[t], r)
    BY <1>1, Entering
<1>3. \A x \in Threads \ {t} : SameButAlone(req'[x], req[x]) /\ (req'[x].alone => req[x].alone)
    BY <1>1, Entering
<1>9. ASSUME NEW x \in Threads \ {t}, pc[x] \notin Writing PROVE req'[x] = req[x]
    <2>1. req[x] \in RequestType /\ req'[x] \in RequestType
        BY <1>1, <1>2
    <2>2. req'[x].alone = (req[x].alone /\ pc[x] \notin Writing)
        BY <1>1, Entering
    <2>3. req'[x].alone = req[x].alone
        BY <2>1, <2>2, <1>9 DEF RequestType
    <2>4. QED
        BY <1>3, <2>1, <2>3 DEF RequestType, SameButAlone
<1>4. pc' \in [Threads -> {"idle", "reading"} \cup Writing \cup Answers] /\ pc'[t] = "opening"
      /\ \A x \in Threads \ {t} : pc'[x] = pc[x]
    BY <1>1 DEF Writing
<1>6. \A y \in Threads \ {t} : pc[y] \in Writing => ~req'[t].alone /\ ~req'[y].alone
    BY <1>1, Entering
<1>5. QED
    BY <1>2, <1>3, <1>9, <1>4, <1>6 DEF OthersStay

\* Each of the routes begins as Begins says, or answers 401 or 500 without more ado.
LEMMA AskingShape ==
    ASSUME Typed, NEW t \in Threads, Asks(t)
    PROVE  /\ pc' \in [Threads -> {"idle", "reading"} \cup Writing \cup Answers]
           /\ req' \in [Threads -> RequestType] /\ OthersStay(t)
           /\ \/ \E r \in RequestType : Begins(t, r)
              \/ pc[t] = "idle" /\ pc'[t] \in {"401", "500"} /\ req' = req
           /\ tokens' \subseteq [id : Nat, name : Names]
           /\ UNCHANGED <<process, tables, connection, gone>>
<1>1. ASSUME NEW u \in Names, Register(t, u)
      PROVE  /\ pc' \in [Threads -> {"idle", "reading"} \cup Writing \cup Answers]
             /\ req' \in [Threads -> RequestType] /\ OthersStay(t)
             /\ \E r \in RequestType : Begins(t, r)
             /\ UNCHANGED <<process, tables, connection, tokens, gone>>
    <2> DEFINE r == Request("register", NoToken(u), 0)
    <2>1. NoToken(u) = [id |-> 0, name |-> u] /\ NoToken(u) \in [id : Nat, name : Names]
        BY DEF NoToken, NoOne
    <2>2. r \in RequestType /\ r.op = "register" /\ r.token = NoToken(u) /\ r.token.name = u
          /\ r.row = 0 /\ r.told = 0 /\ r.shown = {}
        BY <2>1 DEF Request, RequestType, TokenType
    <2>3. CASE \E a \in users : a.username = u
        <3>1. pc' = [pc EXCEPT ![t] = "409"] /\ req' = [req EXCEPT ![t] = r] /\ up /\ pc[t] = "idle"
            BY <1>1, <2>3 DEF Register, Goes
        <3>2. Begins(t, r)
            BY <2>2, <3>1, OneStays DEF Begins, SameButAlone, Answers
        <3>3. QED
            BY <1>1, <2>2, <3>1, <3>2, OneStays DEF Register, Answers
    <2>4. CASE ~\E a \in users : a.username = u
        <3>1. pc' = [pc EXCEPT ![t] = "opening"] /\ EntersWith(t, r) /\ up /\ pc[t] = "idle"
            BY <1>1, <2>4 DEF Register, Goes
        <3>2. Begins(t, r)
            BY <2>2, <2>4, <3>1, OneEnters DEF Begins
        <3>3. QED
            BY <1>1, <2>2, <3>1, <3>2, OneEnters DEF Register
    <2>5. QED
        BY <2>3, <2>4
<1>2. ASSUME NEW u \in Names, Login(t, u)
      PROVE  /\ pc' \in [Threads -> {"idle", "reading"} \cup Writing \cup Answers]
             /\ req' \in [Threads -> RequestType] /\ OthersStay(t)
             /\ \E r \in RequestType : Begins(t, r)
             /\ tokens' \subseteq [id : Nat, name : Names]
             /\ UNCHANGED <<process, tables, connection, gone>>
    <2> DEFINE r == Request("login", NoToken(u), 0)
    <2>1. NoToken(u) = [id |-> 0, name |-> u] /\ NoToken(u) \in [id : Nat, name : Names]
        BY DEF NoToken, NoOne
    <2>2. r \in RequestType /\ r.op = "login" /\ r.token.name = u /\ r.row = 0 /\ r.told = 0 /\ r.shown = {}
        BY <2>1 DEF Request, RequestType, TokenType
    <2>3. pc' = [pc EXCEPT ![t] = "200"] /\ req' = [req EXCEPT ![t] = r] /\ up /\ pc[t] = "idle"
        BY <1>2 DEF Login, Goes
    <2>4. Begins(t, r)
        BY <2>2, <2>3, OneStays DEF Begins, SameButAlone, Answers
    <2>5. tokens' \subseteq [id : Nat, name : Names]
        BY <1>2 DEF Login, Typed, TypeOK, UserType
    <2>6. QED
        BY <1>2, <2>2, <2>3, <2>4, <2>5, OneStays DEF Login, Answers
<1>3. ASSUME NEW tk \in tokens, NEW o \in {"create", "unfit", "list", "search", "admin", "get", "delete"}, NEW i \in Nat,
             Authorize(t, o, tk, i)
      PROVE  /\ pc' \in [Threads -> {"idle", "reading"} \cup Writing \cup Answers]
             /\ req' \in [Threads -> RequestType] /\ OthersStay(t)
             /\ \E r \in RequestType : Begins(t, r)
             /\ UNCHANGED <<process, tables, connection, tokens, gone>>
    <2> DEFINE r == Request(o, tk, i)
    <2>1. tk \in [id : Nat, name : Names]
        BY DEF Typed, TypeOK
    <2>2. r \in RequestType /\ r.op = o /\ r.token = tk /\ r.row = 0 /\ r.told = 0 /\ r.shown = {}
        BY <2>1 DEF Request, RequestType, TokenType
    <2>3. CASE (\E a \in users : a.id = tk.id) /\ o \in {"create", "delete", "unfit"}
        <3>1. pc' = [pc EXCEPT ![t] = "opening"] /\ EntersWith(t, r) /\ up /\ pc[t] = "idle"
            BY <1>3, <2>3 DEF Authorize, Goes
        <3>2. Begins(t, r)
            BY <2>1, <2>2, <2>3, <3>1, OneEnters DEF Begins
        <3>3. QED
            BY <1>3, <2>2, <3>1, <3>2, OneEnters DEF Authorize
    <2>4. CASE ~((\E a \in users : a.id = tk.id) /\ o \in {"create", "delete", "unfit"})
        <3>1. PICK to \in {"401", "reading"} :
                /\ pc' = [pc EXCEPT ![t] = to] /\ req' = [req EXCEPT ![t] = r] /\ up /\ pc[t] = "idle"
                /\ o \in {"create", "delete", "unfit"} => to = "401"
            BY <1>3, <2>4 DEF Authorize, Goes
        <3>2. Begins(t, r)
            BY <2>1, <2>2, <3>1, OneStays DEF Begins, SameButAlone, Answers
        <3>3. QED
            BY <1>3, <2>2, <3>1, <3>2, OneStays DEF Authorize, Answers
    <2>5. QED
        BY <2>3, <2>4
<1>4. CASE Unauthorized(t) \/ Malformed(t)
    BY <1>4 DEF Unauthorized, Malformed, Goes, Typed, TypeOK, Answers, OthersStay, SameButAlone
<1>5. CASE \E u \in Names : Register(t, u)
    BY <1>1, <1>5 DEF Typed, TypeOK
<1>6. CASE \E u \in Names : Login(t, u)
    BY <1>2, <1>6
<1>7. CASE \E tk \in tokens :
                \/ \E o \in {"create", "unfit", "list", "search", "admin"} : Authorize(t, o, tk, 0)
                \/ \E o \in {"get", "delete"}, i \in 1..MaxTasks : Authorize(t, o, tk, i)
    BY <1>3, <1>7, BoundsAssumption DEF Typed, TypeOK
<1>8. QED
    BY <1>4, <1>5, <1>6, <1>7 DEF Asks

\* A route that reads shows some of the rows of the token's account.
LEMMA ReadingShape ==
    ASSUME Typed, NEW t \in Threads, Reads(t)
    PROVE  /\ pc' \in [Threads -> {"idle", "reading"} \cup Writing \cup Answers]
           /\ req' \in [Threads -> RequestType] /\ OthersStay(t)
           /\ pc[t] = "reading" /\ pc'[t] \in {"200", "403", "404"}
           /\ \E S \in SUBSET OwnRows(req[t]) : req'[t] = [req[t] EXCEPT !.shown = S]
           /\ req[t].op \in {"list", "get", "search", "admin"}
           /\ UNCHANGED <<process, tables, connection, tokens, gone>>
<1>1. PICK S \in SUBSET OwnRows(req[t]), to \in {"200", "403", "404"} :
        /\ pc[t] = "reading" /\ pc' = [pc EXCEPT ![t] = to]
        /\ req' = [req EXCEPT ![t].shown = S]
        /\ req[t].op \in {"list", "get", "search", "admin"}
        /\ UNCHANGED <<process, tables, connection, tokens, gone>>
    <2>1. OwnRow(req[t]) \subseteq OwnRows(req[t])
        BY DEF OwnRow, OwnRows
    <2>2. QED
        BY <2>1 DEF Reads, ListTasks, GetTask, SearchTasks, AdminUsers, Shows, Goes
<1>2. req[t] \in RequestType /\ S \in SUBSET [id : Nat, owner_id : Nat, by : Names]
    BY DEF Typed, TypeOK, OwnRows, TaskType
<1>3. [req[t] EXCEPT !.shown = S] \in RequestType
    BY <1>2 DEF RequestType
<1>4. req' = [req EXCEPT ![t] = [req[t] EXCEPT !.shown = S]]
    BY <1>1
<1>5. QED
    BY <1>1, <1>3, <1>4, OneStays DEF Answers

\* The steps inside execute and commit: what each does to the thread
LEMMA WritingShape ==
    ASSUME Typed, NEW t \in Threads, Writes(t)
    PROVE  /\ pc' \in [Threads -> {"idle", "reading"} \cup Writing \cup Answers]
           /\ req' \in [Threads -> RequestType] /\ OthersStay(t)
           /\ pc[t] \in Writing /\ pc'[t] \in (Writing \ {"opening"}) \cup {"200", "201", "404", "500"}
           /\ req'[t].op = req[t].op /\ req'[t].token = req[t].token /\ req'[t].id = req[t].id
           /\ req'[t].shown = req[t].shown /\ req'[t].alone = req[t].alone
           /\ UNCHANGED <<process, tokens>>
<1> USE DEF Typed
<1>1. req[t] \in RequestType /\ req = [x \in Threads |-> req[x]]
    BY DEF TypeOK
<1>2. CASE LookForTransaction(t) \/ Begin(t) \/ InsertUserRefused(t) \/ StatementRefused(t) \/ Commit(t)
    <2>1. PICK to \in (Writing \ {"opening"}) \cup {"200", "201", "404", "500"} :
            pc' = [pc EXCEPT ![t] = to] /\ pc[t] \in Writing /\ req' = req /\ UNCHANGED <<process, tokens>>
        BY <1>2 DEF LookForTransaction, Begin, InsertUserRefused, StatementRefused, Commit, Goes, Writing, Answer
    <2>2. QED
        BY <1>1, <2>1 DEF TypeOK, OthersStay, SameButAlone, Answers
<1>3. CASE InsertUser(t) \/ InsertTask(t) \/ DeleteTask(t)
    <2>1. user_seq + 1 \in Nat /\ task_seq + 1 \in Nat /\ Cardinality(OwnRow(req[t])) \in Nat
        <3>1. IsFiniteSet(OwnRow(req[t]))
            BY FS_Subset DEF OwnRow, Shape
        <3>2. QED
            BY <3>1, FS_CardinalityType DEF TypeOK
    <2>2. PICK n \in Nat :
            /\ pc[t] = "writing" /\ pc' = [pc EXCEPT ![t] = "counting"]
            /\ req' = [req EXCEPT ![t].row = n] /\ UNCHANGED <<process, tokens>>
        BY <1>3, <2>1 DEF InsertUser, InsertTask, DeleteTask, Goes
    <2>3. [req[t] EXCEPT !.row = n] \in RequestType /\ req' = [req EXCEPT ![t] = [req[t] EXCEPT !.row = n]]
        BY <1>1, <2>2 DEF RequestType
    <2>4. /\ pc' \in [Threads -> {"idle", "reading"} \cup Writing \cup Answers]
          /\ req' \in [Threads -> RequestType] /\ OthersStay(t)
          /\ pc'[t] = "counting" /\ req'[t] = [req[t] EXCEPT !.row = n]
        BY <2>2, <2>3, OneStays DEF Writing
    <2>5. QED
        BY <1>1, <2>2, <2>4 DEF Writing, RequestType
<1>4. CASE ReadCounter(t)
    <2> DEFINE n == IF req[t].op = "delete" THEN changes ELSE last_rowid
    <2>1. n \in Nat
        BY DEF TypeOK
    <2>2. [req[t] EXCEPT !.told = n] \in RequestType
        BY <1>1, <2>1 DEF RequestType
    <2>3. PICK to \in {"committing", "200", "201", "404"} :
            /\ pc[t] = "counting" /\ pc' = [pc EXCEPT ![t] = to]
            /\ req' = [req EXCEPT ![t] = [req[t] EXCEPT !.told = n]] /\ UNCHANGED <<process, tokens>>
        BY <1>4 DEF ReadCounter, Goes, Answer
    <2>4. QED
        BY <1>1, <2>2, <2>3, OneStays DEF Writing, Answers, RequestType
<1>5. QED
    BY <1>2, <1>3, <1>4 DEF Writes

\* The statements keep the tables and the connection of their types.
LEMMA WritingTables ==
    ASSUME Typed, NEW t \in Threads, Writes(t)
    PROVE  /\ users' \subseteq UserType /\ tasks' \subseteq TaskType
           /\ user_seq' \in Nat /\ task_seq' \in Nat
           /\ saved' \in [users : SUBSET UserType, tasks : SUBSET TaskType]
           /\ open' \in BOOLEAN /\ last_rowid' \in Nat /\ changes' \in Nat
           /\ gone' \subseteq Nat /\ IsFiniteSet(tasks')
<1> USE DEF Typed
<1>1. req[t] \in RequestType /\ (req[t].op # "none" => req[t].token.name \in Names)
    BY DEF TypeOK, Shape
<1>2. CASE LookForTransaction(t) \/ ReadCounter(t)
    BY <1>2 DEF LookForTransaction, ReadCounter, tables, connection, TypeOK, Shape
<1>8. CASE Begin(t)
    BY <1>8 DEF Begin, tables, TypeOK, Shape
<1>9. CASE InsertUserRefused(t) \/ StatementRefused(t)
    <2>1. UNCHANGED <<users, tasks, user_seq, task_seq, saved, open, last_rowid, gone>>
        BY <1>9 DEF InsertUserRefused, StatementRefused, tables
    <2>2. changes' = 0 \/ changes' = changes
        BY <1>9 DEF InsertUserRefused, StatementRefused
    <2>3. QED
        BY <2>1, <2>2 DEF TypeOK, Shape
<1>7. CASE Commit(t)
    <2>1. [users |-> users, tasks |-> tasks] \in [users : SUBSET UserType, tasks : SUBSET TaskType]
        BY DEF TypeOK
    <2>2. QED
        BY <1>7, <2>1 DEF Commit, tables, TypeOK, Shape
<1>3. CASE InsertUser(t)
    <2>1. [id |-> user_seq + 1, username |-> req[t].token.name] \in UserType
        BY <1>1, <1>3 DEF InsertUser, UserType, TypeOK
    <2>2. QED
        BY <1>3, <2>1 DEF InsertUser, SavesUnlessOpen, TypeOK, Shape
<1>4. CASE InsertTask(t)
    <2> DEFINE k == [id |-> task_seq + 1, owner_id |-> req[t].token.id, by |-> req[t].token.name]
    <2>1. k \in TaskType
        BY <1>1, <1>4 DEF InsertTask, TaskType, RequestType, TokenType, TypeOK
    <2>2. tasks' = tasks \cup {k} /\ IsFiniteSet(tasks')
        BY <1>4, FS_AddElement DEF InsertTask, Shape
    <2>3. QED
        BY <1>4, <2>1, <2>2 DEF InsertTask, SavesUnlessOpen, TypeOK
<1>5. CASE DeleteTask(t)
    <2>1. IsFiniteSet(OwnRow(req[t])) /\ IsFiniteSet(tasks \ OwnRow(req[t]))
        BY FS_Subset DEF OwnRow, Shape
    <2>2. Cardinality(OwnRow(req[t])) \in Nat
        BY <2>1, FS_CardinalityType
    <2>3. {k.id : k \in OwnRow(req[t])} \subseteq Nat
        BY DEF OwnRow, TypeOK, TaskType
    <2>4. tasks' = tasks \ OwnRow(req[t]) /\ changes' = Cardinality(OwnRow(req[t]))
          /\ gone' = gone \cup {k.id : k \in OwnRow(req[t])}
          /\ UNCHANGED <<users, user_seq, task_seq, open, last_rowid>> /\ SavesUnlessOpen
        BY <1>5 DEF DeleteTask
    <2>5. QED
        BY <2>1, <2>2, <2>3, <2>4 DEF SavesUnlessOpen, TypeOK
<1>6. QED
    BY <1>2, <1>3, <1>4, <1>5, <1>7, <1>8, <1>9 DEF Writes

LEMMA TypedInit == Init => Typed
<1> SUFFICES ASSUME Init PROVE Typed
    OBVIOUS
<1>1. TypeOK
    BY NoRequestIsOne DEF Init, TypeOK, UserType, TaskType
<1>2. Shape
    BY NoRequestIsOne, FS_EmptySet DEF Init, Shape, Writing
<1>3. QED
    BY <1>1, <1>2 DEF Typed

LEMMA TypedStep == Typed /\ [Next]_vars => Typed'
<1> SUFFICES ASSUME Typed, [Next]_vars PROVE Typed'
    OBVIOUS
<1>1. ASSUME NEW t \in Threads, Asks(t) PROVE Typed'
    <2>1. TypeOK'
        BY <1>1, AskingShape DEF Typed, TypeOK, process, tables, connection
    <2>2. \A x \in Threads \ {t} : pc'[x] = pc[x] /\ SameButAlone(req'[x], req[x])
        BY <1>1, AskingShape DEF OthersStay
    <2>3. up /\ UNCHANGED <<process, tables>>
        BY <1>1, AskingShape DEF Asks, Register, Login, Authorize, Unauthorized, Malformed
    <2>4. /\ req'[t].op # "none" => req'[t].token.name \in Names
          /\ pc'[t] # "idle"
          /\ pc'[t] \in Writing => req'[t].op \in {"register", "create", "unfit", "delete"}
        <3>1. CASE \E r \in RequestType : Begins(t, r)
            BY <3>1 DEF Begins, SameButAlone, Writing
        <3>2. CASE pc[t] = "idle" /\ pc'[t] \in {"401", "500"} /\ req' = req
            BY <3>2 DEF Typed, Shape, Writing
        <3>3. QED
            BY <1>1, <3>1, <3>2, AskingShape
    <2>5. \A x \in Threads \ {t} : pc[x] = "idle" => req'[x] = req[x]
        BY <1>1, AskingShape DEF OthersStay, Writing
    <2>6. QED
        BY <2>1, <2>2, <2>3, <2>4, <2>5 DEF Typed, Shape, SameButAlone, process, tables
<1>2. ASSUME NEW t \in Threads, Reads(t) PROVE Typed'
    <2>1. TypeOK'
        BY <1>2, ReadingShape DEF Typed, TypeOK, process, tables, connection
    <2>2. PICK S : req'[t] = [req[t] EXCEPT !.shown = S]
        BY <1>2, ReadingShape
    <2>3. req'[t].op = req[t].op /\ req'[t].token = req[t].token
        BY <2>2 DEF Typed, TypeOK, RequestType
    <2>4. pc[t] # "idle" /\ pc'[t] # "idle" /\ pc'[t] \notin Writing /\ UNCHANGED <<process, tables>> /\ OthersStay(t)
        BY <1>2, ReadingShape DEF Writing
    <2>5. Shape'
        BY <2>3, <2>4 DEF Typed, Shape, OthersStay, SameButAlone, Writing, process, tables
    <2>6. QED
        BY <2>1, <2>5 DEF Typed
<1>3. ASSUME NEW t \in Threads, Writes(t) PROVE Typed'
    <2>1. TypeOK'
        BY <1>3, WritingShape, WritingTables DEF Typed, TypeOK, process
    <2>2. /\ pc[t] \in Writing /\ pc'[t] # "idle" /\ req'[t].op = req[t].op /\ req'[t].token = req[t].token
          /\ UNCHANGED process /\ OthersStay(t) /\ IsFiniteSet(tasks')
        BY <1>3, WritingShape, WritingTables DEF Writing
    <2>3. up
        BY <2>2 DEF Typed, Shape, Writing
    <2>4. Shape'
        BY <2>2, <2>3 DEF Typed, Shape, OthersStay, SameButAlone, Writing, process
    <2>5. QED
        BY <2>1, <2>4 DEF Typed
<1>4. ASSUME NEW t \in Threads, Finish(t) PROVE Typed'
    <2>1. pc' = [pc EXCEPT ![t] = "idle"] /\ req' = [req EXCEPT ![t] = NoRequest]
          /\ UNCHANGED <<process, tables, connection, tokens, gone>> /\ pc[t] \in Answers
        BY <1>4 DEF Finish
    <2>2. TypeOK'
        BY <2>1, NoRequestIsOne DEF Typed, TypeOK, process, tables, connection
    <2>3. Shape'
        BY <2>1, NoRequestIsOne DEF Typed, TypeOK, Shape, Answers, Writing, process, tables
    <2>4. QED
        BY <2>2, <2>3 DEF Typed
<1>5. CASE Kill
    <2>1. TypeOK'
        BY <1>5, NoRequestIsOne DEF Kill, Typed, TypeOK, UserType, TaskType
    <2>2. Shape'
        BY <1>5, NoRequestIsOne, FS_EmptySet DEF Kill, Shape, Writing
    <2>3. QED
        BY <2>1, <2>2 DEF Typed
<1>6. CASE Start \/ StartWithSecret
    <2>1. TypeOK'
        BY <1>6 DEF Start, StartWithSecret, StartOver, Typed, TypeOK, tables, connection
    <2>2. Shape'
        BY <1>6 DEF Start, StartWithSecret, StartOver, Typed, Shape, tables
    <2>3. QED
        BY <2>1, <2>2 DEF Typed
<1>7. CASE UNCHANGED vars
    BY <1>7 DEF vars, process, tables, connection, Typed, TypeOK, Shape
<1>8. QED
    BY <1>1, <1>2, <1>3, <1>4, <1>5, <1>6, <1>7, Steps DEF Serves

LEMMA AlwaysTyped == Spec => []Typed
    BY TypedInit, TypedStep, PTL DEF Spec

\* Every variable keeps its type, for any number of threads and names
\* (create_app and its routes).
THEOREM TaskApiTypeCorrect == Spec => []TypeOK
<1>1. Typed => TypeOK
    BY DEF Typed
<1>2. QED
    BY <1>1, AlwaysTyped, PTL

----------------------------------------------------------------------------
(* Ids: AUTOINCREMENT counts above every id that is or was in a table. *)

Ids ==
    /\ \A a, b \in users : a.username = b.username \/ a.id = b.id => a = b
    /\ \A a \in users : a.id <= user_seq
    /\ \A k, l \in tasks : k.id = l.id => k = l
    /\ \A k \in tasks : k.id <= task_seq
    /\ \A i \in gone : i <= task_seq
    /\ GoneForGood

\* Three statements, and the end of the process, change the tables.
LEMMA TablesChange ==
    ASSUME Typed, [Next]_vars
    PROVE  \/ UNCHANGED <<tables, gone>>
           \/ \E t \in Threads : InsertUser(t) \/ InsertTask(t) \/ DeleteTask(t)
           \/ Kill
<1>1. ASSUME NEW t \in Threads, Asks(t) PROVE UNCHANGED <<tables, gone>>
    BY <1>1, AskingShape
<1>2. ASSUME NEW t \in Threads, Reads(t) PROVE UNCHANGED <<tables, gone>>
    BY <1>2, ReadingShape
<1>3. ASSUME NEW t \in Threads,
             LookForTransaction(t) \/ Begin(t) \/ InsertUserRefused(t)
             \/ StatementRefused(t) \/ ReadCounter(t) \/ Commit(t) \/ Finish(t)
      PROVE  UNCHANGED <<tables, gone>>
    BY <1>3 DEF LookForTransaction, Begin, InsertUserRefused, StatementRefused, ReadCounter, Commit, Finish
<1>4. CASE Start \/ StartWithSecret
    BY <1>4 DEF Start, StartWithSecret, StartOver
<1>5. CASE UNCHANGED vars
    BY <1>5 DEF vars
<1>6. QED
    BY <1>1, <1>2, <1>3, <1>4, <1>5, Steps DEF Serves, Writes

LEMMA IdsStep == Typed /\ Ids /\ [Next]_vars => Ids'
<1> SUFFICES ASSUME Typed, Ids, [Next]_vars PROVE Ids'
    OBVIOUS
<1>1. CASE UNCHANGED <<tables, gone>>
    BY <1>1 DEF tables, Ids, GoneForGood
<1>2. ASSUME NEW t \in Threads, InsertUser(t) PROVE Ids'
    <2> DEFINE a == [id |-> user_seq + 1, username |-> req[t].token.name]
    <2>1. /\ users' = users \cup {a} /\ a.id = user_seq + 1 /\ user_seq' = user_seq + 1
          /\ \A b \in users : b.username # a.username
          /\ UNCHANGED <<tasks, task_seq, gone>>
        BY <1>2 DEF InsertUser
    <2> HIDE DEF a
    <2>2. user_seq \in Nat /\ \A b \in users : b.id \in Nat
        BY DEF Typed, TypeOK, UserType
    <2>3. QED
        BY <2>1, <2>2 DEF Ids, GoneForGood
<1>3. ASSUME NEW t \in Threads, InsertTask(t) PROVE Ids'
    <2>1. PICK k : /\ tasks' = tasks \cup {k} /\ k.id = task_seq + 1 /\ task_seq' = task_seq + 1
                   /\ UNCHANGED <<users, user_seq, gone>>
        BY <1>3 DEF InsertTask
    <2>2. task_seq \in Nat /\ (\A l \in tasks : l.id \in Nat) /\ \A i \in gone : i \in Nat
        BY DEF Typed, TypeOK, TaskType
    <2>3. QED
        BY <2>1, <2>2 DEF Ids, GoneForGood
<1>4. ASSUME NEW t \in Threads, DeleteTask(t) PROVE Ids'
    <2>1. /\ tasks' = tasks \ OwnRow(req[t]) /\ gone' = gone \cup {k.id : k \in OwnRow(req[t])}
          /\ UNCHANGED <<users, user_seq, task_seq>> /\ OwnRow(req[t]) \subseteq tasks
        BY <1>4 DEF DeleteTask, OwnRow
    <2>2. QED
        BY <2>1 DEF Ids, GoneForGood
<1>5. CASE Kill
    BY <1>5 DEF Kill, Ids, GoneForGood
<1>6. QED
    BY <1>1, <1>2, <1>3, <1>4, <1>5, TablesChange

LEMMA AlwaysIds == Spec => []Ids
<1>1. Init => Ids
    BY DEF Init, Ids, GoneForGood
<1>2. QED
    BY <1>1, IdsStep, AlwaysTyped, PTL DEF Spec

\* The id of a task that was deleted never names another one (app.py:30, 136-142).
THEOREM IdsAreGoneForGood == Spec => []GoneForGood
<1>1. Ids => GoneForGood
    BY DEF Ids
<1>2. QED
    BY <1>1, AlwaysIds, PTL

----------------------------------------------------------------------------
(* Whose rows: a token, a task and a request all name an account that is there. *)

Authed == {"create", "delete", "list", "get", "search", "admin"}
Account(i, u) == [id |-> i, username |-> u]

Owners ==
    up /\ ~key_kept =>
        /\ \A tk \in tokens : Account(tk.id, tk.name) \in users
        /\ \A k \in tasks : Account(k.owner_id, k.by) \in users
        /\ \A t \in Threads : req[t].op \in Authed => Account(req[t].token.id, req[t].token.name) \in users

Own == Owners /\ OwnTasksOnly

LEMMA OwnStep == Typed /\ Ids /\ Own /\ [Next]_vars => Own'
<1> SUFFICES ASSUME Typed, Ids, Own, [Next]_vars PROVE Own'
    OBVIOUS
<1>1. ASSUME NEW t \in Threads, Asks(t) PROVE Own'
    <2>1. OthersStay(t) /\ UNCHANGED <<process, tables>>
        BY <1>1, AskingShape
    <2>2. up /\ ~key_kept => \A tk \in tokens' : Account(tk.id, tk.name) \in users
        <3>1. CASE \E u \in Names : Login(t, u)
            <4>1. PICK u \in Names, a \in users : a.username = u /\ tokens' = tokens \cup {[id |-> a.id, name |-> u]}
                BY <3>1 DEF Login
            <4>2. Account(a.id, u) = a
                BY <4>1 DEF Account, Typed, TypeOK, UserType
            <4>3. QED
                BY <4>1, <4>2 DEF Own, Owners
        <3>2. CASE ~\E u \in Names : Login(t, u)
            <4>1. tokens' = tokens
                BY <1>1, <3>2 DEF Asks, Register, Authorize, Unauthorized, Malformed
            <4>2. QED
                BY <4>1 DEF Own, Owners
        <3>3. QED
            BY <3>1, <3>2
    <2>3. up /\ ~key_kept /\ req'[t].op \in Authed => Account(req'[t].token.id, req'[t].token.name) \in users
        <3>1. CASE \E r \in RequestType : Begins(t, r)
            BY <3>1 DEF Begins, SameButAlone, Authed, Own, Owners
        <3>2. CASE req' = req
            BY <3>2 DEF Own, Owners
        <3>3. QED
            BY <1>1, <3>1, <3>2, AskingShape
    <2>4. ~key_kept => \A k \in req'[t].shown : k.by = req'[t].token.name
        <3>1. CASE \E r \in RequestType : Begins(t, r)
            BY <3>1 DEF Begins, SameButAlone
        <3>2. CASE req' = req
            BY <3>2 DEF Own, OwnTasksOnly
        <3>3. QED
            BY <1>1, <3>1, <3>2, AskingShape
    <2>5. Owners'
        BY <2>1, <2>2, <2>3 DEF Own, Owners, OthersStay, SameButAlone, process, tables
    <2>6. OwnTasksOnly'
        BY <2>1, <2>4 DEF Own, OwnTasksOnly, OthersStay, SameButAlone, process
    <2>7. QED
        BY <2>5, <2>6 DEF Own
<1>2. ASSUME NEW t \in Threads, Reads(t) PROVE Own'
    <2>1. OthersStay(t) /\ UNCHANGED <<process, tables, tokens>> /\ pc[t] = "reading"
          /\ req[t].op \in {"list", "get", "search", "admin"}
        BY <1>2, ReadingShape
    <2>2. PICK S \in SUBSET OwnRows(req[t]) : req'[t] = [req[t] EXCEPT !.shown = S]
        BY <1>2, ReadingShape
    <2>3. req'[t].op = req[t].op /\ req'[t].token = req[t].token /\ req'[t].shown = S
        BY <2>2 DEF Typed, TypeOK, RequestType
    <2>4. up
        BY <2>1 DEF Typed, Shape
    <2>5. ASSUME ~key_kept, NEW k \in S PROVE k.by = req[t].token.name
        <3>1. k \in tasks /\ k.owner_id = req[t].token.id
            BY <2>2 DEF OwnRows
        <3>2. Account(k.owner_id, k.by) \in users /\ Account(k.owner_id, req[t].token.name) \in users
            BY <2>1, <2>4, <2>5, <3>1 DEF Own, Owners, Authed
        <3>3. Account(k.owner_id, k.by) = Account(k.owner_id, req[t].token.name)
            BY <3>2 DEF Ids, Account
        <3>4. QED
            BY <3>3 DEF Account
    <2>6. Owners'
        BY <2>1, <2>3 DEF Own, Owners, OthersStay, SameButAlone, process, tables
    <2>7. OwnTasksOnly'
        BY <2>1, <2>3, <2>5 DEF Own, OwnTasksOnly, OthersStay, SameButAlone, process
    <2>8. QED
        BY <2>6, <2>7 DEF Own
<1>3. ASSUME NEW t \in Threads, Writes(t) PROVE Own'
    <2>1. /\ OthersStay(t) /\ UNCHANGED <<process, tokens>> /\ pc[t] \in Writing
          /\ req'[t].op = req[t].op /\ req'[t].token = req[t].token /\ req'[t].shown = req[t].shown
        BY <1>3, WritingShape
    <2>2. up
        BY <2>1 DEF Typed, Shape, Writing
    <2>3. users \subseteq users'
        BY <1>3, <2>2, TablesChange DEF Kill, tables, InsertUser, InsertTask, DeleteTask, Writes,
              LookForTransaction, Begin, InsertUserRefused, StatementRefused, ReadCounter, Commit
    <2>4. ASSUME ~key_kept, NEW k \in tasks' PROVE Account(k.owner_id, k.by) \in users'
        <3>1. CASE k \in tasks
            BY <2>2, <2>3, <2>4, <3>1 DEF Own, Owners
        <3>2. CASE k \notin tasks
            <4>1. InsertTask(t)
                BY <1>3, <3>2 DEF InsertUser, DeleteTask, Writes,
                    LookForTransaction, Begin, InsertUserRefused, StatementRefused, ReadCounter, Commit, tables
            <4>2. k.owner_id = req[t].token.id /\ k.by = req[t].token.name /\ req[t].op = "create"
                BY <4>1, <3>2 DEF InsertTask
            <4>3. QED
                BY <2>2, <2>3, <2>4, <4>2 DEF Own, Owners, Authed
        <3>3. QED
            BY <3>1, <3>2
    <2>5. Owners'
        BY <2>1, <2>2, <2>3, <2>4 DEF Own, Owners, OthersStay, SameButAlone, process
    <2>6. OwnTasksOnly'
        BY <2>1 DEF Own, OwnTasksOnly, OthersStay, SameButAlone, process
    <2>7. QED
        BY <2>5, <2>6 DEF Own
<1>4. ASSUME NEW t \in Threads, Finish(t) PROVE Own'
    BY <1>4, NoRequestIsOne DEF Finish, Own, Owners, OwnTasksOnly, Authed, Typed, TypeOK, process, tables
<1>5. CASE Kill
    BY <1>5, NoRequestIsOne DEF Kill, Own, Owners, OwnTasksOnly
<1>6. CASE Start
    BY <1>6, NoRequestIsOne DEF Start, StartOver, Own, Owners, OwnTasksOnly, Typed, Shape, tables, Authed
<1>7. CASE StartWithSecret
    BY <1>7 DEF StartWithSecret, StartOver, Own, Owners, OwnTasksOnly
<1>8. CASE UNCHANGED vars
    BY <1>8 DEF vars, process, tables, Own, Owners, OwnTasksOnly
<1>9. QED
    BY <1>1, <1>2, <1>3, <1>4, <1>5, <1>6, <1>7, <1>8, Steps DEF Serves

LEMMA AlwaysOwn == Spec => []Own
<1>1. Init => Own
    BY NoRequestIsOne DEF Init, Own, Owners, OwnTasksOnly, Authed
<1>2. QED
    BY <1>1, OwnStep, AlwaysTyped, AlwaysIds, PTL DEF Spec

\* Nobody is shown a task that another account created, whatever is running
\* beside the request and however often the server was started with a key of
\* its own (app.py:72-75, 114, 124-126, 164-167).
THEOREM NobodyElsesTasks == Spec => []OwnTasksOnly
<1>1. Own => OwnTasksOnly
    BY DEF Own
<1>2. QED
    BY <1>1, AlwaysOwn, PTL

----------------------------------------------------------------------------
(* What is acknowledged: from its statement on, a request's row is there. *)

Inserted == {"counting", "committing", "201"}
Deleted == {"counting", "committing", "200"}

RowOf(t) ==
    /\ pc[t] \in Inserted /\ req[t].op = "register" => Account(req[t].row, req[t].token.name) \in users
    /\ pc[t] \in Inserted /\ req[t].op = "create" => req[t].row \in gone \/ \E k \in tasks : k.id = req[t].row
    /\ pc[t] \in Deleted /\ req[t].op = "delete" /\ req[t].row = 1 => req[t].id \in gone
Rows == \A t \in Threads : RowOf(t)

Registers(t) == pc[t] \in Inserted /\ req[t].op = "register"
OneEach ==
    \A t, x \in Threads : Registers(t) /\ Registers(x) /\ req[t].token.name = req[x].token.name => t = x

Tables == [users |-> users, tasks |-> tasks]
Kept == ~open => saved = Tables

Acked == Rows /\ OneEach /\ Kept /\ AcksAreSaved

LEMMA KeptStep ==
    ASSUME Kept, [Next]_vars
    PROVE  Kept' /\ (saved' = saved \/ saved' = Tables')
<1> USE DEF Kept, Tables
<1>1. ASSUME NEW t \in Threads, Asks(t) \/ Reads(t) \/ Finish(t) PROVE UNCHANGED <<tables, connection>>
    BY <1>1 DEF Asks, Register, Login, Authorize, Unauthorized, Malformed, Reads, ListTasks, GetTask, SearchTasks,
                AdminUsers, Shows, Finish
<1>2. ASSUME NEW t \in Threads, LookForTransaction(t) \/ ReadCounter(t) PROVE UNCHANGED <<tables, connection>>
    BY <1>2 DEF LookForTransaction, ReadCounter
<1>3. ASSUME NEW t \in Threads, Begin(t) \/ InsertUserRefused(t) \/ StatementRefused(t)
      PROVE  Kept' /\ (saved' = saved \/ saved' = Tables')
    BY <1>3 DEF Begin, InsertUserRefused, StatementRefused, tables
<1>4. ASSUME NEW t \in Threads, InsertUser(t) \/ InsertTask(t) \/ DeleteTask(t)
      PROVE  Kept' /\ (saved' = saved \/ saved' = Tables')
    BY <1>4 DEF InsertUser, InsertTask, DeleteTask, SavesUnlessOpen
<1>5. ASSUME NEW t \in Threads, Commit(t)
      PROVE  Kept' /\ (saved' = saved \/ saved' = Tables')
    BY <1>5 DEF Commit, tables
<1>6. CASE Kill
    BY <1>6 DEF Kill
<1>7. CASE Start \/ StartWithSecret
    BY <1>7 DEF Start, StartWithSecret, StartOver, tables, connection
<1>8. CASE UNCHANGED <<tables, connection>>
    BY <1>8 DEF tables, connection
<1>9. QED
    BY <1>1, <1>2, <1>3, <1>4, <1>5, <1>6, <1>7, <1>8, Steps DEF Serves, Writes, vars

\* What the statements of a thread do to the rows of all of them
LEMMA RowsGrow ==
    ASSUME Typed, NEW t \in Threads, Serves(t)
    PROVE  /\ users \subseteq users' /\ gone \subseteq gone'
           /\ \A k \in tasks : k \in tasks' \/ k.id \in gone'
<1>1. CASE Asks(t)
    BY <1>1, AskingShape DEF tables
<1>2. CASE Reads(t)
    BY <1>2, ReadingShape DEF tables
<1>3. CASE Finish(t)
    BY <1>3 DEF Finish, tables
<1>4. CASE Writes(t)
    BY <1>4 DEF Writes, InsertUser, InsertTask, DeleteTask, LookForTransaction, Begin, InsertUserRefused,
                StatementRefused, ReadCounter, Commit, tables
<1>5. QED
    BY <1>1, <1>2, <1>3, <1>4 DEF Serves

LEMMA RowsOfOthers ==
    ASSUME Typed, Rows, NEW t \in Threads, Serves(t), OthersStay(t), NEW x \in Threads \ {t}
    PROVE  RowOf(x)'
<1>1. RowOf(x) /\ pc'[x] = pc[x] /\ SameButAlone(req'[x], req[x])
    BY DEF Rows, OthersStay
<1>2. QED
    BY <1>1, RowsGrow DEF RowOf, SameButAlone

\* The row of the thread itself, and that its name is its own
LEMMA RowOfWriter ==
    ASSUME Typed, Rows, NEW t \in Threads, Writes(t)
    PROVE  /\ RowOf(t)'
           /\ Registers(t)' => \/ Registers(t)
                               \/ ~\E a \in users : a.username = req[t].token.name
<1>1. req[t] \in RequestType /\ req \in [Threads -> RequestType]
      /\ pc \in [Threads -> {"idle", "reading"} \cup Writing \cup Answers]
    BY DEF Typed, TypeOK
<1>2. CASE LookForTransaction(t) \/ Begin(t) \/ InsertUserRefused(t) \/ StatementRefused(t)
    <2>1. pc'[t] \in {"beginning", "writing", "500"}
        BY <1>1, <1>2 DEF LookForTransaction, Begin, InsertUserRefused, StatementRefused, Goes
    <2>2. QED
        BY <2>1 DEF RowOf, Registers, Inserted, Deleted
<1>3. CASE InsertUser(t)
    <2>1. /\ req'[t] = [req[t] EXCEPT !.row = user_seq + 1] /\ req[t].op = "register"
          /\ users' = users \cup {[id |-> user_seq + 1, username |-> req[t].token.name]}
          /\ ~\E a \in users : a.username = req[t].token.name
        BY <1>1, <1>3 DEF InsertUser
    <2>2. req'[t].op = "register" /\ req'[t].row = user_seq + 1 /\ req'[t].token = req[t].token
        BY <1>1, <2>1 DEF RequestType
    <2>3. QED
        BY <2>1, <2>2 DEF RowOf, Account
<1>4. CASE InsertTask(t)
    <2>1. /\ req'[t] = [req[t] EXCEPT !.row = task_seq + 1] /\ req[t].op = "create"
          /\ tasks' = tasks \cup {[id |-> task_seq + 1, owner_id |-> req[t].token.id, by |-> req[t].token.name]}
        BY <1>1, <1>4 DEF InsertTask
    <2>2. req'[t].op = "create" /\ req'[t].row = task_seq + 1
        BY <1>1, <2>1 DEF RequestType
    <2>3. \E k \in tasks' : k.id = task_seq + 1
        <3>1. [id |-> task_seq + 1, owner_id |-> req[t].token.id, by |-> req[t].token.name] \in tasks'
            BY <2>1
        <3>2. QED
            BY <3>1
    <2>4. QED
        BY <2>2, <2>3 DEF RowOf, Registers
<1>5. CASE DeleteTask(t)
    <2>1. /\ req'[t] = [req[t] EXCEPT !.row = Cardinality(OwnRow(req[t]))] /\ req[t].op = "delete"
          /\ gone' = gone \cup {k.id : k \in OwnRow(req[t])}
        BY <1>1, <1>5 DEF DeleteTask
    <2>2. req'[t].op = "delete" /\ req'[t].id = req[t].id /\ req'[t].row = Cardinality(OwnRow(req[t]))
        BY <1>1, <2>1 DEF RequestType
    <2>3. Cardinality(OwnRow(req[t])) = 1 => req[t].id \in gone'
        <3>1. OwnRow(req[t]) = {} => Cardinality(OwnRow(req[t])) = 0
            BY FS_EmptySet
        <3>2. \A k \in OwnRow(req[t]) : k.id = req[t].id
            BY DEF OwnRow
        <3>3. QED
            BY <2>1, <3>1, <3>2
    <2>4. QED
        BY <2>2, <2>3 DEF RowOf, Registers
<1>6. CASE ReadCounter(t) \/ Commit(t)
    <2>1. /\ pc[t] \in {"counting", "committing"} /\ UNCHANGED <<users, tasks, gone>>
          /\ req'[t].op = req[t].op /\ req'[t].row = req[t].row /\ req'[t].id = req[t].id
          /\ req'[t].token = req[t].token
        BY <1>1, <1>6 DEF ReadCounter, Commit, Goes, tables, RequestType
    <2>2. RowOf(t)
        BY DEF Rows
    <2>3. QED
        BY <2>1, <2>2 DEF RowOf, Registers, Inserted, Deleted
<1>7. QED
    BY <1>2, <1>3, <1>4, <1>5, <1>6 DEF Writes

\* A request that begins, is read for or is finished has no row yet.
LEMMA NoRowYet ==
    ASSUME Typed, NEW t \in Threads, Asks(t) \/ Reads(t) \/ Finish(t)
    PROVE  /\ ~(pc'[t] = "201")
           /\ ~(pc'[t] \in {"counting", "committing"})
           /\ ~(pc'[t] = "200" /\ req'[t].op = "delete")
<1>1. CASE Asks(t)
    <2>1. CASE \E r \in RequestType : Begins(t, r)
        BY <2>1 DEF Begins, SameButAlone
    <2>2. QED
        BY <1>1, <2>1, AskingShape
<1>2. CASE Reads(t)
    <2>1. PICK S : req'[t] = [req[t] EXCEPT !.shown = S]
        BY <1>2, ReadingShape
    <2>2. req'[t].op = req[t].op
        BY <2>1 DEF Typed, TypeOK, RequestType
    <2>3. QED
        BY <1>2, <2>2, ReadingShape
<1>3. CASE Finish(t)
    BY <1>3 DEF Finish, Typed, TypeOK
<1>4. QED
    BY <1>1, <1>2, <1>3

LEMMA ServesOthers ==
    ASSUME Typed, NEW t \in Threads, Serves(t)
    PROVE  OthersStay(t)
<1>1. CASE Finish(t)
    BY <1>1 DEF Finish, OthersStay, SameButAlone, Typed, TypeOK
<1>2. QED
    BY <1>1, AskingShape, ReadingShape, WritingShape DEF Serves

LEMMA AckedStep == Typed /\ Ids /\ Ids' /\ Acked /\ [Next]_vars => Acked'
<1> SUFFICES ASSUME Typed, Ids, Ids', Acked, [Next]_vars PROVE Acked'
    OBVIOUS
<1> USE DEF Acked
<1>1. Kept' /\ (saved' = saved \/ saved' = Tables')
    BY KeptStep
\* If the tables are what is saved, the rows that are there are.
<1>2. ASSUME Rows', saved' = Tables' PROVE AcksAreSaved'
    <2>1. ASSUME NEW x \in Threads, pc'[x] = "201", req'[x].op = "register"
          PROVE  \E a \in saved'.users : a.id = req'[x].row
        BY <1>2, <2>1 DEF Rows, RowOf, Inserted, Tables, Account
    <2>2. ASSUME NEW x \in Threads, pc'[x] = "201", req'[x].op = "create"
          PROVE  req'[x].row \in gone' \/ \E k \in saved'.tasks : k.id = req'[x].row
        BY <1>2, <2>2 DEF Rows, RowOf, Inserted, Tables
    <2>3. ASSUME NEW x \in Threads, pc'[x] = "200", req'[x].op = "delete", req'[x].row = 1
          PROVE  ~\E k \in saved'.tasks : k.id = req'[x].id
        BY <1>2, <2>3 DEF Rows, RowOf, Deleted, Tables, Ids, GoneForGood
    <2>4. QED
        BY <2>1, <2>2, <2>3 DEF AcksAreSaved
<1>3. ASSUME NEW t \in Threads, Serves(t) PROVE Acked'
    <2>1. OthersStay(t) /\ gone \subseteq gone'
        BY <1>3, ServesOthers, RowsGrow
    <2>2. RowOf(t)' /\ (Registers(t)' => Registers(t) \/ ~\E a \in users : a.username = req[t].token.name)
        <3>1. CASE Writes(t)
            BY <3>1, RowOfWriter
        <3>2. CASE ~Writes(t)
            BY <1>3, <3>2, NoRowYet DEF Serves, RowOf, Registers, Inserted, Deleted
        <3>3. QED
            BY <3>1, <3>2
    <2>3. Rows'
        <3>1. \A x \in Threads \ {t} : RowOf(x)'
            BY <1>3, <2>1, RowsOfOthers
        <3>2. QED
            BY <2>2, <3>1 DEF Rows
    <2>4. Registers(t)' => req'[t].token = req[t].token
        <3>1. CASE Writes(t)
            BY <3>1, WritingShape
        <3>2. CASE ~Writes(t)
            BY <1>3, <3>2, NoRowYet DEF Serves, Registers, Inserted
        <3>3. QED
            BY <3>1, <3>2
    <2>5. OneEach'
        <3>1. ASSUME NEW x \in Threads \ {t}, Registers(t)', Registers(x)', req'[t].token.name = req'[x].token.name
              PROVE  FALSE
            <4>1. Registers(x) /\ req[x].token.name = req[t].token.name
                BY <2>1, <2>4, <3>1 DEF OthersStay, SameButAlone, Registers
            <4>2. Account(req[x].row, req[x].token.name) \in users
                BY <4>1 DEF Rows, RowOf, Registers
            <4>3. Account(req[x].row, req[x].token.name).username = req[t].token.name
                BY <4>1 DEF Account
            <4>4. Registers(t)
                BY <2>2, <3>1, <4>2, <4>3
            <4>5. QED
                BY <4>1, <4>4 DEF OneEach
        <3>2. ASSUME NEW x \in Threads \ {t}, NEW y \in Threads \ {t}, Registers(x)', Registers(y)',
                     req'[x].token.name = req'[y].token.name
              PROVE  x = y
            BY <2>1, <3>2 DEF OthersStay, SameButAlone, Registers, OneEach
        <3>3. QED
            BY <3>1, <3>2 DEF OneEach
    <2>6. AcksAreSaved'
        <3>1. CASE saved' = Tables'
            BY <1>2, <2>3, <3>1
        <3>2. CASE saved' = saved /\ saved' # Tables'
            <4>1. ASSUME Writes(t), pc'[t] \in {"200", "201"} PROVE FALSE
                <5>1. ReadCounter(t) \/ Commit(t)
                    BY <4>1 DEF Writes, LookForTransaction, Begin, InsertUserRefused, StatementRefused, InsertUser, InsertTask,
                                DeleteTask, Goes, Typed, TypeOK
                <5>2. UNCHANGED tables
                    BY <5>1 DEF ReadCounter, Commit
                <5>3. saved = Tables \/ saved' = Tables
                    BY <4>1, <5>1 DEF ReadCounter, Commit, Goes, Typed, TypeOK, Kept, Tables
                <5>4. QED
                    BY <3>2, <5>2, <5>3 DEF Tables, tables
            <4>2. ASSUME ~Writes(t) PROVE pc'[t] # "201" /\ ~(pc'[t] = "200" /\ req'[t].op = "delete")
                BY <1>3, <4>2, NoRowYet DEF Serves
            <4>3. QED
                BY <2>1, <3>2, <4>1, <4>2 DEF AcksAreSaved, OthersStay, SameButAlone
        <3>3. QED
            BY <1>1, <3>1, <3>2
    <2>7. QED
        BY <1>1, <2>3, <2>5, <2>6
<1>4. CASE Kill
    <2>1. \A x \in Threads : pc'[x] = "idle"
        BY <1>4 DEF Kill
    <2>2. QED
        BY <1>1, <2>1 DEF Rows, RowOf, OneEach, Registers, AcksAreSaved, Inserted, Deleted
<1>5. CASE Start \/ StartWithSecret \/ UNCHANGED vars
    <2>1. UNCHANGED <<tables, saved, pc, req, gone>>
        BY <1>5 DEF Start, StartWithSecret, StartOver, vars, connection
    <2>2. QED
        BY <1>1, <2>1 DEF tables, Rows, RowOf, OneEach, Registers, AcksAreSaved
<1>6. QED
    BY <1>3, <1>4, <1>5, Steps

LEMMA AlwaysAcked == Spec => []Acked
<1>1. Init => Acked
    BY DEF Init, Acked, Rows, RowOf, OneEach, Registers, Kept, Tables, AcksAreSaved, Inserted, Deleted
<1>2. QED
    BY <1>1, AckedStep, AlwaysTyped, AlwaysIds, PTL DEF Spec

\* What was answered as done is on disk, whichever thread's commit put it there
\* (app.py:92, 139, 154).
THEOREM AcknowledgedIsSaved == Spec => []AcksAreSaved
<1>1. Acked => AcksAreSaved
    BY DEF Acked
<1>2. QED
    BY <1>1, AlwaysAcked, PTL

\* However registrations overlap, a name is one account's, and one answer's
\* (app.py:85-93).
THEOREM NamesRegisteredOnce == Spec => []RegisteredOnce
<1>1. Ids /\ Acked => RegisteredOnce
    BY DEF Ids, Acked, OneEach, Registers, Inserted, RegisteredOnce
<1>2. QED
    BY <1>1, AlwaysIds, AlwaysAcked, PTL

----------------------------------------------------------------------------
(* A request that no other writes beside has the connection to itself. *)

QuietOf(t) ==
    req[t].alone =>
        /\ pc[t] \in Writing => \A y \in Threads \ {t} : pc[y] \notin Writing
        /\ pc[t] \in {"opening", "beginning", "writing"} /\ req[t].op = "register" =>
              ~\E a \in users : a.username = req[t].token.name
        /\ pc[t] = "beginning" => ~open
        /\ pc[t] \in {"writing", "counting", "committing"} => open
        /\ pc[t] = "counting" => req[t].row = IF req[t].op = "delete" THEN changes ELSE last_rowid
        /\ pc[t] = "committing" => req[t].told = req[t].row
        /\ pc[t] \in Answers =>
              /\ pc[t] = "500" => req[t].op \in {"none", "unfit"}
              /\ req[t].op \in {"create", "register", "delete"} => req[t].told = req[t].row
Quiet == \A t \in Threads : QuietOf(t)

\* What holds of the others holds on: who writes has the connection to itself.
LEMMA QuietOfOthers ==
    ASSUME Typed, Quiet, NEW t \in Threads, Serves(t), NEW x \in Threads \ {t}
    PROVE  QuietOf(x)'
<1> SUFFICES ASSUME req'[x].alone PROVE QuietOf(x)'
    BY DEF QuietOf
<1>1. pc'[x] = pc[x] /\ SameButAlone(req'[x], req[x]) /\ req[x].alone /\ QuietOf(x)
      /\ \A y \in Threads \ {t} : pc'[y] = pc[y]
    BY ServesOthers DEF OthersStay, Quiet
<1>2. CASE pc[x] \in Writing
    <2>1. pc[t] \notin Writing
        BY <1>1, <1>2 DEF QuietOf
    <2>2. ~Writes(t)
        BY <2>1, WritingShape
    <2>3. UNCHANGED <<tables, connection>>
        BY <2>2, AskingShape, ReadingShape DEF Serves, Finish
    <2>4. pc'[t] \notin Writing
        <3>1. ASSUME Asks(t) PROVE pc'[t] # "opening"
            <4>1. CASE \E r \in RequestType : Begins(t, r)
                BY <1>2, <4>1 DEF Begins
            <4>2. QED
                BY <3>1, <4>1, AskingShape
        <3>2. Asks(t) => pc'[t] \in {"opening", "reading", "200", "401", "409", "500"}
            BY AskingShape DEF Begins
        <3>3. Reads(t) => pc'[t] \in {"200", "403", "404"}
            BY ReadingShape
        <3>4. Finish(t) => pc'[t] = "idle"
            BY DEF Finish, Typed, TypeOK
        <3>5. QED
            BY <2>2, <3>1, <3>2, <3>3, <3>4 DEF Serves, Writing
    <2>5. QED
        BY <1>1, <2>3, <2>4 DEF QuietOf, SameButAlone, tables, connection
<1>3. CASE pc[x] \notin Writing
    BY <1>1, <1>3 DEF QuietOf, SameButAlone, Writing
<1>4. QED
    BY <1>2, <1>3

LEMMA QuietOfWriter ==
    ASSUME Typed, Quiet, NEW t \in Threads, Writes(t)
    PROVE  QuietOf(t)'
<1> SUFFICES ASSUME req'[t].alone PROVE QuietOf(t)'
    BY DEF QuietOf
<1>1. req[t] \in RequestType /\ req \in [Threads -> RequestType]
      /\ pc \in [Threads -> {"idle", "reading"} \cup Writing \cup Answers]
    BY DEF Typed, TypeOK
<1>2. /\ req[t].alone /\ QuietOf(t) /\ OthersStay(t)
      /\ req'[t].op = req[t].op /\ req'[t].token = req[t].token /\ pc[t] \in Writing
    BY WritingShape DEF Quiet
<1>3. \A y \in Threads \ {t} : pc'[y] \notin Writing
    BY <1>2 DEF QuietOf, OthersStay
<1>4. CASE LookForTransaction(t)
    <2>1. pc'[t] = (IF open THEN "writing" ELSE "beginning") /\ pc[t] = "opening"
          /\ UNCHANGED <<tables, connection, req>>
        BY <1>1, <1>4 DEF LookForTransaction, Goes
    <2>2. QED
        BY <1>2, <1>3, <2>1 DEF QuietOf, tables, connection, Answers
<1>5. CASE Begin(t)
    <2>1. pc[t] = "beginning" /\ pc'[t] = (IF open THEN "500" ELSE "writing") /\ open' = TRUE
          /\ UNCHANGED <<users, req>>
        BY <1>1, <1>5 DEF Begin, Goes, tables
    <2>2. QED
        BY <1>2, <1>3, <2>1 DEF QuietOf, Answers
<1>6. CASE InsertUserRefused(t)
    BY <1>2, <1>6 DEF InsertUserRefused, Goes, QuietOf
<1>7. CASE InsertUser(t)
    <2>1. /\ pc[t] = "writing" /\ pc'[t] = "counting" /\ last_rowid' = user_seq + 1 /\ open' = open
          /\ req'[t] = [req[t] EXCEPT !.row = user_seq + 1] /\ req[t].op = "register"
        BY <1>1, <1>7 DEF InsertUser, Goes
    <2>2. req'[t].row = user_seq + 1
        BY <1>1, <2>1 DEF RequestType
    <2>3. QED
        BY <1>2, <1>3, <2>1, <2>2 DEF QuietOf, Answers
<1>8. CASE InsertTask(t)
    <2>1. /\ pc[t] = "writing" /\ pc'[t] = "counting" /\ last_rowid' = task_seq + 1 /\ open' = open
          /\ req'[t] = [req[t] EXCEPT !.row = task_seq + 1] /\ req[t].op = "create"
        BY <1>1, <1>8 DEF InsertTask, Goes
    <2>2. req'[t].row = task_seq + 1
        BY <1>1, <2>1 DEF RequestType
    <2>3. QED
        BY <1>2, <1>3, <2>1, <2>2 DEF QuietOf, Answers
<1>9. CASE DeleteTask(t)
    <2> DEFINE n == Cardinality(OwnRow(req[t]))
    <2>1. /\ pc[t] = "writing" /\ pc'[t] = "counting" /\ changes' = n /\ open' = open
          /\ req'[t] = [req[t] EXCEPT !.row = n] /\ req[t].op = "delete"
        BY <1>1, <1>9 DEF DeleteTask, Goes
    <2> HIDE DEF n
    <2>2. req'[t].row = n
        BY <1>1, <2>1 DEF RequestType
    <2>3. QED
        BY <1>2, <1>3, <2>1, <2>2 DEF QuietOf, Answers
<1>10. CASE ReadCounter(t)
    <2> DEFINE n == IF req[t].op = "delete" THEN changes ELSE last_rowid
    <2>1. /\ pc[t] = "counting" /\ open /\ pc'[t] = "committing" /\ open' = open
          /\ req'[t] = [req[t] EXCEPT !.told = n]
        BY <1>1, <1>2, <1>10 DEF ReadCounter, Goes, QuietOf, connection
    <2>2. req'[t].told = n /\ req'[t].row = req[t].row
        BY <1>1, <2>1 DEF RequestType
    <2>3. QED
        BY <1>2, <1>3, <2>1, <2>2 DEF QuietOf, Answers
<1>11. CASE Commit(t)
    <2>1. /\ pc[t] = "committing" /\ open /\ pc'[t] = Answer(req[t]) /\ req' = req
        BY <1>1, <1>2, <1>11 DEF Commit, Goes, QuietOf
    <2>2. pc'[t] \in {"200", "201", "404"}
        BY <2>1 DEF Answer
    <2>3. QED
        BY <1>2, <2>1, <2>2 DEF QuietOf, Writing
<1>12. CASE StatementRefused(t)
    <2>1. pc'[t] = "500" /\ req' = req /\ req[t].op = "unfit"
        BY <1>1, <1>12 DEF StatementRefused, Goes
    <2>2. QED
        BY <1>2, <2>1 DEF QuietOf, Writing
<1>13. QED
    BY <1>4, <1>5, <1>6, <1>7, <1>8, <1>9, <1>10, <1>11, <1>12 DEF Writes

LEMMA QuietOfReader ==
    ASSUME Typed, NEW t \in Threads, Asks(t) \/ Reads(t) \/ Finish(t)
    PROVE  QuietOf(t)'
<1>1. CASE Asks(t)
    <2>1. CASE \E r \in RequestType : Begins(t, r)
        <3>1. PICK r \in RequestType : Begins(t, r)
            BY <2>1
        <3>2. pc'[t] \in {"opening", "reading", "200", "401", "409"} /\ SameButAlone(req'[t], r)
              /\ r.row = 0 /\ r.told = 0
            BY <3>1 DEF Begins
        <3>3. ASSUME pc'[t] = "opening", req'[t].alone
              PROVE  /\ \A y \in Threads \ {t} : pc'[y] \notin Writing
                     /\ req'[t].op = "register" => ~\E a \in users' : a.username = req'[t].token.name
            BY <1>1, <3>1, <3>3, AskingShape DEF Begins, OthersStay, SameButAlone, tables
        <3>4. QED
            BY <3>2, <3>3 DEF QuietOf, SameButAlone, Writing
    <2>2. CASE pc[t] = "idle" /\ pc'[t] \in {"401", "500"} /\ req' = req
        BY <2>2, NoRequestIsOne DEF QuietOf, Typed, Shape, Writing
    <2>3. QED
        BY <1>1, <2>1, <2>2, AskingShape
<1>2. CASE Reads(t)
    <2>1. PICK S : req'[t] = [req[t] EXCEPT !.shown = S]
        BY <1>2, ReadingShape
    <2>2. req'[t].op = req[t].op
        BY <2>1 DEF Typed, TypeOK, RequestType
    <2>3. QED
        BY <1>2, <2>2, ReadingShape DEF QuietOf, Writing
<1>3. CASE Finish(t)
    BY <1>3, NoRequestIsOne DEF Finish, Typed, TypeOK, QuietOf, Writing, Answers
<1>4. QED
    BY <1>1, <1>2, <1>3

LEMMA QuietStep == Typed /\ Quiet /\ [Next]_vars => Quiet'
<1> SUFFICES ASSUME Typed, Quiet, [Next]_vars PROVE Quiet'
    OBVIOUS
<1>1. ASSUME NEW t \in Threads, Serves(t) PROVE Quiet'
    <2>1. QuietOf(t)'
        BY <1>1, QuietOfWriter, QuietOfReader DEF Serves
    <2>2. \A x \in Threads \ {t} : QuietOf(x)'
        BY <1>1, QuietOfOthers
    <2>3. QED
        BY <2>1, <2>2 DEF Quiet
<1>2. CASE Kill
    BY <1>2 DEF Kill, Quiet, QuietOf, Writing, Answers
<1>3. CASE Start \/ StartWithSecret \/ UNCHANGED vars
    BY <1>3 DEF Start, StartWithSecret, StartOver, vars, tables, connection, Quiet, QuietOf
<1>4. QED
    BY <1>1, <1>2, <1>3, Steps

\* Without another request that writes beside it, a request is told of its own row
\* and answered 500 only for a fault of its own, also after a statement that was
\* refused has left a transaction open (app.py:85-93, 136-142, 150-155, 182-186).
THEOREM QuietRequestsAreAnswered == Spec => []QuietAnswers
<1>1. Init => Quiet
    BY DEF Init, Quiet, QuietOf, Writing, Answers
<1>2. Quiet => QuietAnswers
    BY DEF Quiet, QuietOf, QuietAnswers
<1>3. QED
    BY <1>1, <1>2, QuietStep, AlwaysTyped, PTL DEF Spec
=============================================================================
