--------------------------- MODULE HdrParseProofs ---------------------------
(***************************************************************************)
(* For any heap and any limits, hdrparse neither touches memory it does    *)
(* not own nor leaks at the end, and prints what the values alone would    *)
(* print.                                                                  *)
(***************************************************************************)
EXTENDS HdrParse, TLAPS

\* What Owned leaves open: which pointers are set, and where the roles lie.
Shape ==
    /\ pc = "start" => live = {} /\ h = [p \in Pointers |-> NULL] /\ roles_declared = 0
    /\ pc \in {"lines", "cleanup"} => h["name"] # NULL /\ h["tag"] # NULL
    /\ h["roles"] = NULL => roles_seen = 0
    /\ h["roles"] # NULL => Len(slots) = roles_declared + 1
    /\ \A i \in 1..roles_seen : slots[i] \in Blocks
    /\ \A i, j \in 1..roles_seen : slots[i] = slots[j] => i = j

IInv == TypeOK /\ Shape /\ Owned /\ Defined

\* The program starts with nothing allocated.
LEMMA InitIInv == Init => IInv
<1> SUFFICES ASSUME Init PROVE IInv
  OBVIOUS
<1> USE DEF Init
<1>1. TypeOK
  <2>1. h \in [Pointers -> Blocks \cup {NULL}] /\ text \in [Blocks -> Values \cup {Garbage}]
    OBVIOUS
  <2>2. roles_declared \in 0..MaxRoles /\ roles_seen \in 0..roles_declared
    BY LimitsAssumption
  <2>3. slots \in Seq(Blocks \cup {Garbage}) /\ live \subseteq Blocks
    OBVIOUS
  <2>4. undefined \in BOOLEAN
    OBVIOUS
  <2> QED
    BY <2>1, <2>2, <2>3, <2>4 DEF TypeOK
<1>2. Shape
  BY DEF Shape, Pointers
<1>3. Owned /\ Defined
  BY DEF Owned, Defined
<1> QED
  BY <1>1, <1>2, <1>3 DEF IInv

\* In the loop everything that would be freed or read is in use, once.
LEMMA Sound ==
    ASSUME IInv, pc \in {"lines", "cleanup"}
    PROVE  /\ ~BadRoles
           /\ ~BadFree(RoleBlocks \cup HeaderBlocks)
           /\ ~BadFree(RoleBlocks \cup {h["roles"]})
           /\ ~BadFree({h["note"]})
           /\ \A p, q \in Pointers : p # q /\ h[p] # NULL => h[p] # h[q]
           /\ h["name"] \in live /\ h["tag"] \in live
<1> USE DEF IInv
<1>1. roles_seen \in Nat /\ roles_declared \in Nat /\ roles_seen <= roles_declared
  BY LimitsAssumption DEF TypeOK
<1>2. live = RoleBlocks \cup HeaderBlocks
  BY DEF Owned
<1>3. ~BadRoles
  <2>1. \A i, j \in 1..roles_seen : slots[i] = slots[j] => i = j
    BY DEF Shape
  <2>2. roles_seen <= Len(slots)
    BY <1>1 DEF Shape, TypeOK
  <2>3. roles_seen > 0 => h["roles"] \in live
    BY <1>1, <1>2 DEF Shape, HeaderBlocks, Pointers
  <2> QED
    BY <1>1, <2>1, <2>2, <2>3 DEF BadRoles, TypeOK
<1>4. ~BadFree(RoleBlocks \cup HeaderBlocks)
  BY <1>2 DEF BadFree
<1>5. ~BadFree(RoleBlocks \cup {h["roles"]}) /\ ~BadFree({h["note"]})
  BY <1>2 DEF BadFree, HeaderBlocks, Pointers
<1>6. \A p, q \in Pointers : p # q /\ h[p] # NULL => h[p] # h[q]
  BY DEF Owned
<1>7. h["name"] \in live /\ h["tag"] \in live
  BY <1>2 DEF Shape, HeaderBlocks, Pointers
<1> QED
  BY <1>3, <1>4, <1>5, <1>6, <1>7

\* A value that fits is copied over the old one.
LEMMA CopyStep ==
    ASSUME IInv, NEW p \in {"name", "tag"}, NEW cap \in Nat, NEW v \in Values,
           CopyBounded(p, cap, v)
    PROVE  IInv'
<1> USE DEF CopyBounded, IInv
<1>1. h[p] \in live
  BY Sound
<1>2. TypeOK'
  <2>1. text' \in [Blocks -> Values \cup {Garbage}]
    BY DEF TypeOK
  <2>2. undefined' \in BOOLEAN
    BY DEF Breaks
  <2> QED
    BY <2>1, <2>2 DEF TypeOK, roles
<1>3. Shape'
  BY DEF Shape, roles
<1>4. Owned'
  BY DEF Owned, roles, RoleBlocks, HeaderBlocks
<1>5. Defined'
  <2>1. v.length \in Nat
    BY LimitsAssumption
  <2>2. ~(v.length + 1 > cap)
    BY <2>1
  <2> QED
    BY <1>1, <2>2, Zenon DEF Defined, Breaks
<1> QED
  BY <1>2, <1>3, <1>4, <1>5

\* Fewer blocks in use, and nothing else but the end of the run.
LEMMA FailStep ==
    ASSUME IInv, pc' = "failed", UNCHANGED <<h, roles_declared, roles_seen, slots>>,
           live' \subseteq Blocks, text' \in [Blocks -> Values \cup {Garbage}],
           undefined' = undefined
    PROVE  IInv'
<1> USE DEF IInv
<1>1. TypeOK'
  BY DEF TypeOK
<1>2. Shape'
  BY DEF Shape
<1>3. Owned' /\ Defined'
  BY DEF Owned, Defined
<1> QED
  BY <1>1, <1>2, <1>3

\* What is written into memory by Written is a value, or nobody's.
LEMMA WrittenType ==
    ASSUME text \in [Blocks -> Values \cup {Garbage}], NEW S, NEW b, NEW v \in Values \cup {Garbage}
    PROVE  Written(S, b, v) \in [Blocks -> Values \cup {Garbage}]
BY DEF Written

\* Every run starts with two buffers and no more.
LEMMA StartStep == ASSUME IInv, Start PROVE IInv'
<1> USE DEF Start, IInv
<1> PICK n \in Blocks, t \in Blocks :
        /\ n # t
        /\ h' = [h EXCEPT !["name"] = n, !["tag"] = t]
        /\ live' = {n, t}
        /\ text' = [text EXCEPT ![n] = Anonymous, ![t] = Untagged]
  OBVIOUS
<1>1. TypeOK'
  BY LimitsAssumption DEF TypeOK, roles
<1>2. /\ h'["name"] = n /\ h'["tag"] = t
      /\ \A p \in Pointers \ {"name", "tag"} : h'[p] = NULL
      /\ roles_seen' = 0
  BY DEF Shape, Pointers, roles
<1>3. Shape'
  BY <1>2, HeapAssumption DEF Shape, Pointers
<1>4. Owned'
  <2>1. RoleBlocks' = {}
    BY <1>2 DEF RoleBlocks
  <2>2. HeaderBlocks' = {n, t}
    <3>1. n \in HeaderBlocks' /\ t \in HeaderBlocks'
      BY <1>2, HeapAssumption DEF HeaderBlocks, Pointers
    <3>2. ASSUME NEW x \in HeaderBlocks' PROVE x \in {n, t}
      <4>1. PICK p \in Pointers : x = h'[p] /\ x # NULL
        BY <3>2 DEF HeaderBlocks
      <4> QED
        BY <1>2, <4>1
    <3> QED
      BY <3>1, <3>2
  <2>3. \A p, q \in Pointers : h'[p] = h'[q] /\ h'[p] # NULL => p = q
    BY <1>2 DEF Pointers
  <2>4. /\ live' = RoleBlocks' \cup HeaderBlocks'
        /\ \A p \in Pointers : h'[p] \notin RoleBlocks'
    BY <2>1, <2>2
  <2>5. pc' = "lines"
    OBVIOUS
  <2> QED
    BY <2>3, <2>4, <2>5 DEF Owned
<1>5. Defined'
  BY DEF Defined
<1> QED
  BY <1>1, <1>3, <1>4, <1>5

\* A new list frees the old one, whole, and starts empty.
LEMMA RolesStep == ASSUME IInv, NEW v \in Values, Roles(v) PROVE IInv'
<1> USE DEF Roles, IInv
<1> DEFINE freed == RoleBlocks \cup {h["roles"]}
<1> PICK b \in Blocks \ Live(freed) :
        /\ live' = Live(freed) \cup {b}
        /\ text' = Written(freed, b, Garbage)
        /\ h' = [h EXCEPT !["roles"] = b]
  OBVIOUS
<1>0. v.count \in 0..MaxRoles /\ v.count \in Nat
  BY LimitsAssumption DEF IsCount
<1>1. slots' = [i \in 1..(v.count + 1) |-> Garbage] /\ roles_seen' = 0 /\ roles_declared' = v.count
  OBVIOUS
<1>2. /\ h'["roles"] = b
      /\ \A p \in Pointers \ {"roles"} : h'[p] = h[p]
      /\ h' \in [Pointers -> Blocks \cup {NULL}]
  BY DEF TypeOK, Pointers
<1>3. TypeOK'
  <2>1. text' \in [Blocks -> Values \cup {Garbage}]
    BY WrittenType DEF TypeOK
  <2>2. slots' \in Seq(Blocks \cup {Garbage})
    BY <1>0, <1>1
  <2>3. live' \subseteq Blocks
    BY DEF Live, TypeOK
  <2>4. undefined' \in BOOLEAN
    BY DEF Breaks
  <2>5. roles_declared' \in 0..MaxRoles /\ roles_seen' \in 0..roles_declared'
    BY <1>0, <1>1
  <2> QED
    BY <1>2, <2>1, <2>2, <2>3, <2>4, <2>5 DEF TypeOK
<1>4. Shape'
  <2>1. Len(slots') = roles_declared' + 1
    BY <1>0, <1>1
  <2>2. h'["name"] # NULL /\ h'["tag"] # NULL /\ h'["roles"] # NULL
    BY <1>2, HeapAssumption DEF Shape, Pointers
  <2>3. pc' = "lines"
    OBVIOUS
  <2>4. 1..roles_seen' = {}
    BY <1>1
  <2> QED
    BY <2>1, <2>2, <2>3, <2>4 DEF Shape
<1>5. Owned'
  <2>1. live = RoleBlocks \cup HeaderBlocks
    BY DEF Owned
  <2>2. \A p, q \in Pointers : h[p] = h[q] /\ h[p] # NULL => p = q
    BY DEF Owned
  <2>3. \A p \in Pointers : h[p] \notin RoleBlocks
    BY DEF Owned
  <2>4. RoleBlocks' = {}
    BY <1>1 DEF RoleBlocks
  <2>5. live' = HeaderBlocks'
    <3>1. ASSUME NEW x \in live' PROVE x \in HeaderBlocks'
      BY <1>2, <2>1, <3>1, HeapAssumption DEF Live, HeaderBlocks, Pointers
    <3>2. ASSUME NEW x \in HeaderBlocks' PROVE x \in live'
      BY <1>2, <2>1, <2>2, <2>3, <3>2, HeapAssumption DEF Live, HeaderBlocks, Pointers
    <3> QED
      BY <3>1, <3>2
  <2>6. \A p \in Pointers \ {"roles"} : h[p] # NULL => h[p] # b
    BY <2>1, <2>2, <2>3 DEF Live, HeaderBlocks, Pointers
  <2>7. \A p, q \in Pointers : h'[p] = h'[q] /\ h'[p] # NULL => p = q
    BY <1>2, <2>2, <2>6, HeapAssumption DEF Pointers
  <2>8. live' = RoleBlocks' \cup HeaderBlocks'
    <3> HIDE DEF Roles, IInv
    <3> QED
      BY <2>4, <2>5
  <2>9. \A p \in Pointers : h'[p] \notin RoleBlocks'
    <3> HIDE DEF Roles, IInv
    <3> QED
      BY <2>4
  <2>10. pc' = "lines"
    OBVIOUS
  <2> QED
    BY <2>7, <2>8, <2>9, <2>10 DEF Owned
<1>6. Defined'
  BY Sound, Zenon DEF Defined, Breaks
<1> QED
  BY <1>3, <1>4, <1>5, <1>6

\* One more role takes the next slot, which is inside the array.
LEMMA RoleStep == ASSUME IInv, NEW v \in Values, Role(v) PROVE IInv'
<1> USE DEF Role, IInv
<1> PICK b \in Blocks \ live :
        /\ live' = live \cup {b} /\ text' = Written({}, b, v)
        /\ slots' = [slots EXCEPT ![roles_seen + 1] = b]
  OBVIOUS
<1> DEFINE n == roles_seen
<1>1. /\ n \in Nat /\ roles_declared \in Nat /\ n < roles_declared
      /\ Len(slots) = roles_declared + 1 /\ n + 1 \in 1..Len(slots)
  BY LimitsAssumption DEF TypeOK, Shape
<1>2. slots' \in Seq(Blocks \cup {Garbage}) /\ Len(slots') = Len(slots)
  BY <1>1 DEF TypeOK
<1>3. /\ slots'[n + 1] = b
      /\ \A i \in 1..n : slots'[i] = slots[i]
  BY <1>1 DEF TypeOK
<1>4. 1..roles_seen' = (1..n) \cup {n + 1} /\ n + 1 \notin 1..n
  BY <1>1
<1>5. TypeOK'
  <2>1. text' \in [Blocks -> Values \cup {Garbage}]
    BY WrittenType DEF TypeOK
  <2>2. undefined' \in BOOLEAN
    BY DEF Breaks
  <2>3. roles_seen' \in 0..roles_declared'
    BY <1>1
  <2> QED
    BY <1>2, <2>1, <2>2, <2>3 DEF TypeOK
<1>6. \A i \in 1..n : slots[i] # b
  BY DEF Owned, RoleBlocks
<1>7. Shape'
  <2>1. \A i \in 1..roles_seen' : slots'[i] \in Blocks
    BY <1>3, <1>4 DEF Shape
  <2>2. \A i, j \in 1..roles_seen' : slots'[i] = slots'[j] => i = j
    BY <1>3, <1>4, <1>6 DEF Shape
  <2> QED
    BY <1>1, <1>2, <2>1, <2>2 DEF Shape
<1>8. Owned'
  <2>1. RoleBlocks' = RoleBlocks \cup {b}
    BY <1>3, <1>4 DEF RoleBlocks
  <2>2. HeaderBlocks' = HeaderBlocks
    BY DEF HeaderBlocks
  <2>3. \A p \in Pointers : h'[p] \notin RoleBlocks'
    <3>1. \A p \in Pointers : h[p] # NULL => h[p] \in live
      BY DEF Owned, HeaderBlocks
    <3> QED
      BY <2>1, <3>1, HeapAssumption DEF Owned
  <2>4. live' = RoleBlocks' \cup HeaderBlocks'
    BY <2>1, <2>2 DEF Owned
  <2> QED
    BY <2>3, <2>4 DEF Owned
<1>9. Defined'
  <2>1. h["roles"] \in live
    BY DEF Owned, HeaderBlocks, Pointers
  <2>2. ~(roles_seen + 1 > Len(slots))
    BY <1>1
  <2> QED
    BY <2>1, <2>2, Zenon DEF Defined, Breaks
<1> QED
  BY <1>5, <1>7, <1>8, <1>9

\* A note replaces the last one, and the first keeps a block of its own.
LEMMA NoteStep == ASSUME IInv, NEW v \in Values, Note(v) PROVE IInv'
<1> USE DEF Note, IInv
<1>a. PICK b \in Blocks \ Live({h["note"]}) :
        IF h["first_note"] # NULL
        THEN /\ live' = Live({h["note"]}) \cup {b}
             /\ text' = Written({h["note"]}, b, v)
             /\ h' = [h EXCEPT !["note"] = b]
        ELSE \E c \in Blocks \ (Live({h["note"]}) \cup {b}) :
             /\ live' = Live({h["note"]}) \cup {b, c}
             /\ text' = [Written({h["note"]}, b, v) EXCEPT ![c] = v]
             /\ h' = [h EXCEPT !["note"] = b, !["first_note"] = c]
  OBVIOUS
<1>1. /\ pc' = pc /\ pc = "lines" /\ roles_declared' = roles_declared
      /\ roles_seen' = roles_seen /\ slots' = slots
  BY DEF roles
<1>2. PICK f \in Blocks \cup {NULL} :
        /\ h' = [h EXCEPT !["note"] = b, !["first_note"] = f]
        /\ live' = Live({h["note"]}) \cup {b, f}
        /\ text' \in [Blocks -> Values \cup {Garbage}]
        /\ f # NULL /\ f # b
        /\ f = h["first_note"] \/ f \in Blocks \ Live({h["note"]})
  <2>1. Written({h["note"]}, b, v) \in [Blocks -> Values \cup {Garbage}]
    BY WrittenType DEF TypeOK
  <2>2. CASE h["first_note"] # NULL
    <3>1. h["first_note"] \in live /\ h["first_note"] # h["note"]
      BY <2>2, <1>1 DEF Owned, HeaderBlocks, Pointers
    <3>2. h["first_note"] \in Live({h["note"]}) /\ h["first_note"] \in Blocks
      BY <3>1 DEF Live, TypeOK
    <3>3. h' = [h EXCEPT !["note"] = b, !["first_note"] = h["first_note"]]
      BY <1>a, <2>2 DEF TypeOK, Pointers
    <3> QED
      BY <1>a, <2>1, <2>2, <3>2, <3>3
  <2>3. CASE h["first_note"] = NULL
    BY <1>a, <2>1, <2>3, HeapAssumption
  <2> QED
    BY <2>2, <2>3
<1>3. /\ h'["note"] = b /\ h'["first_note"] = f
      /\ \A p \in Pointers \ {"note", "first_note"} : h'[p] = h[p]
      /\ h' \in [Pointers -> Blocks \cup {NULL}]
  BY <1>2 DEF TypeOK, Pointers
<1>4. TypeOK'
  <2>1. live' \subseteq Blocks
    BY <1>2 DEF Live, TypeOK
  <2>2. undefined' \in BOOLEAN
    BY DEF Breaks
  <2> QED
    BY <1>1, <1>2, <1>3, <2>1, <2>2 DEF TypeOK
<1>5. Shape'
  BY <1>1, <1>3 DEF Shape, Pointers
<1>6. Owned'
  <2>1. RoleBlocks' = RoleBlocks
    BY <1>1 DEF RoleBlocks
  <2>2. /\ live = RoleBlocks \cup HeaderBlocks
        /\ \A p, q \in Pointers : h[p] = h[q] /\ h[p] # NULL => p = q
        /\ \A p \in Pointers : h[p] \notin RoleBlocks
    BY <1>1 DEF Owned
  <2>3. \A p \in Pointers : h[p] # NULL => h[p] \in live
    BY <2>2 DEF HeaderBlocks
  <2>4. \A p \in Pointers \ {"note"} : h[p] # NULL => h[p] \in Live({h["note"]})
    BY <2>2, <2>3 DEF Live, Pointers
  <2>5. \A p \in Pointers \ {"note", "first_note"} : h[p] # NULL => h[p] # b /\ h[p] # f
    BY <1>2, <2>2, <2>4 DEF Pointers
  <2>6. b \notin RoleBlocks /\ f \notin RoleBlocks
    BY <1>2, <2>2 DEF Live, Pointers
  <2>7. \A p, q \in Pointers : h'[p] = h'[q] /\ h'[p] # NULL => p = q
    BY <1>2, <1>3, <2>2, <2>5, HeapAssumption DEF Pointers
  <2>8. \A p \in Pointers : h'[p] \notin RoleBlocks'
    BY <1>3, <2>1, <2>2, <2>6 DEF Pointers
  <2>9. ASSUME NEW x \in live' PROVE x \in RoleBlocks' \cup HeaderBlocks'
    <3>1. CASE x \in {b, f}
      BY <1>2, <1>3, <3>1, HeapAssumption DEF HeaderBlocks, Pointers
    <3>2. CASE x \in Live({h["note"]}) /\ x \notin {b, f}
      <4>1. CASE x \in RoleBlocks
        BY <4>1, <2>1
      <4>2. CASE x \in HeaderBlocks
        <5>1. PICK p \in Pointers : x = h[p] /\ x # NULL
          BY <4>2 DEF HeaderBlocks
        <5>2. p # "note" /\ p # "first_note"
          BY <5>1, <3>2, <1>2, <1>a DEF Live
        <5> QED
          BY <5>1, <5>2, <1>3 DEF HeaderBlocks
      <4> QED
        BY <4>1, <4>2, <3>2, <2>2 DEF Live
    <3>3. x \in {b, f} \/ x \in Live({h["note"]})
      BY <2>9, <1>2, Zenon
    <3> QED
      BY <3>1, <3>2, <3>3, Zenon
  <2>10. ASSUME NEW x \in RoleBlocks' \cup HeaderBlocks' PROVE x \in live'
    <3>1. CASE x \in RoleBlocks
      BY <3>1, <1>2, <2>2 DEF Live, Pointers
    <3>2. CASE x \in HeaderBlocks'
      <4>1. PICK p \in Pointers : x = h'[p] /\ x # NULL
        BY <3>2 DEF HeaderBlocks
      <4>2. CASE p \in {"note", "first_note"}
        BY <1>2, <1>3, <4>1, <4>2
      <4>3. CASE p \notin {"note", "first_note"}
        BY <1>2, <1>3, <2>4, <4>1, <4>3
      <4> QED
        BY <4>2, <4>3
    <3> QED
      BY <2>1, <2>10, <3>1, <3>2
  <2> QED
    BY <1>1, <2>7, <2>8, <2>9, <2>10 DEF Owned
<1>7. Defined'
  BY Sound, Zenon DEF Defined, Breaks
<1> QED
  BY <1>4, <1>5, <1>6, <1>7

LEMMA ReportStep == ASSUME IInv, Report PROVE IInv'
<1> USE DEF Report, IInv
<1>1. Defined'
  BY Sound, Zenon DEF Defined, Breaks
<1>2. TypeOK'
  <2>1. undefined' \in BOOLEAN
    BY DEF Breaks
  <2> QED
    BY <2>1 DEF TypeOK, roles, heap
<1>3. Shape'
  BY DEF Shape, roles, heap
<1>4. Owned'
  BY DEF Owned, roles, heap, RoleBlocks, HeaderBlocks
<1> QED
  BY <1>1, <1>2, <1>3, <1>4

\* Nothing is left when everything the header points at has been freed.
LEMMA CleanupStep == ASSUME IInv, Cleanup PROVE IInv'
<1> USE DEF Cleanup, IInv
<1>1. Defined'
  BY Sound, Zenon DEF Defined, Breaks
<1>2. TypeOK'
  <2>1. text' \in [Blocks -> Values \cup {Garbage}]
    BY WrittenType DEF TypeOK
  <2>2. undefined' \in BOOLEAN
    BY DEF Breaks
  <2> QED
    BY <2>1, <2>2 DEF TypeOK, roles, Live
<1>3. Shape'
  BY DEF Shape, roles
<1>4. live' = {}
  BY DEF Owned, Live
<1> QED
  BY <1>1, <1>2, <1>3, <1>4 DEF Owned

LEMMA OutOfMemoryStep == ASSUME IInv, OutOfMemory PROVE IInv'
<1> USE DEF OutOfMemory, IInv
<1> PICK freed \in {{}, RoleBlocks \cup {h["roles"]}, {h["note"]}} :
        /\ live' = Live(freed) /\ text' = Written(freed, NULL, Garbage)
        /\ Breaks(BadFree(freed))
  OBVIOUS
<1>1. ~BadFree(freed)
  <2>1. CASE pc = "start"
    <3>1. RoleBlocks = {} /\ h["roles"] = NULL /\ h["note"] = NULL
      BY <2>1 DEF Shape, RoleBlocks, Pointers
    <3> QED
      BY <3>1 DEF BadFree
  <2>2. CASE pc = "lines"
    BY <2>2, Sound DEF BadFree
  <2> QED
    BY <2>1, <2>2
<1>2. text' \in [Blocks -> Values \cup {Garbage}]
  BY WrittenType DEF TypeOK
<1>3. Defined'
  BY <1>1, Zenon DEF Defined, Breaks
<1>4. undefined' \in BOOLEAN
  BY DEF Breaks
<1>5. TypeOK'
  BY <1>2, <1>4 DEF TypeOK, roles, Live
<1>6. Shape' /\ Owned'
  BY DEF Shape, Owned, roles
<1> QED
  BY <1>3, <1>5, <1>6

LEMMA NextIInv == ASSUME IInv, [Next]_vars PROVE IInv'
<1>1. ASSUME Fails PROVE IInv'
  BY <1>1, FailStep DEF Fails, roles, heap, IInv, TypeOK
<1>2. CASE Start
  BY <1>2, StartStep
<1>3. CASE UnexpectedRole
  BY <1>1, <1>3 DEF UnexpectedRole
<1>4. CASE OutOfMemory
  BY <1>4, OutOfMemoryStep
<1>5. CASE Report
  BY <1>5, ReportStep
<1>6. CASE Cleanup
  BY <1>6, CleanupStep
<1>7. CASE UNCHANGED vars
  <2>1. TypeOK' /\ Defined'
    BY <1>7 DEF TypeOK, Defined, vars, roles, heap, IInv
  <2>2. Shape'
    BY <1>7 DEF Shape, vars, roles, heap, IInv
  <2>3. Owned'
    BY <1>7 DEF Owned, RoleBlocks, HeaderBlocks, vars, roles, heap, IInv
  <2> QED
    BY <2>1, <2>2, <2>3 DEF IInv
<1>8. ASSUME NEW v \in Values, Name(v) \/ Tag(v) PROVE IInv'
  BY <1>8, CopyStep, LimitsAssumption DEF Name, Tag
<1>9. ASSUME NEW v \in Values, TooLong(v) \/ NotACount(v) PROVE IInv'
  BY <1>1, <1>9 DEF TooLong, NotACount
<1>10. ASSUME NEW v \in Values, Roles(v) \/ Role(v) \/ Note(v) PROVE IInv'
  BY <1>10, RolesStep, RoleStep, NoteStep
<1> QED
  BY <1>2, <1>3, <1>4, <1>5, <1>6, <1>7, <1>8, <1>9, <1>10 DEF Next, Exited

\* The inductive invariant holds of every run.
THEOREM Invariance == Spec => []IInv
<1>1. Init => IInv
  BY InitIInv
<1>2. IInv /\ [Next]_vars => IInv'
  BY NextIInv
<1> QED
  BY <1>1, <1>2, PTL DEF Spec

\* No list has more roles than were declared, and the limit holds of the count.
THEOREM ParserTypeCorrect == Spec => []TypeOK
<1>1. IInv => TypeOK
  BY DEF IInv
<1> QED
  BY <1>1, Invariance, PTL

\* Nothing undefined happens, whatever the lines and wherever malloc fails.
THEOREM MemorySafe == Spec => []Defined
<1>1. IInv => Defined
  BY DEF IInv
<1> QED
  BY <1>1, Invariance, PTL

\* The header holds every block in use, once, and the end leaves none.
THEOREM NothingLeaks == Spec => []Owned
<1>1. IInv => Owned
  BY DEF IInv
<1> QED
  BY <1>1, Invariance, PTL

----------------------------------------------------------------------------
(***************************************************************************)
(* The heap behaves like the values: a pointer's text changes only when    *)
(* its own line is read.                                                   *)
(***************************************************************************)

\* What a step that has left the loop shows of the values.
LEMMA Forgotten ==
    ASSUME pc' # "lines" PROVE Block!Forget
BY DEF Block!Forget

LEMMA RefineFail ==
    ASSUME IInv, pc \in {"start", "lines"}, pc' = "failed", printed' = printed
    PROVE  Block!Next
<1>1. Block!Forget
  BY Forgotten
<1>2. Block!Fail
  BY <1>1 DEF Block!Fail
<1> QED
  BY <1>2 DEF Block!Next

LEMMA RefineStart == ASSUME IInv, Start PROVE Block!Next
<1> USE DEF Start, IInv
<1> PICK n \in Blocks, t \in Blocks :
        /\ n # t
        /\ h' = [h EXCEPT !["name"] = n, !["tag"] = t]
        /\ text' = [text EXCEPT ![n] = Anonymous, ![t] = Untagged]
  OBVIOUS
<1>1. /\ h'["name"] = n /\ h'["tag"] = t
      /\ \A p \in Pointers \ {"name", "tag"} : h'[p] = NULL
  BY DEF Shape, Pointers
<1>2. text'[n] = Anonymous /\ text'[t] = Untagged /\ n # NULL /\ t # NULL
  BY HeapAssumption DEF TypeOK
<1>3. roles_declared' = 0
  BY DEF roles, Shape
<1>4. Block!Start
  BY <1>1, <1>2, <1>3 DEF Block!Start, Read, Pointers
<1> QED
  BY <1>4 DEF Block!Next

\* While the loop runs, blocks that stay as they are keep the values they hold.
LEMMA Kept ==
    ASSUME IInv, pc = "lines"
    PROVE  /\ \A p \in Pointers : Read(h[p]) = NULL <=> h[p] = NULL
           /\ \A p \in Pointers : h[p] # NULL => h[p] \in live
           /\ \A i \in 1..roles_seen : slots[i] \in live /\ slots[i] # NULL
           /\ \A p \in Pointers, i \in 1..roles_seen : h[p] # slots[i]
           /\ \A p, q \in Pointers : p # q /\ h[p] # NULL => h[p] # h[q]
<1>1. \A b \in Blocks : text[b] # NULL
  BY HeapAssumption, ContentsAssumption DEF IInv, TypeOK
<1>2. \A p \in Pointers : Read(h[p]) = NULL <=> h[p] = NULL
  BY <1>1 DEF IInv, TypeOK, Read
<1>3. live = RoleBlocks \cup HeaderBlocks
  BY DEF IInv, Owned
<1>4. \A p \in Pointers : h[p] # NULL => h[p] \in live
  BY <1>3 DEF HeaderBlocks
<1>5. \A i \in 1..roles_seen : slots[i] \in live /\ slots[i] # NULL
  BY <1>3, HeapAssumption DEF RoleBlocks, IInv, Shape
<1>6. \A p \in Pointers, i \in 1..roles_seen : h[p] # slots[i]
  BY DEF IInv, Owned, RoleBlocks
<1>7. \A p, q \in Pointers : p # q /\ h[p] # NULL => h[p] # h[q]
  BY DEF IInv, Owned
<1> QED
  BY <1>2, <1>4, <1>5, <1>6, <1>7

LEMMA RefineCopy ==
    ASSUME IInv, NEW v \in Values, Name(v) \/ Tag(v) PROVE Block!Next
<1> USE DEF IInv
<1>0. PICK p \in {"name", "tag"} :
        \/ p = "name" /\ CopyBounded(p, NAME_LEN, v)
        \/ p = "tag" /\ CopyBounded(p, TAG_LEN, v)
  BY DEF Name, Tag
<1>1. /\ pc = "lines" /\ pc' = "lines" /\ printed' = printed /\ h' = h
      /\ roles_declared' = roles_declared /\ roles_seen' = roles_seen /\ slots' = slots
      /\ text' = [text EXCEPT ![h[p]] = v]
  BY <1>0 DEF CopyBounded, roles
<1>2. h[p] \in Blocks /\ h[p] # NULL
  BY <1>1, HeapAssumption DEF Shape, TypeOK, Pointers
<1>3. Read(h[p])' = v
  BY <1>1, <1>2 DEF Read, TypeOK
<1>4. \A q \in Pointers \ {p} : Read(h[q])' = Read(h[q])
  BY <1>1, <1>2, Kept DEF Read, TypeOK, Pointers
<1>5. [i \in 1..roles_seen |-> Read(slots[i])]' = [i \in 1..roles_seen |-> Read(slots[i])]
  <2>1. \A i \in 1..roles_seen : text'[slots[i]] = text[slots[i]]
    BY <1>1, Kept DEF TypeOK, Pointers, Shape
  <2> QED
    BY <1>1, <2>1 DEF Read
<1>6. CASE p = "name" /\ CopyBounded(p, NAME_LEN, v)
  <2>1. v.length < NAME_LEN
    BY <1>6 DEF CopyBounded
  <2>2. Block!Name(v)
    BY <1>1, <1>3, <1>4, <1>5, <1>6, <2>1 DEF Block!Name, Block!Reading, Pointers
  <2> QED
    BY <2>2 DEF Block!Next
<1>7. CASE p = "tag" /\ CopyBounded(p, TAG_LEN, v)
  <2>1. v.length < TAG_LEN
    BY <1>7 DEF CopyBounded
  <2>2. Block!Tag(v)
    BY <1>1, <1>3, <1>4, <1>5, <1>7, <2>1 DEF Block!Tag, Block!Reading, Pointers
  <2> QED
    BY <2>2 DEF Block!Next
<1> QED
  BY <1>0, <1>6, <1>7

LEMMA RefineRoles ==
    ASSUME IInv, NEW v \in Values, Roles(v) PROVE Block!Next
<1> USE DEF IInv
<1> DEFINE freed == RoleBlocks \cup {h["roles"]}
<1>0. PICK b \in Blocks \ Live(freed) :
        /\ text' = Written(freed, b, Garbage)
        /\ h' = [h EXCEPT !["roles"] = b]
  BY DEF Roles
<1>1. /\ pc = "lines" /\ pc' = "lines" /\ printed' = printed
      /\ roles_declared' = v.count /\ roles_seen' = 0 /\ v.count \in 0..MaxRoles
  BY DEF Roles, IsCount
<1>2. /\ h'["roles"] = b /\ b # NULL
      /\ \A p \in Pointers \ {"roles"} : h'[p] = h[p]
  BY <1>0, HeapAssumption DEF TypeOK, Pointers
<1>3. \A p \in Pointers \ {"roles"} : Read(h[p])' = Read(h[p])
  <2>1. \A p \in Pointers \ {"roles"} : h[p] # NULL => h[p] \in Live(freed) /\ h[p] \notin freed
    BY <1>1, Kept DEF Live, RoleBlocks, Pointers
  <2>2. \A x \in Live(freed) : x \in Blocks /\ x # b /\ x \notin freed
    BY DEF Live, TypeOK
  <2>3. \A p \in Pointers \ {"roles"} : h[p] # NULL => text'[h[p]] = text[h[p]]
    BY <1>0, <2>1, <2>2 DEF Written
  <2> QED
    BY <1>2, <2>3 DEF Read
<1>4. [i \in 1..roles_seen |-> Read(slots[i])]' = << >>
  BY <1>1
<1>5. Block!Roles(v)
  BY <1>1, <1>2, <1>3, <1>4 DEF Block!Roles, Block!Reading, Pointers
<1> QED
  BY <1>5 DEF Block!Next

LEMMA RefineRole ==
    ASSUME IInv, NEW v \in Values, Role(v) PROVE Block!Next
<1> USE DEF IInv
<1>a. PICK n \in Nat : n = roles_seen
  BY LimitsAssumption DEF TypeOK
<1> DEFINE list == [i \in 1..n |-> Read(slots[i])]
<1>0. PICK b \in Blocks \ live :
        /\ text' = Written({}, b, v)
        /\ slots' = [slots EXCEPT ![n + 1] = b]
  BY <1>a DEF Role
<1>1. /\ pc = "lines" /\ pc' = "lines" /\ printed' = printed /\ h' = h /\ h["roles"] # NULL
      /\ roles_declared' = roles_declared /\ roles_seen' = n + 1
      /\ n = roles_seen /\ n < roles_declared /\ n + 1 \in 1..Len(slots)
  BY <1>a, LimitsAssumption DEF Role, Shape, TypeOK
<1>b. list \in Seq(Values \cup {Garbage})
  <2>1. \A i \in 1..n : Read(slots[i]) \in Values \cup {Garbage}
    BY <1>1, Kept DEF Read, TypeOK, Shape
  <2> QED
    BY <2>1
<1>2. \A x \in live : text'[x] = text[x]
  BY <1>0 DEF Written, TypeOK
<1>3. \A p \in Pointers : Read(h[p])' = Read(h[p])
  BY <1>1, <1>2, Kept DEF Read
<1>4. slots'[n + 1] = b /\ \A i \in 1..n : slots'[i] = slots[i]
  BY <1>0, <1>1 DEF TypeOK
<1>5. Read(slots[n + 1])' = v
  BY <1>0, <1>4, HeapAssumption DEF Read, Written
<1>6. \A i \in 1..n : Read(slots[i])' = Read(slots[i])
  BY <1>1, <1>2, <1>4, Kept DEF Read
<1>7. [i \in 1..roles_seen |-> Read(slots[i])]' = Append(list, v)
  <2>1. list \in Seq(Values \cup {Garbage}) /\ Len(list) = n
    BY <1>1, <1>b
  <2>2. Append(list, v) = [i \in 1..(n + 1) |-> IF i = n + 1 THEN v ELSE list[i]]
    BY <1>1, <2>1
  <2>3. \A i \in 1..(n + 1) : Read(slots[i])' = IF i = n + 1 THEN v ELSE list[i]
    <3> TAKE i \in 1..(n + 1)
    <3>1. CASE i = n + 1
      BY <1>5, <3>1
    <3>2. CASE i \in 1..n
      BY <1>6, <3>2
    <3> QED
      BY <3>1, <3>2
  <2> QED
    BY <1>1, <2>2, <2>3
<1>8. Len(list) = n
  BY <1>1
<1>9. list # NULL /\ h'["roles"] # NULL
  BY <1>1, <1>b, ContentsAssumption
<1>10. Block!Role(v)
  BY <1>1, <1>3, <1>7, <1>8, <1>9 DEF Block!Role, Block!Reading, Pointers
<1> QED
  BY <1>10 DEF Block!Next

LEMMA RefineNote ==
    ASSUME IInv, NEW v \in Values, Note(v) PROVE Block!Next
<1> USE DEF IInv
<1>0. PICK b \in Blocks \ Live({h["note"]}) :
        IF h["first_note"] # NULL
        THEN /\ text' = Written({h["note"]}, b, v)
             /\ h' = [h EXCEPT !["note"] = b]
        ELSE \E c \in Blocks \ (Live({h["note"]}) \cup {b}) :
             /\ text' = [Written({h["note"]}, b, v) EXCEPT ![c] = v]
             /\ h' = [h EXCEPT !["note"] = b, !["first_note"] = c]
  BY DEF Note
<1>1. /\ pc = "lines" /\ pc' = "lines" /\ printed' = printed
      /\ roles_declared' = roles_declared /\ roles_seen' = roles_seen /\ slots' = slots
  BY DEF Note, roles
<1>2. /\ h'["note"] = b /\ b # NULL /\ text'[b] = v
      /\ \A p \in Pointers \ {"note", "first_note"} : h'[p] = h[p]
      /\ \A x \in live \ {h["note"]} : text'[x] = text[x]
  BY <1>0, HeapAssumption DEF Written, Live, TypeOK, Pointers
<1>3. /\ h["first_note"] # NULL => h'["first_note"] = h["first_note"]
      /\ h["first_note"] = NULL => Read(h["first_note"])' = v
  BY <1>0, HeapAssumption DEF Written, TypeOK, Pointers, Read
<1>4. \A p \in Pointers \ {"note", "first_note"} : Read(h[p])' = Read(h[p])
  BY <1>1, <1>2, Kept DEF Read, Pointers
<1>5. Read(h["first_note"])' = IF Read(h["first_note"]) = NULL THEN v ELSE Read(h["first_note"])
  BY <1>1, <1>2, <1>3, Kept DEF Read, Pointers
<1>6. Read(h["note"])' = v
  BY <1>2 DEF Read
<1>7. [i \in 1..roles_seen |-> Read(slots[i])]' = [i \in 1..roles_seen |-> Read(slots[i])]
  BY <1>1, <1>2, Kept DEF Read, Pointers
<1>8. h'["roles"] = h["roles"]
  BY <1>2 DEF Pointers
<1>9. Block!Note(v)
  BY <1>1, <1>4, <1>5, <1>6, <1>7, <1>8 DEF Block!Note, Block!Reading, Pointers
<1> QED
  BY <1>9 DEF Block!Next

LEMMA RefineReport == ASSUME IInv, Report PROVE Block!Next
<1>1. pc = "lines" /\ pc' = "cleanup"
  BY DEF Report
<1>2. Block!Forget
  BY <1>1, Forgotten
<1>3. printed' =
        [name |-> Read(h["name"]), tag |-> Read(h["tag"]), declared |-> roles_declared,
         roles |-> IF h["roles"] = NULL THEN NULL
                   ELSE [i \in 1..roles_seen |-> Read(slots[i])],
         note |-> Read(h["note"]), first |-> Read(h["first_note"])]
  BY DEF Report
<1>4. Block!Report
  BY <1>1, <1>2, <1>3 DEF Block!Report
<1> QED
  BY <1>4 DEF Block!Next

LEMMA RefineStutter ==
    ASSUME IInv, Cleanup \/ UNCHANGED vars PROVE UNCHANGED Block!vars
<1>1. CASE Cleanup
  BY <1>1 DEF Cleanup, Block!vars, Block!fields
<1>2. CASE UNCHANGED vars
  BY <1>2 DEF vars, roles, heap, Read, Block!vars, Block!fields
<1> QED
  BY <1>1, <1>2

\* What is printed is what the values alone would give: the heap is invisible.
THEOREM HeapIsInvisible == Spec => BlockSpec
<1>1. Init => Block!Init
  BY DEF Init, Block!Init, Block!Blank
<1>2. ASSUME IInv, [Next]_vars PROVE [Block!Next]_(Block!vars)
  <2>1. ASSUME Fails, pc = "lines" PROVE Block!Next
    BY <1>2, <2>1, RefineFail DEF Fails
  <2>2. CASE Start \/ Report
    BY <1>2, <2>2, RefineStart, RefineReport
  <2>3. CASE UnexpectedRole
    BY <2>1, <2>3 DEF UnexpectedRole
  <2>4. CASE OutOfMemory
    BY <1>2, <2>4, RefineFail DEF OutOfMemory
  <2>5. CASE Cleanup \/ UNCHANGED vars
    BY <1>2, <2>5, RefineStutter
  <2>6. ASSUME NEW v \in Values, Name(v) \/ Tag(v) \/ Roles(v) \/ Role(v) \/ Note(v)
        PROVE  Block!Next
    BY <1>2, <2>6, RefineCopy, RefineRoles, RefineRole, RefineNote
  <2>7. ASSUME NEW v \in Values, TooLong(v) \/ NotACount(v) PROVE Block!Next
    BY <2>1, <2>7 DEF TooLong, NotACount
  <2> QED
    BY <1>2, <2>2, <2>3, <2>4, <2>5, <2>6, <2>7 DEF Next, Exited
<1> QED
  BY <1>1, <1>2, Invariance, PTL DEF Spec, BlockSpec, Block!Spec
=============================================================================
