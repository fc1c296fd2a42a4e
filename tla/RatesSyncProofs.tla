-------------------------- MODULE RatesSyncProofs --------------------------
(***************************************************************************)
(* A rates workbook never has a gap and never starts before the first day  *)
(* asked for, for any jobs, days and bounds, however runs overlap, fail or *)
(* are killed; and as long as they do not overlap, it keeps every row it   *)
(* was given.                                                              *)
(***************************************************************************)
EXTENDS RatesSync, WellFoundedInduction, TLAPS

\* The API publishes in order: what is published is a prefix of its days.
PublishedInOrder ==
    /\ today \in Int /\ published \subseteq BusinessDays
    /\ \A d \in published : d <= today
    /\ \A d \in published : \A e \in BusinessDays : e < d => e \in published

\* No run has a date before the first day of the calendar, or after today.
Dated == today >= FirstDay /\ \A j \in Jobs : till[j] \in FirstDay..today

\* A day that a new workbook could hold.
Possible(d) == \E j \in Jobs : d >= First(j, FirstDay)

\* A table that holds every published day from its first row to its last.
Sound(rows) ==
    /\ DOMAIN rows \subseteq published
    /\ Unbroken(rows)
    /\ \A d \in DOMAIN rows : Possible(d)
    /\ rows = [d \in DOMAIN rows |-> rows[d]]

\* A run asks for the days after the table it loaded.
FollowsOn(j) ==
    /\ start[j] \in Int /\ Possible(start[j])
    /\ \A d \in DOMAIN existing[j] : d < start[j]
    /\ DOMAIN existing[j] # {} => start[j] - 1 \in DOMAIN existing[j]

\* The rows it got are all those of the days from there to the last of them.
Continues(j) ==
    /\ DOMAIN fresh[j] \subseteq published
    /\ \A d \in DOMAIN fresh[j] : d >= start[j]
    /\ \A d \in DOMAIN fresh[j] : \A e \in BusinessDays :
            start[j] <= e /\ e <= d => e \in DOMAIN fresh[j]

Tables == Sound(file.rows) /\ \A j \in Jobs : Sound(existing[j])

Runs ==
    \A j \in Jobs :
        /\ pc[j] \in {"fetch", "open", "save"} => FollowsOn(j)
        /\ pc[j] \in {"open", "save"} => Continues(j)

IInv == TypeOK /\ PublishedInOrder /\ Dated /\ Tables /\ Runs

----------------------------------------------------------------------------
\* The first day of a new workbook only moves on.
LEMMA FirstMoves ==
    ASSUME TypeOK, NEW j \in Jobs, NEW d \in Int, NEW e \in Int, d <= e
    PROVE  First(j, d) \in Int /\ First(j, e) \in Int /\ First(j, d) <= First(j, e)
<1>1. since[j] \in Int \/ since[j] = NoSince
    BY SincesAssumption DEF TypeOK
<1> QED
    BY <1>1, SincesAssumption DEF First

\* A set of days that are not after today has a last one.
LEMMA LastOne ==
    ASSUME NEW D, D \subseteq Int, D # {}, NEW hi \in Int, \A d \in D : d <= hi
    PROVE  \E d \in D : \A e \in D : e <= d
<1> DEFINE T == {n \in Nat : hi - n \in D}
<1>1. T # {}
    <2>1. PICK d \in D : TRUE
        OBVIOUS
    <2>2. hi - d \in Nat /\ hi - (hi - d) = d
        BY <2>1
    <2> QED
        BY <2>1, <2>2
<1>2. PICK x \in T : \A y \in T : ~(<<y, x>> \in OpToRel(<, Nat))
    BY <1>1, WFMin, NatLessThanWellFounded
<1>3. \A y \in T : ~(y < x)
    BY <1>2 DEF OpToRel
<1>4. ASSUME NEW e \in D PROVE e <= hi - x
    <2>1. hi - e \in Nat /\ hi - (hi - e) = e
        OBVIOUS
    <2>2. hi - e \in T
        BY <2>1
    <2>3. ~(hi - e < x)
        BY <1>3, <2>2
    <2> QED
        BY <2>1, <2>3
<1> QED
    BY <1>2, <1>4

\* A day after a possible one is possible.
LEMMA PossibleAfter ==
    ASSUME TypeOK, NEW d \in Int, NEW e \in Int, d <= e, Possible(d)
    PROVE  Possible(e)
<1>1. PICK j \in Jobs : d >= First(j, FirstDay)
    BY DEF Possible
<1>2. First(j, FirstDay) \in Int
    BY FirstMoves, DaysAssumption
<1> QED
    BY <1>1, <1>2 DEF Possible

\* Start is the day after the last row, or the first day of a new workbook.
LEMMA StartFollows ==
    ASSUME TypeOK, PublishedInOrder, NEW rows, Sound(rows),
           NEW j \in Jobs, NEW day \in Int, FirstDay <= day
    PROVE  /\ Start(j, rows, day) \in Int /\ Possible(Start(j, rows, day))
           /\ \A d \in DOMAIN rows : d < Start(j, rows, day)
           /\ DOMAIN rows # {} => Start(j, rows, day) - 1 \in DOMAIN rows
           /\ DOMAIN rows = {} => Start(j, rows, day) = First(j, day)
<1>1. /\ DOMAIN rows \subseteq Int /\ today \in Int
      /\ \A d \in DOMAIN rows : d <= today
    BY DaysAssumption DEF PublishedInOrder, Sound
<1>2. First(j, day) \in Int /\ Possible(First(j, day))
    <2>1. First(j, FirstDay) \in Int /\ First(j, day) >= First(j, FirstDay) /\ First(j, day) \in Int
        BY FirstMoves, DaysAssumption
    <2> QED
        BY <2>1 DEF Possible
<1>3. CASE DOMAIN rows = {}
    <2>1. rows = [d \in DOMAIN rows |-> rows[d]]
        BY DEF Sound
    <2>2. [d \in DOMAIN rows |-> rows[d]] = [d \in {} |-> {}]
        BY <1>3
    <2>3. rows = NoRows
        BY <2>1, <2>2 DEF NoRows
    <2>4. Start(j, rows, day) = First(j, day)
        BY <2>3 DEF Start
    <2> QED
        BY <1>2, <1>3, <2>4
<1>4. CASE DOMAIN rows # {}
    <2>1. rows # NoRows
        BY <1>4 DEF NoRows
    <2> DEFINE last == CHOOSE d \in DOMAIN rows : \A e \in DOMAIN rows : e <= d
    <2>2. last \in DOMAIN rows /\ \A e \in DOMAIN rows : e <= last
        BY <1>1, <1>4, LastOne
    <2>3. Start(j, rows, day) = last + 1
        BY <2>1 DEF Start, LastOf
    <2> HIDE DEF last
    <2>4. last \in Int /\ Possible(last)
        BY <1>1, <2>2 DEF Sound
    <2>5. Possible(last + 1)
        BY <2>4, PossibleAfter
    <2> QED
        BY <1>1, <1>4, <2>2, <2>3, <2>4, <2>5
<1> QED
    BY <1>3, <1>4

\* What a run writes is sound when what it loaded and what it got are.
LEMMA MergeSound ==
    ASSUME NEW j \in Jobs, TypeOK, PublishedInOrder, Sound(existing[j]), FollowsOn(j), Continues(j)
    PROVE  Sound(Merge(existing[j], fresh[j]))
<1> DEFINE old == DOMAIN existing[j]
           new == DOMAIN fresh[j]
           rows == Merge(existing[j], fresh[j])
<1>1. DOMAIN rows = old \cup new
    BY DEF Merge
<1>2. BusinessDays \subseteq Int /\ published \subseteq BusinessDays
    BY DaysAssumption DEF PublishedInOrder
<1>3. \A d \in old \cup new : Possible(d)
    <2>1. \A d \in new : d \in Int /\ d >= start[j]
        BY <1>2 DEF Continues
    <2>2. start[j] \in Int /\ Possible(start[j])
        BY DEF FollowsOn
    <2>3. \A d \in new : Possible(d)
        BY <2>1, <2>2, PossibleAfter
    <2>4. \A d \in old : Possible(d)
        BY DEF Sound
    <2> QED
        BY <2>3, <2>4
<1>4. ASSUME NEW a \in old \cup new, NEW b \in old \cup new, NEW d \in BusinessDays,
             a <= d, d <= b
      PROVE  d \in old \cup new
    <2>0. a \in Int /\ b \in Int /\ d \in Int /\ start[j] \in Int
        BY <1>2 DEF Sound, Continues, FollowsOn
    <2>1. CASE a \in new
        <3>1. start[j] <= a
            BY <2>1 DEF Continues
        <3>2. start[j] <= d
            BY <1>4, <2>0, <3>1
        <3>3. b \in new
            <4>1. CASE b \in old
                <5>1. b < start[j]
                    BY <4>1 DEF FollowsOn
                <5> QED
                    BY <1>4, <2>0, <3>2, <5>1
            <4> QED
                BY <4>1
        <3> QED
            BY <1>4, <3>2, <3>3 DEF Continues
    <2>2. CASE a \in old /\ b \in old
        BY <1>4, <2>2 DEF Sound, Unbroken
    <2>3. CASE a \in old /\ b \in new
        <3>1. start[j] - 1 \in old /\ start[j] \in Int
            BY <2>3 DEF FollowsOn
        <3>2. CASE d <= start[j] - 1
            BY <1>4, <2>3, <3>1, <3>2 DEF Sound, Unbroken
        <3>3. CASE ~(d <= start[j] - 1)
            <4>1. start[j] <= d
                BY <1>2, <3>1, <3>3
            <4> QED
                BY <1>4, <2>3, <4>1 DEF Continues
        <3> QED
            BY <3>2, <3>3
    <2> QED
        BY <2>1, <2>2, <2>3
<1> HIDE DEF old, new
<1>5. Unbroken(rows)
    BY <1>1, <1>4 DEF Unbroken
<1>6. DOMAIN rows \subseteq published
    BY <1>1 DEF Sound, Continues, old, new
<1> QED
    BY <1>1, <1>3, <1>5, <1>6 DEF Sound, Merge

----------------------------------------------------------------------------
LEMMA InitIInv == Init => IInv
<1> SUFFICES ASSUME Init PROVE IInv
    OBVIOUS
<1>1. DOMAIN NoRows = {} /\ NoRows = [d \in DOMAIN NoRows |-> NoRows[d]]
    BY DEF NoRows
<1>2. file.kind = "absent" /\ file.rows = NoRows
    BY DEF Init, Absent
<1>3. TypeOK
    BY <1>1, <1>2, DaysAssumption DEF Init, TypeOK, MAX_ATTEMPTS
<1>8. Dated
    BY DaysAssumption DEF Init, Dated
<1>4. PublishedInOrder
    BY DaysAssumption DEF Init, PublishedInOrder
<1>5. Sound(NoRows)
    BY <1>1 DEF Sound, Unbroken
<1>6. Tables
    BY <1>2, <1>5 DEF Init, Tables
<1>7. Runs
    BY DEF Init, Runs
<1> QED
    BY <1>3, <1>4, <1>6, <1>7, <1>8 DEF IInv

\* The rows a run gets continue the table it loaded.
LEMMA AnswerContinues ==
    ASSUME PublishedInOrder, NEW j \in Jobs, start[j] \in Int, till[j] \in Int,
           NEW days \in Answers(j)
    PROVE  LET new == FreshRows(j, days)
           IN  /\ DOMAIN new \subseteq published
               /\ \A d \in DOMAIN new : d >= start[j]
               /\ \A d \in DOMAIN new : \A e \in BusinessDays :
                    start[j] <= e /\ e <= d => e \in DOMAIN new
<1> DEFINE range == {d \in published : start[j] <= d /\ d <= till[j]}
<1>1. published \subseteq Int /\ BusinessDays \subseteq Int
    BY DaysAssumption DEF PublishedInOrder
<1>2. DOMAIN FreshRows(j, days) = {e \in days : start[j] <= e}
    BY DEF FreshRows
<1>3. {e \in days : start[j] <= e} = range
    <2> DEFINE padding ==
            {d \in published : d < start[j] /\ \A e \in published : e < start[j] => e <= d}
    <2>1. days = range \/ days = range \cup padding
        BY DEF Answers
    <2>2. \A d \in padding : ~(start[j] <= d)
        BY <1>1
    <2>3. \A d \in range : start[j] <= d
        OBVIOUS
    <2> HIDE DEF padding, range
    <2> QED
        BY <2>1, <2>2, <2>3
<1>4. ASSUME NEW d \in range, NEW e \in BusinessDays, start[j] <= e, e <= d
      PROVE  e \in range
    BY <1>1, <1>4 DEF PublishedInOrder
<1> HIDE DEF range
<1>5. range \subseteq published /\ \A d \in range : d >= start[j]
    BY <1>1 DEF range
<1> QED
    BY <1>2, <1>3, <1>4, <1>5

\* What a book holds is the merge of what its run loaded and got.
LEMMA BookSound ==
    ASSUME IInv, NEW j \in Jobs, pc[j] = "save"
    PROVE  Sound(Book(j).rows) /\ Book(j).kind = "book"
<1>1. Sound(Merge(existing[j], fresh[j]))
    BY MergeSound DEF IInv, Tables, Runs
<1>2. Book(j).rows = Merge(existing[j], fresh[j]) /\ Book(j).kind = "book"
    BY DEF Book
<1> QED
    BY <1>1, <1>2

\* The workbook is left alone, emptied, or replaced by the table of a run.
LEMMA FileSteps ==
    ASSUME IInv, [Next]_vars
    PROVE  \/ file' = file
           \/ file'.rows = NoRows /\ file'.kind = "unreadable"
           \/ \E j \in Jobs : pc[j] = "save" /\ file' = Book(j)
<1>1. CASE \E j \in Jobs : Open(j)
    BY <1>1 DEF Open, Unreadable, Absent
<1>2. CASE \E j \in Jobs : Save(j)
    <2>1. PICK j \in Jobs : Save(j)
        BY <1>2
    <2>2. Unreadable.rows = NoRows /\ Unreadable.kind = "unreadable"
        BY DEF Unreadable, Absent
    <2> QED
        BY <2>1, <2>2 DEF Save
<1>3. CASE NextDay \/ \E d \in BusinessDays : Publish(d) \/ Revise(d)
    BY <1>3 DEF NextDay, Publish, Revise
<1>4. CASE \E j \in Jobs : Begin(j) \/ Load(j) \/ LoadFails(j) \/ Answer(j)
                           \/ Refused(j) \/ Transient(j) \/ Kill(j)
    BY <1>4 DEF Begin, Load, LoadFails, Answer, Refused, Transient, Kill
<1>5. CASE UNCHANGED vars
    BY <1>5 DEF vars
<1> QED
    BY <1>1, <1>2, <1>3, <1>4, <1>5 DEF Next, Progress

\* Only publication changes what is published, and it only adds.
LEMMA StepPublished ==
    ASSUME IInv, [Next]_vars
    PROVE  PublishedInOrder' /\ published \subseteq published'
<1> USE DEF PublishedInOrder, IInv
<1>1. CASE NextDay
    <2>1. today' = today + 1 /\ published' = published
        BY <1>1 DEF NextDay
    <2>2. \A d \in published : d \in Int
        BY DaysAssumption
    <2> QED
        BY <2>1, <2>2
<1>2. ASSUME NEW d \in BusinessDays, Publish(d) PROVE PublishedInOrder' /\ published \subseteq published'
    BY <1>2, DaysAssumption DEF Publish
<1>3. CASE UNCHANGED <<today, published>>
    BY <1>3
<1>4. CASE (\E d \in BusinessDays : Revise(d)) \/ UNCHANGED vars
    BY <1>3, <1>4 DEF Revise, vars, world, api
<1>5. CASE \E j \in Jobs : Progress(j) \/ Refused(j) \/ Transient(j) \/ Kill(j)
    BY <1>3, <1>5 DEF Progress, Begin, Load, LoadFails, Answer, Open, Save, Refused, Transient,
       Kill, world, api
<1> QED
    BY <1>1, <1>2, <1>4, <1>5 DEF Next

\* No step changes a command line, so that what is possible stays so.
LEMMA StepSince ==
    ASSUME [Next]_vars
    PROVE  since' = since /\ \A d : Possible(d)' = Possible(d)
<1>1. since' = since
    BY DEF Next, NextDay, Publish, Revise, Progress, Begin, Load, LoadFails, Answer, Open, Save,
       Refused, Transient, Kill, vars, world
<1> QED
    BY <1>1 DEF Possible, First

\* A run takes today's date, and today only moves on.
LEMMA StepDated ==
    ASSUME IInv, [Next]_vars
    PROVE  Dated' /\ today' \in Int /\ today <= today'
<1> USE DaysAssumption DEF IInv, Dated, TypeOK
<1>1. CASE NextDay
    <2>1. today' = today + 1 /\ till' = till
        BY <1>1 DEF NextDay, run
    <2> QED
        BY <2>1
<1>2. ASSUME NEW j \in Jobs, Begin(j) PROVE Dated' /\ today' \in Int /\ today <= today'
    <2>1. till' = [till EXCEPT ![j] = today] /\ today' = today
        BY <1>2 DEF Begin, world, api
    <2> QED
        BY <2>1
<1>3. CASE UNCHANGED <<today, till>>
    BY <1>3
<1> QED
    BY <1>1, <1>2, <1>3 DEF Next, Publish, Revise, Progress, Load, LoadFails, Answer, Open, Save,
       Refused, Transient, Kill, vars, world, api, run

\* Every table on disk and in a run stays sound.
LEMMA StepTables ==
    ASSUME IInv, [Next]_vars
    PROVE  Tables'
<1>1. published \subseteq published'
    BY StepPublished
<1>2. ASSUME NEW rows, Sound(rows)
      PROVE  /\ DOMAIN rows \subseteq published' /\ Unbroken(rows)
             /\ (\A d \in DOMAIN rows : Possible(d)') /\ rows = [d \in DOMAIN rows |-> rows[d]]
    BY <1>1, <1>2, StepSince DEF Sound
<1>3. Sound(NoRows)
    BY DEF Sound, NoRows, Unbroken
<1>4. Sound(file.rows) /\ \A j \in Jobs : Sound(existing[j])
    BY DEF IInv, Tables
<1>5. /\ DOMAIN file'.rows \subseteq published' /\ Unbroken(file'.rows)
      /\ \A d \in DOMAIN file'.rows : Possible(d)'
      /\ file'.rows = [d \in DOMAIN file'.rows |-> file'.rows[d]]
    <2>1. \/ file'.rows = file.rows
          \/ file'.rows = NoRows
          \/ \E j \in Jobs : pc[j] = "save" /\ file'.rows = Book(j).rows
        BY FileSteps
    <2>2. Sound(file'.rows)
        BY <1>3, <1>4, <2>1, BookSound
    <2> QED
        BY <1>2, <2>2
<1>6. ASSUME NEW j \in Jobs PROVE existing'[j] = existing[j] \/ existing'[j] = file.rows
    <2>1. CASE \E k \in Jobs : Load(k)
        BY <2>1 DEF Load, IInv, TypeOK
    <2>2. CASE UNCHANGED existing
        BY <2>2
    <2> QED
        BY <2>1, <2>2 DEF Next, NextDay, Publish, Revise, Progress, Begin, LoadFails, Answer, Open,
           Save, Refused, Transient, Kill, vars, world, run
<1>7. ASSUME NEW j \in Jobs
      PROVE  /\ DOMAIN existing'[j] \subseteq published' /\ Unbroken(existing'[j])
             /\ \A d \in DOMAIN existing'[j] : Possible(d)'
             /\ existing'[j] = [d \in DOMAIN existing'[j] |-> existing'[j][d]]
    BY <1>2, <1>4, <1>6
<1> QED
    BY <1>5, <1>7 DEF Tables, Sound, Unbroken

\* A run at fetch, open or save goes on from what it loaded.
LEMMA StepRuns ==
    ASSUME IInv, [Next]_vars
    PROVE  Runs'
<1> USE DEF IInv
<1>1. published \subseteq published'
    BY StepPublished
<1>2. ASSUME NEW j \in Jobs,
             existing'[j] = existing[j], start'[j] = start[j], fresh'[j] = fresh[j],
             pc'[j] = pc[j] \/ pc'[j] = "idle" \/ pc'[j] = "load"
                \/ (pc[j] = "open" /\ pc'[j] = "save")
      PROVE  /\ pc'[j] \in {"fetch", "open", "save"} => FollowsOn(j)'
             /\ pc'[j] \in {"open", "save"} => Continues(j)'
    BY <1>1, <1>2, StepSince DEF Runs, FollowsOn, Continues
<1>3. CASE UNCHANGED <<existing, start, fresh, pc>>
    BY <1>2, <1>3 DEF Runs
<1>4. CASE NextDay \/ (\E d \in BusinessDays : Publish(d) \/ Revise(d)) \/ UNCHANGED vars
    BY <1>3, <1>4 DEF NextDay, Publish, Revise, vars, world, run
<1>5. ASSUME NEW k \in Jobs,
             Begin(k) \/ LoadFails(k) \/ Open(k) \/ Save(k) \/ Refused(k) \/ Transient(k) \/ Kill(k)
      PROVE  Runs'
    <2>1. UNCHANGED <<existing, start, fresh>>
        BY <1>5 DEF Begin, LoadFails, Open, Save, Refused, Transient, Kill, run
    <2>2. ASSUME NEW j \in Jobs
          PROVE  pc'[j] = pc[j] \/ pc'[j] = "idle" \/ pc'[j] = "load"
                    \/ (pc[j] = "open" /\ pc'[j] = "save")
        BY <1>5 DEF Begin, LoadFails, Open, Save, Refused, Transient, Kill, Ends, Goes, TypeOK
    <2> QED
        BY <1>2, <2>1, <2>2 DEF Runs
<1>6. ASSUME NEW k \in Jobs, Load(k) PROVE Runs'
    <2>1. /\ existing' = [existing EXCEPT ![k] = file.rows]
          /\ start' = [start EXCEPT ![k] = Start(k, file.rows, till[k])]
          /\ UNCHANGED fresh
          /\ pc' = [pc EXCEPT ![k] = "idle"] \/ pc' = [pc EXCEPT ![k] = "fetch"]
        BY <1>6 DEF Load, Ends, Goes
    <2>2. ASSUME NEW j \in Jobs, j # k
          PROVE  existing'[j] = existing[j] /\ start'[j] = start[j] /\ pc'[j] = pc[j]
        BY <2>1, <2>2 DEF TypeOK
    <2>3. existing'[k] = file.rows /\ start'[k] = Start(k, file.rows, till[k])
          /\ pc'[k] \in {"idle", "fetch"}
        BY <2>1 DEF TypeOK
    <2>4. till[k] \in Int /\ FirstDay <= till[k] /\ Sound(file.rows)
        BY DaysAssumption DEF Dated, Tables
    <2>5. FollowsOn(k)'
        BY <2>3, <2>4, StartFollows, StepSince DEF FollowsOn
    <2> QED
        BY <1>2, <2>1, <2>2, <2>3, <2>5 DEF Runs
<1>7. ASSUME NEW k \in Jobs, Answer(k) PROVE Runs'
    <2>1. PICK days \in Answers(k) : fresh' = [fresh EXCEPT ![k] = FreshRows(k, days)]
        BY <1>7 DEF Answer
    <2>2. /\ UNCHANGED <<existing, start>> /\ pc[k] = "fetch"
          /\ pc' = [pc EXCEPT ![k] = "idle"] \/ pc' = [pc EXCEPT ![k] = "open"]
        BY <1>7 DEF Answer, Ends, Goes
    <2>3. fresh'[k] = FreshRows(k, days) /\ pc'[k] \in {"idle", "open"}
        BY <2>1, <2>2 DEF TypeOK
    <2>4. FollowsOn(k) /\ start[k] \in Int /\ till[k] \in Int
        BY <2>2 DEF Runs, TypeOK
    <2>5. FollowsOn(k)'
        BY <2>2, <2>4, StepSince DEF FollowsOn
    <2>6. Continues(k)'
        BY <1>1, <2>2, <2>3, <2>4, AnswerContinues DEF Continues
    <2>7. ASSUME NEW j \in Jobs, j # k PROVE fresh'[j] = fresh[j] /\ pc'[j] = pc[j]
        BY <2>1, <2>2, <2>7 DEF TypeOK
    <2> QED
        BY <1>2, <2>2, <2>3, <2>5, <2>6, <2>7 DEF Runs
<1> QED
    BY <1>4, <1>5, <1>6, <1>7 DEF Next, Progress

\* Every step keeps the types.
LEMMA StepTypeOK ==
    ASSUME IInv, [Next]_vars
    PROVE  TypeOK'
<1> USE DEF IInv
<1>1. PublishedInOrder' /\ Tables'
    BY StepPublished, StepTables
<1>2. /\ today' \in Int /\ published' \subseteq BusinessDays
      /\ DOMAIN file'.rows \subseteq BusinessDays
      /\ \A j \in Jobs : DOMAIN existing'[j] \subseteq BusinessDays
    BY <1>1 DEF PublishedInOrder, Tables, Sound
<1>3. file'.kind \in {"absent", "unreadable", "book"}
    BY FileSteps, BookSound DEF TypeOK
<1>4. ASSUME NEW f, NEW D, f \in [Jobs -> D], NEW j \in Jobs, NEW x \in D
      PROVE  [f EXCEPT ![j] = x] \in [Jobs -> D]
    BY <1>4
<1>5. DOMAIN existing' = Jobs /\ DOMAIN columns' = Jobs /\ DOMAIN fresh' = Jobs
    BY DEF TypeOK, Next, NextDay, Publish, Revise, Progress, Begin, Load, LoadFails, Answer, Open,
       Save, Refused, Transient, Kill, vars, world, run
<1>6. ASSUME NEW j \in Jobs PROVE DOMAIN fresh'[j] \subseteq BusinessDays
    <2>1. CASE \E k \in Jobs : Answer(k)
        <3>0. PICK k \in Jobs : Answer(k)
            BY <2>1
        <3>1. PICK days \in Answers(k) : fresh' = [fresh EXCEPT ![k] = FreshRows(k, days)]
            BY <3>0 DEF Answer
        <3>2. DOMAIN FreshRows(k, days) \subseteq BusinessDays
            BY DEF FreshRows, Answers, PublishedInOrder
        <3> QED
            BY <3>1, <3>2 DEF TypeOK
    <2>2. CASE UNCHANGED fresh
        BY <2>2 DEF TypeOK
    <2> QED
        BY <2>1, <2>2 DEF Next, NextDay, Publish, Revise, Progress, Begin, Load, LoadFails,
           Open, Save, Refused, Transient, Kill, vars, world, run
<1>7. pc' \in [Jobs -> {"idle", "load", "fetch", "open", "save"}]
    BY DEF TypeOK, Next, NextDay, Publish, Revise, Progress, Begin, Load, LoadFails, Answer, Open,
       Save, Refused, Transient, Kill, vars, Ends, Goes
<1>8. exit' \in [Jobs -> {0, 1}]
    BY DEF TypeOK, Next, NextDay, Publish, Revise, Progress, Begin, Load, LoadFails, Answer, Open,
       Save, Refused, Transient, Kill, vars, Ends, Goes
<1>9. till' \in [Jobs -> Int]
    BY DEF TypeOK, Next, NextDay, Publish, Revise, Progress, Begin, Load, LoadFails, Answer, Open,
       Save, Refused, Transient, Kill, vars, world, run
<1>10. start' \in [Jobs -> Int]
    <2>1. CASE \E k \in Jobs : Load(k)
        <3>1. \A k \in Jobs : Start(k, file.rows, till[k]) \in Int
            BY DaysAssumption, StartFollows DEF Dated, Tables
        <3> QED
            BY <2>1, <3>1 DEF Load, TypeOK
    <2>2. CASE UNCHANGED start
        BY <2>2 DEF TypeOK
    <2> QED
        BY <2>1, <2>2 DEF Next, NextDay, Publish, Revise, Progress, Begin, LoadFails, Answer,
           Open, Save, Refused, Transient, Kill, vars, world, run
<1>11. attempt' \in [Jobs -> 0..MAX_ATTEMPTS]
    BY DEF TypeOK, MAX_ATTEMPTS, Next, NextDay, Publish, Revise, Progress, Begin, Load, LoadFails,
       Answer, Open, Save, Refused, Transient, Kill, vars, world, run
<1>12. overlapped' \in [Jobs -> BOOLEAN]
    <2>1. CASE \E k \in Jobs : Open(k)
        BY <2>1 DEF Open, TypeOK
    <2>2. CASE UNCHANGED overlapped
        BY <2>2 DEF TypeOK
    <2> QED
        BY <2>1, <2>2 DEF Next, NextDay, Publish, Revise, Progress, Begin, Load, LoadFails, Answer,
           Save, Refused, Transient, Kill, vars, world, run
<1>13. since' \in [Jobs -> Sinces]
    BY StepSince DEF TypeOK
<1> QED
    BY <1>2, <1>3, <1>5, <1>6, <1>7, <1>8, <1>9, <1>10, <1>11, <1>12, <1>13 DEF TypeOK

----------------------------------------------------------------------------
\* The inductive invariant holds in every reachable state.
THEOREM Invariance == Spec => []IInv
<1>1. Init => IInv
    BY InitIInv
<1>2. IInv /\ [Next]_vars => IInv'
    BY StepTypeOK, StepPublished, StepDated, StepTables, StepRuns DEF IInv
<1> QED
    BY <1>1, <1>2, PTL DEF Spec

\* Every variable keeps its type, for any jobs, days and bounds.
THEOREM SyncTypeCorrect == Spec => []TypeOK
<1>1. IInv => TypeOK
    BY DEF IInv
<1> QED
    BY <1>1, Invariance, PTL

\* A workbook never lacks a business day between two of its rows, however many
\* jobs overlap on it, fail or are killed (sync_rates.py:51, rates.py:67-80).
THEOREM WorkbookHasNoGaps == Spec => []NoGaps
<1>1. IInv => NoGaps
    BY DEF IInv, Tables, Sound, NoGaps
<1> QED
    BY <1>1, Invariance, PTL

\* A workbook never starts before --since, nor without it before the look-back of
\* the first day there is (rates.py:34-36, sync_rates.py:53).
THEOREM WorkbookStartsAtSince == Spec => []NothingBeforeSince
<1>1. IInv => NothingBeforeSince
    BY DEF IInv, Tables, Sound, NothingBeforeSince, Possible
<1> QED
    BY <1>1, Invariance, PTL

----------------------------------------------------------------------------
\* One run has ended before the next is started, as README.md of rates-sync
\* schedules them.
OneAtATime == \A j, k \in Jobs : pc[j] # "idle" /\ pc[k] # "idle" => j = k

\* Then whatever can be loaded holds what was saved last, and so does the table
\* of a run that is past loading it.
UpToLastSave ==
    /\ saved = [d \in DOMAIN saved |-> saved[d]]
    /\ file.kind # "unreadable" => file.rows = saved
    /\ \A j \in Jobs : pc[j] \in {"fetch", "open", "save"} => existing[j] = saved
    /\ \A j \in Jobs : pc[j] = "save" => file.kind = "unreadable"

Keeps == \A d \in DOMAIN saved : d \in DOMAIN saved' /\ saved'[d] = saved[d]

LEMMA InitUpToLastSave == Init => UpToLastSave
BY DEF Init, UpToLastSave, Absent, NoRows

\* A save writes every row of the table its run loaded.
LEMMA SaveKeeps ==
    ASSUME IInv, OneAtATime, UpToLastSave, NEW j \in Jobs, Save(j)
    PROVE  UpToLastSave' /\ Keeps
<1>1. existing[j] = saved /\ pc[j] = "save" /\ file.kind = "unreadable"
    BY DEF Save, UpToLastSave
<1>2. pc' = [pc EXCEPT ![j] = "idle"] /\ UNCHANGED existing
    BY DEF Save, Ends, Goes, run
<1>3. \A k \in Jobs : pc'[k] = "idle"
    BY <1>1, <1>2 DEF OneAtATime, IInv, TypeOK
<1>4. CASE file' = Book(j)
    <2>1. /\ file'.kind = "book"
          /\ file'.rows = Merge(saved, fresh[j])
        BY <1>1, <1>4 DEF Book
    <2>2. saved' = Merge(saved, fresh[j])
        BY <2>1 DEF Save
    <2>3. Keeps
        BY <2>2 DEF Keeps, Merge
    <2>4. saved' = [d \in DOMAIN saved' |-> saved'[d]]
        BY <2>2 DEF Merge
    <2> QED
        BY <1>3, <2>1, <2>2, <2>3, <2>4 DEF UpToLastSave
<1>5. CASE file' = Unreadable
    <2>1. file'.kind = "unreadable"
        BY <1>5 DEF Unreadable, Absent
    <2>2. saved' = saved
        BY <2>1 DEF Save
    <2> QED
        BY <1>3, <2>1, <2>2 DEF UpToLastSave, Keeps
<1> QED
    BY <1>4, <1>5 DEF Save

\* No other step saves, and none lets a run go on from anything else.
LEMMA StepUpToLastSave ==
    ASSUME IInv, OneAtATime, UpToLastSave, [Next]_vars
    PROVE  UpToLastSave' /\ (Keeps \/ UNCHANGED saved)
<1> USE DEF UpToLastSave
<1>1. CASE NextDay \/ (\E d \in BusinessDays : Publish(d) \/ Revise(d)) \/ UNCHANGED vars
    BY <1>1 DEF NextDay, Publish, Revise, vars, world, run
<1>2. ASSUME NEW j \in Jobs, Load(j) PROVE UpToLastSave' /\ UNCHANGED saved
    <2>1. /\ existing' = [existing EXCEPT ![j] = file.rows]
          /\ file.kind # "unreadable"
          /\ UNCHANGED <<file, saved>>
          /\ pc' = [pc EXCEPT ![j] = "idle"] \/ pc' = [pc EXCEPT ![j] = "fetch"]
        BY <1>2 DEF Load, Loadable, Ends, Goes
    <2> QED
        BY <2>1 DEF IInv, TypeOK
<1>3. ASSUME NEW j \in Jobs, Open(j) PROVE UpToLastSave' /\ UNCHANGED saved
    <2>1. /\ pc[j] = "open" /\ pc' = [pc EXCEPT ![j] = "save"]
          /\ UNCHANGED <<existing, saved>>
        BY <1>3 DEF Open, Goes
    <2>2. file'.kind = "unreadable"
        BY <1>3 DEF Open, Unreadable, Absent
    <2> QED
        BY <2>1, <2>2 DEF IInv, TypeOK
<1>4. ASSUME NEW j \in Jobs, Save(j) PROVE UpToLastSave' /\ Keeps
    BY <1>4, SaveKeeps
<1>5. ASSUME NEW j \in Jobs,
             Begin(j) \/ LoadFails(j) \/ Answer(j) \/ Refused(j) \/ Transient(j) \/ Kill(j)
      PROVE  UpToLastSave' /\ UNCHANGED saved
    <2>1. UNCHANGED <<file, existing, saved>>
        BY <1>5 DEF Begin, LoadFails, Answer, Refused, Transient, Kill, run
    <2>2. ASSUME NEW k \in Jobs
          PROVE  \/ pc'[k] = pc[k] \/ pc'[k] \in {"idle", "load"}
                 \/ pc[k] = "fetch" /\ pc'[k] = "open"
        BY <1>5 DEF Begin, LoadFails, Answer, Refused, Transient, Kill, Ends, Goes, IInv, TypeOK
    <2> QED
        BY <2>1, <2>2
<1> QED
    BY <1>1, <1>2, <1>3, <1>4, <1>5 DEF Next, Progress

\* While jobs run one after the other, every row once saved is saved again with the
\* rate it had, whatever the API corrects and however runs fail or are killed
\* (rates.py:67-68).
THEOREM SavedRowsAreKept == Spec /\ []OneAtATime => RowsKept
<1>1. Init => UpToLastSave
    BY InitUpToLastSave
<1>2. IInv /\ OneAtATime /\ UpToLastSave /\ [Next]_vars => UpToLastSave'
    BY StepUpToLastSave
<1>3. IInv /\ OneAtATime /\ UpToLastSave /\ [Next]_vars => [Keeps]_saved
    BY StepUpToLastSave
<1>4. Spec /\ []OneAtATime => [][Keeps]_saved
    BY <1>1, <1>2, <1>3, Invariance, PTL DEF Spec
<1> QED
    BY <1>4 DEF RowsKept, Keeps

----------------------------------------------------------------------------
(* What is missing from a workbook is asked for.                           *)

\* A table that lacks no day that is due up to its last row.
FromDue(rows) ==
    \A b \in DOMAIN rows : \A d \in BusinessDays : Due(d) /\ d <= b => d \in DOMAIN rows

Complete ==
    /\ FromDue(file.rows)
    /\ \A j \in Jobs : FromDue(existing[j])
    /\ \A j \in Jobs : pc[j] \in {"fetch", "open", "save"} =>
            \A d \in BusinessDays : Due(d) /\ d < start[j] => d \in DOMAIN existing[j]

\* Every published day the workbook lacks, of those that are due and those that
\* come after one of its rows, is one the next run of any job will ask for.
MissingIsAskedFor ==
    \A d \in published \ DOMAIN file.rows :
        Wanted(d) => \A j \in Jobs : Start(j, file.rows, today) <= d

\* A table has every published day up to one, of those that are due and those that
\* come after one of its rows.
HasAll(rows, day) ==
    \A d \in published :
        (Due(d) \/ \E e \in DOMAIN rows : e <= d) /\ d <= day => d \in DOMAIN rows

\* A run has, before it writes or when it finds nothing to do, every day published
\* up to its own date.
RunMissesNothing ==
    [][\A j \in Jobs :
        /\ Load(j) /\ pc'[j] = "idle" => HasAll(file.rows, till[j])
        /\ Answer(j) /\ pc'[j] = "open" => HasAll(Merge(existing[j], fresh'[j]), till[j])]_vars

\* What is due to a day that is over today is due to the job of that day as well.
LEMMA DueSince ==
    ASSUME TypeOK, NEW j \in Jobs, NEW day \in Int, day <= today, NEW d \in Int, Due(d)
    PROVE  First(j, day) \in Int /\ First(j, day) <= d
<1>1. First(j, day) \in Int /\ First(j, today) \in Int /\ First(j, day) <= First(j, today)
    BY FirstMoves DEF TypeOK
<1>2. First(j, today) <= d
    BY DEF Due
<1> QED
    BY <1>1, <1>2

\* What is due tomorrow is due today.
LEMMA StepDue ==
    ASSUME IInv, [Next]_vars, NEW d \in BusinessDays, Due(d)'
    PROVE  Due(d)
<1>1. since' = since /\ today' \in Int /\ today <= today' /\ today \in Int /\ d \in Int
    BY StepSince, StepDated, DaysAssumption DEF IInv, TypeOK
<1>2. ASSUME NEW j \in Jobs PROVE First(j, today) <= d
    <2>1. First(j, today') <= d
        BY <1>1 DEF Due, First
    <2>2. First(j, today) \in Int /\ First(j, today') \in Int /\ First(j, today) <= First(j, today')
        BY <1>1, FirstMoves DEF IInv
    <2> QED
        BY <1>1, <2>1, <2>2
<1> QED
    BY <1>2 DEF Due

\* Start is past no day that is missing.
LEMMA StartReaches ==
    ASSUME TypeOK, PublishedInOrder, NEW rows, Sound(rows), FromDue(rows),
           NEW j \in Jobs, NEW day \in Int, FirstDay <= day, day <= today
    PROVE  /\ Start(j, rows, day) \in Int
           /\ \A d \in BusinessDays :
                (Due(d) \/ \E e \in DOMAIN rows : e <= d) /\ d < Start(j, rows, day)
                    => d \in DOMAIN rows
<1>1. /\ Start(j, rows, day) \in Int
      /\ \A d \in DOMAIN rows : d < Start(j, rows, day)
      /\ DOMAIN rows # {} => Start(j, rows, day) - 1 \in DOMAIN rows
      /\ DOMAIN rows = {} => Start(j, rows, day) = First(j, day)
    BY StartFollows
<1>2. ASSUME NEW d \in BusinessDays, Due(d) \/ \E e \in DOMAIN rows : e <= d,
             d < Start(j, rows, day)
      PROVE  d \in DOMAIN rows
    <2>1. d \in Int
        BY DaysAssumption
    <2>2. CASE DOMAIN rows = {}
        <3>1. First(j, day) \in Int /\ First(j, day) <= d
            BY <1>2, <2>1, <2>2, DueSince
        <3> QED
            BY <1>1, <1>2, <2>1, <2>2, <3>1
    <2>3. CASE DOMAIN rows # {}
        <3>1. d <= Start(j, rows, day) - 1 /\ Start(j, rows, day) - 1 \in DOMAIN rows
            BY <1>1, <1>2, <2>1, <2>3
        <3>2. CASE Due(d)
            BY <3>1, <3>2 DEF FromDue
        <3>3. CASE \E e \in DOMAIN rows : e <= d
            BY <3>1, <3>3 DEF Sound, Unbroken
        <3> QED
            BY <1>2, <3>2, <3>3
    <2> QED
        BY <2>2, <2>3
<1> QED
    BY <1>1, <1>2

\* What a run writes lacks nothing that is due, if what it loaded does not.
LEMMA MergeFromDue ==
    ASSUME IInv, Complete, NEW j \in Jobs, pc[j] \in {"open", "save"}
    PROVE  FromDue(Merge(existing[j], fresh[j]))
<1>1. DOMAIN Merge(existing[j], fresh[j]) = DOMAIN existing[j] \cup DOMAIN fresh[j]
    BY DEF Merge
<1>2. FollowsOn(j) /\ Continues(j) /\ start[j] \in Int /\ BusinessDays \subseteq Int
    BY DaysAssumption DEF IInv, Runs, FollowsOn
<1>3. \A d \in BusinessDays : Due(d) /\ d < start[j] => d \in DOMAIN existing[j]
    BY DEF Complete
<1>4. ASSUME NEW b \in DOMAIN existing[j] \cup DOMAIN fresh[j], NEW d \in BusinessDays,
             Due(d), d <= b
      PROVE  d \in DOMAIN existing[j] \cup DOMAIN fresh[j]
    <2>1. CASE b \in DOMAIN existing[j]
        BY <1>4, <2>1 DEF Complete, FromDue
    <2>2. CASE b \in DOMAIN fresh[j] /\ start[j] <= d
        BY <1>2, <1>4, <2>2 DEF Continues
    <2>3. CASE ~(start[j] <= d)
        BY <1>2, <1>3, <1>4, <2>3
    <2> QED
        BY <2>1, <2>2, <2>3
<1> QED
    BY <1>1, <1>4 DEF FromDue

\* There is no table to lack anything when nothing has run.
LEMMA InitComplete == Init => Complete
BY DEF Init, Complete, FromDue, Absent, NoRows

\* A run that loads a table starts where it ends.
LEMMA LoadComplete ==
    ASSUME IInv, Complete, [Next]_vars, NEW j \in Jobs, Load(j)
    PROVE  Complete'
<1>1. /\ existing' = [existing EXCEPT ![j] = file.rows]
      /\ start' = [start EXCEPT ![j] = Start(j, file.rows, till[j])]
      /\ file' = file
      /\ pc' = [pc EXCEPT ![j] = "idle"] \/ pc' = [pc EXCEPT ![j] = "fetch"]
    BY DEF Load, Ends, Goes
<1>2. \A d \in BusinessDays :
        Due(d) /\ d < Start(j, file.rows, till[j]) => d \in DOMAIN file.rows
    <2>1. till[j] \in Int /\ FirstDay <= till[j] /\ till[j] <= today
        BY DaysAssumption DEF IInv, Dated
    <2> QED
        BY <2>1, StartReaches DEF IInv, Tables, Complete
<1>3. DOMAIN existing = Jobs /\ DOMAIN start = Jobs /\ DOMAIN pc = Jobs
    BY DEF IInv, TypeOK
<1>4. existing'[j] = file.rows /\ start'[j] = Start(j, file.rows, till[j])
    BY <1>1, <1>3
<1>5. \A k \in Jobs \ {j} : existing'[k] = existing[k] /\ start'[k] = start[k] /\ pc'[k] = pc[k]
    BY <1>1, <1>3
<1>6. \A k \in Jobs : FromDue(existing'[k])
    BY <1>4, <1>5 DEF Complete
<1>7. \A k \in Jobs : pc'[k] \in {"fetch", "open", "save"} =>
        \A d \in BusinessDays : Due(d) /\ d < start'[k] => d \in DOMAIN existing'[k]
    BY <1>2, <1>4, <1>5 DEF Complete
<1>8. \A d \in BusinessDays : Due(d)' => Due(d)
    BY StepDue
<1> QED
    BY <1>1, <1>6, <1>7, <1>8 DEF Complete, FromDue

\* A run that saves leaves the file without a day missing, or unreadable.
LEMMA SaveComplete ==
    ASSUME IInv, Complete, [Next]_vars, NEW j \in Jobs, Save(j)
    PROVE  Complete'
<1>1. FromDue(file'.rows)
    <2>1. file' \in {Book(j), Unreadable} /\ pc[j] = "save"
        BY DEF Save
    <2>2. FromDue(Book(j).rows)
        BY <2>1, MergeFromDue DEF Book
    <2>3. FromDue(Unreadable.rows)
        BY DEF FromDue, Unreadable, Absent, NoRows
    <2> QED
        BY <2>1, <2>2, <2>3
<1>2. UNCHANGED <<existing, start>> /\ pc' = [pc EXCEPT ![j] = "idle"]
    BY DEF Save, Ends, Goes, run
<1>3. \A k \in Jobs : pc'[k] = pc[k] \/ pc'[k] = "idle"
    BY <1>2 DEF IInv, TypeOK
<1>4. \A d \in BusinessDays : Due(d)' => Due(d)
    BY StepDue
<1> QED
    BY <1>1, <1>2, <1>3, <1>4 DEF Complete, FromDue

\* No other step gives a table new rows, or a run a first day.
LEMMA StepComplete ==
    ASSUME IInv, Complete, [Next]_vars
    PROVE  Complete'
<1>0. \A d \in BusinessDays : Due(d)' => Due(d)
    BY StepDue
<1>1. CASE NextDay \/ (\E d \in BusinessDays : Publish(d) \/ Revise(d)) \/ UNCHANGED vars
    BY <1>0, <1>1 DEF NextDay, Publish, Revise, vars, world, run, Complete, FromDue
<1>2. ASSUME NEW j \in Jobs, Load(j) \/ Save(j) PROVE Complete'
    BY <1>2, LoadComplete, SaveComplete
<1>3. ASSUME NEW j \in Jobs, Open(j) PROVE Complete'
    <2>1. /\ pc[j] = "open" /\ pc' = [pc EXCEPT ![j] = "save"] /\ file' = Unreadable
          /\ UNCHANGED <<existing, start>>
        BY <1>3 DEF Open, Goes
    <2>2. FromDue(file'.rows)
        BY <2>1 DEF FromDue, Unreadable, Absent, NoRows
    <2>3. \A k \in Jobs : pc'[k] = pc[k] \/ pc[k] = "open"
        BY <2>1 DEF IInv, TypeOK
    <2> QED
        BY <1>0, <2>1, <2>2, <2>3 DEF Complete, FromDue
<1>4. ASSUME NEW j \in Jobs,
             Begin(j) \/ LoadFails(j) \/ Answer(j) \/ Refused(j) \/ Transient(j) \/ Kill(j)
      PROVE  Complete'
    <2>1. UNCHANGED <<file, existing, start>>
        BY <1>4 DEF Begin, LoadFails, Answer, Refused, Transient, Kill, run
    <2>2. ASSUME NEW k \in Jobs
          PROVE  \/ pc'[k] = pc[k] \/ pc'[k] \in {"idle", "load"}
                 \/ pc[k] = "fetch" /\ pc'[k] = "open"
        BY <1>4 DEF Begin, LoadFails, Answer, Refused, Transient, Kill, Ends, Goes, IInv, TypeOK
    <2> QED
        BY <1>0, <2>1, <2>2 DEF Complete, FromDue
<1> QED
    BY <1>1, <1>2, <1>3, <1>4 DEF Next, Progress

\* Complete is inductive beside the invariant of the tables.
LEMMA AlwaysComplete == Spec => []Complete
<1>1. Init => Complete
    BY InitComplete
<1>2. IInv /\ Complete /\ [Next]_vars => Complete'
    BY StepComplete
<1> QED
    BY <1>1, <1>2, Invariance, PTL DEF Spec

\* Whatever overlaps, fails or is killed, a published day that is not in the
\* workbook is not one that is left behind: if it is due, or comes after a row, it
\* is not before the first day the next run asks for (sync_rates.py:48-53).  What
\* has fallen out of the look-back of a job without --since is not due any more.
THEOREM MissingDaysAreAskedFor == Spec => []MissingIsAskedFor
<1>1. IInv /\ Complete => MissingIsAskedFor
    <2> SUFFICES ASSUME IInv, Complete, NEW d \in published, d \notin DOMAIN file.rows,
                        Wanted(d), NEW j \in Jobs
                 PROVE  Start(j, file.rows, today) <= d
        BY DEF MissingIsAskedFor
    <2>1. d \in BusinessDays /\ d \in Int /\ today \in Int /\ FirstDay <= today
        BY DaysAssumption DEF IInv, PublishedInOrder, Dated
    <2>2. /\ Start(j, file.rows, today) \in Int
          /\ Wanted(d) /\ d < Start(j, file.rows, today) => d \in DOMAIN file.rows
        BY <2>1, StartReaches DEF IInv, Tables, Complete, Wanted
    <2> QED
        BY <2>1, <2>2
<1> QED
    BY <1>1, AlwaysComplete, Invariance, PTL

\* A run that ends because the workbook is up to date is right about it, and one
\* that goes on to write has all that was published up to its date, of what is due
\* and of what comes after its first row (sync_rates.py:48-60, rates.py:26-40).
THEOREM RunsMissNothing == Spec => RunMissesNothing
<1>1. ASSUME IInv, Complete, NEW j \in Jobs, Load(j), pc'[j] = "idle"
      PROVE  HasAll(file.rows, till[j])
    <2>1. Start(j, file.rows, till[j]) > till[j]
        BY <1>1 DEF Load, Goes, IInv, TypeOK
    <2>2. till[j] \in Int /\ FirstDay <= till[j] /\ till[j] <= today
        BY <1>1, DaysAssumption DEF IInv, Dated
    <2>3. /\ Start(j, file.rows, till[j]) \in Int
          /\ \A d \in BusinessDays :
                (Due(d) \/ \E e \in DOMAIN file.rows : e <= d) /\ d < Start(j, file.rows, till[j])
                    => d \in DOMAIN file.rows
        BY <1>1, <2>2, StartReaches DEF IInv, Tables, Complete
    <2>4. published \subseteq BusinessDays /\ BusinessDays \subseteq Int
        BY <1>1, DaysAssumption DEF IInv, TypeOK
    <2> QED
        BY <2>1, <2>2, <2>3, <2>4 DEF HasAll
<1>2. ASSUME IInv, Complete, NEW j \in Jobs, Answer(j), pc'[j] = "open"
      PROVE  HasAll(Merge(existing[j], fresh'[j]), till[j])
    <2> DEFINE old == DOMAIN existing[j]
               new == DOMAIN fresh'[j]
    <2>1. PICK days \in Answers(j) : fresh' = [fresh EXCEPT ![j] = FreshRows(j, days)]
        BY <1>2 DEF Answer
    <2>2. new = {e \in days : start[j] <= e}
        BY <1>2, <2>1 DEF FreshRows, IInv, TypeOK
    <2>3. {d \in published : start[j] <= d /\ d <= till[j]} \subseteq days
        BY <2>1 DEF Answers
    <2>4. DOMAIN Merge(existing[j], fresh'[j]) = old \cup new
        BY DEF Merge
    <2>5. /\ start[j] \in Int /\ published \subseteq BusinessDays /\ BusinessDays \subseteq Int
          /\ \A d \in BusinessDays : Due(d) /\ d < start[j] => d \in old
        BY <1>2, DaysAssumption DEF IInv, TypeOK, Complete, Answer
    <2>6. FollowsOn(j) /\ Unbroken(existing[j]) /\ old \subseteq Int /\ new \subseteq Int
        <3>1. FollowsOn(j) /\ Sound(existing[j])
            BY <1>2 DEF IInv, Runs, Tables, Answer
        <3>2. days \subseteq published
            BY <2>1 DEF Answers
        <3> QED
            BY <2>2, <2>5, <3>1, <3>2 DEF Sound
    <2> HIDE DEF old, new
    <2>7. ASSUME NEW d \in published, Due(d) \/ \E e \in old \cup new : e <= d, d <= till[j]
          PROVE  d \in old \cup new
        <3>0. d \in Int /\ d \in BusinessDays
            BY <2>5
        <3>1. CASE start[j] <= d
            BY <2>2, <2>3, <2>7, <3>1
        <3>2. CASE ~(start[j] <= d) /\ Due(d)
            BY <2>5, <3>0, <3>2
        <3>3. CASE ~(start[j] <= d) /\ \E e \in old \cup new : e <= d
            <4>1. PICK e \in old \cup new : e <= d
                BY <3>3
            <4>2. e \in old
                BY <2>2, <2>5, <2>6, <3>0, <3>3, <4>1
            <4>3. start[j] - 1 \in old /\ d <= start[j] - 1
                BY <2>5, <2>6, <3>0, <3>3, <4>2 DEF FollowsOn, old
            <4> QED
                BY <2>6, <3>0, <4>1, <4>2, <4>3 DEF Unbroken, old
        <3> QED
            BY <2>7, <3>1, <3>2, <3>3
    <2> QED
        BY <2>4, <2>7 DEF HasAll
<1>3. IInv /\ Complete /\ [Next]_vars =>
        [\A j \in Jobs :
            /\ Load(j) /\ pc'[j] = "idle" => HasAll(file.rows, till[j])
            /\ Answer(j) /\ pc'[j] = "open" => HasAll(Merge(existing[j], fresh'[j]), till[j])]_vars
    BY <1>1, <1>2
<1> QED
    BY <1>3, AlwaysComplete, Invariance, PTL DEF Spec, RunMissesNothing
=============================================================================
