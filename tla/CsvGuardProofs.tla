--------------------------- MODULE CsvGuardProofs ---------------------------
(***************************************************************************)
(* For every set of files and rules: a row that fails a rule never reaches *)
(* the clean file, the rows add up, the exit code tells the truth, each    *)
(* output is the earlier one or a beginning of the one the run would       *)
(* write, a run that exits with 0 or 1 has written all of both, and        *)
(* compare.py writes the same clean file over a plain file.                *)
(***************************************************************************)
EXTENDS CsvCompare, FiniteSetTheorems, SequenceTheorems, WellFoundedInduction, TLAPS

Before == {"open", "header", "resolve", "create_clean", "create_rejects", "header_rows"}

\* Until the header rows are written nothing has been counted or written, and
\* from the resolution of the rules on there is a header.
Phase ==
    /\ pc \in Before =>
        /\ files["clean"] = << >> /\ buffers["clean"] = << >>
        /\ rows_read = 0 /\ rows_clean = 0
    /\ pc \in Before \ {"open", "header"} => next = 2 /\ records # << >>

IInv == TypeOK /\ Phase /\ CleanRowsPass /\ RowsAddUp

LEMMA InitIInv == Init => IInv
<1> SUFFICES ASSUME Init PROVE IInv
    OBVIOUS
<1>1. records \in Seq(Records) /\ Len(records) \in Nat
    BY TablesAssumption DEF Init
<1>2. files["clean"] = << >> /\ buffers["clean"] = << >>
    BY DEF Init, Outputs
<1>3. << >> \in Seq(Records)
    OBVIOUS
<1>4. TypeOK
    <2>1. DOMAIN files = Outputs /\ DOMAIN buffers = Outputs
        BY DEF Init
    <2>2. next \in 1..(Len(records) + 1)
        BY <1>1 DEF Init
    <2>3. records \in Tables /\ rules \in RuleLists /\ wanted \in SUBSET Outputs
        BY DEF Init
    <2>4. created \in SUBSET wanted
        BY DEF Init
    <2>5. pc \in Labels /\ exit \in {"running", "0", "1", "3", "killed"}
        BY DEF Init, Labels
    <2>6. files["clean"] \in Seq(Records) /\ buffers["clean"] \in Seq(Records)
        BY <1>2, <1>3
    <2>7. rows_read \in Nat /\ rows_clean \in Nat /\ rows_rejected \in Nat
        BY DEF Init
    <2> QED
        BY <2>1, <2>2, <2>3, <2>4, <2>5, <2>6, <2>7 DEF TypeOK
<1>5. Phase
    BY <1>2 DEF Init, Phase, Before
<1>6. CleanRowsPass
    BY <1>2 DEF CleanRowsPass
<1>7. RowsAddUp
    BY DEF Init, RowsAddUp
<1> QED
    BY <1>4, <1>5, <1>6, <1>7 DEF IInv

\* What the steps below use of the types.
LEMMA Types ==
    ASSUME IInv
    PROVE  /\ records \in Seq(Records) /\ Len(records) \in Nat
           /\ next \in Nat /\ next >= 1 /\ next <= Len(records) + 1
           /\ files["clean"] \in Seq(Records) /\ buffers["clean"] \in Seq(Records)
           /\ Len(files["clean"]) \in Nat /\ Len(buffers["clean"]) \in Nat
           /\ rows_read \in Nat /\ rows_clean \in Nat /\ rows_rejected \in Nat
BY TablesAssumption DEF IInv, TypeOK

\* An element of a concatenation is an element of one of its parts.
LEMMA ConcatElements ==
    ASSUME NEW s \in Seq(Records), NEW t \in Seq(Records)
    PROVE  /\ s \o t \in Seq(Records)
           /\ Len(s \o t) = Len(s) + Len(t)
           /\ \A k \in DOMAIN (s \o t) : \/ \E i \in DOMAIN s : (s \o t)[k] = s[i]
                                         \/ \E i \in DOMAIN t : (s \o t)[k] = t[i]
<1>1. /\ s \o t \in Seq(Records)
      /\ Len(s \o t) = Len(s) + Len(t)
      /\ \A k \in 1..Len(s \o t) :
            (s \o t)[k] = IF k <= Len(s) THEN s[k] ELSE t[k - Len(s)]
    BY ConcatProperties
<1>2. DOMAIN s = 1..Len(s) /\ DOMAIN t = 1..Len(t) /\ DOMAIN (s \o t) = 1..Len(s \o t)
      /\ Len(s) \in Nat /\ Len(t) \in Nat
    BY <1>1
<1>3. ASSUME NEW k \in 1..Len(s \o t)
      PROVE  \/ \E i \in DOMAIN s : (s \o t)[k] = s[i]
             \/ \E i \in DOMAIN t : (s \o t)[k] = t[i]
    <2>1. CASE k <= Len(s)
        <3>1. k \in DOMAIN s /\ (s \o t)[k] = s[k]
            BY <1>1, <1>2, <2>1
        <3> QED
            BY <3>1
    <2>2. CASE ~(k <= Len(s))
        <3>1. k - Len(s) \in DOMAIN t /\ (s \o t)[k] = t[k - Len(s)]
            BY <1>1, <1>2, <2>2
        <3> QED
            BY <3>1
    <2> QED
        BY <2>1, <2>2
<1> QED
    BY <1>1, <1>2, <1>3

\* What is on disk and what is buffered behind it, taken together.
LEMMA BothParts ==
    ASSUME IInv
    PROVE  LET both == files["clean"] \o buffers["clean"]
           IN  /\ Len(both) = Len(files["clean"]) + Len(buffers["clean"])
               /\ \A k \in DOMAIN both : both[k] = records[1] \/ ~Rejected(both[k])
<1>1. ASSUME NEW s \in Seq(Records), NEW t \in Seq(Records),
             \A k \in DOMAIN s : s[k] = records[1] \/ ~Rejected(s[k]),
             \A k \in DOMAIN t : t[k] = records[1] \/ ~Rejected(t[k])
      PROVE  /\ Len(s \o t) = Len(s) + Len(t)
             /\ \A k \in DOMAIN (s \o t) :
                    (s \o t)[k] = records[1] \/ ~Rejected((s \o t)[k])
    <2>1. \A k \in DOMAIN (s \o t) : \/ \E i \in DOMAIN s : (s \o t)[k] = s[i]
                                     \/ \E i \in DOMAIN t : (s \o t)[k] = t[i]
        BY ConcatElements
    <2>2. Len(s \o t) = Len(s) + Len(t)
        BY ConcatElements
    <2>3. ASSUME NEW k \in DOMAIN (s \o t)
          PROVE  (s \o t)[k] = records[1] \/ ~Rejected((s \o t)[k])
        <3>1. CASE \E i \in DOMAIN s : (s \o t)[k] = s[i]
            <4>1. PICK i \in DOMAIN s : (s \o t)[k] = s[i]
                BY <3>1
            <4>2. s[i] = records[1] \/ ~Rejected(s[i])
                BY <1>1
            <4> QED
                BY <4>1, <4>2, Zenon
        <3>2. CASE \E i \in DOMAIN t : (s \o t)[k] = t[i]
            <4>1. PICK i \in DOMAIN t : (s \o t)[k] = t[i]
                BY <3>2
            <4>2. t[i] = records[1] \/ ~Rejected(t[i])
                BY <1>1
            <4> QED
                BY <4>1, <4>2, Zenon
        <3> QED
            BY <2>1, <3>1, <3>2
    <2> QED
        BY <2>2, <2>3
<1>2. files["clean"] \in Seq(Records) /\ buffers["clean"] \in Seq(Records)
    BY DEF IInv, TypeOK
<1>3. \A lines \in {files["clean"], buffers["clean"]} :
        \A k \in DOMAIN lines : lines[k] = records[1] \/ ~Rejected(lines[k])
    BY DEF IInv, CleanRowsPass
<1> QED
    BY <1>1, <1>2, <1>3, Zenon

\* Two sequences that hold nothing together hold nothing each.
LEMMA EmptyTogether ==
    ASSUME NEW a \in Seq(Records), NEW b \in Seq(Records), Len(a) + Len(b) = 0
    PROVE  a = << >> /\ b = << >>
<1>1. Len(a) \in Nat /\ Len(b) \in Nat
    OBVIOUS
<1>2. PICK x \in Nat, y \in Nat : x = Len(a) /\ y = Len(b)
    BY <1>1
<1>3. x = 0 /\ y = 0
    BY <1>2
<1>4. \A s \in Seq(Records) : Len(s) = 0 => s = << >>
    OBVIOUS
<1>5. Len(a) = 0 /\ Len(b) = 0
    BY <1>2, <1>3, Zenon
<1> QED
    BY <1>4, <1>5, Zenon

\* A spill moves the head of one sequence to the end of another.
LEMMA SpillElements ==
    ASSUME NEW s \in Seq(Records), NEW t \in Seq(Records), NEW n \in 1..Len(t)
    PROVE  LET saved == s \o SubSeq(t, 1, n)
               rest == SubSeq(t, n + 1, Len(t))
           IN  /\ saved \in Seq(Records) /\ rest \in Seq(Records)
               /\ Len(saved) + Len(rest) = Len(s) + Len(t)
               /\ \A k \in DOMAIN saved : \/ \E i \in DOMAIN s : saved[k] = s[i]
                                          \/ \E i \in DOMAIN t : saved[k] = t[i]
               /\ \A k \in DOMAIN rest : \E i \in DOMAIN t : rest[k] = t[i]
<1> DEFINE head == SubSeq(t, 1, n)
           rest == SubSeq(t, n + 1, Len(t))
<1>1. DOMAIN t = 1..Len(t) /\ Len(t) \in Nat /\ \A i \in 1..Len(t) : t[i] \in Records
    OBVIOUS
<1>2. head \in Seq(Records) /\ Len(head) = n /\ \A i \in 1..n : head[i] = t[i]
    <2>1. \A i \in 1..n : t[i] \in Records
        BY <1>1
    <2> QED
        BY <1>1, <2>1, SubSeqProperties
<1>3. rest \in Seq(Records) /\ Len(rest) = Len(t) - n
      /\ \A i \in 1..(Len(t) - n) : rest[i] = t[n + i]
    <2>1. \A i \in (n + 1)..Len(t) : t[i] \in Records
        BY <1>1
    <2>2. rest \in Seq(Records)
          /\ Len(rest) = (IF n + 1 <= Len(t) THEN Len(t) - (n + 1) + 1 ELSE 0)
          /\ \A i \in 1..(Len(t) - (n + 1) + 1) : rest[i] = t[(n + 1) + i - 1]
        BY <1>1, <2>1, SubSeqProperties
    <2> HIDE DEF rest
    <2>3. PICK y \in Nat : y = Len(t)
        BY <1>1
    <2>4. n \in 1..y /\ Len(rest) = y - n
        BY <2>2, <2>3
    <2>5. ASSUME NEW i \in 1..(y - n) PROVE rest[i] = t[n + i]
        <3>1. i \in 1..(y - (n + 1) + 1) /\ (n + 1) + i - 1 = n + i
            BY <2>3, <2>4
        <3> QED
            BY <2>2, <2>3, <3>1
    <2> QED
        BY <2>2, <2>3, <2>4, <2>5
<1> HIDE DEF head, rest
<1>4. DOMAIN head = 1..n /\ DOMAIN rest = 1..(Len(t) - n)
    <2>1. DOMAIN head = 1..Len(head) /\ DOMAIN rest = 1..Len(rest)
        BY <1>2, <1>3
    <2> QED
        BY <1>2, <1>3, <2>1
<1>5. \A k \in DOMAIN head : \E i \in DOMAIN t : head[k] = t[i]
    BY <1>1, <1>2, <1>4
<1>6. ASSUME NEW k \in DOMAIN rest PROVE \E i \in DOMAIN t : rest[k] = t[i]
    <2>1. n + k \in DOMAIN t /\ rest[k] = t[n + k]
        <3>1. PICK y \in Nat : y = Len(t)
            BY <1>1
        <3>2. k \in 1..(y - n) /\ n \in 1..y
            BY <1>4, <3>1
        <3>3. n + k \in 1..y
            BY <3>2
        <3> QED
            BY <1>1, <1>3, <3>1, <3>2, <3>3
    <2> QED
        BY <2>1
<1>7. /\ s \o head \in Seq(Records) /\ Len(s \o head) = Len(s) + Len(head)
      /\ \A k \in DOMAIN (s \o head) : \/ \E i \in DOMAIN s : (s \o head)[k] = s[i]
                                       \/ \E i \in DOMAIN head : (s \o head)[k] = head[i]
    BY <1>2, ConcatElements
<1>8. Len(s \o head) + Len(rest) = Len(s) + Len(t)
    <2>1. PICK x \in Nat, y \in Nat : Len(s) = x /\ Len(t) = y
        OBVIOUS
    <2>2. Len(head) = n /\ Len(rest) = y - n /\ Len(s \o head) = x + n
        BY <1>2, <1>3, <1>7, <2>1
    <2>3. (x + n) + (y - n) = x + y
        BY <2>1
    <2> QED
        BY <2>1, <2>2, <2>3
<1>9. \A k \in DOMAIN (s \o head) : \/ \E i \in DOMAIN s : (s \o head)[k] = s[i]
                                   \/ \E i \in DOMAIN t : (s \o head)[k] = t[i]
    BY <1>5, <1>7, Zenon
<1> QED
    BY <1>3, <1>6, <1>7, <1>8, <1>9 DEF head, rest

\* The clean lines after a spill: as many as before, and each one of those before.
LEMMA SpillClean ==
    ASSUME IInv, NEW f \in Outputs, Spill(f)
    PROVE  /\ DOMAIN files' = Outputs /\ DOMAIN buffers' = Outputs
           /\ files'["clean"] \in Seq(Records) /\ buffers'["clean"] \in Seq(Records)
           /\ Len(files'["clean"]) + Len(buffers'["clean"])
                = Len(files["clean"]) + Len(buffers["clean"])
           /\ \A lines \in {files'["clean"], buffers'["clean"]} :
                \A k \in DOMAIN lines : lines[k] = records[1] \/ ~Rejected(lines[k])
<1>1. /\ files["clean"] \in Seq(Records) /\ buffers["clean"] \in Seq(Records)
      /\ DOMAIN files = Outputs /\ DOMAIN buffers = Outputs
    BY Types DEF IInv, TypeOK
<1>2. /\ \A i \in DOMAIN files["clean"] :
            files["clean"][i] = records[1] \/ ~Rejected(files["clean"][i])
      /\ \A i \in DOMAIN buffers["clean"] :
            buffers["clean"][i] = records[1] \/ ~Rejected(buffers["clean"][i])
    BY DEF IInv, CleanRowsPass
<1>3. DOMAIN files' = Outputs /\ DOMAIN buffers' = Outputs
    BY <1>1 DEF Spill
<1>4. CASE f # "clean"
    <2>1. files'["clean"] = files["clean"] /\ buffers'["clean"] = buffers["clean"]
        BY <1>1, <1>4 DEF Spill, Outputs
    <2> QED
        BY <1>1, <1>2, <1>3, <2>1
<1>5. CASE f = "clean"
    <2>1. PICK n \in 1..Len(buffers["clean"]) :
             /\ files'["clean"] = files["clean"] \o SubSeq(buffers["clean"], 1, n)
             /\ buffers'["clean"] = SubSeq(buffers["clean"], n + 1, Len(buffers["clean"]))
        BY <1>1, <1>5 DEF Spill, Outputs
    <2>2. /\ files'["clean"] \in Seq(Records) /\ buffers'["clean"] \in Seq(Records)
          /\ Len(files'["clean"]) + Len(buffers'["clean"])
                = Len(files["clean"]) + Len(buffers["clean"])
          /\ \A k \in DOMAIN files'["clean"] :
                \/ \E i \in DOMAIN files["clean"] : files'["clean"][k] = files["clean"][i]
                \/ \E i \in DOMAIN buffers["clean"] : files'["clean"][k] = buffers["clean"][i]
          /\ \A k \in DOMAIN buffers'["clean"] :
                \E i \in DOMAIN buffers["clean"] : buffers'["clean"][k] = buffers["clean"][i]
        <3> DEFINE Moved(s, t, saved, rest) ==
                    /\ saved \in Seq(Records) /\ rest \in Seq(Records)
                    /\ Len(saved) + Len(rest) = Len(s) + Len(t)
                    /\ \A k \in DOMAIN saved : \/ \E i \in DOMAIN s : saved[k] = s[i]
                                               \/ \E i \in DOMAIN t : saved[k] = t[i]
                    /\ \A k \in DOMAIN rest : \E i \in DOMAIN t : rest[k] = t[i]
        <3>1. \A s, t \in Seq(Records) : \A m \in 1..Len(t) :
                Moved(s, t, s \o SubSeq(t, 1, m), SubSeq(t, m + 1, Len(t)))
            BY SpillElements, Zenon
        <3> HIDE DEF Moved
        <3>2. Moved(files["clean"], buffers["clean"], files'["clean"], buffers'["clean"])
            BY <1>1, <2>1, <3>1, Zenon
        <3> USE DEF Moved
        <3> QED
            BY <3>2, Zenon
    <2>3. \A k \in DOMAIN files'["clean"] :
            files'["clean"][k] = records[1] \/ ~Rejected(files'["clean"][k])
        BY <1>2, <2>2, Zenon
    <2>4. \A k \in DOMAIN buffers'["clean"] :
            buffers'["clean"][k] = records[1] \/ ~Rejected(buffers'["clean"][k])
        BY <1>2, <2>2, Zenon
    <2> QED
        BY <1>3, <2>2, <2>3, <2>4
<1> QED
    BY <1>4, <1>5

\* A step that appends what is in the buffer to the file, or loses it, and
\* counts nothing.
LEMMA LinesMove ==
    ASSUME IInv, TypeOK', pc' \in Before => pc' = pc,
           \/ files'["clean"] = files["clean"] \o buffers["clean"]
           \/ (files'["clean"] = files["clean"] /\ pc' = "done"),
           buffers'["clean"] = << >>,
           pc' \in {"rows", "flush_clean", "flush_rejects", "report"} =>
               pc \in {"rows", "flush_clean", "flush_rejects", "report"},
           UNCHANGED <<records, wanted, next, checks, rows_read, rows_clean, rows_rejected>>
    PROVE  IInv'
<1>1. /\ files["clean"] \in Seq(Records) /\ buffers["clean"] \in Seq(Records)
      /\ Len(files["clean"]) \in Nat /\ Len(buffers["clean"]) \in Nat
    BY Types
<1> DEFINE both == files["clean"] \o buffers["clean"]
<1>2. Len(both) = Len(files["clean"]) + Len(buffers["clean"])
    BY BothParts
<1>3. \A k \in DOMAIN both : both[k] = records[1] \/ ~Rejected(both[k])
    BY BothParts
<1>4. \A r : Rejected(r)' <=> Rejected(r)
    BY DEF Rejected, Problem
<1>5. Phase'
    <2>1. pc' \in Before => files'["clean"] = << >>
        <3> SUFFICES ASSUME pc' \in Before PROVE files'["clean"] = << >>
            OBVIOUS
        <3>1. files["clean"] = << >> /\ buffers["clean"] = << >> /\ pc' # "done"
            BY DEF IInv, Phase, Before
        <3> QED
            BY <3>1
    <2> QED
        BY <2>1 DEF IInv, Phase
<1>6. CleanRowsPass'
    <2> SUFFICES ASSUME NEW lines \in {files'["clean"], buffers'["clean"]},
                        NEW k \in DOMAIN lines
                 PROVE  lines[k] = records[1] \/ ~Rejected(lines[k])
        BY <1>4 DEF CleanRowsPass
    <2>1. CASE lines = both
        BY <1>3, <2>1
    <2>2. CASE lines = files["clean"]
        BY <2>2 DEF IInv, CleanRowsPass
    <2>3. CASE lines = << >>
        BY <2>3
    <2> QED
        BY <2>1, <2>2, <2>3
<1>7. RowsAddUp'
    <2>1. CASE pc' = "done"
        BY <2>1 DEF IInv, RowsAddUp
    <2>2. CASE pc' # "done"
        <3>1. files'["clean"] = both /\ Len(buffers'["clean"]) = 0
            BY <2>2
        <3>2. Len(files'["clean"]) + Len(buffers'["clean"])
                = Len(files["clean"]) + Len(buffers["clean"])
            BY <1>1, <1>2, <3>1
        <3> HIDE DEF both
        <3> QED
            BY <3>2, <2>2 DEF IInv, RowsAddUp
    <2> QED
        BY <2>1, <2>2
<1> QED
    BY <1>5, <1>6, <1>7 DEF IInv

----------------------------------------------------------------------------
\* What the writers are given is clean records, or nothing.
LEMMA BufferedType ==
    ASSUME IInv, NEW record \in Records
    PROVE  /\ Buffered("clean", <<record>>) \in Seq(Records)
           /\ Len(Buffered("clean", <<record>>))
                = Len(buffers["clean"]) + (IF "clean" \in wanted THEN 1 ELSE 0)
           /\ \A k \in DOMAIN Buffered("clean", <<record>>) :
                \/ Buffered("clean", <<record>>)[k] = record
                \/ k \in DOMAIN buffers["clean"]
                   /\ Buffered("clean", <<record>>)[k] = buffers["clean"][k]
<1>1. buffers["clean"] \in Seq(Records) /\ <<record>> \in Seq(Records)
      /\ Len(<<record>>) = 1 /\ <<record>>[1] = record
    BY DEF IInv, TypeOK
<1>2. CASE "clean" \in wanted
    <2>1. Buffered("clean", <<record>>) = Append(buffers["clean"], record)
        BY <1>1, <1>2, AppendIsConcat DEF Buffered
    <2>2. ASSUME NEW s \in Seq(Records)
          PROVE  /\ Append(s, record) \in Seq(Records)
                 /\ Len(Append(s, record)) = Len(s) + 1
                 /\ \A k \in DOMAIN Append(s, record) :
                        \/ Append(s, record)[k] = record
                        \/ k \in DOMAIN s /\ Append(s, record)[k] = s[k]
        OBVIOUS
    <2>3. buffers["clean"] \in Seq(Records)
        BY <1>1
    <2>4. /\ Append(buffers["clean"], record) \in Seq(Records)
          /\ Len(Append(buffers["clean"], record)) = Len(buffers["clean"]) + 1
          /\ \A k \in DOMAIN Append(buffers["clean"], record) :
                \/ Append(buffers["clean"], record)[k] = record
                \/ k \in DOMAIN buffers["clean"]
                   /\ Append(buffers["clean"], record)[k] = buffers["clean"][k]
        BY <2>2, <2>3, Zenon
    <2> QED
        BY <1>2, <2>1, <2>4
<1>3. CASE "clean" \notin wanted
    BY <1>1, <1>3 DEF Buffered
<1> QED
    BY <1>2, <1>3

\* Every step keeps the types.
LEMMA StepTypeOK ==
    ASSUME IInv, [Next]_vars
    PROVE  TypeOK'
<1>1. /\ records \in Seq(Records) /\ Len(records) \in Nat
      /\ next \in Nat /\ next >= 1 /\ next <= Len(records) + 1
      /\ files["clean"] \in Seq(Records) /\ buffers["clean"] \in Seq(Records)
      /\ << >> \in Seq(Records)
      /\ files["clean"] \o buffers["clean"] \in Seq(Records)
    BY Types
<1> USE DEF IInv, TypeOK
<1>2. ASSUME UNCHANGED <<options, created, files, buffers, summary>>,
             next' \in 1..(Len(records) + 1), pc' \in Labels,
             exit' \in {"running", "0", "1", "3", "killed"}
      PROVE  TypeOK'
    BY <1>2 DEF options, summary
<1>3. CASE OpenInput
    BY <1>2, <1>3 DEF OpenInput, Labels
<1>4. CASE ReadHeader
    <2>1. records # << >> => 2 \in 1..(Len(records) + 1)
        BY <1>1
    <2> QED
        BY <1>2, <1>4, <2>1 DEF ReadHeader, Labels, At
<1>5. CASE Resolve
    BY <1>2, <1>5 DEF Resolve, Labels
<1>6. ASSUME Fails PROVE TypeOK'
    <2>1. PICK saved \in SUBSET Outputs : files' = [f \in Outputs |-> Dropped(f, f \in saved)]
        BY <1>6 DEF Fails
    <2>2. files'["clean"] \in {files["clean"], files["clean"] \o buffers["clean"]}
        BY <2>1 DEF Dropped, Outputs
    <2>3. buffers'["clean"] = << >> /\ DOMAIN buffers' = Outputs /\ DOMAIN files' = Outputs
        BY <1>6, <2>1 DEF Fails, Outputs
    <2> QED
        BY <1>1, <1>6, <2>2, <2>3 DEF Fails, Labels, options, summary
<1>7. CASE ResolveFails \/ IoError
    BY <1>6, <1>7 DEF ResolveFails, IoError
<1>8. ASSUME NEW f \in Outputs, NEW here, NEW there \in Labels, Create(f, here, there)
      PROVE  TypeOK'
    BY <1>8 DEF Create, options, summary
<1>9. CASE CreateClean \/ CreateRejects
    BY <1>8, <1>9 DEF CreateClean, CreateRejects, Labels, Outputs
<1>10. ASSUME UNCHANGED <<options, created, files>>, exit' = exit, pc' \in Labels,
              next' \in 1..(Len(records) + 1), DOMAIN buffers' = Outputs,
              buffers'["clean"] \in Seq(Records), rows_read' \in Nat,
              rows_clean' \in Nat, rows_rejected' \in Nat
       PROVE  TypeOK'
    BY <1>10 DEF options
<1>11. CASE WriteHeaders
    <2>1. records[1] \in Records
        BY <1>1, <1>11 DEF WriteHeaders, At, Phase, Before
    <2>2. buffers'["clean"] \in Seq(Records) /\ DOMAIN buffers' = Outputs
        BY <1>11, <2>1, BufferedType DEF WriteHeaders, Outputs
    <2> QED
        BY <1>10, <1>11, <2>2 DEF WriteHeaders, Labels, summary
<1>12. CASE CleanRow
    <2>1. records[next] \in Records /\ next' \in 1..(Len(records) + 1)
        BY <1>1, <1>12 DEF CleanRow
    <2>2. buffers'["clean"] \in Seq(Records) /\ DOMAIN buffers' = Outputs
        BY <1>12, <2>1, BufferedType DEF CleanRow, Outputs
    <2> QED
        BY <1>10, <1>12, <2>1, <2>2 DEF CleanRow
<1>13. CASE RejectRow
    <2>1. next' \in 1..(Len(records) + 1)
        BY <1>1, <1>13 DEF RejectRow
    <2>2. buffers'["clean"] = buffers["clean"] /\ DOMAIN buffers' = Outputs
        BY <1>13 DEF RejectRow
    <2> QED
        BY <1>1, <1>10, <1>13, <2>1, <2>2 DEF RejectRow
<1>14. ASSUME NEW f \in Outputs, files' = [files EXCEPT ![f] = @ \o buffers[f]],
              buffers' = [buffers EXCEPT ![f] = << >>], pc' \in Labels,
              UNCHANGED <<options, next, created, summary, exit>>
       PROVE  TypeOK'
    <2>1. DOMAIN buffers' = Outputs /\ DOMAIN files' = Outputs
        BY <1>14
    <2>2. files'["clean"] \in {files["clean"], files["clean"] \o buffers["clean"]}
          /\ buffers'["clean"] \in {buffers["clean"], << >>}
        BY <1>14
    <2> QED
        BY <1>1, <1>14, <2>1, <2>2 DEF options, summary
<1>15. ASSUME NEW f \in Outputs, Spill(f) PROVE TypeOK'
    <2>1. /\ DOMAIN files' = Outputs /\ DOMAIN buffers' = Outputs
          /\ files'["clean"] \in Seq(Records) /\ buffers'["clean"] \in Seq(Records)
        BY <1>15, SpillClean
    <2>2. UNCHANGED <<options, next, created, summary, exit, pc>>
        BY <1>15 DEF Spill
    <2> QED
        BY <2>1, <2>2 DEF options, summary
<1>16. CASE FlushClean \/ FlushRejects
    BY <1>14, <1>16 DEF FlushClean, FlushRejects, Flush, Labels, Outputs
<1>17. CASE EndOfRows
    BY <1>2, <1>17 DEF EndOfRows, Labels
<1>18. CASE Report
    BY <1>2, <1>18 DEF Report, Labels
<1>19. CASE Killed
    <2>1. buffers'["clean"] = << >> /\ DOMAIN buffers' = Outputs
        BY <1>19 DEF Killed, Outputs
    <2> QED
        BY <1>1, <1>19, <2>1 DEF Killed, Labels, options, summary
<1>20. CASE UNCHANGED vars
    BY <1>20 DEF vars, options, summary
<1> QED
    BY <1>3, <1>4, <1>5, <1>7, <1>9, <1>11, <1>12, <1>13, <1>15, <1>16, <1>17,
       <1>18, <1>19, <1>20 DEF Next, Stopped

\* A step that leaves the clean output, the rows and the rules alone.
LEMMA Quiet ==
    ASSUME IInv, TypeOK',
           UNCHANGED <<records, wanted, checks, files["clean"], buffers["clean"], summary>>
    PROVE  /\ CleanRowsPass'
           /\ (pc' \in Before => pc \in Before)
              /\ (pc' \in Before \ {"open", "header"} => next' = 2 /\ records # << >>)
              => Phase'
           /\ (pc' \in {"rows", "flush_clean", "flush_rejects", "report"}
                 => pc \in {"rows", "flush_clean", "flush_rejects", "report"} /\ next' = next)
              => RowsAddUp'
<1>1. \A r : Rejected(r)' <=> Rejected(r)
    BY DEF Rejected, Problem
<1>2. CleanRowsPass'
    BY <1>1 DEF IInv, CleanRowsPass
<1>3. (pc' \in Before => pc \in Before)
      /\ (pc' \in Before \ {"open", "header"} => next' = 2 /\ records # << >>)
      => Phase'
    BY DEF IInv, Phase, summary
<1>4. (pc' \in {"rows", "flush_clean", "flush_rejects", "report"}
         => pc \in {"rows", "flush_clean", "flush_rejects", "report"} /\ next' = next)
      => RowsAddUp'
    BY DEF IInv, RowsAddUp, summary
<1> QED
    BY <1>2, <1>3, <1>4

\* Every step keeps the invariant.
LEMMA StepIInv ==
    ASSUME IInv, [Next]_vars
    PROVE  IInv'
<1>0. TypeOK'
    BY StepTypeOK
<1>1. CASE OpenInput
    BY <1>0, <1>1, Quiet DEF OpenInput, At, IInv, Before, options
<1>2. CASE ReadHeader
    BY <1>0, <1>2, Quiet DEF ReadHeader, At, IInv, Before, options
<1>3. CASE Resolve
    <2>1. files["clean"] = << >> /\ buffers["clean"] = << >>
        BY <1>3 DEF Resolve, At, IInv, Phase, Before
    <2>2. CleanRowsPass'
        BY <1>3, <2>1 DEF Resolve, CleanRowsPass
    <2>3. Phase' /\ RowsAddUp'
        BY <1>3 DEF Resolve, At, IInv, Phase, RowsAddUp, Before, options, summary
    <2> QED
        BY <1>0, <2>2, <2>3 DEF IInv
<1>4. ASSUME Fails PROVE IInv'
    <2>1. PICK saved \in SUBSET Outputs : files' = [f \in Outputs |-> Dropped(f, f \in saved)]
        BY <1>4 DEF Fails
    <2>2. files'["clean"] \in {files["clean"], files["clean"] \o buffers["clean"]}
        BY <2>1 DEF Dropped, Outputs
    <2>3. buffers'["clean"] = << >> /\ pc' = "done"
        BY <1>4 DEF Fails, Outputs
    <2> QED
        BY <1>0, <1>4, <2>2, <2>3, LinesMove DEF Fails, options, summary, Before
<1>5. CASE ResolveFails \/ IoError
    BY <1>4, <1>5 DEF ResolveFails, IoError
<1>6. CASE CreateClean \/ CreateRejects
    BY <1>0, <1>6, Quiet
       DEF CreateClean, CreateRejects, Create, At, IInv, Phase, Before, options
<1>7. CASE WriteHeaders
    <2>1. /\ files["clean"] = << >> /\ buffers["clean"] = << >> /\ Len(<< >>) = 0
          /\ rows_read = 0 /\ rows_clean = 0 /\ next = 2 /\ records # << >>
        BY <1>7 DEF WriteHeaders, At, IInv, Phase, Before
    <2>2. records[1] \in Records
        BY <2>1, Types
    <2>3. buffers'["clean"] = Buffered("clean", <<records[1]>>)
          /\ UNCHANGED <<files, records, wanted, checks, next, summary>> /\ pc' = "rows"
        BY <1>7 DEF WriteHeaders, options
    <2>4. \A r : Rejected(r)' <=> Rejected(r)
        BY <2>3 DEF Rejected, Problem
    <2>5. \A k \in DOMAIN Buffered("clean", <<records[1]>>) :
             Buffered("clean", <<records[1]>>)[k] = records[1]
        BY <2>1, <2>2, BufferedType
    <2>6. CleanRowsPass'
        BY <2>1, <2>3, <2>4, <2>5 DEF CleanRowsPass
    <2>7. Len(buffers'["clean"]) = IF "clean" \in wanted THEN 1 ELSE 0
        BY <2>1, <2>2, <2>3, BufferedType
    <2>8. RowsAddUp'
        BY <2>1, <2>3, <2>7 DEF IInv, RowsAddUp, summary
    <2>9. Phase'
        BY <2>3 DEF Phase, Before
    <2> QED
        BY <1>0, <2>6, <2>8, <2>9 DEF IInv
<1>8. CASE CleanRow
    <2>1. records[next] \in Records /\ ~Rejected(records[next])
        BY <1>8, Types DEF CleanRow
    <2>2. buffers'["clean"] = Buffered("clean", <<records[next]>>)
          /\ UNCHANGED <<files, records, wanted, checks, pc, rows_rejected>>
          /\ pc = "rows" /\ next' = next + 1
          /\ rows_read' = rows_read + 1 /\ rows_clean' = rows_clean + 1
        BY <1>8 DEF CleanRow, At, options, IInv, TypeOK, Outputs
    <2>3. \A r : Rejected(r)' <=> Rejected(r)
        BY <2>2 DEF Rejected, Problem
    <2>4. \A k \in DOMAIN Buffered("clean", <<records[next]>>) :
             \/ Buffered("clean", <<records[next]>>)[k] = records[1]
             \/ ~Rejected(Buffered("clean", <<records[next]>>)[k])
        <3> SUFFICES ASSUME NEW k \in DOMAIN Buffered("clean", <<records[next]>>)
                     PROVE  \/ Buffered("clean", <<records[next]>>)[k] = records[1]
                            \/ ~Rejected(Buffered("clean", <<records[next]>>)[k])
            OBVIOUS
        <3>1. CASE Buffered("clean", <<records[next]>>)[k] = records[next]
            BY <2>1, <3>1, Zenon
        <3>2. CASE k \in DOMAIN buffers["clean"]
                   /\ Buffered("clean", <<records[next]>>)[k] = buffers["clean"][k]
            <4>1. buffers["clean"][k] = records[1] \/ ~Rejected(buffers["clean"][k])
                BY <3>2 DEF IInv, CleanRowsPass
            <4> QED
                BY <3>2, <4>1, Zenon
        <3> QED
            BY <2>1, <3>1, <3>2, BufferedType
    <2>5. CleanRowsPass'
        BY <2>2, <2>3, <2>4 DEF IInv, CleanRowsPass
    <2>6. Len(buffers'["clean"]) = Len(buffers["clean"]) + (IF "clean" \in wanted THEN 1 ELSE 0)
        BY <2>1, <2>2, BufferedType
    <2>7. RowsAddUp'
        <3>1. /\ rows_read = next - 2 /\ rows_read = rows_clean + rows_rejected
              /\ Len(files["clean"]) + Len(buffers["clean"])
                   = IF "clean" \in wanted THEN rows_clean + 1 ELSE 0
            BY <2>2 DEF IInv, RowsAddUp
        <3>2. /\ next \in Nat /\ rows_read \in Nat /\ rows_clean \in Nat /\ rows_rejected \in Nat
              /\ Len(files["clean"]) \in Nat /\ Len(buffers["clean"]) \in Nat
            BY Types
        <3>3. rows_read' = next' - 2 /\ rows_read' = rows_clean' + rows_rejected'
            BY <3>1, <3>2, <2>2
        <3>4. Len(files'["clean"]) + Len(buffers'["clean"])
                = IF "clean" \in wanted' THEN rows_clean' + 1 ELSE 0
            <4>1. files'["clean"] = files["clean"] /\ wanted' = wanted
                  /\ rows_clean' = rows_clean + 1
                BY <2>2
            <4>2. CASE "clean" \in wanted
                <5>1. Len(buffers'["clean"]) = Len(buffers["clean"]) + 1
                    BY <2>6, <4>2
                <5>4. Len(buffers'["clean"]) \in Nat
                    BY <3>2, <5>1
                <5>2. Len(files["clean"]) + Len(buffers["clean"]) = rows_clean + 1
                    BY <3>1, <4>2
                <5>3. Len(files["clean"]) + Len(buffers'["clean"]) = (rows_clean + 1) + 1
                    <6>1. PICK x \in Nat, y \in Nat, z \in Nat :
                            /\ x = Len(files["clean"]) /\ y = Len(buffers["clean"])
                            /\ z = Len(buffers'["clean"])
                        BY <3>2, <5>4, Zenon
                    <6>2. x + y = rows_clean + 1 /\ z = y + 1
                        BY <5>1, <5>2, <6>1, Zenon
                    <6>3. x + z = (rows_clean + 1) + 1
                        BY <3>2, <6>2
                    <6> QED
                        BY <6>1, <6>3, Zenon
                <5> QED
                    BY <4>1, <4>2, <5>3
            <4>3. CASE "clean" \notin wanted
                <5>1. Len(buffers'["clean"]) = Len(buffers["clean"])
                    BY <2>6, <3>2, <4>3
                <5>2. Len(files["clean"]) + Len(buffers["clean"]) = 0
                    BY <3>1, <4>3
                <5> QED
                    BY <4>1, <4>3, <5>1, <5>2
            <4> QED
                BY <4>2, <4>3
        <3> QED
            BY <3>3, <3>4 DEF RowsAddUp
    <2>8. Phase'
        BY <2>2 DEF Phase, Before
    <2> QED
        BY <1>0, <2>5, <2>7, <2>8 DEF IInv
<1>9. CASE RejectRow
    <2>1. buffers'["clean"] = buffers["clean"]
          /\ UNCHANGED <<files, records, wanted, checks, pc, rows_clean>>
          /\ pc = "rows" /\ next' = next + 1
          /\ rows_read' = rows_read + 1 /\ rows_rejected' = rows_rejected + 1
        BY <1>9 DEF RejectRow, At, options
    <2>2. \A r : Rejected(r)' <=> Rejected(r)
        BY <2>1 DEF Rejected, Problem
    <2>3. CleanRowsPass'
        BY <2>1, <2>2 DEF IInv, CleanRowsPass
    <2>4. RowsAddUp'
        <3>1. /\ rows_read = next - 2 /\ rows_read = rows_clean + rows_rejected
              /\ Len(files["clean"]) + Len(buffers["clean"])
                   = IF "clean" \in wanted THEN rows_clean + 1 ELSE 0
            BY <2>1 DEF IInv, RowsAddUp
        <3>2. /\ next \in Nat /\ rows_read \in Nat /\ rows_clean \in Nat /\ rows_rejected \in Nat
              /\ Len(files["clean"]) \in Nat /\ Len(buffers["clean"]) \in Nat
            BY Types
        <3>3. rows_read' = next' - 2 /\ rows_read' = rows_clean' + rows_rejected'
            BY <3>1, <3>2, <2>1
        <3>4. Len(files'["clean"]) + Len(buffers'["clean"])
                = IF "clean" \in wanted' THEN rows_clean' + 1 ELSE 0
            BY <3>1, <3>2, <2>1
        <3> QED
            BY <3>3, <3>4 DEF RowsAddUp
    <2>5. Phase'
        BY <2>1 DEF Phase, Before
    <2> QED
        BY <1>0, <2>3, <2>4, <2>5 DEF IInv
<1>10. ASSUME NEW f \in Outputs, files' = [files EXCEPT ![f] = @ \o buffers[f]],
              buffers' = [buffers EXCEPT ![f] = << >>],
              \/ pc' = pc
              \/ pc = "flush_clean" /\ pc' = "flush_rejects"
              \/ pc = "flush_rejects" /\ pc' = "report",
              UNCHANGED <<options, next, checks, summary>>
       PROVE  IInv'
    <2>1. CASE f = "clean"
        <3>1. files'["clean"] = files["clean"] \o buffers["clean"]
              /\ buffers'["clean"] = << >>
            BY <1>10, <2>1 DEF IInv, TypeOK
        <3> QED
            BY <1>0, <1>10, <3>1, LinesMove DEF Before, options, summary
    <2>2. CASE f # "clean"
        <3>1. files'["clean"] = files["clean"] /\ buffers'["clean"] = buffers["clean"]
            BY <1>10, <2>2
        <3> QED
            BY <1>0, <1>10, <3>1, Quiet DEF Before, IInv, Phase, options
    <2> QED
        BY <2>1, <2>2
<1>11. ASSUME NEW f \in Outputs, Spill(f) PROVE IInv'
    <2>1. /\ Len(files'["clean"]) + Len(buffers'["clean"])
                = Len(files["clean"]) + Len(buffers["clean"])
          /\ \A lines \in {files'["clean"], buffers'["clean"]} :
                \A k \in DOMAIN lines : lines[k] = records[1] \/ ~Rejected(lines[k])
        BY <1>11, SpillClean
    <2>2. UNCHANGED <<records, wanted, next, checks, pc, summary>>
        BY <1>11 DEF Spill, options
    <2>3. \A r : Rejected(r)' <=> Rejected(r)
        BY <2>2 DEF Rejected, Problem
    <2>4. CleanRowsPass'
        BY <2>1, <2>2, <2>3 DEF CleanRowsPass
    <2>5. RowsAddUp'
        BY <2>1, <2>2 DEF IInv, RowsAddUp, summary
    <2>6. Phase'
        <3>1. CASE pc \in Before
            <4>1. files["clean"] = << >> /\ buffers["clean"] = << >>
                BY <3>1 DEF IInv, Phase
            <4>2. Len(files["clean"]) + Len(buffers["clean"]) = 0
                BY <4>1
            <4>3. files'["clean"] \in Seq(Records) /\ buffers'["clean"] \in Seq(Records)
                BY <1>11, SpillClean
            <4>4. files'["clean"] = << >> /\ buffers'["clean"] = << >>
                <5>1. Len(files'["clean"]) + Len(buffers'["clean"]) = 0
                    BY <2>1, <4>2
                <5>2. \A a, b \in Seq(Records) :
                        Len(a) + Len(b) = 0 => a = << >> /\ b = << >>
                    BY EmptyTogether, Zenon
                <5> QED
                    BY <4>3, <5>1, <5>2, Zenon
            <4> QED
                BY <2>2, <4>4 DEF IInv, Phase, summary
        <3>2. CASE pc \notin Before
            BY <2>2, <3>2 DEF Phase, IInv
        <3> QED
            BY <3>1, <3>2
    <2> QED
        BY <1>0, <2>4, <2>5, <2>6 DEF IInv
<1>12. CASE FlushClean \/ FlushRejects
    BY <1>10, <1>12 DEF FlushClean, FlushRejects, Flush, At, Outputs
<1>13. CASE EndOfRows
    BY <1>0, <1>13, Quiet DEF EndOfRows, At, IInv, Before, options
<1>14. CASE Report
    BY <1>0, <1>14, Quiet DEF Report, At, IInv, Before, options
<1>15. CASE Killed
    <2>1. buffers'["clean"] = << >>
        BY <1>15 DEF Killed, Outputs
    <2> QED
        BY <1>0, <1>15, <2>1, LinesMove DEF Killed, Before, options, summary
<1>16. CASE UNCHANGED vars
    BY <1>0, <1>16, Quiet DEF vars, options, IInv, Phase
<1> QED
    BY <1>1, <1>2, <1>3, <1>5, <1>6, <1>7, <1>8, <1>9, <1>11, <1>12, <1>13,
       <1>14, <1>15, <1>16 DEF Next, Stopped

----------------------------------------------------------------------------
(* The exit code. *)

\* A set of numbers with an element has a least one.
LEMMA Least ==
    ASSUME NEW S, S \subseteq Nat, NEW e \in S
    PROVE  \E i \in S : \A j \in S : i <= j
<1>1. IsWellFoundedOn(OpToRel(<, Nat), Nat)
    BY NatLessThanWellFounded
<1>2. PICK i \in S : \A j \in S : <<j, i>> \notin OpToRel(<, Nat)
    BY <1>1, WFMin
<1>3. \A j \in S : ~(j < i)
    BY <1>2 DEF OpToRel
<1> QED
    BY <1>3

\* The position that resolving finds is the one a rule means.
LEMMA Positions ==
    ASSUME NEW column, DOMAIN Header \subseteq Nat \ {0},
           \E i \in DOMAIN Header : IsColumn(i, column)
    PROVE  Position(column) =
             (CHOOSE n \in {i \in DOMAIN Header : Header[i].text = column} :
                \A m \in {i \in DOMAIN Header : Header[i].text = column} : n <= m)
<1> DEFINE named == {i \in DOMAIN Header : Header[i].text = column}
           First(n) == n \in named /\ \A m \in named : n <= m
           Found(i) == /\ i \in DOMAIN Header
                       /\ IsColumn(i, column) /\ \A j \in 1..(i - 1) : ~IsColumn(j, column)
<1>1. PICK e \in named : First(e)
    <2>1. named \subseteq Nat
        OBVIOUS
    <2>2. PICK x : x \in named
        BY DEF IsColumn
    <2> HIDE DEF named
    <2> QED
        BY <2>1, <2>2, Least
<1>2. \A n : First(n) => n = e
    BY <1>1
<1>3. ASSUME NEW n \in DOMAIN Header PROVE Found(n) <=> First(n)
    <2>1. n \in Nat
        OBVIOUS
    <2>2. ASSUME First(n) PROVE Found(n)
        BY <2>1, <2>2 DEF IsColumn
    <2>3. ASSUME Found(n), NEW m \in named PROVE n <= m
        <3>1. m \in Nat /\ IsColumn(m, column) /\ m # 0
            BY DEF IsColumn
        <3>2. m \notin 1..(n - 1)
            BY <2>3, <3>1
        <3> QED
            BY <2>1, <3>1, <3>2
    <2> QED
        BY <2>2, <2>3 DEF IsColumn
<1>4. Position(column) = e
    <2>1. Found(e) /\ \A n \in DOMAIN Header : Found(n) => n = e
        BY <1>1, <1>2, <1>3
    <2>2. Position(column) = CHOOSE i \in DOMAIN Header :
                IsColumn(i, column) /\ \A j \in 1..(i - 1) : ~IsColumn(j, column)
        BY DEF Position
    <2> QED
        BY <2>1, <2>2
<1>5. (CHOOSE n \in named : \A m \in named : n <= m) = e
    BY <1>1, <1>2
<1> QED
    BY <1>4, <1>5

Working ==
    {"create_clean", "create_rejects", "header_rows", "rows",
     "flush_clean", "flush_rejects", "report"}

\* Each rule is checked at the column it means.
Resolved ==
    /\ \A k \in DOMAIN rules : \E i \in DOMAIN Header : IsColumn(i, rules[k].column)
    /\ checks = [k \in DOMAIN rules |->
                    [index |-> Position(rules[k].column), rule |-> rules[k].rule,
                     column |-> rules[k].column]]

\* Every row before the n-th record passes
PassBefore(n) == \A m \in 2..(n - 1) : RowPasses(records[m])

\* None has been counted as rejected exactly if all read so far pass, and an
\* exit code of 0 or 1 says that of all there are.
ExitInv ==
    /\ pc \in {"open", "header", "resolve"} => rows_rejected = 0
    /\ pc \in Working => Resolved /\ (rows_rejected = 0 <=> PassBefore(next))
    /\ pc \in {"flush_clean", "flush_rejects", "report"} => next = Len(records) + 1
    /\ exit \in {"0", "1"} => (exit = "0" <=> PassBefore(Len(records) + 1))

LEMMA InitExit == Init => ExitInv
BY DEF Init, ExitInv, Working

\* A check finds a problem where the rule does not pass.
LEMMA ProblemsRight ==
    ASSUME IInv, records # << >>, Resolved, NEW r
    PROVE  /\ DOMAIN checks = DOMAIN rules
           /\ \A k \in DOMAIN rules :
                /\ Problem(checks[k], r) <=> ~RulePasses(rules[k], r)
                /\ checks[k].column = rules[k].column
<1>1. records[1] \in Records
    BY Types
<1>2. DOMAIN Header \subseteq Nat \ {0}
    BY <1>1, TablesAssumption DEF Header
<1>3. ASSUME NEW k \in DOMAIN rules PROVE Problem(checks[k], r) <=> ~RulePasses(rules[k], r)
    <2>1. checks[k].index = Position(rules[k].column) /\ checks[k].rule = rules[k].rule
        BY DEF Resolved
    <2>2. \E i \in DOMAIN Header : IsColumn(i, rules[k].column)
        BY DEF Resolved
    <2>3. Position(rules[k].column) =
             (CHOOSE n \in {i \in DOMAIN Header : Header[i].text = rules[k].column} :
                \A m \in {i \in DOMAIN Header : Header[i].text = rules[k].column} : n <= m)
        BY <1>2, <2>2, Positions
    <2> QED
        BY <2>1, <2>3 DEF Problem, RulePasses
<1>4. DOMAIN checks = DOMAIN rules /\ \A k \in DOMAIN rules : checks[k].column = rules[k].column
    BY DEF Resolved
<1> QED
    BY <1>3, <1>4

\* What is rejected is what does not pass.
LEMMA RejectedRightly ==
    ASSUME IInv, records # << >>, Resolved, NEW r
    PROVE  Rejected(r) <=> ~RowPasses(r)
BY ProblemsRight DEF Rejected, RowPasses

\* A step that reads no row and counts none.
LEMMA ExitKept ==
    ASSUME ExitInv, UNCHANGED <<records, rules, checks, rows_rejected, next, exit>>,
           pc' \in {"open", "header", "resolve"} => pc \in {"open", "header", "resolve"},
           pc' \in Working => pc \in Working,
           pc' \in {"flush_clean", "flush_rejects", "report"} => next = Len(records) + 1
    PROVE  ExitInv'
<1>1. Resolved' <=> Resolved
    BY DEF Resolved, Header, IsColumn, Position
<1>2. \A n : PassBefore(n)' <=> PassBefore(n)
    BY DEF PassBefore, RowPasses, RulePasses, Header
<1> QED
    BY <1>1, <1>2 DEF ExitInv, PassBefore, RowPasses, RulePasses, Header

LEMMA NextExit == IInv /\ ExitInv /\ [Next]_vars => ExitInv'
<1> SUFFICES ASSUME IInv, ExitInv, [Next]_vars PROVE ExitInv'
    OBVIOUS
<1> USE DEF At
<1>0. /\ next \in Nat /\ Len(records) \in Nat /\ next <= Len(records) + 1
      /\ rows_rejected \in Nat
    BY Types
\* A run that ends otherwise says nothing.
<1>1. ASSUME pc' = "done", exit' \in {"3", "killed"} PROVE ExitInv'
    BY <1>1 DEF ExitInv, Working
<1>2. CASE OpenInput
    BY <1>2, ExitKept DEF OpenInput, options, summary, Working
<1>3. CASE ReadHeader
    <2>1. CASE records = << >>
        <3>1. pc' = "done" /\ exit' = "0" /\ Len(records') = 0
            BY <1>3, <2>1 DEF ReadHeader, options
        <3>2. PassBefore(Len(records) + 1)'
            BY <3>1 DEF PassBefore
        <3> QED
            BY <3>1, <3>2 DEF ExitInv, Working
    <2>2. CASE records # << >>
        BY <1>3, <2>2 DEF ReadHeader, ExitInv, Working, summary
    <2> QED
        BY <2>1, <2>2
<1>4. CASE Resolve
    <2>1. /\ pc = "resolve" /\ pc' = "create_clean" /\ exit = "running"
          /\ UNCHANGED <<records, rules, next, rows_rejected, exit>>
        BY <1>4 DEF Resolve, options, summary
    <2>2. Resolved'
        BY <1>4, <2>1 DEF Resolve, Resolved, Header, IsColumn, Position
    <2>3. next = 2 /\ rows_rejected = 0
        BY <2>1 DEF IInv, Phase, Before, ExitInv
    <2>4. PassBefore(next)'
        BY <2>1, <2>3 DEF PassBefore
    <2> QED
        BY <2>1, <2>2, <2>3, <2>4 DEF ExitInv, Working
<1>5. CASE ResolveFails \/ IoError
    BY <1>1, <1>5 DEF ResolveFails, IoError, Fails
<1>6. CASE CreateClean \/ CreateRejects
    BY <1>6, ExitKept DEF CreateClean, CreateRejects, Create, options, summary, Working
<1>7. CASE WriteHeaders
    BY <1>7, ExitKept DEF WriteHeaders, options, summary, Working
\* A row is counted as rejected exactly if it does not pass.
<1>8. CASE CleanRow \/ RejectRow
    <2>1. /\ pc = "rows" /\ pc' = "rows" /\ exit = "running" /\ next <= Len(records)
          /\ next' = next + 1 /\ UNCHANGED <<records, rules, checks, exit>>
        BY <1>8 DEF CleanRow, RejectRow, options
    <2>2. next \in 2..Len(records) /\ records # << >>
        <3>1. next >= 2
            BY <1>0, <2>1 DEF IInv, RowsAddUp, TypeOK
        <3> QED
            BY <1>0, <2>1, <3>1
    <2>3. Resolved /\ (rows_rejected = 0 <=> PassBefore(next))
        BY <2>1 DEF ExitInv, Working
    <2>4. Rejected(records[next]) <=> ~RowPasses(records[next])
        BY <2>2, <2>3, RejectedRightly
    <2>5. Resolved'
        BY <2>1, <2>3 DEF Resolved, Header, IsColumn, Position
    <2>6. PassBefore(next)' <=> PassBefore(next) /\ RowPasses(records[next])
        <3>1. 2..((next + 1) - 1) = 2..(next - 1) \cup {next}
            BY <1>0, <2>2
        <3>2. PassBefore(next)' <=> \A m \in 2..((next + 1) - 1) : RowPasses(records[m])
            BY <2>1 DEF PassBefore, RowPasses, RulePasses, Header
        <3> QED
            BY <3>1, <3>2 DEF PassBefore
    <2>7. rows_rejected' = 0 <=> rows_rejected = 0 /\ ~Rejected(records[next])
        <3>1. CASE CleanRow
            BY <3>1 DEF CleanRow
        <3>2. CASE RejectRow
            BY <1>0, <3>2 DEF RejectRow
        <3> QED
            BY <1>8, <3>1, <3>2
    <2> QED
        BY <2>1, <2>3, <2>4, <2>5, <2>6, <2>7 DEF ExitInv
<1>9. ASSUME NEW f \in Outputs, Spill(f) PROVE ExitInv'
    BY <1>9, ExitKept DEF Spill, options, summary, ExitInv
<1>10. CASE EndOfRows
    BY <1>0, <1>10, ExitKept DEF EndOfRows, options, summary, Working
<1>11. CASE FlushClean \/ FlushRejects
    BY <1>11, ExitKept DEF FlushClean, FlushRejects, Flush, options, summary, Working, ExitInv
<1>12. CASE Report
    <2>1. /\ pc = "report" /\ pc' = "done" /\ UNCHANGED <<records, rules>>
          /\ exit' = IF rows_rejected > 0 THEN "1" ELSE "0"
        BY <1>12 DEF Report, options
    <2>2. rows_rejected = 0 <=> PassBefore(Len(records) + 1)
        BY <2>1 DEF ExitInv, Working
    <2>3. PassBefore(Len(records) + 1)' <=> PassBefore(Len(records) + 1)
        BY <2>1 DEF PassBefore, RowPasses, RulePasses, Header
    <2>4. exit' = "0" <=> rows_rejected = 0
        BY <1>0, <2>1
    <2> QED
        BY <2>1, <2>2, <2>3, <2>4 DEF ExitInv, Working
<1>13. CASE Killed
    BY <1>1, <1>13 DEF Killed
<1>14. CASE UNCHANGED vars
    BY <1>14, ExitKept DEF vars, options, summary, ExitInv
<1> QED
    BY <1>2, <1>3, <1>4, <1>5, <1>6, <1>7, <1>8, <1>9, <1>10, <1>11, <1>12,
       <1>13, <1>14 DEF Next, Stopped

----------------------------------------------------------------------------
(* Sets of numbers and of pairs, and their order. *)

\* Sets of which one is numbered by the other have one size.
LEMMA SameSize ==
    ASSUME NEW S, IsFiniteSet(S), NEW T, NEW h \in [S -> T],
           \A x, y \in S : h[x] = h[y] => x = y, \A t \in T : \E x \in S : h[x] = t
    PROVE  IsFiniteSet(T) /\ Cardinality(T) = Cardinality(S)
<1>1. h \in Bijection(S, T)
    BY DEF Bijection, Injection, Surjection, IsInjective
<1>2. ExistsBijection(S, T)
    BY <1>1 DEF ExistsBijection
<1> QED
    BY <1>2, FS_Bijection

\* As many pairs in a row as there are seconds.
LEMMA PairsOfRow ==
    ASSUME NEW K, IsFiniteSet(K), NEW n
    PROVE  IsFiniteSet({<<n, k>> : k \in K}) /\ Cardinality({<<n, k>> : k \in K}) = Cardinality(K)
<1> DEFINE T == {<<n, k>> : k \in K}
           h == [k \in K |-> <<n, k>>]
<1>1. h \in [K -> T]
    OBVIOUS
<1>2. \A x, y \in K : h[x] = h[y] => x = y
    OBVIOUS
<1>3. \A t \in T : \E x \in K : h[x] = t
    OBVIOUS
<1> HIDE DEF T, h
<1>4. IsFiniteSet(T) /\ Cardinality(T) = Cardinality(K)
    BY <1>1, <1>2, <1>3, SameSize
<1> QED
    BY <1>4 DEF T

Rank(K, k) == Cardinality({j \in K : j <= k})

\* The ranks of a finite set of numbers are 1, 2 and so on, and Ascending lists
\* each number at its rank.
LEMMA Ranks ==
    ASSUME NEW K, K \subseteq Nat, IsFiniteSet(K)
    PROVE  /\ Cardinality(K) \in Nat
           /\ \A k \in K : Rank(K, k) \in 1..Cardinality(K) /\ Ascending(K)[Rank(K, k)] = k
           /\ \A k, l \in K : Rank(K, k) = Rank(K, l) => k = l
           /\ \A i \in 1..Cardinality(K) : \E k \in K : Rank(K, k) = i
<1> DEFINE Upto(k) == {j \in K : j <= k}
           C == Cardinality(K)
<1>0. C \in Nat
    BY FS_CardinalityType
<1>1. ASSUME NEW k \in K
      PROVE  IsFiniteSet(Upto(k)) /\ Cardinality(Upto(k)) \in 1..C
    <2>1. Upto(k) \in SUBSET K
        OBVIOUS
    <2>2. IsFiniteSet(Upto(k)) /\ Cardinality(Upto(k)) <= C
        BY <2>1, FS_Subset
    <2>3. k \in Upto(k)
        OBVIOUS
    <2> HIDE DEF Upto
    <2>4. Cardinality(Upto(k)) \in Nat /\ Cardinality(Upto(k)) # 0
        BY <2>2, <2>3, FS_CardinalityType, FS_EmptySet
    <2> QED
        BY <1>0, <2>2, <2>4
<1>2. ASSUME NEW k \in K, NEW l \in K, k < l
      PROVE  Cardinality(Upto(k)) # Cardinality(Upto(l))
    <2>1. Upto(k) \in SUBSET Upto(l) /\ l \in Upto(l) /\ l \notin Upto(k)
        <3>1. k \in Int /\ l \in Int /\ k < l /\ \A j \in K : j \in Int
            BY <1>2
        <3>2. \A j \in K : j <= k => j <= l
            BY <3>1
        <3>3. l <= l /\ ~(l <= k)
            BY <3>1
        <3> QED
            BY <3>2, <3>3
    <2>2. IsFiniteSet(Upto(l)) /\ Upto(k) # Upto(l)
        BY <1>1, <2>1
    <2> HIDE DEF Upto
    <2> QED
        BY <2>1, <2>2, FS_Subset
<1>3. ASSUME NEW k \in K, NEW l \in K, Cardinality(Upto(k)) = Cardinality(Upto(l)) PROVE k = l
    <2>1. ~(k < l) /\ ~(l < k)
        BY <1>2, <1>3
    <2>2. k \in Nat /\ l \in Nat
        OBVIOUS
    <2> QED
        BY <2>1, <2>2
<1>4. ASSUME NEW k \in K PROVE Ascending(K)[Cardinality(Upto(k))] = k
    <2>1. Ascending(K)[Cardinality(Upto(k))]
            = CHOOSE l \in K : Cardinality(Upto(l)) = Cardinality(Upto(k))
        BY <1>1 DEF Ascending
    <2> HIDE DEF Upto
    <2> QED
        BY <1>3, <2>1
<1>5. ASSUME NEW i \in 1..C PROVE \E k \in K : Cardinality(Upto(k)) = i
    <2> DEFINE h == [k \in K |-> Cardinality(Upto(k))]
    <2>1. IsFiniteSet(1..C) /\ Cardinality(1..C) = C
        BY <1>0, FS_Interval
    <2>2. h \in Injection(K, 1..C)
        <3> HIDE DEF Upto
        <3>1. h \in [K -> 1..C]
            BY <1>1
        <3> QED
            BY <1>3, <3>1 DEF Injection, IsInjective
    <2> HIDE DEF h
    <2>3. h \in Surjection(K, 1..C)
        BY <2>1, <2>2, FS_Injection
    <2>4. \E k \in K : h[k] = i
        BY <2>3 DEF Surjection
    <2> QED
        BY <2>4 DEF h
<1> QED
    BY <1>0, <1>1, <1>3, <1>4, <1>5 DEF Rank

\* Of a set of numbers, as many are listed as there are.
LEMMA ListedOf ==
    ASSUME NEW K, K \subseteq Nat, IsFiniteSet(K), NEW C, C \subseteq K
    PROVE  Cardinality({i \in 1..Cardinality(K) : Ascending(K)[i] \in C}) = Cardinality(C)
<1> DEFINE T == {i \in 1..Cardinality(K) : Ascending(K)[i] \in C}
           h == [k \in C |-> Rank(K, k)]
<1>1. h \in [C -> T]
    <2>1. \A k \in C : Rank(K, k) \in 1..Cardinality(K) /\ Ascending(K)[Rank(K, k)] = k
        BY Ranks
    <2>2. \A k \in C : Rank(K, k) \in T
        BY <2>1
    <2> HIDE DEF T
    <2> QED
        BY <2>2
<1>2. \A x, y \in C : h[x] = h[y] => x = y
    BY Ranks
<1>3. ASSUME NEW t \in T PROVE \E x \in C : h[x] = t
    <2>1. PICK k \in K : Rank(K, k) = t
        BY Ranks
    <2>2. k \in C
        BY <2>1, Ranks
    <2> QED
        BY <2>1, <2>2
<1>4. IsFiniteSet(C)
    BY FS_Subset
<1> HIDE DEF T, h
<1>5. Cardinality(T) = Cardinality(C)
    BY <1>1, <1>2, <1>3, <1>4, SameSize
<1> QED
    BY <1>5 DEF T

----------------------------------------------------------------------------
(* The outputs. *)

AnyLine ==
    Records \cup {RejectsHeader} \cup
    [line : {r.line : r \in Records},
     column : UNION {{list[k].column : k \in DOMAIN list} : list \in RuleLists}]

Splitting == {"rows", "flush_clean", "flush_rejects", "report"}

\* The lines are those of all rows before the n-th record.
EntriesBefore(f, n) == {e \in Entries(f) : e[1] < n}
Whole(lines, f, n) ==
    /\ Len(lines) = 1 + Cardinality(EntriesBefore(f, n))
    /\ lines[1] = Heading(f)
    /\ \A e \in EntriesBefore(f, n) : lines[Place(f, e)] = Line(f, e)

LinesTyped == \A f \in Outputs : files[f] \in Seq(AnyLine) /\ buffers[f] \in Seq(AnyLine)

\* An output holds nothing until it is created, which every rule's column is
\* found before.
Creation ==
    /\ \A f \in Outputs : f \notin created => files[f] = << >> /\ buffers[f] = << >>
    /\ pc \in Before => \A f \in Outputs : files[f] = << >> /\ buffers[f] = << >>
    /\ created # {} => Resolvable
    /\ pc \in Before \ {"create_rejects", "header_rows"} => created = {}
    /\ pc = "create_rejects" => created = {"clean"} \cap wanted
    /\ pc \in Splitting \cup {"header_rows"} => created = wanted

\* On disk and in the buffer behind it are the lines of the rows read.
Written ==
    /\ pc \in Splitting => \A f \in wanted : Whole(files[f] \o buffers[f], f, next)
    /\ pc \in {"flush_rejects", "report"} => buffers["clean"] = << >>
    /\ pc = "report" => buffers["rejects"] = << >>

Counted ==
    /\ pc \in Before => \A c \in DOMAIN failures_by_column : failures_by_column[c] = 0
    /\ pc \in Splitting =>
        /\ rows_clean = Cardinality(EntriesBefore("clean", next))
        /\ \A c \in DOMAIN failures_by_column :
            failures_by_column[c] =
                Cardinality({e \in EntriesBefore("rejects", next) : rules[e[2]].column = c})

Ended ==
    /\ exit = "running" <=> pc # "done"
    /\ pc = "done" => OutputsArePrefixes /\ OutputsComplete

OutInv == LinesTyped /\ Creation /\ Written /\ Counted /\ Ended

----------------------------------------------------------------------------
(* What is promised. *)

\* An entry is a row and a number, and there are finitely many.
LEMMA EntryTypes ==
    ASSUME TypeOK, NEW f \in Outputs
    PROVE  /\ IsFiniteSet(Entries(f)) /\ Cardinality(Entries(f)) \in Nat
           /\ \A e \in Entries(f) : /\ e[1] \in 2..Len(records) /\ e[1] \in Int /\ e[2] \in Nat
                                    /\ e = <<e[1], e[2]>>
<1>1. Len(records) \in Nat
    BY TablesAssumption DEF TypeOK
<1>2. Len(rules) \in Nat /\ DOMAIN rules = 1..Len(rules)
    BY RuleListsAssumption DEF TypeOK
<1> DEFINE P == (2..Len(records)) \X ({0} \cup DOMAIN rules)
<1>3. Entries(f) \in SUBSET P
    BY DEF Entries
<1>4. IsFiniteSet(P)
    <2>1. IsFiniteSet(2..Len(records)) /\ IsFiniteSet(1..Len(rules))
        BY <1>1, <1>2, FS_Interval
    <2>2. IsFiniteSet({0})
        BY FS_Singleton
    <2>3. IsFiniteSet({0} \cup DOMAIN rules)
        BY <1>2, <2>1, <2>2, FS_Union
    <2> QED
        BY <2>1, <2>3, FS_Product
<1>5. \A e \in P : e[1] \in 2..Len(records) /\ e[2] \in {0} \cup 1..Len(rules) /\ e = <<e[1], e[2]>>
    BY <1>2
<1>6. 2..Len(records) \subseteq Int /\ {0} \cup 1..Len(rules) \subseteq Nat
    BY <1>1, <1>2
<1> HIDE DEF P
<1>7. IsFiniteSet(Entries(f))
    BY <1>3, <1>4, FS_Subset
<1> QED
    BY <1>3, <1>5, <1>6, <1>7, FS_CardinalityType

\* The entries of earlier rows take the first places after the heading.
LEMMA Places ==
    ASSUME TypeOK, NEW f \in Outputs, NEW n \in Int
    PROVE  LET many == Cardinality(EntriesBefore(f, n))
           IN  /\ IsFiniteSet(EntriesBefore(f, n))
               /\ many \in Nat /\ many <= Cardinality(Entries(f))
               /\ \A e \in EntriesBefore(f, n) : Place(f, e) \in 2..(1 + many)
               /\ \A e \in Entries(f) \ EntriesBefore(f, n) :
                    Place(f, e) \in Int /\ Place(f, e) > 1 + many
<1> DEFINE Before_n == EntriesBefore(f, n)
           Upto(e) == {d \in Entries(f) : NotAfter(d, e)}
<1>0. IsFiniteSet(Entries(f)) /\ Cardinality(Entries(f)) \in Nat
    BY EntryTypes
<1>1. Before_n \in SUBSET Entries(f)
    BY DEF EntriesBefore
<1>2. /\ IsFiniteSet(Before_n) /\ Cardinality(Before_n) \in Nat
      /\ Cardinality(Before_n) <= Cardinality(Entries(f))
    BY <1>0, <1>1, FS_Subset, FS_CardinalityType
<1>3. ASSUME NEW e \in Entries(f)
      PROVE  /\ Place(f, e) = 1 + Cardinality(Upto(e)) /\ e \in Upto(e)
             /\ IsFiniteSet(Upto(e)) /\ Cardinality(Upto(e)) \in Nat
    <2>1. e \in Upto(e)
        BY EntryTypes DEF NotAfter
    <2>2. Upto(e) \in SUBSET Entries(f)
        OBVIOUS
    <2>3. Place(f, e) = 1 + Cardinality(Upto(e))
        BY DEF Place
    <2> HIDE DEF Upto
    <2> QED
        BY <1>0, <2>1, <2>2, <2>3, FS_Subset, FS_CardinalityType
<1>4. ASSUME NEW e \in Before_n PROVE Place(f, e) \in 2..(1 + Cardinality(Before_n))
    <2>1. e \in Entries(f) /\ e[1] < n
        BY DEF EntriesBefore
    <2>2. Upto(e) \in SUBSET Before_n
        BY <2>1, EntryTypes DEF EntriesBefore, NotAfter
    <2>3. Cardinality(Upto(e)) <= Cardinality(Before_n)
        BY <1>2, <2>2, FS_Subset
    <2> HIDE DEF Upto, Before_n
    <2>4. Cardinality(Upto(e)) # 0
        BY <1>3, <2>1, FS_EmptySet
    <2> QED
        BY <1>2, <1>3, <2>1, <2>3, <2>4
<1>5. ASSUME NEW e \in Entries(f) \ Before_n
      PROVE  Place(f, e) \in Int /\ Place(f, e) > 1 + Cardinality(Before_n)
    <2>1. e \in Entries(f) /\ ~(e[1] < n)
        BY DEF EntriesBefore
    <2>2. Before_n \in SUBSET Upto(e) /\ Before_n # Upto(e)
        BY <1>3, <2>1, EntryTypes DEF EntriesBefore, NotAfter
    <2> HIDE DEF Upto, Before_n
    <2>3. Cardinality(Before_n) <= Cardinality(Upto(e)) /\ Cardinality(Before_n) # Cardinality(Upto(e))
        BY <1>3, <2>1, <2>2, FS_Subset
    <2> QED
        BY <1>2, <1>3, <2>1, <2>3
<1> QED
    BY <1>2, <1>4, <1>5

\* A part of the lines of the rows read is a beginning of what is promised.
LEMMA BeginsPart ==
    ASSUME TypeOK, NEW f \in Outputs, NEW n \in Int,
           NEW s \in Seq(AnyLine), NEW t \in Seq(AnyLine), Whole(s \o t, f, n)
    PROVE  Begins(s, f)
<1> DEFINE many == Cardinality(EntriesBefore(f, n))
<1>1. /\ many \in Nat /\ many <= Cardinality(Entries(f))
      /\ \A e \in EntriesBefore(f, n) : Place(f, e) \in 2..(1 + many)
      /\ \A e \in Entries(f) \ EntriesBefore(f, n) : Place(f, e) \in Int /\ Place(f, e) > 1 + many
      /\ Cardinality(Entries(f)) \in Nat
    BY Places, EntryTypes
<1>2. /\ Len(s) \in Nat /\ Len(t) \in Nat /\ Len(s \o t) = Len(s) + Len(t)
      /\ \A i \in 1..Len(s) + Len(t) : i <= Len(s) => (s \o t)[i] = s[i]
    BY ConcatProperties, LenProperties
<1>3. /\ Len(s \o t) = 1 + many /\ (s \o t)[1] = Heading(f)
      /\ \A e \in EntriesBefore(f, n) : (s \o t)[Place(f, e)] = Line(f, e)
    BY DEF Whole
<1> HIDE DEF many
<1>4. Len(s) <= 1 + Cardinality(Entries(f)) /\ Len(s) <= 1 + many
    BY <1>1, <1>2, <1>3
<1>5. s # << >> => s[1] = Heading(f)
    <2>1. s # << >> => Len(s) >= 1
        BY <1>2, EmptySeq
    <2> QED
        BY <1>2, <1>3, <2>1
<1>6. ASSUME NEW e \in Entries(f), Place(f, e) <= Len(s) PROVE s[Place(f, e)] = Line(f, e)
    <2>1. e \in EntriesBefore(f, n)
        BY <1>1, <1>2, <1>4, <1>6
    <2>2. Place(f, e) \in 1..(Len(s) + Len(t)) /\ Place(f, e) \in Int
        BY <1>1, <1>2, <1>6, <2>1
    <2> QED
        BY <1>2, <1>3, <1>6, <2>1, <2>2
<1> QED
    BY <1>4, <1>5, <1>6 DEF Begins

\* No line at all is a beginning.
LEMMA BeginsNothing ==
    ASSUME TypeOK, NEW f \in Outputs
    PROVE  Begins(<< >>, f)
<1>1. Len(<< >>) = 0 /\ Cardinality(Entries(f)) \in Nat
    BY EntryTypes
<1>2. ASSUME NEW e \in Entries(f) PROVE ~(Place(f, e) <= 0)
    <2>1. EntriesBefore(f, 2) = {}
        BY EntryTypes DEF EntriesBefore
    <2>2. Place(f, e) \in Int /\ Place(f, e) > 1 + 0
        BY <2>1, Places, FS_EmptySet
    <2> QED
        BY <2>2
<1> QED
    BY <1>1, <1>2 DEF Begins

\* Before the first row there are no entries.
LEMMA HeadingOnly ==
    ASSUME TypeOK, NEW f \in Outputs
    PROVE  EntriesBefore(f, 2) = {} /\ Whole(<<Heading(f)>>, f, 2)
<1>1. EntriesBefore(f, 2) = {}
    BY EntryTypes DEF EntriesBefore
<1> QED
    BY <1>1, FS_EmptySet DEF Whole

\* The entries of a row come after those of the rows before it.
LEMMA NextRow ==
    ASSUME TypeOK, NEW f \in Outputs, NEW n \in Int, NEW K, K \subseteq Nat, IsFiniteSet(K),
           \A k : k \in K <=> <<n, k>> \in Entries(f)
    PROVE  /\ EntriesBefore(f, n + 1) = EntriesBefore(f, n) \cup {<<n, k>> : k \in K}
           /\ Cardinality(EntriesBefore(f, n + 1))
                = Cardinality(EntriesBefore(f, n)) + Cardinality(K)
           /\ \A k \in K : Place(f, <<n, k>>)
                = 1 + Cardinality(EntriesBefore(f, n)) + Rank(K, k)
<1> DEFINE E == EntriesBefore(f, n)
           Pairs(C) == {<<n, k>> : k \in C}
<1>1. IsFiniteSet(E) /\ Cardinality(E) \in Nat
    BY Places
\* a part of the row's entries
<1>2. ASSUME NEW C, C \subseteq K
      PROVE  Cardinality(E \cup Pairs(C)) = Cardinality(E) + Cardinality(C)
    <2>1. IsFiniteSet(C) /\ Cardinality(C) \in Nat
        BY <1>2, FS_Subset, FS_CardinalityType
    <2>2. IsFiniteSet(Pairs(C)) /\ Cardinality(Pairs(C)) = Cardinality(C)
        BY <2>1, PairsOfRow
    <2>3. E \cap Pairs(C) = {}
        BY DEF EntriesBefore
    <2> HIDE DEF E, Pairs
    <2> QED
        BY <1>1, <2>1, <2>2, <2>3, FS_Union, FS_EmptySet
<1>3. EntriesBefore(f, n + 1) = E \cup Pairs(K)
    <2>1. ASSUME NEW e \in Entries(f) PROVE e[1] < n + 1 <=> e[1] < n \/ e \in Pairs(K)
        <3>1. e[1] \in Int /\ e = <<e[1], e[2]>>
            BY EntryTypes
        <3>2. e[1] = n => e \in Pairs(K)
            BY <3>1
        <3>3. e \in Pairs(K) => e[1] = n
            OBVIOUS
        <3> HIDE DEF Pairs
        <3> QED
            BY <3>1, <3>2, <3>3
    <2>2. Pairs(K) \subseteq Entries(f)
        OBVIOUS
    <2> QED
        BY <2>1, <2>2 DEF EntriesBefore
<1>4. ASSUME NEW k \in K
      PROVE  Place(f, <<n, k>>) = 1 + Cardinality(E) + Rank(K, k)
    <2> DEFINE C == {j \in K : j <= k}
    <2>1. {d \in Entries(f) : NotAfter(d, <<n, k>>)} = E \cup Pairs(C)
        <3>1. ASSUME NEW d \in Entries(f)
              PROVE  NotAfter(d, <<n, k>>) <=> d \in E \/ d \in Pairs(C)
            <4>1. d[1] \in Int /\ d = <<d[1], d[2]>>
                BY EntryTypes
            <4>2. d \in E <=> d[1] < n
                BY DEF EntriesBefore
            <4>3. d \in Pairs(C) <=> d[1] = n /\ d[2] <= k
                BY <4>1
            <4> HIDE DEF E, Pairs, C
            <4> QED
                BY <4>2, <4>3 DEF NotAfter
        <3>2. E \subseteq Entries(f) /\ Pairs(C) \subseteq Entries(f)
            BY DEF EntriesBefore
        <3> HIDE DEF E, Pairs, C
        <3> QED
            BY <3>1, <3>2
    <2>2. Cardinality(E \cup Pairs(C)) = Cardinality(E) + Cardinality(C)
        BY <1>2
    <2>3. Cardinality(C) \in Nat
        BY FS_Subset, FS_CardinalityType
    <2>4. Cardinality(C) = Rank(K, k)
        BY DEF Rank
    <2>5. Place(f, <<n, k>>) = 1 + Cardinality({d \in Entries(f) : NotAfter(d, <<n, k>>)})
        BY DEF Place
    <2> HIDE DEF E, Pairs, C
    <2>6. Place(f, <<n, k>>) = 1 + (Cardinality(E) + Cardinality(C))
        BY <2>1, <2>2, <2>5
    <2> QED
        BY <1>1, <2>3, <2>4, <2>6
<1> QED
    BY <1>2, <1>3, <1>4

LEMMA PlaceInRow ==
    ASSUME TypeOK, NEW f \in Outputs, NEW n \in Int, NEW K, K \subseteq Nat, IsFiniteSet(K),
           \A k : k \in K <=> <<n, k>> \in Entries(f), NEW j \in K
    PROVE  Place(f, <<n, j>>) = 1 + Cardinality(EntriesBefore(f, n)) + Rank(K, j)
BY NextRow

\* The lines of a row after those of the rows before it.
LEMMA RowAdded ==
    ASSUME TypeOK, NEW f \in Outputs, NEW n \in Int, NEW K, K \subseteq Nat, IsFiniteSet(K),
           \A k : k \in K <=> <<n, k>> \in Entries(f),
           NEW s \in Seq(AnyLine), NEW t \in Seq(AnyLine), Whole(s, f, n),
           Len(t) = Cardinality(K), \A k \in K : t[Rank(K, k)] = Line(f, <<n, k>>)
    PROVE  Whole(s \o t, f, n + 1)
<1> DEFINE many == Cardinality(EntriesBefore(f, n))
<1>1. /\ many \in Nat /\ Cardinality(K) \in Nat /\ Len(s) = 1 + many
      /\ \A e \in EntriesBefore(f, n) : Place(f, e) \in 2..(1 + many)
      /\ \A k \in K : Rank(K, k) \in 1..Cardinality(K)
    BY Places, Ranks DEF Whole
<1>2. /\ Len(s \o t) = Len(s) + Len(t)
      /\ \A i \in 1..(Len(s) + Len(t)) :
            (s \o t)[i] = IF i <= Len(s) THEN s[i] ELSE t[i - Len(s)]
    BY ConcatProperties
<1>3. /\ EntriesBefore(f, n + 1) = EntriesBefore(f, n) \cup {<<n, k>> : k \in K}
      /\ Cardinality(EntriesBefore(f, n + 1)) = many + Cardinality(K)
      /\ \A k \in K : Place(f, <<n, k>>) = 1 + many + Rank(K, k)
    <2>1. EntriesBefore(f, n + 1) = EntriesBefore(f, n) \cup {<<n, k>> : k \in K}
        BY NextRow
    <2>2. Cardinality(EntriesBefore(f, n + 1)) = many + Cardinality(K)
        BY NextRow
    <2>3. ASSUME NEW k \in K
          PROVE  Place(f, <<n, k>>) = 1 + Cardinality(EntriesBefore(f, n)) + Rank(K, k)
        BY PlaceInRow
    <2> QED
        BY <2>1, <2>2, <2>3
<1>4. s[1] = Heading(f) /\ \A e \in EntriesBefore(f, n) : s[Place(f, e)] = Line(f, e)
    BY DEF Whole
<1> HIDE DEF many
<1>5. Len(s \o t) = 1 + (many + Cardinality(K)) /\ (s \o t)[1] = Heading(f)
    BY <1>1, <1>2, <1>4
<1>6. ASSUME NEW e \in EntriesBefore(f, n) PROVE (s \o t)[Place(f, e)] = Line(f, e)
    BY <1>1, <1>2, <1>4
<1>7. ASSUME NEW k \in K PROVE (s \o t)[Place(f, <<n, k>>)] = Line(f, <<n, k>>)
    <2>1. PICK r \in 1..Cardinality(K) : r = Rank(K, k)
        BY <1>1
    <2>2. Place(f, <<n, k>>) = 1 + many + r /\ t[r] = Line(f, <<n, k>>)
        BY <1>3, <2>1
    <2>3. /\ 1 + many + r \in 1..(Len(s) + Len(t)) /\ ~(1 + many + r <= Len(s))
          /\ (1 + many + r) - Len(s) = r
        BY <1>1
    <2> QED
        BY <1>2, <2>2, <2>3
<1> QED
    BY <1>3, <1>5, <1>6, <1>7 DEF Whole

\* A row without entries adds nothing.
LEMMA RowWithout ==
    ASSUME TypeOK, NEW f \in Outputs, NEW n \in Int, \A k : <<n, k>> \notin Entries(f)
    PROVE  /\ EntriesBefore(f, n + 1) = EntriesBefore(f, n)
           /\ \A s : Whole(s, f, n) => Whole(s, f, n + 1)
<1>1. EntriesBefore(f, n + 1) = EntriesBefore(f, n)
    <2>1. ASSUME NEW e \in Entries(f) PROVE e[1] < n + 1 <=> e[1] < n
        BY EntryTypes
    <2> QED
        BY <2>1 DEF EntriesBefore
<1> QED
    BY <1>1 DEF Whole

LEMMA Regroup ==
    ASSUME NEW S, NEW a \in Seq(S), NEW b \in Seq(S), NEW c \in Seq(S)
    PROVE  (a \o b) \o c = a \o (b \o c)
BY ConcatAssociative

\* What a spill moves is in one of the two before and after.
LEMMA SpillSame ==
    ASSUME NEW S, NEW s \in Seq(S), NEW t \in Seq(S), NEW n \in 1..Len(t)
    PROVE  /\ s \o SubSeq(t, 1, n) \in Seq(S) /\ SubSeq(t, n + 1, Len(t)) \in Seq(S)
           /\ (s \o SubSeq(t, 1, n)) \o SubSeq(t, n + 1, Len(t)) = s \o t
<1>1. Len(t) \in Nat /\ \A i \in 1..Len(t) : t[i] \in S
    BY LenProperties, ElementOfSeq
<1>2. SubSeq(t, 1, n) \in Seq(S)
    BY <1>1, SubSeqProperties
<1>3. SubSeq(t, n + 1, Len(t)) \in Seq(S)
    BY <1>1, SubSeqProperties
<1>4. SubSeq(t, 1, n) \o SubSeq(t, n + 1, Len(t)) = t
    <2>1. 1 \in 1..(Len(t) + 1) /\ n \in (1 - 1)..Len(t) /\ Len(t) \in n..Len(t)
        BY <1>1
    <2> QED
        BY <2>1, ConcatAdjacentSubSeq, SubSeqFull
<1>5. ASSUME NEW a \in Seq(S), NEW b \in Seq(S)
      PROVE  s \o a \in Seq(S) /\ (s \o a) \o b = s \o (a \o b)
    OBVIOUS
<1>6. /\ s \o SubSeq(t, 1, n) \in Seq(S)
      /\ (s \o SubSeq(t, 1, n)) \o SubSeq(t, n + 1, Len(t))
            = s \o (SubSeq(t, 1, n) \o SubSeq(t, n + 1, Len(t)))
    BY <1>2, <1>3, <1>5, Zenon
<1> QED
    BY <1>3, <1>4, <1>6, Zenon

----------------------------------------------------------------------------
(* Every step keeps the outputs. *)

\* What is promised is about the file and the rules, which no step changes.
LEMMA SamePromise ==
    ASSUME UNCHANGED <<records, rules>>
    PROVE  /\ \A f : Entries(f)' = Entries(f)
           /\ \A f, n : EntriesBefore(f, n)' = EntriesBefore(f, n)
           /\ \A s, f, n : Whole(s, f, n)' <=> Whole(s, f, n)
           /\ \A s, f : Begins(s, f)' <=> Begins(s, f)
           /\ Resolvable' <=> Resolvable
<1>1. \A f : Entries(f)' = Entries(f) /\ Heading(f)' = Heading(f)
    BY DEF Entries, Heading, RowPasses, RulePasses, Header
<1>2. \A f, n : EntriesBefore(f, n)' = EntriesBefore(f, n)
    BY <1>1 DEF EntriesBefore
<1>3. \A f, e : Place(f, e)' = Place(f, e) /\ Line(f, e)' = Line(f, e)
    BY <1>1 DEF Place, Line
<1>4. \A s, f, n : Whole(s, f, n)' <=> Whole(s, f, n)
    BY <1>1, <1>2, <1>3 DEF Whole
<1>5. \A s, f : Begins(s, f)' <=> Begins(s, f)
    BY <1>1, <1>3 DEF Begins
<1>6. Resolvable' <=> Resolvable
    BY DEF Resolvable, Header, IsColumn
<1> QED
    BY <1>1, <1>2, <1>4, <1>5, <1>6

\* Whether or not the buffer is saved, what is left is a beginning.
LEMMA Prefixes ==
    ASSUME IInv, OutInv, pc # "done", NEW f \in Outputs,
           NEW lines \in {files[f], files[f] \o buffers[f]}
    PROVE  (f \notin created /\ lines = << >>) \/ (Resolvable /\ Begins(lines, f))
<1>1. files[f] \in Seq(AnyLine) /\ buffers[f] \in Seq(AnyLine) /\ << >> \in Seq(AnyLine)
    BY DEF OutInv, LinesTyped
<1>2. pc \in Before \cup Splitting /\ next \in Int /\ TypeOK
    BY DEF IInv, TypeOK, Labels, Before, Splitting
<1>3. << >> \o << >> = << >>
    BY <1>1, ConcatEmptySeq
<1>4. CASE files[f] = << >> /\ buffers[f] = << >>
    <2>1. lines = << >>
        BY <1>3, <1>4
    <2>2. Begins(lines, f)
        BY <1>2, <2>1, BeginsNothing
    <2> QED
        BY <2>1, <2>2 DEF OutInv, Creation
<1>5. CASE ~(files[f] = << >> /\ buffers[f] = << >>)
    <2>1. f \in created /\ pc \in Splitting /\ created = wanted /\ Resolvable
        BY <1>2, <1>5 DEF OutInv, Creation
    <2>2. Whole(files[f] \o buffers[f], f, next)
        BY <2>1 DEF OutInv, Written
    <2>3. Begins(files[f], f)
        BY <1>1, <1>2, <2>2, BeginsPart
    <2>4. files[f] \o buffers[f] \in Seq(AnyLine)
        BY <1>1, ConcatProperties
    <2>5. (files[f] \o buffers[f]) \o << >> = files[f] \o buffers[f]
        BY <2>4, ConcatEmptySeq
    <2>6. Begins(files[f] \o buffers[f], f)
        BY <1>1, <1>2, <2>2, <2>4, <2>5, BeginsPart
    <2> QED
        BY <2>1, <2>3, <2>6
<1> QED
    BY <1>4, <1>5

\* A run that ends leaves beginnings.
LEMMA RunEnds ==
    ASSUME IInv, OutInv, pc # "done", pc' = "done", exit' # "running",
           UNCHANGED <<records, rules, created>>,
           \A f \in Outputs : /\ files'[f] \in {files[f], files[f] \o buffers[f]}
                              /\ buffers'[f] \in {<< >>, buffers[f]},
           OutputsComplete'
    PROVE  OutInv'
<1>1. \A f \in Outputs : files[f] \in Seq(AnyLine) /\ buffers[f] \in Seq(AnyLine)
    BY DEF OutInv, LinesTyped
<1>2. LinesTyped'
    <2> SUFFICES ASSUME NEW f \in Outputs
                 PROVE  files'[f] \in Seq(AnyLine) /\ buffers'[f] \in Seq(AnyLine)
        BY DEF LinesTyped, AnyLine, RejectsHeader
    <2>1. files[f] \o buffers[f] \in Seq(AnyLine) /\ << >> \in Seq(AnyLine)
        BY <1>1, ConcatProperties
    <2> QED
        BY <1>1, <2>1
<1>3. Creation'
    <2>1. ASSUME NEW f \in Outputs, f \notin created PROVE files'[f] = << >> /\ buffers'[f] = << >>
        <3>1. files[f] = << >> /\ buffers[f] = << >>
            BY <2>1 DEF OutInv, Creation
        <3>2. << >> \o << >> = << >>
            BY <1>1, <3>1, ConcatEmptySeq
        <3> QED
            BY <3>1, <3>2
    <2> QED
        BY <2>1, SamePromise DEF OutInv, Creation, Before, Splitting
<1>4. Written' /\ Counted'
    BY DEF Written, Counted, Before, Splitting
<1>5. OutputsArePrefixes'
    <2> SUFFICES ASSUME NEW f \in Outputs
                 PROVE  (f \notin created /\ files'[f] = << >>) \/ (Resolvable /\ Begins(files'[f], f))
        BY SamePromise DEF OutputsArePrefixes
    <2> QED
        BY Prefixes
<1> QED
    BY <1>2, <1>3, <1>4, <1>5 DEF OutInv, Ended

\* A step that writes, counts and ends nothing.
LEMMA OutputsStand ==
    ASSUME OutInv, Creation', pc # "done", pc' # "done",
           UNCHANGED <<records, rules, wanted, files, buffers, summary, exit>>,
           pc' \in Before => pc \in Before,
           pc' \in Splitting => pc \in Splitting /\ next' = next,
           pc' \notin {"flush_rejects", "report"}
    PROVE  OutInv'
<1>1. LinesTyped'
    BY DEF OutInv, LinesTyped, AnyLine, RejectsHeader
<1>2. Written'
    BY SamePromise DEF OutInv, Written, Splitting
<1>3. Counted'
    <2>1. UNCHANGED <<rules, rows_clean, failures_by_column>>
        BY DEF summary
    <2> QED
        BY <2>1, SamePromise DEF OutInv, Counted
<1>4. Ended'
    BY DEF OutInv, Ended
<1> QED
    BY <1>1, <1>2, <1>3, <1>4 DEF OutInv

\* The rules that the n-th record does not pass.
Failed(n) == {k \in DOMAIN rules : ~RulePasses(rules[k], records[n])}

LEMMA FailedTypes ==
    ASSUME IInv, NEW n \in 2..Len(records)
    PROVE  /\ Failed(n) \subseteq Nat /\ IsFiniteSet(Failed(n))
           /\ \A k : k \in Failed(n) <=> <<n, k>> \in Entries("rejects")
<1>1. Len(rules) \in Nat /\ DOMAIN rules = 1..Len(rules)
    BY RuleListsAssumption DEF IInv, TypeOK
<1>2. IsFiniteSet(1..Len(rules))
    BY <1>1, FS_Interval
<1>3. Failed(n) \in SUBSET (1..Len(rules))
    BY <1>1 DEF Failed
<1>4. IsFiniteSet(Failed(n))
    BY <1>2, <1>3, FS_Subset
<1>5. Failed(n) \subseteq Nat
    BY <1>1, <1>3
<1>6. \A k : k \in Failed(n) <=> <<n, k>> \in Entries("rejects")
    BY DEF Failed, Entries
<1> QED
    BY <1>4, <1>5, <1>6

\* The rejects file gets a line for each, and each is counted in its column.
LEMMA LinesOfRow ==
    ASSUME IInv, records # << >>, Resolved, NEW n \in 2..Len(records)
    PROVE  LET lines == RejectLines(records[n])
           IN  /\ lines \in Seq(AnyLine) /\ Len(lines) = Cardinality(Failed(n))
               /\ \A k \in Failed(n) : lines[Rank(Failed(n), k)] = Line("rejects", <<n, k>>)
               /\ \A c : Cardinality({i \in DOMAIN lines : lines[i].column = c})
                            = Cardinality({k \in Failed(n) : rules[k].column = c})
<1> DEFINE K == Failed(n)
           lines == RejectLines(records[n])
<1>1. K \subseteq Nat /\ IsFiniteSet(K)
    BY FailedTypes
<1>2. DOMAIN checks = DOMAIN rules /\ \A k \in DOMAIN rules : checks[k].column = rules[k].column
    BY ProblemsRight
<1>3. Problems(records[n]) = Ascending(K)
    <2>1. K = {k \in DOMAIN checks : Problem(checks[k], records[n])}
        BY ProblemsRight DEF Failed
    <2> QED
        BY <2>1 DEF Problems
<1>4. lines = [i \in 1..Cardinality(K) |-> RejectLine(records[n], Ascending(K)[i])]
    BY <1>3 DEF RejectLines, Ascending
<1>5. ASSUME NEW k \in K PROVE RejectLine(records[n], k) = Line("rejects", <<n, k>>)
    BY <1>2 DEF RejectLine, Line, Failed
<1>6. ASSUME NEW k \in K PROVE RejectLine(records[n], k) \in AnyLine
    <2>1. records[n] \in Records
        BY Types
    <2>2. rules \in RuleLists /\ k \in DOMAIN rules
        BY DEF IInv, TypeOK, Failed
    <2>3. rules[k].column \in UNION {{list[j].column : j \in DOMAIN list} : list \in RuleLists}
        BY <2>2
    <2>4. records[n].line \in {r.line : r \in Records}
        BY <2>1
    <2> QED
        BY <1>2, <2>2, <2>3, <2>4 DEF RejectLine, AnyLine
<1> HIDE DEF K, lines
<1>7. Cardinality(K) \in Nat
    BY <1>1, Ranks
<1>8. ASSUME NEW k \in K
      PROVE  Rank(K, k) \in 1..Cardinality(K) /\ Ascending(K)[Rank(K, k)] = k
    BY <1>1, Ranks
<1>9. ASSUME NEW i \in 1..Cardinality(K) PROVE Ascending(K)[i] \in K
    <2>1. PICK k \in K : Rank(K, k) = i
        BY <1>1, Ranks
    <2> QED
        BY <1>8, <2>1
<1>10. DOMAIN lines = 1..Cardinality(K) /\ Len(lines) = Cardinality(K) /\ lines \in Seq(AnyLine)
    <2>1. \A i \in 1..Cardinality(K) : RejectLine(records[n], Ascending(K)[i]) \in AnyLine
        BY <1>6, <1>9
    <2> QED
        BY <1>4, <1>7, <2>1
<1>11. ASSUME NEW k \in K PROVE lines[Rank(K, k)] = Line("rejects", <<n, k>>)
    BY <1>4, <1>5, <1>8
<1>12. ASSUME NEW c
       PROVE  Cardinality({i \in DOMAIN lines : lines[i].column = c})
                = Cardinality({k \in K : rules[k].column = c})
    <2> DEFINE C == {k \in K : rules[k].column = c}
    <2>1. ASSUME NEW i \in 1..Cardinality(K)
          PROVE  lines[i].column = c <=> Ascending(K)[i] \in C
        <3>1. Ascending(K)[i] \in DOMAIN rules
            BY <1>9 DEF Failed, K
        <3>2. lines[i].column = rules[Ascending(K)[i]].column
            BY <1>2, <1>4, <3>1 DEF RejectLine
        <3> QED
            BY <1>9, <3>2
    <2>2. {i \in DOMAIN lines : lines[i].column = c} = {i \in 1..Cardinality(K) : Ascending(K)[i] \in C}
        BY <1>10, <2>1
    <2>3. C \subseteq K
        OBVIOUS
    <2> HIDE DEF C
    <2>4. Cardinality({i \in 1..Cardinality(K) : Ascending(K)[i] \in C}) = Cardinality(C)
        BY <1>1, <2>3, ListedOf
    <2> QED
        BY <2>2, <2>4 DEF C
<1> QED
    BY <1>10, <1>11, <1>12 DEF K, lines

\* Sets without a common element.
LEMMA Apart ==
    ASSUME NEW A, IsFiniteSet(A), NEW B, IsFiniteSet(B), A \cap B = {}
    PROVE  Cardinality(A \cup B) = Cardinality(A) + Cardinality(B)
<1>1. Cardinality(A) \in Nat /\ Cardinality(B) \in Nat /\ Cardinality(A \cap B) = 0
    BY FS_CardinalityType, FS_EmptySet
<1>2. Cardinality(A \cup B) = Cardinality(A) + Cardinality(B) - Cardinality(A \cap B)
    BY FS_Union
<1> QED
    BY <1>1, <1>2

\* The failures of a column, row by row.
LEMMA CountRow ==
    ASSUME IInv, NEW n \in 2..Len(records), NEW c
    PROVE  Cardinality({e \in EntriesBefore("rejects", n + 1) : rules[e[2]].column = c})
             = Cardinality({e \in EntriesBefore("rejects", n) : rules[e[2]].column = c})
                 + Cardinality({k \in Failed(n) : rules[k].column = c})
<1> DEFINE Of(E) == {e \in E : rules[e[2]].column = c}
           K == {k \in Failed(n) : rules[k].column = c}
           Pairs == {<<n, k>> : k \in K}
<1>0. TypeOK /\ n \in Int /\ "rejects" \in Outputs
    BY Types DEF IInv, Outputs
<1>1. EntriesBefore("rejects", n + 1)
        = EntriesBefore("rejects", n) \cup {<<n, k>> : k \in Failed(n)}
    BY <1>0, FailedTypes, NextRow
<1>2. Of(EntriesBefore("rejects", n + 1)) = Of(EntriesBefore("rejects", n)) \cup Pairs
    <2>1. \A k : <<n, k>>[2] = k
        OBVIOUS
    <2> QED
        BY <1>1, <2>1
<1>3. IsFiniteSet(K)
    <2>1. K \in SUBSET Failed(n)
        OBVIOUS
    <2> QED
        BY <2>1, FailedTypes, FS_Subset
<1>4. IsFiniteSet(Pairs) /\ Cardinality(Pairs) = Cardinality(K)
    <2> HIDE DEF K
    <2> QED
        BY <1>3, PairsOfRow
<1>5. IsFiniteSet(Of(EntriesBefore("rejects", n)))
    <2>1. IsFiniteSet(EntriesBefore("rejects", n))
        BY <1>0, Places
    <2>2. Of(EntriesBefore("rejects", n)) \in SUBSET EntriesBefore("rejects", n)
        OBVIOUS
    <2> QED
        BY <2>1, <2>2, FS_Subset
<1>6. Of(EntriesBefore("rejects", n)) \cap Pairs = {}
    BY <1>0 DEF EntriesBefore
<1> HIDE DEF Of, Pairs, K
<1>7. Cardinality(Of(EntriesBefore("rejects", n + 1)))
        = Cardinality(Of(EntriesBefore("rejects", n))) + Cardinality(K)
    BY <1>2, <1>4, <1>5, <1>6, Apart
<1> QED
    BY <1>7 DEF Of, K

LEMMA InitOut == Init => OutInv
<1> SUFFICES ASSUME Init PROVE OutInv
    OBVIOUS
<1>1. \A f \in Outputs : files[f] = << >> /\ buffers[f] = << >>
    BY DEF Init
<1>2. LinesTyped
    <2>1. << >> \in Seq(AnyLine)
        OBVIOUS
    <2> QED
        BY <1>1, <2>1 DEF LinesTyped
<1>3. Creation
    BY <1>1 DEF Init, Creation, Before, Splitting
<1>4. Written
    BY DEF Init, Written, Splitting
<1>5. Counted
    BY DEF Init, Counted, Before, Splitting
<1> QED
    BY <1>2, <1>3, <1>4, <1>5 DEF Init, OutInv, Ended

\* A row's lines go to the outputs that are wanted.
LEMMA RowWritten ==
    ASSUME IInv, OutInv, pc = "rows", pc' = "rows", next' = next + 1,
           UNCHANGED <<records, rules, wanted, created, files>>,
           NEW K \in [Outputs -> SUBSET Nat], NEW lines \in [Outputs -> Seq(AnyLine)],
           \A f \in Outputs :
               /\ IsFiniteSet(K[f]) /\ \A k : k \in K[f] <=> <<next, k>> \in Entries(f)
               /\ Len(lines[f]) = Cardinality(K[f])
               /\ \A k \in K[f] : lines[f][Rank(K[f], k)] = Line(f, <<next, k>>)
               /\ buffers'[f] = IF f \in wanted THEN buffers[f] \o lines[f] ELSE buffers[f]
    PROVE  LinesTyped' /\ Creation' /\ Written'
<1>0. TypeOK /\ next \in Int /\ wanted \subseteq Outputs
    BY Types DEF IInv, TypeOK
<1>1. \A f \in Outputs :
        files[f] \in Seq(AnyLine) /\ buffers[f] \in Seq(AnyLine) /\ lines[f] \in Seq(AnyLine)
    BY DEF OutInv, LinesTyped
<1>2. created = wanted /\ Creation
    BY DEF OutInv, Creation, Splitting
<1>3. LinesTyped'
    <2> SUFFICES ASSUME NEW f \in Outputs
                 PROVE  files'[f] \in Seq(AnyLine) /\ buffers'[f] \in Seq(AnyLine)
        BY DEF LinesTyped, AnyLine, RejectsHeader
    <2>1. buffers[f] \o lines[f] \in Seq(AnyLine)
        BY <1>1, ConcatProperties
    <2> QED
        BY <1>1, <2>1
<1>4. Creation'
    <2>1. \A f \in Outputs : f \notin created => files'[f] = << >> /\ buffers'[f] = << >>
        BY <1>2 DEF Creation
    <2> QED
        BY <1>2, <2>1, SamePromise DEF Creation, Before, Splitting
<1>5. ASSUME NEW f \in wanted PROVE Whole(files[f] \o buffers'[f], f, next + 1)
    <2>1. f \in Outputs
        BY <1>0
    <2> DEFINE s == files[f] \o buffers[f]
               t == lines[f]
               L == K[f]
    <2>2. s \in Seq(AnyLine) /\ t \in Seq(AnyLine) /\ Whole(s, f, next)
        <3>1. s \in Seq(AnyLine)
            BY <1>1, <2>1, ConcatProperties
        <3> QED
            BY <1>1, <2>1, <3>1 DEF OutInv, Written, Splitting
    <2>3. /\ L \subseteq Nat /\ IsFiniteSet(L) /\ \A k : k \in L <=> <<next, k>> \in Entries(f)
          /\ Len(t) = Cardinality(L) /\ \A k \in L : t[Rank(L, k)] = Line(f, <<next, k>>)
        BY <2>1
    <2>4. files[f] \o buffers'[f] = s \o t
        <3>1. /\ files[f] \in Seq(AnyLine) /\ buffers[f] \in Seq(AnyLine)
              /\ lines[f] \in Seq(AnyLine) /\ buffers'[f] = buffers[f] \o lines[f]
            BY <1>1, <2>1
        <3>2. ASSUME NEW a \in Seq(AnyLine), NEW b \in Seq(AnyLine), NEW c \in Seq(AnyLine)
              PROVE  (a \o b) \o c = a \o (b \o c)
            BY Regroup
        <3>3. (files[f] \o buffers[f]) \o lines[f] = files[f] \o (buffers[f] \o lines[f])
            BY <3>1, <3>2, Zenon
        <3> QED
            BY <3>1, <3>3, Zenon
    <2> HIDE DEF s, t, L
    <2>5. Whole(s \o t, f, next + 1)
        BY <1>0, <2>1, <2>2, <2>3, RowAdded
    <2> QED
        BY <2>4, <2>5
<1>6. Written'
    BY <1>5, SamePromise DEF Written
<1> QED
    BY <1>3, <1>4, <1>6

\* The counts follow the entries of the row.
LEMMA RowCounted ==
    ASSUME IInv, OutInv, pc = "rows", pc' = "rows", next' = next + 1,
           UNCHANGED <<records, rules>>, next \in 2..Len(records),
           NEW K, K \subseteq Nat, IsFiniteSet(K),
           \A k : k \in K <=> <<next, k>> \in Entries("clean"),
           rows_clean' = rows_clean + Cardinality(K),
           DOMAIN failures_by_column' = DOMAIN failures_by_column,
           \A c \in DOMAIN failures_by_column :
               failures_by_column'[c] = failures_by_column[c]
                   + Cardinality({k \in Failed(next) : rules[k].column = c})
    PROVE  Counted'
<1>0. TypeOK /\ next \in Int /\ "clean" \in Outputs
    BY Types DEF IInv, Outputs
<1>1. rows_clean' = Cardinality(EntriesBefore("clean", next + 1))
    <2>1. rows_clean = Cardinality(EntriesBefore("clean", next))
        BY DEF OutInv, Counted, Splitting
    <2> QED
        BY <1>0, <2>1, NextRow
<1>2. ASSUME NEW c \in DOMAIN failures_by_column
      PROVE  failures_by_column'[c]
               = Cardinality({e \in EntriesBefore("rejects", next + 1) : rules[e[2]].column = c})
    <2>1. failures_by_column[c]
            = Cardinality({e \in EntriesBefore("rejects", next) : rules[e[2]].column = c})
        BY DEF OutInv, Counted, Splitting
    <2>2. Cardinality({e \in EntriesBefore("rejects", next + 1) : rules[e[2]].column = c})
            = Cardinality({e \in EntriesBefore("rejects", next) : rules[e[2]].column = c})
                 + Cardinality({k \in Failed(next) : rules[k].column = c})
        BY CountRow, Zenon
    <2> QED
        BY <2>1, <2>2
<1> QED
    BY <1>1, <1>2, SamePromise DEF Counted, Before

LEMMA CountsTyped ==
    ASSUME IInv, OutInv, pc = "rows"
    PROVE  \A c \in DOMAIN failures_by_column : failures_by_column[c] \in Nat
<1> SUFFICES ASSUME NEW c \in DOMAIN failures_by_column PROVE failures_by_column[c] \in Nat
    OBVIOUS
<1>1. TypeOK /\ next \in Int /\ "rejects" \in Outputs
    BY Types DEF IInv, Outputs
<1> DEFINE E == {e \in EntriesBefore("rejects", next) : rules[e[2]].column = c}
<1>2. failures_by_column[c] = Cardinality(E)
    BY DEF OutInv, Counted, Splitting
<1>3. E \in SUBSET EntriesBefore("rejects", next)
    OBVIOUS
<1>4. IsFiniteSet(EntriesBefore("rejects", next))
    BY <1>1, Places
<1> HIDE DEF E
<1> QED
    BY <1>2, <1>3, <1>4, FS_Subset, FS_CardinalityType

LEMMA RankOfOne == Cardinality({0}) = 1 /\ Rank({0}, 0) = 1
<1>1. {j \in {0} : j <= 0} = {0}
    OBVIOUS
<1> QED
    BY <1>1, FS_Singleton DEF Rank

LEMMA CleanRowOut == IInv /\ ExitInv /\ OutInv /\ CleanRow => OutInv'
<1> SUFFICES ASSUME IInv, ExitInv, OutInv, CleanRow PROVE OutInv'
    OBVIOUS
<1>1. /\ pc = "rows" /\ pc' = "rows" /\ exit' = exit /\ exit = "running"
      /\ next <= Len(records) /\ next' = next + 1 /\ ~Rejected(records[next])
      /\ UNCHANGED <<records, rules, wanted, checks, created, files, failures_by_column>>
      /\ rows_clean' = rows_clean + 1
      /\ buffers' = [buffers EXCEPT !["clean"] = Buffered("clean", <<records[next]>>)]
    BY DEF CleanRow, At, options
<1>2. next \in 2..Len(records) /\ records # << >> /\ Resolved
    BY <1>1, Types DEF IInv, RowsAddUp, TypeOK, ExitInv, Working
<1>3. RowPasses(records[next])
    BY <1>1, <1>2, RejectedRightly
<1>4. Failed(next) = {}
    BY <1>3 DEF Failed, RowPasses
<1>5. \A k : k \in {0} <=> <<next, k>> \in Entries("clean")
    BY <1>2, <1>3 DEF Entries
<1>6. \A k : k \in {} <=> <<next, k>> \in Entries("rejects")
    BY <1>2, <1>4, FailedTypes
<1>7. IsFiniteSet({0}) /\ {0} \subseteq Nat
    BY FS_Singleton
<1>8. LinesTyped' /\ Creation' /\ Written'
    <2> DEFINE K == [f \in Outputs |-> IF f = "clean" THEN {0} ELSE {}]
               lines == [f \in Outputs |-> IF f = "clean" THEN <<records[next]>> ELSE << >>]
    <2>1. K \in [Outputs -> SUBSET Nat]
        BY <1>7
    <2>2. lines \in [Outputs -> Seq(AnyLine)]
        <3>1. records[next] \in AnyLine
            BY <1>2, Types DEF AnyLine
        <3>2. <<records[next]>> \in Seq(AnyLine) /\ << >> \in Seq(AnyLine)
            BY <3>1
        <3> QED
            BY <3>2
    <2>3. ASSUME NEW f \in Outputs
          PROVE  /\ IsFiniteSet(K[f]) /\ \A k : k \in K[f] <=> <<next, k>> \in Entries(f)
                 /\ Len(lines[f]) = Cardinality(K[f])
                 /\ \A k \in K[f] : lines[f][Rank(K[f], k)] = Line(f, <<next, k>>)
                 /\ buffers'[f] = IF f \in wanted THEN buffers[f] \o lines[f] ELSE buffers[f]
        <3>1. DOMAIN buffers = Outputs /\ Outputs = {"clean", "rejects"}
            BY DEF IInv, TypeOK, Outputs
        <3>2. CASE f = "clean"
            <4>1. K[f] = {0} /\ lines[f] = <<records[next]>>
                BY <3>2
            <4>2. Len(lines[f]) = 1 /\ lines[f][1] = Line(f, <<next, 0>>)
                BY <3>2, <4>1 DEF Line
            <4>3. buffers'[f] = IF f \in wanted THEN buffers[f] \o lines[f] ELSE buffers[f]
                BY <1>1, <3>1, <3>2, <4>1 DEF Buffered
            <4> HIDE DEF K, lines
            <4> QED
                BY <1>5, <1>7, <3>2, <4>1, <4>2, <4>3, RankOfOne
        <3>3. CASE f = "rejects"
            <4>1. K[f] = {} /\ lines[f] = << >>
                BY <3>3
            <4>2. buffers'[f] = buffers[f] /\ buffers[f] \in Seq(AnyLine)
                BY <1>1, <3>1, <3>3 DEF OutInv, LinesTyped
            <4>3. buffers[f] \o << >> = buffers[f]
                BY <4>2, ConcatEmptySeq
            <4>4. IsFiniteSet({}) /\ Cardinality({}) = 0 /\ Len(<< >>) = 0
                BY FS_EmptySet
            <4> HIDE DEF K, lines
            <4> QED
                BY <1>6, <3>3, <4>1, <4>2, <4>3, <4>4
        <3> QED
            BY <3>1, <3>2, <3>3
    <2> HIDE DEF K, lines
    <2> QED
        BY <1>1, <2>1, <2>2, <2>3, RowWritten
<1>9. Counted'
    <2>1. \A c \in DOMAIN failures_by_column :
            failures_by_column'[c] = failures_by_column[c]
                + Cardinality({k \in Failed(next) : rules[k].column = c})
        <3>1. \A c : {k \in Failed(next) : rules[k].column = c} = {}
            BY <1>4
        <3>2. \A c \in DOMAIN failures_by_column : failures_by_column[c] \in Nat
            BY <1>1, CountsTyped
        <3>3. ASSUME NEW c \in DOMAIN failures_by_column, NEW n, n = 0
              PROVE  failures_by_column'[c] = failures_by_column[c] + n
            BY <1>1, <3>2, <3>3
        <3>4. \A c : Cardinality({k \in Failed(next) : rules[k].column = c}) = 0
            BY <3>1, FS_EmptySet
        <3> QED
            BY <3>3, <3>4, Zenon
    <2>2. rows_clean' = rows_clean + Cardinality({0})
        BY <1>1, RankOfOne
    <2> QED
        BY <1>1, <1>2, <1>5, <1>7, <2>1, <2>2, RowCounted
<1> QED
    BY <1>1, <1>8, <1>9 DEF OutInv, Ended

LEMMA RejectRowOut == IInv /\ ExitInv /\ OutInv /\ RejectRow => OutInv'
<1> SUFFICES ASSUME IInv, ExitInv, OutInv, RejectRow PROVE OutInv'
    OBVIOUS
<1> DEFINE reported == RejectLines(records[next])
<1>1. /\ pc = "rows" /\ pc' = "rows" /\ exit' = exit /\ exit = "running"
      /\ next <= Len(records) /\ next' = next + 1 /\ Rejected(records[next])
      /\ UNCHANGED <<records, rules, wanted, checks, created, files, rows_clean>>
      /\ failures_by_column' = Tally(reported)
      /\ buffers' = [buffers EXCEPT !["rejects"] = Buffered("rejects", reported)]
    BY DEF RejectRow, At, options
<1>2. next \in 2..Len(records) /\ records # << >> /\ Resolved
    BY <1>1, Types DEF IInv, RowsAddUp, TypeOK, ExitInv, Working
<1>3. ~RowPasses(records[next])
    BY <1>1, <1>2, RejectedRightly
<1>4. /\ Failed(next) \subseteq Nat /\ IsFiniteSet(Failed(next))
      /\ \A k : k \in Failed(next) <=> <<next, k>> \in Entries("rejects")
    BY <1>2, FailedTypes
<1>5. \A k : k \in {} <=> <<next, k>> \in Entries("clean")
    BY <1>3 DEF Entries
<1>6. IsFiniteSet({}) /\ Cardinality({}) = 0 /\ {} \subseteq Nat
    BY FS_EmptySet
<1>7. /\ reported \in Seq(AnyLine) /\ Len(reported) = Cardinality(Failed(next))
      /\ \A k \in Failed(next) : reported[Rank(Failed(next), k)] = Line("rejects", <<next, k>>)
      /\ \A c : Cardinality({i \in DOMAIN reported : reported[i].column = c})
                    = Cardinality({k \in Failed(next) : rules[k].column = c})
    BY <1>2, LinesOfRow
<1>8. rows_clean' = rows_clean + Cardinality({})
    BY <1>1, <1>6, Types
<1>9. /\ DOMAIN failures_by_column' = DOMAIN failures_by_column
      /\ \A c \in DOMAIN failures_by_column :
            failures_by_column'[c] = failures_by_column[c]
                + Cardinality({k \in Failed(next) : rules[k].column = c})
    <2>1. failures_by_column' = [c \in DOMAIN failures_by_column |->
            failures_by_column[c] + Cardinality({i \in DOMAIN reported : reported[i].column = c})]
        BY <1>1 DEF Tally
    <2>2. \A c \in DOMAIN failures_by_column : failures_by_column'[c] =
            failures_by_column[c] + Cardinality({i \in DOMAIN reported : reported[i].column = c})
        BY <2>1
    <2> HIDE DEF reported
    <2> QED
        BY <1>7, <2>1, <2>2, Zenon
<1> HIDE DEF reported
<1>10. LinesTyped' /\ Creation' /\ Written'
    <2> DEFINE K == [f \in Outputs |-> IF f = "clean" THEN {} ELSE Failed(next)]
               lines == [f \in Outputs |-> IF f = "clean" THEN << >> ELSE reported]
    <2>1. K \in [Outputs -> SUBSET Nat]
        BY <1>4
    <2>2. lines \in [Outputs -> Seq(AnyLine)]
        <3>1. << >> \in Seq(AnyLine)
            OBVIOUS
        <3> QED
            BY <1>7, <3>1
    <2>3. ASSUME NEW f \in Outputs
          PROVE  /\ IsFiniteSet(K[f]) /\ \A k : k \in K[f] <=> <<next, k>> \in Entries(f)
                 /\ Len(lines[f]) = Cardinality(K[f])
                 /\ \A k \in K[f] : lines[f][Rank(K[f], k)] = Line(f, <<next, k>>)
                 /\ buffers'[f] = IF f \in wanted THEN buffers[f] \o lines[f] ELSE buffers[f]
        <3>1. DOMAIN buffers = Outputs /\ Outputs = {"clean", "rejects"}
            BY DEF IInv, TypeOK, Outputs
        <3>2. CASE f = "rejects"
            <4>1. K[f] = Failed(next) /\ lines[f] = reported
                BY <3>2
            <4>3. buffers'[f] = IF f \in wanted THEN buffers[f] \o lines[f] ELSE buffers[f]
                BY <1>1, <3>1, <3>2, <4>1 DEF Buffered
            <4> HIDE DEF K, lines
            <4> QED
                BY <1>4, <1>7, <3>2, <4>1, <4>3
        <3>3. CASE f = "clean"
            <4>1. K[f] = {} /\ lines[f] = << >>
                BY <3>3
            <4>2. buffers'[f] = buffers[f] /\ buffers[f] \in Seq(AnyLine)
                BY <1>1, <3>1, <3>3 DEF OutInv, LinesTyped
            <4>3. buffers[f] \o << >> = buffers[f]
                BY <4>2, ConcatEmptySeq
            <4>4. Len(<< >>) = 0
                OBVIOUS
            <4> HIDE DEF K, lines
            <4> QED
                BY <1>5, <1>6, <3>3, <4>1, <4>2, <4>3, <4>4
        <3> QED
            BY <3>1, <3>2, <3>3
    <2> HIDE DEF K, lines
    <2> QED
        BY <1>1, <2>1, <2>2, <2>3, RowWritten
<1>11. Counted'
    BY <1>1, <1>2, <1>5, <1>6, <1>8, <1>9, RowCounted
<1> QED
    BY <1>1, <1>10, <1>11 DEF OutInv, Ended

LEMMA WriteHeadersOut == IInv /\ ExitInv /\ OutInv /\ WriteHeaders => OutInv'
<1> SUFFICES ASSUME IInv, ExitInv, OutInv, WriteHeaders PROVE OutInv'
    OBVIOUS
<1>1. /\ pc = "header_rows" /\ pc' = "rows" /\ exit' = exit
      /\ UNCHANGED <<records, rules, wanted, next, created, files, rows_clean, failures_by_column>>
      /\ buffers' = [clean |-> Buffered("clean", <<records[1]>>),
                     rejects |-> Buffered("rejects", <<RejectsHeader>>)]
    BY DEF WriteHeaders, At, options, summary
<1>2. next = 2 /\ records # << >> /\ TypeOK /\ rows_clean = 0
    BY <1>1 DEF IInv, Phase, Before
<1>3. /\ \A f \in Outputs : files[f] = << >> /\ buffers[f] = << >>
      /\ created = wanted /\ (created # {} => Resolvable)
      /\ \A c \in DOMAIN failures_by_column : failures_by_column[c] = 0
    BY <1>1 DEF OutInv, Creation, Before, Counted
<1>4. \A f \in Outputs : <<Heading(f)>> \in Seq(AnyLine) /\ << >> \in Seq(AnyLine)
    <2>1. \A f \in Outputs : Heading(f) \in AnyLine
        BY <1>2, Types DEF Heading, AnyLine
    <2> QED
        BY <2>1
<1>5. \A f \in Outputs : buffers'[f] = IF f \in wanted THEN <<Heading(f)>> ELSE << >>
    <2>1. \A f \in Outputs : buffers'[f] = Buffered(f, <<Heading(f)>>)
        BY <1>1 DEF Outputs, Heading
    <2>2. \A f \in Outputs : << >> \o <<Heading(f)>> = <<Heading(f)>>
        BY <1>4, ConcatEmptySeq
    <2> QED
        BY <1>3, <2>1, <2>2 DEF Buffered
<1>6. LinesTyped'
    BY <1>1, <1>3, <1>4, <1>5 DEF LinesTyped, AnyLine, RejectsHeader
<1>7. Creation'
    BY <1>1, <1>3, <1>5, SamePromise DEF Creation, Before, Splitting
<1>8. ASSUME NEW f \in wanted PROVE Whole(files'[f] \o buffers'[f], f, 2)
    <2>1. f \in Outputs
        BY <1>2 DEF TypeOK
    <2>2. files'[f] = << >> /\ buffers'[f] = <<Heading(f)>>
        BY <1>1, <1>3, <1>5, <2>1
    <2>3. << >> \o <<Heading(f)>> = <<Heading(f)>>
        BY <1>4, <2>1, ConcatEmptySeq
    <2>4. Whole(<<Heading(f)>>, f, 2)
        BY <1>2, <2>1, HeadingOnly
    <2> QED
        BY <2>2, <2>3, <2>4
<1>9. Written'
    BY <1>1, <1>2, <1>8, SamePromise DEF Written
<1>10. Counted'
    <2>1. EntriesBefore("clean", 2) = {} /\ EntriesBefore("rejects", 2) = {}
        BY <1>2, HeadingOnly DEF Outputs
    <2>2. \A c : {e \in EntriesBefore("rejects", 2) : rules[e[2]].column = c} = {}
        BY <2>1
    <2>3. Cardinality({}) = 0
        BY FS_EmptySet
    <2>4. rows_clean' = Cardinality(EntriesBefore("clean", next'))
        BY <1>1, <1>2, <2>1, <2>3
    <2>5. ASSUME NEW c \in DOMAIN failures_by_column'
          PROVE  failures_by_column'[c]
                   = Cardinality({e \in EntriesBefore("rejects", next') : rules[e[2]].column = c})
        <3>1. failures_by_column'[c] = 0 /\ next' = 2
            BY <1>1, <1>2, <1>3, <2>5
        <3> QED
            BY <2>2, <2>3, <3>1
    <2> QED
        BY <1>1, <2>4, <2>5, SamePromise DEF Counted, Before
<1> QED
    BY <1>1, <1>6, <1>7, <1>9, <1>10 DEF OutInv, Ended

\* Lines that only move from the buffer to the disk.
LEMMA LinesMoved ==
    ASSUME IInv, OutInv, pc # "done", pc' # "done", pc' \notin Before \/ pc' = pc,
           UNCHANGED <<records, rules, wanted, created, next, summary, exit>>,
           pc' \in Splitting <=> pc \in Splitting, pc' = "header_rows" <=> pc = "header_rows",
           \A f \in Outputs :
               /\ files'[f] \in Seq(AnyLine) /\ buffers'[f] \in Seq(AnyLine)
               /\ files'[f] \o buffers'[f] = files[f] \o buffers[f]
               /\ files[f] = << >> /\ buffers[f] = << >> => files'[f] = << >> /\ buffers'[f] = << >>,
           pc' \in {"flush_rejects", "report"} => buffers'["clean"] = << >>,
           pc' = "report" => buffers'["rejects"] = << >>
    PROVE  OutInv'
<1>1. LinesTyped'
    BY DEF LinesTyped, AnyLine, RejectsHeader
<1>2. Creation'
    BY SamePromise DEF OutInv, Creation, Before, Splitting
<1>3. Written'
    <2>1. \A f \in wanted : files'[f] \o buffers'[f] = files[f] \o buffers[f]
        BY DEF IInv, TypeOK
    <2> QED
        BY <2>1, SamePromise DEF OutInv, Written
<1>4. Counted'
    <2>1. UNCHANGED <<rules, rows_clean, failures_by_column>>
        BY DEF summary
    <2>2. pc' \in Before => pc \in Before
        OBVIOUS
    <2> QED
        BY <2>1, <2>2, SamePromise DEF OutInv, Counted
<1>5. Ended'
    BY DEF OutInv, Ended
<1> QED
    BY <1>1, <1>2, <1>3, <1>4, <1>5 DEF OutInv

LEMMA SpillOut ==
    ASSUME IInv, ExitInv, OutInv, NEW g \in Outputs, Spill(g)
    PROVE  OutInv'
<1>1. PICK n \in 1..Len(buffers[g]) :
        /\ exit = "running"
        /\ files' = [files EXCEPT ![g] = @ \o SubSeq(buffers[g], 1, n)]
        /\ buffers' = [buffers EXCEPT ![g] = SubSeq(@, n + 1, Len(@))]
        /\ UNCHANGED <<options, next, checks, pc, created, summary, exit>>
    BY DEF Spill
<1>2. \A f \in Outputs : files[f] \in Seq(AnyLine) /\ buffers[f] \in Seq(AnyLine)
    BY DEF OutInv, LinesTyped
<1>3. DOMAIN files = Outputs /\ DOMAIN buffers = Outputs
    BY DEF IInv, TypeOK
<1>4. /\ files'[g] = files[g] \o SubSeq(buffers[g], 1, n)
      /\ buffers'[g] = SubSeq(buffers[g], n + 1, Len(buffers[g]))
    BY <1>1, <1>3
<1>5. /\ files'[g] \in Seq(AnyLine) /\ buffers'[g] \in Seq(AnyLine)
      /\ files'[g] \o buffers'[g] = files[g] \o buffers[g]
    <2>1. ASSUME NEW s \in Seq(AnyLine), NEW t \in Seq(AnyLine), NEW m \in 1..Len(t)
          PROVE  /\ s \o SubSeq(t, 1, m) \in Seq(AnyLine) /\ SubSeq(t, m + 1, Len(t)) \in Seq(AnyLine)
                 /\ (s \o SubSeq(t, 1, m)) \o SubSeq(t, m + 1, Len(t)) = s \o t
        BY SpillSame
    <2> QED
        BY <1>2, <1>4, <2>1, Zenon
<1>6. \A f \in Outputs : f # g => files'[f] = files[f] /\ buffers'[f] = buffers[f]
    BY <1>1, <1>3
<1>7. buffers[g] # << >>
    <2>1. Len(<< >>) = 0
        OBVIOUS
    <2> QED
        BY <2>1
<1>8. pc' = "done" <=> pc = "done"
    BY <1>1
<1>9. pc # "done"
    BY <1>1 DEF OutInv, Ended
<1>10. \A f \in Outputs :
               /\ files'[f] \in Seq(AnyLine) /\ buffers'[f] \in Seq(AnyLine)
               /\ files'[f] \o buffers'[f] = files[f] \o buffers[f]
               /\ files[f] = << >> /\ buffers[f] = << >> => files'[f] = << >> /\ buffers'[f] = << >>
    BY <1>2, <1>5, <1>6, <1>7
<1>11. /\ UNCHANGED <<records, rules, wanted, created, next, summary, exit>> /\ pc' = pc
       /\ "clean" \in Outputs /\ "rejects" \in Outputs
    BY <1>1 DEF options, Outputs
<1>12. /\ pc' \in {"flush_rejects", "report"} => buffers'["clean"] = << >>
       /\ pc' = "report" => buffers'["rejects"] = << >>
    BY <1>6, <1>7, <1>11 DEF OutInv, Written
<1> QED
    BY <1>9, <1>10, <1>11, <1>12, LinesMoved

LEMMA FlushOut ==
    ASSUME IInv, ExitInv, OutInv, FlushClean \/ FlushRejects
    PROVE  OutInv'
<1>1. \A f \in Outputs : files[f] \in Seq(AnyLine) /\ buffers[f] \in Seq(AnyLine)
    BY DEF OutInv, LinesTyped
<1>2. DOMAIN files = Outputs /\ DOMAIN buffers = Outputs
    BY DEF IInv, TypeOK
<1>3. PICK g \in Outputs :
        /\ files' = [files EXCEPT ![g] = @ \o buffers[g]]
        /\ buffers' = [buffers EXCEPT ![g] = << >>]
        /\ \/ g = "clean" /\ pc = "flush_clean" /\ pc' = "flush_rejects"
           \/ g = "rejects" /\ pc = "flush_rejects" /\ pc' = "report"
        /\ UNCHANGED <<options, next, checks, created, summary, exit>>
    BY DEF FlushClean, FlushRejects, Flush, At, Outputs
<1>4. files'[g] = files[g] \o buffers[g] /\ buffers'[g] = << >>
    BY <1>2, <1>3
<1>5. \A f \in Outputs : f # g => files'[f] = files[f] /\ buffers'[f] = buffers[f]
    BY <1>2, <1>3
<1>6. ASSUME NEW s \in Seq(AnyLine), NEW t \in Seq(AnyLine)
      PROVE  /\ s \o t \in Seq(AnyLine) /\ << >> \in Seq(AnyLine) /\ (s \o t) \o << >> = s \o t
             /\ s = << >> /\ t = << >> => s \o t = << >>
    <2>1. s \o t \in Seq(AnyLine) /\ << >> \in Seq(AnyLine)
        BY ConcatProperties
    <2>2. (s \o t) \o << >> = s \o t /\ << >> \o << >> = << >>
        BY <2>1, ConcatEmptySeq
    <2> QED
        BY <2>1, <2>2
<1>7. /\ files'[g] \in Seq(AnyLine) /\ buffers'[g] \in Seq(AnyLine)
      /\ files'[g] \o buffers'[g] = files[g] \o buffers[g]
      /\ files[g] = << >> /\ buffers[g] = << >> => files'[g] = << >> /\ buffers'[g] = << >>
    BY <1>1, <1>4, <1>6, Zenon
<1>8. \A f \in Outputs :
               /\ files'[f] \in Seq(AnyLine) /\ buffers'[f] \in Seq(AnyLine)
               /\ files'[f] \o buffers'[f] = files[f] \o buffers[f]
               /\ files[f] = << >> /\ buffers[f] = << >> => files'[f] = << >> /\ buffers'[f] = << >>
    BY <1>1, <1>5, <1>7
<1>9. /\ UNCHANGED <<records, rules, wanted, created, next, summary, exit>>
      /\ "clean" \in Outputs /\ "rejects" \in Outputs
    BY <1>3 DEF options, Outputs
<1>10. /\ pc' \in {"flush_rejects", "report"} => buffers'["clean"] = << >>
       /\ pc' = "report" => buffers'["rejects"] = << >>
    BY <1>3, <1>4, <1>5, <1>9 DEF OutInv, Written
<1>11. /\ pc # "done" /\ pc' # "done" /\ pc \in Splitting /\ pc' \in Splitting
       /\ pc' \notin Before /\ pc # "header_rows" /\ pc' # "header_rows"
    BY <1>3 DEF Splitting, Before
<1> QED
    BY <1>8, <1>9, <1>10, <1>11, LinesMoved

\* When the report is due, everything promised is on disk and counted.
LEMMA ReportComplete ==
    ASSUME IInv, ExitInv, OutInv, pc = "report"
    PROVE  /\ rows_read = Len(records) - 1
           /\ rows_clean = Cardinality(Entries("clean"))
           /\ \A c \in DOMAIN failures_by_column :
               failures_by_column[c]
                   = Cardinality({e \in Entries("rejects") : rules[e[2]].column = c})
           /\ \A f \in wanted :
               Begins(files[f], f) /\ Len(files[f]) = 1 + Cardinality(Entries(f))
<1>1. next = Len(records) + 1 /\ Len(records) \in Nat /\ TypeOK /\ next \in Int
    BY Types DEF ExitInv, IInv
<1>2. \A f \in Outputs : EntriesBefore(f, next) = Entries(f)
    <2>1. ASSUME NEW f \in Outputs, NEW e \in Entries(f) PROVE e[1] < next
        <3>1. e[1] \in 2..Len(records)
            BY <1>1, EntryTypes
        <3> QED
            BY <1>1, <3>1
    <2> QED
        BY <2>1 DEF EntriesBefore
<1>3. rows_read = Len(records) - 1
    BY <1>1 DEF IInv, RowsAddUp
<1>4. /\ rows_clean = Cardinality(EntriesBefore("clean", next))
      /\ \A c \in DOMAIN failures_by_column :
            failures_by_column[c] =
                Cardinality({e \in EntriesBefore("rejects", next) : rules[e[2]].column = c})
    BY DEF OutInv, Counted, Splitting
<1>5. "clean" \in Outputs /\ "rejects" \in Outputs
    BY DEF Outputs
<1>6. ASSUME NEW f \in wanted
      PROVE  Begins(files[f], f) /\ Len(files[f]) = 1 + Cardinality(Entries(f))
    <2>1. f \in Outputs
        BY <1>1 DEF TypeOK
    <2>2. Whole(files[f] \o buffers[f], f, next) /\ buffers[f] = << >>
        BY <2>1 DEF OutInv, Written, Splitting, Outputs
    <2>3. files[f] \in Seq(AnyLine) /\ << >> \in Seq(AnyLine)
        BY <2>1 DEF OutInv, LinesTyped
    <2>4. files[f] \o << >> = files[f]
        BY <2>3, ConcatEmptySeq
    <2>5. Begins(files[f], f)
        BY <1>1, <2>1, <2>2, <2>3, BeginsPart
    <2>6. Len(files[f]) = 1 + Cardinality(EntriesBefore(f, next))
        BY <2>2, <2>4 DEF Whole
    <2> QED
        BY <1>2, <2>1, <2>5, <2>6
<1> QED
    BY <1>2, <1>3, <1>4, <1>5, <1>6

LEMMA NextOut == IInv /\ ExitInv /\ OutInv /\ [Next]_vars => OutInv'
<1> SUFFICES ASSUME IInv, ExitInv, OutInv, [Next]_vars PROVE OutInv'
    OBVIOUS
<1> USE DEF At, options
<1>1. Creation /\ (exit = "running" <=> pc # "done") /\ wanted \subseteq Outputs
    BY DEF OutInv, Ended, IInv, TypeOK
<1>2. CASE OpenInput
    <2>1. pc = "open" /\ pc' = "header" /\ UNCHANGED <<records, rules, wanted, created, files, buffers, summary, exit>>
        BY <1>2 DEF OpenInput
    <2>2. Creation'
        BY <1>1, <2>1, SamePromise DEF Creation, Before, Splitting
    <2> QED
        BY <2>1, <2>2, OutputsStand DEF Before, Splitting
<1>3. CASE ReadHeader /\ records # << >>
    <2>1. pc = "header" /\ pc' = "resolve" /\ UNCHANGED <<records, rules, wanted, created, files, buffers, summary, exit>>
        BY <1>3 DEF ReadHeader
    <2>2. Creation'
        BY <1>1, <2>1, SamePromise DEF Creation, Before, Splitting
    <2> QED
        BY <2>1, <2>2, OutputsStand DEF Before, Splitting
<1>4. CASE ReadHeader /\ records = << >>
    <2>1. /\ pc = "header" /\ pc' = "done" /\ exit' = "0"
          /\ UNCHANGED <<records, rules, created, files, buffers>>
        BY <1>4 DEF ReadHeader
    <2>2. OutputsComplete'
        BY <1>4, <2>1 DEF OutputsComplete
    <2> QED
        BY <2>1, <2>2, RunEnds
<1>5. CASE Resolve
    <2>1. pc = "resolve" /\ pc' = "create_clean" /\ UNCHANGED <<records, rules, wanted, created, files, buffers, summary, exit>>
        BY <1>5 DEF Resolve
    <2>2. Creation'
        BY <1>1, <2>1, SamePromise DEF Creation, Before, Splitting
    <2> QED
        BY <2>1, <2>2, OutputsStand DEF Before, Splitting
\* The process is over.
<1>6. CASE ResolveFails \/ IoError
    <2>1. Fails /\ pc # "done"
        BY <1>1, <1>6 DEF ResolveFails, IoError
    <2>2. /\ pc' = "done" /\ exit' = "3" /\ UNCHANGED <<records, rules, created>>
          /\ \A f \in Outputs : /\ files'[f] \in {files[f], files[f] \o buffers[f]}
                                /\ buffers'[f] \in {<< >>, buffers[f]}
        BY <2>1 DEF Fails, Dropped
    <2>3. OutputsComplete'
        BY <2>2 DEF OutputsComplete
    <2> QED
        BY <2>1, <2>2, <2>3, RunEnds
<1>7. CASE Killed
    <2>1. /\ pc # "done" /\ pc' = "done" /\ exit' = "killed" /\ UNCHANGED <<records, rules, created>>
          /\ \A f \in Outputs : /\ files'[f] \in {files[f], files[f] \o buffers[f]}
                                /\ buffers'[f] \in {<< >>, buffers[f]}
        BY <1>1, <1>7 DEF Killed
    <2>2. OutputsComplete'
        BY <2>1 DEF OutputsComplete
    <2> QED
        BY <2>1, <2>2, RunEnds
<1>8. CASE Report
    <2>1. /\ pc = "report" /\ pc' = "done" /\ exit' \in {"0", "1"}
          /\ UNCHANGED <<records, rules, wanted, created, files, buffers, summary>>
        BY <1>8 DEF Report
    <2>2. OutputsComplete'
        <3>1. \A f : Entries(f)' = Entries(f)
            BY <2>1, SamePromise
        <3>2. \A s, f : Begins(s, f)' <=> Begins(s, f)
            BY <2>1, SamePromise
        <3>3. UNCHANGED <<rows_read, rows_clean, failures_by_column>>
            BY <2>1 DEF summary
        <3> QED
            BY <2>1, <3>1, <3>2, <3>3, ReportComplete DEF OutputsComplete
    <2> QED
        BY <2>1, <2>2, RunEnds
<1>9. CASE CreateClean \/ CreateRejects
    <2>1. PICK f \in Outputs :
            /\ created' = created \cup ({f} \cap wanted)
            /\ UNCHANGED <<options, next, checks, files, buffers, summary, exit>>
            /\ \/ f = "clean" /\ pc = "create_clean" /\ pc' = "create_rejects"
               \/ f = "rejects" /\ pc = "create_rejects" /\ pc' = "header_rows"
        BY <1>9 DEF CreateClean, CreateRejects, Create, Outputs
    <2>2. Resolvable
        BY <2>1 DEF IInv, Phase, Before, ExitInv, Working, Resolved, Resolvable
    <2>3. \A g \in Outputs : files[g] = << >> /\ buffers[g] = << >>
        BY <1>1, <2>1 DEF Creation, Before
    <2>4. pc' = "create_rejects" => created' = {"clean"} \cap wanted
        BY <1>1, <2>1 DEF Creation, Before
    <2>5. pc' = "header_rows" => created' = wanted
        BY <1>1, <2>1 DEF Creation, Outputs
    <2>6. UNCHANGED <<records, rules, wanted, files, buffers, summary, exit>>
        BY <2>1
    <2>7. Creation'
        BY <2>1, <2>2, <2>3, <2>4, <2>5, <2>6, SamePromise DEF Creation, Before, Splitting
    <2> QED
        BY <2>1, <2>6, <2>7, OutputsStand DEF Before, Splitting
<1>10. CASE EndOfRows
    <2>1. /\ pc = "rows" /\ pc' = "flush_clean" /\ next' = next
          /\ UNCHANGED <<records, rules, wanted, created, files, buffers, summary, exit>>
        BY <1>10 DEF EndOfRows
    <2>2. Creation'
        BY <1>1, <2>1, SamePromise DEF Creation, Before, Splitting
    <2> QED
        BY <2>1, <2>2, OutputsStand DEF Before, Splitting
<1>11. CASE UNCHANGED vars
    <2>1. UNCHANGED <<records, rules, wanted, next, pc, created, files, buffers, rows_read, rows_clean, failures_by_column, exit>>
        BY <1>11 DEF vars, summary
    <2>2. LinesTyped'
        BY <2>1 DEF OutInv, LinesTyped, AnyLine, RejectsHeader
    <2>3. Creation' /\ Written' /\ Counted'
        BY <2>1, SamePromise DEF OutInv, Creation, Written, Counted, Before, Splitting
    <2>4. Ended'
        BY <2>1, SamePromise DEF OutInv, Ended, OutputsArePrefixes, OutputsComplete
    <2> QED
        BY <2>2, <2>3, <2>4 DEF OutInv
<1> QED
    BY <1>2, <1>3, <1>4, <1>5, <1>6, <1>7, <1>8, <1>9, <1>10, <1>11,
       WriteHeadersOut, CleanRowOut, RejectRowOut, FlushOut, SpillOut DEF Next, Stopped

----------------------------------------------------------------------------
\* The inductive invariant holds in every reachable state.
THEOREM Invariance == Spec => []IInv
<1>1. Init => IInv
    BY InitIInv
<1>2. IInv /\ [Next]_vars => IInv'
    BY StepIInv
<1> QED
    BY <1>1, <1>2, PTL DEF Spec

\* Every variable of run() keeps its type, for any file and any rules.
THEOREM GuardTypeCorrect == Spec => []TypeOK
<1>1. IInv => TypeOK
    BY DEF IInv
<1> QED
    BY <1>1, Invariance, PTL

\* No row that fails a rule ever reaches the clean file, in a run that
\* completes, fails or is killed (run(), the split of the rows).
THEOREM OnlyPassingRowsAreClean == Spec => []CleanRowsPass
<1>1. IInv => CleanRowsPass
    BY DEF IInv
<1> QED
    BY <1>1, Invariance, PTL

\* Every row is counted exactly once, and the clean rows counted are the clean
\* rows written (run(), the summary).
THEOREM TheRowsAddUp == Spec => []RowsAddUp
<1>1. IInv => RowsAddUp
    BY DEF IInv
<1> QED
    BY <1>1, Invariance, PTL

\* The exit code a scheduler acts on (main.rs:242-248) is 0 only if every row
\* passed every rule, and 1 only if some row did not, whatever the file.
THEOREM ExitCodesTellTruth == Spec => []ExitTellsTruth
<1>1. Spec => []ExitInv
    BY InitExit, NextExit, Invariance, PTL DEF Spec
<1>2. IInv /\ ExitInv => ExitTellsTruth
    <2> SUFFICES ASSUME IInv, ExitInv PROVE ExitTellsTruth
        OBVIOUS
    <2>1. 2..((Len(records) + 1) - 1) = 2..Len(records)
        BY Types
    <2> QED
        BY <2>1 DEF ExitInv, PassBefore, ExitTellsTruth
<1> QED
    BY <1>1, <1>2, Invariance, PTL

\* The outputs hold what their invariant says in every reachable state.
THEOREM OutputsInvariance == Spec => []OutInv
<1>1. Spec => []ExitInv
    BY InitExit, NextExit, Invariance, PTL DEF Spec
<1> QED
    BY <1>1, InitOut, NextOut, Invariance, PTL DEF Spec

\* No failure and no kill, at any step, leaves an output file that is neither
\* the earlier one nor a beginning of the one this run would write.
THEOREM OutputsAreNeverTorn == Spec => []OutputsArePrefixes
<1>1. IInv /\ OutInv => OutputsArePrefixes
    <2> SUFFICES ASSUME IInv, OutInv PROVE OutputsArePrefixes
        OBVIOUS
    <2>1. CASE pc # "done"
        BY <2>1, Prefixes DEF OutputsArePrefixes
    <2>2. CASE pc = "done"
        BY <2>2 DEF OutInv, Ended
    <2> QED
        BY <2>1, <2>2
<1> QED
    BY <1>1, Invariance, OutputsInvariance, PTL

\* An exit code of 0 or 1 means that both outputs are on disk to the last line,
\* one per passing row and one per row and failed rule, and that the summary's
\* counts are theirs.
THEOREM OutputsAreComplete == Spec => []OutputsComplete
<1>1. OutInv => OutputsComplete
    BY DEF OutInv, Ended, OutputsComplete
<1> QED
    BY <1>1, OutputsInvariance, PTL

----------------------------------------------------------------------------
(* compare.py over the same file. *)

\* The two calendars are one, and so is what they read of parts that are not loose.
LEMMA SameDates ==
    ASSUME NEW parts \in Seq([width : Nat, number : Int \cup {NotANumber}, loose : BOOLEAN]),
           \A i \in DOMAIN parts : ~parts[i].loose
    PROVE  IsDate(parts) <=> ParseIsoDate(parts)
<1> DEFINE y == parts[1].number
           m == parts[2].number
           d == parts[3].number
           leap == (y % 4 = 0 /\ y % 100 # 0) \/ y % 400 = 0
           lengths == <<31, IF leap THEN 29 ELSE 28, 31, 30, 31, 30,
                        31, 31, 30, 31, 30, 31>>
           Shape == /\ Len(parts) = 3
                    /\ parts[1].width = 4 /\ parts[2].width = 2 /\ parts[3].width = 2
                    /\ \A i \in 1..3 : parts[i].number # NotANumber
                    /\ y \in 1000..9999 /\ m \in 1..12
<1>1. IsDate(parts) <=> Shape /\ d \in 1..lengths[m]
    BY DEF IsDate
<1>2. ParseIsoDate(parts) <=> Shape /\ d >= 1 /\ d <= DaysInMonth(y, m)
    <2>1. CASE Len(parts) = 3
        <3>1. /\ ParsePart(parts[1]) = y /\ ParsePart(parts[2]) = m /\ ParsePart(parts[3]) = d
              /\ \A i \in 1..3 : ParsePart(parts[i]) = parts[i].number
            BY <2>1 DEF ParsePart
        <3> HIDE DEF y, m, d
        <3> QED
            BY <2>1, <3>1 DEF ParseIsoDate, MinYear, MaxYear
    <2>2. CASE Len(parts) # 3
        BY <2>2 DEF ParseIsoDate
    <2> QED
        BY <2>1, <2>2
<1>3. Shape => d \in Int
    <2> DEFINE Parts == [width : Nat, number : Int \cup {NotANumber}, loose : BOOLEAN]
    <2>1. parts \in Seq(Parts) /\ (Shape => 3 \in 1..Len(parts) /\ d # NotANumber)
        OBVIOUS
    <2> HIDE DEF Parts, Shape, d
    <2>2. ASSUME Shape PROVE parts[3] \in Parts
        BY <2>1, <2>2, ElementOfSeq
    <2> QED
        BY <2>1, <2>2 DEF Parts, d
<1>4. Shape => lengths[m] = DaysInMonth(y, m) /\ lengths[m] \in Int
    <2>1. leap <=> IsLeapYear(y)
        BY DEF IsLeapYear
    <2> HIDE DEF leap
    <2> SUFFICES ASSUME m \in 1..12 PROVE lengths[m] = DaysInMonth(y, m) /\ lengths[m] \in Int
        OBVIOUS
    <2>2. m \in {1, 2, 3, 4, 5, 6, 7, 8, 9, 10, 11, 12}
        OBVIOUS
    <2> HIDE DEF m, y
    <2>3. CASE m = 2
        BY <2>1, <2>3 DEF DaysInMonth
    <2>4. CASE m \in {1, 3, 5, 7, 8, 10, 12}
        BY <2>4 DEF DaysInMonth
    <2>5. CASE m \in {4, 6, 9, 11}
        BY <2>5 DEF DaysInMonth
    <2> QED
        BY <2>2, <2>3, <2>4, <2>5
<1> HIDE DEF Shape, lengths, d, y, m
<1>5. Shape => (d \in 1..lengths[m] <=> d >= 1 /\ d <= DaysInMonth(y, m))
    BY <1>3, <1>4
<1> QED
    BY <1>1, <1>2, <1>5

\* A plain value passes a test of compare.py where it passes the rule.
LEMMA SameTests ==
    ASSUME NEW v, IsValue(v), Plain(v), NEW k \in DOMAIN BenchRules
    PROVE  Passes(BenchRules[k].rule, v) <=> Check(BenchRules[k].rule, v)
<1>1. /\ Trim(v) = v /\ Strip(v) = v
      /\ v.kind \notin {"empty", "blank", "beyond_i64", "loose", "loose_fraction", "separated"}
    <2>1. v.kind # "blank"
        <3> SUFFICES ASSUME v.kind = "blank" PROVE FALSE
            OBVIOUS
        <3>1. Trim(v) = [v EXCEPT !.kind = "empty", !.length = 0]
            BY DEF Trim
        <3>2. Trim(v).kind = "empty"
            BY <3>1 DEF IsValue
        <3> QED
            BY <3>2 DEF Plain
    <2> QED
        BY <2>1 DEF Trim, Strip, Plain
<1>2. Check(BenchRules[k].rule, v) <=> Satisfies(BenchRules[k].rule, v)
    BY <1>1 DEF Check
<1>3. IsDate(v.parts) <=> ParseIsoDate(v.parts)
    BY SameDates DEF IsValue, Plain
<1>4. IsInt(v) <=> ParsesI64(v)
    BY <1>1 DEF IsInt, ParsesI64
<1>5. IsDec(v) <=> ParsesFinite(v)
    BY <1>1 DEF IsInt, IsDec, ParsesFinite
<1>6. ASSUME NEW rule, rule.name \in {"req", "int", "dec", "date", "enum", "max"}
      PROVE  Passes(rule, v) <=> Satisfies(rule, v)
    <2>1. CASE rule.name = "req"
        BY <1>1, <2>1 DEF Passes, Satisfies
    <2>2. CASE rule.name = "int"
        BY <1>4, <2>2 DEF Passes, Satisfies
    <2>3. CASE rule.name = "dec"
        BY <1>5, <2>3 DEF Passes, Satisfies
    <2>4. CASE rule.name = "date"
        BY <1>3, <2>4 DEF Passes, Satisfies
    <2>5. CASE rule.name = "enum"
        BY <1>1, <2>5 DEF Passes, Satisfies
    <2>6. CASE rule.name = "max"
        BY <1>1, <2>6 DEF Passes, Satisfies
    <2> QED
        BY <1>6, <2>1, <2>2, <2>3, <2>4, <2>5, <2>6
<1>7. BenchRules[k].rule.name \in {"req", "int", "dec", "date", "enum", "max"}
    <2>1. k \in 1..6
        BY DEF BenchRules
    <2>2. k \in {1, 2, 3, 4, 5, 6}
        BY <2>1
    <2> QED
        BY <2>2 DEF BenchRules
<1> QED
    BY <1>2, <1>6, <1>7

\* The two programs agree on a row, when no two columns have one name and every
\* one that is looked up is there.
LEMMA SameVerdict ==
    ASSUME IInv, rules = BenchRules, PlainFile, Resolvable, NEW n \in 2..Len(records)
    PROVE  IsOk(records[n].fields) <=> RowPasses(records[n])
<1> DEFINE fields == records[n].fields
<1>1. records[n] \in Records /\ records[1] \in Records
    BY Types DEF Resolvable
<1>2. /\ DOMAIN fields = 1..Len(fields) /\ DOMAIN Header = 1..Len(Header)
      /\ \A i \in DOMAIN fields : IsValue(fields[i])
      /\ Len(Header) \in Nat
    BY <1>1, TablesAssumption DEF Header
<1>3. Len(fields) = Len(Header) /\ \A i \in DOMAIN Header : Plain(fields[i])
    BY DEF PlainFile
<1>4. ASSUME NEW k \in DOMAIN BenchRules
      PROVE  TestPasses(k, fields) <=> RulePasses(BenchRules[k], records[n])
    <2> DEFINE column == BenchRules[k].column
    <2>1. PICK i \in DOMAIN Header : IsColumn(i, column)
        BY DEF Resolvable
    <2>2. Header[i].text = column /\ \A j \in DOMAIN Header : Header[j].text = column => j = i
        BY <2>1 DEF IsColumn, PlainFile
    <2>3. Names(column)
        BY <2>2 DEF Names
    <2>4. Index(column) = i
        <3>1. \A j \in (i + 1)..Len(Header) : Header[j].text # column
            BY <1>2, <2>2
        <3> HIDE DEF column
        <3> QED
            BY <2>2, <3>1 DEF Index
    <2>5. {j \in DOMAIN Header : Header[j].text = column} = {i}
        BY <2>2
    <2>6. (CHOOSE j \in {i} : \A m \in {i} : j <= m) = i
        BY <1>2
    <2>7. RulePasses(BenchRules[k], records[n]) <=> Check(BenchRules[k].rule, fields[i])
        BY <1>2, <1>3, <2>5, <2>6 DEF RulePasses
    <2>8. Passes(BenchRules[k].rule, fields[i]) <=> Check(BenchRules[k].rule, fields[i])
        BY <1>2, <1>3, SameTests
    <2> QED
        BY <2>3, <2>4, <2>7, <2>8 DEF TestPasses
<1> HIDE DEF fields
<1>5. IsOk(fields) <=> \A k \in DOMAIN BenchRules : RulePasses(BenchRules[k], records[n])
    BY <1>3, <1>4 DEF IsOk
<1> QED
    BY <1>5 DEF RowPasses, fields

FieldsOf(lines) == [k \in DOMAIN lines |-> lines[k].fields]

LEMMA FieldsAppended ==
    ASSUME NEW S, NEW lines \in Seq(S), NEW line \in S
    PROVE  FieldsOf(lines \o <<line>>) = Append(FieldsOf(lines), line.fields)
<1>1. Len(lines) \in Nat /\ DOMAIN lines = 1..Len(lines)
    OBVIOUS
<1>2. /\ DOMAIN (lines \o <<line>>) = 1..(Len(lines) + 1)
      /\ \A i \in 1..Len(lines) : (lines \o <<line>>)[i] = lines[i]
      /\ (lines \o <<line>>)[Len(lines) + 1] = line
    OBVIOUS
<1> DEFINE T == {x.fields : x \in S}
           s == FieldsOf(lines)
<1>3. s \in Seq(T) /\ Len(s) = Len(lines) /\ line.fields \in T
    BY <1>1 DEF FieldsOf
<1>4. \A i \in 1..Len(lines) : s[i] = lines[i].fields
    BY <1>1 DEF FieldsOf
<1> HIDE DEF s, T
<1>5. /\ DOMAIN Append(s, line.fields) = 1..(Len(lines) + 1)
      /\ \A i \in 1..Len(lines) : Append(s, line.fields)[i] = s[i]
      /\ Append(s, line.fields)[Len(lines) + 1] = line.fields
      /\ Append(s, line.fields) = [i \in DOMAIN Append(s, line.fields) |-> Append(s, line.fields)[i]]
    BY <1>1, <1>3
<1>6. \A i \in 1..(Len(lines) + 1) : Append(s, line.fields)[i] = (lines \o <<line>>)[i].fields
    BY <1>1, <1>2, <1>4, <1>5
<1>7. FieldsOf(lines \o <<line>>) = [i \in 1..(Len(lines) + 1) |-> (lines \o <<line>>)[i].fields]
    BY <1>2 DEF FieldsOf
<1> QED
    BY <1>5, <1>6, <1>7 DEF s

\* Every line after the heading is in the place of an entry.
LEMMA EveryPlace ==
    ASSUME TypeOK, NEW f \in Outputs, NEW i \in 2..(1 + Cardinality(Entries(f)))
    PROVE  \E e \in Entries(f) : Place(f, e) = i
<1> DEFINE E == Entries(f)
           C == Cardinality(E)
           Upto(e) == {d \in E : NotAfter(d, e)}
           h == [e \in E |-> Cardinality(Upto(e))]
<1>1. IsFiniteSet(E) /\ C \in Nat
    BY EntryTypes
<1>2. \A e \in E : e[1] \in Int /\ e[2] \in Nat /\ e = <<e[1], e[2]>>
    BY EntryTypes
<1>3. ASSUME NEW e \in E PROVE IsFiniteSet(Upto(e)) /\ Cardinality(Upto(e)) \in 1..C
    <2>1. e \in Upto(e) /\ Upto(e) \in SUBSET E
        BY <1>2 DEF NotAfter
    <2> HIDE DEF E, Upto
    <2>2. IsFiniteSet(Upto(e)) /\ Cardinality(Upto(e)) <= Cardinality(E)
        BY <1>1, <2>1, FS_Subset
    <2>3. Cardinality(Upto(e)) \in Nat /\ Cardinality(Upto(e)) # 0
        BY <2>1, <2>2, FS_CardinalityType, FS_EmptySet
    <2> QED
        BY <1>1, <2>2, <2>3
<1>4. ASSUME NEW d \in E, NEW e \in E, d # e, NotAfter(d, e)
      PROVE  Cardinality(Upto(d)) # Cardinality(Upto(e))
    <2>1. ~NotAfter(e, d)
        BY <1>2, <1>4 DEF NotAfter
    <2>2. \A c \in E : NotAfter(c, d) => NotAfter(c, e)
        BY <1>2, <1>4 DEF NotAfter
    <2>3. NotAfter(e, e)
        BY <1>2 DEF NotAfter
    <2>4. Upto(d) \in SUBSET Upto(e) /\ Upto(d) # Upto(e)
        BY <2>1, <2>2, <2>3
    <2>5. IsFiniteSet(Upto(e))
        BY <1>3
    <2> HIDE DEF Upto, E
    <2> QED
        BY <2>4, <2>5, FS_Subset
<1>5. ASSUME NEW d \in E, NEW e \in E, Cardinality(Upto(d)) = Cardinality(Upto(e)) PROVE d = e
    <2>1. NotAfter(d, e) \/ NotAfter(e, d)
        BY <1>2 DEF NotAfter
    <2> HIDE DEF Upto, E
    <2> QED
        BY <1>4, <1>5, <2>1
<1>6. h \in Injection(E, 1..C)
    <2> HIDE DEF Upto, E, C
    <2>1. h \in [E -> 1..C]
        BY <1>3
    <2> QED
        BY <1>5, <2>1 DEF Injection, IsInjective
<1>7. IsFiniteSet(1..C) /\ Cardinality(1..C) = C
    BY <1>1, FS_Interval
<1>8. h \in Surjection(E, 1..C)
    <2> HIDE DEF h
    <2> QED
        BY <1>1, <1>6, <1>7, FS_Injection
<1>9. PICK e \in E : h[e] = i - 1
    <2>1. i - 1 \in 1..C
        BY <1>1
    <2> HIDE DEF h, C
    <2> QED
        BY <1>8, <2>1 DEF Surjection
<1>10. Place(f, e) = 1 + Cardinality(Upto(e)) /\ Cardinality(Upto(e)) = i - 1
    BY <1>9 DEF Place
<1> QED
    BY <1>1, <1>10

\* Over a plain file, what compare.py has written are the fields of the clean
\* lines of the rows it has read.
CompareInv ==
    /\ compare # "idle" => pc = "done"
    /\ compare \in {"rows", "ended"} => records # << >> /\ row \in 2..(Len(records) + 1)
    /\ compare \in {"rows", "ended"} /\ rules = BenchRules /\ PlainFile /\ Resolvable =>
        \E lines \in Seq(AnyLine) :
            Whole(lines, "clean", row) /\ clean_py = FieldsOf(lines)
    /\ compare = "ended" => row = Len(records) + 1

LEMMA CompareRunsTheGuard == SpecCompare => Spec
<1>1. InitCompare => Init
    BY DEF InitCompare
<1>2. [NextCompare]_<<vars, compareVars>> => [Next]_vars
    BY DEF NextCompare, StartCompare, CompareRow, CompareRaises, EndCompare
<1> QED
    BY <1>1, <1>2, PTL DEF SpecCompare, Spec

\* Once the run is over nothing of it changes.
LEMMA OverIsOver ==
    ASSUME OutInv, pc = "done", [Next]_vars
    PROVE  UNCHANGED vars
<1>1. exit # "running"
    BY DEF OutInv, Ended
<1> QED
    BY <1>1 DEF Next, At, OpenInput, ReadHeader, Resolve, ResolveFails, CreateClean, CreateRejects,
                Create, WriteHeaders, CleanRow, RejectRow, EndOfRows, Spill, FlushClean,
                FlushRejects, Flush, Report, IoError, Killed, Stopped

LEMMA SamePlain ==
    ASSUME UNCHANGED vars
    PROVE  (rules = BenchRules /\ PlainFile /\ Resolvable)' <=> rules = BenchRules /\ PlainFile /\ Resolvable
BY SamePromise DEF vars, options, PlainFile, Header

LEMMA InitCompareInv == InitCompare => CompareInv
BY DEF InitCompare, CompareInv

LEMMA NextCompareInv ==
    IInv /\ OutInv /\ CompareInv /\ [NextCompare]_<<vars, compareVars>> => CompareInv'
<1> SUFFICES ASSUME IInv, OutInv, CompareInv, [NextCompare]_<<vars, compareVars>>
             PROVE  CompareInv'
    OBVIOUS
<1>1. TypeOK /\ "clean" \in Outputs /\ Len(records) \in Nat /\ records \in Seq(Records)
    BY Types DEF IInv, Outputs
<1> DEFINE Checked == rules = BenchRules /\ PlainFile /\ Resolvable
\* compare.py does nothing.
<1>2. ASSUME [Next]_vars, UNCHANGED compareVars PROVE CompareInv'
    <2>1. CASE compare = "idle"
        BY <1>2, <2>1 DEF CompareInv, compareVars
    <2>2. CASE compare # "idle"
        <3>1. UNCHANGED vars
            BY <1>2, <2>2, OverIsOver DEF CompareInv
        <3>2. UNCHANGED <<records, rules, pc>> /\ UNCHANGED <<compare, row, clean_py>>
            BY <1>2, <3>1 DEF vars, options, compareVars
        <3>3. \A s, f, n : Whole(s, f, n)' <=> Whole(s, f, n)
            BY <3>2, SamePromise
        <3>4. Checked' <=> Checked
            BY <3>1, SamePlain
        <3>5. AnyLine' = AnyLine
            BY DEF AnyLine, RejectsHeader
        <3> QED
            BY <3>2, <3>3, <3>4, <3>5 DEF CompareInv, FieldsOf
    <2> QED
        BY <2>1, <2>2
\* A step of compare.py changes nothing of the run.
<1>3. ASSUME UNCHANGED vars
      PROVE  /\ UNCHANGED <<records, rules, pc>> /\ (Checked' <=> Checked) /\ AnyLine' = AnyLine
             /\ \A s, f, n : Whole(s, f, n)' <=> Whole(s, f, n)
    BY <1>3, SamePromise, SamePlain DEF vars, options, AnyLine, RejectsHeader
<1>4. CASE StartCompare
    <2>1. /\ pc = "done" /\ records # << >> /\ UNCHANGED vars
          /\ compare' = "rows" /\ row' = 2 /\ clean_py' = <<Header>>
        BY <1>4 DEF StartCompare
    <2>2. records[1] \in AnyLine /\ Heading("clean") = records[1]
        BY <1>1, <2>1 DEF AnyLine, Heading
    <2>3. <<records[1]>> \in Seq(AnyLine)
        BY <2>2
    <2>4. FieldsOf(<<records[1]>>) = <<Header>>
        BY DEF FieldsOf, Header
    <2>5. Whole(<<records[1]>>, "clean", 2)
        BY <1>1, <2>2, HeadingOnly
    <2>6. row' \in 2..(Len(records) + 1)
        BY <1>1, <2>1
    <2> HIDE DEF Checked
    <2> QED
        BY <1>3, <2>1, <2>3, <2>4, <2>5, <2>6 DEF CompareInv, FieldsOf
<1>5. CASE CompareRow
    <2> DEFINE fields == records[row].fields
    <2>1. /\ compare = "rows" /\ compare' = "rows" /\ row' = row + 1 /\ UNCHANGED vars
          /\ row <= Len(records)
          /\ clean_py' = IF IsOk(fields) THEN Append(clean_py, fields) ELSE clean_py
        BY <1>5 DEF CompareRow
    <2>2. row \in 2..Len(records) /\ records # << >> /\ pc = "done"
        BY <1>1, <2>1 DEF CompareInv
    <2>3. row' \in 2..(Len(records) + 1)
        BY <1>1, <2>1, <2>2
    <2>4. ASSUME Checked
          PROVE  \E lines \in Seq(AnyLine) :
                    Whole(lines, "clean", row + 1) /\ clean_py' = FieldsOf(lines)
        <3>1. PICK lines \in Seq(AnyLine) :
                    Whole(lines, "clean", row) /\ clean_py = FieldsOf(lines)
            BY <2>1, <2>4 DEF CompareInv
        <3>2. IsOk(fields) <=> RowPasses(records[row])
            BY <2>2, <2>4, SameVerdict
        <3>3. row \in Int
            BY <2>2
        <3>4. CASE RowPasses(records[row])
            <4>1. \A k : k \in {0} <=> <<row, k>> \in Entries("clean")
                BY <2>2, <3>4 DEF Entries
            <4>2. records[row] \in AnyLine
                BY <1>1, <2>2 DEF AnyLine
            <4>3. <<records[row]>> \in Seq(AnyLine) /\ Len(<<records[row]>>) = 1
                  /\ <<records[row]>>[1] = Line("clean", <<row, 0>>)
                BY <4>2 DEF Line
            <4>4. IsFiniteSet({0}) /\ {0} \subseteq Nat
                <5>1. IsFiniteSet({0})
                    BY FS_Singleton
                <5> QED
                    BY <5>1
            <4>5. /\ Len(<<records[row]>>) = Cardinality({0})
                  /\ \A k \in {0} : <<records[row]>>[Rank({0}, k)] = Line("clean", <<row, k>>)
                BY <4>3, RankOfOne
            <4>6. Whole(lines \o <<records[row]>>, "clean", row + 1)
                BY <1>1, <3>1, <3>3, <4>1, <4>3, <4>4, <4>5, RowAdded
            <4>7. FieldsOf(lines \o <<records[row]>>) = Append(FieldsOf(lines), records[row].fields)
                BY <4>2, FieldsAppended
            <4>8. lines \o <<records[row]>> \in Seq(AnyLine)
                BY <4>3, ConcatProperties
            <4> QED
                BY <2>1, <3>1, <3>2, <3>4, <4>6, <4>7, <4>8
        <3>5. CASE ~RowPasses(records[row])
            <4>1. \A k : <<row, k>> \notin Entries("clean")
                BY <3>5 DEF Entries
            <4>2. Whole(lines, "clean", row + 1)
                BY <1>1, <3>1, <3>3, <4>1, RowWithout
            <4> QED
                BY <2>1, <3>1, <3>2, <3>5, <4>2
        <3> QED
            BY <3>4, <3>5
    <2> HIDE DEF Checked, fields
    <2> QED
        BY <1>3, <2>1, <2>2, <2>3, <2>4 DEF CompareInv, FieldsOf, Checked
<1>6. CASE CompareRaises
    BY <1>3, <1>6 DEF CompareRaises, CompareInv
<1>7. CASE EndCompare
    <2>1. /\ compare = "rows" /\ compare' = "ended" /\ row > Len(records)
          /\ UNCHANGED <<row, clean_py>> /\ UNCHANGED vars
        BY <1>7 DEF EndCompare
    <2>2. row = Len(records) + 1
        BY <1>1, <2>1 DEF CompareInv
    <2> HIDE DEF Checked
    <2> QED
        BY <1>3, <2>1, <2>2 DEF CompareInv, FieldsOf, Checked
<1>8. CASE UNCHANGED <<vars, compareVars>>
    BY <1>2, <1>8
<1> QED
    BY <1>2, <1>4, <1>5, <1>6, <1>7, <1>8 DEF NextCompare
\* Whatever holds of every entry determines the lines.
LEMMA SameLines ==
    ASSUME TypeOK, NEW f \in Outputs, NEW s \in Seq(AnyLine), NEW t \in Seq(AnyLine),
           Len(s) = 1 + Cardinality(Entries(f)), Len(t) = Len(s),
           Begins(s, f), Begins(t, f)
    PROVE  s = t
<1>1. Len(s) \in Nat /\ Cardinality(Entries(f)) \in Nat /\ Len(s) >= 1
    BY EntryTypes
<1>2. ASSUME NEW i \in 1..Len(s) PROVE s[i] = t[i]
    <2>1. CASE i = 1
        <3>1. s # << >> /\ t # << >>
            BY <1>1
        <3> QED
            BY <2>1, <3>1 DEF Begins
    <2>2. CASE i # 1
        <3>1. i \in 2..(1 + Cardinality(Entries(f)))
            BY <1>1, <2>2
        <3>2. PICK e \in Entries(f) : Place(f, e) = i
            BY <3>1, EveryPlace
        <3>3. i <= Len(s) /\ i <= Len(t)
            BY <1>1
        <3> QED
            BY <3>2, <3>3 DEF Begins
    <2> QED
        BY <2>1, <2>2
<1> QED
    BY <1>2, SeqEqual

\* When both programs end, and every row of the file is as wide as its header,
\* with no empty cell and no value that only Python reads as a number or strips, the
\* two clean files are the same, whatever the rows (cross_check.sh:2-4).
THEOREM CleanFilesAgree == SpecCompare => []CrossCheck
<1>1. SpecCompare => []IInv
    BY CompareRunsTheGuard, Invariance, PTL
<1>2. SpecCompare => []OutInv
    BY CompareRunsTheGuard, OutputsInvariance, PTL
<1>3. SpecCompare => []CompareInv
    BY <1>1, <1>2, InitCompareInv, NextCompareInv, PTL DEF SpecCompare
<1>4. SpecCompare => []OutputsArePrefixes /\ []OutputsComplete
    BY CompareRunsTheGuard, OutputsAreNeverTorn, OutputsAreComplete, PTL
<1>5. IInv /\ OutInv /\ CompareInv /\ OutputsArePrefixes /\ OutputsComplete => CrossCheck
    <2> SUFFICES ASSUME IInv, OutInv, CompareInv, OutputsArePrefixes, OutputsComplete,
                        rules = BenchRules, exit \in {"0", "1"}, "clean" \in wanted,
                        compare = "ended", PlainFile
                 PROVE  clean_py = FieldsOf(files["clean"])
        BY DEF CrossCheck, FieldsOf
    <2>1. TypeOK /\ "clean" \in Outputs /\ Len(records) \in Nat
        BY Types DEF IInv, Outputs
    <2>2. records # << >> /\ row = Len(records) + 1
        BY DEF CompareInv
    <2>3. Begins(files["clean"], "clean") /\ Len(files["clean"]) = 1 + Cardinality(Entries("clean"))
        BY <2>2 DEF OutputsComplete
    <2>4. files["clean"] \in Seq(AnyLine) /\ Cardinality(Entries("clean")) \in Nat
        BY <2>1, EntryTypes DEF OutInv, LinesTyped
    <2>5. Resolvable
        <3>1. files["clean"] # << >>
            <4>1. Len(<< >>) = 0
                OBVIOUS
            <4> QED
                BY <2>3, <2>4, <4>1
        <3> QED
            BY <2>1, <3>1 DEF OutputsArePrefixes
    <2>6. PICK lines \in Seq(AnyLine) : Whole(lines, "clean", row) /\ clean_py = FieldsOf(lines)
        BY <2>5 DEF CompareInv
    <2>7. EntriesBefore("clean", row) = Entries("clean")
        <3>1. ASSUME NEW e \in Entries("clean") PROVE e[1] < row
            <4>1. e[1] \in 2..Len(records)
                BY <2>1, EntryTypes
            <4> QED
                BY <2>1, <2>2, <4>1
        <3> QED
            BY <3>1 DEF EntriesBefore
    <2>8. Begins(lines, "clean") /\ Len(lines) = 1 + Cardinality(Entries("clean"))
        BY <2>4, <2>6, <2>7 DEF Whole, Begins
    <2>9. lines = files["clean"]
        BY <2>1, <2>3, <2>4, <2>8, SameLines
    <2> QED
        BY <2>6, <2>9
<1> QED
    BY <1>1, <1>2, <1>3, <1>4, <1>5, PTL
=============================================================================
