------------------------------ MODULE HdrParse ------------------------------
(***************************************************************************)
(* c-memory-safety/fixed/hdrparse.c: main's loop over the lines of a       *)
(* header block, with the heap it keeps the values in.  A pointer is a     *)
(* block or NULL; malloc may return any block that is not in use, or       *)
(* fail; what a freed block holds is Garbage.  undefined records that the  *)
(* program used a block it does not own, freed one twice or wrote outside. *)
(*                                                                         *)
(* A line is what one fgets returns: its key, and its value as trim left   *)
(* it.                                                                     *)
(***************************************************************************)
EXTENDS Integers, Sequences

CONSTANTS
    Blocks,         \* what malloc may return
    NULL,
    Garbage,        \* the contents of memory nobody wrote
    Values, NotANumber, NAME_LEN, TAG_LEN, MaxRoles, Anonymous, Untagged

ASSUME HeapAssumption ==
    NULL \notin Blocks /\ Garbage \notin Blocks /\ NULL # Garbage

ASSUME LimitsAssumption ==
    /\ NAME_LEN \in Nat /\ TAG_LEN \in Nat /\ MaxRoles \in Nat
    /\ \A v \in Values : v.length \in Nat
    /\ NotANumber \notin Int
    /\ Anonymous.length < NAME_LEN /\ Untagged.length < TAG_LEN
    /\ {Anonymous, Untagged} \subseteq Values

ASSUME ContentsAssumption ==
    /\ NULL \notin Values /\ Garbage \notin Values
    /\ NULL \notin Seq(Values \cup {Garbage})

Pointers == {"name", "tag", "roles", "note", "first_note"}

VARIABLES
    h,              \* the pointers of struct header
    roles_declared, roles_seen,
    slots,          \* the array h.roles points at, from 1
    live,           \* the blocks malloc has returned and free has not taken back
    text,           \* what each block holds as a string
    pc,             \* "start", "lines", "cleanup", or the exit: "failed", "done"
    printed,        \* what was printed
    undefined       \* something undefined has happened

heap == <<live, text>>
roles == <<roles_declared, roles_seen, slots>>
vars == <<h, roles, heap, pc, printed, undefined>>

Init ==
    /\ h = [p \in Pointers |-> NULL]
    /\ roles_declared = 0 /\ roles_seen = 0 /\ slots = << >>
    /\ live = {} /\ text = [b \in Blocks |-> Garbage]
    /\ pc = "start"
    /\ printed = NULL
    /\ undefined = FALSE

----------------------------------------------------------------------------
Breaks(condition) == undefined' = (undefined \/ condition)

\* The pointers in S are passed to free one after another; NULL is ignored.
Live(S) == live \ S
BadFree(S) == ~(S \ {NULL} \subseteq live)

\* The text of the blocks when S is freed, and block b is then given value v.
Written(S, b, v) ==
    [x \in Blocks |-> IF x = b THEN v ELSE IF x \in S THEN Garbage ELSE text[x]]

\* exit(1): fail(), or malloc returned NULL.
Fails ==
    /\ pc' = "failed"
    /\ UNCHANGED <<h, roles, heap, printed, undefined>>

\* The two buffers every run starts with.
Start ==
    /\ pc = "start"
    /\ \E n \in Blocks : \E t \in Blocks \ {n} :
        /\ h' = [h EXCEPT !["name"] = n, !["tag"] = t]
        /\ live' = {n, t}
        /\ text' = [text EXCEPT ![n] = Anonymous, ![t] = Untagged]
    /\ pc' = "lines"
    /\ UNCHANGED <<roles, printed, undefined>>

\* A plausible slip: the limit forgets the terminator.
CopyBoundedOffByOne(p, cap, v) ==
    /\ pc = "lines" /\ v.length <= cap
    /\ Breaks(h[p] \notin live \/ v.length + 1 > cap)
    /\ text' = [text EXCEPT ![h[p]] = v]
    /\ UNCHANGED <<h, roles, live, pc, printed>>
\* copy_bounded into the buffer of cap bytes that p points at
CopyBounded(p, cap, v) ==
    /\ pc = "lines" /\ v.length < cap
    /\ Breaks(h[p] \notin live \/ v.length + 1 > cap)
    /\ text' = [text EXCEPT ![h[p]] = v]
    /\ UNCHANGED <<h, roles, live, pc, printed>>

Name(v) == CopyBounded("name", NAME_LEN, v)
Tag(v) == CopyBounded("tag", TAG_LEN, v)

TooLong(v) == pc = "lines" /\ (v.length >= NAME_LEN \/ v.length >= TAG_LEN) /\ Fails

\* parse_count accepts the value.
IsCount(v) == v.count # NotANumber /\ v.count \in 0..MaxRoles

RoleBlocks == {slots[i] : i \in 1..roles_seen}
HeaderBlocks == {h[p] : p \in Pointers} \ {NULL}

\* The loop over h.roles frees a block twice, or reads past its array.
BadRoles ==
    \/ \E i, j \in 1..roles_seen : i # j /\ slots[i] = slots[j]
    \/ roles_seen > Len(slots)
    \/ roles_seen > 0 /\ h["roles"] \notin live

\* A plausible slip: the roles of the list before are not freed with it.
RolesLeaked(v) ==
    /\ pc = "lines" /\ IsCount(v)
    /\ \E b \in Blocks \ Live({h["roles"]}) :
        /\ live' = Live({h["roles"]}) \cup {b}
        /\ text' = Written({h["roles"]}, b, Garbage)
        /\ h' = [h EXCEPT !["roles"] = b]
    /\ Breaks(BadFree({h["roles"]}))
    /\ roles_declared' = v.count /\ roles_seen' = 0
    /\ slots' = [i \in 1..(v.count + 1) |-> Garbage]
    /\ UNCHANGED <<pc, printed>>
\* A new list of roles: the old one goes, and one slot more than the count comes.
Roles(v) ==
    LET freed == RoleBlocks \cup {h["roles"]}
    IN  /\ pc = "lines" /\ IsCount(v)
        /\ \E b \in Blocks \ Live(freed) :
            /\ live' = Live(freed) \cup {b}
            /\ text' = Written(freed, b, Garbage)
            /\ h' = [h EXCEPT !["roles"] = b]
        /\ Breaks(BadFree(freed) \/ BadRoles)
        /\ roles_declared' = v.count /\ roles_seen' = 0
        /\ slots' = [i \in 1..(v.count + 1) |-> Garbage]
        /\ UNCHANGED <<pc, printed>>

NotACount(v) == pc = "lines" /\ ~IsCount(v) /\ Fails

Role(v) ==
    /\ pc = "lines" /\ h["roles"] # NULL /\ roles_seen < roles_declared
    /\ \E b \in Blocks \ live :
        /\ live' = live \cup {b} /\ text' = Written({}, b, v)
        /\ slots' = [slots EXCEPT ![roles_seen + 1] = b]
    /\ Breaks(roles_seen + 1 > Len(slots) \/ h["roles"] \notin live)
    /\ roles_seen' = roles_seen + 1
    /\ UNCHANGED <<h, roles_declared, pc, printed>>

UnexpectedRole == pc = "lines" /\ (h["roles"] = NULL \/ roles_seen >= roles_declared) /\ Fails

\* A plausible slip: the first note is not a copy.
NoteAliased(v) ==
    /\ pc = "lines"
    /\ \E b \in Blocks \ Live({h["note"]}) :
        /\ live' = Live({h["note"]}) \cup {b}
        /\ text' = Written({h["note"]}, b, v)
        /\ h' = [h EXCEPT !["note"] = b,
                          !["first_note"] = IF @ = NULL THEN b ELSE @]
    /\ Breaks(BadFree({h["note"]}))
    /\ UNCHANGED <<roles, pc, printed>>
\* The last note, and a copy of the first.
Note(v) ==
    /\ pc = "lines"
    /\ \E b \in Blocks \ Live({h["note"]}) :
        IF h["first_note"] # NULL
        THEN /\ live' = Live({h["note"]}) \cup {b}
             /\ text' = Written({h["note"]}, b, v)
             /\ h' = [h EXCEPT !["note"] = b]
        ELSE \E c \in Blocks \ (Live({h["note"]}) \cup {b}) :
             /\ live' = Live({h["note"]}) \cup {b, c}
             /\ text' = [Written({h["note"]}, b, v) EXCEPT ![c] = v]
             /\ h' = [h EXCEPT !["note"] = b, !["first_note"] = c]
    /\ Breaks(BadFree({h["note"]}))
    /\ UNCHANGED <<roles, pc, printed>>

\* malloc or strdup returned NULL; what was freed before the call stays freed.
OutOfMemory ==
    /\ pc \in {"start", "lines"}
    /\ \E freed \in {{}, RoleBlocks \cup {h["roles"]}, {h["note"]}} :
        /\ live' = Live(freed) /\ text' = Written(freed, NULL, Garbage)
        /\ Breaks(BadFree(freed))
    /\ pc' = "failed"
    /\ UNCHANGED <<h, roles, printed>>

----------------------------------------------------------------------------
Read(b) == IF b = NULL THEN NULL ELSE text[b]

\* The report; reading a block that is not live is undefined.
Report ==
    /\ pc = "lines"
    /\ printed' =
        [name |-> Read(h["name"]), tag |-> Read(h["tag"]), declared |-> roles_declared,
         roles |-> IF h["roles"] = NULL THEN NULL
                   ELSE [i \in 1..roles_seen |-> Read(slots[i])],
         note |-> Read(h["note"]), first |-> Read(h["first_note"])]
    /\ Breaks(BadFree(RoleBlocks \cup HeaderBlocks) \/ BadRoles)
    /\ pc' = "cleanup"
    /\ UNCHANGED <<h, roles, heap>>

\* Everything is freed at the end.
Cleanup ==
    LET freed == RoleBlocks \cup HeaderBlocks
    IN  /\ pc = "cleanup"
        /\ live' = Live(freed) /\ text' = Written(freed, NULL, Garbage)
        /\ Breaks(\/ BadFree(freed) \/ BadRoles
                  \/ \E p, q \in Pointers : p # q /\ h[p] # NULL /\ h[p] = h[q])
        /\ pc' = "done"
        /\ UNCHANGED <<h, roles, printed>>

Exited == pc \in {"failed", "done"} /\ UNCHANGED vars

Next ==
    \/ Start \/ UnexpectedRole \/ OutOfMemory \/ Report \/ Cleanup \/ Exited
    \/ \E v \in Values :
        \/ Name(v) \/ Tag(v) \/ TooLong(v) \/ Roles(v) \/ NotACount(v) \/ Role(v) \/ Note(v)

Spec == Init /\ [][Next]_vars
----------------------------------------------------------------------------
TypeOK ==
    /\ h \in [Pointers -> Blocks \cup {NULL}]
    /\ roles_declared \in 0..MaxRoles /\ roles_seen \in 0..roles_declared
    /\ slots \in Seq(Blocks \cup {Garbage})
    /\ live \subseteq Blocks /\ text \in [Blocks -> Values \cup {Garbage}]
    /\ pc \in {"start", "lines", "cleanup", "failed", "done"}
    /\ undefined \in BOOLEAN

\* Nothing undefined ever happens: no use or second free of a freed block, no
\* write past a buffer or past the array of roles (README, the defects 1 to 4).
Defined == ~undefined

\* Between two lines the blocks in use are exactly the ones the header points at,
\* each held by one pointer; and none is left at the end (the sanitizer's leak
\* check, run_tests.sh).
Owned ==
    /\ pc \in {"lines", "cleanup"} =>
        /\ live = RoleBlocks \cup HeaderBlocks
        /\ \A p, q \in Pointers : h[p] = h[q] /\ h[p] # NULL => p = q
        /\ \A p \in Pointers : h[p] \notin RoleBlocks
    /\ pc = "done" => live = {}

\* The program on a heap does what it would with values alone.
Block == INSTANCE HdrBlock WITH
    Nothing <- NULL,
    name <- IF pc = "lines" THEN Read(h["name"]) ELSE NULL,
    tag <- IF pc = "lines" THEN Read(h["tag"]) ELSE NULL,
    declared <- IF pc = "lines" THEN roles_declared ELSE 0,
    roles <- IF pc = "lines" /\ h["roles"] # NULL
             THEN [i \in 1..roles_seen |-> Read(slots[i])] ELSE NULL,
    note <- IF pc = "lines" THEN Read(h["note"]) ELSE NULL,
    first <- IF pc = "lines" THEN Read(h["first_note"]) ELSE NULL,
    status <- CASE pc = "start" -> "starting" [] pc = "lines" -> "reading"
                [] pc = "failed" -> "failed" [] OTHER -> "printed",
    printed <- printed

BlockSpec == Block!Spec
=============================================================================
