------------------------------ MODULE HdrBlock ------------------------------
(***************************************************************************)
(* What hdrparse promises, without a heap: the values of a header block    *)
(* are kept as they were read, and either all of them are printed or the   *)
(* run fails.                                                              *)
(***************************************************************************)
EXTENDS Integers, Sequences

CONSTANTS
    Values,         \* the values of a line: [text, length, count]
    NotANumber,     \* strtol did not consume the whole value
    NAME_LEN, TAG_LEN, MaxRoles,
    Anonymous, Untagged,        \* the values the name and the tag start with
    Nothing         \* a pointer that is NULL, and what is forgotten at the end

VARIABLES name, tag, declared, roles, note, first, status, printed

fields == <<name, tag, declared, roles, note, first>>
vars == <<fields, status, printed>>

Blank ==
    /\ name = Nothing /\ tag = Nothing /\ declared = 0
    /\ roles = Nothing /\ note = Nothing /\ first = Nothing

Forget ==
    /\ name' = Nothing /\ tag' = Nothing /\ declared' = 0
    /\ roles' = Nothing /\ note' = Nothing /\ first' = Nothing

Init == Blank /\ status = "starting" /\ printed = Nothing

Start ==
    /\ status = "starting" /\ status' = "reading"
    /\ name' = Anonymous /\ tag' = Untagged /\ declared' = 0
    /\ roles' = Nothing /\ note' = Nothing /\ first' = Nothing
    /\ UNCHANGED printed

Reading == status = "reading" /\ UNCHANGED <<status, printed>>

Name(v) ==
    /\ Reading /\ v.length < NAME_LEN /\ name' = v
    /\ UNCHANGED <<tag, declared, roles, note, first>>

Tag(v) ==
    /\ Reading /\ v.length < TAG_LEN /\ tag' = v
    /\ UNCHANGED <<name, declared, roles, note, first>>

Roles(v) ==
    /\ Reading /\ v.count \in 0..MaxRoles
    /\ declared' = v.count /\ roles' = << >>
    /\ UNCHANGED <<name, tag, note, first>>

Role(v) ==
    /\ Reading /\ roles # Nothing /\ Len(roles) < declared
    /\ roles' = Append(roles, v)
    /\ UNCHANGED <<name, tag, declared, note, first>>

Note(v) ==
    /\ Reading /\ note' = v
    /\ first' = (IF first = Nothing THEN v ELSE first)
    /\ UNCHANGED <<name, tag, declared, roles>>

Fail ==
    /\ status \in {"starting", "reading"} /\ status' = "failed"
    /\ Forget /\ UNCHANGED printed

Report ==
    /\ status = "reading" /\ status' = "printed"
    /\ printed' = [name |-> name, tag |-> tag, declared |-> declared, roles |-> roles,
                   note |-> note, first |-> first]
    /\ Forget

Next ==
    \/ Start \/ Fail \/ Report
    \/ \E v \in Values : Name(v) \/ Tag(v) \/ Roles(v) \/ Role(v) \/ Note(v)

Spec == Init /\ [][Next]_vars
=============================================================================
