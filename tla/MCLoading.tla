------------------------------ MODULE MCLoading ------------------------------
(***************************************************************************)
(* Loading, one part of the file varied at a time: every file missing, or  *)
(* any two there; all state machines of up to three states over three      *)
(* names with one or two triggers each, which may also name a state that   *)
(* is described nowhere, or not parse; up to two fields with bits at and   *)
(* past the limits, one name twice, and good and bad enumerators; and      *)
(* filters of up to three stages whose decimations wrap at 128.            *)
(***************************************************************************)
EXTENDS Loading

StateNames == {"reset", "idle", "pulse"}
AllNames == StateNames \cup {"typo"}
ResetOnly == {"reset"}

TargetLists ==
    {<<>>} \cup {<<t>> : t \in AllNames \cup {Malformed}}
    \cup {<<"idle", "reset">>, <<"pulse", "typo">>, <<"typo", "pulse">>}
State == [name : StateNames, targets : TargetLists]
Short == {s \in State : Len(s.targets) = 1 /\ s.targets[1] # Malformed}
Machines == UNION {[1 .. m -> State] : m \in 0 .. 2}
    \cup {<<a, b, c>> : a \in {s \in State : s.name # "pulse" /\ Len(s.targets) = 2},
                        b \in Short, c \in Short}
OneMachine == <<[name |-> "reset", targets |-> <<"reset">>]>>

FieldOf(name, first, last, enum, default) ==
    [name |-> name, start_bit |-> first, end_bit |-> last, enum |-> enum, default |-> default]
GoodFields ==
    {FieldOf(name, 0, last, enum, "zero") :
        name \in {"unit", "state"}, last \in {0, 63}, enum \in {<<>>, <<"on">>, <<"on", "off">>}}
BadFields ==
    {FieldOf("unit", 0, 64, <<>>, "zero"), FieldOf("unit", 2, 1, <<>>, "zero"),
     FieldOf("unit", -1, -1, <<>>, "zero"), FieldOf("unit", -1, -1, <<"on">>, "zero"),
     FieldOf("unit", -2, -1, <<>>, "zero"),
     FieldOf("unit", 5, 6, <<"on", "on">>, "zero"), FieldOf("unit", 5, 6, <<Malformed>>, "zero"),
     FieldOf("unit", 5, 6, <<>>, Malformed), Malformed}
FieldLists == UNION {[1 .. m -> GoodFields \cup BadFields] : m \in 0 .. 2}
    \cup [1 .. 3 -> {FieldOf(name, 1, 1, <<>>, default) :
                         name \in {"unit", "state"}, default \in {"zero", "one"}}]
OneField == <<FieldOf("unit", 0, 3, <<>>, "zero")>>

StageOf(decimation, taps) == [decimation |-> decimation, num_taps |-> taps]
StageSet == {StageOf(d, 2) : d \in {0, 1, 2, 3, 16, 126, 127}} \cup {StageOf(2, 0), Malformed}
StageLists == UNION {[1 .. m -> StageSet] : m \in 0 .. 3}

Bare == {Candidate(1, 1)}
Trees == {{}} \cup {{a, b} : a \in Candidates, b \in Candidates}

File(what, where, env, wrong, machine, list, filter) ==
    [kind |-> what, tree |-> where, home |-> env, bad |-> wrong,
     states |-> machine, fields |-> list, stages |-> filter]

AllFiles ==
    {File("device", where, env, "none", <<>>, <<>>, <<>>) : where \in Trees, env \in BOOLEAN}
    \cup {File("device", Bare, TRUE, wrong, OneMachine, OneField, <<>>) :
             wrong \in {"none", "root", "name", "description", "data"}}
    \cup {File("device", Bare, TRUE, "none", machine, OneField, <<>>) : machine \in Machines}
    \cup {File("device", Bare, TRUE, "none", OneMachine, list, <<>>) : list \in FieldLists}
    \cup {File("filter", Bare, TRUE, wrong, <<>>, <<>>, <<StageOf(2, 2)>>) :
             wrong \in {"none", "root"}}
    \cup {File("filter", Bare, TRUE, "none", <<>>, <<>>, filter) : filter \in StageLists}
===============================================================================
