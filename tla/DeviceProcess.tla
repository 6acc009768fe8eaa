---------------------------- MODULE DeviceProcess ----------------------------
(***************************************************************************)
(* device_process() of src/src/device.c over sm_process() of               *)
(* src/src/state_machine.c, formatter_data_to_keyval() of                  *)
(* src/src/formatter.c and the list of src/src/keyval_list.c: the receiver *)
(* hands over one buffer of thresholded samples after the other, every     *)
(* buffer is cut into sm_process() calls that end early when output is     *)
(* ready or an error resets the machine, and every message is appended to  *)
(* the list of values, one element per field, where memory may run out.    *)
(* One Step action is one process() call, one AppendEntry one              *)
(* keyval_list_append(); the others are the entry to device_process(), its *)
(* loop and the returns.  The state machine, the result of process() and   *)
(* the bits heard are those of SmReceive.                                  *)
(***************************************************************************)
EXTENDS SmReceive, KeyvalList, SequencesExt

CONSTANTS
    Buffers,    \* the sample buffers that can be handed over
    Fields,     \* the names of f->fields, in order
    Timestamped \* whether f->ts_mode asks for a timestamp

Timestamp == "Decode Timestamp"    \* ts_key

ASSUME BuffersAssumption == Buffers \subseteq Seq(BOOLEAN)
ASSUME FieldsAssumption ==
    /\ Timestamped \in BOOLEAN
    /\ Fields \in Seq(Range(Fields)) /\ Timestamp \notin Range(Fields)

VARIABLES
    pc,         \* the function that runs: "caller", "device_process",
                \* "sm_process", "formatter_data_to_keyval"
    data,       \* the samples of this buffer
    proc,       \* what sm_process() returned last, in device_process()
    i,          \* samples taken by the current sm_process() call
    total_proc, \* samples taken by the calls before it
    values,     \* the elements of d->values: [msg, key, data]
    entry,      \* the next element of this message
    failed,     \* history: an append failed in this buffer
    announced,  \* history: the buffer at each OUTPUT_READY of this buffer
    seen        \* history: the samples of this buffer process() was given

vars == <<pc, data, proc, i, total_proc, values, entry, failed, announced, seen,
          rxVars, listVars>>
callVars == <<rxVars, announced, seen>>
formatVars == <<values, entry, failed, listVars>>

Init ==
    /\ pc = "caller"
    /\ data = <<>>
    /\ RxInit
    /\ proc = "no_output"
    /\ i = 0
    /\ total_proc = 0
    /\ values = <<>>
    /\ entry = 1
    /\ failed = FALSE
    /\ ListInit
    /\ announced = <<>>
    /\ seen = <<>>

\* Mutant: the state machine starts afresh with every buffer.
EnterResets(b) ==
    /\ pc = "caller"
    /\ pc' = "device_process"
    /\ data' = b
    /\ sm' = InitialMachine
    /\ proc' = "no_output"
    /\ total_proc' = 0
    /\ ListClear
    /\ values' = <<>>
    /\ failed' = FALSE
    /\ announced' = <<>>
    /\ seen' = <<>>
    /\ UNCHANGED <<result, i, entry, heard>>

\* Enter device_process() with the buffer b.
Enter(b) ==
    /\ pc = "caller"
    /\ pc' = "device_process"
    /\ data' = b
    /\ proc' = "no_output"
    /\ total_proc' = 0
    /\ ListClear
    /\ values' = <<>>
    /\ failed' = FALSE
    /\ announced' = <<>>
    /\ seen' = <<>>
    /\ UNCHANGED <<i, entry, rxVars>>

\* Mutant: <= in place of <.
MoreToProcessForever == total_proc <= Len(data) /\ proc # "error"

MoreToProcess == total_proc < Len(data) /\ proc # "error"

\* Call sm_process() on what is left of the buffer.
Call ==
    /\ pc = "device_process" /\ MoreToProcess
    /\ pc' = "sm_process"
    /\ i' = 0
    /\ UNCHANGED <<data, proc, total_proc, formatVars>>
    /\ UNCHANGED callVars

\* Mutant: sm_process() goes on when output is ready.
TakesAnotherAfterOutput == total_proc + i < Len(data) /\ (i = 0 \/ result # "error")

\* The loop condition of sm_process(); its own result starts as NO_OUTPUT.
TakesAnother == total_proc + i < Len(data) /\ (i = 0 \/ result = "no_output")

\* Mutant: sm_process() is given data in place of &data[total_proc].
GivenFromStart == data[i + 1]

\* data[i] of sm_process(), which is given &data[total_proc].
Given == data[total_proc + i + 1]

Step ==
    /\ pc = "sm_process" /\ TakesAnother
    /\ Sample(Given)
    /\ announced' = IF result' = "output_ready" THEN Append(announced, sm'.data) ELSE announced
    /\ seen' = Append(seen, Given)
    /\ i' = i + 1
    /\ UNCHANGED <<pc, data, proc, total_proc, formatVars>>

\* sm_process() returns result and *num_proc = i; the message is formatted
\* out of d->data before the next call.
Return ==
    /\ pc = "sm_process" /\ ~TakesAnother
    /\ pc' = IF result = "output_ready" THEN "formatter_data_to_keyval" ELSE "device_process"
    /\ proc' = result
    /\ entry' = 1
    /\ total_proc' = total_proc + i
    /\ i' = 0
    /\ UNCHANGED <<data, values, failed, listVars>>
    /\ UNCHANGED callVars

-----------------------------------------------------------------------------
\* formatter_data_to_keyval(): the timestamp, if any, and all fields.
Keys == IF Timestamped THEN <<Timestamp>> \o Fields ELSE Fields

AppendEntry ==
    /\ pc = "formatter_data_to_keyval" /\ entry <= Len(Keys)
    /\ ListAppend
    /\ values' = Append(values, [msg |-> Len(announced), key |-> Keys[entry], data |-> sm.data])
    /\ entry' = entry + 1
    /\ UNCHANGED <<pc, data, proc, i, total_proc, failed>>
    /\ UNCHANGED callVars

\* The loop ends at the first field that can not be appended; a timestamp
\* that can not be is logged only.
AfterFailure == IF Keys[entry] = Timestamp THEN entry + 1 ELSE Len(Keys) + 1

AppendEntryFails ==
    /\ pc = "formatter_data_to_keyval" /\ entry <= Len(Keys)
    /\ ListAppendNoRoom \/ ListAppendNoString
    /\ entry' = AfterFailure
    /\ failed' = TRUE
    /\ UNCHANGED <<pc, data, proc, i, total_proc, values>>
    /\ UNCHANGED callVars

\* device_process() does not look at what formatter_data_to_keyval() returns.
Formatted ==
    /\ pc = "formatter_data_to_keyval" /\ entry > Len(Keys)
    /\ pc' = "device_process"
    /\ UNCHANGED <<data, proc, i, total_proc, formatVars>>
    /\ UNCHANGED callVars

\* device_process() returns d->values; the samples after an error are lost.
Leave ==
    /\ pc = "device_process" /\ ~MoreToProcess
    /\ pc' = "caller"
    /\ UNCHANGED <<data, proc, i, total_proc, formatVars>>
    /\ UNCHANGED callVars

Run == Call \/ Step \/ Return \/ AppendEntry \/ AppendEntryFails \/ Formatted \/ Leave
Next == (\E b \in Buffers : Enter(b)) \/ Run

Spec == Init /\ [][Next]_vars

\* The loops run on the caller's own thread and are not stopped from outside.
FairSpec == Spec /\ WF_vars(Run)

-----------------------------------------------------------------------------
\* Between sm_process() calls, the samples accounted for are the ones the
\* machine was given: none is skipped and none is given twice, wherever the
\* calls were cut (num_proc and &data[total_proc], device.c:648).
EachSampleOnce ==
    pc # "sm_process" => seen = SubSeq(data, 1, total_proc)

\* On return every message that was announced has been formatted, in order,
\* from the data buffer as it was then: a later reset did not clear it
\* first (the note of state_machine.h:167).  Where memory ran out a message
\* lacks its last fields, or its timestamp, and no other message does.
Entry(m, key) == [msg |-> m, key |-> Keys[key], data |-> announced[m]]

AllFormatted ==
    /\ Len(values) = Len(announced) * Len(Keys)
    /\ \A m \in DOMAIN announced : \A key \in DOMAIN Keys :
           values[(m - 1) * Len(Keys) + key] = Entry(m, key)

\* Element e is the next key of the message the element before it is of, or
\* the first of another message, but for the timestamp.
FollowsOn(e, m, key) ==
    \/ e > 1 /\ key > 1 /\ values[e - 1] = Entry(m, key - 1)
    \/ /\ key = 1 \/ Keys[key - 1] = Timestamp
       /\ e = 1 \/ values[e - 1].msg < m

ElementsInOrder ==
    \A e \in DOMAIN values : \E m \in DOMAIN announced : \E key \in DOMAIN Keys :
        values[e] = Entry(m, key) /\ FollowsOn(e, m, key)

EveryMessageFormatted ==
    /\ pc = "caller" /\ ~failed => AllFormatted
    /\ ElementsInOrder
    /\ Len(values) = size

\* device_process() returns from every buffer.
Returns == (pc = "device_process") ~> (pc = "caller")

\* The device, seen from outside, is the state machine of SmReceive fed with
\* the samples that were not dropped.
DecodesSamples == RxSpec
=============================================================================
