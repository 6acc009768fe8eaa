------------------------------- MODULE Loading -------------------------------
(***************************************************************************)
(* Loading a file: device_init() of src/src/device.c with                  *)
(* populate_device() and device_deinit(), and fir_init() of src/src/fir.c, *)
(* from the search for the file (FindFile) to the state machine (SmBuild)  *)
(* and the formatter (FormatterBuild), or the filter (FilterLoad), and the *)
(* clean-up when something is missing, malformed, or finds no memory.      *)
(* The JSON parser is external.                                            *)
(***************************************************************************)
EXTENDS FindFile, SmBuild, FormatterBuild, FilterLoad

CONSTANT Files  \* what may be loaded: [kind, tree, home, bad, states, fields, stages]

\* What the JSON parser hands over: arrays, names (never a NULL one) and
\* integers.
ASSUME LoadingAssumption ==
    \A f \in Files :
        /\ f.kind \in {"device", "filter"} /\ f.home \in BOOLEAN
        /\ f.bad \in {"none", "root", "name", "description", "data"}
        /\ f.states \in Seq(Range(f.states))
        /\ \A m \in DOMAIN f.states :
               LET targets == f.states[m].targets
               IN  /\ f.states[m].name \notin {Unnamed, Malformed}
                   /\ targets \in Seq(Range(targets)) /\ Unnamed \notin Range(targets)
        /\ f.fields \in Seq(Range(f.fields))
        /\ \A field \in Range(f.fields) \ {Malformed} :
               /\ field.name # Unnamed
               /\ field.start_bit \in Int /\ field.end_bit \in Int
               /\ field.enum \in Seq(Range(field.enum))
        /\ f.stages \in Seq(Range(f.stages))
        /\ \A stage \in Range(f.stages) \ {Malformed} :
               stage.decimation \in Int /\ stage.num_taps \in Int

VARIABLES
    loader,     \* where device_init() or fir_init() is
    kind,       \* "device" or "filter"
    bad,        \* the entry of the file that is missing or malformed, if any
    heap,       \* what is allocated or open
    status,     \* 0 or -1, as in the code
    result      \* what is returned

ownVars == <<loader, kind, bad, heap, status, result>>
vars == <<ownVars, findVars, buildVars, formatVars, filterVars, out_of_memory>>

Init ==
    /\ \E f \in Files :
           /\ kind = f.kind /\ tree = f.tree /\ home = f.home /\ bad = f.bad
           /\ states = f.states /\ fields = f.fields /\ stages = f.stages
    /\ loader = "find"
    /\ heap = {}
    /\ status = -1
    /\ result = "none"
    /\ FindInit /\ BuildInit /\ FormatInit /\ FilterInit /\ MemoryInit

-----------------------------------------------------------------------------
Goto(label) == loader' = label

FindStep ==
    /\ loader = "find" /\ Find
    /\ UNCHANGED <<ownVars, buildVars, formatVars, filterVars>>

\* The search is over.
FindDone ==
    /\ loader = "find" /\ search \in {"found", "missing", "crashed"}
    /\ CASE search = "found"   -> /\ Goto(IF kind = "device" THEN "calloc" ELSE "json")
                                  /\ heap' = {"input"} /\ UNCHANGED result
         [] search = "missing" -> Goto("returned") /\ result' = "NULL" /\ UNCHANGED heap
         [] search = "crashed" -> Goto("undefined") /\ UNCHANGED <<heap, result>>
    /\ UNCHANGED <<kind, bad, status, findVars, buildVars, formatVars, filterVars, out_of_memory>>

Fails == Goto("out") /\ UNCHANGED heap

\* One part of the file is read or allocated: it is there and memory suffices,
\* or it is not.
Reads(label, part, next) ==
    /\ loader = label
    /\ \/ bad # part /\ Allocates /\ heap' = heap \cup {part} /\ Goto(next)
       \/ bad = part /\ Allocates /\ Fails
       \/ AllocationFails /\ Fails
    /\ UNCHANGED <<kind, bad, status, result, findVars, buildVars, formatVars, filterVars>>

AllocateDevice == Reads("calloc", "dev", "json")
LoadJson == Reads("json", "root", IF kind = "device" THEN "name" ELSE "stages")
ReadName == Reads("name", "name", "description")
ReadDescription == Reads("description", "description", "num_bits")
ReadData == Reads("num_bits", "data", "states")     \* num_bits and the data buffer

\* create_state_machine()
Build ==
    /\ loader = "states"
    /\ \/ /\ build = "idle"
          /\ build' = "init"
          /\ UNCHANGED <<loader, heap, states, k, j, slots, out_of_memory>>
       \/ CreateStateMachine /\ UNCHANGED <<loader, heap>>
       \/ /\ CASE build = "accepted"  -> Goto("fields") /\ heap' = heap \cup {"sm"}
               [] build = "rejected"  -> Fails
               [] build = "undefined" -> Goto("undefined") /\ UNCHANGED heap
               [] OTHER               -> FALSE
          /\ UNCHANGED <<buildVars, out_of_memory>>
    /\ UNCHANGED <<kind, bad, status, result, findVars, formatVars, filterVars>>

\* create_formatter(), after which populate_device() returns 0.  What the
\* formatter has lost is not freed with it.
Format ==
    /\ loader = "fields"
    /\ \/ /\ format = "idle"
          /\ format' = "init"
          /\ UNCHANGED <<loader, heap, status, fields, n, e, formatter, lost, out_of_memory>>
       \/ CreateFormatter /\ UNCHANGED <<loader, heap, status>>
       \/ /\ CASE format = "ready"     -> /\ Goto("values") /\ heap' = heap \cup {"fmt"} \cup lost
                                          /\ status' = 0
               [] format = "rejected"  -> /\ Goto("out") /\ heap' = heap \cup lost
                                          /\ UNCHANGED status
               [] format = "undefined" -> Goto("undefined") /\ UNCHANGED <<heap, status>>
               [] OTHER                -> FALSE
          /\ UNCHANGED <<formatVars, out_of_memory>>
    /\ UNCHANGED <<kind, bad, result, findVars, buildVars, filterVars>>

\* keyval_list_init(); when it fails, status is still 0 (device.c:613).
AllocateValues == Reads("values", "values", "out")

Stages ==
    /\ loader = "stages"
    /\ \/ /\ load = "idle"
          /\ load' = "init"
          /\ UNCHANGED <<loader, heap, status, stages, total_decimation, fir, out_of_memory>>
       \/ LoadStages /\ UNCHANGED <<loader, heap, status>>
       \/ /\ CASE load = "loaded"    -> Goto("out") /\ heap' = heap \cup {"fir"} /\ status' = 0
               [] load = "rejected"  -> Fails /\ UNCHANGED status
               [] load = "undefined" -> Goto("undefined") /\ UNCHANGED <<heap, status>>
               [] OTHER              -> FALSE
          /\ UNCHANGED <<filterVars, out_of_memory>>
    /\ UNCHANGED <<kind, bad, result, findVars, buildVars, formatVars>>

\* Mutant: the strings are forgotten.
DeviceDeinitShort(h) == h \ {"values", "sm", "fmt", "data", "dev"}

DeviceDeinit(h) == h \ {"values", "sm", "fmt", "data", "name", "description", "dev"}

Out ==
    /\ loader = "out"
    /\ LET left == heap \ {"root", "input"}
       IN  IF status = 0 THEN heap' = left /\ result' = kind
           ELSE heap' = DeviceDeinit(left) /\ result' = "NULL"
    /\ Goto("returned")
    /\ UNCHANGED <<kind, bad, status, findVars, buildVars, formatVars, filterVars, out_of_memory>>

Next == FindStep \/ FindDone \/ AllocateDevice \/ LoadJson \/ ReadName \/ ReadDescription
            \/ ReadData \/ Build \/ Format \/ AllocateValues \/ Stages \/ Out

Spec == Init /\ [][Next]_vars

-----------------------------------------------------------------------------
\* Whatever a file holds, it is loaded or refused: no pointer that is not
\* there is ever followed, and nothing divided by zero, as long as there is
\* memory, $HOME is set, and the decimations do not multiply to zero.
LoadsOrRefuses == loader = "undefined" => out_of_memory \/ ~home \/ total_decimation = 0

\* A field that starts at BIT_UNINITIALIZED, as one with start_bit -1 does,
\* which device.c:298 reports and goes on with.
StartsNowhere(field) == field # Malformed /\ Unsigned(field.start_bit) = BIT_UNINITIALIZED

\* Whatever is missing, and whatever finds no memory, either a device with
\* all its parts or a filter is returned and nothing else is left, or NULL
\* and nothing is.  The exceptions are a device without its list, and the
\* name and enumerators of a field that starts nowhere, which are lost when
\* the next field is put in its place.
ReturnsAllOrNothing ==
    loader = "returned" =>
        CASE result = "NULL"   -> /\ heap \subseteq {"field name", "field enums"}
                                  /\ heap = {} \/ \E field \in Range(fields) : StartsNowhere(field)
          [] result = "filter" -> heap = {"fir"}
          [] result = "device" ->
                 LET whole == {"dev", "name", "description", "data", "sm", "fmt", "values"}
                 IN  heap = whole \/ (out_of_memory /\ heap = whole \ {"values"})
===============================================================================
