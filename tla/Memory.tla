------------------------------- MODULE Memory -------------------------------
(***************************************************************************)
(* What the modules that load files share.  Every malloc(), calloc(),      *)
(* realloc() and strdup() succeeds, or returns NULL; an unsigned int       *)
(* wraps; and an entry of a file may be something else than it should be.  *)
(***************************************************************************)
EXTENDS Integers, Sequences, SequencesExt

CONSTANTS
    MaxUint,    \* UINT_MAX
    Malformed   \* an entry of a file that is of another type, or out of range

ASSUME MemoryAssumption == MaxUint \in Nat /\ MaxUint >= 64

VARIABLE out_of_memory  \* history: an allocation has failed

MemoryInit == out_of_memory = FALSE
Allocates == UNCHANGED out_of_memory
AllocationFails == out_of_memory' = TRUE

Unsigned(x) == x % (MaxUint + 1)
=============================================================================
