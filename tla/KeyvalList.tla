----------------------------- MODULE KeyvalList -----------------------------
(***************************************************************************)
(* src/src/keyval_list.c: the growing array of key-value strings that      *)
(* carries the fields of received messages and the parameters of the one   *)
(* to transmit.  The strings themselves are left out; `live` counts the    *)
(* strdup() copies not yet freed.  realloc() and strdup() may fail.        *)
(***************************************************************************)
EXTENDS Integers

CONSTANTS
    InitialBacking, \* 16 in keyval_list_init()
    EltSize,        \* sizeof(struct keyval)
    MaxSize         \* bound: the longest list that is explored

ASSUME KeyvalAssumption ==
    /\ InitialBacking \in Nat \ {0}
    /\ EltSize \in Nat \ {0}
    /\ MaxSize \in Nat

VARIABLES
    size,           \* list->size
    backing_size,   \* list->backing_size
    allocated,      \* elements that fit in the block at list->elt
    live            \* strings allocated and not freed

listVars == <<size, backing_size, allocated, live>>

ListInit ==
    /\ size = 0
    /\ backing_size = InitialBacking
    /\ allocated = InitialBacking
    /\ live = 0

\* Mutant: one element too late.
ListFullLate == size > backing_size

\* Room for one more element, if need be by doubling the block.  The code
\* passes the new size in bytes to realloc() and keeps that same number as
\* backing_size.
ListFull == size = backing_size

ListGrow ==
    IF ListFull
    THEN /\ backing_size' = 2 * backing_size * EltSize
         /\ allocated' = 2 * backing_size
    ELSE UNCHANGED <<backing_size, allocated>>

ListAppend ==
    /\ size < MaxSize
    /\ ListGrow
    /\ size' = size + 1
    /\ live' = live + 2

\* realloc() failed.
ListAppendNoRoom ==
    /\ size < MaxSize /\ ListFull
    /\ UNCHANGED listVars

\* Mutant: the key is not freed when the value can not be copied.
ListAppendNoStringLeaks ==
    /\ size < MaxSize
    /\ ListGrow
    /\ live' = live + 1
    /\ UNCHANGED size

\* strdup() of the key, or of the value, failed; the key is freed again.
ListAppendNoString ==
    /\ size < MaxSize
    /\ ListGrow
    /\ UNCHANGED <<size, live>>

\* keyval_list_clear() frees both strings of every element.
ListClear ==
    /\ live' = live - 2 * size
    /\ size' = 0
    /\ UNCHANGED <<backing_size, allocated>>

ListNext == ListAppend \/ ListAppendNoRoom \/ ListAppendNoString \/ ListClear

ListSpec == ListInit /\ [][ListNext]_listVars

-----------------------------------------------------------------------------
ListTypeOK ==
    /\ size \in Nat
    /\ backing_size \in Nat \ {0}
    /\ allocated \in Nat \ {0}
    /\ live \in Nat

\* The assert of keyval_list_append(): growing keeps up with appending, also
\* after a clear, which keeps the block (keyval_list.c:75).
SizeWithinBacking == size <= backing_size

\* Every string belongs to an element, so that clearing an emptied or a
\* partly failed list leaks nothing and frees nothing twice.
NoLeak == live = 2 * size

\* With backing_size the "# of allocated elements" (keyval_list.c:31) the
\* same assertion says that no element lies outside of the block.
ElementsFit == size <= allocated
=============================================================================
