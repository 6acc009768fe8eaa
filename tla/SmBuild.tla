------------------------------- MODULE SmBuild -------------------------------
(***************************************************************************)
(* How a device description becomes a state machine:                       *)
(* create_state_machine() and add_state() of src/src/device.c over         *)
(* sm_init(), sm_add_state(), sm_add_state_trigger() and sm_initialized()  *)
(* of src/src/state_machine.c.  A trigger may name a state that is only    *)
(* described further down (or nowhere): get_or_reserve_state() then takes  *)
(* the next free slot of sm->states for it.                                *)
(*                                                                         *)
(* Durations, timeouts, conditions and actions are copied as they are and  *)
(* left out; a trigger whose condition or action is not a known word is    *)
(* the target Malformed.  Module Loading takes these steps.                *)
(***************************************************************************)
EXTENDS Memory

CONSTANT ResetNames     \* the state names equal to "reset" but for case

VARIABLES
    build,  \* where create_state_machine() is: "idle", "init", "add_state",
            \* "add_trigger", "accepted", "rejected", "undefined"
    states, \* the "states" array: a sequence of [name, targets]
    k,      \* the state of it being added
    j,      \* the trigger of that state being added
    slots   \* sm->states

buildVars == <<build, states, k, j, slots>>

NULL == 0           \* a next_state that is not a slot
Unnamed == ""

\* struct state: the name, num_triggers, and the triggers filled in so far,
\* each given by its next_state.
Free == [name |-> Unnamed, num_triggers |-> 0, triggers |-> <<>>]

BuildInit ==
    /\ build = "idle"
    /\ k = 1
    /\ j = 1
    /\ slots = <<>>

-----------------------------------------------------------------------------
\* get_or_reserve_state(): the slot for a name, NULL when there is none.
Matches(ss, name) == {s \in DOMAIN ss : ss[s].name \in {name, Unnamed}}

\* Mutant: the free slots are taken from the end.
SlotForLast(ss, name) ==
    IF name \in ResetNames /\ ss[1].name = Unnamed THEN 1
    ELSE IF Matches(ss, name) = {} THEN NULL
    ELSE Max(Matches(ss, name))

SlotFor(ss, name) ==
    IF name \in ResetNames /\ ss[1].name = Unnamed THEN 1
    ELSE IF Matches(ss, name) = {} THEN NULL
    ELSE Min(Matches(ss, name))

Reserve(ss, name) ==
    IF SlotFor(ss, name) = NULL THEN ss
    ELSE [ss EXCEPT ![SlotFor(ss, name)].name = name]

\* The state the loop of sm_add_state_trigger() finds; it compares names
\* from the first slot on and must not meet an unnamed one.
Lookup(ss, name) == {s \in DOMAIN ss : ss[s].name = name}

Current == states[k]

Rejected == build' = "rejected"

\* No memory, and the code goes on with a pointer that is not valid.
Undefined == AllocationFails /\ build' = "undefined"

\* sm_init(); sm_deinit() then walks over the states that could not be
\* allocated (state_machine.c:879).
SmInit ==
    /\ build = "init"
    /\ \/ states = <<>> /\ Rejected /\ Allocates /\ UNCHANGED slots
       \/ /\ states # <<>>
          /\ \/ /\ Allocates
                /\ build' = "add_state"
                /\ slots' = [s \in DOMAIN states |-> Free]
             \/ AllocationFails /\ Rejected /\ UNCHANGED slots
             \/ Undefined /\ UNCHANGED slots
    /\ UNCHANGED <<states, k, j>>

\* sm_add_state().  When the triggers can not be allocated, free() is given
\* a pointer into the states array (state_machine.c:284).
AddState ==
    /\ build = "add_state" /\ k <= Len(states)
    /\ LET s == SlotFor(slots, Current.name)
       IN  \/ /\ Current.targets = <<>> \/ s = NULL
             /\ Rejected /\ Allocates /\ UNCHANGED slots
          \/ /\ Current.targets # <<>> /\ s # NULL
             /\ \/ /\ Allocates
                   /\ build' = "add_trigger"
                   /\ slots' = [Reserve(slots, Current.name) EXCEPT
                                   ![s].num_triggers = Len(Current.targets),
                                   ![s].triggers = <<>>]
                \/ /\ slots[s].name = Unnamed
                   /\ AllocationFails /\ Rejected /\ UNCHANGED slots
                \/ Undefined /\ UNCHANGED slots
    /\ j' = 1
    /\ UNCHANGED <<states, k>>

\* The state that sm_add_state_trigger() looks for by name from the first
\* slot on; strcmp() must not meet a slot without one.
Own(name) == Min(Lookup(slots, name))
MeetsUnnamed(name) == \E s \in 1 .. Own(name) : slots[s].name = Unnamed

\* Mutant: the trigger goes to the slot of the same number as the state.
FillTriggerByNumber(ss, next) == [ss EXCEPT ![k].triggers = Append(@, next)]

FillTrigger(ss, next) == [ss EXCEPT ![Own(Current.name)].triggers = Append(@, next)]

\* One turn of the loop over the triggers.  What sm_add_state_trigger()
\* returns is not looked at (device.c:191): without a slot, or without
\* memory for the name, the trigger leads nowhere.
AddTrigger ==
    /\ build = "add_trigger" /\ j <= Len(Current.targets)
    /\ LET next == Current.targets[j]
           s == SlotFor(slots, next)
       IN  \/ /\ next = Malformed
             /\ Rejected /\ Allocates /\ UNCHANGED <<j, slots>>
          \/ /\ next # Malformed /\ MeetsUnnamed(Current.name)
             /\ build' = "undefined" /\ Allocates /\ UNCHANGED <<j, slots>>
          \/ /\ next # Malformed /\ ~MeetsUnnamed(Current.name)
             /\ \/ Allocates /\ slots' = FillTrigger(Reserve(slots, next), s)
                \/ /\ s # NULL /\ slots[s].name = Unnamed
                   /\ AllocationFails /\ slots' = FillTrigger(slots, NULL)
             /\ j' = j + 1
             /\ UNCHANGED build
    /\ UNCHANGED <<states, k>>

NextState ==
    /\ build = "add_trigger" /\ j > Len(Current.targets)
    /\ build' = "add_state"
    /\ k' = k + 1
    /\ UNCHANGED <<states, j, slots, out_of_memory>>

\* sm_initialized(): every slot is named and every trigger was filled in.
Initialized ==
    \A s \in DOMAIN slots :
        slots[s].name # Unnamed /\ Len(slots[s].triggers) = slots[s].num_triggers

Finish ==
    /\ build = "add_state" /\ k > Len(states)
    /\ build' = IF Initialized THEN "accepted" ELSE "rejected"
    /\ UNCHANGED <<states, k, j, slots, out_of_memory>>

CreateStateMachine == SmInit \/ AddState \/ AddTrigger \/ NextState \/ Finish

-----------------------------------------------------------------------------
\* Each state is named once and no trigger names another.
Closed ==
    LET declared == {states[m].name : m \in DOMAIN states}
    IN  /\ Cardinality(declared) = Len(states) /\ states # <<>>
        /\ \A m \in DOMAIN states :
               states[m].targets # <<>> /\ Range(states[m].targets) \subseteq declared

\* Whatever way forward references reserve slots, a closed description is
\* accepted, and the machine is the described one: same states, same
\* triggers in the same order, each leading to the state it names, with the
\* first described state in slot 0.  Only where memory has run out may it be
\* refused, or a trigger lead nowhere.
ClosedIsBuilt ==
    Closed /\ build \in {"accepted", "rejected"} =>
        \/ build = "rejected" /\ out_of_memory
        \/ /\ build = "accepted"
           /\ slots[1].name = states[1].name
           /\ \A m \in DOMAIN states : \E s \in DOMAIN slots :
                  /\ slots[s].name = states[m].name
                  /\ Len(slots[s].triggers) = Len(states[m].targets)
                  /\ \A t \in DOMAIN states[m].targets :
                         LET next == slots[s].triggers[t]
                         IN  IF next = NULL THEN out_of_memory
                             ELSE slots[next].name = states[m].targets[t]
==============================================================================
