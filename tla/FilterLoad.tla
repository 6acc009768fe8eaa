------------------------------ MODULE FilterLoad ------------------------------
(***************************************************************************)
(* fir_init() and fir_deinit() of src/src/fir.c: the stages of a filter    *)
(* file one after the other, each with three buffers.  The decimations     *)
(* are multiplied in an unsigned int, which may wrap.  What the filter     *)
(* then does with samples is module FirFilter.                             *)
(***************************************************************************)
EXTENDS Memory

CONSTANT MaxInput   \* cfg.samples_per_buffer

ASSUME FilterLoadAssumption == MaxInput \in Nat \ {0}

VARIABLES
    load,               \* where fir_init() is: "idle", "init", "stage", "loaded",
                        \* "rejected", "undefined"
    stages,             \* the "stages" array: [decimation, num_taps] or Malformed
    total_decimation,
    fir                 \* fir->stages: [decimation, output_len] of those set up

filterVars == <<load, stages, total_decimation, fir>>

FilterInit ==
    /\ load = "idle"
    /\ total_decimation = 1
    /\ fir = <<>>

RefusesFilter == load' = "rejected" /\ UNCHANGED <<total_decimation, fir>>

\* The file is no filter, or there is no memory; what was set up is freed.
StartFilter ==
    /\ load = "init"
    /\ \/ stages = <<>> /\ RefusesFilter /\ Allocates
       \/ stages # <<>> /\ AllocationFails /\ RefusesFilter
       \/ /\ stages # <<>> /\ Allocates
          /\ load' = "stage" /\ UNCHANGED <<total_decimation, fir>>
    /\ UNCHANGED stages

Stage == stages[Len(fir) + 1]
IsStage == Stage # Malformed /\ Stage.decimation \in 1 .. MaxUint - 1 /\ Stage.num_taps > 0

\* Mutant: the decimation is rounded down.
OutputRoomFloor(total) == MaxInput \div total

\* output_len: the samples left of a full buffer after decimation.
OutputRoom(total) == (MaxInput + total - 1) \div total

\* One turn of the loop over the stages.
AddStage ==
    /\ load = "stage" /\ Len(fir) < Len(stages)
    /\ \/ ~IsStage /\ RefusesFilter /\ Allocates
       \/ IsStage /\ AllocationFails /\ RefusesFilter
       \/ /\ IsStage /\ Allocates
          /\ total_decimation' = Unsigned(total_decimation * Stage.decimation)
          /\ IF total_decimation' = 0      \* divided by (fir.c:198)
             THEN load' = "undefined" /\ UNCHANGED fir
             ELSE /\ fir' = Append(fir, [decimation |-> Stage.decimation,
                                         output_len |-> OutputRoom(total_decimation')])
                  /\ UNCHANGED load
    /\ UNCHANGED stages

FinishFilter ==
    /\ load = "stage" /\ Len(fir) = Len(stages)
    /\ load' = "loaded"
    /\ UNCHANGED <<stages, total_decimation, fir, out_of_memory>>

LoadStages == StartFilter \/ AddStage \/ FinishFilter

-----------------------------------------------------------------------------
\* Every stage of a loaded filter can hold what it makes of a full buffer,
\* also when the product of the decimations has wrapped: the wrapped one is
\* smaller, and the buffers larger than they need to be.
ProductTo[i \in 0 .. Len(stages)] ==
    IF i = 0 THEN 1 ELSE ProductTo[i - 1] * stages[i].decimation

OutputsFit ==
    load = "loaded" =>
        \A i \in DOMAIN stages :
            /\ fir[i].decimation = stages[i].decimation
            /\ fir[i].output_len * ProductTo[i] >= MaxInput
===============================================================================
