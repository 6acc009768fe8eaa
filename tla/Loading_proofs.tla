--------------------------- MODULE Loading_proofs ---------------------------
(***************************************************************************)
(* Loading a device or a filter, for every file and wherever memory runs   *)
(* out: the search finds the first file there is, what is built from the   *)
(* file is what it describes, and nothing is left of what was refused.     *)
(* The parts of the loader touch their own variables, so that each         *)
(* invariant is about one part.                                            *)
(***************************************************************************)
EXTENDS Loading, Arithmetic, SequenceTheorems, FiniteSetTheorems

-----------------------------------------------------------------------------
(* The files, and which steps touch what.                                  *)

Contents == <<kind, bad, tree, home, states, fields, stages>>

IsFile == \E f \in Files :
    /\ kind = f.kind /\ tree = f.tree /\ home = f.home /\ bad = f.bad
    /\ states = f.states /\ fields = f.fields /\ stages = f.stages

LEMMA FileProperties ==
    ASSUME IsFile
    PROVE  /\ kind \in {"device", "filter"} /\ home \in BOOLEAN
           /\ bad \in {"none", "root", "name", "description", "data"}
           /\ states \in Seq(Range(states))
           /\ \A m \in DOMAIN states :
                  /\ states[m].name \notin {Unnamed, Malformed}
                  /\ states[m].targets \in Seq(Range(states[m].targets))
                  /\ Unnamed \notin Range(states[m].targets)
           /\ fields \in Seq(Range(fields))
           /\ \A field \in Range(fields) \ {Malformed} :
                  /\ field.name # Unnamed
                  /\ field.start_bit \in Int /\ field.end_bit \in Int
                  /\ field.enum \in Seq(Range(field.enum))
           /\ stages \in Seq(Range(stages))
           /\ \A stage \in Range(stages) \ {Malformed} :
                  stage.decimation \in Int /\ stage.num_taps \in Int
<1>1. PICK f \in Files :
          /\ kind = f.kind /\ tree = f.tree /\ home = f.home /\ bad = f.bad
          /\ states = f.states /\ fields = f.fields /\ stages = f.stages
  BY Zenon DEF IsFile
<1> QED BY <1>1, LoadingAssumption, Zenon

\* What the steps of the loader do to the parts.
LEMMA StepsOfParts ==
    ASSUME [Next]_vars
    PROVE  /\ UNCHANGED Contents
           /\ out_of_memory => out_of_memory'
           /\ Find \/ UNCHANGED findVars
           /\ \/ CreateStateMachine \/ UNCHANGED buildVars
              \/ build = "idle" /\ build' = "init" /\ UNCHANGED <<k, j, slots>>
           /\ \/ CreateFormatter \/ UNCHANGED formatVars
              \/ format = "idle" /\ format' = "init" /\ UNCHANGED <<n, e, formatter, lost>>
           /\ \/ LoadStages \/ UNCHANGED filterVars
              \/ load = "idle" /\ load' = "init" /\ UNCHANGED <<total_decimation, fir>>
<1>1. CASE FindStep
  <2>1. /\ Find /\ UNCHANGED <<kind, bad, buildVars, formatVars, filterVars>>
    BY <1>1 DEF FindStep, ownVars
  <2>2. UNCHANGED <<tree, home>> /\ (out_of_memory => out_of_memory')
    BY <2>1 DEF Find, StrInit, AppendPart, Open, Allocates, AllocationFails
  <2> QED BY <2>1, <2>2 DEF Contents, buildVars, formatVars, filterVars
<1>2. CASE Build
  <2>1. UNCHANGED <<kind, bad, findVars, formatVars, filterVars>>
    BY <1>2 DEF Build
  <2>2. /\ \/ CreateStateMachine \/ UNCHANGED <<buildVars, out_of_memory>>
           \/ build = "idle" /\ build' = "init" /\ UNCHANGED <<states, k, j, slots, out_of_memory>>
    BY <1>2 DEF Build
  <2>3. UNCHANGED states /\ (out_of_memory => out_of_memory')
    BY <2>2 DEF CreateStateMachine, SmInit, AddState, AddTrigger, NextState, Finish, Allocates,
                AllocationFails, Undefined, buildVars
  <2> QED BY <2>1, <2>2, <2>3 DEF Contents, findVars, formatVars, filterVars, buildVars
<1>3. CASE Format
  <2>1. UNCHANGED <<kind, bad, findVars, buildVars, filterVars>>
    BY <1>3 DEF Format
  <2>2. /\ \/ CreateFormatter \/ UNCHANGED <<formatVars, out_of_memory>>
           \/ /\ format = "idle" /\ format' = "init"
              /\ UNCHANGED <<fields, n, e, formatter, lost, out_of_memory>>
    BY <1>3 DEF Format
  <2>3. UNCHANGED fields /\ (out_of_memory => out_of_memory')
    <3>1. CASE AddField
      <4>1. UNCHANGED fields
        BY <3>1 DEF AddField
      <4>2. Allocates \/ AllocationFails
        BY <3>1, Zenon DEF AddField
      <4> QED BY <4>1, <4>2 DEF Allocates, AllocationFails
    <3>2. CASE AddEnum
      BY <3>2 DEF AddEnum, Allocates, AllocationFails
    <3>3. CASE FormatterInit \/ EnumsDone \/ SetDefault \/ FinishFormatter
      BY <3>3 DEF FormatterInit, EnumsDone, SetDefault, FinishFormatter, Allocates, AllocationFails
    <3> QED BY <2>2, <3>1, <3>2, <3>3 DEF CreateFormatter, formatVars
  <2> QED BY <2>1, <2>2, <2>3 DEF Contents, findVars, formatVars, filterVars, buildVars
<1>4. CASE Stages
  <2>1. UNCHANGED <<kind, bad, findVars, buildVars, formatVars>>
    BY <1>4 DEF Stages
  <2>2. /\ \/ LoadStages \/ UNCHANGED <<filterVars, out_of_memory>>
           \/ /\ load = "idle" /\ load' = "init"
              /\ UNCHANGED <<stages, total_decimation, fir, out_of_memory>>
    BY <1>4 DEF Stages
  <2>3. UNCHANGED stages /\ (out_of_memory => out_of_memory')
    BY <2>2 DEF LoadStages, StartFilter, AddStage, FinishFilter, Allocates, AllocationFails,
                filterVars
  <2> QED BY <2>1, <2>2, <2>3 DEF Contents, findVars, formatVars, filterVars, buildVars
<1>5. CASE FindDone \/ AllocateDevice \/ LoadJson \/ ReadName \/ ReadDescription \/ ReadData
              \/ AllocateValues \/ Out \/ UNCHANGED vars
  <2>1. CASE FindDone \/ Out
    <3>1. UNCHANGED <<kind, bad, findVars, buildVars, formatVars, filterVars, out_of_memory>>
      BY <2>1, Zenon DEF FindDone, Out
    <3> QED BY <3>1 DEF Contents, findVars, buildVars, formatVars, filterVars
  <2>2. CASE UNCHANGED vars
    BY <2>2 DEF vars, ownVars, Contents, findVars, buildVars, formatVars, filterVars
  <2>3. ASSUME NEW label, NEW part, NEW next, Reads(label, part, next)
        PROVE  /\ UNCHANGED <<kind, bad, findVars, buildVars, formatVars, filterVars>>
               /\ out_of_memory => out_of_memory'
    BY <2>3 DEF Reads, Allocates, AllocationFails
  <2>4. CASE AllocateDevice \/ LoadJson \/ ReadName \/ ReadDescription \/ ReadData \/ AllocateValues
    <3>1. /\ UNCHANGED <<kind, bad, findVars, buildVars, formatVars, filterVars>>
          /\ out_of_memory => out_of_memory'
      BY <2>3, <2>4 DEF AllocateDevice, LoadJson, ReadName, ReadDescription, ReadData,
                        AllocateValues
    <3> QED BY <3>1 DEF Contents, findVars, buildVars, formatVars, filterVars
  <2> QED BY <1>5, <2>1, <2>2, <2>4
<1> QED BY <1>1, <1>2, <1>3, <1>4, <1>5 DEF Next

LEMMA InitFile == Init => IsFile
BY DEF Init, IsFile

LEMMA NextFile == IsFile /\ [Next]_vars => IsFile'
<1> SUFFICES ASSUME IsFile, [Next]_vars PROVE IsFile'
  OBVIOUS
<1>1. UNCHANGED Contents
  BY StepsOfParts
<1> QED BY <1>1 DEF IsFile, Contents

\* Loading only reads its file, which is one of those the JSON parser can
\* hand over.
THEOREM File == Spec => []IsFile
BY InitFile, NextFile, PTL DEF Spec

-----------------------------------------------------------------------------
(* The search.                                                             *)

\* The candidates that were tried.
Tried(p, d) ==
    CASE search = "init"    -> p < pattern
      [] search = "missing" -> TRUE
      [] OTHER              -> p < pattern \/ (p = pattern /\ d < dir)

FindInv ==
    /\ search \in {"init", "append", "found", "missing", "crashed"}
    /\ pattern \in 1 .. 3 /\ dir \in 1 .. 4
    /\ search = "append" => len \in Nat /\ max_len \in Nat /\ len < max_len
    /\ search = "crashed" => ~home
    /\ search = "found" => Candidate(pattern, dir) \in tree
    /\ ~out_of_memory =>
           \A p \in 1 .. 3, d \in 1 .. 4 : Tried(p, d) => Candidate(p, d) \notin tree

LEMMA SearchSpace ==
    /\ DOMAIN Patterns = 1 .. 3 /\ Len(Patterns) = 3
    /\ DOMAIN SearchPaths = 1 .. 4 /\ Len(SearchPaths) = 4
<1>1. DOMAIN Patterns = 1 .. 3 /\ Len(Patterns) = 3
  BY DEF Patterns
<1>2. DOMAIN SearchPaths = 1 .. 4 /\ Len(SearchPaths) = 4
  BY DEF SearchPaths
<1> QED BY <1>1, <1>2

LEMMA LengthType == ASSUME NEW part PROVE Length(part) \in Nat
BY FindAssumption DEF Length

LEMMA InitFind == Init => FindInv
<1> SUFFICES ASSUME Init PROVE FindInv
  OBVIOUS
<1>1. search = "init" /\ pattern = 1 /\ dir = 1
  BY DEF Init, FindInit
<1>2. \A p \in 1 .. 3, d \in 1 .. 4 : ~Tried(p, d)
  BY <1>1 DEF Tried
<1> QED BY <1>1, <1>2 DEF FindInv

\* On to the next candidate, the one before not being there.
LEMMA NextPathFind ==
    ASSUME FindInv, search = "append", NextPath, UNCHANGED <<tree, home, max_len>>,
           out_of_memory' \/ (~out_of_memory => Candidate(pattern, dir) \notin tree),
           out_of_memory => out_of_memory',
           max_len \in Nat, 0 < max_len
    PROVE  FindInv'
<1>1. CASE dir < 4
  <2>1. dir' = dir + 1 /\ len' = 0 /\ UNCHANGED <<search, pattern>>
    BY <1>1, SearchSpace DEF NextPath
  <2>2. \A p \in 1 .. 3, d \in 1 .. 4 :
            Tried(p, d)' => Tried(p, d) \/ (p = pattern /\ d = dir)
    BY <2>1 DEF FindInv, Tried
  <2>3. ~out_of_memory' =>
            \A p \in 1 .. 3, d \in 1 .. 4 : Tried(p, d)' => Candidate(p, d) \notin tree
    BY <2>2, Zenon DEF FindInv
  <2> QED BY <1>1, <2>1, <2>3 DEF FindInv
<1>2. CASE ~(dir < 4) /\ pattern < 3
  <2>1. search' = "init" /\ pattern' = pattern + 1 /\ dir' = dir
    BY <1>2, SearchSpace DEF NextPath, NextPattern
  <2>2. \A p \in 1 .. 3, d \in 1 .. 4 :
            Tried(p, d)' => Tried(p, d) \/ (p = pattern /\ d = dir)
    BY <1>2, <2>1 DEF FindInv, Tried
  <2>3. ~out_of_memory' =>
            \A p \in 1 .. 3, d \in 1 .. 4 : Tried(p, d)' => Candidate(p, d) \notin tree
    BY <2>2, Zenon DEF FindInv
  <2> QED BY <1>2, <2>1, <2>3 DEF FindInv
<1>3. CASE ~(dir < 4) /\ ~(pattern < 3)
  <2>1. search' = "missing" /\ pattern' = pattern /\ dir' = dir
    BY <1>3, SearchSpace DEF NextPath, NextPattern
  <2>2. \A p \in 1 .. 3, d \in 1 .. 4 : Tried(p, d) \/ (p = pattern /\ d = dir)
    BY <1>3 DEF FindInv, Tried
  <2>3. ~out_of_memory' => \A p \in 1 .. 3, d \in 1 .. 4 : Candidate(p, d) \notin tree
    BY <2>2, Zenon DEF FindInv
  <2> QED BY <1>3, <2>1, <2>3 DEF FindInv
<1> QED BY <1>1, <1>2, <1>3

LEMMA StrInitFind == ASSUME FindInv, StrInit PROVE FindInv'
<1>1. search = "init" /\ UNCHANGED <<tree, home>>
  BY DEF StrInit
<1>2. CASE out_of_memory' = out_of_memory /\ search' = "append"
  <2>1. dir' = 1 /\ len' = 0 /\ max_len' = Increment /\ pattern' = pattern
    BY <1>2, SearchSpace DEF StrInit, NextPattern
  <2>2. \A p \in 1 .. 3, d \in 1 .. 4 : Tried(p, d)' => Tried(p, d)
    BY <1>1, <1>2, <2>1 DEF FindInv, Tried
  <2>3. 0 < Increment /\ Increment \in Nat
    BY FindAssumption
  <2>4. ~out_of_memory' =>
            \A p \in 1 .. 3, d \in 1 .. 4 : Tried(p, d)' => Candidate(p, d) \notin tree
    BY <1>2, <2>2, Zenon DEF FindInv
  <2> QED BY <1>1, <1>2, <2>1, <2>3, <2>4 DEF FindInv
<1>3. CASE out_of_memory' /\ NextPattern /\ dir' = dir
  BY <1>1, <1>3, SearchSpace DEF FindInv, NextPattern
<1> QED BY <1>2, <1>3 DEF StrInit, Allocates, AllocationFails

LEMMA AppendFind == ASSUME FindInv, AppendPart PROVE FindInv'
<1> DEFINE part == Candidate(pattern, dir)[Len(path) + 1]
           more == Length(part)
           appended_len == len + more
           new_max == IF appended_len >= max_len THEN appended_len + Increment ELSE max_len
<1>1. /\ search = "append" /\ UNCHANGED <<tree, home>>
      /\ \/ /\ (part = "$HOME" /\ ~home) \/ appended_len >= new_max
            /\ search' = "crashed" /\ UNCHANGED <<pattern, dir, out_of_memory>>
         \/ /\ out_of_memory' = out_of_memory
            /\ len' = appended_len /\ max_len' = new_max
            /\ UNCHANGED <<search, pattern, dir>>
         \/ out_of_memory' = TRUE /\ NextPath /\ UNCHANGED max_len
  BY Zenon DEF AppendPart, Allocates, AllocationFails
<1>2. more \in Nat
  BY LengthType
<1> HIDE DEF part, more
<1>3. /\ len \in Nat /\ max_len \in Nat /\ len < max_len /\ Increment \in Nat \ {0}
      /\ appended_len \in Nat /\ new_max \in Nat /\ appended_len < new_max
  BY <1>1, <1>2, FindAssumption DEF FindInv
<1>4. CASE search' = "crashed" /\ ~home /\ UNCHANGED <<pattern, dir, out_of_memory>>
  <2>1. \A p \in 1 .. 3, d \in 1 .. 4 : Tried(p, d)' => Tried(p, d)
    BY <1>1, <1>4 DEF Tried
  <2>2. ~out_of_memory' =>
            \A p \in 1 .. 3, d \in 1 .. 4 : Tried(p, d)' => Candidate(p, d) \notin tree
    BY <1>4, <2>1, Zenon DEF FindInv
  <2> QED BY <1>1, <1>4, <2>2 DEF FindInv
<1>5. CASE len' = appended_len /\ max_len' = new_max
           /\ UNCHANGED <<search, pattern, dir, out_of_memory>>
  <2>1. \A p \in 1 .. 3, d \in 1 .. 4 : Tried(p, d)' => Tried(p, d)
    BY <1>1, <1>5 DEF Tried
  <2>2. ~out_of_memory' =>
            \A p \in 1 .. 3, d \in 1 .. 4 : Tried(p, d)' => Candidate(p, d) \notin tree
    BY <1>5, <2>1, Zenon DEF FindInv
  <2> HIDE DEF appended_len, new_max
  <2> QED BY <1>1, <1>3, <1>5, <2>2 DEF FindInv
<1>6. CASE out_of_memory' = TRUE /\ NextPath /\ max_len' = max_len
  BY <1>1, <1>3, <1>6, NextPathFind
<1>7. ~(appended_len >= new_max)
  <2> HIDE DEF appended_len, new_max
  <2> QED BY <1>3
<1> QED BY <1>1, <1>4, <1>5, <1>6, <1>7

LEMMA OpenFind == ASSUME FindInv, Open PROVE FindInv'
<1>1. /\ search = "append" /\ UNCHANGED <<tree, home, max_len, out_of_memory>>
      /\ max_len \in Nat /\ 0 < max_len
  BY DEF Open, FindInv
<1>2. CASE Candidate(pattern, dir) \in tree
  <2>1. search' = "found" /\ UNCHANGED <<pattern, dir>>
    BY <1>2, Zenon DEF Open
  <2>2. \A p \in 1 .. 3, d \in 1 .. 4 : Tried(p, d)' => Tried(p, d)
    BY <1>1, <2>1 DEF Tried
  <2>3. ~out_of_memory' =>
            \A p \in 1 .. 3, d \in 1 .. 4 : Tried(p, d)' => Candidate(p, d) \notin tree
    BY <1>1, <2>2, Zenon DEF FindInv
  <2> QED BY <1>1, <1>2, <2>1, <2>3 DEF FindInv
<1>3. CASE Candidate(pattern, dir) \notin tree
  <2>1. NextPath
    BY <1>3, Zenon DEF Open
  <2> QED BY <1>1, <1>3, <2>1, NextPathFind
<1> QED BY <1>2, <1>3

LEMMA NextFind == FindInv /\ [Next]_vars => FindInv'
<1> SUFFICES ASSUME FindInv, [Next]_vars PROVE FindInv'
  OBVIOUS
<1>1. CASE Find
  BY <1>1, StrInitFind, AppendFind, OpenFind DEF Find
<1>2. CASE UNCHANGED findVars
  <2>1. UNCHANGED <<tree, home, search, pattern, dir, len, max_len>>
        /\ (out_of_memory => out_of_memory')
    BY <1>2, StepsOfParts DEF findVars
  <2>2. \A p \in 1 .. 3, d \in 1 .. 4 : Tried(p, d)' => Tried(p, d)
    BY <2>1 DEF Tried
  <2>3. ~out_of_memory' =>
            \A p \in 1 .. 3, d \in 1 .. 4 : Tried(p, d)' => Candidate(p, d) \notin tree
    BY <2>1, <2>2, Zenon DEF FindInv
  <2> QED BY <2>1, <2>3 DEF FindInv
<1> QED BY <1>1, <1>2, StepsOfParts

\* The directories and patterns before the current one are those that were
\* tried without finding a file (find_file()).
THEOREM FindInvariance == Spec => []FindInv
BY InitFind, NextFind, PTL DEF Spec

\* The file that is opened is the first there is; it is passed over only
\* where memory has run out, and the search fails to end only without $HOME.
THEOREM SearchFindsFirst == Spec => []FirstFound
<1>1. ASSUME FindInv PROVE FirstFound
  <2> DEFINE here == {c \in (DOMAIN Patterns) \X (DOMAIN SearchPaths) : Candidate(c[1], c[2]) \in tree}
  <2>1. pattern \in DOMAIN Patterns /\ dir \in DOMAIN SearchPaths
    BY <1>1, SearchSpace DEF FindInv
  <2>2. search = "found" => <<pattern, dir>> \in here
    BY <1>1, <2>1 DEF FindInv
  <2>3. ASSUME NEW c \in here, search = "found", ~out_of_memory
        PROVE  Order(pattern, dir) <= Order(c[1], c[2])
    <3>1. c[1] \in 1 .. 3 /\ c[2] \in 1 .. 4 /\ Candidate(c[1], c[2]) \in tree
      BY SearchSpace
    <3>2. ~Tried(c[1], c[2])
      BY <1>1, <2>3, <3>1, Zenon DEF FindInv
    <3> QED BY <1>1, <2>3, <3>1, <3>2, SearchSpace DEF Tried, Order, FindInv
  <2>4. ASSUME search = "missing", ~out_of_memory PROVE here = {}
    <3> SUFFICES ASSUME NEW c \in here PROVE FALSE
      OBVIOUS
    <3>1. c[1] \in 1 .. 3 /\ c[2] \in 1 .. 4 /\ Candidate(c[1], c[2]) \in tree
      BY SearchSpace
    <3>2. Tried(c[1], c[2])
      BY <2>4 DEF Tried
    <3> QED BY <1>1, <2>4, <3>1, <3>2, Zenon DEF FindInv
  <2>5. search = "crashed" => ~home
    BY <1>1 DEF FindInv
  <2> QED BY <2>2, <2>3, <2>4, <2>5, Zenon DEF FirstFound
<1>2. FindInv => FirstFound
  BY <1>1
<1> QED BY <1>2, FindInvariance, PTL

-----------------------------------------------------------------------------
(* The filter.  The total decimation may have wrapped, so that it is at    *)
(* most the product of the decimations, and the buffers at least as long   *)
(* as they must be.                                                        *)

StageIsSetUp(i) ==
    /\ stages[i].decimation \in Nat \ {0}
    /\ ProductTo[i] \in Nat \ {0}
    /\ fir[i].decimation = stages[i].decimation
    /\ fir[i].output_len * ProductTo[i] >= MaxInput

FilterInv ==
    /\ load \in {"idle", "init"} => total_decimation = 1 /\ fir = <<>>
    /\ load = "undefined" => total_decimation = 0
    /\ load \in {"stage", "loaded"} =>
           /\ fir \in Seq([decimation : Nat, output_len : Nat]) /\ Len(fir) \in 0 .. Len(stages)
           /\ total_decimation \in 1 .. ProductTo[Len(fir)]
           /\ ProductTo[Len(fir)] \in Nat
           /\ \A i \in 1 .. Len(fir) : StageIsSetUp(i)
    /\ load = "loaded" => Len(fir) = Len(stages)

LEMMA ProductSteps ==
    ASSUME IsFile
    PROVE  /\ Len(stages) \in Nat /\ ProductTo[0] = 1
           /\ \A i \in 1 .. Len(stages) : ProductTo[i] = ProductTo[i - 1] * stages[i].decimation
<1> DEFINE N == Len(stages)
           D == [i \in 1 .. N |-> stages[i].decimation]
           Product(f) == f = [i \in 0 .. N |-> IF i = 0 THEN 1 ELSE f[i - 1] * stages[i].decimation]
<1>1. N \in Nat
  BY FileProperties
<1> HIDE DEF N
<1>2. PICK f : f = [i \in 0 .. N |-> IF i = 0 THEN 1 ELSE f[i - 1] * D[i]]
  <2> HIDE DEF D
  <2> QED BY <1>1, RunningProduct
<1>3. Product(f)
  <2>1. \A i \in 0 .. N : i # 0 => D[i] = stages[i].decimation
    OBVIOUS
  <2> HIDE DEF D
  <2>2. [i \in 0 .. N |-> IF i = 0 THEN 1 ELSE f[i - 1] * D[i]]
            = [i \in 0 .. N |-> IF i = 0 THEN 1 ELSE f[i - 1] * stages[i].decimation]
    BY <2>1
  <2> QED BY <1>2, <2>2
<1>4. Product(CHOOSE g : Product(g))
  BY <1>3
<1>5. Product(ProductTo)
  BY <1>4 DEF N, ProductTo
<1> DEFINE P == ProductTo
<1>6. \A i \in 0 .. N : P[i] = IF i = 0 THEN 1 ELSE P[i - 1] * stages[i].decimation
  <2> HIDE DEF P
  <2>1. P = [i \in 0 .. N |-> IF i = 0 THEN 1 ELSE P[i - 1] * stages[i].decimation]
    BY <1>5 DEF P
  <2> QED BY <2>1
<1> HIDE DEF P
<1>7. P[0] = 1 /\ \A i \in 1 .. N : P[i] = P[i - 1] * stages[i].decimation
  BY <1>1, <1>6
<1> QED BY <1>1, <1>7 DEF P, N

LEMMA InitFilter == Init => FilterInv
BY DEF Init, FilterInit, FilterInv

\* What is rounded up is enough.
LEMMA RoomForAll ==
    ASSUME NEW total \in Nat \ {0}, NEW product \in Nat, total <= product
    PROVE  OutputRoom(total) \in Nat /\ OutputRoom(total) * product >= MaxInput
<1> DEFINE q == (MaxInput + total - 1) \div total
           r == (MaxInput + total - 1) % total
<1>1. MaxInput \in Nat /\ MaxInput + total - 1 \in Nat
  BY FilterLoadAssumption
<1>2. q \in Nat /\ r \in 0 .. total - 1 /\ MaxInput + total - 1 = q * total + r
  BY <1>1, QuotientAndRest
<1> HIDE DEF q, r
<1>3. total * q <= product * q /\ total * q \in Nat /\ product * q \in Nat
  BY <1>2, Multiply
<1>4. total * q = q * total /\ product * q = q * product
  BY <1>2
<1>5. q * product >= MaxInput
  BY <1>1, <1>2, <1>3, <1>4
<1> QED BY <1>2, <1>5 DEF OutputRoom, q

\* A product that wraps becomes smaller.
LEMMA Wraps == ASSUME NEW x \in Nat PROVE Unsigned(x) \in 0 .. x
<1>1. MaxUint + 1 \in Nat \ {0}
  BY MemoryAssumption
<1> DEFINE d == MaxUint + 1
<1> HIDE DEF d
<1>2. x \div d \in Nat /\ x % d \in 0 .. d - 1 /\ x = (x \div d) * d + (x % d) /\ d \in Nat
  BY <1>1, QuotientAndRest DEF d
<1> DEFINE q == x \div d
           r == x % d
<1>3. q * d \in Nat
  BY <1>2
<1>4. r \in 0 .. x
  <2> HIDE DEF q, r
  <2> QED BY <1>2, <1>3 DEF q, r
<1> QED BY <1>4 DEF Unsigned, d

LEMMA AddStageFilter == ASSUME IsFile, FilterInv, AddStage PROVE FilterInv'
<1> DEFINE len_fir == Len(fir)
           D == Stage.decimation
           P == ProductTo
           T == Unsigned(total_decimation * D)
<1>1. /\ load = "stage" /\ stages' = stages /\ len_fir \in Nat /\ len_fir < Len(stages)
      /\ fir \in Seq([decimation : Nat, output_len : Nat]) /\ Stage = stages[len_fir + 1] /\ Len(stages) \in Nat
      /\ total_decimation \in 1 .. P[len_fir] /\ P[len_fir] \in Nat
  BY ProductSteps DEF AddStage, FilterInv, Stage
<1>2. P' = P
  BY <1>1 DEF ProductTo
<1>3. CASE load' = "rejected"
  BY <1>3 DEF FilterInv
<1>4. CASE IsStage /\ total_decimation' = T /\ T = 0 /\ load' = "undefined" /\ fir' = fir
  BY <1>4 DEF FilterInv
<1>5. CASE /\ IsStage /\ total_decimation' = T /\ T # 0 /\ load' = load
           /\ fir' = Append(fir, [decimation |-> D, output_len |-> OutputRoom(T)])
  <2>1. D \in Nat \ {0} /\ D = stages[len_fir + 1].decimation
    BY <1>1, <1>5, MemoryAssumption DEF IsStage
  <2>2. P[len_fir + 1] = P[len_fir] * D
    <3>1. len_fir + 1 \in 1 .. Len(stages) /\ (len_fir + 1) - 1 = len_fir
      BY <1>1
    <3> QED BY <2>1, <3>1, ProductSteps
  <2>3. PICK p \in Nat : p = P[len_fir]
    BY <1>1
  <2>4. PICK t \in Nat : t = total_decimation /\ t \in 1 .. p
    BY <1>1, <2>3
  <2>5. T \in 0 .. t * D /\ t * D \in Nat
    <3>1. T = Unsigned(t * D) /\ t * D \in Nat
      BY <2>1, <2>4
    <3> HIDE DEF T
    <3> QED BY <3>1, Wraps
  <2>6. t * D <= p * D /\ p * D \in Nat
    BY <2>1, <2>3, <2>4, Multiply
  <2>7. P[len_fir + 1] = p * D
    BY <2>2, <2>3
  <2> HIDE DEF T, D
  <2>8. T \in 1 .. P[len_fir + 1] /\ P[len_fir + 1] \in Nat
    <3> DEFINE tD == t * D
               pD == p * D
    <3> HIDE DEF tD, pD
    <3> QED BY <1>5, <2>5, <2>6, <2>7 DEF tD, pD
  <2>9. OutputRoom(T) \in Nat /\ OutputRoom(T) * P[len_fir + 1] >= MaxInput
    <3>1. T \in Nat \ {0} /\ T <= P[len_fir + 1]
      BY <2>8
    <3> QED BY <2>8, <3>1, RoomForAll
  <2>10. /\ fir' \in Seq([decimation : Nat, output_len : Nat]) /\ Len(fir') = len_fir + 1
         /\ \A i \in 1 .. len_fir : fir'[i] = fir[i]
         /\ fir'[len_fir + 1] = [decimation |-> D, output_len |-> OutputRoom(T)]
    BY <1>1, <1>5, <2>1, <2>9
  <2>11. \A i \in 1 .. len_fir : StageIsSetUp(i)
    BY <1>1 DEF FilterInv
  <2>12. \A i \in 1 .. Len(fir') : StageIsSetUp(i)'
    <3> SUFFICES ASSUME NEW i \in 1 .. len_fir + 1 PROVE StageIsSetUp(i)'
      BY <2>10
    <3>1. CASE i \in 1 .. len_fir
      BY <1>1, <1>2, <2>10, <2>11, <3>1, Zenon DEF StageIsSetUp
    <3>2. CASE i = len_fir + 1
      <4>1. stages'[i].decimation = D /\ D \in Nat \ {0}
        BY <1>1, <2>1, <3>2
      <4>2. ProductTo'[i] = P[len_fir + 1] /\ P[len_fir + 1] \in Nat \ {0}
        BY <1>2, <2>8, <3>2
      <4>3. fir'[i].decimation = D /\ fir'[i].output_len = OutputRoom(T)
        BY <2>10, <3>2
      <4> HIDE DEF P
      <4> QED BY <2>9, <4>1, <4>2, <4>3, Zenon DEF StageIsSetUp
    <3> QED BY <1>1, <3>1, <3>2
  <2>13. total_decimation' \in 1 .. ProductTo'[Len(fir')] /\ ProductTo'[Len(fir')] \in Nat
    BY <1>2, <1>5, <2>8, <2>10
  <2>14. Len(fir') \in 0 .. Len(stages') /\ load' = "stage"
    BY <1>1, <1>5, <2>10
  <2> QED BY <2>10, <2>12, <2>13, <2>14 DEF FilterInv
<1> QED BY <1>3, <1>4, <1>5 DEF AddStage, RefusesFilter

LEMMA NextFilter == IsFile /\ FilterInv /\ [Next]_vars => FilterInv'
<1> SUFFICES ASSUME IsFile, FilterInv, [Next]_vars PROVE FilterInv'
  OBVIOUS
<1>1. stages' = stages /\ ProductTo' = ProductTo
  BY StepsOfParts DEF Contents, ProductTo
<1>2. Len(stages) \in Nat /\ ProductTo[0] = 1
  BY ProductSteps
<1>3. CASE AddStage
  BY <1>3, AddStageFilter
<1>4. CASE StartFilter
  <2>1. /\ load = "init" /\ UNCHANGED <<total_decimation, fir>> /\ load' \in {"rejected", "stage"}
    BY <1>4 DEF StartFilter, RefusesFilter
  <2>2. fir = <<>> /\ total_decimation = 1
    BY <2>1 DEF FilterInv
  <2> QED BY <1>1, <1>2, <2>1, <2>2 DEF FilterInv
<1>5. CASE FinishFilter \/ UNCHANGED filterVars
           \/ (load = "idle" /\ load' = "init" /\ UNCHANGED <<total_decimation, fir>>)
  <2>1. UNCHANGED <<total_decimation, fir>>
    BY <1>5 DEF FinishFilter, filterVars
  <2>2. \A i : StageIsSetUp(i)' <=> StageIsSetUp(i)
    BY <1>1, <2>1 DEF StageIsSetUp
  <2>3. \/ load' = load
        \/ load = "stage" /\ load' = "loaded" /\ Len(fir) = Len(stages)
        \/ load = "idle" /\ load' = "init"
    BY <1>5 DEF FinishFilter, filterVars
  <2> QED BY <1>1, <2>1, <2>2, <2>3 DEF FilterInv
<1> QED BY <1>3, <1>4, <1>5, StepsOfParts DEF LoadStages

\* The total decimation is at most the product of the decimations, and every
\* stage that is set up has room for what it makes of a full buffer
\* (fir_init()).
THEOREM FilterInvariance == Spec => []FilterInv
BY InitFilter, NextFilter, File, PTL DEF Spec

\* Every stage of a loaded filter holds what it makes of a full buffer,
\* whatever its decimations and also where their product has wrapped.
THEOREM StagesHaveRoom == Spec => []OutputsFit
<1>1. IsFile /\ FilterInv => OutputsFit
  <2>1. ASSUME IsFile, FilterInv, load = "loaded" PROVE OutputsFit
    <3>1. DOMAIN stages = 1 .. Len(fir)
      BY <2>1, FileProperties DEF FilterInv
    <3>2. \A i \in 1 .. Len(fir) : StageIsSetUp(i)
      BY <2>1 DEF FilterInv
    <3> QED BY <3>1, <3>2, Zenon DEF OutputsFit, StageIsSetUp
  <2> QED BY <2>1 DEF OutputsFit
<1> QED BY <1>1, FilterInvariance, File, PTL

-----------------------------------------------------------------------------
(* The slots of a state machine.  Those that are named come first, and no  *)
(* name is there twice, whatever the order in which forward references     *)
(* reserve them.                                                           *)

Names == {Unnamed} \cup {states[m].name : m \in DOMAIN states}
             \cup UNION {Range(states[m].targets) : m \in DOMAIN states}

Slot == [name : Names, num_triggers : Nat, triggers : Seq(0 .. Len(states))]

IsSlots(ss) == ss \in [DOMAIN states -> Slot]

InOrder(ss) ==
    \A s, t \in DOMAIN ss : ss[t].name # Unnamed =>
        /\ s < t => ss[s].name # Unnamed
        /\ ss[s].name = ss[t].name => s = t

\* A name that is given to a slot stays.
KeepsNames(ss, rs) ==
    \A s \in DOMAIN states : ss[s].name # Unnamed => rs[s].name = ss[s].name

BuildInv ==
    /\ build = "undefined" => out_of_memory
    /\ k \in Nat \ {0} /\ j \in Nat \ {0}
    /\ build \in {"idle", "init"} => k = 1
    /\ build \in {"add_state", "add_trigger", "accepted"} =>
           /\ states # <<>> /\ k <= Len(states) + 1
           /\ IsSlots(slots) /\ InOrder(slots)
    /\ build = "add_trigger" =>
           /\ k <= Len(states)
           /\ \E s \in DOMAIN slots : slots[s].name = Current.name

LEMMA StatesType ==
    ASSUME IsFile
    PROVE  /\ Len(states) \in Nat /\ DOMAIN states = 1 .. Len(states)
           /\ \A m \in DOMAIN states :
                  /\ states[m].name # Unnamed /\ states[m].name \in Names
                  /\ Len(states[m].targets) \in Nat
                  /\ DOMAIN states[m].targets = 1 .. Len(states[m].targets)
                  /\ \A t \in DOMAIN states[m].targets :
                         states[m].targets[t] # Unnamed /\ states[m].targets[t] \in Names
<1>1. Len(states) \in Nat /\ DOMAIN states = 1 .. Len(states)
  BY FileProperties
<1>2. ASSUME NEW m \in DOMAIN states
      PROVE  /\ states[m].name # Unnamed /\ states[m].name \in Names
             /\ Len(states[m].targets) \in Nat
             /\ DOMAIN states[m].targets = 1 .. Len(states[m].targets)
             /\ \A t \in DOMAIN states[m].targets :
                    states[m].targets[t] # Unnamed /\ states[m].targets[t] \in Names
  <2>1. /\ states[m].name # Unnamed
        /\ states[m].targets \in Seq(Range(states[m].targets))
        /\ Unnamed \notin Range(states[m].targets)
    BY FileProperties
  <2>2. \A t \in DOMAIN states[m].targets : states[m].targets[t] \in Range(states[m].targets)
    BY DEF Range
  <2>3. states[m].name \in Names /\ Range(states[m].targets) \subseteq Names
    BY DEF Names
  <2> QED BY <2>1, <2>2, <2>3
<1> QED BY <1>1, <1>2

LEMMA MinIs ==
    ASSUME NEW S \in SUBSET Nat, S # {}
    PROVE  Min(S) \in S /\ \A x \in S : Min(S) <= x
<1>1. \E x \in S : \A y \in S : x <= y
  BY Least
<1> QED BY <1>1 DEF Min

\* The slot for a name: the one that has it or the first free one, and where
\* there is neither, none.
LEMMA SlotOf ==
    ASSUME IsFile, states # <<>>, NEW ss, IsSlots(ss), InOrder(ss), NEW name, name # Unnamed,
           NEW s, s = SlotFor(ss, name)
    PROVE  \/ s = NULL /\ \A t \in DOMAIN ss : ss[t].name \notin {name, Unnamed}
           \/ /\ s # NULL /\ s \in DOMAIN ss /\ ss[s].name \in {name, Unnamed}
              /\ \A t \in DOMAIN ss : t < s => ss[t].name \notin {name, Unnamed}
              /\ \A t \in DOMAIN ss : ss[t].name = name => t = s
<1>1. DOMAIN ss = 1 .. Len(states) /\ Len(states) \in Nat /\ 1 \in DOMAIN ss
  BY StatesType, FileProperties DEF IsSlots
<1>2. CASE Matches(ss, name) = {} /\ s = NULL
  BY <1>2 DEF Matches
<1>3. ASSUME s \in DOMAIN ss, ss[s].name \in {name, Unnamed},
             \A t \in DOMAIN ss : t < s => ss[t].name \notin {name, Unnamed}
      PROVE  \A t \in DOMAIN ss : ss[t].name = name => t = s
  <2> SUFFICES ASSUME NEW t \in DOMAIN ss, ss[t].name = name PROVE t = s
    OBVIOUS
  <2>1. CASE ss[s].name = name
    BY <1>3, <2>1 DEF InOrder
  <2>2. CASE ss[s].name = Unnamed
    <3>1. ~(s < t)
      BY <2>2, <1>3 DEF InOrder
    <3>2. ~(t < s)
      BY <1>3
    <3> QED BY <1>1, <1>3, <3>1, <3>2
  <2> QED BY <1>3, <2>1, <2>2
<1>4. CASE name \in ResetNames /\ ss[1].name = Unnamed
  <2>1. s = 1
    BY <1>4 DEF SlotFor
  <2> QED BY <1>1, <1>3, <1>4, <2>1 DEF NULL
<1>5. CASE Matches(ss, name) # {} /\ s = Min(Matches(ss, name))
  <2>1. Matches(ss, name) \in SUBSET Nat
    BY <1>1 DEF Matches
  <2>2. s \in Matches(ss, name) /\ \A t \in Matches(ss, name) : s <= t
    BY <1>5, <2>1, MinIs
  <2>3. s \in DOMAIN ss /\ ss[s].name \in {name, Unnamed}
    BY <2>2 DEF Matches
  <2>4. \A t \in DOMAIN ss : t < s => ss[t].name \notin {name, Unnamed}
    BY <1>1, <2>2 DEF Matches
  <2> QED BY <1>1, <1>3, <2>3, <2>4 DEF NULL
<1> QED BY <1>2, <1>4, <1>5 DEF SlotFor

LEMMA Reserves ==
    ASSUME IsFile, states # <<>>, NEW ss, IsSlots(ss), InOrder(ss),
           NEW name \in Names, name # Unnamed, NEW s, s = SlotFor(ss, name), s # NULL,
           NEW rs, rs = Reserve(ss, name)
    PROVE  /\ IsSlots(rs) /\ InOrder(rs) /\ KeepsNames(ss, rs)
           /\ s \in DOMAIN states /\ ss[s].name \in {name, Unnamed} /\ rs[s].name = name
           /\ \A t \in DOMAIN states :
                  /\ t # s => rs[t] = ss[t]
                  /\ rs[t].triggers = ss[t].triggers /\ rs[t].num_triggers = ss[t].num_triggers
<1>1. /\ s \in DOMAIN ss /\ ss[s].name \in {name, Unnamed}
      /\ \A t \in DOMAIN ss : t < s => ss[t].name \notin {name, Unnamed}
      /\ \A t \in DOMAIN ss : ss[t].name = name => t = s
  BY SlotOf
<1>2. DOMAIN ss = DOMAIN states /\ DOMAIN states \subseteq Nat
  BY StatesType DEF IsSlots
<1>3. rs = [ss EXCEPT ![s].name = name]
  BY DEF Reserve
<1>4. IsSlots(rs)
  BY <1>1, <1>3 DEF IsSlots, Slot
<1>5. rs[s].name = name
  BY <1>1, <1>3 DEF IsSlots, Slot
<1>6. \A t \in DOMAIN states :
          /\ t # s => rs[t] = ss[t]
          /\ rs[t].triggers = ss[t].triggers /\ rs[t].num_triggers = ss[t].num_triggers
  BY <1>1, <1>3 DEF IsSlots, Slot
<1>7. KeepsNames(ss, rs)
  BY <1>1, <1>5, <1>6 DEF KeepsNames
<1>8. InOrder(rs)
  <2>1. DOMAIN rs = DOMAIN ss
    BY <1>3
  <2> SUFFICES ASSUME NEW t \in DOMAIN ss, NEW u \in DOMAIN ss, rs[u].name # Unnamed
               PROVE  (t < u => rs[t].name # Unnamed) /\ (rs[t].name = rs[u].name => t = u)
    BY <2>1 DEF InOrder
  <2>2. CASE u = s
    BY <1>1, <1>2, <1>5, <1>6, <2>2
  <2>3. CASE u # s /\ t = s
    BY <1>1, <1>2, <1>5, <1>6, <2>3
  <2>4. CASE u # s /\ t # s
    BY <1>2, <1>6, <2>4 DEF InOrder
  <2> QED BY <2>2, <2>3, <2>4
<1> QED BY <1>1, <1>2, <1>4, <1>5, <1>6, <1>7, <1>8

\* Only the names matter for the order.
LEMMA OrderOfNames ==
    ASSUME NEW ss, NEW rs, IsSlots(ss), IsSlots(rs), InOrder(ss),
           \A s \in DOMAIN states : rs[s].name = ss[s].name
    PROVE  InOrder(rs)
BY DEF IsSlots, InOrder

\* The state that a trigger is added to is found by its name, and all before
\* it have names to compare.
LEMMA OwnIs ==
    ASSUME IsFile, IsSlots(slots), InOrder(slots), NEW name, name # Unnamed,
           NEW s \in DOMAIN slots, slots[s].name = name
    PROVE  Own(name) = s /\ ~MeetsUnnamed(name)
<1>1. DOMAIN slots = 1 .. Len(states) /\ Len(states) \in Nat
  BY StatesType DEF IsSlots
<1>2. Lookup(slots, name) \in SUBSET Nat /\ s \in Lookup(slots, name)
  BY <1>1 DEF Lookup
<1>3. Own(name) \in Lookup(slots, name)
  BY <1>2, MinIs DEF Own
<1>4. Own(name) = s
  BY <1>3 DEF Lookup, InOrder
<1>5. ASSUME NEW t \in 1 .. s, slots[t].name = Unnamed PROVE FALSE
  <2>1. t \in DOMAIN slots /\ t # s /\ t < s
    BY <1>1, <1>5
  <2> QED BY <1>5, <2>1 DEF InOrder
<1> QED BY <1>4, <1>5 DEF MeetsUnnamed

\* What adding a state does to the slots.
LEMMA AddStateSlots ==
    ASSUME IsFile, BuildInv, AddState, build' = "add_trigger"
    PROVE  /\ k <= Len(states) /\ Current.targets # <<>>
           /\ IsSlots(slots') /\ InOrder(slots') /\ KeepsNames(slots, slots')
           /\ \E s \in DOMAIN states :
                  /\ s = SlotFor(slots, Current.name)
                  /\ slots[s].name \in {Current.name, Unnamed}
                  /\ slots'[s].name = Current.name /\ slots'[s].triggers = <<>>
                  /\ slots'[s].num_triggers = Len(Current.targets)
                  /\ \A t \in DOMAIN states : t # s => slots'[t] = slots[t]
<1> DEFINE name == Current.name
           s == SlotFor(slots, name)
           rs == Reserve(slots, name)
<1>1. /\ k <= Len(states) /\ Current.targets # <<>> /\ s # NULL
      /\ slots' = [rs EXCEPT ![s].num_triggers = Len(Current.targets), ![s].triggers = <<>>]
  BY Zenon DEF AddState, Rejected, Undefined
<1>2. states # <<>> /\ IsSlots(slots) /\ InOrder(slots) /\ k \in DOMAIN states
  BY <1>1, StatesType DEF BuildInv, AddState
<1>3. name # Unnamed /\ name \in Names /\ Len(Current.targets) \in Nat
  BY <1>2, StatesType DEF Current
<1>4. /\ IsSlots(rs) /\ InOrder(rs) /\ KeepsNames(slots, rs)
      /\ s \in DOMAIN states /\ slots[s].name \in {name, Unnamed} /\ rs[s].name = name
      /\ \A t \in DOMAIN states : t # s => rs[t] = slots[t]
  <2> HIDE DEF name, rs, s
  <2> QED BY <1>1, <1>2, <1>3, Reserves DEF rs, s
<1> HIDE DEF name, rs, s
<1> DEFINE qs == [rs EXCEPT ![s].num_triggers = Len(Current.targets)]
<1>5. /\ IsSlots(qs) /\ qs[s].num_triggers = Len(Current.targets)
      /\ \A t \in DOMAIN states : qs[t].name = rs[t].name /\ (t # s => qs[t] = rs[t])
  <2>1. Len(Current.targets) \in Nat /\ s \in DOMAIN states /\ IsSlots(rs)
    BY <1>3, <1>4
  <2> QED BY <2>1 DEF IsSlots, Slot
<1>6. slots' = [qs EXCEPT ![s].triggers = <<>>]
  BY <1>1
<1> HIDE DEF qs
<1>7. /\ IsSlots(slots') /\ slots'[s].triggers = <<>>
      /\ \A t \in DOMAIN states :
             /\ slots'[t].name = rs[t].name
             /\ t # s => slots'[t] = rs[t]
      /\ slots'[s].num_triggers = Len(Current.targets)
  <2>1. <<>> \in Seq(0 .. Len(states))
    OBVIOUS
  <2>2. /\ IsSlots(slots') /\ slots'[s].triggers = <<>>
        /\ \A t \in DOMAIN states :
               /\ slots'[t].name = qs[t].name /\ slots'[t].num_triggers = qs[t].num_triggers
               /\ t # s => slots'[t] = qs[t]
    BY <1>4, <1>5, <1>6, <2>1 DEF IsSlots, Slot
  <2> QED BY <1>4, <1>5, <2>2
<1>8. InOrder(slots')
  BY <1>4, <1>7, OrderOfNames
<1>9. KeepsNames(slots, slots')
  BY <1>4, <1>7 DEF KeepsNames
<1>10. \A t \in DOMAIN states : t # s => slots'[t] = slots[t]
  BY <1>4, <1>7
<1>11. slots'[s].name = name
  BY <1>4, <1>7
<1> QED BY <1>1, <1>4, <1>7, <1>8, <1>9, <1>10, <1>11, Zenon DEF name, s

\* What adding a trigger does to the slots.
LEMMA AddTriggerSlots ==
    ASSUME IsFile, BuildInv, AddTrigger
    PROVE  /\ k \in DOMAIN states /\ j \in DOMAIN Current.targets
           /\ \/ /\ Current.targets[j] = Malformed /\ build' = "rejected"
              \/ /\ build' = build /\ j' = j + 1 /\ (out_of_memory => out_of_memory')
                 /\ IsSlots(slots') /\ InOrder(slots') /\ KeepsNames(slots, slots')
                 /\ \A t \in DOMAIN states :
                        /\ slots'[t].name \in {slots[t].name, Current.targets[j]}
                        /\ slots'[t].num_triggers = slots[t].num_triggers
                 /\ \E o \in DOMAIN states, next \in 0 .. Len(states) :
                        /\ slots[o].name = Current.name
                        /\ slots'[o].triggers = Append(slots[o].triggers, next)
                        /\ \A t \in DOMAIN states : t # o => slots'[t].triggers = slots[t].triggers
                        /\ next # NULL => next \in DOMAIN states /\ slots'[next].name = Current.targets[j]
                        /\ next = NULL => \/ out_of_memory'
                                          \/ \A t \in DOMAIN states :
                                                 slots[t].name \notin {Current.targets[j], Unnamed}
<1> DEFINE name == Current.targets[j]
           s == SlotFor(slots, name)
           rs == Reserve(slots, name)
<1>1. /\ states # <<>> /\ IsSlots(slots) /\ InOrder(slots) /\ k \in DOMAIN states
      /\ j \in DOMAIN Current.targets /\ DOMAIN slots = DOMAIN states
  BY StatesType DEF BuildInv, AddTrigger, Current, IsSlots
<1>2. PICK o \in DOMAIN states : slots[o].name = Current.name
  BY <1>1 DEF BuildInv, AddTrigger
<1>3. Current.name # Unnamed /\ name # Unnamed /\ name \in Names
  BY <1>1, StatesType DEF Current
<1>4. Own(Current.name) = o /\ ~MeetsUnnamed(Current.name)
  BY <1>1, <1>2, <1>3, OwnIs
<1>5. \/ name = Malformed /\ build' = "rejected"
      \/ /\ build' = build /\ j' = j + 1 /\ (out_of_memory => out_of_memory')
         /\ \/ slots' = [rs EXCEPT ![o].triggers = Append(@, s)]
            \/ slots' = [slots EXCEPT ![o].triggers = Append(@, NULL)] /\ out_of_memory'
  BY <1>4, Zenon DEF AddTrigger, Rejected, FillTrigger, Allocates, AllocationFails
<1>6. DOMAIN states = 1 .. Len(states) /\ Len(states) \in Nat
  BY StatesType
<1> HIDE DEF name, s, rs
<1>7. ASSUME NEW qs, IsSlots(qs), InOrder(qs), NEW next \in 0 .. Len(states),
             slots' = [qs EXCEPT ![o].triggers = Append(@, next)]
      PROVE  /\ IsSlots(slots') /\ InOrder(slots')
             /\ slots'[o].triggers = Append(qs[o].triggers, next)
             /\ \A t \in DOMAIN states :
                    /\ slots'[t].name = qs[t].name /\ slots'[t].num_triggers = qs[t].num_triggers
                    /\ t # o => slots'[t].triggers = qs[t].triggers
  <2>1. Append(qs[o].triggers, next) \in Seq(0 .. Len(states))
    <3>1. qs[o].triggers \in Seq(0 .. Len(states))
      BY <1>7 DEF IsSlots, Slot
    <3> QED BY <3>1
  <2>2. slots' = [qs EXCEPT ![o].triggers = Append(qs[o].triggers, next)]
    BY <1>7
  <2>3. /\ IsSlots(slots') /\ slots'[o].triggers = Append(qs[o].triggers, next)
        /\ \A t \in DOMAIN states :
               /\ slots'[t].name = qs[t].name /\ slots'[t].num_triggers = qs[t].num_triggers
               /\ t # o => slots'[t] = qs[t]
    BY <1>7, <2>1, <2>2 DEF IsSlots, Slot
  <2>4. InOrder(slots')
    BY <1>7, <2>3, OrderOfNames
  <2> QED BY <2>3, <2>4
<1>8. CASE /\ build' = build /\ j' = j + 1 /\ (out_of_memory => out_of_memory')
           /\ slots' = [rs EXCEPT ![o].triggers = Append(@, s)]
  <2>1. CASE s = NULL
    <3>1. rs = slots
      BY <2>1 DEF rs, s, Reserve
    <3>2. \A t \in DOMAIN states : slots[t].name \notin {name, Unnamed}
      BY <1>1, <1>3, <1>6, <2>1, SlotOf DEF s, NULL
    <3>3. s \in 0 .. Len(states)
      BY <1>6, <2>1 DEF NULL
    <3>4. /\ IsSlots(slots') /\ InOrder(slots')
          /\ slots'[o].triggers = Append(slots[o].triggers, s)
          /\ \A t \in DOMAIN states :
                 /\ slots'[t].name = slots[t].name
                 /\ slots'[t].num_triggers = slots[t].num_triggers
                 /\ t # o => slots'[t].triggers = slots[t].triggers
      BY <1>1, <1>7, <1>8, <3>1, <3>3
    <3> QED BY <1>1, <1>2, <1>8, <2>1, <3>2, <3>3, <3>4 DEF KeepsNames, name
  <2>2. CASE s # NULL
    <3>1. /\ IsSlots(rs) /\ InOrder(rs) /\ KeepsNames(slots, rs)
          /\ s \in DOMAIN states /\ slots[s].name \in {name, Unnamed} /\ rs[s].name = name
          /\ \A t \in DOMAIN states :
                 /\ t # s => rs[t] = slots[t]
                 /\ rs[t].triggers = slots[t].triggers /\ rs[t].num_triggers = slots[t].num_triggers
      BY <1>1, <1>3, <2>2, Reserves DEF s, rs
    <3>2. s \in 0 .. Len(states)
      BY <1>6, <3>1
    <3>3. /\ IsSlots(slots') /\ InOrder(slots')
          /\ slots'[o].triggers = Append(rs[o].triggers, s)
          /\ \A t \in DOMAIN states :
                 /\ slots'[t].name = rs[t].name /\ slots'[t].num_triggers = rs[t].num_triggers
                 /\ t # o => slots'[t].triggers = rs[t].triggers
      BY <1>7, <1>8, <3>1, <3>2
    <3>4. \A t \in DOMAIN states : slots'[t].name \in {slots[t].name, name}
      BY <3>1, <3>3
    <3>5. KeepsNames(slots, slots')
      BY <3>1, <3>3 DEF KeepsNames
    <3>6. /\ slots'[o].triggers = Append(slots[o].triggers, s)
          /\ slots'[s].name = name
          /\ \A t \in DOMAIN states :
                 /\ slots'[t].num_triggers = slots[t].num_triggers
                 /\ t # o => slots'[t].triggers = slots[t].triggers
      BY <1>2, <3>1, <3>3
    <3> QED BY <1>1, <1>2, <1>8, <2>2, <3>1, <3>2, <3>3, <3>4, <3>5, <3>6 DEF name
  <2> QED BY <2>1, <2>2
<1>9. CASE /\ build' = build /\ j' = j + 1 /\ (out_of_memory => out_of_memory')
           /\ slots' = [slots EXCEPT ![o].triggers = Append(@, NULL)] /\ out_of_memory'
  <2>1. NULL \in 0 .. Len(states)
    BY <1>6 DEF NULL
  <2>2. /\ IsSlots(slots') /\ InOrder(slots')
        /\ slots'[o].triggers = Append(slots[o].triggers, NULL)
        /\ \A t \in DOMAIN states :
               /\ slots'[t].name = slots[t].name
               /\ slots'[t].num_triggers = slots[t].num_triggers
               /\ t # o => slots'[t].triggers = slots[t].triggers
    BY <1>1, <1>7, <1>9, <2>1
  <2> QED BY <1>1, <1>2, <1>9, <2>1, <2>2 DEF KeepsNames, name
<1> QED BY <1>1, <1>5, <1>8, <1>9 DEF name

LEMMA InitBuild == Init => BuildInv
BY DEF Init, BuildInit, BuildInv

LEMMA SmInitBuild == ASSUME IsFile, BuildInv, SmInit, UNCHANGED states PROVE BuildInv'
<1>1. UNCHANGED <<states, k, j>>
  BY DEF SmInit
<1>2. CASE build' = "rejected" \/ (build' = "undefined" /\ out_of_memory')
  BY <1>1, <1>2 DEF BuildInv
<1>3. CASE build' = "add_state" /\ states # <<>> /\ slots' = [s \in DOMAIN states |-> Free]
  <2>1. Free \in Slot
    <3>1. Unnamed \in Names /\ <<>> \in Seq(0 .. Len(states))
      BY DEF Names
    <3> HIDE DEF Names
    <3> QED BY <3>1 DEF Free, Slot
  <2>2. IsSlots(slots')
    BY <1>3, <2>1 DEF IsSlots
  <2>3. InOrder(slots')
    BY <1>3 DEF InOrder, Free
  <2>4. k <= Len(states) + 1
    <3>1. k = 1
      BY DEF SmInit, BuildInv
    <3> QED BY <3>1, StatesType
  <2>5. IsSlots(slots)'
    BY <1>1, <2>2 DEF IsSlots, Slot, Names
  <2> QED BY <1>1, <1>3, <2>3, <2>4, <2>5 DEF BuildInv
<1> QED BY <1>2, <1>3 DEF SmInit, Rejected, Undefined, AllocationFails

LEMMA AddStateBuild == ASSUME IsFile, BuildInv, AddState, UNCHANGED states PROVE BuildInv'
<1>1. UNCHANGED <<states, k>> /\ j' = 1
  BY DEF AddState
<1>2. CASE build' = "rejected" \/ (build' = "undefined" /\ out_of_memory')
  BY <1>1, <1>2 DEF BuildInv
<1>3. CASE build' = "add_trigger"
  <2>1. /\ k <= Len(states) /\ IsSlots(slots') /\ InOrder(slots')
        /\ \E s \in DOMAIN states : slots'[s].name = Current.name
    BY <1>3, AddStateSlots
  <2>2. IsSlots(slots)'
    BY <1>1, <2>1 DEF IsSlots, Slot, Names
  <2>3. DOMAIN slots' = DOMAIN states /\ Current' = Current
    BY <1>1, <2>1 DEF IsSlots, Current
  <2> QED BY <1>1, <1>3, <2>1, <2>2, <2>3 DEF BuildInv, AddState
<1> QED BY <1>2, <1>3 DEF AddState, Rejected, Undefined, AllocationFails

LEMMA AddTriggerBuild == ASSUME IsFile, BuildInv, AddTrigger, UNCHANGED states PROVE BuildInv'
<1>1. UNCHANGED <<states, k>> /\ build = "add_trigger"
  BY DEF AddTrigger
<1>2. CASE build' = "rejected"
  <2>1. j' = j
    BY <1>1, <1>2 DEF AddTrigger, Rejected
  <2> QED BY <1>1, <1>2, <2>1 DEF BuildInv
<1>3. CASE /\ build' = build /\ j' = j + 1 /\ (out_of_memory => out_of_memory')
           /\ IsSlots(slots') /\ InOrder(slots') /\ KeepsNames(slots, slots')
  <2>1. IsSlots(slots)'
    BY <1>1, <1>3 DEF IsSlots, Slot, Names
  <2>2. DOMAIN slots' = DOMAIN states /\ DOMAIN slots = DOMAIN states /\ Current' = Current
    BY <1>1, <1>3 DEF IsSlots, Current, BuildInv
  <2>3. Current.name # Unnamed
    BY <1>1, StatesType DEF Current, BuildInv
  <2>4. \E s \in DOMAIN slots' : slots'[s].name = Current.name
    BY <1>1, <1>3, <2>2, <2>3 DEF BuildInv, KeepsNames
  <2> QED BY <1>1, <1>3, <2>1, <2>2, <2>4 DEF BuildInv
<1> QED BY <1>2, <1>3, AddTriggerSlots

LEMMA NextBuild == IsFile /\ BuildInv /\ [Next]_vars => BuildInv'
<1> SUFFICES ASSUME IsFile, BuildInv, [Next]_vars PROVE BuildInv'
  OBVIOUS
<1>1. UNCHANGED states /\ (out_of_memory => out_of_memory')
  BY StepsOfParts DEF Contents
<1>2. IsSlots(slots') <=> IsSlots(slots)'
  BY <1>1 DEF IsSlots, Slot, Names
<1>3. CASE SmInit
  BY <1>1, <1>3, SmInitBuild
<1>4. CASE AddState
  BY <1>1, <1>4, AddStateBuild
<1>5. CASE AddTrigger
  BY <1>1, <1>5, AddTriggerBuild
<1>6. CASE NextState
  <2>1. /\ build = "add_trigger" /\ build' = "add_state" /\ k' = k + 1
        /\ UNCHANGED <<j, slots, out_of_memory>>
    BY <1>6 DEF NextState
  <2>2. Len(states) \in Nat
    BY StatesType
  <2> QED BY <1>1, <1>2, <2>1, <2>2 DEF BuildInv
<1>7. CASE Finish
  <2>1. /\ build = "add_state" /\ build' \in {"accepted", "rejected"}
        /\ UNCHANGED <<k, j, slots, out_of_memory>>
    BY <1>7 DEF Finish
  <2> QED BY <1>1, <1>2, <2>1 DEF BuildInv
<1>8. CASE UNCHANGED buildVars \/ (build = "idle" /\ build' = "init" /\ UNCHANGED <<k, j, slots>>)
  <2>1. UNCHANGED <<k, j, slots>> /\ Current' = Current
    BY <1>1, <1>8 DEF buildVars, Current
  <2>2. build' = build \/ (build = "idle" /\ build' = "init")
    BY <1>8 DEF buildVars
  <2> QED BY <1>1, <1>2, <2>1, <2>2 DEF BuildInv
<1> QED BY <1>3, <1>4, <1>5, <1>6, <1>7, <1>8, StepsOfParts DEF CreateStateMachine

\* The named slots come first and no name is there twice, so that the search
\* of sm_add_state_trigger() never compares a name that is not there.
THEOREM BuildInvariance == Spec => []BuildInv
BY InitBuild, NextBuild, File, PTL DEF Spec

-----------------------------------------------------------------------------
(* Undefined behaviour.                                                    *)

UndefinedInv ==
    /\ format = "undefined" => out_of_memory
    /\ LoadsOrRefuses

LEMMA InitUndefined == Init => UndefinedInv
BY DEF Init, FormatInit, UndefinedInv, LoadsOrRefuses

LEMMA FormatUndefined ==
    ASSUME format = "undefined" => out_of_memory, [Next]_vars
    PROVE  (format = "undefined" => out_of_memory)'
<1>1. out_of_memory => out_of_memory'
  BY StepsOfParts
<1>2. CASE CreateFormatter
  <2>1. format' = "undefined" => out_of_memory'
    BY <1>2 DEF CreateFormatter, FormatterInit, AddField, AddEnum, EnumsDone, SetDefault,
                FinishFormatter, Refused, AllocationFails
  <2> QED BY <2>1
<1>3. CASE UNCHANGED formatVars \/ (format = "idle" /\ format' = "init" /\ UNCHANGED <<n, e, formatter, lost>>)
  BY <1>1, <1>3 DEF formatVars
<1> QED BY <1>2, <1>3, StepsOfParts

LEMMA NextUndefined ==
    ASSUME FindInv, BuildInv, FilterInv, UndefinedInv, [Next]_vars
    PROVE  UndefinedInv'
<1>1. home' = home /\ (out_of_memory => out_of_memory')
  BY StepsOfParts DEF Contents
<1>2. (format = "undefined" => out_of_memory)'
  BY FormatUndefined DEF UndefinedInv
<1>3. CASE loader' # "undefined"
  BY <1>2, <1>3 DEF UndefinedInv, LoadsOrRefuses
<1>4. CASE loader = "undefined"
  <2>1. UNCHANGED vars
    BY <1>4 DEF Next, FindStep, FindDone, AllocateDevice, LoadJson, ReadName, ReadDescription,
                ReadData, Reads, Build, Format, AllocateValues, Stages, Out
  <2>2. total_decimation' = total_decimation /\ loader' = loader
    BY <2>1 DEF vars, ownVars, filterVars
  <2> QED BY <1>1, <1>2, <2>2 DEF UndefinedInv, LoadsOrRefuses
<1>5. CASE loader # "undefined" /\ loader' = "undefined"
  <2>1. CASE FindDone
    <3>1. search = "crashed"
      BY <1>5, <2>1 DEF FindDone, Goto
    <3> QED BY <1>1, <1>2, <3>1 DEF UndefinedInv, LoadsOrRefuses, FindInv
  <2>2. CASE Build
    <3>1. build = "undefined" /\ out_of_memory' = out_of_memory
      BY <1>5, <2>2 DEF Build, Goto, Fails
    <3> QED BY <1>2, <3>1 DEF UndefinedInv, LoadsOrRefuses, BuildInv
  <2>3. CASE Format
    <3>1. format = "undefined" /\ out_of_memory' = out_of_memory
      BY <1>5, <2>3 DEF Format, Goto, Fails
    <3> QED BY <1>2, <3>1 DEF UndefinedInv, LoadsOrRefuses
  <2>4. CASE Stages
    <3>1. load = "undefined" /\ total_decimation' = total_decimation
      BY <1>5, <2>4 DEF Stages, Goto, Fails, filterVars
    <3> QED BY <1>2, <3>1 DEF UndefinedInv, LoadsOrRefuses, FilterInv
  <2>5. ASSUME NEW label, NEW part, NEW next, Reads(label, part, next), next # "undefined" PROVE FALSE
    BY <1>5, <2>5 DEF Reads, Goto, Fails
  <2>6. CASE AllocateDevice \/ LoadJson \/ ReadName \/ ReadDescription \/ ReadData \/ AllocateValues
    BY <2>5, <2>6 DEF AllocateDevice, LoadJson, ReadName, ReadDescription, ReadData, AllocateValues
  <2>7. CASE FindStep \/ Out \/ UNCHANGED vars
    BY <1>5, <2>7 DEF FindStep, Out, Goto, vars, ownVars
  <2> QED BY <2>1, <2>2, <2>3, <2>4, <2>6, <2>7 DEF Next
<1> QED BY <1>3, <1>4, <1>5

\* Whatever a file holds, it is loaded or refused without following a
\* pointer that is not there or dividing by zero, as long as there is memory,
\* $HOME is set, and the decimations do not multiply to zero.
THEOREM NothingUndefined == Spec => []LoadsOrRefuses
<1>1. UndefinedInv => LoadsOrRefuses
  BY DEF UndefinedInv
<1> QED BY <1>1, InitUndefined, NextUndefined, FindInvariance, BuildInvariance, FilterInvariance,
           PTL DEF Spec

-----------------------------------------------------------------------------
(* A closed description is built.  Every state that was added has a slot   *)
(* with its name and its triggers, and there are as many slots as names:   *)
(* as long as a declared name has no slot there is a free one, and once    *)
(* all have one there is no slot left over.                                *)

Declared == {states[m].name : m \in DOMAIN states}

OnlyDeclared(ss) ==
    \A s \in DOMAIN states : ss[s].name # Unnamed => ss[s].name \in Declared

\* The triggers of slot s lead where those of the described state m do.
Leads(s, m) ==
    \A t \in DOMAIN slots[s].triggers :
        LET next == slots[s].triggers[t]
        IN  IF next = NULL THEN out_of_memory
            ELSE next \in DOMAIN states /\ slots[next].name = states[m].targets[t]

\* State m has a slot, with the first of its triggers.
Holds(s, m, filled) ==
    /\ slots[s].name = states[m].name
    /\ slots[s].num_triggers = Len(states[m].targets)
    /\ Len(slots[s].triggers) = filled
    /\ Leads(s, m)

AddedTo(m, filled) == \E s \in DOMAIN states : Holds(s, m, filled)

ClosedInv ==
    Closed =>
        /\ build = "rejected" => out_of_memory
        /\ build \in {"add_state", "add_trigger", "accepted"} =>
               /\ OnlyDeclared(slots)
               /\ \A m \in 1 .. k - 1 : AddedTo(m, Len(states[m].targets))
               /\ IF k = 1 /\ build = "add_state"
                  THEN \A s \in DOMAIN states : slots[s].name = Unnamed
                  ELSE slots[1].name = states[1].name
        /\ build = "add_trigger" => AddedTo(k, j - 1) /\ j <= Len(Current.targets) + 1
        /\ build = "accepted" => k = Len(states) + 1

LEMMA NamesDistinct ==
    ASSUME IsFile, Closed
    PROVE  /\ states # <<>> /\ IsFiniteSet(Declared) /\ Cardinality(Declared) = Len(states)
           /\ IsFiniteSet(DOMAIN states) /\ Cardinality(DOMAIN states) = Len(states)
           /\ \A m, o \in DOMAIN states : states[m].name = states[o].name => m = o
           /\ \A m \in DOMAIN states : states[m].name \in Declared /\ states[m].targets # <<>>
           /\ \A m \in DOMAIN states : \A t \in DOMAIN states[m].targets :
                  states[m].targets[t] \in Declared
<1>1. DOMAIN states = 1 .. Len(states) /\ Len(states) \in Nat
  BY StatesType
<1>2. IsFiniteSet(DOMAIN states) /\ Cardinality(DOMAIN states) = Len(states)
  <2> DEFINE N == Len(states)
  <2>1. N \in Nat /\ 1 \in Int /\ DOMAIN states = 1 .. N
    BY <1>1
  <2> HIDE DEF N
  <2>2. IsFiniteSet(1 .. N) /\ Cardinality(1 .. N) = IF 1 > N THEN 0 ELSE N - 1 + 1
    BY <2>1, FS_Interval
  <2>3. (IF 1 > N THEN 0 ELSE N - 1 + 1) = N
    BY <2>1
  <2> QED BY <2>1, <2>2, <2>3 DEF N
<1>3. Cardinality(Declared) = Len(states) /\ states # <<>>
  BY DEF Closed, Declared
<1> DEFINE f == [m \in DOMAIN states |-> states[m].name]
<1>4. f \in Surjection(DOMAIN states, Declared)
  BY DEF Surjection, Declared
<1>5. f \in Injection(DOMAIN states, Declared) /\ IsFiniteSet(Declared)
  <2> HIDE DEF f
  <2> QED BY <1>2, <1>3, <1>4, FS_Surjection
<1>6. \A m, o \in DOMAIN states : states[m].name = states[o].name => m = o
  BY <1>5 DEF Injection, IsInjective
<1>7. \A m \in DOMAIN states : states[m].targets # <<>>
  BY DEF Closed
<1>8. \A m \in DOMAIN states : \A t \in DOMAIN states[m].targets :
          states[m].targets[t] \in Declared
  BY Zenon DEF Closed, Declared, Range
<1>9. \A m \in DOMAIN states : states[m].name \in Declared
  BY DEF Declared
<1> QED BY <1>2, <1>3, <1>5, <1>6, <1>7, <1>8, <1>9

\* When there is no free slot, every declared name has one.
LEMMA FullHouse ==
    ASSUME IsFile, Closed, NEW ss, IsSlots(ss), InOrder(ss), OnlyDeclared(ss),
           NEW name \in Declared, \A t \in DOMAIN states : ss[t].name \notin {name, Unnamed}
    PROVE  FALSE
<1> DEFINE f == [t \in DOMAIN states |-> ss[t].name]
<1>1. \A t \in DOMAIN states : ss[t].name \in Declared
  BY DEF OnlyDeclared
<1>2. \A t, u \in DOMAIN states : ss[t].name = ss[u].name => t = u
  BY DEF IsSlots, InOrder
<1>3. f \in Injection(DOMAIN states, Declared)
  BY <1>1, <1>2 DEF Injection, IsInjective
<1>4. f \in Surjection(DOMAIN states, Declared)
  <2> HIDE DEF f
  <2> QED BY <1>3, NamesDistinct, FS_Injection
<1>5. PICK t \in DOMAIN states : f[t] = name
  BY <1>4 DEF Surjection
<1> QED BY <1>5

\* When every declared name has a slot, no other slot is left.
LEMMA NoneLeftOver ==
    ASSUME IsFile, Closed, NEW ss, IsSlots(ss), InOrder(ss),
           \A m \in DOMAIN states : \E s \in DOMAIN states : ss[s].name = states[m].name
    PROVE  \A s \in DOMAIN states : \E m \in DOMAIN states : ss[s].name = states[m].name
<1> DEFINE f == [m \in DOMAIN states |-> CHOOSE s \in DOMAIN states : ss[s].name = states[m].name]
<1>1. \A m \in DOMAIN states : f[m] \in DOMAIN states /\ ss[f[m]].name = states[m].name
  OBVIOUS
<1>2. f \in [DOMAIN states -> DOMAIN states]
  BY <1>1
<1> HIDE DEF f
<1>3. \A m, o \in DOMAIN states : f[m] = f[o] => m = o
  <2>1. \A m, o \in DOMAIN states : states[m].name = states[o].name => m = o
    BY NamesDistinct
  <2> SUFFICES ASSUME NEW m \in DOMAIN states, NEW o \in DOMAIN states, f[m] = f[o] PROVE m = o
    OBVIOUS
  <2>2. states[m].name = states[o].name
    BY <1>1
  <2> QED BY <2>1, <2>2
<1>4. f \in Injection(DOMAIN states, DOMAIN states)
  BY <1>2, <1>3 DEF Injection, IsInjective
<1>5. f \in Surjection(DOMAIN states, DOMAIN states)
  BY <1>4, NamesDistinct, FS_Injection
<1>6. \A s \in DOMAIN states : \E m \in DOMAIN states : f[m] = s
  BY <1>5 DEF Surjection
<1> SUFFICES ASSUME NEW s \in DOMAIN states
             PROVE  \E m \in DOMAIN states : ss[s].name = states[m].name
  OBVIOUS
<1>7. PICK m \in DOMAIN states : f[m] = s
  BY <1>6
<1>8. ss[s].name = states[m].name
  BY <1>1, <1>7
<1> QED BY <1>8

LEMMA InitClosed == Init => ClosedInv
BY DEF Init, BuildInit, ClosedInv

\* A slot whose triggers stay leads where it did.
LEMMA HoldsStays ==
    ASSUME IsFile, UNCHANGED states, out_of_memory => out_of_memory',
           IsSlots(slots), IsSlots(slots'), KeepsNames(slots, slots'),
           NEW m \in DOMAIN states, NEW filled \in 0 .. Len(states[m].targets),
           NEW s \in DOMAIN states, Holds(s, m, filled),
           slots'[s].triggers = slots[s].triggers, slots'[s].num_triggers = slots[s].num_triggers
    PROVE  Holds(s, m, filled)'
<1>1. /\ states[m].name # Unnamed /\ DOMAIN states[m].targets = 1 .. Len(states[m].targets)
      /\ Len(states[m].targets) \in Nat
      /\ \A t \in DOMAIN states[m].targets : states[m].targets[t] # Unnamed
  BY StatesType
<1>2. /\ slots[s].name = states[m].name /\ Len(slots[s].triggers) = filled /\ Leads(s, m)
      /\ slots[s].num_triggers = Len(states[m].targets)
  BY DEF Holds
<1>3. slots'[s].name = states[m].name
  BY <1>1, <1>2 DEF KeepsNames
<1>4. slots[s].triggers \in Seq(0 .. Len(states))
  BY DEF IsSlots, Slot
<1>5. \A t \in DOMAIN slots[s].triggers : t \in DOMAIN states[m].targets
  BY <1>1, <1>2, <1>4
<1>6. Leads(s, m)'
  <2> SUFFICES ASSUME NEW t \in DOMAIN slots[s].triggers
               PROVE  LET next == slots[s].triggers[t]
                      IN  IF next = NULL THEN out_of_memory'
                          ELSE next \in DOMAIN states /\ slots'[next].name = states[m].targets[t]
    BY DEF Leads
  <2> DEFINE next == slots[s].triggers[t]
  <2>1. IF next = NULL THEN out_of_memory
        ELSE next \in DOMAIN states /\ slots[next].name = states[m].targets[t]
    BY <1>2 DEF Leads
  <2>2. states[m].targets[t] # Unnamed
    BY <1>1, <1>5
  <2> HIDE DEF next
  <2>3. CASE next = NULL
    BY <2>1, <2>3 DEF next
  <2>4. CASE next # NULL
    <3>1. next \in DOMAIN states /\ slots[next].name = states[m].targets[t]
      BY <2>1, <2>4
    <3>2. slots'[next].name = states[m].targets[t]
      BY <2>2, <3>1 DEF KeepsNames
    <3> QED BY <2>4, <3>1, <3>2 DEF next
  <2> QED BY <2>3, <2>4
<1> QED BY <1>2, <1>3, <1>6 DEF Holds

LEMMA ClosedStays == ASSUME UNCHANGED states PROVE (Closed' <=> Closed) /\ Declared' = Declared
BY DEF Closed, Declared

LEMMA SmInitClosed ==
    ASSUME IsFile, BuildInv, SmInit, UNCHANGED states, Closed
    PROVE  ClosedInv'
<1>1. k' = 1
  BY DEF SmInit, BuildInv
<1>2. CASE build' = "rejected" /\ out_of_memory'
  BY <1>2 DEF ClosedInv
<1>3. CASE build' = "undefined"
  BY <1>3 DEF ClosedInv
<1>4. CASE build' = "add_state" /\ slots' = [s \in DOMAIN states |-> Free]
  <2>1. \A s \in DOMAIN states : slots'[s].name = Unnamed
    BY <1>4 DEF Free
  <2>2. OnlyDeclared(slots)'
    BY <2>1 DEF OnlyDeclared
  <2> QED BY <1>1, <1>4, <2>1, <2>2 DEF ClosedInv
<1> QED BY <1>2, <1>3, <1>4 DEF SmInit, Rejected, Undefined, AllocationFails, Closed

LEMMA AddStateClosed ==
    ASSUME IsFile, BuildInv, ClosedInv, AddState, UNCHANGED states, Closed
    PROVE  ClosedInv'
<1>1. /\ build = "add_state" /\ k \in DOMAIN states /\ k \in Nat \ {0} /\ 1 \in DOMAIN states
      /\ states # <<>> /\ IsSlots(slots) /\ InOrder(slots) /\ OnlyDeclared(slots)
      /\ DOMAIN states = 1 .. Len(states) /\ DOMAIN slots = DOMAIN states
  BY StatesType DEF AddState, BuildInv, ClosedInv, IsSlots
<1>2. /\ Current.name \in Declared /\ Current.targets # <<>> /\ Current.name # Unnamed
      /\ \A m, o \in DOMAIN states : states[m].name = states[o].name => m = o
      /\ \A m \in DOMAIN states : states[m].name # Unnamed /\ Len(states[m].targets) \in Nat
  BY <1>1, NamesDistinct, StatesType DEF Current
<1>3. SlotFor(slots, Current.name) # NULL
  <2> SUFFICES ASSUME SlotFor(slots, Current.name) = NULL PROVE FALSE
    OBVIOUS
  <2>1. \A t \in DOMAIN states : slots[t].name \notin {Current.name, Unnamed}
    BY <1>1, <1>2, SlotOf
  <2> QED BY <1>1, <1>2, <2>1, FullHouse
<1>4. CASE build' = "rejected"
  <2>1. out_of_memory'
    BY <1>2, <1>3, <1>4 DEF AddState, Rejected, Undefined, AllocationFails
  <2> QED BY <1>4, <2>1 DEF ClosedInv
<1>5. CASE build' = "undefined"
  BY <1>5 DEF ClosedInv
<1>6. CASE build' = "add_trigger"
  <2>1. /\ IsSlots(slots') /\ KeepsNames(slots, slots') /\ k' = k /\ j' = 1
        /\ (out_of_memory => out_of_memory')
    <3>1. k' = k /\ j' = 1 /\ (out_of_memory => out_of_memory')
      BY <1>6 DEF AddState, Allocates, AllocationFails, Undefined
    <3> QED BY <1>6, <3>1, AddStateSlots
  <2>2. PICK s \in DOMAIN states :
            /\ s = SlotFor(slots, Current.name)
            /\ slots[s].name \in {Current.name, Unnamed}
            /\ slots'[s].name = Current.name /\ slots'[s].triggers = <<>>
            /\ slots'[s].num_triggers = Len(Current.targets)
            /\ \A t \in DOMAIN states : t # s => slots'[t] = slots[t]
    BY <1>6, AddStateSlots
  <2>3. OnlyDeclared(slots)'
    <3>1. \A t \in DOMAIN states : slots'[t].name # Unnamed => slots'[t].name \in Declared
      BY <1>1, <1>2, <2>2 DEF OnlyDeclared
    <3> QED BY <3>1, ClosedStays DEF OnlyDeclared
  <2>4. ASSUME NEW m \in 1 .. k - 1 PROVE AddedTo(m, Len(states[m].targets))'
    <3>1. m \in DOMAIN states /\ m # k /\ Len(states[m].targets) \in 0 .. Len(states[m].targets)
      BY <1>1, <1>2
    <3>2. PICK p \in DOMAIN states : Holds(p, m, Len(states[m].targets))
      BY <1>1 DEF ClosedInv, AddedTo
    <3>3. slots[p].name = states[m].name
      BY <3>2 DEF Holds
    <3>4. p # s
      BY <1>1, <1>2, <2>2, <3>1, <3>3 DEF Current
    <3>5. slots'[p] = slots[p]
      BY <2>2, <3>4
    <3>6. Holds(p, m, Len(states[m].targets))'
      <4>1. PICK filled \in 0 .. Len(states[m].targets) : filled = Len(states[m].targets)
        BY <3>1
      <4>2. Holds(p, m, filled)
        BY <3>2, <4>1
      <4>3. Holds(p, m, filled)'
        BY <1>1, <2>1, <3>1, <3>5, <4>1, <4>2, HoldsStays
      <4> QED BY <4>1, <4>3 DEF Holds
    <3> QED BY <3>6 DEF AddedTo
  <2>5. AddedTo(k, j - 1)'
    <3>1. Leads(s, k)'
      BY <2>1, <2>2 DEF Leads
    <3>2. Len(slots'[s].triggers) = j' - 1
      BY <2>1, <2>2
    <3>3. Holds(s, k, j - 1)'
      BY <2>1, <2>2, <3>1, <3>2 DEF Holds, Current
    <3> QED BY <3>3 DEF AddedTo
  <2>6. slots'[1].name = states[1].name
    <3>1. CASE k = 1
      <4>1. slots[1].name = Unnamed
        BY <1>1, <3>1 DEF ClosedInv
      <4>2. s = 1
        <5>1. ~(1 < s)
          BY <1>1, <1>2, <2>2, <4>1, SlotOf
        <5> QED BY <1>1, <5>1
      <4> QED BY <2>2, <3>1, <4>2 DEF Current
    <3>2. CASE k # 1
      <4>1. slots[1].name = states[1].name
        BY <1>1, <3>2 DEF ClosedInv
      <4> QED BY <1>1, <1>2, <2>1, <4>1 DEF KeepsNames
    <3> QED BY <3>1, <3>2
  <2>7. j' <= Len(Current.targets)' + 1
    <3>1. Len(Current.targets) \in Nat /\ Current' = Current
      BY <1>1, <1>2, <2>1 DEF Current
    <3> QED BY <2>1, <3>1
  <2> QED BY <1>6, <2>1, <2>3, <2>4, <2>5, <2>6, <2>7 DEF ClosedInv
<1> QED BY <1>4, <1>5, <1>6 DEF AddState, Rejected, Undefined

LEMMA AddTriggerClosed ==
    ASSUME IsFile, BuildInv, ClosedInv, AddTrigger, UNCHANGED states, Closed
    PROVE  ClosedInv'
<1>1. /\ build = "add_trigger" /\ k \in DOMAIN states /\ k \in Nat \ {0} /\ 1 \in DOMAIN states
      /\ k' = k /\ j \in Nat \ {0} /\ j <= Len(Current.targets) /\ Current' = Current
      /\ IsSlots(slots) /\ InOrder(slots) /\ OnlyDeclared(slots)
      /\ DOMAIN states = 1 .. Len(states) /\ DOMAIN slots = DOMAIN states
      /\ AddedTo(k, j - 1) /\ slots[1].name = states[1].name
      /\ \A m \in 1 .. k - 1 : AddedTo(m, Len(states[m].targets))
  BY StatesType DEF AddTrigger, BuildInv, ClosedInv, IsSlots, Current
<1>2. /\ Len(Current.targets) \in Nat /\ DOMAIN Current.targets = 1 .. Len(Current.targets)
      /\ Current.name # Unnamed
      /\ \A t \in DOMAIN Current.targets : Current.targets[t] \in Declared
      /\ \A m, o \in DOMAIN states : states[m].name = states[o].name => m = o
      /\ \A m \in DOMAIN states : states[m].name # Unnamed /\ Len(states[m].targets) \in Nat
  BY <1>1, NamesDistinct, StatesType DEF Current
<1>3. PICK name \in Declared : name = Current.targets[j]
  BY <1>1, <1>2
<1>4. name # Malformed
  BY FileProperties DEF Declared
<1>5. /\ build' = build /\ j' = j + 1 /\ (out_of_memory => out_of_memory')
      /\ IsSlots(slots') /\ KeepsNames(slots, slots')
      /\ \A t \in DOMAIN states :
             /\ slots'[t].name \in {slots[t].name, name}
             /\ slots'[t].num_triggers = slots[t].num_triggers
  BY <1>3, <1>4, AddTriggerSlots
<1>6. PICK o \in DOMAIN states, next \in 0 .. Len(states) :
          /\ slots[o].name = Current.name
          /\ slots'[o].triggers = Append(slots[o].triggers, next)
          /\ \A t \in DOMAIN states : t # o => slots'[t].triggers = slots[t].triggers
          /\ next # NULL => next \in DOMAIN states /\ slots'[next].name = name
          /\ next = NULL => \/ out_of_memory'
                            \/ \A t \in DOMAIN states : slots[t].name \notin {name, Unnamed}
  BY <1>3, <1>4, AddTriggerSlots
<1>7. OnlyDeclared(slots)'
  <2>1. \A t \in DOMAIN states : slots'[t].name # Unnamed => slots'[t].name \in Declared
    BY <1>1, <1>5 DEF OnlyDeclared
  <2> QED BY <2>1, ClosedStays DEF OnlyDeclared
<1>8. ASSUME NEW m \in 1 .. k - 1 PROVE AddedTo(m, Len(states[m].targets))'
  <2>1. m \in DOMAIN states /\ m # k /\ Len(states[m].targets) \in 0 .. Len(states[m].targets)
    BY <1>1, <1>2
  <2>2. PICK filled \in 0 .. Len(states[m].targets) : filled = Len(states[m].targets)
    BY <2>1
  <2>3. PICK p \in DOMAIN states : Holds(p, m, filled)
    BY <1>1, <2>2 DEF AddedTo
  <2>4. slots[p].name = states[m].name
    BY <2>3 DEF Holds
  <2>5. p # o
    BY <1>1, <1>2, <1>6, <2>1, <2>4 DEF Current
  <2>6. slots'[p].triggers = slots[p].triggers /\ slots'[p].num_triggers = slots[p].num_triggers
    BY <1>5, <1>6, <2>5
  <2>7. Holds(p, m, filled)'
    BY <1>1, <1>5, <2>1, <2>3, <2>6, HoldsStays
  <2>8. Holds(p, m, Len(states[m].targets))'
    BY <2>2, <2>7 DEF Holds
  <2> QED BY <2>8 DEF AddedTo
<1>9. AddedTo(k, j - 1)'
  <2>1. PICK p \in DOMAIN states : Holds(p, k, j - 1)
    BY <1>1 DEF AddedTo
  <2>2. slots[p].name = Current.name /\ slots[p].num_triggers = Len(states[k].targets)
        /\ Len(slots[p].triggers) = j - 1 /\ Leads(p, k)
    BY <2>1 DEF Holds, Current
  <2>3. p = o
    BY <1>1, <1>2, <1>6, <2>2 DEF InOrder
  <2>4. slots[o].triggers \in Seq(0 .. Len(states))
    BY <1>1 DEF IsSlots, Slot
  <2> DEFINE old == slots[o].triggers
             new == slots'[o].triggers
  <2>5. /\ Len(new) = j /\ new[j] = next /\ DOMAIN new = 1 .. j /\ DOMAIN old = 1 .. j - 1
        /\ \A t \in 1 .. j - 1 : new[t] = old[t]
    BY <1>1, <1>6, <2>2, <2>3, <2>4
  <2>6. slots'[o].name = states[k].name /\ slots'[o].num_triggers = Len(states[k].targets)
    BY <1>2, <1>5, <1>6, <2>2, <2>3 DEF KeepsNames, Current
  <2>7. ASSUME NEW t \in 1 .. j
        PROVE  IF new[t] = NULL THEN out_of_memory'
               ELSE new[t] \in DOMAIN states /\ slots'[new[t]].name = states[k].targets[t]
    <3>1. CASE t = j
      <4>1. next = NULL => out_of_memory'
        BY <1>1, <1>6, FullHouse
      <4> QED BY <1>3, <1>6, <2>5, <3>1, <4>1 DEF Current
    <3>2. CASE t # j
      <4>1. t \in 1 .. j - 1 /\ t \in DOMAIN old /\ new[t] = old[t] /\ t \in DOMAIN Current.targets
        BY <1>1, <1>2, <2>5, <3>2
      <4>2. IF old[t] = NULL THEN out_of_memory
            ELSE old[t] \in DOMAIN states /\ slots[old[t]].name = states[k].targets[t]
        BY <2>2, <2>3, <4>1 DEF Leads
      <4>3. states[k].targets[t] # Unnamed
        BY <1>1, <4>1, StatesType DEF Current
      <4> HIDE DEF old, new
      <4> QED BY <1>5, <4>1, <4>2, <4>3 DEF KeepsNames
    <3> QED BY <3>1, <3>2
  <2>8. Leads(o, k)'
    BY <1>1, <2>5, <2>7 DEF Leads
  <2>9. Holds(o, k, j - 1)'
    <3>1. Len(slots'[o].triggers) = j' - 1
      BY <1>1, <1>5, <2>5
    <3>2. /\ slots'[o].name = states'[k'].name
          /\ slots'[o].num_triggers = Len(states'[k'].targets)
      BY <1>1, <2>6
    <3> QED BY <2>8, <3>1, <3>2 DEF Holds
  <2> QED BY <2>9 DEF AddedTo
<1>10. slots'[1].name = states[1].name
  BY <1>1, <1>2, <1>5 DEF KeepsNames
<1> QED BY <1>1, <1>2, <1>5, <1>7, <1>8, <1>9, <1>10 DEF ClosedInv

\* The two steps that leave the slots alone.
LEMMA NextStateClosed ==
    ASSUME IsFile, BuildInv, ClosedInv, NextState, UNCHANGED states, Closed
    PROVE  ClosedInv'
<1>1. /\ build = "add_trigger" /\ k \in DOMAIN states /\ k \in Nat \ {0}
      /\ j \in Nat \ {0} /\ j > Len(Current.targets) /\ j <= Len(Current.targets) + 1
      /\ Len(Current.targets) \in Nat
      /\ build' = "add_state" /\ k' = k + 1 /\ UNCHANGED <<j, slots, out_of_memory>>
      /\ DOMAIN states = 1 .. Len(states)
      /\ OnlyDeclared(slots) /\ AddedTo(k, j - 1) /\ slots[1].name = states[1].name
      /\ \A m \in 1 .. k - 1 : AddedTo(m, Len(states[m].targets))
  BY StatesType DEF NextState, BuildInv, ClosedInv, Current
<1>2. j - 1 = Len(states[k].targets)
  BY <1>1 DEF Current
<1>3. ASSUME NEW m \in 1 .. k PROVE AddedTo(m, Len(states[m].targets))'
  <2>1. AddedTo(m, Len(states[m].targets))
    BY <1>1, <1>2, <1>3
  <2> QED BY <1>1, <2>1 DEF AddedTo, Holds, Leads
<1>4. OnlyDeclared(slots)'
  BY <1>1, ClosedStays DEF OnlyDeclared
<1>5. k' - 1 = k /\ k' # 1
  BY <1>1
<1> QED BY <1>1, <1>3, <1>4, <1>5 DEF ClosedInv

\* When all states are added every slot is one of theirs, so that the state
\* machine is complete.
LEMMA FinishClosed ==
    ASSUME IsFile, BuildInv, ClosedInv, Finish, UNCHANGED states, Closed
    PROVE  ClosedInv'
<1>1. /\ build = "add_state" /\ k = Len(states) + 1 /\ k # 1 /\ DOMAIN slots = DOMAIN states
      /\ IsSlots(slots) /\ InOrder(slots) /\ OnlyDeclared(slots)
      /\ DOMAIN states = 1 .. Len(states) /\ Len(states) \in Nat
      /\ UNCHANGED <<k, j, slots, out_of_memory>> /\ slots[1].name = states[1].name
      /\ build' = IF Initialized THEN "accepted" ELSE "rejected"
      /\ \A m \in 1 .. k - 1 : AddedTo(m, Len(states[m].targets))
  <2>1. k \in Nat /\ k > Len(states) /\ k <= Len(states) + 1 /\ states # <<>>
    BY DEF Finish, BuildInv
  <2>2. k = Len(states) + 1 /\ k # 1
    BY <2>1, StatesType
  <2> QED BY <2>2, StatesType DEF Finish, BuildInv, ClosedInv, IsSlots
<1>2. \A m \in DOMAIN states : AddedTo(m, Len(states[m].targets))
  BY <1>1
<1>3. \A s \in DOMAIN states : \E m \in DOMAIN states : slots[s].name = states[m].name
  <2>1. \A m \in DOMAIN states : \E s \in DOMAIN states : slots[s].name = states[m].name
    BY <1>2, Zenon DEF AddedTo, Holds
  <2>2. IsFile /\ Closed /\ IsSlots(slots) /\ InOrder(slots)
    BY <1>1
  <2> QED BY <2>1, <2>2, NoneLeftOver, Zenon
<1>4. Initialized
  <2> SUFFICES ASSUME NEW s \in DOMAIN states
               PROVE  slots[s].name # Unnamed /\ Len(slots[s].triggers) = slots[s].num_triggers
    BY <1>1 DEF Initialized
  <2>1. PICK m \in DOMAIN states : slots[s].name = states[m].name
    BY <1>3
  <2>2. PICK p \in DOMAIN states : Holds(p, m, Len(states[m].targets))
    BY <1>2 DEF AddedTo
  <2>3. states[m].name # Unnamed
    BY StatesType
  <2>4. p = s
    BY <1>1, <2>1, <2>2, <2>3 DEF InOrder, Holds
  <2> QED BY <2>1, <2>2, <2>3, <2>4 DEF Holds
<1>5. OnlyDeclared(slots)'
  BY <1>1, ClosedStays DEF OnlyDeclared
<1>6. ASSUME NEW m \in 1 .. k - 1 PROVE AddedTo(m, Len(states[m].targets))'
  BY <1>1 DEF AddedTo, Holds, Leads
<1> QED BY <1>1, <1>4, <1>5, <1>6 DEF ClosedInv

LEMMA NextClosed == IsFile /\ BuildInv /\ ClosedInv /\ [Next]_vars => ClosedInv'
<1> SUFFICES ASSUME IsFile, BuildInv, ClosedInv, [Next]_vars PROVE ClosedInv'
  OBVIOUS
<1>1. UNCHANGED states /\ (out_of_memory => out_of_memory')
  BY StepsOfParts DEF Contents
<1> SUFFICES ASSUME Closed PROVE ClosedInv'
  BY <1>1, ClosedStays DEF ClosedInv
<1>2. CASE CreateStateMachine
  BY <1>1, <1>2, SmInitClosed, AddStateClosed, AddTriggerClosed, NextStateClosed, FinishClosed
     DEF CreateStateMachine
<1>3. CASE UNCHANGED buildVars
  <2>1. UNCHANGED <<build, k, j, slots>> /\ Current' = Current
    BY <1>1, <1>3 DEF buildVars, Current
  <2>2. OnlyDeclared(slots) => OnlyDeclared(slots)'
    BY <1>1, <2>1, ClosedStays DEF OnlyDeclared
  <2>3. ASSUME NEW m, NEW filled, AddedTo(m, filled) PROVE AddedTo(m, filled)'
    BY <1>1, <2>1, <2>3 DEF AddedTo, Holds, Leads
  <2>4. AddedTo(k, j - 1) => AddedTo(k, j - 1)'
    BY <1>1, <2>1 DEF AddedTo, Holds, Leads
  <2>5. ASSUME NEW m \in 1 .. k - 1, AddedTo(m, Len(states[m].targets))
        PROVE  AddedTo(m, Len(states[m].targets))'
    BY <1>1, <2>1, <2>5 DEF AddedTo, Holds, Leads
  <2> QED BY <1>1, <2>1, <2>2, <2>4, <2>5 DEF ClosedInv
<1>4. CASE build = "idle" /\ build' = "init"
  BY <1>4 DEF ClosedInv
<1> QED BY <1>2, <1>3, <1>4, StepsOfParts

\* A description in which each state is named once and no trigger names a
\* state that is not there is accepted, and the state machine is the
\* described one, whatever the order in which forward references reserve
\* their slots; only where memory ran out is it refused, or does a trigger
\* lead nowhere.
THEOREM ClosedIsAccepted == Spec => []ClosedIsBuilt
<1>1. IsFile /\ BuildInv /\ ClosedInv => ClosedIsBuilt
  <2> SUFFICES ASSUME IsFile, BuildInv, ClosedInv, Closed, build = "accepted"
               PROVE  ClosedIsBuilt
    BY DEF ClosedInv, ClosedIsBuilt
  <2>1. /\ k = Len(states) + 1 /\ DOMAIN states = 1 .. Len(states) /\ k # 1
        /\ Len(states) \in Nat /\ DOMAIN slots = DOMAIN states
        /\ IsSlots(slots) /\ slots[1].name = states[1].name
        /\ \A m \in 1 .. k - 1 : AddedTo(m, Len(states[m].targets))
    <3>1. k = Len(states) + 1 /\ states # <<>> /\ IsSlots(slots)
      BY DEF ClosedInv, BuildInv
    <3>2. Len(states) \in Nat /\ k # 1
      BY <3>1, StatesType
    <3> QED BY <3>1, <3>2, StatesType DEF ClosedInv, IsSlots
  <2>2. ASSUME NEW m \in DOMAIN states
        PROVE  \E s \in DOMAIN slots :
                  /\ slots[s].name = states[m].name
                  /\ Len(slots[s].triggers) = Len(states[m].targets)
                  /\ \A t \in DOMAIN states[m].targets :
                         LET next == slots[s].triggers[t]
                         IN  IF next = NULL THEN out_of_memory
                             ELSE slots[next].name = states[m].targets[t]
    <3>1. PICK s \in DOMAIN states : Holds(s, m, Len(states[m].targets))
      BY <2>1, <2>2 DEF AddedTo
    <3>2. slots[s].triggers \in Seq(0 .. Len(states))
      BY <2>1 DEF IsSlots, Slot
    <3>3. DOMAIN states[m].targets = DOMAIN slots[s].triggers
      BY <3>1, <3>2, StatesType DEF Holds
    <3> QED BY <2>1, <3>1, <3>3 DEF Holds, Leads
  <2> QED BY <2>1, <2>2 DEF ClosedIsBuilt
<1> QED BY <1>1, InitClosed, NextClosed, BuildInvariance, File, PTL DEF Spec

-----------------------------------------------------------------------------
(* The fields of a formatter.  A field is added to the first slot without  *)
(* a start bit, which is its own unless an earlier field starts at         *)
(* BIT_UNINITIALIZED: then a slot is never filled, and the formatter is    *)
(* refused in the end.  What is added by name goes to the first field of   *)
(* that name, which has its own enumerators already.                       *)

Words == {Unnamed} \cup {field.name : field \in Range(fields) \ {Malformed}}
Bits == {BIT_UNINITIALIZED} \cup {Unsigned(b) : b \in Int}
Symbols == UNION {Range(field.enum) : field \in Range(fields) \ {Malformed}}
Defaults == {NoValue} \cup {field.default : field \in Range(fields) \ {Malformed}}

Entry == [name : Words, start_bit : Bits, end_bit : Bits, enum_count : Nat,
          enums : Seq(Symbols), default : Defaults]

IsEntries(ff) == ff \in [DOMAIN fields -> Entry]

\* How many fields have been added, and how many enumerators of field i.
Added == IF format \in {"add_enum", "set_default"} THEN n ELSE n - 1
EnumsAdded(i) == IF format = "add_enum" /\ i = n THEN e - 1 ELSE Len(fields[i].enum)

Same(h, i) == fields[h].name = fields[i].name

\* The last field of that name whose default has been set.
LastOf(h, i) == Same(h, i) /\ \A g \in 1 .. n - 1 : Same(g, i) => g <= h

EntryIs(i) ==
    /\ fields[i] # Malformed
    /\ formatter[i].name = fields[i].name
    /\ formatter[i].start_bit = Unsigned(fields[i].start_bit)
    /\ formatter[i].end_bit = Unsigned(fields[i].end_bit)
    /\ formatter[i].enum_count = Len(fields[i].enum)
    /\ Len(formatter[i].enums) = EnumsAdded(i)
    /\ \A x \in 1 .. EnumsAdded(i) : formatter[i].enums[x] = fields[i].enum[x]
    /\ IsInjective(formatter[i].enums)

DefaultIs(i) ==
    IF i >= n \/ \E h \in 1 .. i - 1 : Same(h, i) THEN formatter[i].default = NoValue
    ELSE \E h \in 1 .. n - 1 : LastOf(h, i) /\ formatter[i].default = fields[h].default

Described ==
    /\ lost = {}
    /\ \A i \in 1 .. Added : EntryIs(i) /\ DefaultIs(i)
    /\ \A i \in DOMAIN fields : i > Added => formatter[i] = Uninitialized

\* Slot p is the first without a start bit.
FirstFree(p) ==
    /\ \A i \in 1 .. p - 1 : formatter[i].start_bit # BIT_UNINITIALIZED
    /\ \A i \in DOMAIN fields : i >= p => formatter[i].start_bit = BIT_UNINITIALIZED

FormatInv ==
    /\ n \in Nat \ {0} /\ e \in Nat \ {0}
    /\ format \in {"idle", "init"} => n = 1 /\ lost = {}
    /\ format \in {"add_field", "add_enum", "set_default", "ready"} =>
           /\ IsEntries(formatter) /\ n <= Len(fields) + 1
           /\ \E p \in 1 .. Added + 1 : FirstFree(p) /\ (p = Added + 1 => Described)
    /\ format \in {"add_enum", "set_default"} => n <= Len(fields) /\ Field # Malformed
    /\ format = "add_enum" => e <= Len(Field.enum) + 1
    /\ format = "ready" => n = Len(fields) + 1 /\ Described

LEMMA FieldsType ==
    ASSUME IsFile
    PROVE  /\ Len(fields) \in Nat /\ DOMAIN fields = 1 .. Len(fields)
           /\ \A i \in DOMAIN fields : fields[i] # Malformed =>
                  /\ fields[i].name # Unnamed /\ fields[i].name \in Words
                  /\ Unsigned(fields[i].start_bit) \in Bits
                  /\ Unsigned(fields[i].end_bit) \in Bits
                  /\ fields[i].enum \in Seq(Symbols) /\ Len(fields[i].enum) \in Nat
                  /\ DOMAIN fields[i].enum = 1 .. Len(fields[i].enum)
                  /\ fields[i].default \in Defaults
<1>1. Len(fields) \in Nat /\ DOMAIN fields = 1 .. Len(fields)
  BY FileProperties
<1>2. ASSUME NEW i \in DOMAIN fields, fields[i] # Malformed
      PROVE  /\ fields[i].name # Unnamed /\ fields[i].name \in Words
             /\ Unsigned(fields[i].start_bit) \in Bits
             /\ Unsigned(fields[i].end_bit) \in Bits
             /\ fields[i].enum \in Seq(Symbols) /\ Len(fields[i].enum) \in Nat
             /\ DOMAIN fields[i].enum = 1 .. Len(fields[i].enum)
             /\ fields[i].default \in Defaults
  <2>1. fields[i] \in Range(fields) \ {Malformed}
    BY <1>2 DEF Range
  <2>2. /\ fields[i].name # Unnamed /\ fields[i].start_bit \in Int /\ fields[i].end_bit \in Int
        /\ fields[i].enum \in Seq(Range(fields[i].enum))
    BY <2>1, FileProperties
  <2>3. Range(fields[i].enum) \subseteq Symbols
    BY <2>1 DEF Symbols
  <2>4. fields[i].enum \in Seq(Symbols)
    BY <2>2, <2>3
  <2> QED BY <2>1, <2>2, <2>4 DEF Words, Bits, Defaults
<1> QED BY <1>1, <1>2

LEMMA InitFormat == Init => FormatInv
BY DEF Init, FormatInit, FormatInv

LEMMA FormatterInitFormat ==
    ASSUME IsFile, FormatInv, FormatterInit, UNCHANGED fields PROVE FormatInv'
<1>1. n = 1 /\ n' = 1 /\ e' = e /\ e \in Nat \ {0} /\ lost' = {}
  BY DEF FormatterInit, FormatInv
<1>2. CASE format' \in {"rejected", "undefined"}
  BY <1>1, <1>2 DEF FormatInv
<1>3. CASE format' = "add_field" /\ formatter' = [f \in DOMAIN fields |-> Uninitialized]
  <2>1. Uninitialized \in Entry
    <3>1. Unnamed \in Words /\ BIT_UNINITIALIZED \in Bits /\ NoValue \in Defaults
          /\ <<>> \in Seq(Symbols)
      BY DEF Words, Bits, Defaults
    <3> HIDE DEF Words, Bits, Defaults, Symbols, BIT_UNINITIALIZED, NoValue
    <3> QED BY <3>1 DEF Uninitialized, Entry, Unnamed
  <2>2. IsEntries(formatter)'
    BY <1>3, <2>1 DEF IsEntries, Entry, Words, Defaults, Symbols
  <2>3. Added' = 0
    BY <1>1, <1>3 DEF Added
  <2>4. FirstFree(1)' /\ Described'
    <3>1. \A i \in DOMAIN fields : formatter'[i] = Uninitialized
      BY <1>3
    <3>2. Uninitialized.start_bit = BIT_UNINITIALIZED
      BY DEF Uninitialized
    <3>3. FirstFree(1)'
      BY <3>1, <3>2 DEF FirstFree
    <3>4. Described'
      BY <1>1, <2>3, <3>1 DEF Described
    <3> QED BY <3>3, <3>4
  <2>5. \E p \in 1 .. Added' + 1 : FirstFree(p)' /\ (p = Added' + 1 => Described')
    BY <2>3, <2>4
  <2> QED BY <1>1, <1>3, <2>2, <2>5, FieldsType DEF FormatInv
<1> QED BY <1>2, <1>3 DEF FormatterInit, Refused

LEMMA AddFieldFormat ==
    ASSUME IsFile, FormatInv, AddField, UNCHANGED fields PROVE FormatInv'
<1>1. /\ format = "add_field" /\ n \in Nat \ {0} /\ n <= Len(fields) /\ n' = n /\ e' = 1
      /\ IsEntries(formatter) /\ DOMAIN fields = 1 .. Len(fields) /\ Len(fields) \in Nat
      /\ Added = n - 1 /\ Field = fields[n] /\ Field' = Field
  BY FieldsType DEF AddField, FormatInv, Added, Field
<1>2. CASE format' \in {"rejected", "undefined"}
  BY <1>1, <1>2 DEF FormatInv
<1> DEFINE Free0 == {i \in DOMAIN formatter : formatter[i].start_bit = BIT_UNINITIALIZED}
           first == Unsigned(Field.start_bit)
           last == Unsigned(Field.end_bit)
<1>3. CASE /\ IsField
           /\ formatter' = [formatter EXCEPT ![Min(Free0)] =
                  [@ EXCEPT !.name = Field.name, !.start_bit = first, !.end_bit = last,
                            !.enum_count = Len(Field.enum), !.enums = <<>>]]
           /\ format' = IF IsEnum THEN "add_enum" ELSE "set_default"
           /\ lost' = lost \cup Held(Min(Free0))
  <2>1. PICK p \in 1 .. n : FirstFree(p) /\ (p = n => Described)
    BY <1>1 DEF FormatInv
  <2>2. p \in DOMAIN fields /\ DOMAIN formatter = DOMAIN fields
    BY <1>1, <2>1 DEF IsEntries
  <2>3. Min(Free0) = p
    <3>1. p \in Free0 /\ Free0 \in SUBSET Nat
      BY <1>1, <2>1, <2>2 DEF FirstFree
    <3>2. Min(Free0) \in Free0 /\ Min(Free0) <= p
      BY <3>1, MinIs
    <3>3. ~(Min(Free0) < p)
      BY <1>1, <2>1, <2>2, <3>2 DEF FirstFree
    <3> QED BY <1>1, <2>1, <3>1, <3>2, <3>3
  <2> HIDE DEF Free0, first, last
  <2>4. /\ Field # Malformed /\ Field.name \in Words /\ Field.name # Unnamed
        /\ first \in Bits /\ last \in Bits /\ Len(Field.enum) \in Nat
        /\ Field.enum \in Seq(Symbols)
    BY <1>1, <1>3, FieldsType DEF IsField, first, last
  <2> DEFINE new == [formatter[p] EXCEPT !.name = Field.name, !.start_bit = first,
                        !.end_bit = last, !.enum_count = Len(Field.enum), !.enums = <<>>]
  <2>5. formatter[p] \in Entry
    BY <1>1, <2>2 DEF IsEntries
  <2>6. /\ new \in Entry
        /\ new.name = Field.name /\ new.start_bit = first /\ new.end_bit = last
        /\ new.enum_count = Len(Field.enum) /\ new.enums = <<>>
        /\ new.default = formatter[p].default
    <3>1. <<>> \in Seq(Symbols)
      OBVIOUS
    <3> HIDE DEF Words, Bits, Symbols, Defaults
    <3> QED BY <2>4, <2>5, <3>1 DEF Entry
  <2>7. formatter' = [formatter EXCEPT ![p] = new]
    BY <1>3, <2>3
  <2> HIDE DEF new
  <2>8. /\ IsEntries(formatter') /\ formatter'[p] = new
        /\ \A i \in DOMAIN fields : i # p => formatter'[i] = formatter[i]
    BY <1>1, <2>2, <2>6, <2>7 DEF IsEntries
  <2>9. IsEntries(formatter)'
    BY <2>8 DEF IsEntries, Entry, Words, Defaults, Symbols
  <2>10. Added' = n
    BY <1>1, <1>3 DEF Added
  <2>11. CASE first = BIT_UNINITIALIZED
    <3>1. FirstFree(p)'
      BY <1>1, <2>1, <2>2, <2>6, <2>8, <2>11 DEF FirstFree
    <3>2. p \in 1 .. Added' + 1 /\ p # Added' + 1
      BY <1>1, <2>1, <2>10
    <3>3. \E q \in 1 .. Added' + 1 : FirstFree(q)' /\ (q = Added' + 1 => Described')
      BY <3>1, <3>2
    <3> QED BY <1>1, <1>3, <2>4, <2>9, <3>3 DEF FormatInv
  <2>12. CASE first # BIT_UNINITIALIZED
    <3>1. FirstFree(p + 1)'
      BY <1>1, <2>1, <2>2, <2>6, <2>8, <2>12 DEF FirstFree
    <3>2. ASSUME p = n PROVE Described'
      <4>1. Described
        BY <2>1, <3>2
      <4>2. \A i \in 1 .. n - 1 : EntryIs(i) /\ DefaultIs(i) /\ i \in DOMAIN fields /\ i # n
        BY <1>1, <4>1 DEF Described
      <4>3. formatter[n] = Uninitialized
        BY <1>1, <4>1 DEF Described
      <4>4. ASSUME NEW i \in 1 .. n - 1 PROVE EntryIs(i)' /\ DefaultIs(i)'
        <5>1. formatter'[i] = formatter[i]
          BY <2>8, <3>2, <4>2
        <5>2. EnumsAdded(i)' = EnumsAdded(i)
          BY <1>1, <1>3, <4>2 DEF EnumsAdded
        <5>3. EntryIs(i)'
          BY <4>2, <5>1, <5>2 DEF EntryIs
        <5>4. DefaultIs(i)'
          BY <1>1, <4>2, <5>1 DEF DefaultIs, Same, LastOf
        <5> QED BY <5>3, <5>4
      <4>5. EntryIs(n)'
        <5>1. EnumsAdded(n)' = 0
          BY <1>1, <1>3, <2>4 DEF EnumsAdded, IsEnum
        <5>2. IsInjective(<<>>)
          BY DEF IsInjective
        <5> QED BY <1>1, <2>4, <2>6, <2>8, <3>2, <5>1, <5>2 DEF EntryIs, first, last
      <4>6. DefaultIs(n)'
        <5>1. new.default = NoValue
          <6>1. Uninitialized.default = NoValue
            BY DEF Uninitialized
          <6> QED BY <2>6, <3>2, <4>3, <6>1, Zenon
        <5> QED BY <1>1, <2>8, <3>2, <5>1 DEF DefaultIs
      <4>7. \A i \in DOMAIN fields : i > n => formatter'[i] = Uninitialized
        BY <1>1, <2>8, <3>2, <4>1 DEF Described
      <4>8. ASSUME NEW i \in 1 .. n PROVE EntryIs(i)' /\ DefaultIs(i)'
        BY <1>1, <4>4, <4>5, <4>6
      <4>9. lost' = {}
        <5>1. Held(n) = {}
          <6>1. Uninitialized.enum_count = 0
            BY DEF Uninitialized
          <6> QED BY <4>3, <6>1 DEF Held
        <5> QED BY <1>3, <2>3, <3>2, <4>1, <5>1 DEF Described
      <4> QED BY <2>10, <4>7, <4>8, <4>9 DEF Described
    <3>3. p + 1 \in 1 .. Added' + 1 /\ (p + 1 = Added' + 1 => p = n)
      BY <1>1, <2>1, <2>10
    <3>4. \E q \in 1 .. Added' + 1 : FirstFree(q)' /\ (q = Added' + 1 => Described')
      BY <3>1, <3>2, <3>3
    <3> QED BY <1>1, <1>3, <2>4, <2>9, <3>4 DEF FormatInv
  <2> QED BY <2>11, <2>12
<1> QED BY <1>2, <1>3 DEF AddField, Refused

\* The field that enumerators and the default are added to: the first one of
\* that name.
LEMMA NamedIs ==
    ASSUME IsFile, FormatInv, format \in {"add_enum", "set_default"}, Described,
           NEW g, g = Named(Field.name)
    PROVE  /\ g \in 1 .. n /\ n \in DOMAIN fields /\ Same(g, n) /\ formatter[g].name = Field.name
           /\ \A h \in 1 .. g - 1 : ~Same(h, n)
<1>1. /\ n \in Nat \ {0} /\ n <= Len(fields) /\ Added = n /\ n \in DOMAIN fields
      /\ DOMAIN fields = 1 .. Len(fields) /\ Len(fields) \in Nat
      /\ DOMAIN formatter = DOMAIN fields
      /\ Field = fields[n] /\ Field.name # Unnamed
  BY FieldsType DEF FormatInv, IsEntries, Added, Field
<1>2. \A i \in 1 .. n : formatter[i].name = fields[i].name
  BY <1>1 DEF Described, EntryIs
<1>3. \A i \in DOMAIN fields : i > n => formatter[i].name = Unnamed
  <2>1. Uninitialized.name = Unnamed
    BY DEF Uninitialized, Unnamed
  <2> QED BY <1>1, <2>1 DEF Described
<1> DEFINE S == {i \in DOMAIN formatter : formatter[i].name = Field.name}
<1>4. n \in S /\ S \in SUBSET Nat
  BY <1>1, <1>2
<1>5. g \in S /\ \A i \in S : g <= i
  BY <1>4, MinIs DEF Named
<1>6. g \in 1 .. n
  BY <1>1, <1>3, <1>5
<1>7. \A h \in 1 .. g - 1 : ~Same(h, n)
  <2> SUFFICES ASSUME NEW h \in 1 .. g - 1, Same(h, n) PROVE FALSE
    OBVIOUS
  <2>1. h \in S /\ h < g
    BY <1>1, <1>2, <1>6 DEF Same
  <2> QED BY <1>1, <1>5, <1>6, <2>1
<1> QED BY <1>1, <1>2, <1>5, <1>6, <1>7 DEF Same

LEMMA AddEnumFormat ==
    ASSUME IsFile, FormatInv, AddEnum, UNCHANGED fields PROVE FormatInv'
<1>1. /\ format = "add_enum" /\ n \in Nat \ {0} /\ n <= Len(fields) /\ n' = n
      /\ e \in Nat \ {0} /\ e <= Len(Field.enum) /\ Field # Malformed
      /\ IsEntries(formatter) /\ DOMAIN fields = 1 .. Len(fields) /\ Len(fields) \in Nat
      /\ Added = n /\ Field = fields[n] /\ Field' = Field /\ n \in DOMAIN fields
      /\ DOMAIN formatter = DOMAIN fields
  BY FieldsType DEF AddEnum, FormatInv, Added, Field, IsEntries
<1>2. CASE format' = "rejected"
  BY <1>1, <1>2 DEF FormatInv, AddEnum
<1> DEFINE g == Named(Field.name)
           string == Field.enum[e]
<1>3. CASE /\ TakesEnum(g, string) /\ format' = format /\ e' = e + 1
           /\ formatter' = [formatter EXCEPT ![g].enums = Append(@, string)]
  <2>1. /\ string \in Symbols /\ Len(Field.enum) \in Nat
        /\ DOMAIN Field.enum = 1 .. Len(Field.enum) /\ Field.enum \in Seq(Symbols)
    <3>1. Field.enum \in Seq(Symbols) /\ Len(Field.enum) \in Nat
      BY <1>1, FieldsType
    <3> QED BY <1>1, <3>1
  <2> HIDE DEF g, string
  <2>2. \A i \in DOMAIN formatter : formatter[i] \in Entry
    BY <1>1 DEF IsEntries
  <2>3. /\ IsEntries(formatter')
        /\ \A i \in DOMAIN fields :
               /\ i # g => formatter'[i] = formatter[i]
               /\ i = g => formatter'[i].enums = Append(formatter[i].enums, string)
               /\ formatter'[i].name = formatter[i].name
               /\ formatter'[i].start_bit = formatter[i].start_bit
               /\ formatter'[i].end_bit = formatter[i].end_bit
               /\ formatter'[i].enum_count = formatter[i].enum_count
               /\ formatter'[i].default = formatter[i].default
    <3>1. CASE g \notin DOMAIN formatter
      <4>1. formatter' = formatter
        BY <1>1, <1>3, <3>1 DEF IsEntries
      <4> QED BY <1>1, <3>1, <4>1
    <3>2. CASE g \in DOMAIN formatter
      <4>1. formatter[g].enums \in Seq(Symbols)
        BY <2>2, <3>2 DEF Entry
      <4>2. Append(formatter[g].enums, string) \in Seq(Symbols)
        BY <2>1, <4>1
      <4>3. PICK q \in Seq(Symbols) : q = Append(formatter[g].enums, string)
        BY <4>2
      <4>4. formatter' = [formatter EXCEPT ![g].enums = q]
        BY <1>3, <4>3
      <4> QED BY <1>1, <2>2, <3>2, <4>3, <4>4 DEF IsEntries, Entry
    <3> QED BY <3>1, <3>2
  <2>4. IsEntries(formatter)'
    BY <2>3 DEF IsEntries, Entry, Words, Defaults, Symbols
  <2>5. PICK p \in 1 .. n + 1 : FirstFree(p) /\ (p = n + 1 => Described)
    BY <1>1 DEF FormatInv
  <2>6. FirstFree(p)'
    <3>1. \A i \in DOMAIN fields : formatter'[i].start_bit = formatter[i].start_bit
      BY <2>3
    <3>2. \A i \in 1 .. p - 1 : i \in DOMAIN fields
      BY <1>1, <2>5
    <3> QED BY <1>1, <2>5, <3>1, <3>2 DEF FirstFree
  <2>7. Added' = n
    BY <1>1, <1>3 DEF Added
  <2>8. ASSUME Described PROVE Described'
    <3>1. /\ g \in 1 .. n /\ formatter[g].name = Field.name
          /\ \A h \in 1 .. g - 1 : ~Same(h, n)
      BY <1>1, <2>8, NamedIs DEF g
    <3>2. \A i \in 1 .. n : EntryIs(i) /\ DefaultIs(i) /\ i \in DOMAIN fields
      BY <1>1, <2>8 DEF Described
    <3>3. g = n
      <4>1. /\ Len(formatter[g].enums) < formatter[g].enum_count
            /\ Len(formatter[g].enums) = EnumsAdded(g)
            /\ formatter[g].enum_count = Len(fields[g].enum) /\ formatter[g].enum_count \in Nat
        BY <1>3, <2>2, <3>1, <3>2, <1>1 DEF TakesEnum, EntryIs, Entry
      <4> QED BY <4>1 DEF EnumsAdded
    <3> DEFINE old == formatter[n].enums
               new == formatter'[n].enums
    <3>4. /\ old \in Seq(Symbols) /\ Len(old) = e - 1 /\ IsInjective(old)
          /\ \A x \in 1 .. e - 1 : old[x] = Field.enum[x]
          /\ string \notin Range(old) /\ new = Append(old, string)
      <4>1. old \in Seq(Symbols)
        BY <1>1, <2>2 DEF Entry
      <4>2. EnumsAdded(n) = e - 1
        BY <1>1 DEF EnumsAdded
      <4>3. Len(old) = e - 1 /\ IsInjective(old) /\ \A x \in 1 .. e - 1 : old[x] = Field.enum[x]
        <5>1. EntryIs(n)
          BY <1>1, <3>2
        <5> QED BY <1>1, <4>2, <5>1 DEF EntryIs
      <4> QED BY <1>1, <1>3, <2>3, <3>3, <4>1, <4>3 DEF TakesEnum
    <3>5. /\ Len(new) = e /\ new[e] = string /\ DOMAIN new = 1 .. e /\ DOMAIN old = 1 .. e - 1
          /\ \A x \in 1 .. e - 1 : new[x] = old[x]
      BY <1>1, <2>1, <3>4
    <3> HIDE DEF old, new
    <3>6. IsInjective(new)
      <4>1. \A x \in 1 .. e - 1 : new[x] # string
        BY <3>4, <3>5 DEF Range
      <4>2. \A x, y \in 1 .. e - 1 : new[x] = new[y] => x = y
        BY <3>4, <3>5 DEF IsInjective
      <4> QED BY <1>1, <3>5, <4>1, <4>2 DEF IsInjective
    <3>7. ASSUME NEW i \in 1 .. n PROVE EntryIs(i)' /\ DefaultIs(i)'
      <4>1. CASE i # n
        <5>1. EnumsAdded(i)' = EnumsAdded(i)
          BY <1>1, <1>3, <4>1 DEF EnumsAdded
        <5>2. formatter'[i] = formatter[i]
          BY <2>3, <3>2, <3>3, <4>1
        <5>3. EntryIs(i)'
          BY <1>1, <3>2, <5>1, <5>2 DEF EntryIs
        <5>4. DefaultIs(i)'
          BY <1>1, <3>2, <5>2 DEF DefaultIs, Same, LastOf
        <5> QED BY <5>3, <5>4
      <4>2. CASE i = n
        <5>1. EnumsAdded(n)' = e
          BY <1>1, <1>3 DEF EnumsAdded
        <5>2. \A x \in 1 .. e : new[x] = fields[n].enum[x]
          BY <1>1, <3>4, <3>5 DEF string
        <5>3. EntryIs(n)'
          <6>1. EntryIs(n) /\ fields' = fields /\ n' = n /\ n \in DOMAIN fields
            BY <1>1, <3>2
          <6>2. /\ formatter'[n].name = formatter[n].name
                /\ formatter'[n].start_bit = formatter[n].start_bit
                /\ formatter'[n].end_bit = formatter[n].end_bit
                /\ formatter'[n].enum_count = formatter[n].enum_count
            BY <2>3, <6>1
          <6>3. /\ Len(formatter'[n].enums) = e /\ IsInjective(formatter'[n].enums)
                /\ \A x \in 1 .. e : formatter'[n].enums[x] = fields[n].enum[x]
            BY <3>5, <3>6, <5>2 DEF new
          <6> QED BY <5>1, <6>1, <6>2, <6>3 DEF EntryIs
        <5>4. DefaultIs(n)'
          <6>1. DefaultIs(n)
            BY <1>1, <3>2
          <6>2. formatter[n].default = NoValue
            BY <1>1, <6>1 DEF DefaultIs
          <6>3. formatter'[n].default = NoValue
            BY <1>1, <2>3, <6>2
          <6> QED BY <1>1, <6>3 DEF DefaultIs
        <5> QED BY <1>1, <4>2, <5>3, <5>4
      <4> QED BY <4>1, <4>2
    <3>8. \A i \in DOMAIN fields : i > n => formatter'[i] = Uninitialized
      BY <1>1, <2>3, <2>8, <3>1 DEF Described
    <3>9. lost' = {}
      <4>1. lost' = lost
        BY Zenon DEF AddEnum
      <4> QED BY <2>8, <4>1 DEF Described
    <3> QED BY <2>7, <3>7, <3>8, <3>9 DEF Described
  <2>9. \E q \in 1 .. Added' + 1 : FirstFree(q)' /\ (q = Added' + 1 => Described')
    BY <2>5, <2>6, <2>7, <2>8
  <2>10. e' <= Len(Field.enum)' + 1
    BY <1>1, <1>3, <2>1
  <2> QED BY <1>1, <1>3, <2>4, <2>9, <2>10 DEF FormatInv
<1> QED BY <1>2, <1>3 DEF AddEnum, Refused

LEMMA EnumsDoneFormat ==
    ASSUME IsFile, FormatInv, EnumsDone, UNCHANGED fields PROVE FormatInv'
<1>1. /\ format = "add_enum" /\ format' = "set_default" /\ UNCHANGED <<n, e, formatter, lost>>
      /\ n \in Nat \ {0} /\ n <= Len(fields) /\ n \in DOMAIN fields /\ Field = fields[n]
      /\ e \in Nat \ {0} /\ e > Len(Field.enum) /\ e <= Len(Field.enum) + 1
      /\ Field # Malformed /\ Field' = Field /\ Len(Field.enum) \in Nat
      /\ Added = n /\ Added' = n /\ IsEntries(formatter)
  BY FieldsType DEF EnumsDone, FormatInv, Added, Field
<1>2. IsEntries(formatter)'
  BY <1>1 DEF IsEntries, Entry, Words, Defaults, Symbols
<1>3. PICK p \in 1 .. n + 1 : FirstFree(p) /\ (p = n + 1 => Described)
  BY <1>1 DEF FormatInv
<1>4. FirstFree(p)'
  BY <1>1, <1>3 DEF FirstFree
<1>5. ASSUME Described PROVE Described'
  <2>1. ASSUME NEW i \in 1 .. n PROVE EntryIs(i)' /\ DefaultIs(i)'
    <3>1. EntryIs(i) /\ DefaultIs(i)
      BY <1>1, <1>5 DEF Described
    <3>2. EnumsAdded(i)' = EnumsAdded(i)
      BY <1>1 DEF EnumsAdded
    <3>3. EntryIs(i)'
      BY <1>1, <3>1, <3>2 DEF EntryIs
    <3> QED BY <1>1, <3>1, <3>3 DEF DefaultIs, Same, LastOf
  <2> QED BY <1>1, <1>5, <2>1 DEF Described
<1>6. \E q \in 1 .. Added' + 1 : FirstFree(q)' /\ (q = Added' + 1 => Described')
  BY <1>1, <1>3, <1>4, <1>5
<1> QED BY <1>1, <1>2, <1>6 DEF FormatInv

LEMMA SetDefaultFormat ==
    ASSUME IsFile, FormatInv, SetDefault, UNCHANGED fields PROVE FormatInv'
<1>1. /\ format = "set_default" /\ n \in Nat \ {0} /\ n <= Len(fields) /\ e' = e
      /\ e \in Nat \ {0} /\ Field # Malformed
      /\ IsEntries(formatter) /\ DOMAIN fields = 1 .. Len(fields) /\ Len(fields) \in Nat
      /\ Added = n /\ Field = fields[n] /\ n \in DOMAIN fields
      /\ DOMAIN formatter = DOMAIN fields
  BY FieldsType DEF SetDefault, FormatInv, Added, Field, IsEntries
<1>2. CASE format' = "rejected" /\ n' = n
  BY <1>1, <1>2 DEF FormatInv
<1> DEFINE g == Named(Field.name)
<1>3. CASE /\ format' = "add_field" /\ n' = n + 1
           /\ formatter' = [formatter EXCEPT ![g].default = Field.default]
  <2>1. Field.default \in Defaults
    BY <1>1, FieldsType
  <2> HIDE DEF g
  <2>2. /\ IsEntries(formatter')
        /\ \A i \in DOMAIN fields :
               /\ i # g => formatter'[i] = formatter[i]
               /\ i = g => formatter'[i].default = Field.default
               /\ formatter'[i].name = formatter[i].name
               /\ formatter'[i].start_bit = formatter[i].start_bit
               /\ formatter'[i].end_bit = formatter[i].end_bit
               /\ formatter'[i].enum_count = formatter[i].enum_count
               /\ formatter'[i].enums = formatter[i].enums
    <3>1. CASE g \notin DOMAIN formatter
      <4>1. formatter' = formatter
        BY <1>1, <1>3, <3>1 DEF IsEntries
      <4> QED BY <1>1, <3>1, <4>1
    <3>2. CASE g \in DOMAIN formatter
      <4>1. PICK d \in Defaults : d = Field.default
        BY <2>1
      <4>2. formatter' = [formatter EXCEPT ![g].default = d]
        BY <1>3, <4>1
      <4> QED BY <1>1, <3>2, <4>1, <4>2 DEF IsEntries, Entry
    <3> QED BY <3>1, <3>2
  <2>3. IsEntries(formatter)'
    BY <2>2 DEF IsEntries, Entry, Words, Defaults, Symbols
  <2>4. PICK p \in 1 .. n + 1 : FirstFree(p) /\ (p = n + 1 => Described)
    BY <1>1 DEF FormatInv
  <2>5. FirstFree(p)'
    <3>1. \A i \in DOMAIN fields : formatter'[i].start_bit = formatter[i].start_bit
      BY <2>2
    <3>2. \A i \in 1 .. p - 1 : i \in DOMAIN fields
      BY <1>1, <2>4
    <3> QED BY <1>1, <2>4, <3>1, <3>2 DEF FirstFree
  <2>6. Added' = n
    BY <1>1, <1>3 DEF Added
  <2>7. ASSUME Described PROVE Described'
    <3>1. /\ g \in 1 .. n /\ g \in DOMAIN fields /\ Same(g, n)
          /\ \A h \in 1 .. g - 1 : ~Same(h, n)
      BY <1>1, <2>7, NamedIs DEF g
    <3>2. ASSUME NEW i \in 1 .. n PROVE EntryIs(i)' /\ DefaultIs(i)'
      <4>1. EntryIs(i) /\ DefaultIs(i) /\ i \in DOMAIN fields
        BY <1>1, <2>7 DEF Described
      <4>2. EnumsAdded(i)' = EnumsAdded(i)
        BY <1>1, <1>3 DEF EnumsAdded
      <4>3. EntryIs(i)'
        BY <2>2, <4>1, <4>2 DEF EntryIs
      <4>4. ~(i >= n')
        BY <1>1, <1>3
      <4>5. CASE \E h \in 1 .. i - 1 : Same(h, i)
        <5>1. i # g
          BY <3>1, <4>5 DEF Same
        <5>2. formatter'[i].default = NoValue
          BY <2>2, <4>1, <4>5, <5>1 DEF DefaultIs
        <5> QED BY <4>3, <4>5, <5>2 DEF DefaultIs, Same
      <4>6. CASE i = g /\ ~\E h \in 1 .. i - 1 : Same(h, i)
        <5>1. PICK h \in DOMAIN fields : h = n
          BY <1>1
        <5>2. formatter'[i].default = fields'[h].default
          BY <1>1, <2>2, <4>1, <4>6, <5>1
        <5>3. LastOf(h, i)' /\ h \in 1 .. n' - 1
          BY <1>1, <1>3, <3>1, <4>6, <5>1 DEF LastOf, Same
        <5>4. ~\E m \in 1 .. i - 1 : Same(m, i)'
          BY <4>6 DEF Same
        <5> QED BY <4>3, <4>4, <5>2, <5>3, <5>4 DEF DefaultIs
      <4>7. CASE i # g /\ ~\E h \in 1 .. i - 1 : Same(h, i)
        <5>1. ~Same(n, i) /\ i < n
          <6> SUFFICES ASSUME Same(n, i) \/ i = n PROVE FALSE
            BY <1>1
          <6>1. Same(i, n) /\ Same(g, i)
            BY <3>1 DEF Same
          <6>2. ~(i < g) /\ ~(g < i)
            BY <1>1, <3>1, <4>7, <6>1
          <6> QED BY <3>1, <4>7, <6>2
        <5>2. PICK h \in 1 .. n - 1 : LastOf(h, i) /\ formatter[i].default = fields[h].default
          BY <1>1, <4>1, <4>7, <5>1 DEF DefaultIs
        <5>3. LastOf(h, i)' /\ h \in 1 .. n' - 1
          BY <1>1, <1>3, <5>1, <5>2 DEF LastOf, Same
        <5>4. formatter'[i].default = fields'[h].default
          BY <2>2, <4>1, <4>7, <5>2
        <5>5. ~\E m \in 1 .. i - 1 : Same(m, i)'
          BY <4>7 DEF Same
        <5> QED BY <4>3, <4>4, <5>3, <5>4, <5>5 DEF DefaultIs
      <4> QED BY <4>5, <4>6, <4>7
    <3>3. \A i \in DOMAIN fields : i > n => formatter'[i] = Uninitialized
      BY <1>1, <2>2, <2>7, <3>1 DEF Described
    <3>4. lost' = {}
      <4>1. lost' = lost
        BY Zenon DEF SetDefault
      <4> QED BY <2>7, <4>1 DEF Described
    <3> QED BY <2>6, <3>2, <3>3, <3>4 DEF Described
  <2>8. \E q \in 1 .. Added' + 1 : FirstFree(q)' /\ (q = Added' + 1 => Described')
    BY <2>4, <2>5, <2>6, <2>7
  <2> QED BY <1>1, <1>3, <2>3, <2>8 DEF FormatInv
<1> QED BY <1>2, <1>3 DEF SetDefault, Refused

LEMMA FinishFormat ==
    ASSUME IsFile, FormatInv, FinishFormatter, UNCHANGED fields PROVE FormatInv'
<1>1. /\ format = "add_field" /\ n \in Nat \ {0} /\ n = Len(fields) + 1
      /\ UNCHANGED <<n, e, formatter, lost>> /\ e \in Nat \ {0}
      /\ IsEntries(formatter) /\ DOMAIN fields = 1 .. Len(fields) /\ Len(fields) \in Nat
      /\ Added = n - 1 /\ DOMAIN formatter = DOMAIN fields
      /\ format' = IF FormatterInitialized THEN "ready" ELSE "rejected"
  BY FieldsType DEF FinishFormatter, FormatInv, Added, IsEntries
<1>2. CASE format' = "rejected"
  BY <1>1, <1>2 DEF FormatInv
<1>3. CASE format' = "ready" /\ FormatterInitialized
  <2>1. PICK p \in 1 .. n : FirstFree(p) /\ (p = n => Described)
    BY <1>1 DEF FormatInv
  <2>2. p \notin DOMAIN fields
    BY <1>1, <1>3, <2>1 DEF FormatterInitialized, FirstFree
  <2>3. p = n /\ Described
    BY <1>1, <2>1, <2>2
  <2>4. IsEntries(formatter)'
    BY <1>1 DEF IsEntries, Entry, Words, Defaults, Symbols
  <2>5. Added' = n - 1
    BY <1>1, <1>3 DEF Added
  <2>6. FirstFree(p)'
    BY <1>1, <2>1 DEF FirstFree
  <2>7. Described'
    <3>1. ASSUME NEW i \in 1 .. n - 1 PROVE EntryIs(i)' /\ DefaultIs(i)'
      <4>1. EntryIs(i) /\ DefaultIs(i)
        BY <1>1, <2>3 DEF Described
      <4>2. EnumsAdded(i)' = EnumsAdded(i)
        BY <1>1, <1>3 DEF EnumsAdded
      <4>3. EntryIs(i)'
        BY <1>1, <4>1, <4>2 DEF EntryIs
      <4> QED BY <1>1, <4>1, <4>3 DEF DefaultIs, Same, LastOf
    <3> QED BY <1>1, <2>3, <2>5, <3>1 DEF Described
  <2>8. \E q \in 1 .. Added' + 1 : FirstFree(q)' /\ (q = Added' + 1 => Described')
    BY <1>1, <2>1, <2>5, <2>6, <2>7
  <2> QED BY <1>1, <1>3, <2>4, <2>7, <2>8 DEF FormatInv
<1> QED BY <1>1, <1>2, <1>3

LEMMA NextFormat == IsFile /\ FormatInv /\ [Next]_vars => FormatInv'
<1> SUFFICES ASSUME IsFile, FormatInv, [Next]_vars PROVE FormatInv'
  OBVIOUS
<1>1. UNCHANGED fields
  BY StepsOfParts DEF Contents
<1>2. CASE CreateFormatter
  BY <1>1, <1>2, FormatterInitFormat, AddFieldFormat, AddEnumFormat, EnumsDoneFormat,
     SetDefaultFormat, FinishFormat DEF CreateFormatter
<1>3. CASE UNCHANGED formatVars
  <2>1. UNCHANGED <<format, n, e, formatter, lost>> /\ Field' = Field /\ Added' = Added
    BY <1>1, <1>3 DEF formatVars, Field, Added
  <2>2. IsEntries(formatter)' <=> IsEntries(formatter)
    BY <1>1, <2>1 DEF IsEntries, Entry, Words, Defaults, Symbols
  <2>3. \A i : EntryIs(i)' <=> EntryIs(i)
    BY <1>1, <2>1 DEF EntryIs, EnumsAdded
  <2>4. \A i : DefaultIs(i)' <=> DefaultIs(i)
    BY <1>1, <2>1 DEF DefaultIs, Same, LastOf
  <2>5. Described' <=> Described
    BY <1>1, <2>1, <2>3, <2>4 DEF Described
  <2>6. \A p : FirstFree(p)' <=> FirstFree(p)
    BY <1>1, <2>1 DEF FirstFree
  <2> QED BY <1>1, <2>1, <2>2, <2>5, <2>6 DEF FormatInv
<1>4. CASE format = "idle" /\ format' = "init" /\ UNCHANGED <<n, e, formatter, lost>>
  BY <1>4 DEF FormatInv
<1> QED BY <1>2, <1>3, <1>4, StepsOfParts

\* A slot is what was described or is not filled yet, as long as no field
\* starts nowhere; the invariant behind the next theorem.
THEOREM FormatInvariance == Spec => []FormatInv
BY InitFormat, NextFormat, File, PTL DEF Spec

\* A formatter that is returned has the fields as they are described, each
\* with its own bits and enumerators, no two alike, and its own default
\* unless several have one name: then the first of them has the last
\* default, and the others have none.
THEOREM FormatterIsDescribed == Spec => []FieldsAsDescribed
<1>1. IsFile /\ FormatInv => FieldsAsDescribed
  <2> SUFFICES ASSUME IsFile, FormatInv, format = "ready", NEW i \in DOMAIN fields
               PROVE  /\ formatter[i].name = fields[i].name
                      /\ formatter[i].start_bit = Unsigned(fields[i].start_bit)
                      /\ formatter[i].end_bit = Unsigned(fields[i].end_bit)
                      /\ formatter[i].enums = fields[i].enum /\ IsInjective(formatter[i].enums)
                      /\ IF \E h \in 1 .. i - 1 : fields[h].name = fields[i].name
                         THEN formatter[i].default = NoValue
                         ELSE LET same == {h \in DOMAIN fields : fields[h].name = fields[i].name}
                              IN  formatter[i].default = fields[Max(same)].default
    BY DEF FieldsAsDescribed
  <2>1. /\ n = Len(fields) + 1 /\ Added = n - 1 /\ DOMAIN fields = 1 .. n - 1
        /\ Len(fields) \in Nat /\ i \in 1 .. n - 1 /\ ~(i >= n)
    BY FieldsType DEF FormatInv, Added
  <2>2. EntryIs(i) /\ DefaultIs(i)
    BY <2>1 DEF FormatInv, Described
  <2>3. formatter[i].enums = fields[i].enum
    <3>1. EnumsAdded(i) = Len(fields[i].enum)
      BY DEF EnumsAdded
    <3>2. formatter[i].enums \in Seq(Symbols)
      BY DEF FormatInv, IsEntries, Entry
    <3>3. fields[i].enum \in Seq(Symbols)
      BY <2>2, FieldsType DEF EntryIs
    <3>4. /\ Len(formatter[i].enums) = Len(fields[i].enum)
          /\ \A x \in 1 .. Len(fields[i].enum) : formatter[i].enums[x] = fields[i].enum[x]
      BY <2>2, <3>1 DEF EntryIs
    <3> QED BY <3>2, <3>3, <3>4, SeqEqual
  <2>4. CASE \E h \in 1 .. i - 1 : Same(h, i)
    BY <2>2, <2>3, <2>4 DEF EntryIs, DefaultIs, Same
  <2>5. CASE ~\E h \in 1 .. i - 1 : Same(h, i)
    <3> DEFINE same == {h \in DOMAIN fields : fields[h].name = fields[i].name}
    <3>1. PICK h \in 1 .. n - 1 : LastOf(h, i) /\ formatter[i].default = fields[h].default
      BY <2>1, <2>2, <2>5 DEF DefaultIs
    <3>2. h \in same /\ same \in SUBSET Nat /\ \A x \in same : h >= x
      BY <2>1, <3>1 DEF LastOf, Same
    <3>3. Max(same) \in same /\ \A y \in same : Max(same) >= y
      BY <3>2 DEF Max
    <3>4. Max(same) = h
      BY <3>2, <3>3
    <3>5. formatter[i].default = fields[Max(same)].default
      BY <3>1, <3>4
    <3> QED BY <2>2, <2>3, <2>5, <3>5 DEF EntryIs, Same
  <2> QED BY <2>4, <2>5
<1> QED BY <1>1, FormatInvariance, File, PTL

-----------------------------------------------------------------------------
(* What a formatter loses: nothing, unless a field starts nowhere.         *)

SomeStartsNowhere == \E field \in Range(fields) : StartsNowhere(field)

LostInv ==
    /\ lost \subseteq {"field name", "field enums"}
    /\ lost # {} => SomeStartsNowhere
    /\ format \in {"add_field", "add_enum", "set_default"} => FirstFree(Added + 1) \/ SomeStartsNowhere

LEMMA InitLost == Init => LostInv
BY DEF Init, FormatInit, LostInv

LEMMA AddFieldLost ==
    ASSUME IsFile, FormatInv, LostInv, AddField, UNCHANGED fields PROVE LostInv'
<1>1. SomeStartsNowhere' <=> SomeStartsNowhere
  BY DEF SomeStartsNowhere, StartsNowhere
<1> DEFINE Free0 == {i \in DOMAIN formatter : formatter[i].start_bit = BIT_UNINITIALIZED}
<1>2. \A f : Held(f) \subseteq {"field name", "field enums"}
  BY DEF Held
<1>3. /\ format = "add_field" /\ n \in Nat \ {0} /\ n <= Len(fields)
      /\ Added = n - 1 /\ Added + 1 = n
      /\ DOMAIN fields = 1 .. Len(fields) /\ Len(fields) \in Nat /\ DOMAIN formatter = DOMAIN fields
  <2>1. format = "add_field" /\ n <= Len(fields)
    BY DEF AddField
  <2> QED BY <2>1, FieldsType DEF FormatInv, Added, IsEntries
<1>4. \/ lost' = lost \/ lost' = lost \cup Held(Min(Free0))
      \/ lost' = lost \cup (Held(Min(Free0)) \cap {"field name"})
  BY Zenon DEF AddField
<1>5. n' = n
  BY DEF AddField
<1>6. lost' \subseteq {"field name", "field enums"}
  BY <1>2, <1>4 DEF LostInv
<1>7. CASE SomeStartsNowhere
  BY <1>1, <1>6, <1>7 DEF LostInv
<1>8. CASE ~SomeStartsNowhere
  <2>1. FirstFree(n) /\ lost = {}
    BY <1>3, <1>8 DEF LostInv
  <2>2. PICK p \in 1 .. n : FirstFree(p) /\ (p = n => Described)
    BY <1>3 DEF FormatInv
  <2>3. p = n
    BY <1>3, <2>1, <2>2 DEF FirstFree
  <2>4. formatter[n] = Uninitialized
    BY <1>3, <2>2, <2>3 DEF Described
  <2>5. Min(Free0) = n
    <3>1. n \in Free0 /\ Free0 \in SUBSET Nat
      BY <1>3, <2>1 DEF FirstFree
    <3>2. Min(Free0) \in Free0 /\ Min(Free0) <= n
      BY <3>1, MinIs
    <3>3. ~(Min(Free0) < n)
      BY <1>3, <2>1, <3>2 DEF FirstFree
    <3> QED BY <1>3, <3>1, <3>2, <3>3
  <2> HIDE DEF Free0
  <2>6. lost' = {}
    <3>1. Uninitialized.enum_count = 0
      BY DEF Uninitialized
    <3>2. Held(n) = {}
      BY <2>4, <3>1 DEF Held
    <3> QED BY <1>4, <2>1, <2>5, <3>2
  <2>7. CASE format' \in {"rejected", "undefined"}
    BY <2>6, <2>7 DEF LostInv
  <2>8. CASE /\ IsField /\ format' \in {"add_enum", "set_default"}
             /\ formatter' = [formatter EXCEPT ![n] =
                    [@ EXCEPT !.name = Field.name, !.start_bit = Unsigned(Field.start_bit),
                              !.end_bit = Unsigned(Field.end_bit),
                              !.enum_count = Len(Field.enum), !.enums = <<>>]]
    <3>1. Unsigned(Field.start_bit) # BIT_UNINITIALIZED
      BY <1>3, <1>8, <2>8 DEF SomeStartsNowhere, StartsNowhere, IsField, Field, Range
    <3> DEFINE new == [formatter[n] EXCEPT !.name = Field.name,
                          !.start_bit = Unsigned(Field.start_bit),
                          !.end_bit = Unsigned(Field.end_bit),
                          !.enum_count = Len(Field.enum), !.enums = <<>>]
    <3>2. new.start_bit = Unsigned(Field.start_bit)
      BY <2>4 DEF Uninitialized
    <3>3. formatter' = [formatter EXCEPT ![n] = new]
      BY <2>8
    <3> HIDE DEF new
    <3>4. /\ formatter'[n].start_bit = Unsigned(Field.start_bit)
          /\ \A i \in DOMAIN fields : i # n => formatter'[i] = formatter[i]
      BY <1>3, <3>2, <3>3
    <3>5. FirstFree(Added + 1)'
      <4>1. Added' = n
        BY <1>3, <1>5, <2>8 DEF Added
      <4> QED BY <1>3, <2>1, <3>1, <3>4, <4>1 DEF FirstFree
    <3> QED BY <1>1, <1>8, <2>6, <2>8, <3>5 DEF LostInv
  <2> QED BY <1>3, <2>5, <2>7, <2>8 DEF AddField, Refused, Free0, IsEnum
<1> QED BY <1>7, <1>8

LEMMA NextLost == IsFile /\ FormatInv /\ LostInv /\ [Next]_vars => LostInv'
<1> SUFFICES ASSUME IsFile, FormatInv, LostInv, [Next]_vars PROVE LostInv'
  OBVIOUS
<1>1. UNCHANGED fields /\ (SomeStartsNowhere' <=> SomeStartsNowhere)
  BY StepsOfParts DEF Contents, SomeStartsNowhere, StartsNowhere
<1>2. CASE lost' = lost /\ format' \notin {"add_field", "add_enum", "set_default"}
  BY <1>1, <1>2 DEF LostInv
<1>3. CASE FormatterInit /\ format' = "add_field"
  <2>1. Added' + 1 = 1 /\ lost' = lost
    BY <1>3 DEF FormatterInit, FormatInv, Added
  <2>2. \A i \in DOMAIN fields : formatter'[i] = Uninitialized
    BY <1>3 DEF FormatterInit, Refused
  <2>3. FirstFree(1)'
    <3>1. Uninitialized.start_bit = BIT_UNINITIALIZED
      BY DEF Uninitialized
    <3> QED BY <1>1, <2>2, <3>1 DEF FirstFree
  <2> QED BY <1>1, <2>1, <2>3 DEF LostInv
<1>4. CASE AddField
  BY <1>1, <1>4, AddFieldLost
<1>5. ASSUME lost' = lost, format \in {"add_field", "add_enum", "set_default"}, Added' = Added,
             DOMAIN formatter = DOMAIN fields, Added \in Nat,
             \A i \in DOMAIN fields : formatter'[i].start_bit = formatter[i].start_bit,
             Added <= Len(fields)
      PROVE  LostInv'
  <2>1. FirstFree(Added + 1)' <=> FirstFree(Added + 1)
    BY <1>1, <1>5, FieldsType DEF FirstFree
  <2> QED BY <1>1, <1>5, <2>1 DEF LostInv
<1>6. CASE AddEnum
  <2>1. /\ n \in Nat /\ n <= Len(fields) /\ IsEntries(formatter)
        /\ format = "add_enum" /\ n' = n /\ lost' = lost
    BY <1>6 DEF AddEnum, FormatInv
  <2>2. CASE format' = "rejected"
    BY <1>2, <2>1, <2>2
  <2>3. CASE format' = format /\ formatter' = [formatter EXCEPT ![Named(Field.name)].enums = Append(@, Field.enum[e])]
    <3>1. \A i \in DOMAIN fields : formatter'[i].start_bit = formatter[i].start_bit
      BY <2>1, <2>3 DEF IsEntries, Entry
    <3> QED BY <1>5, <2>1, <2>3, <3>1, FieldsType DEF Added, IsEntries
  <2> QED BY <1>6, <2>2, <2>3 DEF AddEnum, Refused
<1>7. CASE EnumsDone
  <2>1. /\ n \in Nat /\ n <= Len(fields) /\ IsEntries(formatter)
        /\ format = "add_enum" /\ format' = "set_default" /\ UNCHANGED <<n, lost, formatter>>
    BY <1>7 DEF EnumsDone, FormatInv
  <2> QED BY <1>5, <2>1, FieldsType DEF Added, IsEntries
<1>8. CASE SetDefault
  <2>1. /\ n \in Nat /\ n <= Len(fields) /\ IsEntries(formatter)
        /\ format = "set_default" /\ lost' = lost
    BY <1>8 DEF SetDefault, FormatInv
  <2>2. CASE format' = "rejected"
    BY <1>2, <2>1, <2>2
  <2>3. CASE /\ format' = "add_field" /\ n' = n + 1
             /\ formatter' = [formatter EXCEPT ![Named(Field.name)].default = Field.default]
    <3>1. \A i \in DOMAIN fields : formatter'[i].start_bit = formatter[i].start_bit
      BY <2>1, <2>3 DEF IsEntries, Entry
    <3> QED BY <1>5, <2>1, <2>3, <3>1, FieldsType DEF Added, IsEntries
  <2> QED BY <1>8, <2>2, <2>3 DEF SetDefault, Refused
<1>9. CASE FinishFormatter
  BY <1>2, <1>9 DEF FinishFormatter
<1>10. CASE FormatterInit /\ format' # "add_field"
  BY <1>2, <1>10 DEF FormatterInit, Refused
<1>11. CASE UNCHANGED formatVars
  <2>1. FirstFree(Added + 1)' <=> FirstFree(Added + 1)
    BY <1>11, FieldsType DEF FirstFree, Added, formatVars
  <2> QED BY <1>1, <1>11, <2>1 DEF LostInv, formatVars
<1>12. CASE format = "idle" /\ format' = "init" /\ UNCHANGED <<n, e, formatter, lost>>
  BY <1>2, <1>12
<1> QED BY <1>3, <1>4, <1>6, <1>7, <1>8, <1>9, <1>10, <1>11, <1>12, StepsOfParts DEF CreateFormatter

\* What the formatter has lost are names and enumerators of fields, and only
\* if the description has a field that starts at BIT_UNINITIALIZED.
THEOREM LostInvariance == Spec => []LostInv
BY InitLost, NextLost, File, FormatInvariance, PTL DEF Spec

-----------------------------------------------------------------------------
(* What is allocated.                                                      *)

Losses == IF SomeStartsNowhere THEN {"field name", "field enums"} ELSE {}

Parts == {"dev", "name", "description", "data", "sm", "fmt", "values"}

HeapInv ==
    /\ loader \in {"find", "calloc", "json", "name", "description", "num_bits", "states",
                   "fields", "values", "stages", "out", "returned", "undefined"}
    /\ status \in {-1, 0}
    /\ loader \in {"calloc", "name", "description", "num_bits", "states", "fields", "values"} =>
           kind = "device"
    /\ loader = "stages" => kind = "filter"
    /\ loader \in {"find", "calloc", "json", "name", "description", "num_bits", "states",
                   "fields", "stages"} => status = -1
    /\ loader = "find" => heap = {}
    /\ loader = "calloc" => heap = {"input"}
    /\ loader = "json" => heap = IF kind = "device" THEN {"input", "dev"} ELSE {"input"}
    /\ loader = "name" => heap = {"input", "dev", "root"}
    /\ loader = "description" => heap = {"input", "dev", "root", "name"}
    /\ loader = "num_bits" => heap = {"input", "dev", "root", "name", "description"}
    /\ loader = "states" => heap = {"input", "dev", "root", "name", "description", "data"}
    /\ loader = "fields" => heap = {"input", "dev", "root", "name", "description", "data", "sm"}
    /\ loader = "values" =>
           /\ status = 0
           /\ heap = {"input", "root"} \cup (Parts \ {"values"})
    /\ loader = "stages" => heap = {"input", "root"}
    /\ loader = "out" /\ status = -1 =>
           heap \subseteq {"input", "root"} \cup Losses \cup (IF kind = "device" THEN Parts ELSE {})
    /\ loader = "out" /\ status = 0 =>
           IF kind = "filter" THEN heap = {"input", "root", "fir"}
           ELSE \/ heap = {"input", "root"} \cup Parts
                \/ out_of_memory /\ heap = {"input", "root"} \cup (Parts \ {"values"})
    /\ loader = "returned" =>
           /\ result \in {"NULL", kind}
           /\ ReturnsAllOrNothing

LEMMA InitHeap == Init => HeapInv
BY DEF Init, HeapInv, MemoryInit

LEMMA NextHeap == IsFile /\ FormatInv /\ LostInv /\ HeapInv /\ [Next]_vars => HeapInv'
<1> SUFFICES ASSUME IsFile, FormatInv, LostInv, HeapInv, [Next]_vars PROVE HeapInv'
  OBVIOUS
<1>1. kind \in {"device", "filter"} /\ bad \in {"none", "root", "name", "description", "data"}
  BY FileProperties
<1>2. kind' = kind /\ (out_of_memory => out_of_memory')
  BY StepsOfParts DEF Contents
<1>3. fields' = fields /\ Losses' = Losses /\ lost \subseteq Losses
  <2>1. fields' = fields
    BY StepsOfParts DEF Contents
  <2>2. SomeStartsNowhere' <=> SomeStartsNowhere
    BY <2>1 DEF SomeStartsNowhere, StartsNowhere
  <2> QED BY <2>1, <2>2 DEF Losses, LostInv
<1>4. CASE FindStep
  <2>1. UNCHANGED <<loader, heap, status, result, kind>> /\ loader = "find"
    BY <1>4 DEF FindStep, ownVars
  <2> QED BY <1>2, <1>3, <2>1 DEF HeapInv
<1>5. CASE FindDone
  <2>1. status' = status /\ loader = "find" /\ out_of_memory' = out_of_memory
    BY <1>5 DEF FindDone
  <2>2. \/ /\ loader' = IF kind = "device" THEN "calloc" ELSE "json"
           /\ heap' = {"input"} /\ result' = result
        \/ loader' = "returned" /\ result' = "NULL" /\ heap' = heap
        \/ loader' = "undefined" /\ UNCHANGED <<heap, result>>
    BY <1>5 DEF FindDone, Goto
  <2> QED BY <1>1, <1>2, <1>3, <2>1, <2>2 DEF HeapInv, ReturnsAllOrNothing
<1>6. ASSUME NEW label, NEW part, NEW next, Reads(label, part, next)
      PROVE  /\ loader = label /\ UNCHANGED <<status, result>>
             /\ \/ heap' = heap \cup {part} /\ loader' = next
                \/ /\ heap' = heap /\ loader' = "out"
                   /\ bad = part \/ out_of_memory'
  BY <1>6 DEF Reads, Goto, Fails, AllocationFails
<1>7. CASE AllocateDevice
  <2>1. /\ loader = "calloc" /\ UNCHANGED <<status, result>>
        /\ \/ heap' = heap \cup {"dev"} /\ loader' = "json"
           \/ heap' = heap /\ loader' = "out"
    BY <1>6, <1>7 DEF AllocateDevice
  <2> QED BY <1>1, <1>2, <1>3, <2>1 DEF HeapInv, Parts
<1>8. CASE LoadJson
  <2>1. /\ loader = "json" /\ UNCHANGED <<status, result>>
        /\ \/ heap' = heap \cup {"root"} /\ loader' = IF kind = "device" THEN "name" ELSE "stages"
           \/ heap' = heap /\ loader' = "out"
    BY <1>6, <1>8 DEF LoadJson
  <2> QED BY <1>1, <1>2, <1>3, <2>1 DEF HeapInv, Parts
<1>9. CASE ReadName
  <2>1. /\ loader = "name" /\ UNCHANGED <<status, result>>
        /\ \/ heap' = heap \cup {"name"} /\ loader' = "description"
           \/ heap' = heap /\ loader' = "out"
    BY <1>6, <1>9 DEF ReadName
  <2> QED BY <1>1, <1>2, <1>3, <2>1 DEF HeapInv, Parts
<1>10. CASE ReadDescription
  <2>1. /\ loader = "description" /\ UNCHANGED <<status, result>>
        /\ \/ heap' = heap \cup {"description"} /\ loader' = "num_bits"
           \/ heap' = heap /\ loader' = "out"
    BY <1>6, <1>10 DEF ReadDescription
  <2> QED BY <1>1, <1>2, <1>3, <2>1 DEF HeapInv, Parts
<1>11. CASE ReadData
  <2>1. /\ loader = "num_bits" /\ UNCHANGED <<status, result>>
        /\ \/ heap' = heap \cup {"data"} /\ loader' = "states"
           \/ heap' = heap /\ loader' = "out"
    BY <1>6, <1>11 DEF ReadData
  <2> QED BY <1>1, <1>2, <1>3, <2>1 DEF HeapInv, Parts
<1>12. CASE Build
  <2>1. /\ loader = "states" /\ UNCHANGED <<status, result>>
        /\ \/ UNCHANGED <<loader, heap>>
           \/ loader' = "fields" /\ heap' = heap \cup {"sm"}
           \/ loader' \in {"out", "undefined"} /\ heap' = heap
    BY <1>12 DEF Build, Goto, Fails
  <2> QED BY <1>1, <1>2, <1>3, <2>1 DEF HeapInv, Parts
<1>13. CASE Format
  <2>1. /\ loader = "fields" /\ UNCHANGED result
        /\ \/ UNCHANGED <<loader, heap, status>>
           \/ loader' = "values" /\ heap' = heap \cup {"fmt"} /\ status' = 0
           \/ loader' = "out" /\ heap' = heap \cup lost /\ status' = status
           \/ loader' = "undefined" /\ heap' = heap /\ status' = status
    <3>1. format = "ready" => lost = {}
      BY DEF FormatInv, Described
    <3> QED BY <1>13, <3>1 DEF Format, Goto, Fails
  <2> QED BY <1>1, <1>2, <1>3, <2>1 DEF HeapInv, Parts
<1>14. CASE AllocateValues
  <2>1. /\ loader = "values" /\ loader' = "out" /\ UNCHANGED <<status, result>>
        /\ \/ heap' = heap \cup {"values"}
           \/ heap' = heap /\ out_of_memory'
    BY <1>1, <1>6, <1>14 DEF AllocateValues
  <2> QED BY <1>1, <1>2, <1>3, <2>1 DEF HeapInv, Parts
<1>15. CASE Stages
  <2>1. /\ loader = "stages" /\ UNCHANGED result
        /\ \/ UNCHANGED <<loader, heap, status>>
           \/ loader' = "out" /\ heap' = heap \cup {"fir"} /\ status' = 0
           \/ loader' \in {"out", "undefined"} /\ heap' = heap /\ status' = status
    BY <1>15 DEF Stages, Goto, Fails
  <2> QED BY <1>1, <1>2, <1>3, <2>1 DEF HeapInv, Parts
<1>16. CASE Out
  <2>1. /\ loader = "out" /\ loader' = "returned" /\ UNCHANGED <<status, out_of_memory>>
        /\ IF status = 0 THEN heap' = heap \ {"root", "input"} /\ result' = kind
           ELSE heap' = DeviceDeinit(heap \ {"root", "input"}) /\ result' = "NULL"
    BY <1>16 DEF Out, Goto
  <2>2. CASE status = 0
    <3>1. ReturnsAllOrNothing'
      BY <1>1, <1>2, <2>1, <2>2 DEF HeapInv, Parts, ReturnsAllOrNothing
    <3> QED BY <1>1, <1>2, <1>3, <2>1, <2>2, <3>1 DEF HeapInv
  <2>3. CASE status = -1
    <3>1. heap' \subseteq Losses
      BY <1>1, <2>1, <2>3 DEF HeapInv, Parts, DeviceDeinit
    <3>2. ReturnsAllOrNothing'
      <4>1. /\ heap' \subseteq {"field name", "field enums"}
            /\ heap' = {} \/ SomeStartsNowhere'
        BY <1>3, <3>1 DEF Losses
      <4>2. (loader = "returned" /\ result = "NULL")'
        BY <2>1, <2>3
      <4> QED BY <4>1, <4>2 DEF ReturnsAllOrNothing, SomeStartsNowhere
    <3> QED BY <1>1, <1>2, <1>3, <2>1, <2>3, <3>2 DEF HeapInv
  <2> QED BY <2>2, <2>3 DEF HeapInv
<1>17. CASE UNCHANGED vars
  <2>1. UNCHANGED <<loader, heap, status, result, kind, out_of_memory>>
    BY <1>17 DEF vars, ownVars
  <2>2. ReturnsAllOrNothing' <=> ReturnsAllOrNothing
    BY <1>3, <2>1 DEF ReturnsAllOrNothing
  <2> QED BY <1>3, <2>1, <2>2 DEF HeapInv
<1> QED BY <1>4, <1>5, <1>7, <1>8, <1>9, <1>10, <1>11, <1>12, <1>13, <1>14, <1>15, <1>16, <1>17
        DEF Next

\* What is allocated or open is determined by how far device_init() or
\* fir_init() has come and by its status.
THEOREM HeapInvariance == Spec => []HeapInv
BY InitHeap, NextHeap, File, FormatInvariance, LostInvariance, PTL DEF Spec

\* Whatever is missing, and whatever finds no memory, a device or a filter
\* with all its parts is returned and nothing else is left, or NULL and
\* nothing is; but for a device that found no memory for its list.
THEOREM AllOrNothing == Spec => []ReturnsAllOrNothing
<1>1. HeapInv => ReturnsAllOrNothing
  BY DEF HeapInv, ReturnsAllOrNothing
<1> QED BY <1>1, HeapInvariance, PTL
=============================================================================
