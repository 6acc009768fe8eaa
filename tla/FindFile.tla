------------------------------ MODULE FindFile ------------------------------
(***************************************************************************)
(* find_device_file() and find_filter_file() of src/src/find.c: three      *)
(* calls of find_file(), each of which tries four directories in turn.     *)
(* Every path is put together part by part in one growing buffer; a path   *)
(* that finds no memory is skipped.                                        *)
(***************************************************************************)
EXTENDS Memory

CONSTANTS
    NameLen, HomeLen, DataLen,  \* strlen() of the name, of $HOME and of the data directory
    Increment                   \* STR_LEN_INC

ASSUME FindAssumption ==
    /\ {NameLen, HomeLen, DataLen} \subseteq Nat
    /\ Increment \in Nat \ {0}

VARIABLES
    tree,       \* the paths that can be opened
    home,       \* whether HOME is in the environment
    search,     \* "init", "append", "found", "missing", "crashed"
    pattern,    \* which call of find_file()
    dir,        \* i, which of search_paths[]
    path,       \* the parts in path.buf
    len,        \* path.len
    max_len     \* path.max_len

findVars == <<tree, home, search, pattern, dir, path, len, max_len>>

\* strlen() of the parts; "devices/" stands for "filters/", as long, too.
Length(part) ==
    CASE part = "$HOME"                -> HomeLen
      [] part = "OOKIEDOKIE_DATA_DIR"  -> DataLen
      [] part = "name"                 -> NameLen
      [] part = ""                     -> 0
      [] part = "/"                    -> 1
      [] part = ".json"                -> 5
      [] part = "devices/"             -> 8
      [] part = ".OOKiedokie/"         -> 12
      [] part = ".config/OOKiedokie/"  -> 19
      [] OTHER                         -> 0     \* there is none

\* search_paths[], each with its prefix.
SearchPaths == <<
    <<"">>, <<"$HOME", "/", ".config/OOKiedokie/">>, <<"$HOME", "/", ".OOKiedokie/">>,
    <<"OOKIEDOKIE_DATA_DIR", "">> >>

Patterns == << <<"name">>, <<"name", ".json">>, <<"devices/", "name", ".json">> >>

Candidate(p, d) == SearchPaths[d] \o Patterns[p]
Candidates == {Candidate(p, d) : p \in DOMAIN Patterns, d \in DOMAIN SearchPaths}

FindInit ==
    /\ search = "init"
    /\ pattern = 1
    /\ dir = 1
    /\ path = <<>>
    /\ len = 0
    /\ max_len = 0

\* The next call of find_file(), or the end.
NextPattern ==
    IF pattern < Len(Patterns)
    THEN search' = "init" /\ pattern' = pattern + 1
    ELSE search' = "missing" /\ UNCHANGED pattern

\* Mutant: the loop goes on where that of the last call has stopped.
StrInitKeepsDir ==
    /\ search = "init"
    /\ \/ /\ Allocates
          /\ search' = "append" /\ path' = <<>> /\ len' = 0 /\ max_len' = Increment
          /\ UNCHANGED <<pattern, dir>>
       \/ AllocationFails /\ NextPattern /\ UNCHANGED <<dir, path, len, max_len>>
    /\ UNCHANGED <<tree, home>>

\* str_init(): calloc() of the buffer.
StrInit ==
    /\ search = "init"
    /\ \/ /\ Allocates
          /\ search' = "append" /\ dir' = 1 /\ path' = <<>> /\ len' = 0 /\ max_len' = Increment
          /\ UNCHANGED pattern
       \/ AllocationFails /\ NextPattern /\ UNCHANGED <<dir, path, len, max_len>>
    /\ UNCHANGED <<tree, home>>

\* On to the next path, which begins with str_reset(), and to the next call
\* after the last.
NextPath ==
    IF dir < Len(SearchPaths)
    THEN dir' = dir + 1 /\ path' = <<>> /\ len' = 0 /\ UNCHANGED <<search, pattern>>
    ELSE NextPattern /\ UNCHANGED <<dir, path, len>>

\* str_append() of the next part; strlen(NULL), or the assertion that a path
\* always fits in the buffer with its end (find.c:97), stops the program.
AppendPart ==
    /\ search = "append" /\ path # Candidate(pattern, dir)
    /\ LET part == Candidate(pattern, dir)[Len(path) + 1]
           appended_len == len + Length(part)
           grows == appended_len >= max_len
           new_max == IF grows THEN appended_len + Increment ELSE max_len
       IN  \/ /\ (part = "$HOME" /\ ~home) \/ appended_len >= new_max
             /\ search' = "crashed"
             /\ UNCHANGED <<pattern, dir, path, len, max_len, out_of_memory>>
          \/ /\ part = "$HOME" => home
             /\ \/ /\ Allocates
                   /\ path' = Append(path, part) /\ len' = appended_len /\ max_len' = new_max
                   /\ UNCHANGED <<search, pattern, dir>>
                \/ grows /\ AllocationFails /\ NextPath /\ UNCHANGED max_len
    /\ UNCHANGED <<tree, home>>

\* fopen()
Open ==
    /\ search = "append" /\ path = Candidate(pattern, dir)
    /\ IF path \in tree THEN search' = "found" /\ UNCHANGED <<pattern, dir, path, len>>
       ELSE NextPath
    /\ UNCHANGED <<tree, home, max_len, out_of_memory>>

Find == StrInit \/ AppendPart \/ Open

-----------------------------------------------------------------------------
\* The file that is opened is the first there is: the name as it is before
\* the name with an extension before that in the subdirectory, and for each
\* the working directory, the user's two and the installed one.  Only memory
\* that runs out makes the search pass over a file, and only without $HOME
\* does it not end.
Order(p, d) == Len(SearchPaths) * p + d

FirstFound ==
    LET here == {c \in (DOMAIN Patterns) \X (DOMAIN SearchPaths) : Candidate(c[1], c[2]) \in tree}
    IN  /\ search = "crashed" => ~home
        /\ search = "found" => <<pattern, dir>> \in here
        /\ search = "found" /\ ~out_of_memory =>
               \A c \in here : Order(pattern, dir) <= Order(c[1], c[2])
        /\ search = "missing" /\ ~out_of_memory => here = {}
=============================================================================
