---------------------------- MODULE FormatterBuild ----------------------------
(***************************************************************************)
(* How the "fields" of a device description become a formatter:            *)
(* create_formatter() and add_field() of src/src/device.c over             *)
(* formatter_init(), formatter_add_field(), formatter_add_field_enum(),    *)
(* formatter_set_field_default() and formatter_initialized() of            *)
(* src/src/formatter.c.  Enumerators and the default are added to a field  *)
(* that is looked up by its name.  Endianness, scaling and offset are      *)
(* copied as they are and left out, and names differ in more than case.    *)
(* Module Loading takes these steps.                                       *)
(***************************************************************************)
EXTENDS Memory

VARIABLES
    format,     \* where create_formatter() is: "idle", "init", "add_field",
                \* "add_enum", "set_default", "ready", "rejected", "undefined"
    fields,     \* the "fields" array: a sequence of [name, start_bit, end_bit,
                \* enum, default], some of them Malformed
    n,          \* the field being added
    e,          \* the enumerator of that field being added
    formatter,  \* f->fields
    lost        \* what is allocated and no pointer refers to any more

formatVars == <<format, fields, n, e, formatter, lost>>

BIT_UNINITIALIZED == MaxUint
NoValue == "none"   \* a default_value that is not set

Uninitialized == [name |-> "", start_bit |-> BIT_UNINITIALIZED,
                  end_bit |-> BIT_UNINITIALIZED, enum_count |-> 0, enums |-> <<>>, default |-> NoValue]

FormatInit ==
    /\ format = "idle"
    /\ n = 1
    /\ e = 1
    /\ formatter = <<>>
    /\ lost = {}

Field == fields[n]
IsEnum == Field.enum # <<>>
Refused == format' = "rejected"

\* formatter_init().  When no memory is left for the parts of the formatter,
\* formatter_deinit() reads the ones that are not there, or the formatter is
\* freed and returned all the same (formatter.c:133).
FormatterInit ==
    /\ format = "init"
    /\ \/ fields = <<>> /\ Refused /\ Allocates /\ UNCHANGED formatter
       \/ /\ fields # <<>>
          /\ \/ /\ Allocates
                /\ format' = "add_field"
                /\ formatter' = [f \in DOMAIN fields |-> Uninitialized]
             \/ AllocationFails /\ format' \in {"rejected", "undefined"} /\ UNCHANGED formatter
    /\ UNCHANGED <<fields, n, e, lost>>

\* A field of 1 to 64 bits; nothing compares it with the length of the
\* message (formatter.c:263), nor refuses a negative bit.
IsField ==
    /\ Field # Malformed
    /\ LET first == Unsigned(Field.start_bit)
           last == Unsigned(Field.end_bit)
       IN  last >= first /\ last - first + 1 <= 64

\* What a slot points to is not freed before another field is put there; a
\* field that starts at BIT_UNINITIALIZED leaves its slot looking free.
Held(f) ==
    (IF formatter[f].name # Uninitialized.name THEN {"field name"} ELSE {})
    \cup (IF formatter[f].enum_count > 0 THEN {"field enums"} ELSE {})

\* formatter_add_field(): the first field without a start bit.  The array of
\* enumerators is counted before it is allocated, and formatter_deinit()
\* relies on the count (formatter.c:901).
AddField ==
    /\ format = "add_field" /\ n <= Len(fields)
    /\ \/ ~IsField /\ Refused /\ Allocates /\ UNCHANGED <<formatter, lost>>
       \/ /\ IsField
          /\ LET f == Min({i \in DOMAIN formatter : formatter[i].start_bit = BIT_UNINITIALIZED})
             IN  \/ /\ Allocates
                    /\ formatter' = [formatter EXCEPT ![f] =
                           [@ EXCEPT !.name = Field.name,
                                     !.start_bit = Unsigned(Field.start_bit),
                                     !.end_bit = Unsigned(Field.end_bit),
                                     !.enum_count = Len(Field.enum), !.enums = <<>>]]
                    /\ lost' = lost \cup Held(f)
                    /\ format' = IF IsEnum THEN "add_enum" ELSE "set_default"
                 \/ /\ AllocationFails /\ Refused /\ UNCHANGED formatter
                    /\ lost' = lost \cup (Held(f) \cap {"field name"})
                 \/ /\ IsEnum
                    /\ AllocationFails /\ format' = "undefined" /\ UNCHANGED <<formatter, lost>>
    /\ e' = 1
    /\ UNCHANGED <<fields, n>>

\* The field of that name; there is one, the field just added.
Named(name) == Min({i \in DOMAIN formatter : formatter[i].name = name})

\* Mutant: an enumerator may be there already.
TakesEnumAgain(f, string) == Len(formatter[f].enums) < formatter[f].enum_count

TakesEnum(f, string) ==
    /\ Len(formatter[f].enums) < formatter[f].enum_count
    /\ string \notin Range(formatter[f].enums)

\* formatter_add_field_enum()
AddEnum ==
    /\ format = "add_enum" /\ e <= Len(Field.enum)
    /\ LET f == Named(Field.name)
           string == Field.enum[e]
       IN  \/ /\ string = Malformed \/ ~TakesEnum(f, string)
              /\ Refused /\ Allocates /\ UNCHANGED <<e, formatter>>
           \/ /\ string # Malformed /\ TakesEnum(f, string)
              /\ \/ /\ Allocates
                    /\ formatter' = [formatter EXCEPT ![f].enums = Append(@, string)]
                    /\ e' = e + 1
                    /\ UNCHANGED format
                 \/ AllocationFails /\ Refused /\ UNCHANGED <<e, formatter>>
    /\ UNCHANGED <<fields, n, lost>>

EnumsDone ==
    /\ format = "add_enum" /\ e > Len(Field.enum)
    /\ format' = "set_default"
    /\ UNCHANGED <<fields, n, e, formatter, lost, out_of_memory>>

\* formatter_set_field_default(): the text is converted for the field that
\* is found, which may not take it when it is another.
SetDefault ==
    /\ format = "set_default"
    /\ \/ /\ Field.default = Malformed \/ Named(Field.name) # n
          /\ Refused /\ UNCHANGED <<n, formatter>>
       \/ /\ Field.default # Malformed
          /\ formatter' = [formatter EXCEPT ![Named(Field.name)].default = Field.default]
          /\ format' = "add_field"
          /\ n' = n + 1
    /\ UNCHANGED <<fields, e, lost, out_of_memory>>

FormatterInitialized ==
    \A f \in DOMAIN formatter :
        /\ BIT_UNINITIALIZED \notin {formatter[f].start_bit, formatter[f].end_bit}
        /\ Len(formatter[f].enums) = formatter[f].enum_count

FinishFormatter ==
    /\ format = "add_field" /\ n > Len(fields)
    /\ format' = IF FormatterInitialized THEN "ready" ELSE "rejected"
    /\ UNCHANGED <<fields, n, e, formatter, lost, out_of_memory>>

CreateFormatter == FormatterInit \/ AddField \/ AddEnum \/ EnumsDone \/ SetDefault
                       \/ FinishFormatter

-----------------------------------------------------------------------------
\* A formatter that is ready has the fields as they are described, each with
\* its own enumerators, no two alike, and its own default, as long as no two
\* fields have one name; if they have, their bits are still their own, but
\* the defaults all go to the first of them.
FieldsAsDescribed ==
    format = "ready" =>
        \A i \in DOMAIN fields :
            /\ formatter[i].name = fields[i].name
            /\ formatter[i].start_bit = Unsigned(fields[i].start_bit)
            /\ formatter[i].end_bit = Unsigned(fields[i].end_bit)
            /\ formatter[i].enums = fields[i].enum /\ IsInjective(formatter[i].enums)
            /\ IF \E h \in 1 .. i - 1 : fields[h].name = fields[i].name
               THEN formatter[i].default = NoValue
               ELSE LET same == {h \in DOMAIN fields : fields[h].name = fields[i].name}
                    IN  formatter[i].default = fields[Max(same)].default
===============================================================================
