---------------------------- MODULE RegisterFiles ----------------------------
(***************************************************************************)
(* The register file classes of configure_fpga: a 64 bit word "raw" and      *)
(* typed fields that are read and set through shifts and masks.              *)
(*                                                                         *)
(* The classes differ in how they set a field: by replacing its bits, by     *)
(* merging bits into it, or by overwriting the whole word.                   *)
(***************************************************************************)
EXTENDS BitFields

CONSTANTS Classes,    \* the register file classes examined
          Arguments,  \* values passed to the setters
          RawWords    \* words the hardware returns for a register file

ASSUME RegisterAssumption ==
    /\ Classes \subseteq {"HostEndpoint", "Address", "Size", "Flag",
                          "CounterReset", "NotificationBehaviour", "Info"}
    /\ Arguments \subseteq SUBSET Nat
    /\ RawWords \subseteq SUBSET Word

-----------------------------------------------------------------------------
(* The fields of each class, with their position and width.                 *)

Field(lo_, width_) == [lo |-> lo_, width |-> width_]

HostEndpoint == [node_id           |-> Field(0, 16),
                 protection_domain |-> Field(16, 16),
                 vpid              |-> Field(32, 10),
                 mode              |-> Field(42, 6)]

\* ConfigResponse, HicannBufferStart and TraceBufferStart
Address == [data |-> Field(0, 64)]

\* the sizes, the thresholds and HicannTracePktClosure
Size == [data |-> Field(0, 32)]

\* HicannBufferInit and TraceBufferInit
Flag == [start |-> Field(0, 1)]

CounterReset == [reset |-> Field(0, 1)]

\* of both rings
NotificationBehaviour == [timeout |-> Field(0, 32), frequency |-> Field(32, 32)]

Info == [guid     |-> Field(0, 24), ndid     |-> Field(24, 16),
         waferid  |-> Field(40, 8), socketid |-> Field(48, 4),
         edgeid   |-> Field(52, 2)]

Layout(c) == CASE c = "HostEndpoint" -> HostEndpoint
               [] c = "Address" -> Address
               [] c = "Size" -> Size
               [] c = "Flag" -> Flag
               [] c = "CounterReset" -> CounterReset
               [] c = "NotificationBehaviour" -> NotificationBehaviour
               [] c = "Info" -> Info

Replacing   == {"HostEndpoint", "CounterReset"}
Overwriting == {"Address", "Size", "Flag", "NotificationBehaviour"}

Setter(c, raw, f, v) ==
    LET fld == Layout(c)[f] IN
    IF c \in Replacing THEN Replace(raw, fld.lo, fld.width, v)
    ELSE IF c \in Overwriting THEN Overwrite(raw, fld.lo, fld.width, v)
    ELSE Merge(raw, fld.lo, fld.width, v)

Getter(c, raw, f) == Get(raw, Layout(c)[f].lo, Layout(c)[f].width)

-----------------------------------------------------------------------------
VARIABLES class,    \* class of the register file object
          raw,      \* its word
          fields    \* what its user has read from it or set it to, per field
vars == <<class, raw, fields>>

\* The object is filled by rra_read, then its fields are set.
Init ==
    /\ class \in Classes
    /\ raw \in RawWords
    /\ fields = [f \in DOMAIN Layout(class) |-> Getter(class, raw, f)]

Set(f, v) ==
    /\ raw' = Setter(class, raw, f, v)
    /\ fields' = [fields EXCEPT ![f] = Low(v, Layout(class)[f].width)]
    /\ UNCHANGED class

Next == \E f \in DOMAIN Layout(class), v \in Arguments : Set(f, v)

Spec == Init /\ [][Next]_vars

-----------------------------------------------------------------------------
\* Every field reads as what it was last set to, whatever was done to the
\* other fields in between: the bit-fields and the raw word stay synchronized.
FieldsInSync ==
    \A f \in DOMAIN Layout(class) : Getter(class, raw, f) = fields[f]
=============================================================================
