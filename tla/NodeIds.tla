------------------------------- MODULE NodeIds -------------------------------
(***************************************************************************)
(* Node discovery (get_node_ids.cpp), a step for each round of its loops.     *)
(* A command prints a sequence of lines; one that cannot be started prints    *)
(* none, as its exception is caught.                                         *)
(*                                                                         *)
(* A line of "emp-ctrl network listnodes" is a sequence of tokens: '[', '|',  *)
(* numbers, and other text.  A line of "grep -h ready" is its second last     *)
(* character, which is '1' when the link is up.  Both readers stop at an      *)
(* empty line, <<>> or "empty".                                              *)
(***************************************************************************)
EXTENDS Integers, Sequences, TLC

VARIABLES
    input,      \* what the commands print: lines, status per link, sysfs
    phase,      \* "read", "scan", "check", "done", "thrown"
    line,       \* the line getline reads next
    output,     \* the lines read, appended without separator
    pos,        \* where the scan has found a '['
    node_ids,   \* the vector of get_all_node_ids()
    checked,    \* how many of them erase_if has looked at
    nodes       \* those it has kept: the result of get_fpga_node_ids()

searchLocals == <<input, line, output, pos, node_ids, checked>>
searchVars   == <<searchLocals, phase, nodes>>

Open == -1
Bar  == -2
Text == -3

npos        == 0       \* std::string::npos; positions start at 1
NodeidRange == 65536   \* RMA2_Nodeid is a uint16_t

find_first_of(token, from) ==
    LET found == {i \in from .. Len(output) : output[i] = token}
    IN  IF found = {} THEN npos ELSE CHOOSE i \in found : \A j \in found : i <= j

\* std::stoi throws unless the text starts with a number; it takes that number.
IsNumber(text) == text # <<>> /\ Head(text) >= 0
Nodeid(text)   == Head(text) % NodeidRange

link_table == 1 :> 1 @@ 2 :> 5 @@ 4 :> 0 @@ 5 :> 3

\* status[l]: what grep prints of the status file of link l.
check_is_fpga(node, status) ==
    /\ node \in DOMAIN link_table
    /\ LET lines == status[link_table[node]]
       IN  \E i \in 1 .. Len(lines) :
             lines[i] = "1" /\ \A j \in 1 .. i : lines[j] # "empty"

-----------------------------------------------------------------------------
(* get_all_node_ids().                                                      *)

AppendLine ==
    /\ phase = "read" /\ line <= Len(input.lines) /\ input.lines[line] # <<>>
    /\ output' = output \o input.lines[line]
    /\ line' = line + 1
    /\ UNCHANGED <<input, phase, pos, node_ids, checked, nodes>>

EndOfOutput ==
    /\ phase = "read"
    /\ line <= Len(input.lines) => input.lines[line] = <<>>
    /\ pos' = find_first_of(Open, 1)
    /\ phase' = "scan"
    /\ UNCHANGED <<input, line, output, node_ids, checked, nodes>>

\* The '|' behind the '[' at pos, and what is between them.
sep    == find_first_of(Bar, pos)
substr == SubSeq(output, pos + 1, sep - 1)

\* Faulty variant: the search goes on behind the '[' and not behind the '|'.
ScanEntryFromOpen ==
    /\ phase = "scan" /\ pos # npos /\ sep # npos /\ IsNumber(substr)
    /\ node_ids' = Append(node_ids, Nodeid(substr))
    /\ pos' = find_first_of(Open, pos + 1)
    /\ UNCHANGED <<input, phase, line, output, checked, nodes>>

ScanEntry ==
    /\ phase = "scan" /\ pos # npos /\ sep # npos /\ IsNumber(substr)
    /\ node_ids' = Append(node_ids, Nodeid(substr))
    /\ pos' = find_first_of(Open, sep)
    /\ UNCHANGED <<input, phase, line, output, checked, nodes>>

\* The conversion stands outside of the try block: std::invalid_argument.
ScanThrows ==
    /\ phase = "scan" /\ pos # npos /\ sep # npos /\ ~IsNumber(substr)
    /\ phase' = "thrown"
    /\ UNCHANGED <<searchLocals, nodes>>

ScanEnds ==
    /\ phase = "scan" /\ (pos # npos => sep = npos)
    /\ phase' = "check"
    /\ UNCHANGED <<searchLocals, nodes>>

-----------------------------------------------------------------------------
(* The erase_if of get_fpga_node_ids().                                     *)

Checked == node_ids[checked + 1]

CheckNode ==
    /\ phase = "check" /\ checked < Len(node_ids)
    /\ Checked \in DOMAIN link_table => input.sysfs
    /\ nodes' = IF check_is_fpga(Checked, input.status)
                THEN Append(nodes, Checked) ELSE nodes
    /\ checked' = checked + 1
    /\ UNCHANGED <<input, phase, line, output, pos, node_ids>>

\* A string made of the null pointer that getenv returns throws.
CheckThrows ==
    /\ phase = "check" /\ checked < Len(node_ids)
    /\ Checked \in DOMAIN link_table /\ ~input.sysfs
    /\ phase' = "thrown"
    /\ UNCHANGED <<searchLocals, nodes>>

CheckEnds ==
    /\ phase = "check" /\ checked = Len(node_ids)
    /\ phase' = "done"
    /\ UNCHANGED <<searchLocals, nodes>>

-----------------------------------------------------------------------------
SearchInit ==
    /\ phase = "read" /\ line = 1 /\ output = <<>> /\ pos = npos
    /\ node_ids = <<>> /\ checked = 0 /\ nodes = <<>>

SearchStep == AppendLine \/ EndOfOutput \/ ScanEntry \/ ScanThrows \/ ScanEnds
              \/ CheckNode \/ CheckThrows \/ CheckEnds

\* The locals of the functions are gone once the user goes on with the result.
ForgetSearch ==
    /\ input' = [lines |-> <<>>, status |-> <<>>, sysfs |-> TRUE]
    /\ line' = 1 /\ output' = <<>> /\ pos' = npos
    /\ node_ids' = <<>> /\ checked' = 0

-----------------------------------------------------------------------------
\* Reference: the entries of a listing are the '[' that have a '|' behind them
\* and are not inside of another entry.
Entries ==
    {p \in 1 .. Len(output) :
        /\ output[p] = Open
        /\ \E s \in p + 1 .. Len(output) : output[s] = Bar
        /\ \A q \in 1 .. p - 1 :
             output[q] = Open => \E s \in q + 1 .. p - 1 : output[s] = Bar}

\* The node an entry names.
EntryId(p) == output[p + 1] % NodeidRange

\* ids are those of the given entries, in their order and each once.
Enumerates(at, ids, entries) ==
    /\ \A i, j \in 1 .. Len(ids) : i < j => at[i] < at[j]
    /\ {at[i] : i \in 1 .. Len(ids)} = entries
    /\ \A i \in 1 .. Len(ids) : ids[i] = EntryId(at[i])
Lists(ids, entries) ==
    \E at \in [1 .. Len(ids) -> 1 .. Len(output)] : Enumerates(at, ids, entries)

\* The result names, in their order, the entries that belong to a link which
\* is up.
NamesRunningFpgas ==
    Lists(nodes, {p \in Entries : check_is_fpga(EntryId(p), input.status)})
=============================================================================
