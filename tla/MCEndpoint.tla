----------------------------- MODULE MCEndpoint -----------------------------
(***************************************************************************)
(* Endpoint on small inputs: listings of up to three lines, which are entries *)
(* of known and unknown nodes, entries that are cut off or broken, text, and   *)
(* empty lines; links that are up, down, or have no status file.              *)
(***************************************************************************)
EXTENDS Endpoint

Entry(n) == <<Open, n, Bar, Text>>
MCLines  == {Entry(0), Entry(1), Entry(4), <<Open, 2>>, <<Open, Text, Bar>>,
             <<Text, Bar>>, <<>>}

MCListings == UNION {[1..k -> MCLines] : k \in 0..3}

MCStatuses ==
    [{0, 1, 3, 5} -> {<<"0">>}] \union
    {[l \in {0, 1, 3, 5} |-> IF l \in up THEN <<"0", "1">>
                             ELSE IF l = 0 THEN <<"0", "empty", "1">> ELSE <<>>] :
       up \in SUBSET {0, 1, 5}}

\* The words the user sends are interchangeable.
MCSymmetry == Permutations(Values)
=============================================================================
