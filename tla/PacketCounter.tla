--------------------------- MODULE PacketCounter ---------------------------
(***************************************************************************)
(* What NotificationPoller promises to the code that uses it.  The poller   *)
(* is two counters filled from the notification queue of the RMA port:      *)
(* consume_packets() empties the first one at a single instant and returns  *)
(* everything it held, consume_response() takes one from the second.        *)
(* taken and answered are what the callers were given so far, so nothing    *)
(* that arrives is lost and nothing is handed out twice.                    *)
(***************************************************************************)
EXTENDS Naturals

VARIABLES packets,    \* announced and not yet handed to a caller
          taken,      \* handed to callers of consume_packets so far
          responses,  \* response notifications not yet consumed
          answered    \* calls of consume_response that returned true

vars == <<packets, taken, responses, answered>>

Init == packets = 0 /\ taken = 0 /\ responses = 0 /\ answered = 0

\* A notification announces some packets.
AddPackets ==
    /\ packets' \in Nat
    /\ packets' > packets
    /\ UNCHANGED <<taken, responses, answered>>

AddResponse ==
    /\ responses' = responses + 1
    /\ UNCHANGED <<packets, taken, answered>>

ConsumePackets ==
    /\ taken' = taken + packets
    /\ packets' = 0
    /\ UNCHANGED <<responses, answered>>

ConsumeResponse ==
    /\ responses > 0
    /\ responses' = responses - 1
    /\ answered' = answered + 1
    /\ UNCHANGED <<packets, taken>>

Next ==
    \/ AddPackets
    \/ AddResponse
    \/ ConsumePackets
    \/ ConsumeResponse

Spec == Init /\ [][Next]_vars
=============================================================================
