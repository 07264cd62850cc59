------------------------- MODULE MCAppServerTransport -------------------------
(***************************************************************************)
(* MCToolCalls: the turn of the first generate call has two tool calls, so  *)
(* that the other calls can bring its results together or one by one.       *)
(* MCToolCallsOfTwo: two turns, each with a tool call, and the model chose  *)
(* the same call id for both.                                               *)
(***************************************************************************)
EXTENDS AppServerTransport

CONSTANTS G1, G2, G3, C1, C2, R1

MCToolCalls ==
    { [lease |-> G1, turn |-> G1, callId |-> C1, rpcId |-> R1],
      [lease |-> G1, turn |-> G1, callId |-> C2, rpcId |-> R1] }

MCToolCallsOfTwo ==
    { [lease |-> G1, turn |-> G1, callId |-> C1, rpcId |-> R1],
      [lease |-> G2, turn |-> G2, callId |-> C1, rpcId |-> R1] }
===============================================================================
