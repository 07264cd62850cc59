-------------------------- MODULE MCToolContinuations --------------------------
(***************************************************************************)
(* Two leases, two turns, two call ids, two signals.  The requests: two     *)
(* calls of one turn, the id of the first again in another turn of the      *)
(* lease (refused while the first waits, captured after it ended), and the  *)
(* same id in the same turn of another lease.                               *)
(***************************************************************************)
EXTENDS ToolContinuations

CONSTANTS L1, L2, T1, T2, C1, C2, S1, S2, R1

MCRequests ==
    { [lease |-> L1, turn |-> T1, callId |-> C1, rpcId |-> R1],
      [lease |-> L1, turn |-> T1, callId |-> C2, rpcId |-> R1],
      [lease |-> L1, turn |-> T2, callId |-> C1, rpcId |-> R1],
      [lease |-> L2, turn |-> T1, callId |-> C1, rpcId |-> R1] }
===============================================================================
