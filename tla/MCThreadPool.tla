---------------------------- MODULE MCThreadPool ----------------------------
(* Instances of the work process for TLC. *)
EXTENDS ThreadPool

CONSTANTS f1, f2, f3, a1, a2, ws, w1

MCSymmetry == Permutations({f1, f2, f3}) \cup Permutations({a1, a2})

(* Every client may do everything. *)
MCStimuli == [fd \in Fd |-> {"short", "long", "partial", "close"}]

(* For the liveness run: one client sends commands of both kinds, so that  *)
(* short ones keep arriving; the others only ask for transfers, so that    *)
(* one may hang in the worker w1 while another one waits in the queue.     *)
LiveStimuli ==
    [fd \in Fd |-> IF fd = f1 THEN {"short", "long"} ELSE {"long"}]

(* The liveness properties are met in a state whose queue is damaged and   *)
(* in one whose process has ended, and these stay so: what a behaviour     *)
(* does afterwards need not be explored.                                   *)
Undamaged == intact /\ Running

=============================================================================
