---------------------------- MODULE MCPointLedger ---------------------------
(* One outflow, one payment and two prompts, on two pools of connections.         *)
EXTENDS PointLedger

CONSTANTS o1, p1, q1, q2

MCOutflows == {o1}
MCPayments == {p1}
MCAmount == [i \in Items |-> IF i = p1 THEN 1 ELSE 2]
=============================================================================
