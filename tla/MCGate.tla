------------------------------- MODULE MCGate -------------------------------
(* ProducerGate on small instances.                                          *)
EXTENDS ProducerGate, TLC

CONSTANTS e1, e2

OneExecutor == {e1}
TwoExecutors == {e1, e2}
=============================================================================
