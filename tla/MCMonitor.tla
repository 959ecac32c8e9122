----------------------------- MODULE MCMonitor -----------------------------
(* Bounded instances of the status panel.                                  *)
EXTENDS HealthMonitor, TLC

CONSTANTS t1, t2, t3

ThreeServices == <<"llm", "embedding", "rerank">>
=============================================================================
