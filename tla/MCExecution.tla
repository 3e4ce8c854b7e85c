----------------------------- MODULE MCExecution -----------------------------
(* Small instances of StageExecution: jobs of independent stages.          *)
EXTENDS StageExecution, TLC

CONSTANTS w1, w2, h1, h2, m1, m2

St(tries) == [dependOnStage |-> {}, maxTries |-> tries]
OneJob(stages) == <<[responsible |-> TRUE, passes |-> TRUE, stages |-> stages]>>

\* One stage with a retry; or two stages, depending on the message.
OneStage == (m1 :> OneJob(<<St(2)>>))
OneOrTwo == (m1 :> OneJob(<<St(2)>>) @@ m2 :> OneJob(<<St(1), St(1)>>))

TwoHosts == [w \in Workers |-> IF w = w1 THEN h1 ELSE h2]
==============================================================================
