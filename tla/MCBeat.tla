-------------------------------- MODULE MCBeat --------------------------------
(* Small instances of BeatLogic.                                           *)
EXTENDS BeatLogic, TLC

CONSTANTS w1, w2, m1, m2, m3, h1, h2

St(deps, tries) == [dependOnStage |-> deps, maxTries |-> tries]
Jt(resp, stages) == [responsible |-> resp, passes |-> TRUE, stages |-> stages]

\* Two stages in a row, the first with a retry, and a job on the side.
ChainSide == <<Jt(TRUE, <<St({}, 2), St({1}, 1)>>), Jt(FALSE, <<St({}, 1)>>)>>
Single == <<Jt(TRUE, <<St({}, 1)>>)>>
Chain == <<Jt(TRUE, <<St({}, 1), St({1}, 1)>>)>>

\* m1 for one worker, m2 for two; m3 for one whose beats may be cut short.
Three == (m1 :> ChainSide @@ m2 :> Single @@ m3 :> Chain)
ThreeCrews == (m1 :> {w1} @@ m2 :> {w1, w2} @@ m3 :> {w2})

\* A chain listed in the opposite order, for two workers.
Backwards == (m1 :> <<Jt(TRUE, <<St({2}, 1), St({}, 1)>>)>>)
BothWorkers == (m1 :> {w1, w2})

TwoHosts == [w \in Workers |-> IF w = w1 THEN h1 ELSE h2]
==============================================================================
