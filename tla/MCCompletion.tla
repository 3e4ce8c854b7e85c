----------------------------- MODULE MCCompletion -----------------------------
(* Small instances of Completion: the message that is posted decides which *)
(* shape its jobs have.                                                    *)
EXTENDS Completion, TLC

CONSTANTS w1, w2, m1, m2, m3, m4, m5, m6

St(deps, tries) == [dependOnStage |-> deps, maxTries |-> tries]
Jt(resp, stages) == [responsible |-> resp, passes |-> TRUE, stages |-> stages]

\* A diamond of stages; two equal jobs; a responsible job and one on the
\* side; a chain of stages; a single stage.
Diamond == <<Jt(TRUE, <<St({}, 1), St({1}, 2), St({1}, 1), St({2, 3}, 1)>>)>>
TwoJobs == <<Jt(FALSE, <<St({}, 2)>>), Jt(FALSE, <<St({}, 1)>>)>>
Sided == <<Jt(TRUE, <<St({}, 1)>>), Jt(FALSE, <<St({}, 1)>>)>>
Chain == <<Jt(TRUE, <<St({}, 1), St({1}, 1)>>)>>
Single == <<Jt(TRUE, <<St({}, 1)>>)>>
Shapes == (m1 :> Diamond @@ m2 :> TwoJobs @@ m3 :> Sided @@ m4 :> Chain
               @@ m5 :> Single @@ m6 :> Single)

\* Alone, or two together, which may be one whose template is gone (m4) or
\* that was expanded twice (m5) and a good one.
Groups == {{m1}, {m2}, {m3}, {m4, m6}, {m5, m6}}
==============================================================================
