----------------------------- MODULE MCExpansion -----------------------------
(* Small templates for MessageExpansion and ExpansionRounds.               *)
EXTENDS ExpansionRounds, TLC

CONSTANTS w1, w2, m1, m2

St(deps) == [dependOnStage |-> deps, maxTries |-> 1]
Jt(resp, passes, stages) == [responsible |-> resp, passes |-> passes, stages |-> stages]

\* A responsible job of two stages, a second responsible job (never
\* selected), a plain one-stage job and one whose filters fail.
Rich == <<Jt(TRUE, TRUE, <<St({}), St({1})>>), Jt(TRUE, TRUE, <<St({})>>),
          Jt(FALSE, TRUE, <<St({})>>), Jt(FALSE, FALSE, <<St({})>>)>>
Plain == <<Jt(TRUE, TRUE, <<St({})>>)>>
Chain == <<Jt(TRUE, TRUE, <<St({}), St({1})>>)>>

RichAndPlain == (m1 :> Rich @@ m2 :> Plain)
OneChain == (m1 :> Chain)
ChainAndPlain == (m1 :> Chain @@ m2 :> Plain)
==============================================================================
