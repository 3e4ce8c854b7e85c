------------------------------ MODULE BeatLogic ------------------------------
(***************************************************************************)
(* BeatLogic.doLaundryList as a whole: the workers of a cloud repeat their *)
(* beats over the shared tables, each beat a pass through message          *)
(* expansion, stage execution and completion, statement by statement and   *)
(* in any interleaving with the beats of the other workers.  The parts are *)
(* the actions of MessageExpansion, StageExecution and Completion; what    *)
(* stands for the rest of the beat in those modules is replaced by the     *)
(* other parts themselves.                                                 *)
(***************************************************************************)
EXTENDS EventTables, FiniteSets

CONSTANTS NoMessage, Undefined, Timely,       \* see MessageExpansion
          Hosts, HostOf, MayVanish, MaxRuns,  \* see StageExecution
          Crew,  \* bound: the workers that run when this message is posted
          Shaky  \* messages whose beats and processes may be cut short

ASSUME BeatAssumption ==
    Crew \in [Messages -> SUBSET Workers] /\ Shaky \subseteq Messages

VARIABLES readAt, batch, at, late,            \* see MessageExpansion
          proc, ready, mine, current, closing, \* see StageExecution
          jobPlan, messagePlan                \* see Completion

Expansion == INSTANCE MessageExpansion
Execution == INSTANCE StageExecution
Closing == INSTANCE Completion WITH Twice <- {}, Together <- {}

expansionVars == <<readAt, batch, at, late>>
executionVars == <<proc, ready, mine, current, closing>>
completionVars == <<jobPlan, messagePlan>>
vars == <<tableVars, expansionVars, executionVars, completionVars>>

Up == {w \in Workers : pc[w] # "down"}

\* Each start is made with the workers of one message.
Init ==
    /\ \E m \in Messages :
          pc = [w \in Workers |-> IF w \in Crew[m] THEN "idle" ELSE "down"]
    /\ TablesClean
    /\ Expansion!ExpansionInit
    /\ Execution!ExecutionInit
    /\ Closing!CompletionInit

TypeOK == Expansion!TypeOK /\ Execution!TypeOK /\ Closing!TypeOK

------------------------------------------------------------------------------

\* One statement of the worker's beat.
BeatStep(w) ==
    \/ Expansion!ExpansionStep(w) /\ UNCHANGED <<executionVars, completionVars>>
    \/ Execution!ExecutionStep(w) /\ UNCHANGED <<expansionVars, completionVars>>
    \/ Closing!CompletionStep(w) /\ UNCHANGED <<expansionVars, executionVars>>

\* The beat ends early: BeatLogic.run catches the exception, or the JVM died
\* and was started again.  Nothing is rolled back.
BeatAborts(w) ==
    /\ \E m \in Shaky : message[m].state # "none"
    /\ \/ Expansion!ExpansionAborts(w) /\ UNCHANGED <<executionVars, completionVars>>
       \/ Execution!ExecutionAborts(w) /\ UNCHANGED <<expansionVars, completionVars>>
       \/ Closing!CompletionAborts(w) /\ UNCHANGED <<expansionVars, executionVars>>

\* Messages are posted and time passes.
Environment ==
    /\ (\E m \in Messages : Up = Crew[m] /\ Expansion!Emit(m)) \/ Expansion!Tick
    /\ UNCHANGED <<executionVars, completionVars>>

\* The external processes go on by themselves.
Processes ==
    /\ \E r \in 1..Len(run) :
          \/ Execution!ProcessStep(r)
          \/ (\E m \in Shaky : message[m].state # "none") /\ Execution!ProcessVanishes(r)
    /\ UNCHANGED <<expansionVars, completionVars>>

Next ==
    \/ Environment
    \/ Processes
    \/ \E w \in Workers : BeatStep(w) \/ BeatAborts(w)

Spec == Init /\ [][Next]_vars

\* The scheduled executor of every worker keeps beating, time passes and
\* processes come to an end.
FairSpec ==
    /\ Spec
    /\ WF_vars(Expansion!Tick /\ UNCHANGED <<executionVars, completionVars>>)
    /\ \A w \in Workers : WF_vars(BeatStep(w))
    /\ \A r \in 1..MaxRuns :
          WF_vars(/\ r \in 1..Len(run)
                  /\ Execution!ProcessStep(r)
                  /\ UNCHANGED <<expansionVars, completionVars>>)

------------------------------------------------------------------------------
(* Properties of the whole.                                                *)

\* The jobs that decide about a message.
Deciding(m) ==
    LET responsible == {i \in Selected(m) : Template[m][i].responsible}
    IN  IF responsible # {} THEN responsible ELSE Selected(m)

\* What the database reports is what the processes did: a message is SUCCESS
\* only if, for each deciding job template, one job ran every stage of it to
\* return code 0. (from the rc.log BeatLogic reads to UPDATE_MESSAGE_STATUS)
\* Condition: one worker is at work on the message, or its jobs have one stage
\* at most (Crew in the runs, OneByOne in the proof).  It fails when a worker
\* completes a job of several stages that another one is still inserting.
SuccessIsReal ==
    \A m \in Messages : message[m].state = "SUCCESS" =>
        \A i \in Deciding(m) : \E j \in JobsOf(m) :
            /\ job[j].tmpl = i
            /\ \A k \in 1..Len(StageTemplates(m, i)) :
                  \E r \in 1..Len(run) :
                      /\ stage[run[r].stage].job = j
                      /\ stage[run[r].stage].name = k
                      /\ proc[r] = "ok"

\* The process of a stage is started only after the processes of all stages
\* it depends on ended well. (dependOnStage, updateInProcessJobs)
RunsAfterDependencies ==
    \A r \in 1..Len(run) : \A k \in TemplateOf(run[r].stage).dependOnStage :
        \E q \in 1..Len(run) :
            /\ stage[run[q].stage].job = stage[run[r].stage].job
            /\ stage[run[q].stage].name = k
            /\ proc[q] = "ok"

\* "Stage: is not defined. Assuming success end state." is said of stages the
\* template does not define, and all those of the model are defined: a stage
\* about to be let go has a row for each stage it depends on.
NothingAssumed ==
    \A w \in Workers : \A p \in jobPlan[w] : \A s \in p.unblock :
        \A k \in TemplateOf(s).dependOnStage :
            \E t \in StagesOf(p.job) : stage[t].name = k

\* Every posted message gets a verdict in the end, if nothing is cut short.
\* (the whole beat, repeated by the executor of each worker)
EveryMessageFinishes ==
    \A m \in Messages \ (Undefined \cup Shaky) :
        message[m].state = "EMITTED" ~> message[m].state \in {"SUCCESS", "FAILURE"}
------------------------------------------------------------------------------
(* The tables as an implementation of ObjectStates.                        *)

\* A beat cut short may expand its message twice, and two rows for one object
\* are outside of what the engine promises.
Steady == Messages \ Shaky
Jobs == UNION {{<<m, i>> : i \in 1..Len(Template[m])} : m \in Steady}
Stages == UNION {{<<j[1], j[2], k>> : k \in 1..Len(StageTemplates(j[1], j[2]))} : j \in Jobs}

\* The rows made of a job template, and of a stage template.
RowsOfJob(j) == {r \in JobsOf(j[1]) : job[r].tmpl = j[2]}
RowsOfStage(s) == {r \in 1..Len(stage) : stage[r].name = s[3] /\ stage[r].job \in RowsOfJob(<<s[1], s[2]>>)}

\* The state of an object is that of its row; PREPARE_TO_RUN is the first
\* half of RUNNING, and two rows for one object are no state at all.
ObjectState(rows, table) ==
    CASE rows = {} -> "none"
      [] Cardinality(rows) > 1 -> "twice"
      [] OTHER -> LET state == table[CHOOSE r \in rows : TRUE].state
                  IN  IF state = "PREPARE_TO_RUN" THEN "RUNNING" ELSE state

\* RETRIES_LEFT counts down from maxTries.
Tries(s) ==
    IF RowsOfStage(s) = {} THEN 0
    ELSE LET r == CHOOSE r \in RowsOfStage(s) : TRUE
         IN  TemplateOf(r).maxTries - stage[r].retriesLeft

Objects == INSTANCE ObjectStates WITH
    Messages <- Steady,
    messages <- [m \in Steady |-> message[m].state],
    jobs <- [j \in Jobs |-> ObjectState(RowsOfJob(j), job)],
    stages <- [s \in Stages |-> ObjectState(RowsOfStage(s), stage)],
    tries <- [s \in Stages |-> Tries(s)]

\* The statements of all workers together, seen from the rows alone, are the
\* object states: every statement moves at most one object, along an arrow
\* the abstract specification has, for the reason it gives. (the UPDATE and
\* INSERT statements of EventQueries, whoever issues them)
FollowsObjectStates == Objects!Spec
==============================================================================
