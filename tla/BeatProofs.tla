------------------------------- MODULE BeatProofs -------------------------------
(***************************************************************************)
(* The beat as a whole, for any workers, hosts and messages, any number of *)
(* runs, late workers, and beats cut short anywhere.                       *)
(*                                                                         *)
(* The argument for the order of stages: rows only come, and what they say *)
(* of messages, templates and names stays; a process that ended well has   *)
(* ended well for good (Grows).  So `every stage this one depends on has a *)
(* good run' stays true once it is, and a worker may act on it any time    *)
(* after it was so when the worker looked.  Stages come in the order of    *)
(* their template; if each depends on earlier ones only, their rows are    *)
(* there when its own is, and none is assumed to have succeeded.           *)
(*                                                                         *)
(* The argument for SUCCESS: a job without its stages gets them from the   *)
(* worker that has made it and from nobody else, so a job none of whose    *)
(* stages is missing or still to come is settled for good; and a message   *)
(* is committed with a complete job for each of its templates, whose       *)
(* SUCCESS is then that of all their stages.                               *)
(***************************************************************************)
EXTENDS BeatLogic, EventTablesProofs

USE TemplateOK, LockDurationAssumption, TimeBoundAssumption, AbortBoundAssumption

(* BeatInv: what the workers have in memory, and what the tables say of it. *)

Starting == {"insertRun", "start", "storeRun", "storeStage"}

ReadyRows == [stage : 1..Len(stage), retriesLeft : Nat \ {0}]
StartRows == [stage : 0..Len(stage), retriesLeft : Nat, run : 0..Len(run)]
CurrentRows ==
    [run : 1..Len(run), stage : 1..Len(stage), state : StageState, retriesLeft : Nat]
ClosingRows ==
    [stage : 0..Len(stage), retriesLeft : Nat,
     state : StageState \cup {"none"}, newState : StageState \cup {"none"}]
JobPlans ==
    [job : 1..Len(job), unblock : SUBSET (1..Len(stage)), broken : BOOLEAN,
     verdict : JobState]
MessagePlans == [msg : Messages, verdict : MessageState]

ExpansionShape ==
    /\ readAt \in [Workers -> 0..MaxTime]
    /\ batch \in [Workers -> SUBSET [msg : Messages, lock : Nat]]
    /\ at \in [Workers -> [msg : Messages \cup {NoMessage}, tmpl : Nat, job : Nat, done : Nat]]
    /\ late \in BOOLEAN

ExecutionShape ==
    /\ proc \in Seq(Execution!ProcState) /\ Len(proc) = Len(run)
    /\ ready \in [Workers -> SUBSET ReadyRows]
    /\ mine \in [Workers -> StartRows]
    /\ current \in [Workers -> SUBSET CurrentRows]
    /\ closing \in [Workers -> ClosingRows]

PlanShape ==
    /\ jobPlan \in [Workers -> SUBSET JobPlans]
    /\ messagePlan \in [Workers -> SUBSET MessagePlans]

Shape == TablesOK /\ ExpansionShape /\ ExecutionShape /\ PlanShape

\* The number of stages in the template of a job.
Size(j) == Len(StageTemplates(job[j].msg, job[j].tmpl))

Named(j, k) == \E t \in 1..Len(stage) : stage[t].job = j /\ stage[t].name = k

\* Jobs and stages are made of templates, stages in their order.
RowsMade ==
    /\ \A j \in 1..Len(job) : job[j].tmpl \in 1..Len(Template[job[j].msg])
    /\ \A j \in 1..Len(job) : \A s \in 1..Len(stage) : stage[s].job = j =>
          /\ stage[s].name \in 1..Size(j)
          /\ \A k \in 1..(stage[s].name - 1) : Named(j, k)

\* The job in hand is made of the message in hand, as far as done says.
HandHolds(w) ==
    pc[w] = "expand" =>
        /\ at[w].msg \in Messages
        /\ at[w].tmpl # 0 =>
              /\ at[w].tmpl \in 1..Len(Template[at[w].msg])
              /\ at[w].job \in 1..Len(job)
              /\ job[at[w].job].msg = at[w].msg /\ job[at[w].job].tmpl = at[w].tmpl
              /\ at[w].done <= Size(at[w].job)
              /\ \A k \in 1..at[w].done : Named(at[w].job, k)

\* A process of the stage ended well.
Good(s) == \E r \in 1..Len(run) : run[r].stage = s /\ proc[r] = "ok"

\* A stage that can be picked has a try left; one that succeeded has a run
\* that did; one that has a run is not BLOCKED.
StagesHold ==
    /\ \A s \in 1..Len(stage) :
          /\ stage[s].state \in {"READY", "BLOCKED"} => stage[s].retriesLeft # 0
          /\ stage[s].state = "SUCCESS" => Good(s)
    /\ \A r \in 1..Len(run) : stage[run[r].stage].state # "BLOCKED"

\* The stage a worker is starting, and its run.
StartHolds(w) ==
    /\ pc[w] \in Starting =>
          mine[w].stage # 0 /\ stage[mine[w].stage].state # "BLOCKED"
    /\ pc[w] \in Starting \ {"insertRun"} =>
          /\ mine[w].run # 0
          /\ run[mine[w].run].stage = mine[w].stage /\ run[mine[w].run].worker = w
    /\ pc[w] = "start" => proc[mine[w].run] = "none"

\* The runs a worker looks at, and the stage whose run it has closed.
CollectHolds(w) ==
    /\ \A row \in current[w] :
          run[row.run].stage = row.stage /\ row.state # "BLOCKED"
    /\ pc[w] = "closeStage" =>
          /\ closing[w].stage # 0
          /\ stage[closing[w].stage].state # "BLOCKED" /\ closing[w].state # "BLOCKED"
          /\ closing[w].newState \in {"SUCCESS", "READY", "FAILURE"}
          /\ closing[w].newState = "READY" => closing[w].retriesLeft # 0
          /\ closing[w].newState = "SUCCESS" => Good(closing[w].stage)

WorkerHolds(w) == HandHolds(w) /\ StartHolds(w) /\ CollectHolds(w)

BeatInv == Shape /\ RowsMade /\ StagesHold /\ \A w \in Workers : WorkerHolds(w)

(* DependInv: the order of the stages.                                     *)

\* The hypothesis: templates list a stage after those it depends on.
DependsOnEarlier ==
    \A m \in Messages : \A i \in 1..Len(Template[m]) :
        \A k \in 1..Len(StageTemplates(m, i)) :
            StageTemplates(m, i)[k].dependOnStage \subseteq 1..(k - 1)

\* The k-th stage of the job has ended well.
Through(j, k) ==
    \E t \in 1..Len(stage) : stage[t].job = j /\ stage[t].name = k /\ Good(t)

Released(s) == \A k \in TemplateOf(s).dependOnStage : Through(stage[s].job, k)

DependInv ==
    /\ \A s \in 1..Len(stage) : stage[s].state # "BLOCKED" => Released(s)
    /\ \A w \in Workers : \A p \in jobPlan[w] : \A s \in p.unblock : Released(s)

------------------------------------------------------------------------------
(* What every step does to the rows, and what therefore stays.             *)

\* Rows only come; what a row belongs to stays, a stage is not blocked again,
\* and a return code is not taken back.
Grows ==
    /\ Len(job) <= Len(job')
    /\ \A j \in 1..Len(job) : job'[j].msg = job[j].msg /\ job'[j].tmpl = job[j].tmpl
    /\ Len(stage) <= Len(stage')
    /\ \A s \in 1..Len(stage) :
          /\ stage'[s].job = stage[s].job /\ stage'[s].name = stage[s].name
          /\ stage[s].state # "BLOCKED" => stage'[s].state # "BLOCKED"
    /\ Len(run) <= Len(run')
    /\ \A r \in 1..Len(run) :
          /\ run'[r].stage = run[r].stage /\ run'[r].worker = run[r].worker
          /\ proc[r] = "ok" => proc'[r] = "ok"

\* The numbers of rows, and what the rows refer to.
LEMMA Rows ==
  ASSUME TablesOK
  PROVE  /\ Len(job) \in Nat /\ Len(stage) \in Nat /\ Len(run) \in Nat
         /\ \A j \in 1..Len(job) : job[j] \in JobRows /\ job[j].msg \in Messages
         /\ \A s \in 1..Len(stage) :
               /\ stage[s] \in StageRows /\ stage[s].job \in 1..Len(job)
               /\ stage[s].name \in Nat /\ stage[s].state \in StageState
               /\ stage[s].retriesLeft \in Nat
         /\ \A r \in 1..Len(run) :
               /\ run[r] \in RunRows /\ run[r].stage \in 1..Len(stage)
               /\ run[r].worker \in Workers
<1>1. run \in Seq(RunRows)
  BY DEF TablesOK, RunRows
<1>2. Len(run) \in Nat
  BY <1>1
<1>3. \A s \in 1..Len(stage) : stage[s] \in StageRows
  BY RowTypes
<1>4. \A j \in 1..Len(job) : job[j] \in JobRows
  BY RowTypes
<1> QED
  BY <1>2, <1>3, <1>4, RowTypes, RunTypes DEF StageRows, JobRows

\* Templates have finitely many stages.
LEMMA Sizes ==
  ASSUME TablesOK, NEW j \in 1..Len(job), job[j].tmpl \in 1..Len(Template[job[j].msg])
  PROVE  /\ Size(j) \in Nat
         /\ Template[job[j].msg][job[j].tmpl] \in JobTemplate
         /\ \A k \in 1..Size(j) :
               StageTemplates(job[j].msg, job[j].tmpl)[k] \in StageTemplate
<1>1. Template[job[j].msg] \in Seq(JobTemplate)
  BY Rows
<1>2. Template[job[j].msg][job[j].tmpl] \in JobTemplate
  BY <1>1, ElementOfSeq
<1>3. StageTemplates(job[j].msg, job[j].tmpl) \in Seq(StageTemplate)
  BY <1>2 DEF StageTemplates, JobTemplate
<1> QED
  BY <1>2, <1>3, ElementOfSeq DEF Size

\* What Grows keeps: the rows made of a template, the stages that ended well,
\* the sizes of jobs and the dependencies that are met.
LEMMA Stays ==
  ASSUME TablesOK, TablesOK', Grows
  PROVE  /\ \A j, k : Named(j, k) => Named(j, k)'
         /\ \A s : Good(s) => Good(s)'
         /\ \A j, k : Through(j, k) => Through(j, k)'
         /\ \A j \in 1..Len(job) : Size(j)' = Size(j)
         /\ \A s \in 1..Len(stage) : Released(s) => Released(s)'
<1>1. /\ Len(job) \in Nat /\ Len(stage) \in Nat /\ Len(run) \in Nat
      /\ Len(job') \in Nat /\ Len(stage') \in Nat /\ Len(run') \in Nat
  BY Rows
<1>2. /\ \A j \in 1..Len(job) : j \in 1..Len(job')
      /\ \A s \in 1..Len(stage) : s \in 1..Len(stage')
      /\ \A r \in 1..Len(run) : r \in 1..Len(run')
  BY <1>1 DEF Grows
<1>3. ASSUME NEW j, NEW k, Named(j, k)
      PROVE  Named(j, k)'
  BY <1>2, <1>3 DEF Named, Grows
<1>4. ASSUME NEW s, Good(s)
      PROVE  Good(s)'
  BY <1>2, <1>4 DEF Good, Grows
<1>5. ASSUME NEW j, NEW k, Through(j, k)
      PROVE  Through(j, k)'
  <2>1. PICK t \in 1..Len(stage) : stage[t].job = j /\ stage[t].name = k /\ Good(t)
    BY <1>5 DEF Through
  <2>2. stage'[t].job = j /\ stage'[t].name = k /\ t \in 1..Len(stage')
    BY <1>2, <2>1 DEF Grows
  <2>3. Good(t)'
    BY <1>4, <2>1
  <2> QED
    BY <2>2, <2>3 DEF Through
<1>6. ASSUME NEW j \in 1..Len(job)
      PROVE  Size(j)' = Size(j)
  BY DEF Size, Grows, StageTemplates
<1>7. ASSUME NEW s \in 1..Len(stage), Released(s)
      PROVE  Released(s)'
  <2>1. stage[s].job \in 1..Len(job)
    BY Rows
  <2>2. TemplateOf(s)' = TemplateOf(s) /\ stage'[s].job = stage[s].job
    BY <2>1 DEF TemplateOf, JobOf, StageTemplates, Grows
  <2> QED
    BY <1>5, <1>7, <2>2 DEF Released
<1> QED
  BY <1>3, <1>4, <1>5, <1>6, <1>7

\* A worker that does nothing while others write.
LEMMA OthersKeep ==
  ASSUME BeatInv, Shape', Grows, NEW v \in Workers,
         pc'[v] = pc[v], at'[v] = at[v], mine'[v] = mine[v], current'[v] = current[v],
         closing'[v] = closing[v],
         pc[v] = "start" => proc'[mine[v].run] = proc[mine[v].run]
  PROVE  WorkerHolds(v)'
<1>1. WorkerHolds(v) /\ TablesOK /\ TablesOK' /\ Shape
  BY DEF BeatInv, Shape
<1>2. /\ mine[v] \in StartRows /\ closing[v] \in ClosingRows
      /\ current[v] \subseteq CurrentRows
  BY <1>1 DEF Shape, ExecutionShape
<1>3. /\ Len(job) \in Nat /\ Len(stage) \in Nat /\ Len(run) \in Nat
      /\ Len(job') \in Nat /\ Len(stage') \in Nat /\ Len(run') \in Nat
  BY <1>1, Rows
<1>4. HandHolds(v)'
  <2> SUFFICES ASSUME pc[v] = "expand", at[v].tmpl # 0, at[v].msg \in Messages
               PROVE  /\ at[v].job \in 1..Len(job')
                      /\ job'[at[v].job].msg = at[v].msg
                      /\ job'[at[v].job].tmpl = at[v].tmpl
                      /\ at[v].done <= Size(at[v].job)'
                      /\ \A k \in 1..at[v].done : Named(at[v].job, k)'
    BY <1>1 DEF WorkerHolds, HandHolds
  <2> DEFINE j == at[v].job
  <2>1. /\ j \in 1..Len(job) /\ job[j].msg = at[v].msg /\ job[j].tmpl = at[v].tmpl
        /\ at[v].done <= Size(j) /\ \A k \in 1..at[v].done : Named(j, k)
    BY <1>1 DEF WorkerHolds, HandHolds
  <2>2. Size(j)' = Size(j) /\ \A k : Named(j, k) => Named(j, k)'
    BY <1>1, <2>1, Stays
  <2>3. j \in 1..Len(job') /\ job'[j].msg = job[j].msg /\ job'[j].tmpl = job[j].tmpl
    BY <1>3, <2>1 DEF Grows
  <2> QED
    BY <2>1, <2>2, <2>3
<1>5. StartHolds(v)'
  <2>1. /\ mine[v].stage # 0 => mine[v].stage \in 1..Len(stage)
        /\ mine[v].run # 0 => mine[v].run \in 1..Len(run)
    BY <1>2, <1>3 DEF StartRows
  <2> QED
    BY <1>1, <2>1 DEF WorkerHolds, StartHolds, Grows
<1>6. CollectHolds(v)'
  <2>1. closing[v].stage # 0 => closing[v].stage \in 1..Len(stage)
    BY <1>2, <1>3 DEF ClosingRows
  <2>2. \A row \in current[v] : row.run \in 1..Len(run)
    BY <1>2 DEF CurrentRows
  <2> QED
    BY <1>1, <2>1, <2>2, Stays DEF WorkerHolds, CollectHolds, Grows
<1> QED
  BY <1>4, <1>5, <1>6 DEF WorkerHolds

\* Statements that write no row of a job, stage or run.
LEMMA QuietShape ==
  ASSUME Shape, UNCHANGED <<job, stage, run>>,
         clock' \in 0..MaxTime, aborts' \in 0..MaxAborts, pc' \in [Workers -> Phase],
         message' \in [Messages -> [state : MessageState \cup {"none"}, lock : Nat]],
         ExpansionShape',
         proc' \in Seq(Execution!ProcState), Len(proc') = Len(proc),
         ready' \in [Workers -> SUBSET ReadyRows], mine' \in [Workers -> StartRows],
         current' \in [Workers -> SUBSET CurrentRows],
         closing' \in [Workers -> ClosingRows],
         jobPlan' \in [Workers -> SUBSET JobPlans],
         messagePlan' \in [Workers -> SUBSET MessagePlans]
  PROVE  Shape' /\ (UNCHANGED proc => Grows)
<1>1. /\ ReadyRows' = ReadyRows /\ StartRows' = StartRows /\ CurrentRows' = CurrentRows
      /\ ClosingRows' = ClosingRows /\ JobPlans' = JobPlans /\ MessagePlans' = MessagePlans
  BY DEF ReadyRows, StartRows, CurrentRows, ClosingRows, JobPlans, MessagePlans
<1>2. TablesOK'
  BY DEF Shape, TablesOK
<1>3. ExecutionShape' /\ PlanShape'
  BY <1>1 DEF Shape, ExecutionShape, PlanShape
<1>4. UNCHANGED proc => Grows
  BY Rows DEF Shape, Grows
<1> QED
  BY <1>2, <1>3, <1>4 DEF Shape

\* A step that touches no job, stage, run or process keeps what the invariant
\* says of them.
LEMMA SameRows ==
  ASSUME RowsMade, StagesHold, UNCHANGED <<job, stage, run, proc>>
  PROVE  RowsMade' /\ StagesHold'
<1>1. RowsMade'
  <2>1. /\ \A j \in 1..Len(job) : Size(j)' = Size(j)
        /\ \A j, k : Named(j, k) => Named(j, k)'
    BY DEF Size, Named, StageTemplates
  <2> QED
    BY <2>1 DEF RowsMade
<1>2. StagesHold'
  BY DEF StagesHold, Good
<1> QED
  BY <1>1, <1>2

\* A step of a worker that touches neither a row of the tables nor a plan (it
\* reads, or moves on in its batch) keeps the invariant.
LEMMA QuietKeepsInv ==
  ASSUME BeatInv, Shape', UNCHANGED <<job, stage, run, proc>>, NEW w \in Workers,
         WorkerHolds(w)',
         \A v \in Workers \ {w} :
            /\ pc'[v] = pc[v] /\ at'[v] = at[v] /\ mine'[v] = mine[v]
            /\ current'[v] = current[v] /\ closing'[v] = closing[v]
  PROVE  BeatInv' /\ Grows
<1>1. Grows
  BY Rows DEF BeatInv, Shape, Grows
<1>2. RowsMade' /\ StagesHold'
  BY SameRows DEF BeatInv
<1>3. \A v \in Workers : WorkerHolds(v)'
  BY <1>1, OthersKeep
<1> QED
  BY <1>1, <1>2, <1>3 DEF BeatInv
------------------------------------------------------------------------------
(* Message expansion.                                                      *)

\* The lock a worker would write is a time of the clock.
LEMMA LockTypes ==
  ASSUME ExpansionShape, NEW w \in Workers
  PROVE  Expansion!NewLock(w) \in Nat
  BY DEF ExpansionShape, Expansion!NewLock

\* What an expansion step does besides inserting rows keeps the inductive
\* invariant if it keeps the types: it goes on with another message or none.
LEMMA ExpansionQuiet ==
  ASSUME BeatInv, NEW w \in Workers, NEW phase \in {"claim", "expand", "idle", "pick"},
         UNCHANGED <<clock, job, stage, run, executionVars, completionVars>>,
         aborts' \in 0..MaxAborts, pc' = [pc EXCEPT ![w] = phase],
         message' \in [Messages -> [state : MessageState \cup {"none"}, lock : Nat]],
         ExpansionShape', \A v \in Workers \ {w} : at'[v] = at[v],
         phase = "expand" => at'[w].msg \in Messages /\ at'[w].tmpl = 0
  PROVE  BeatInv' /\ Grows
<1>1. pc \in [Workers -> Phase] /\ pc' \in [Workers -> Phase] /\ clock' \in 0..MaxTime
  BY DEF BeatInv, Shape, TablesOK, Phase
<1>2. Shape'
  BY <1>1, QuietShape
     DEF BeatInv, Shape, ExecutionShape, PlanShape, executionVars, completionVars
<1>3. WorkerHolds(w)'
  <2>1. pc'[w] = phase /\ WorkerHolds(w)
    BY <1>1 DEF BeatInv
  <2>2. HandHolds(w)'
    BY <2>1 DEF HandHolds
  <2>3. StartHolds(w)' /\ CollectHolds(w)'
    BY <2>1 DEF WorkerHolds, StartHolds, CollectHolds, Starting, executionVars
  <2> QED
    BY <2>2, <2>3 DEF WorkerHolds
<1> QED
  BY <1>1, <1>2, <1>3, QuietKeepsInv DEF executionVars

\* The SELECT, a miss, the end of the batch, and the ways a beat ends here.
LEMMA ReadingKeepsInv ==
  ASSUME BeatInv, NEW w \in Workers,
         \/ Expansion!Pick(w) \/ \E row \in batch[w] : Expansion!ClaimMiss(w, row)
         \/ Expansion!TemplateMissing(w) \/ Expansion!CommitFails(w)
         \/ Expansion!EndExpansion(w) \/ Expansion!ExpansionAborts(w),
         UNCHANGED <<executionVars, completionVars>>
  PROVE  BeatInv' /\ Grows
<1> USE DEF Expansion!GoTo, Expansion!tables, Expansion!tableVars,
            Expansion!ForgetExpansion, Expansion!NotExpanding
<1>1. /\ Shape /\ ExpansionShape /\ clock \in 0..MaxTime /\ aborts \in 0..MaxAborts
      /\ pc \in [Workers -> Phase] /\ MaxAborts \in Nat
      /\ message \in [Messages -> [state : MessageState \cup {"none"}, lock : Nat]]
  BY DEF BeatInv, Shape, TablesOK
<1>2. UNCHANGED <<clock, job, stage, run, message>>
  BY DEF Expansion!Pick, Expansion!ClaimMiss, Expansion!TemplateMissing,
         Expansion!CommitFails, Expansion!EndExpansion, Expansion!ExpansionAborts
<1>3. aborts' \in 0..MaxAborts
  BY <1>1 DEF Expansion!Pick, Expansion!ClaimMiss, Expansion!TemplateMissing,
         Expansion!CommitFails, Expansion!EndExpansion, Expansion!ExpansionAborts
<1>4. CASE Expansion!Pick(w)
  <2> DEFINE rows == {[msg |-> m, lock |-> message[m].lock] :
                        m \in {n \in Messages : message[n].state = "EMITTED" /\ message[n].lock < clock}}
  <2>1. rows \subseteq [msg : Messages, lock : Nat]
    BY <1>1
  <2>2. /\ readAt' = [readAt EXCEPT ![w] = clock] /\ batch' = [batch EXCEPT ![w] = rows]
        /\ UNCHANGED <<at, late>> /\ pc' = [pc EXCEPT ![w] = "claim"]
    BY <1>4 DEF Expansion!Pick
  <2>3. ExpansionShape'
    BY <1>1, <2>1, <2>2 DEF ExpansionShape
  <2> QED
    BY <1>1, <1>2, <1>3, <2>2, <2>3, ExpansionQuiet
<1>5. ASSUME NEW row \in batch[w], Expansion!ClaimMiss(w, row)
      PROVE  BeatInv' /\ Grows
  <2>1. /\ pc[w] = "claim" /\ UNCHANGED <<pc, readAt, at, late>>
        /\ batch' = [batch EXCEPT ![w] = batch[w] \ {row}]
    BY <1>5 DEF Expansion!ClaimMiss
  <2>2. ExpansionShape'
    BY <1>1, <2>1 DEF ExpansionShape
  <2>3. pc' = [pc EXCEPT ![w] = "claim"]
    BY <1>1, <2>1
  <2> QED
    BY <1>1, <1>2, <1>3, <2>1, <2>2, <2>3, ExpansionQuiet
<1>6. CASE \/ Expansion!TemplateMissing(w) \/ Expansion!CommitFails(w)
           \/ Expansion!EndExpansion(w) \/ Expansion!ExpansionAborts(w)
  <2>1. PICK phase \in {"idle", "pick"} : pc' = [pc EXCEPT ![w] = phase]
    BY <1>6 DEF Expansion!TemplateMissing, Expansion!CommitFails, Expansion!EndExpansion,
                Expansion!ExpansionAborts
  <2>2. /\ readAt' = [readAt EXCEPT ![w] = 0] /\ batch' = [batch EXCEPT ![w] = {}]
        /\ at' = [at EXCEPT ![w] = [msg |-> NoMessage, tmpl |-> 0, job |-> 0, done |-> 0]]
        /\ UNCHANGED late
    BY <1>6 DEF Expansion!TemplateMissing, Expansion!CommitFails, Expansion!EndExpansion,
                Expansion!ExpansionAborts
  <2>3. ExpansionShape'
    BY <1>1, <2>2 DEF ExpansionShape
  <2>4. \A v \in Workers \ {w} : at'[v] = at[v]
    BY <1>1, <2>2 DEF ExpansionShape
  <2> QED
    BY <1>1, <1>2, <1>3, <2>1, <2>3, <2>4, ExpansionQuiet
<1> QED
  BY <1>4, <1>5, <1>6

\* The claim and the commit, which write the message.
LEMMA LockingKeepsInv ==
  ASSUME BeatInv, NEW w \in Workers,
         (\E row \in batch[w] : Expansion!Claim(w, row)) \/ Expansion!Commit(w),
         UNCHANGED <<executionVars, completionVars>>
  PROVE  BeatInv' /\ Grows
<1> USE DEF Expansion!GoTo, Expansion!NotExpanding, Expansion!CasMessage
<1>1. /\ Shape /\ ExpansionShape /\ clock \in 0..MaxTime /\ aborts \in 0..MaxAborts
      /\ pc \in [Workers -> Phase] /\ Expansion!NewLock(w) \in Nat
      /\ message \in [Messages -> [state : MessageState \cup {"none"}, lock : Nat]]
  BY LockTypes DEF BeatInv, Shape, TablesOK
<1>2. ASSUME NEW row \in batch[w], Expansion!Claim(w, row)
      PROVE  BeatInv' /\ Grows
  <2>1. row.msg \in Messages
    BY <1>1 DEF ExpansionShape
  <2>2. /\ UNCHANGED <<clock, job, stage, run, aborts, readAt, late>>
        /\ message' = [message EXCEPT ![row.msg] =
              [state |-> "EMITTED", lock |-> Expansion!NewLock(w)]]
        /\ batch' = [batch EXCEPT ![w] = batch[w] \ {row}]
        /\ at' = [at EXCEPT ![w] = [msg |-> row.msg, tmpl |-> 0, job |-> 0, done |-> 0]]
        /\ pc' = [pc EXCEPT ![w] = "expand"]
    <3>1. [[msg |-> NoMessage, tmpl |-> 0, job |-> 0, done |-> 0] EXCEPT !.msg = row.msg]
          = [msg |-> row.msg, tmpl |-> 0, job |-> 0, done |-> 0]
      OBVIOUS
    <3> QED
      BY <1>2, <3>1 DEF Expansion!Claim
  <2>3. ExpansionShape' /\ at'[w].msg \in Messages /\ at'[w].tmpl = 0
        /\ \A v \in Workers \ {w} : at'[v] = at[v]
    BY <1>1, <2>1, <2>2 DEF ExpansionShape
  <2>4. message' \in [Messages -> [state : MessageState \cup {"none"}, lock : Nat]]
    BY <1>1, <2>1, <2>2 DEF MessageState
  <2> QED
    BY <1>1, <2>2, <2>3, <2>4, ExpansionQuiet
<1>3. CASE Expansion!Commit(w)
  <2>1. at[w].msg \in Messages
    BY <1>3 DEF Expansion!Commit, BeatInv, WorkerHolds, HandHolds
  <2>2. /\ UNCHANGED <<clock, job, stage, run, aborts, readAt, batch, late>>
        /\ message' = [message EXCEPT ![at[w].msg] =
              [state |-> "IN_PROCESS", lock |-> Expansion!NewLock(w)]]
        /\ at' = [at EXCEPT ![w] = [msg |-> NoMessage, tmpl |-> 0, job |-> 0, done |-> 0]]
        /\ pc' = [pc EXCEPT ![w] = "claim"]
    BY <1>3 DEF Expansion!Commit
  <2>3. ExpansionShape' /\ \A v \in Workers \ {w} : at'[v] = at[v]
    BY <1>1, <2>2 DEF ExpansionShape
  <2>4. message' \in [Messages -> [state : MessageState \cup {"none"}, lock : Nat]]
    BY <1>1, <2>1, <2>2 DEF MessageState
  <2> QED
    BY <1>1, <2>2, <2>3, <2>4, ExpansionQuiet
<1> QED
  BY <1>2, <1>3

\* Posting and the clock.
LEMMA EnvironmentKeepsInv ==
  ASSUME BeatInv, Environment
  PROVE  BeatInv' /\ Grows
<1>1. /\ Shape /\ ExpansionShape /\ clock \in 0..MaxTime /\ MaxTime \in Nat
      /\ message \in [Messages -> [state : MessageState \cup {"none"}, lock : Nat]]
      /\ pc \in [Workers -> Phase] /\ aborts \in 0..MaxAborts
  BY DEF BeatInv, Shape, TablesOK
<1>2. /\ UNCHANGED <<job, stage, run, pc, aborts, readAt, batch, at>>
      /\ UNCHANGED <<proc, ready, mine, current, closing, jobPlan, messagePlan>>
  BY DEF Environment, Expansion!Emit, Expansion!Tick, Expansion!tables,
         Expansion!expansionVars, executionVars, completionVars
<1>3. /\ message' \in [Messages -> [state : MessageState \cup {"none"}, lock : Nat]]
      /\ clock' \in 0..MaxTime /\ late' \in BOOLEAN
  <2>1. ASSUME NEW m \in Messages, Expansion!Emit(m)
        PROVE  /\ message' \in [Messages -> [state : MessageState \cup {"none"}, lock : Nat]]
               /\ UNCHANGED <<clock, late>>
    BY <1>1, <2>1 DEF Expansion!Emit, Expansion!expansionVars, MessageState
  <2>2. CASE Expansion!Tick
    <3>1. UNCHANGED message /\ clock' \in 0..MaxTime
      BY <1>1, <2>2 DEF Expansion!Tick, Expansion!tables
    <3>2. (late' = (late \/ \E w \in Workers : Expansion!Overrun(w))) /\ late \in BOOLEAN
      BY <1>1, <2>2 DEF Expansion!Tick, ExpansionShape
    <3>3. late' \in BOOLEAN
      BY <3>2
    <3> QED
      BY <1>1, <3>1, <3>3
  <2> QED
    BY <1>1, <2>1, <2>2 DEF Environment, ExpansionShape
<1>4. ExpansionShape'
  BY <1>1, <1>2, <1>3 DEF ExpansionShape
<1>5. Shape' /\ Grows
  BY <1>1, <1>2, <1>3, <1>4, QuietShape DEF Shape, ExecutionShape, PlanShape
<1>6. \A v \in Workers : WorkerHolds(v)'
  BY <1>2, <1>5, OthersKeep
<1>7. RowsMade' /\ StagesHold'
  <2>1. UNCHANGED <<job, stage, run, proc>>
    BY <1>2
  <2> QED
    BY <2>1, SameRows DEF BeatInv
<1> QED
  BY <1>5, <1>6, <1>7 DEF BeatInv
------------------------------------------------------------------------------
(* INSERT_JOB and INSERT_STAGE.                                            *)

\* Rows may refer to more rows than before.
LEMMA Wider ==
  ASSUME Shape, Len(job') \in Nat, Len(stage') \in Nat, Len(run') \in Nat,
         Len(job) <= Len(job'), Len(stage) <= Len(stage'), Len(run) <= Len(run')
  PROVE  /\ stage \in Seq(StageRows') /\ run \in Seq(RunRows')
         /\ ready \in [Workers -> SUBSET ReadyRows']
         /\ mine \in [Workers -> StartRows']
         /\ current \in [Workers -> SUBSET CurrentRows']
         /\ closing \in [Workers -> ClosingRows']
         /\ PlanShape' \/ ~UNCHANGED <<jobPlan, messagePlan>>
<1>1. Len(job) \in Nat /\ Len(stage) \in Nat /\ Len(run) \in Nat
  BY Rows DEF Shape
<1>2. /\ 1..Len(job) \subseteq 1..Len(job') /\ 1..Len(stage) \subseteq 1..Len(stage')
      /\ 1..Len(run) \subseteq 1..Len(run')
      /\ 0..Len(stage) \subseteq 0..Len(stage') /\ 0..Len(run) \subseteq 0..Len(run')
  BY <1>1
<1>3. stage \in Seq(StageRows')
  <2>1. StageRows \subseteq StageRows'
    BY <1>2 DEF StageRows
  <2> QED
    BY <2>1, RowTypes DEF Shape
<1>4. run \in Seq(RunRows')
  <2>1. RunRows \subseteq RunRows'
    BY <1>2 DEF RunRows
  <2> QED
    BY <2>1, RowTypes DEF Shape
<1>5. ready \in [Workers -> SUBSET ReadyRows']
  <2>1. ReadyRows \subseteq ReadyRows'
    BY <1>2 DEF ReadyRows
  <2> QED
    BY <2>1 DEF Shape, ExecutionShape
<1>6. mine \in [Workers -> StartRows']
  <2>1. StartRows \subseteq StartRows'
    BY <1>2 DEF StartRows
  <2> QED
    BY <2>1 DEF Shape, ExecutionShape
<1>7. current \in [Workers -> SUBSET CurrentRows']
  <2>1. CurrentRows \subseteq CurrentRows'
    BY <1>2 DEF CurrentRows
  <2> QED
    BY <2>1 DEF Shape, ExecutionShape
<1>8. closing \in [Workers -> ClosingRows']
  <2>1. ClosingRows \subseteq ClosingRows'
    BY <1>2 DEF ClosingRows
  <2> QED
    BY <2>1 DEF Shape, ExecutionShape
<1>9. ASSUME UNCHANGED <<jobPlan, messagePlan>>
      PROVE  PlanShape'
  <2>1. JobPlans \subseteq JobPlans' /\ MessagePlans' = MessagePlans
    BY <1>2 DEF JobPlans, MessagePlans
  <2> QED
    BY <1>9, <2>1 DEF Shape, PlanShape
<1> QED
  BY <1>3, <1>4, <1>5, <1>6, <1>7, <1>8, <1>9

\* The rows of a template that INSERT_JOB and INSERT_STAGE make.
LEMMA TemplateRows ==
  ASSUME NEW m \in Messages, NEW i \in 1..Len(Template[m])
  PROVE  /\ Expansion!JobRow(m, i) \in JobRows
         /\ Expansion!JobRow(m, i).msg = m /\ Expansion!JobRow(m, i).tmpl = i
         /\ Len(StageTemplates(m, i)) \in Nat
         /\ \A k \in 1..Len(StageTemplates(m, i)) :
               StageTemplates(m, i)[k] \in StageTemplate
<1>1. Template[m] \in Seq(JobTemplate) /\ Len(Template[m]) \in Nat
  OBVIOUS
<1>2. Template[m][i] \in JobTemplate
  BY <1>1, ElementOfSeq
<1>3. Template[m][i].responsible \in BOOLEAN /\ i \in Nat
  BY <1>1, <1>2 DEF JobTemplate
<1>4. Expansion!JobRow(m, i) \in JobRows
  <2>1. "IN_PROCESS" \in JobState
    BY DEF JobState
  <2> QED
    BY <1>3, <2>1, Zenon DEF Expansion!JobRow, JobRows
<1>5. StageTemplates(m, i) \in Seq(StageTemplate)
  BY <1>2 DEF StageTemplates, JobTemplate
<1> QED
  BY <1>4, <1>5, ElementOfSeq DEF Expansion!JobRow

\* INSERT_JOB adds a job row whose parts say what its template says, and
\* leaves the rows that are there alone.
LEMMA InsertJobKeepsInv ==
  ASSUME BeatInv, NEW w \in Workers, Expansion!InsertJob(w),
         UNCHANGED <<executionVars, completionVars>>
  PROVE  BeatInv' /\ Grows
<1> DEFINE m == at[w].msg
<1>1. /\ Shape /\ TablesOK /\ ExpansionShape /\ WorkerHolds(w)
      /\ Len(job) \in Nat /\ Len(stage) \in Nat /\ Len(run) \in Nat
  BY Rows DEF BeatInv, Shape
<1>2. /\ pc[w] = "expand" /\ m \in Messages
      /\ UNCHANGED <<clock, message, stage, run, pc, aborts, readAt, batch, late>>
      /\ UNCHANGED <<proc, ready, mine, current, closing, jobPlan, messagePlan>>
  BY <1>1 DEF Expansion!InsertJob, WorkerHolds, HandHolds, executionVars, completionVars
<1>3. PICK i \in 1..Len(Template[m]) :
        /\ job' = Append(job, Expansion!JobRow(m, i))
        /\ at' = [at EXCEPT ![w] = [msg |-> m, tmpl |-> i, job |-> Len(job'), done |-> 0]]
  BY DEF Expansion!InsertJob, Expansion!Remaining, Expansion!Selected
<1>4. /\ job' \in Seq(JobRows) /\ Len(job') = Len(job) + 1
      /\ job'[Len(job')].msg = m /\ job'[Len(job')].tmpl = i
      /\ \A j \in 1..Len(job) : job'[j] = job[j]
  BY <1>1, <1>2, <1>3, TemplateRows, RowTypes
<1>5. Grows
  BY <1>1, <1>2, <1>4 DEF Grows
<1>6. /\ at'[w] = [msg |-> m, tmpl |-> i, job |-> Len(job'), done |-> 0]
      /\ \A v \in Workers \ {w} : at'[v] = at[v]
      /\ at' \in [Workers -> [msg : Messages \cup {NoMessage}, tmpl : Nat, job : Nat, done : Nat]]
  <2>1. i \in Nat /\ Len(job') \in Nat
    BY <1>1, <1>3, <1>4
  <2> QED
    BY <1>1, <1>2, <1>3, <2>1 DEF ExpansionShape
<1>7. Shape'
  <2>1. /\ stage \in Seq(StageRows') /\ run \in Seq(RunRows')
        /\ ready \in [Workers -> SUBSET ReadyRows'] /\ mine \in [Workers -> StartRows']
        /\ current \in [Workers -> SUBSET CurrentRows']
        /\ closing \in [Workers -> ClosingRows'] /\ PlanShape'
    BY <1>1, <1>2, <1>4, Wider
  <2>2. TablesOK'
    BY <1>1, <1>2, <1>4, <2>1 DEF TablesOK, JobRows, StageRows, RunRows
  <2>3. ExpansionShape'
    BY <1>1, <1>2, <1>6 DEF ExpansionShape
  <2>4. ExecutionShape'
    BY <1>1, <1>2, <2>1 DEF Shape, ExecutionShape
  <2> QED
    BY <2>1, <2>2, <2>3, <2>4 DEF Shape
<1>8. RowsMade'
  <2>1. \A j \in 1..Len(job') : job'[j].tmpl \in 1..Len(Template[job'[j].msg])
    BY <1>1, <1>3, <1>4 DEF BeatInv, RowsMade
  <2>2. ASSUME NEW j \in 1..Len(job'), NEW s \in 1..Len(stage), stage[s].job = j
        PROVE  /\ stage[s].name \in 1..Size(j)'
               /\ \A k \in 1..(stage[s].name - 1) : Named(j, k)'
    <3>1. /\ j \in 1..Len(job) /\ stage[s].name \in 1..Size(j)
          /\ \A k \in 1..(stage[s].name - 1) : Named(j, k)
      BY <1>1, <2>2, Rows DEF BeatInv, RowsMade
    <3>2. Size(j)' = Size(j) /\ \A k : Named(j, k) => Named(j, k)'
      BY <1>1, <1>5, <1>7, <3>1, Stays DEF Shape
    <3> QED
      BY <3>1, <3>2
  <2> QED
    BY <1>2, <2>1, <2>2 DEF RowsMade
<1>9. StagesHold'
  BY <1>2 DEF BeatInv, StagesHold, Good
<1>10. WorkerHolds(w)'
  <2>1. HandHolds(w)'
    <3>1. Len(StageTemplates(m, i)) \in Nat /\ Len(job') \in 1..Len(job')
      BY <1>1, <1>2, <1>3, <1>4, TemplateRows
    <3> QED
      BY <1>2, <1>3, <1>4, <1>6, <3>1 DEF HandHolds, Size, StageTemplates
  <2>2. StartHolds(w)' /\ CollectHolds(w)'
    BY <1>1, <1>2 DEF WorkerHolds, StartHolds, CollectHolds, Starting
  <2> QED
    BY <2>1, <2>2 DEF WorkerHolds
<1>11. \A v \in Workers : WorkerHolds(v)'
  BY <1>2, <1>5, <1>6, <1>7, <1>10, OthersKeep
<1> QED
  BY <1>5, <1>7, <1>8, <1>9, <1>11 DEF BeatInv

\* The next stage of the job in hand; its first ones are there.
LEMMA InsertStageKeepsInv ==
  ASSUME BeatInv, NEW w \in Workers, Expansion!InsertStage(w),
         UNCHANGED <<executionVars, completionVars>>
  PROVE  /\ BeatInv' /\ Grows
         /\ Len(stage') = Len(stage) + 1 /\ \A s \in 1..Len(stage) : stage'[s] = stage[s]
         /\ \A s \in 1..Len(stage') \ 1..Len(stage) :
               stage'[s].state # "BLOCKED" => Released(s)'
<1>0. PICK m, i, j, d, n : /\ m = at[w].msg /\ i = at[w].tmpl /\ j = at[w].job
                           /\ d = at[w].done /\ n = Len(stage) + 1
  OBVIOUS
<1> DEFINE k == d + 1
           row == Expansion!StageRow(j, m, i, k)
<1>1. /\ Shape /\ TablesOK /\ ExpansionShape /\ WorkerHolds(w)
      /\ Len(job) \in Nat /\ Len(stage) \in Nat /\ Len(run) \in Nat
  BY Rows DEF BeatInv, Shape
<1>2. /\ pc[w] = "expand" /\ m \in Messages /\ i \in 1..Len(Template[m])
      /\ d # Len(StageTemplates(m, i)) /\ d \in Nat
      /\ j \in 1..Len(job) /\ job[j].msg = m /\ job[j].tmpl = i
      /\ d <= Len(StageTemplates(m, i)) /\ \A l \in 1..d : Named(j, l)
  <2>1. pc[w] = "expand" /\ at[w].tmpl # 0 /\ d # Len(StageTemplates(m, i))
    BY <1>0 DEF Expansion!InsertStage, Expansion!JobComplete, Expansion!StageTemplates,
           StageTemplates
  <2>2. d \in Nat
    BY <1>0, <1>1 DEF ExpansionShape
  <2> QED
    BY <1>0, <1>1, <2>1, <2>2 DEF WorkerHolds, HandHolds, Size
<1>3. /\ UNCHANGED <<clock, message, job, run, pc, aborts, readAt, batch, late>>
      /\ UNCHANGED <<proc, ready, mine, current, closing, jobPlan, messagePlan>>
      /\ stage' = Append(stage, row) /\ at' = [at EXCEPT ![w] = [at[w] EXCEPT !.done = k]]
  BY <1>0 DEF Expansion!InsertStage, executionVars, completionVars
<1>4. k \in 1..Len(StageTemplates(m, i)) /\ StageTemplates(m, i)[k] \in StageTemplate
  BY <1>2, TemplateRows
<1>5. /\ row.job = j /\ row.name = k /\ row.retriesLeft \in Nat \ {0}
      /\ row.state \in {"READY", "BLOCKED"}
      /\ row.state # "BLOCKED" => StageTemplates(m, i)[k].dependOnStage = {}
      /\ row \in StageRows
  <2>1. StageTemplates(m, i)[k].maxTries \in Nat \ {0}
    BY <1>4 DEF StageTemplate
  <2>2. row = [job |-> j, name |-> k, retriesLeft |-> StageTemplates(m, i)[k].maxTries,
               state |-> IF StageTemplates(m, i)[k].dependOnStage = {} THEN "READY" ELSE "BLOCKED"]
    BY DEF Expansion!StageRow, Expansion!StageTemplates, StageTemplates
  <2>3. j \in 1..Len(job) /\ k \in Nat
    BY <1>2
  <2> QED
    BY <2>1, <2>2, <2>3 DEF StageRows, StageState
<1> HIDE DEF row
<1>6. /\ stage' \in Seq(StageRows) /\ Len(stage') = n /\ stage'[n] = row
      /\ \A s \in 1..Len(stage) : stage'[s] = stage[s]
      /\ \A s \in 1..Len(stage') : s = n \/ s \in 1..Len(stage)
  <2>1. stage \in Seq(StageRows)
    BY <1>1, RowTypes
  <2> QED
    BY <1>0, <1>1, <1>3, <1>5, <2>1
<1>7. Grows
  BY <1>0, <1>1, <1>3, <1>6 DEF Grows
<1>8. /\ at'[w].msg = m /\ at'[w].tmpl = i /\ at'[w].job = j /\ at'[w].done = k
      /\ \A v \in Workers \ {w} : at'[v] = at[v]
      /\ at' \in [Workers -> [msg : Messages \cup {NoMessage}, tmpl : Nat, job : Nat, done : Nat]]
  <2> DEFINE hand == [at[w] EXCEPT !.done = k]
  <2>1. /\ at[w] \in [msg : Messages \cup {NoMessage}, tmpl : Nat, job : Nat, done : Nat]
        /\ k \in Nat
    BY <1>1, <1>2 DEF ExpansionShape
  <2>2. /\ hand \in [msg : Messages \cup {NoMessage}, tmpl : Nat, job : Nat, done : Nat]
        /\ hand.msg = m /\ hand.tmpl = i /\ hand.job = j /\ hand.done = k
    BY <1>0, <2>1
  <2>3. at' = [at EXCEPT ![w] = hand]
    BY <1>3
  <2> HIDE DEF hand
  <2> QED
    BY <1>1, <2>2, <2>3 DEF ExpansionShape
<1>9. Shape'
  <2>1. /\ run \in Seq(RunRows')
        /\ ready \in [Workers -> SUBSET ReadyRows'] /\ mine \in [Workers -> StartRows']
        /\ current \in [Workers -> SUBSET CurrentRows']
        /\ closing \in [Workers -> ClosingRows'] /\ PlanShape'
    BY <1>0, <1>1, <1>3, <1>6, Wider
  <2>2. StageRows' = StageRows
    BY <1>3 DEF StageRows
  <2>3. TablesOK'
    BY <1>1, <1>3, <1>6, <2>1, <2>2 DEF TablesOK, StageRows, RunRows
  <2>4. ExpansionShape'
    BY <1>1, <1>3, <1>8 DEF ExpansionShape
  <2>5. ExecutionShape'
    BY <1>1, <1>3, <2>1 DEF Shape, ExecutionShape
  <2> QED
    BY <2>1, <2>3, <2>4, <2>5 DEF Shape
<1>10. \A l \in 1..k : Named(j, l)'
  <2>1. Named(j, k)'
    BY <1>0, <1>1, <1>5, <1>6 DEF Named
  <2>2. \A l \in 1..d : Named(j, l)'
    <3>1. \A a, b : Named(a, b) => Named(a, b)'
      BY <1>1, <1>7, <1>9, Stays DEF Shape
    <3> QED
      BY <1>2, <3>1
  <2> QED
    BY <1>2, <2>1, <2>2
<1>11. RowsMade'
  <2>1. \A l \in 1..Len(job') : job'[l].tmpl \in 1..Len(Template[job'[l].msg])
    BY <1>3 DEF BeatInv, RowsMade
  <2>2. ASSUME NEW l \in 1..Len(job), NEW s \in 1..Len(stage'), stage'[s].job = l
        PROVE  /\ stage'[s].name \in 1..Size(l)'
               /\ \A h \in 1..(stage'[s].name - 1) : Named(l, h)'
    <3>1. Size(l)' = Size(l) /\ \A h : Named(l, h) => Named(l, h)'
      BY <1>1, <1>7, <1>9, Stays DEF Shape
    <3>2. CASE s = n
      <4>1. l = j /\ stage'[s].name = k
        BY <1>5, <1>6, <2>2, <3>2
      <4>2. Size(l) = Len(StageTemplates(m, i))
        BY <1>2, <4>1 DEF Size
      <4> QED
        BY <1>2, <1>4, <1>10, <3>1, <4>1, <4>2
    <3>3. CASE s \in 1..Len(stage)
      BY <1>6, <2>2, <3>1, <3>3 DEF BeatInv, RowsMade
    <3> QED
      BY <1>6, <3>2, <3>3
  <2> QED
    BY <1>3, <2>1, <2>2 DEF RowsMade
<1>12. StagesHold'
  <2>1. \A s \in 1..Len(stage') :
          /\ stage'[s].state \in {"READY", "BLOCKED"} => stage'[s].retriesLeft # 0
          /\ stage'[s].state = "SUCCESS" => Good(s)'
    BY <1>1, <1>3, <1>5, <1>6 DEF BeatInv, StagesHold, Good
  <2>2. \A r \in 1..Len(run') : stage'[run'[r].stage].state # "BLOCKED"
    BY <1>1, <1>3, <1>6, Rows DEF BeatInv, StagesHold
  <2> QED
    BY <2>1, <2>2 DEF StagesHold
<1>13. WorkerHolds(w)'
  <2>1. HandHolds(w)'
    <3>1. k <= Size(j)'
      BY <1>2, <1>3, <1>4 DEF Size, StageTemplates
    <3> QED
      BY <1>2, <1>3, <1>8, <1>10, <3>1 DEF HandHolds
  <2>2. StartHolds(w)' /\ CollectHolds(w)'
    BY <1>1, <1>2, <1>3, <1>6 DEF WorkerHolds, StartHolds, CollectHolds, Starting
  <2> QED
    BY <2>1, <2>2 DEF WorkerHolds
<1>14. \A v \in Workers : WorkerHolds(v)'
  BY <1>3, <1>7, <1>8, <1>9, <1>13, OthersKeep
<1>15. stage'[n].state # "BLOCKED" => Released(n)'
  <2>1. TemplateOf(n)' = StageTemplates(m, i)[k]
    BY <1>2, <1>3, <1>5, <1>6 DEF TemplateOf, JobOf, StageTemplates
  <2> QED
    BY <1>5, <1>6, <2>1 DEF Released
<1>16. BeatInv'
  BY <1>9, <1>11, <1>12, <1>14 DEF BeatInv
<1> QED
  BY <1>0, <1>1, <1>6, <1>7, <1>15, <1>16
------------------------------------------------------------------------------
(* Stage execution.                                                        *)

\* A step of one worker: the rows are in order and so is what it has in hand.
LEMMA StepKeepsInv ==
  ASSUME BeatInv, Shape', Grows, RowsMade', StagesHold', NEW w \in Workers,
         WorkerHolds(w)',
         \A v \in Workers \ {w} :
            /\ pc'[v] = pc[v] /\ at'[v] = at[v] /\ mine'[v] = mine[v]
            /\ current'[v] = current[v] /\ closing'[v] = closing[v]
            /\ pc[v] = "start" => proc'[mine[v].run] = proc[mine[v].run]
  PROVE  BeatInv'
<1>1. \A v \in Workers : WorkerHolds(v)'
  BY OthersKeep
<1> QED
  BY <1>1 DEF BeatInv

\* Statements that make no row.
LEMMA SameLengths ==
  ASSUME Shape, TablesOK', ExpansionShape',
         Len(job') = Len(job), Len(stage') = Len(stage), Len(run') = Len(run),
         proc' \in Seq(Execution!ProcState), Len(proc') = Len(proc),
         ready' \in [Workers -> SUBSET ReadyRows], mine' \in [Workers -> StartRows],
         current' \in [Workers -> SUBSET CurrentRows],
         closing' \in [Workers -> ClosingRows],
         jobPlan' \in [Workers -> SUBSET JobPlans],
         messagePlan' \in [Workers -> SUBSET MessagePlans]
  PROVE  Shape'
<1>1. /\ ReadyRows' = ReadyRows /\ StartRows' = StartRows /\ CurrentRows' = CurrentRows
      /\ ClosingRows' = ClosingRows /\ JobPlans' = JobPlans /\ MessagePlans' = MessagePlans
  BY DEF ReadyRows, StartRows, CurrentRows, ClosingRows, JobPlans, MessagePlans
<1>2. ExecutionShape' /\ PlanShape'
  BY <1>1 DEF Shape, ExecutionShape, PlanShape
<1> QED
  BY <1>2 DEF Shape

\* UPDATE_STAGE_STATUS, with a state that is not BLOCKED and can be claimed.
LEMMA StageWritten ==
  ASSUME BeatInv, NEW s \in 1..Len(stage), NEW from, NEW to \in StageState \ {"BLOCKED"},
         NEW retries \in Nat, CasStage(s, from, to, retries),
         to = "READY" => retries # 0, to = "SUCCESS" => Good(s),
         UNCHANGED <<clock, message, job, run, aborts, proc>>, pc' \in [Workers -> Phase]
  PROVE  /\ TablesOK' /\ Grows /\ RowsMade' /\ StagesHold'
         /\ Len(stage') = Len(stage)
         /\ \A t \in 1..Len(stage) : stage'[t].state # stage[t].state =>
               t = s /\ stage[t].state = from /\ stage'[t].state = to
<1>1. /\ TablesOK /\ Len(job) \in Nat /\ Len(stage) \in Nat /\ Len(run) \in Nat
      /\ RowsMade /\ StagesHold
  BY Rows DEF BeatInv, Shape
<1>2. /\ stage' \in Seq(StageRows) /\ Len(stage') = Len(stage)
      /\ \A t \in 1..Len(stage) : t # s => stage'[t] = stage[t]
      /\ stage'[s].job = stage[s].job /\ stage'[s].name = stage[s].name
      /\ IF stage[s].state = from
         THEN stage'[s].state = to /\ stage'[s].retriesLeft = retries
         ELSE stage'[s] = stage[s]
  <2>1. to \in StageState
    OBVIOUS
  <2>2. TablesOK
    BY <1>1
  <2> QED
    BY <2>1, <2>2, CasStageWrites
<1>3. TablesOK'
  <2>1. StageRows' = StageRows /\ RunRows' = RunRows
    BY <1>2 DEF StageRows, RunRows
  <2> QED
    BY <1>1, <1>2, <2>1 DEF TablesOK, StageRows, RunRows
<1>4. \A t \in 1..Len(stage) :
        /\ stage'[t].job = stage[t].job /\ stage'[t].name = stage[t].name
        /\ stage'[t].state # stage[t].state =>
              t = s /\ stage[t].state = from /\ stage'[t].state = to
  BY <1>2
<1>5. Grows
  BY <1>1, <1>2, <1>4 DEF Grows
<1>6. RowsMade'
  <2>1. \A j, k : Named(j, k) => Named(j, k)'
    BY <1>1, <1>3, <1>5, Stays
  <2>2. \A j \in 1..Len(job) : Size(j)' = Size(j)
    BY <1>1, <1>3, <1>5, Stays
  <2> QED
    BY <1>1, <1>2, <1>4, <2>1, <2>2 DEF RowsMade
<1>7. StagesHold'
  <2>1. \A t : Good(t) => Good(t)'
    BY <1>1, <1>3, <1>5, Stays
  <2>2. \A t \in 1..Len(stage) :
          /\ stage'[t].state \in {"READY", "BLOCKED"} => stage'[t].retriesLeft # 0
          /\ stage'[t].state = "SUCCESS" => Good(t)'
    BY <1>1, <1>2, <2>1 DEF StagesHold
  <2>3. \A r \in 1..Len(run) : stage'[run[r].stage].state # "BLOCKED"
    BY <1>1, <1>5, Rows DEF StagesHold, Grows
  <2> QED
    BY <1>2, <2>2, <2>3 DEF StagesHold
<1> QED
  BY <1>2, <1>3, <1>4, <1>5, <1>6, <1>7

\* UPDATE_RUN and REFRESH_DOWN_TS_RUN.
LEMMA RunWritten ==
  ASSUME BeatInv, NEW r \in 1..Len(run), NEW to \in RunState,
         run' = [run EXCEPT ![r].state = to],
         UNCHANGED <<clock, message, job, stage, aborts, proc>>, pc' \in [Workers -> Phase]
  PROVE  /\ TablesOK' /\ Grows /\ RowsMade' /\ StagesHold' /\ Len(run') = Len(run)
         /\ \A q \in 1..Len(run) : run'[q].stage = run[q].stage /\ run'[q].worker = run[q].worker
<1>1. /\ TablesOK /\ Len(job) \in Nat /\ Len(stage) \in Nat /\ Len(run) \in Nat
      /\ RowsMade /\ StagesHold /\ run \in Seq(RunRows)
  BY Rows, RowTypes DEF BeatInv, Shape
<1>2. /\ run' \in Seq(RunRows) /\ Len(run') = Len(run)
      /\ \A q \in 1..Len(run) : run'[q].stage = run[q].stage /\ run'[q].worker = run[q].worker
  <2> DEFINE row == [run[r] EXCEPT !.state = to]
  <2>1. run[r] \in RunRows
    BY <1>1, RunTypes
  <2>2. row \in RunRows /\ row.stage = run[r].stage /\ row.worker = run[r].worker
    BY <2>1 DEF RunRows
  <2>3. run' = [run EXCEPT ![r] = row]
    OBVIOUS
  <2>4. \A e \in RunRows : \A table : table = [run EXCEPT ![r] = e] =>
          /\ table \in Seq(RunRows) /\ Len(table) = Len(run) /\ table[r] = e
          /\ \A q \in 1..Len(run) : q # r => table[q] = run[q]
    BY <1>1, UpdateRow
  <2> HIDE DEF row
  <2>5. row \in RunRows
    BY <2>2
  <2>6. /\ run' \in Seq(RunRows) /\ Len(run') = Len(run) /\ run'[r] = row
        /\ \A q \in 1..Len(run) : q # r => run'[q] = run[q]
    <3>1. run' \in Seq(RunRows) /\ Len(run') = Len(run)
      BY <2>3, <2>4, <2>5
    <3>2. run'[r] = row
      BY <2>3, <2>4, <2>5
    <3>3. \A q \in 1..Len(run) : q # r => run'[q] = run[q]
      BY <2>3, <2>4, <2>5
    <3> QED
      BY <3>1, <3>2, <3>3
  <2> QED
    BY <2>2, <2>6
<1>3. TablesOK'
  BY <1>1, <1>2 DEF TablesOK, RunRows
<1>4. Grows
  BY <1>1, <1>2 DEF Grows
<1>5. RowsMade'
  BY <1>1 DEF RowsMade, Size, Named, StageTemplates
<1>6. StagesHold'
  BY <1>1, <1>2 DEF StagesHold, Good
<1> QED
  BY <1>2, <1>3, <1>4, <1>5, <1>6

\* The SELECTs, a miss, and the ways this part of a beat ends: the worker has
\* nothing in hand afterwards but the rows it read.
LEMMA ExecutionQuiet ==
  ASSUME BeatInv, NEW w \in Workers, NEW phase \in Phase \ (Starting \cup {"expand", "closeStage"}),
         UNCHANGED <<clock, message, job, stage, run, proc>>,
         UNCHANGED expansionVars, UNCHANGED completionVars,
         aborts' \in 0..MaxAborts, pc' = [pc EXCEPT ![w] = phase],
         ready' \in [Workers -> SUBSET ReadyRows], mine' \in [Workers -> StartRows],
         current' \in [Workers -> SUBSET CurrentRows],
         closing' \in [Workers -> ClosingRows],
         \A v \in Workers \ {w} :
            /\ mine'[v] = mine[v] /\ current'[v] = current[v] /\ closing'[v] = closing[v],
         \A row \in current'[w] : run[row.run].stage = row.stage /\ row.state # "BLOCKED"
  PROVE  BeatInv' /\ Grows
<1>1. /\ Shape /\ pc \in [Workers -> Phase]
      /\ UNCHANGED <<job, stage, run, message, clock, proc, at>>
      /\ UNCHANGED <<readAt, batch, late, jobPlan, messagePlan>>
  BY DEF BeatInv, Shape, TablesOK, tables, expansionVars, completionVars
<1>2. pc' \in [Workers -> Phase] /\ pc'[w] = phase /\ \A v \in Workers \ {w} : pc'[v] = pc[v]
  BY <1>1
<1>3. Shape'
  <2>1. /\ clock' \in 0..MaxTime /\ ExpansionShape' /\ Len(proc') = Len(proc)
        /\ message' \in [Messages -> [state : MessageState \cup {"none"}, lock : Nat]]
        /\ proc' \in Seq(Execution!ProcState)
        /\ jobPlan' \in [Workers -> SUBSET JobPlans]
        /\ messagePlan' \in [Workers -> SUBSET MessagePlans]
    BY <1>1 DEF Shape, TablesOK, ExpansionShape, ExecutionShape, PlanShape
  <2> QED
    BY <1>1, <1>2, <2>1, QuietShape
<1>4. WorkerHolds(w)'
  BY <1>1, <1>2 DEF WorkerHolds, HandHolds, StartHolds, CollectHolds, Starting
<1> QED
  BY <1>1, <1>2, <1>3, <1>4, QuietKeepsInv

\* allReadyStages, a compare-and-set that misses and the end of the list
\* change no stage and no plan.
LEMMA ReadyKeepsInv ==
  ASSUME BeatInv, NEW w \in Workers,
         UNCHANGED expansionVars, UNCHANGED completionVars,
         \/ Execution!LoadReady(w) \/ \E row \in ready[w] : Execution!TakeMiss(w, row)
         \/ Execution!NothingReady(w)
  PROVE  BeatInv' /\ Grows /\ UNCHANGED <<stage, jobPlan>>
<1> USE DEF Execution!GoTo, Execution!tables, Execution!tableVars
<1>1. /\ Shape /\ ExecutionShape /\ aborts \in 0..MaxAborts /\ pc \in [Workers -> Phase]
      /\ StagesHold /\ CollectHolds(w)
  BY DEF BeatInv, Shape, TablesOK, WorkerHolds
<1>2. /\ UNCHANGED <<clock, message, job, stage, run, proc, aborts, mine, current, closing>>
      /\ UNCHANGED expansionVars /\ UNCHANGED completionVars /\ UNCHANGED jobPlan
  BY DEF Execution!LoadReady, Execution!TakeMiss, Execution!NothingReady, completionVars
<1>3. PICK phase \in {"ready", "current"} : pc' = [pc EXCEPT ![w] = phase]
  <2>1. ASSUME NEW row \in ready[w], Execution!TakeMiss(w, row)
        PROVE  pc' = [pc EXCEPT ![w] = "ready"]
    BY <1>1, <2>1 DEF Execution!TakeMiss
  <2>2. ASSUME Execution!LoadReady(w) \/ Execution!NothingReady(w)
        PROVE  pc' = [pc EXCEPT ![w] = "ready"] \/ pc' = [pc EXCEPT ![w] = "current"]
    BY <2>2 DEF Execution!LoadReady, Execution!NothingReady
  <2> QED
    BY <2>1, <2>2
<1>4. ready' \in [Workers -> SUBSET ReadyRows]
  <2>1. CASE Execution!LoadReady(w)
    <3> DEFINE rows == {[stage |-> s, retriesLeft |-> stage[s].retriesLeft] :
                          s \in {t \in 1..Len(stage) : stage[t].state = "READY"}}
    <3>1. rows \subseteq ReadyRows
      BY <1>1, Rows DEF Shape, StagesHold, ReadyRows
    <3>2. ready' = [ready EXCEPT ![w] = rows]
      BY <2>1 DEF Execution!LoadReady
    <3> QED
      BY <1>1, <3>1, <3>2 DEF ExecutionShape
  <2>2. ASSUME NEW row \in ready[w], Execution!TakeMiss(w, row)
        PROVE  ready' \in [Workers -> SUBSET ReadyRows]
    BY <1>1, <2>2 DEF Execution!TakeMiss, ExecutionShape
  <2>3. CASE Execution!NothingReady(w)
    BY <1>1, <2>3 DEF Execution!NothingReady, ExecutionShape
  <2> QED
    BY <2>1, <2>2, <2>3
<1>5. /\ mine' \in [Workers -> StartRows] /\ current' \in [Workers -> SUBSET CurrentRows]
      /\ closing' \in [Workers -> ClosingRows]
      /\ \A row \in current'[w] : run[row.run].stage = row.stage /\ row.state # "BLOCKED"
  BY <1>1, <1>2 DEF ExecutionShape, CollectHolds
<1>6. phase \in Phase \ (Starting \cup {"expand", "closeStage"})
  BY DEF Phase, Starting
<1>7. BeatInv' /\ Grows
  BY <1>1, <1>2, <1>3, <1>4, <1>5, <1>6, ExecutionQuiet
<1> QED
  BY <1>2, <1>7

\* Looking for finished runs, finding none and breaking off change no stage
\* and no plan.
LEMMA CollectKeepsInv ==
  ASSUME BeatInv, NEW w \in Workers,
         UNCHANGED expansionVars, UNCHANGED completionVars,
         \/ Execution!LoadCurrent(w)
         \/ \E row \in current[w] : Execution!NotFinished(w, row) \/ Execution!RcLogEmpty(w, row)
         \/ Execution!EndCollect(w) \/ Execution!ExecutionAborts(w)
  PROVE  BeatInv' /\ Grows /\ UNCHANGED <<stage, jobPlan>>
<1> USE DEF Execution!GoTo, Execution!tables, Execution!tableVars, Execution!executionVars
<1>1. /\ Shape /\ ExecutionShape /\ aborts \in 0..MaxAborts /\ pc \in [Workers -> Phase]
      /\ StagesHold /\ CollectHolds(w) /\ MaxAborts \in Nat
  BY DEF BeatInv, Shape, TablesOK, WorkerHolds
<1>2. /\ UNCHANGED <<clock, message, job, stage, run, proc>>
      /\ UNCHANGED expansionVars /\ UNCHANGED completionVars /\ UNCHANGED jobPlan
      /\ aborts' \in 0..MaxAborts
  BY <1>1 DEF Execution!LoadCurrent, Execution!NotFinished, Execution!RcLogEmpty,
              Execution!EndCollect, Execution!ExecutionAborts, completionVars
<1>3. CASE Execution!LoadCurrent(w)
  <2> DEFINE rows ==
          {[run |-> r, stage |-> run[r].stage, state |-> stage[run[r].stage].state,
            retriesLeft |-> stage[run[r].stage].retriesLeft] :
              r \in {q \in 1..Len(run) :
                        run[q].state = "RUNNING" /\ HostOf[run[q].worker] = HostOf[w]}}
  <2>1. /\ rows \subseteq CurrentRows
        /\ \A row \in rows : run[row.run].stage = row.stage /\ row.state # "BLOCKED"
    BY <1>1, Rows DEF Shape, StagesHold, CurrentRows
  <2>2. /\ current' = [current EXCEPT ![w] = rows] /\ UNCHANGED <<ready, mine, closing>>
        /\ pc' = [pc EXCEPT ![w] = "collect"]
    BY <1>3 DEF Execution!LoadCurrent
  <2>3. /\ ready' \in [Workers -> SUBSET ReadyRows] /\ mine' \in [Workers -> StartRows]
        /\ current' \in [Workers -> SUBSET CurrentRows] /\ closing' \in [Workers -> ClosingRows]
        /\ current'[w] = rows /\ \A v \in Workers \ {w} : current'[v] = current[v]
    BY <1>1, <2>1, <2>2 DEF ExecutionShape
  <2>4. "collect" \in Phase \ (Starting \cup {"expand", "closeStage"})
    BY DEF Phase, Starting
  <2> QED
    BY <1>2, <2>1, <2>2, <2>3, <2>4, ExecutionQuiet
<1>4. ASSUME NEW row \in current[w], Execution!NotFinished(w, row)
      PROVE  BeatInv' /\ Grows
  <2>1. /\ current' = [current EXCEPT ![w] = current[w] \ {row}]
        /\ UNCHANGED <<ready, mine, closing>> /\ pc' = [pc EXCEPT ![w] = "collect"]
    BY <1>1, <1>4 DEF Execution!NotFinished
  <2>2. /\ ready' \in [Workers -> SUBSET ReadyRows] /\ mine' \in [Workers -> StartRows]
        /\ current' \in [Workers -> SUBSET CurrentRows] /\ closing' \in [Workers -> ClosingRows]
        /\ current'[w] \subseteq current[w] /\ \A v \in Workers \ {w} : current'[v] = current[v]
    BY <1>1, <2>1 DEF ExecutionShape
  <2>3. "collect" \in Phase \ (Starting \cup {"expand", "closeStage"})
    BY DEF Phase, Starting
  <2>4. \A r \in current'[w] : run[r.run].stage = r.stage /\ r.state # "BLOCKED"
    BY <1>1, <2>2 DEF CollectHolds
  <2> QED
    BY <1>2, <2>1, <2>2, <2>3, <2>4, ExecutionQuiet
<1>5. CASE Execution!EndCollect(w)
  <2>1. "loadJobs" \in Phase \ (Starting \cup {"expand", "closeStage"})
    BY DEF Phase, Starting
  <2>2. /\ pc' = [pc EXCEPT ![w] = "loadJobs"] /\ UNCHANGED <<ready, mine, current, closing>>
    BY <1>5 DEF Execution!EndCollect
  <2>3. /\ ready' \in [Workers -> SUBSET ReadyRows] /\ mine' \in [Workers -> StartRows]
        /\ current' \in [Workers -> SUBSET CurrentRows] /\ closing' \in [Workers -> ClosingRows]
    BY <1>1, <2>2 DEF ExecutionShape
  <2>4. \A r \in current'[w] : run[r.run].stage = r.stage /\ r.state # "BLOCKED"
    BY <1>1, <2>2 DEF CollectHolds
  <2> QED
    BY <1>2, <2>1, <2>2, <2>3, <2>4, ExecutionQuiet
<1>6. CASE Execution!ExecutionAborts(w) \/ \E row \in current[w] : Execution!RcLogEmpty(w, row)
  <2>1. "idle" \in Phase \ (Starting \cup {"expand", "closeStage"})
    BY DEF Phase, Starting
  <2>2. pc' = [pc EXCEPT ![w] = "idle"] /\ Execution!ForgetExecution(w)
    BY <1>6 DEF Execution!ExecutionAborts, Execution!RcLogEmpty
  <2>3. /\ Execution!NoStage \in StartRows /\ Execution!NotClosing \in ClosingRows
    BY <1>1, Rows DEF Execution!NoStage, Execution!NotClosing, StartRows, ClosingRows, Shape
  <2>4. /\ ready' \in [Workers -> SUBSET ReadyRows] /\ mine' \in [Workers -> StartRows]
        /\ current' \in [Workers -> SUBSET CurrentRows] /\ closing' \in [Workers -> ClosingRows]
        /\ current'[w] = {}
        /\ \A v \in Workers \ {w} :
              /\ mine'[v] = mine[v] /\ current'[v] = current[v] /\ closing'[v] = closing[v]
    BY <1>1, <2>2, <2>3 DEF ExecutionShape, Execution!ForgetExecution
  <2> QED
    BY <1>2, <2>1, <2>2, <2>4, ExecutionQuiet
<1> QED
  BY <1>2, <1>3, <1>4, <1>5, <1>6

\* No stage is let go, and no plan to let one go is made.
NoneReleased ==
    /\ Len(stage') = Len(stage)
    /\ \A w \in Workers : jobPlan'[w] \subseteq jobPlan[w]
    /\ \A s \in 1..Len(stage) : stage[s].state = "BLOCKED" => stage'[s].state = "BLOCKED"

\* A worker picks a READY stage: the stage is not blocked, and it has a try.
LEMMA TakeStageKeepsInv ==
  ASSUME BeatInv, NEW w \in Workers, NEW row \in ready[w], Execution!TakeStage(w, row),
         UNCHANGED expansionVars, UNCHANGED completionVars
  PROVE  BeatInv' /\ Grows /\ NoneReleased
<1>0. PICK s, tries : s = row.stage /\ tries = row.retriesLeft - 1
  OBVIOUS
<1>1. /\ Shape /\ ExecutionShape /\ pc \in [Workers -> Phase] /\ WorkerHolds(w)
      /\ s \in 1..Len(stage) /\ tries \in Nat
      /\ Len(stage) \in Nat /\ Len(run) \in Nat
  <2>1. Shape /\ ExecutionShape /\ row \in ReadyRows
    BY DEF BeatInv, Shape, ExecutionShape
  <2>2. s \in 1..Len(stage) /\ tries \in Nat
    BY <1>0, <2>1 DEF ReadyRows
  <2> QED
    BY <2>1, <2>2, Rows DEF BeatInv, Shape, TablesOK
<1>2. /\ stage[s].state = "READY" /\ CasStage(s, "READY", "PREPARE_TO_RUN", tries)
      /\ mine' = [mine EXCEPT ![w] = [stage |-> s, retriesLeft |-> tries, run |-> 0]]
      /\ ready' = [ready EXCEPT ![w] = {}] /\ pc' = [pc EXCEPT ![w] = "insertRun"]
      /\ UNCHANGED <<clock, message, job, run, aborts, proc>> /\ UNCHANGED <<current, closing>>
  BY <1>0 DEF Execution!TakeStage, Execution!GoTo, Execution!CasStage, CasStage
<1>3. UNCHANGED <<readAt, batch, at, late, jobPlan, messagePlan>>
  BY DEF expansionVars, completionVars
<1>4. pc' \in [Workers -> Phase] /\ "PREPARE_TO_RUN" \in StageState \ {"BLOCKED"}
  BY <1>1, <1>2 DEF Phase, StageState
<1>5. /\ TablesOK' /\ Grows /\ RowsMade' /\ StagesHold' /\ Len(stage') = Len(stage)
      /\ \A t \in 1..Len(stage) : stage'[t].state # stage[t].state =>
            t = s /\ stage[t].state = "READY" /\ stage'[t].state = "PREPARE_TO_RUN"
  BY <1>1, <1>2, <1>4, StageWritten
<1>6. /\ ready' \in [Workers -> SUBSET ReadyRows] /\ mine' \in [Workers -> StartRows]
      /\ mine'[w].stage = s /\ \A v \in Workers \ {w} : mine'[v] = mine[v]
  <2>1. [stage |-> s, retriesLeft |-> tries, run |-> 0] \in StartRows
    BY <1>1 DEF StartRows
  <2> QED
    BY <1>1, <1>2, <2>1 DEF ExecutionShape
<1>7. Shape'
  BY <1>1, <1>2, <1>3, <1>5, <1>6, SameLengths DEF Shape, ExpansionShape, ExecutionShape, PlanShape
<1>8. WorkerHolds(w)'
  <2>1. stage'[s].state # "BLOCKED" /\ s # 0
    BY <1>1, <1>2, <1>5
  <2>2. pc'[w] = "insertRun"
    BY <1>1, <1>2
  <2>3. HandHolds(w)' /\ StartHolds(w)'
    BY <1>6, <2>1, <2>2 DEF HandHolds, StartHolds, Starting
  <2>4. CollectHolds(w)'
    BY <1>1, <1>2, <2>2 DEF WorkerHolds, CollectHolds
  <2> QED
    BY <2>3, <2>4 DEF WorkerHolds
<1>9. \A v \in Workers \ {w} :
        /\ pc'[v] = pc[v] /\ at'[v] = at[v] /\ mine'[v] = mine[v]
        /\ current'[v] = current[v] /\ closing'[v] = closing[v]
        /\ proc'[mine[v].run] = proc[mine[v].run]
  BY <1>1, <1>2, <1>3, <1>6
<1>10. BeatInv'
  BY <1>5, <1>7, <1>8, <1>9, StepKeepsInv
<1> QED
  BY <1>3, <1>5, <1>10 DEF NoneReleased

\* INSERT_RUN: a run more, which has no process yet.
LEMMA InsertRunKeepsInv ==
  ASSUME BeatInv, NEW w \in Workers, Execution!InsertRun(w),
         UNCHANGED expansionVars, UNCHANGED completionVars
  PROVE  BeatInv' /\ Grows /\ NoneReleased
<1>0. PICK s, n : s = mine[w].stage /\ n = Len(run) + 1
  OBVIOUS
<1>1. /\ Shape /\ TablesOK /\ ExecutionShape /\ pc \in [Workers -> Phase] /\ WorkerHolds(w)
      /\ Len(job) \in Nat /\ Len(stage) \in Nat /\ Len(run) \in Nat
      /\ StagesHold /\ RowsMade
  BY Rows DEF BeatInv, Shape, TablesOK
<1>2. /\ pc[w] = "insertRun"
      /\ run' = Append(run, [stage |-> s, worker |-> w, state |-> "PREPARE_TO_RUN"])
      /\ proc' = Append(proc, "none") /\ pc' = [pc EXCEPT ![w] = "start"]
      /\ mine' = [mine EXCEPT ![w] = [mine[w] EXCEPT !.run = Len(run')]]
      /\ UNCHANGED <<clock, message, job, stage, aborts, ready, current, closing>>
      /\ UNCHANGED <<readAt, batch, at, late, jobPlan, messagePlan>>
  BY <1>0 DEF Execution!InsertRun, Execution!GoTo, expansionVars, completionVars
<1>3. s \in 1..Len(stage) /\ stage[s].state # "BLOCKED" /\ mine[w] \in StartRows
  <2>1. mine[w] \in StartRows
    BY <1>1 DEF ExecutionShape
  <2>2. s # 0 /\ stage[s].state # "BLOCKED"
    BY <1>0, <1>1, <1>2 DEF WorkerHolds, StartHolds, Starting
  <2> QED
    BY <1>0, <1>1, <2>1, <2>2 DEF StartRows
<1>4. /\ run' \in Seq(RunRows) /\ Len(run') = n
      /\ run'[n].stage = s /\ run'[n].worker = w
      /\ \A r \in 1..Len(run) : run'[r] = run[r]
  <2> DEFINE row == [stage |-> s, worker |-> w, state |-> "PREPARE_TO_RUN"]
  <2>1. row \in RunRows /\ row.stage = s /\ row.worker = w
    BY <1>3 DEF RunRows, RunState
  <2>2. run' = Append(run, row) /\ run \in Seq(RunRows)
    BY <1>1, <1>2, RowTypes
  <2> HIDE DEF row
  <2>3. /\ run' \in Seq(RunRows) /\ Len(run') = n /\ run'[n] = row
        /\ \A r \in 1..Len(run) : run'[r] = run[r]
    BY <1>0, <1>1, <2>1, <2>2
  <2> QED
    BY <2>1, <2>3
<1>5. /\ proc' \in Seq(Execution!ProcState) /\ Len(proc') = n /\ proc'[n] = "none"
      /\ \A r \in 1..Len(run) : proc'[r] = proc[r]
  <2>1. proc \in Seq(Execution!ProcState) /\ Len(proc) = Len(run)
    BY <1>1 DEF ExecutionShape
  <2>2. "none" \in Execution!ProcState
    BY DEF Execution!ProcState
  <2> QED
    BY <1>0, <1>1, <1>2, <2>1, <2>2
<1>6. Grows
  BY <1>0, <1>1, <1>2, <1>4, <1>5 DEF Grows
<1>7. /\ mine' \in [Workers -> StartRows'] /\ mine'[w].stage = s /\ mine'[w].run = n
      /\ \A v \in Workers \ {w} : mine'[v] = mine[v]
  <2> DEFINE new == [mine[w] EXCEPT !.run = n]
  <2>1. mine \in [Workers -> StartRows']
    BY <1>0, <1>1, <1>2, <1>4, Wider
  <2>2. mine[w] \in StartRows' /\ n \in 0..Len(run')
    BY <1>0, <1>1, <1>4, <2>1
  <2>3. new \in StartRows' /\ new.stage = s /\ new.run = n
    BY <1>0, <2>2 DEF StartRows
  <2>4. mine' = [mine EXCEPT ![w] = new]
    BY <1>2, <1>4
  <2> HIDE DEF new
  <2> QED
    BY <2>1, <2>3, <2>4
<1>8. Shape'
  <2>1. /\ stage \in Seq(StageRows') /\ ready \in [Workers -> SUBSET ReadyRows']
        /\ current \in [Workers -> SUBSET CurrentRows']
        /\ closing \in [Workers -> ClosingRows'] /\ PlanShape'
    BY <1>0, <1>1, <1>2, <1>4, Wider
  <2>2. pc' \in [Workers -> Phase]
    BY <1>1, <1>2 DEF Phase
  <2>3. TablesOK'
    BY <1>1, <1>2, <1>4, <2>2 DEF TablesOK, RunRows
  <2>4. ExpansionShape'
    BY <1>1, <1>2 DEF Shape, ExpansionShape
  <2>5. ExecutionShape'
    BY <1>2, <1>4, <1>5, <1>7, <2>1 DEF ExecutionShape
  <2> QED
    BY <2>1, <2>3, <2>4, <2>5 DEF Shape
<1>9. RowsMade'
  BY <1>1, <1>2 DEF RowsMade, Size, Named, StageTemplates
<1>10. StagesHold'
  <2>1. \A t : Good(t) => Good(t)'
    BY <1>1, <1>6, <1>8, Stays DEF Shape
  <2>2. \A r \in 1..Len(run') : r = n \/ r \in 1..Len(run)
    BY <1>0, <1>1, <1>4
  <2>3. \A r \in 1..Len(run') : stage[run'[r].stage].state # "BLOCKED"
    BY <1>1, <1>3, <1>4, <2>2 DEF StagesHold
  <2> QED
    BY <1>1, <1>2, <2>1, <2>3 DEF StagesHold
<1>11. WorkerHolds(w)'
  <2>1. pc'[w] = "start" /\ n # 0
    BY <1>0, <1>1, <1>2
  <2>2. HandHolds(w)' /\ StartHolds(w)'
    BY <1>2, <1>3, <1>4, <1>5, <1>7, <2>1 DEF HandHolds, StartHolds, Starting
  <2>3. CollectHolds(w)'
    <3>1. \A row \in current[w] : row.run \in 1..Len(run)
      BY <1>1 DEF ExecutionShape, CurrentRows
    <3> QED
      BY <1>1, <1>2, <1>4, <2>1, <3>1 DEF WorkerHolds, CollectHolds
  <2> QED
    BY <2>2, <2>3 DEF WorkerHolds
<1>12. ASSUME NEW v \in Workers \ {w}
       PROVE  /\ pc'[v] = pc[v] /\ at'[v] = at[v] /\ mine'[v] = mine[v]
              /\ current'[v] = current[v] /\ closing'[v] = closing[v]
              /\ pc[v] = "start" => proc'[mine[v].run] = proc[mine[v].run]
  <2>1. mine[v] \in StartRows /\ WorkerHolds(v)
    BY <1>1 DEF BeatInv, ExecutionShape
  <2>2. pc[v] = "start" => mine[v].run \in 1..Len(run)
    BY <1>1, <2>1 DEF StartRows, WorkerHolds, StartHolds, Starting
  <2> QED
    BY <1>1, <1>2, <1>5, <1>7, <2>2
<1>13. BeatInv'
  BY <1>6, <1>8, <1>9, <1>10, <1>11, <1>12, StepKeepsInv
<1> QED
  BY <1>2, <1>6, <1>13 DEF NoneReleased

\* What a worker holds when it starts a run: the stage, the run and its types.
LEMMA InHand ==
  ASSUME BeatInv, NEW w \in Workers, pc[w] \in Starting \ {"insertRun"}
  PROVE  /\ mine[w].stage \in 1..Len(stage) /\ mine[w].run \in 1..Len(run)
         /\ mine[w].retriesLeft \in Nat
         /\ run[mine[w].run].stage = mine[w].stage /\ run[mine[w].run].worker = w
         /\ stage[mine[w].stage].state # "BLOCKED"
         /\ pc[w] = "start" => proc[mine[w].run] = "none"
<1>1. /\ mine[w] \in StartRows /\ StartHolds(w)
      /\ Len(stage) \in Nat /\ Len(run) \in Nat
  BY Rows DEF BeatInv, Shape, ExecutionShape, WorkerHolds
<1>2. mine[w].stage # 0 /\ mine[w].run # 0
  BY <1>1 DEF StartHolds
<1> QED
  BY <1>1, <1>2 DEF StartHolds, StartRows

\* The processes, and RunHelper.start: rows stay, a process goes on.
LEMMA ProcessWritten ==
  ASSUME BeatInv, NEW r \in 1..Len(run), NEW to \in Execution!ProcState, proc[r] # "ok",
         proc' = [proc EXCEPT ![r] = to], pc' \in [Workers -> Phase],
         UNCHANGED <<clock, message, job, stage, run, aborts>>,
         UNCHANGED <<ready, mine, current, closing>>,
         UNCHANGED expansionVars, UNCHANGED completionVars
  PROVE  /\ Shape' /\ Grows /\ RowsMade' /\ StagesHold' /\ NoneReleased
         /\ \A q \in 1..Len(run) : q # r => proc'[q] = proc[q]
<1>1. /\ Shape /\ TablesOK /\ ExecutionShape /\ RowsMade /\ StagesHold
      /\ Len(job) \in Nat /\ Len(stage) \in Nat /\ Len(run) \in Nat
      /\ UNCHANGED <<readAt, batch, at, late>> /\ UNCHANGED <<jobPlan, messagePlan>>
  BY Rows DEF BeatInv, Shape, expansionVars, completionVars
<1>2. /\ proc' \in Seq(Execution!ProcState) /\ Len(proc') = Len(proc)
      /\ \A q \in 1..Len(run) : q # r => proc'[q] = proc[q]
  <2>1. proc \in Seq(Execution!ProcState) /\ Len(proc) = Len(run)
    BY <1>1 DEF ExecutionShape
  <2> QED
    BY <2>1
<1>3. Grows
  BY <1>1, <1>2 DEF Grows
<1>4. Shape'
  <2>1. /\ clock' \in 0..MaxTime /\ aborts' \in 0..MaxAborts /\ ExpansionShape'
        /\ message' \in [Messages -> [state : MessageState \cup {"none"}, lock : Nat]]
    BY <1>1 DEF Shape, TablesOK, ExpansionShape
  <2>2. /\ ready' \in [Workers -> SUBSET ReadyRows] /\ mine' \in [Workers -> StartRows]
        /\ current' \in [Workers -> SUBSET CurrentRows] /\ closing' \in [Workers -> ClosingRows]
        /\ jobPlan' \in [Workers -> SUBSET JobPlans]
        /\ messagePlan' \in [Workers -> SUBSET MessagePlans]
    BY <1>1 DEF Shape, ExecutionShape, PlanShape
  <2> QED
    BY <1>1, <1>2, <2>1, <2>2, QuietShape
<1>5. RowsMade'
  BY <1>1 DEF RowsMade, Size, Named, StageTemplates
<1>6. StagesHold'
  <2>1. \A s : Good(s) => Good(s)'
    BY <1>1, <1>3, <1>4, Stays DEF Shape
  <2> QED
    BY <1>1, <2>1 DEF StagesHold
<1>7. NoneReleased
  BY <1>1 DEF NoneReleased
<1> QED
  BY <1>2, <1>3, <1>4, <1>5, <1>6, <1>7

\* INSERT_RUN adds a run of a stage that is out of BLOCKED, so its
\* dependencies were met.
LEMMA StartKeepsInv ==
  ASSUME BeatInv, NEW w \in Workers, Execution!Start(w),
         UNCHANGED expansionVars, UNCHANGED completionVars
  PROVE  BeatInv' /\ Grows /\ NoneReleased
<1>0. PICK r : r = mine[w].run
  OBVIOUS
<1>1. /\ pc[w] = "start" /\ pc' = [pc EXCEPT ![w] = "storeRun"]
      /\ proc' = [proc EXCEPT ![r] = "alive"]
      /\ UNCHANGED <<clock, message, job, stage, run, aborts>>
      /\ UNCHANGED <<ready, mine, current, closing>> /\ UNCHANGED at
  BY <1>0 DEF Execution!Start, Execution!GoTo, Execution!tables, expansionVars
<1>2. /\ r \in 1..Len(run) /\ proc[r] = "none" /\ run[r].worker = w
      /\ run[r].stage = mine[w].stage /\ mine[w].stage \in 1..Len(stage)
      /\ stage[mine[w].stage].state # "BLOCKED"
  BY <1>0, <1>1, InHand DEF Starting
<1>3. WorkerHolds(w) /\ pc \in [Workers -> Phase] /\ Len(run) \in Nat /\ Len(stage) \in Nat
  BY Rows DEF BeatInv, Shape, TablesOK
<1>4. /\ pc' \in [Workers -> Phase] /\ "alive" \in Execution!ProcState
      /\ pc'[w] = "storeRun" /\ \A v \in Workers \ {w} : pc'[v] = pc[v]
  BY <1>1, <1>3 DEF Phase, Execution!ProcState
<1>5. /\ Shape' /\ Grows /\ RowsMade' /\ StagesHold' /\ NoneReleased
      /\ \A q \in 1..Len(run) : q # r => proc'[q] = proc[q]
  BY <1>1, <1>2, <1>4, ProcessWritten
<1>6. WorkerHolds(w)'
  <2>1. HandHolds(w)' /\ StartHolds(w)'
    BY <1>0, <1>1, <1>2, <1>3, <1>4 DEF HandHolds, StartHolds, Starting
  <2>2. CollectHolds(w)'
    BY <1>1, <1>3, <1>4 DEF WorkerHolds, CollectHolds
  <2> QED
    BY <2>1, <2>2 DEF WorkerHolds
<1>7. ASSUME NEW v \in Workers \ {w}, pc[v] = "start"
      PROVE  proc'[mine[v].run] = proc[mine[v].run]
  <2>1. mine[v].run \in 1..Len(run) /\ run[mine[v].run].worker = v
    BY <1>7, InHand DEF Starting
  <2> QED
    BY <1>2, <1>5, <2>1
<1> QED
  BY <1>1, <1>4, <1>5, <1>6, <1>7, StepKeepsInv

\* The external processes: a return code stays what it is.
LEMMA ProcessesKeepInv ==
  ASSUME BeatInv, Processes
  PROVE  BeatInv' /\ Grows /\ NoneReleased
<1>1. PICK r \in 1..Len(run) : Execution!ProcessStep(r) \/ Execution!ProcessVanishes(r)
  BY DEF Processes
<1>2. PICK to \in Execution!ProcState : proc' = [proc EXCEPT ![r] = to]
  BY <1>1 DEF Execution!ProcessStep, Execution!ProcessEnds, Execution!ProcessWrites,
              Execution!ProcessVanishes, Execution!ProcState
<1>3. /\ proc[r] \in {"alive", "writing"}
      /\ UNCHANGED <<clock, message, job, stage, run, aborts>> /\ UNCHANGED pc
      /\ UNCHANGED <<ready, mine, current, closing>>
      /\ UNCHANGED at
      /\ UNCHANGED expansionVars /\ UNCHANGED completionVars
  BY <1>1 DEF Processes, Execution!ProcessStep, Execution!ProcessEnds, Execution!ProcessWrites,
              Execution!ProcessVanishes, Execution!tableVars, Execution!tables, expansionVars
<1>4. pc' \in [Workers -> Phase]
  BY <1>3 DEF BeatInv, Shape, TablesOK
<1>5. /\ Shape' /\ Grows /\ RowsMade' /\ StagesHold' /\ NoneReleased
      /\ \A q \in 1..Len(run) : q # r => proc'[q] = proc[q]
  BY <1>2, <1>3, <1>4, ProcessWritten
<1>6. ASSUME NEW v \in Workers, pc[v] = "start"
      PROVE  proc'[mine[v].run] = proc[mine[v].run]
  <2>1. mine[v].run \in 1..Len(run) /\ proc[mine[v].run] = "none"
    BY <1>6, InHand DEF Starting
  <2> QED
    BY <1>3, <1>5, <2>1
<1>7. \A v \in Workers : WorkerHolds(v)'
  BY <1>3, <1>5, <1>6, OthersKeep
<1> QED
  BY <1>5, <1>7 DEF BeatInv

\* UPDATE_RUN to RUNNING.
LEMMA StoreRunKeepsInv ==
  ASSUME BeatInv, NEW w \in Workers, Execution!StoreRun(w),
         UNCHANGED expansionVars, UNCHANGED completionVars
  PROVE  BeatInv' /\ Grows /\ NoneReleased
<1>0. PICK r : r = mine[w].run
  OBVIOUS
<1>1. /\ pc[w] = "storeRun" /\ pc' = [pc EXCEPT ![w] = "storeStage"]
      /\ run' = [run EXCEPT ![r].state = "RUNNING"]
      /\ UNCHANGED <<clock, message, job, stage, aborts, proc>>
      /\ UNCHANGED <<ready, mine, current, closing>>
      /\ UNCHANGED <<readAt, batch, at, late, jobPlan, messagePlan>>
  BY <1>0 DEF Execution!StoreRun, Execution!GoTo, Execution!executionVars, expansionVars,
              completionVars
<1>2. /\ r \in 1..Len(run) /\ run[r].worker = w
      /\ run[r].stage = mine[w].stage /\ mine[w].stage \in 1..Len(stage)
      /\ stage[mine[w].stage].state # "BLOCKED"
  BY <1>0, <1>1, InHand DEF Starting
<1>3. /\ Shape /\ WorkerHolds(w) /\ pc \in [Workers -> Phase]
      /\ Len(run) \in Nat /\ Len(stage) \in Nat
  BY Rows DEF BeatInv, Shape, TablesOK
<1>4. /\ pc' \in [Workers -> Phase] /\ "RUNNING" \in RunState
      /\ pc'[w] = "storeStage" /\ \A v \in Workers \ {w} : pc'[v] = pc[v]
  BY <1>1, <1>3 DEF Phase, RunState
<1>5. /\ TablesOK' /\ Grows /\ RowsMade' /\ StagesHold' /\ Len(run') = Len(run)
      /\ \A q \in 1..Len(run) : run'[q].stage = run[q].stage /\ run'[q].worker = run[q].worker
  BY <1>1, <1>2, <1>4, RunWritten
<1>6. Shape'
  BY <1>1, <1>3, <1>5, SameLengths DEF Shape, ExpansionShape, ExecutionShape, PlanShape
<1>7. WorkerHolds(w)'
  <2>1. HandHolds(w)' /\ StartHolds(w)'
    BY <1>0, <1>1, <1>2, <1>3, <1>4, <1>5 DEF HandHolds, StartHolds, Starting
  <2>2. CollectHolds(w)'
    <3>1. \A row \in current[w] : row.run \in 1..Len(run)
      BY <1>3 DEF Shape, ExecutionShape, CurrentRows
    <3> QED
      BY <1>1, <1>3, <1>4, <1>5, <3>1 DEF WorkerHolds, CollectHolds
  <2> QED
    BY <2>1, <2>2 DEF WorkerHolds
<1>8. BeatInv'
  <2>1. \A v \in Workers \ {w} :
          /\ pc'[v] = pc[v] /\ at'[v] = at[v] /\ mine'[v] = mine[v]
          /\ current'[v] = current[v] /\ closing'[v] = closing[v]
          /\ proc'[mine[v].run] = proc[mine[v].run]
    BY <1>1, <1>4
  <2> QED
    BY <1>5, <1>6, <1>7, <2>1, StepKeepsInv
<1> QED
  BY <1>1, <1>5, <1>8 DEF NoneReleased

\* updateStage from PREPARE_TO_RUN to RUNNING.
LEMMA StoreStageKeepsInv ==
  ASSUME BeatInv, NEW w \in Workers, Execution!StoreStage(w),
         UNCHANGED expansionVars, UNCHANGED completionVars
  PROVE  BeatInv' /\ Grows /\ NoneReleased
<1>0. PICK s, tries : s = mine[w].stage /\ tries = mine[w].retriesLeft
  OBVIOUS
<1>1. /\ pc[w] = "storeStage" /\ pc' = [pc EXCEPT ![w] = "current"]
      /\ CasStage(s, "PREPARE_TO_RUN", "RUNNING", tries)
      /\ mine' = [mine EXCEPT ![w] = Execution!NoStage]
      /\ UNCHANGED <<clock, message, job, run, aborts, proc>>
      /\ UNCHANGED <<ready, current, closing>>
      /\ UNCHANGED <<readAt, batch, at, late, jobPlan, messagePlan>>
  BY <1>0 DEF Execution!StoreStage, Execution!GoTo, Execution!CasStage, CasStage,
              expansionVars, completionVars
<1>2. s \in 1..Len(stage) /\ tries \in Nat
  BY <1>0, <1>1, InHand DEF Starting
<1>3. /\ Shape /\ WorkerHolds(w) /\ pc \in [Workers -> Phase]
      /\ Len(run) \in Nat /\ Len(stage) \in Nat
  BY Rows DEF BeatInv, Shape, TablesOK
<1>4. /\ pc' \in [Workers -> Phase] /\ "RUNNING" \in StageState \ {"BLOCKED"}
      /\ pc'[w] = "current" /\ \A v \in Workers \ {w} : pc'[v] = pc[v]
  BY <1>1, <1>3 DEF Phase, StageState
<1>5. /\ TablesOK' /\ Grows /\ RowsMade' /\ StagesHold' /\ Len(stage') = Len(stage)
      /\ \A t \in 1..Len(stage) : stage'[t].state # stage[t].state =>
            t = s /\ stage[t].state = "PREPARE_TO_RUN" /\ stage'[t].state = "RUNNING"
  BY <1>1, <1>2, <1>4, StageWritten
<1>6. mine' \in [Workers -> StartRows] /\ \A v \in Workers \ {w} : mine'[v] = mine[v]
  <2>1. Execution!NoStage \in StartRows
    BY <1>3 DEF Execution!NoStage, StartRows
  <2> QED
    BY <1>1, <1>3, <2>1 DEF Shape, ExecutionShape
<1>7. Shape'
  BY <1>1, <1>3, <1>5, <1>6, SameLengths DEF Shape, ExpansionShape, ExecutionShape, PlanShape
<1>8. WorkerHolds(w)'
  BY <1>1, <1>3, <1>4 DEF WorkerHolds, HandHolds, StartHolds, Starting, CollectHolds
<1>9. BeatInv'
  <2>1. \A v \in Workers \ {w} :
          /\ pc'[v] = pc[v] /\ at'[v] = at[v] /\ mine'[v] = mine[v]
          /\ current'[v] = current[v] /\ closing'[v] = closing[v]
          /\ proc'[mine[v].run] = proc[mine[v].run]
    BY <1>1, <1>4, <1>6
  <2> QED
    BY <1>5, <1>7, <1>8, <2>1, StepKeepsInv
<1> QED
  BY <1>1, <1>5, <1>9 DEF NoneReleased

\* The verdict of rc.log; a stage that is to succeed has a run that did.
LEMMA StoreResultKeepsInv ==
  ASSUME BeatInv, NEW w \in Workers, NEW row \in current[w], Execution!StoreResult(w, row),
         UNCHANGED expansionVars, UNCHANGED completionVars
  PROVE  BeatInv' /\ Grows /\ NoneReleased
<1>0. PICK c, left : /\ c = [stage |-> row.stage, retriesLeft |-> row.retriesLeft,
                             state |-> row.state, newState |-> Execution!NewState(row)]
                     /\ left = current[w] \ {row}
  OBVIOUS
<1>1. /\ pc[w] = "collect" /\ pc' = [pc EXCEPT ![w] = "closeStage"]
      /\ run' = [run EXCEPT ![row.run].state = Execution!Verdict(row.run)]
      /\ closing' = [closing EXCEPT ![w] = c] /\ current' = [current EXCEPT ![w] = left]
      /\ UNCHANGED <<clock, message, job, stage, aborts, proc>>
      /\ UNCHANGED <<ready, mine>>
      /\ UNCHANGED <<readAt, batch, at, late, jobPlan, messagePlan>>
  BY <1>0 DEF Execution!StoreResult, Execution!GoTo, expansionVars, completionVars
<1>2. /\ Shape /\ ExecutionShape /\ WorkerHolds(w) /\ pc \in [Workers -> Phase] /\ StagesHold
      /\ Len(run) \in Nat /\ Len(stage) \in Nat
  BY Rows DEF BeatInv, Shape, TablesOK
<1>3. /\ row \in CurrentRows /\ run[row.run].stage = row.stage /\ row.state # "BLOCKED"
  BY <1>2 DEF ExecutionShape, WorkerHolds, CollectHolds
<1>4. /\ row.run \in 1..Len(run) /\ row.stage \in 1..Len(stage) /\ row.state \in StageState
      /\ row.retriesLeft \in Nat
  BY <1>3 DEF CurrentRows
<1>5. /\ Execution!Verdict(row.run) \in RunState
      /\ Execution!NewState(row) \in {"SUCCESS", "READY", "FAILURE"}
      /\ Execution!NewState(row) = "READY" => row.retriesLeft # 0
      /\ Execution!NewState(row) = "SUCCESS" => proc[row.run] = "ok"
  BY <1>4 DEF Execution!Verdict, Execution!NewState, RunState
<1>6. /\ c.stage = row.stage /\ c.state = row.state /\ c.retriesLeft = row.retriesLeft
      /\ c.newState = Execution!NewState(row) /\ c \in ClosingRows
  <2>1. Execution!NewState(row) \in StageState
    BY <1>5 DEF StageState
  <2> QED
    BY <1>0, <1>2, <1>4, <2>1 DEF ClosingRows
<1>7. /\ pc' \in [Workers -> Phase]
      /\ pc'[w] = "closeStage" /\ \A v \in Workers \ {w} : pc'[v] = pc[v]
  BY <1>1, <1>2 DEF Phase
<1>8. /\ TablesOK' /\ Grows /\ RowsMade' /\ StagesHold' /\ Len(run') = Len(run)
      /\ \A q \in 1..Len(run) : run'[q].stage = run[q].stage /\ run'[q].worker = run[q].worker
  BY <1>1, <1>4, <1>5, <1>7, RunWritten
<1>9. /\ closing' \in [Workers -> ClosingRows] /\ closing'[w] = c
      /\ current' \in [Workers -> SUBSET CurrentRows] /\ current'[w] \subseteq current[w]
      /\ \A v \in Workers \ {w} : closing'[v] = closing[v] /\ current'[v] = current[v]
  BY <1>0, <1>1, <1>2, <1>6 DEF ExecutionShape
<1>10. Shape'
  BY <1>1, <1>2, <1>8, <1>9, SameLengths DEF Shape, ExpansionShape, ExecutionShape, PlanShape
<1>11. WorkerHolds(w)'
  <2>1. HandHolds(w)' /\ StartHolds(w)'
    BY <1>7 DEF HandHolds, StartHolds, Starting
  <2>2. \A other \in current'[w] :
          run'[other.run].stage = other.stage /\ other.state # "BLOCKED"
    <3>1. \A other \in current[w] : /\ other.run \in 1..Len(run) /\ other.state # "BLOCKED"
                                    /\ run[other.run].stage = other.stage
      BY <1>2 DEF ExecutionShape, CurrentRows, WorkerHolds, CollectHolds
    <3> QED
      BY <1>8, <1>9, <3>1
  <2>3. stage[row.stage].state # "BLOCKED" /\ row.stage # 0
    BY <1>2, <1>3, <1>4 DEF StagesHold
  <2>4. proc[row.run] = "ok" => Good(row.stage)'
    BY <1>1, <1>3, <1>4, <1>8 DEF Good
  <2>5. CollectHolds(w)'
    BY <1>1, <1>3, <1>5, <1>6, <1>9, <2>2, <2>3, <2>4 DEF CollectHolds
  <2> QED
    BY <2>1, <2>5 DEF WorkerHolds
<1>12. BeatInv'
  <2>1. \A v \in Workers \ {w} :
          /\ pc'[v] = pc[v] /\ at'[v] = at[v] /\ mine'[v] = mine[v]
          /\ current'[v] = current[v] /\ closing'[v] = closing[v]
          /\ proc'[mine[v].run] = proc[mine[v].run]
    BY <1>1, <1>7, <1>9
  <2> QED
    BY <1>8, <1>10, <1>11, <2>1, StepKeepsInv
<1> QED
  BY <1>1, <1>8, <1>12 DEF NoneReleased

\* updateStage to SUCCESS, READY or FAILURE, from a state that is not BLOCKED.
LEMMA CloseStageKeepsInv ==
  ASSUME BeatInv, NEW w \in Workers, Execution!CloseStage(w),
         UNCHANGED expansionVars, UNCHANGED completionVars
  PROVE  BeatInv' /\ Grows /\ NoneReleased
<1>0. PICK s, from, to, tries :
        /\ s = closing[w].stage /\ from = closing[w].state /\ to = closing[w].newState
        /\ tries = closing[w].retriesLeft
  OBVIOUS
<1>1. /\ pc[w] = "closeStage" /\ pc' = [pc EXCEPT ![w] = "collect"]
      /\ CasStage(s, from, to, tries)
      /\ closing' = [closing EXCEPT ![w] = Execution!NotClosing]
      /\ UNCHANGED <<clock, message, job, run, aborts, proc>>
      /\ UNCHANGED <<ready, mine, current>>
      /\ UNCHANGED <<readAt, batch, at, late, jobPlan, messagePlan>>
  BY <1>0 DEF Execution!CloseStage, Execution!GoTo, Execution!CasStage, CasStage,
              expansionVars, completionVars
<1>2. /\ Shape /\ WorkerHolds(w) /\ pc \in [Workers -> Phase] /\ closing[w] \in ClosingRows
      /\ Len(run) \in Nat /\ Len(stage) \in Nat
  BY Rows DEF BeatInv, Shape, TablesOK, ExecutionShape
<1>3. /\ s \in 1..Len(stage) /\ tries \in Nat /\ from # "BLOCKED"
      /\ to \in {"SUCCESS", "READY", "FAILURE"}
      /\ to = "READY" => tries # 0
      /\ to = "SUCCESS" => Good(s)
  <2>1. /\ s # 0 /\ from # "BLOCKED" /\ to \in {"SUCCESS", "READY", "FAILURE"}
        /\ to = "READY" => tries # 0
        /\ to = "SUCCESS" => Good(s)
    BY <1>0, <1>1, <1>2 DEF WorkerHolds, CollectHolds
  <2> QED
    BY <1>0, <1>2, <2>1 DEF ClosingRows
<1>4. /\ pc' \in [Workers -> Phase] /\ to \in StageState \ {"BLOCKED"}
      /\ pc'[w] = "collect" /\ \A v \in Workers \ {w} : pc'[v] = pc[v]
  BY <1>1, <1>2, <1>3 DEF Phase, StageState
<1>5. /\ TablesOK' /\ Grows /\ RowsMade' /\ StagesHold' /\ Len(stage') = Len(stage)
      /\ \A t \in 1..Len(stage) : stage'[t].state # stage[t].state =>
            t = s /\ stage[t].state = from /\ stage'[t].state = to
  BY <1>1, <1>3, <1>4, StageWritten
<1>6. closing' \in [Workers -> ClosingRows] /\ \A v \in Workers \ {w} : closing'[v] = closing[v]
  <2>1. Execution!NotClosing \in ClosingRows
    BY <1>2 DEF Execution!NotClosing, ClosingRows
  <2> QED
    BY <1>1, <1>2, <2>1 DEF Shape, ExecutionShape
<1>7. Shape'
  BY <1>1, <1>2, <1>5, <1>6, SameLengths DEF Shape, ExpansionShape, ExecutionShape, PlanShape
<1>8. WorkerHolds(w)'
  BY <1>1, <1>2, <1>4 DEF WorkerHolds, HandHolds, StartHolds, Starting, CollectHolds
<1>9. BeatInv'
  <2>1. \A v \in Workers \ {w} :
          /\ pc'[v] = pc[v] /\ at'[v] = at[v] /\ mine'[v] = mine[v]
          /\ current'[v] = current[v] /\ closing'[v] = closing[v]
          /\ proc'[mine[v].run] = proc[mine[v].run]
    BY <1>1, <1>4, <1>6
  <2> QED
    BY <1>5, <1>7, <1>8, <2>1, StepKeepsInv
<1>10. NoneReleased
  BY <1>1, <1>3, <1>5 DEF NoneReleased
<1> QED
  BY <1>5, <1>9, <1>10
------------------------------------------------------------------------------
(* Completion of jobs and messages.                                        *)

Planning == {"jobs", "loadMessages", "messages", "idle"}

\* This part of a beat has no stage and no job of its own in hand.
LEMMA CompletionStepKeepsInv ==
  ASSUME BeatInv, TablesOK', Grows, RowsMade', StagesHold', NEW w \in Workers,
         NEW phase \in Planning, pc' = [pc EXCEPT ![w] = phase],
         UNCHANGED expansionVars, UNCHANGED executionVars,
         Len(job') = Len(job), Len(stage') = Len(stage), Len(run') = Len(run),
         jobPlan' \in [Workers -> SUBSET JobPlans],
         messagePlan' \in [Workers -> SUBSET MessagePlans]
  PROVE  BeatInv'
<1>1. /\ Shape /\ pc \in [Workers -> Phase] /\ WorkerHolds(w)
      /\ Len(run) \in Nat /\ Len(stage) \in Nat
  BY Rows DEF BeatInv, Shape, TablesOK
<1>2. /\ pc'[w] = phase /\ \A v \in Workers \ {w} : pc'[v] = pc[v]
      /\ UNCHANGED <<readAt, batch, at, late>>
      /\ UNCHANGED <<proc, ready, mine, current, closing>>
  BY <1>1 DEF expansionVars, executionVars
<1>3. Shape'
  <2>1. ExpansionShape' /\ proc' \in Seq(Execution!ProcState) /\ Len(proc') = Len(proc)
    BY <1>1, <1>2 DEF Shape, ExpansionShape, ExecutionShape
  <2>2. /\ ready' \in [Workers -> SUBSET ReadyRows] /\ mine' \in [Workers -> StartRows]
        /\ current' \in [Workers -> SUBSET CurrentRows] /\ closing' \in [Workers -> ClosingRows]
    BY <1>1, <1>2 DEF Shape, ExecutionShape
  <2> QED
    BY <1>1, <2>1, <2>2, SameLengths
<1>4. WorkerHolds(w)'
  <2>1. HandHolds(w)' /\ StartHolds(w)'
    BY <1>2 DEF HandHolds, StartHolds, Starting, Planning
  <2>2. CollectHolds(w)'
    <3>1. \A row \in current[w] : row.run \in 1..Len(run)
      BY <1>1 DEF Shape, ExecutionShape, CurrentRows
    <3> QED
      BY <1>1, <1>2, <3>1 DEF WorkerHolds, CollectHolds, Planning, Grows
  <2> QED
    BY <2>1, <2>2 DEF WorkerHolds
<1> QED
  BY <1>2, <1>3, <1>4, StepKeepsInv

\* The steps that write no row of a job or a stage.
LEMMA CompletionQuiet ==
  ASSUME BeatInv, NEW w \in Workers, NEW phase \in Planning, pc' = [pc EXCEPT ![w] = phase],
         UNCHANGED expansionVars, UNCHANGED executionVars,
         UNCHANGED <<clock, job, stage, run>>, aborts' \in 0..MaxAborts,
         message' \in [Messages -> [state : MessageState \cup {"none"}, lock : Nat]],
         jobPlan' \in [Workers -> SUBSET JobPlans],
         messagePlan' \in [Workers -> SUBSET MessagePlans]
  PROVE  BeatInv' /\ Grows
<1>1. TablesOK /\ RowsMade /\ StagesHold /\ UNCHANGED proc
  BY DEF BeatInv, Shape, executionVars
<1>2. TablesOK'
  BY <1>1 DEF TablesOK, Phase, Planning
<1>3. Grows
  BY <1>1, Rows DEF Grows
<1>4. RowsMade' /\ StagesHold'
  BY <1>1, SameRows
<1>5. BeatInv'
  BY <1>2, <1>3, <1>4, CompletionStepKeepsInv
<1> QED
  BY <1>3, <1>5

\* What a plan for a job is made on.
Founded(p) ==
    /\ p.job \in 1..Len(job) /\ Closing!StagesOf(p.job) # {}
    /\ \A s \in p.unblock : s \in 1..Len(stage) /\ Closing!DependenciesMet(s)
    /\ p.verdict = "SUCCESS" => Closing!AllStagesSucceeded(p.job)

\* updateInProcessJobs decides on the rows it reads; each plan it makes is
\* founded on them: the stages it lets go have their dependencies met, and a
\* SUCCESS is of a job all of whose rows succeeded.
LEMMA LoadJobsKeepsInv ==
  ASSUME BeatInv, NEW w \in Workers, Closing!LoadJobs(w),
         UNCHANGED expansionVars, UNCHANGED executionVars
  PROVE  /\ BeatInv' /\ Grows /\ UNCHANGED <<message, job, stage, messagePlan>>
         /\ \A p \in jobPlan'[w] : Founded(p)
         /\ \A v \in Workers \ {w} : jobPlan'[v] = jobPlan[v]
<1>1. PICK visit \in [Closing!OpenJobs -> UNION {Closing!Visits(j) : j \in Closing!OpenJobs}] :
        /\ \A j \in Closing!OpenJobs : visit[j] \in Closing!Visits(j)
        /\ jobPlan' = [jobPlan EXCEPT ![w] =
              {[job |-> j, unblock |-> visit[j].unblock, broken |-> visit[j].broken,
                verdict |-> Closing!JobVerdict(j)] : j \in Closing!OpenJobs}]
  BY DEF Closing!LoadJobs
<1>2. /\ UNCHANGED <<clock, message, job, stage, run, aborts, messagePlan>>
      /\ pc' = [pc EXCEPT ![w] = "jobs"]
  BY DEF Closing!LoadJobs, Closing!tables, Closing!GoTo
<1>3. /\ jobPlan \in [Workers -> SUBSET JobPlans]
      /\ messagePlan \in [Workers -> SUBSET MessagePlans] /\ aborts \in 0..MaxAborts
      /\ message \in [Messages -> [state : MessageState \cup {"none"}, lock : Nat]]
  BY DEF BeatInv, Shape, PlanShape, TablesOK
<1>4. ASSUME NEW j \in Closing!OpenJobs
      PROVE  /\ j \in 1..Len(job) /\ Closing!StagesOf(j) # {}
             /\ visit[j].unblock \subseteq Closing!Unblockable(j)
             /\ visit[j].broken \in BOOLEAN
             /\ Closing!JobVerdict(j) \in JobState
             /\ Closing!JobVerdict(j) = "SUCCESS" => Closing!AllStagesSucceeded(j)
  <2>1. j \in 1..Len(job) /\ Closing!StagesOf(j) # {}
    BY DEF Closing!OpenJobs
  <2>2. Closing!Broken(j) \in BOOLEAN
    BY DEF Closing!Broken
  <2>3. visit[j].unblock \subseteq Closing!Unblockable(j) /\ visit[j].broken \in BOOLEAN
    <3>1. CASE Closing!StageFailed(j)
      <4>1. visit[j] \in [unblock : SUBSET Closing!Unblockable(j),
                          broken : {FALSE, Closing!Broken(j)}]
        BY <1>1, <3>1 DEF Closing!Visits
      <4>2. /\ visit[j].unblock \in SUBSET Closing!Unblockable(j)
            /\ visit[j].broken \in {FALSE, Closing!Broken(j)}
        BY <4>1
      <4> QED
        BY <2>2, <4>2
    <3>2. CASE ~Closing!StageFailed(j)
      <4>1. visit[j] = [unblock |-> Closing!Unblockable(j), broken |-> Closing!Broken(j)]
        BY <1>1, <3>2 DEF Closing!Visits
      <4> QED
        BY <2>2, <4>1
    <3> QED
      BY <3>1, <3>2
  <2> QED
    BY <2>1, <2>3 DEF Closing!JobVerdict, JobState
<1>5. \A j : Closing!Unblockable(j) \subseteq 1..Len(stage)
             /\ \A s \in Closing!Unblockable(j) : Closing!DependenciesMet(s)
  BY DEF Closing!Unblockable, Closing!StagesOf
<1>6. ASSUME NEW p \in jobPlan'[w]
      PROVE  p \in JobPlans /\ Founded(p)
  <2>1. PICK j \in Closing!OpenJobs :
          p = [job |-> j, unblock |-> visit[j].unblock, broken |-> visit[j].broken,
               verdict |-> Closing!JobVerdict(j)]
    BY <1>1, <1>3
  <2>2. p \in JobPlans
    BY <1>4, <1>5, <2>1 DEF JobPlans
  <2>3. Founded(p)
    BY <1>4, <1>5, <2>1 DEF Founded
  <2> QED
    BY <2>2, <2>3
<1>7. \A v \in Workers \ {w} : jobPlan'[v] = jobPlan[v]
  BY <1>1, <1>3
<1>8. jobPlan' \in [Workers -> SUBSET JobPlans]
  BY <1>1, <1>3, <1>6, <1>7
<1>9. BeatInv' /\ Grows
  BY <1>2, <1>3, <1>8, CompletionQuiet DEF Planning
<1> QED
  BY <1>2, <1>6, <1>7, <1>9

\* updateStage from BLOCKED to READY.
LEMMA UnblockKeepsInv ==
  ASSUME BeatInv, NEW w \in Workers, NEW p \in jobPlan[w], NEW s \in p.unblock,
         Closing!Unblock(w, p, s), UNCHANGED expansionVars, UNCHANGED executionVars
  PROVE  /\ BeatInv' /\ Grows /\ UNCHANGED <<message, job, messagePlan>>
         /\ Len(stage') = Len(stage)
         /\ \A t \in 1..Len(stage) : stage'[t].state # stage[t].state => t = s
         /\ \A v \in Workers \ {w} : jobPlan'[v] = jobPlan[v]
         /\ \A q \in jobPlan'[w] : \E o \in jobPlan[w] :
               q.job = o.job /\ q.unblock \subseteq o.unblock /\ q.verdict = o.verdict
<1>0. PICK tries, q : tries = stage[s].retriesLeft /\ q = [p EXCEPT !.unblock = p.unblock \ {s}]
  OBVIOUS
<1>1. /\ pc[w] = "jobs" /\ UNCHANGED <<clock, message, job, run, pc, aborts, messagePlan>>
      /\ CasStage(s, "BLOCKED", "READY", tries)
      /\ jobPlan' = [jobPlan EXCEPT ![w] = (jobPlan[w] \ {p}) \cup {q}]
  BY <1>0 DEF Closing!Unblock, Closing!CasStage, CasStage
<1>2. /\ jobPlan \in [Workers -> SUBSET JobPlans]
      /\ messagePlan \in [Workers -> SUBSET MessagePlans]
      /\ pc \in [Workers -> Phase] /\ UNCHANGED proc
      /\ TablesOK /\ StagesHold /\ Len(run) \in Nat /\ Len(stage) \in Nat
  BY Rows DEF BeatInv, Shape, PlanShape, TablesOK, executionVars
<1>3. p \in JobPlans /\ s \in 1..Len(stage)
  BY <1>2 DEF JobPlans
<1>4. /\ q \in JobPlans /\ q.job = p.job /\ q.verdict = p.verdict
      /\ q.unblock \subseteq p.unblock
  BY <1>0, <1>3 DEF JobPlans
<1>5. tries \in Nat /\ "READY" \in StageState \ {"BLOCKED"} /\ pc' \in [Workers -> Phase]
  BY <1>0, <1>1, <1>2, <1>3, Rows DEF StageState
<1>6. /\ jobPlan' \in [Workers -> SUBSET JobPlans]
      /\ jobPlan'[w] = (jobPlan[w] \ {p}) \cup {q}
      /\ \A v \in Workers \ {w} : jobPlan'[v] = jobPlan[v]
  BY <1>1, <1>2, <1>4
<1>7. pc' = [pc EXCEPT ![w] = "jobs"] /\ "jobs" \in Planning
  BY <1>1, <1>2 DEF Planning
<1>8. /\ BeatInv' /\ Grows /\ Len(stage') = Len(stage)
      /\ \A t \in 1..Len(stage) : stage'[t].state # stage[t].state => t = s
  <2>1. CASE stage[s].state = "BLOCKED"
    <3>1. tries # 0
      BY <1>0, <1>2, <1>3, <2>1 DEF StagesHold
    <3>2. /\ TablesOK' /\ Grows /\ RowsMade' /\ StagesHold' /\ Len(stage') = Len(stage)
          /\ \A t \in 1..Len(stage) : stage'[t].state # stage[t].state => t = s
      BY <1>1, <1>2, <1>3, <1>5, <3>1, StageWritten
    <3>3. BeatInv'
      BY <1>1, <1>2, <1>6, <1>7, <3>2, CompletionStepKeepsInv
    <3> QED
      BY <3>2, <3>3
  <2>2. CASE stage[s].state # "BLOCKED"
    <3>1. UNCHANGED <<clock, job, stage, run>>
      BY <1>1, <2>2 DEF CasStage
    <3>2. /\ aborts' \in 0..MaxAborts
          /\ message' \in [Messages -> [state : MessageState \cup {"none"}, lock : Nat]]
          /\ messagePlan' \in [Workers -> SUBSET MessagePlans]
      BY <1>1, <1>2 DEF TablesOK
    <3>3. BeatInv' /\ Grows
      BY <1>6, <1>7, <3>1, <3>2, CompletionQuiet
    <3> QED
      BY <3>1, <3>3
  <2> QED
    BY <2>1, <2>2
<1>9. \A o \in jobPlan'[w] : \E b \in jobPlan[w] :
        o.job = b.job /\ o.unblock \subseteq b.unblock /\ o.verdict = b.verdict
  BY <1>4, <1>6
<1> QED
  BY <1>1, <1>6, <1>8, <1>9

\* UPDATE_JOB_STATUS writes the state of a job and nothing a stage depends on.
LEMMA StoreJobKeepsInv ==
  ASSUME BeatInv, NEW w \in Workers, NEW p \in jobPlan[w], Closing!StoreJob(w, p),
         UNCHANGED expansionVars, UNCHANGED executionVars
  PROVE  /\ BeatInv' /\ Grows /\ NoneReleased
         /\ UNCHANGED <<message, stage, run, messagePlan>> /\ Len(job') = Len(job)
         /\ \A j \in 1..Len(job) : job'[j].state # job[j].state =>
               j = p.job /\ job'[j].state = p.verdict
<1>0. PICK j, left : j = p.job /\ left = jobPlan[w] \ {p}
  OBVIOUS
<1>1. /\ pc[w] = "jobs" /\ UNCHANGED <<clock, message, stage, run, pc, aborts, messagePlan>>
      /\ jobPlan' = [jobPlan EXCEPT ![w] = left]
      /\ job' = IF p.verdict = "IN_PROCESS" THEN job ELSE [job EXCEPT ![j].state = p.verdict]
  BY <1>0 DEF Closing!StoreJob
<1>2. /\ jobPlan \in [Workers -> SUBSET JobPlans] /\ pc \in [Workers -> Phase]
      /\ messagePlan \in [Workers -> SUBSET MessagePlans] /\ UNCHANGED proc
      /\ TablesOK /\ StagesHold /\ RowsMade
      /\ Len(job) \in Nat /\ Len(stage) \in Nat /\ Len(run) \in Nat
  BY Rows DEF BeatInv, Shape, PlanShape, TablesOK, executionVars
<1>3. j \in 1..Len(job) /\ p.verdict \in JobState
  BY <1>0, <1>2 DEF JobPlans
<1>4. /\ job' \in Seq(JobRows) /\ Len(job') = Len(job)
      /\ \A i \in 1..Len(job) : /\ job'[i].msg = job[i].msg /\ job'[i].tmpl = job[i].tmpl
                                /\ job'[i].state # job[i].state =>
                                      i = j /\ job'[i].state = p.verdict
  <2>1. job \in Seq(JobRows) /\ job[j] \in JobRows
    BY <1>2, <1>3, RowTypes
  <2> DEFINE row == [job[j] EXCEPT !.state = p.verdict]
  <2>2. /\ row \in JobRows /\ row.msg = job[j].msg /\ row.tmpl = job[j].tmpl
        /\ row.state = p.verdict
    BY <1>3, <2>1 DEF JobRows
  <2>3. job' = job \/ job' = [job EXCEPT ![j] = row]
    BY <1>1
  <2> HIDE DEF row
  <2>4. CASE job' = [job EXCEPT ![j] = row]
    <3>1. row \in JobRows
      BY <2>2
    <3>2. job' \in Seq(JobRows) /\ Len(job') = Len(job)
      BY <1>3, <2>1, <2>4, <3>1
    <3>3. job'[j] = row /\ \A i \in 1..Len(job) : i # j => job'[i] = job[i]
      BY <1>3, <2>1, <2>4
    <3> QED
      BY <2>2, <3>2, <3>3
  <2> QED
    BY <2>1, <2>3, <2>4
<1>5. TablesOK'
  <2>1. StageRows' = StageRows
    BY <1>4 DEF StageRows
  <2> QED
    BY <1>1, <1>2, <1>4, <2>1 DEF TablesOK, JobRows, StageRows
<1>6. Grows
  BY <1>1, <1>2, <1>4 DEF Grows
<1>7. RowsMade'
  <2>1. \A i \in 1..Len(job) : Size(i)' = Size(i)
    BY <1>2, <1>5, <1>6, Stays
  <2>2. \A i, k : Named(i, k) => Named(i, k)'
    BY <1>2, <1>5, <1>6, Stays
  <2> QED
    BY <1>1, <1>2, <1>4, <2>1, <2>2 DEF RowsMade
<1>8. StagesHold'
  BY <1>1, <1>2 DEF StagesHold, Good
<1>9. /\ jobPlan' \in [Workers -> SUBSET JobPlans]
      /\ \A v \in Workers : jobPlan'[v] \subseteq jobPlan[v]
      /\ messagePlan' \in [Workers -> SUBSET MessagePlans]
  BY <1>0, <1>1, <1>2
<1>10. pc' = [pc EXCEPT ![w] = "jobs"] /\ "jobs" \in Planning
  BY <1>1, <1>2 DEF Planning
<1>11. BeatInv'
  BY <1>1, <1>4, <1>5, <1>6, <1>7, <1>8, <1>9, <1>10, CompletionStepKeepsInv
<1> QED
  BY <1>0, <1>1, <1>4, <1>6, <1>9, <1>11 DEF NoneReleased

\* The messages, and the ways this part of a beat ends.
LEMMA MessagesKeepInv ==
  ASSUME BeatInv, NEW w \in Workers, UNCHANGED expansionVars, UNCHANGED executionVars,
         \/ \E p \in jobPlan[w] : Closing!JobBroken(w, p)
         \/ Closing!EndJobs(w) \/ Closing!LoadMessages(w) \/ Closing!LoadMessagesThrows(w)
         \/ \E p \in messagePlan[w] : Closing!StoreMessage(w, p)
         \/ Closing!EndMessages(w) \/ Closing!CompletionAborts(w)
  PROVE  BeatInv' /\ Grows /\ NoneReleased /\ UNCHANGED <<job, stage, run, proc>>
<1> USE DEF Closing!GoTo, Closing!tables, Closing!ForgetCompletion, Closing!completionVars
<1>1. /\ jobPlan \in [Workers -> SUBSET JobPlans] /\ pc \in [Workers -> Phase]
      /\ messagePlan \in [Workers -> SUBSET MessagePlans] /\ UNCHANGED proc
      /\ aborts \in 0..MaxAborts /\ clock \in 0..MaxTime /\ MaxAborts \in Nat
      /\ message \in [Messages -> [state : MessageState \cup {"none"}, lock : Nat]]
  BY DEF BeatInv, Shape, PlanShape, TablesOK, executionVars
<1>2. ASSUME \/ \E p \in jobPlan[w] : Closing!JobBroken(w, p)
             \/ Closing!EndJobs(w) \/ Closing!LoadMessagesThrows(w)
             \/ Closing!EndMessages(w) \/ Closing!CompletionAborts(w)
      PROVE  BeatInv' /\ Grows /\ NoneReleased /\ UNCHANGED <<job, stage, run, proc>>
  <2>1. /\ UNCHANGED <<clock, message, job, stage, run>> /\ aborts' \in 0..MaxAborts
        /\ \E phase \in Planning : pc' = [pc EXCEPT ![w] = phase]
    BY <1>1, <1>2 DEF Closing!JobBroken, Closing!EndJobs, Closing!LoadMessagesThrows,
                      Closing!EndMessages, Closing!CompletionAborts, Planning
  <2>2. /\ jobPlan' = jobPlan \/ jobPlan' = [jobPlan EXCEPT ![w] = {}]
        /\ messagePlan' = messagePlan \/ messagePlan' = [messagePlan EXCEPT ![w] = {}]
    BY <1>2 DEF Closing!JobBroken, Closing!EndJobs, Closing!LoadMessagesThrows,
                Closing!EndMessages, Closing!CompletionAborts
  <2>3. /\ jobPlan' \in [Workers -> SUBSET JobPlans]
        /\ messagePlan' \in [Workers -> SUBSET MessagePlans]
        /\ \A v \in Workers : jobPlan'[v] \subseteq jobPlan[v]
    BY <1>1, <2>2
  <2>4. BeatInv' /\ Grows
    BY <1>1, <2>1, <2>3, CompletionQuiet
  <2> QED
    BY <1>1, <2>1, <2>3, <2>4 DEF NoneReleased
<1>3. CASE Closing!LoadMessages(w)
  <2>1. PICK rows :
          /\ rows = {[msg |-> m, verdict |-> Closing!MessageVerdict(m)] :
                m \in {n \in Closing!OpenMessages : Closing!MessageVerdict(n) # "IN_PROCESS"}}
          /\ messagePlan' = [messagePlan EXCEPT ![w] = rows]
    BY <1>3 DEF Closing!LoadMessages
  <2>2. \A m \in Closing!OpenMessages :
          m \in Messages /\ Closing!MessageVerdict(m) \in MessageState
    BY DEF Closing!OpenMessages, Closing!MessageVerdict, MessageState
  <2>3. rows \subseteq MessagePlans
    BY <2>1, <2>2 DEF MessagePlans
  <2>4. messagePlan' \in [Workers -> SUBSET MessagePlans]
    BY <1>1, <2>1, <2>3
  <2>5. /\ UNCHANGED <<clock, message, job, stage, run, aborts, jobPlan>>
        /\ pc' = [pc EXCEPT ![w] = "messages"] /\ "messages" \in Planning
    BY <1>3 DEF Closing!LoadMessages, Planning
  <2>6. BeatInv' /\ Grows
    BY <1>1, <2>4, <2>5, CompletionQuiet
  <2> QED
    BY <1>1, <2>5, <2>6 DEF NoneReleased
<1>4. ASSUME NEW p \in messagePlan[w], Closing!StoreMessage(w, p)
      PROVE  BeatInv' /\ Grows /\ NoneReleased /\ UNCHANGED <<job, stage, run, proc>>
  <2>1. p.msg \in Messages /\ p.verdict \in MessageState
    BY <1>1 DEF MessagePlans
  <2>2. /\ pc[w] = "messages" /\ UNCHANGED <<clock, job, stage, run, pc, aborts, jobPlan>>
        /\ message' = [message EXCEPT ![p.msg].state = p.verdict]
        /\ messagePlan' = [messagePlan EXCEPT ![w] = messagePlan[w] \ {p}]
    BY <1>4 DEF Closing!StoreMessage
  <2>3. message' \in [Messages -> [state : MessageState \cup {"none"}, lock : Nat]]
    BY <1>1, <2>1, <2>2
  <2>4. /\ messagePlan' \in [Workers -> SUBSET MessagePlans]
        /\ pc' = [pc EXCEPT ![w] = "messages"] /\ "messages" \in Planning
    BY <1>1, <2>2 DEF Planning
  <2>5. BeatInv' /\ Grows
    BY <1>1, <2>2, <2>3, <2>4, CompletionQuiet
  <2> QED
    BY <1>1, <2>2, <2>5 DEF NoneReleased
<1> QED
  BY <1>2, <1>3, <1>4

------------------------------------------------------------------------------
(* The invariant, and the types.                                           *)

\* Nothing is there yet.
LEMMA InitSatisfiesInv == Init => BeatInv
<1> SUFFICES ASSUME Init
             PROVE  BeatInv
  OBVIOUS
<1>1. pc \in [Workers -> Phase] /\ \A w \in Workers : pc[w] \in {"idle", "down"}
  BY DEF Init, Phase
<1>2. /\ clock = 0 /\ message = [m \in Messages |-> [state |-> "none", lock |-> 0]]
      /\ job = <<>> /\ stage = <<>> /\ run = <<>> /\ aborts = 0
  BY DEF Init, TablesClean
<1>3. TablesOK
  <2>1. message \in [Messages -> [state : MessageState \cup {"none"}, lock : Nat]]
    BY <1>2
  <2>2. job \in Seq(JobRows) /\ stage \in Seq(StageRows) /\ run \in Seq(RunRows)
    BY <1>2
  <2>3. clock \in 0..MaxTime /\ aborts \in 0..MaxAborts
    BY <1>2
  <2> QED
    BY <1>1, <2>1, <2>2, <2>3 DEF TablesOK, JobRows, StageRows, RunRows
<1>4. ExpansionShape
  <2>1. 0 \in 0..MaxTime
    BY TimeBoundAssumption
  <2>2. /\ readAt = [w \in Workers |-> 0] /\ batch = [w \in Workers |-> {}] /\ late = FALSE
        /\ at = [w \in Workers |-> [msg |-> NoMessage, tmpl |-> 0, job |-> 0, done |-> 0]]
    BY DEF Init, Expansion!ExpansionInit, Expansion!NotExpanding
  <2>3. late \in BOOLEAN
    BY <2>2
  <2> QED
    BY <2>1, <2>2, <2>3 DEF ExpansionShape
<1>5. ExecutionShape
  BY <1>2 DEF Init, Execution!ExecutionInit, Execution!NoStage, Execution!NotClosing,
              ExecutionShape, StartRows, ClosingRows
<1>6. PlanShape
  BY DEF Init, Closing!CompletionInit, PlanShape
<1>7. RowsMade /\ StagesHold
  BY <1>2 DEF RowsMade, StagesHold
<1>8. \A w \in Workers : WorkerHolds(w)
  BY <1>1 DEF Init, Execution!ExecutionInit, WorkerHolds, HandHolds, StartHolds, CollectHolds,
              Starting
<1> QED
  BY <1>3, <1>4, <1>5, <1>6, <1>7, <1>8 DEF BeatInv, Shape

\* One step of a beat, by the part of the beat it belongs to.
LEMMA ExpansionKeepsInv ==
  ASSUME BeatInv, NEW w \in Workers,
         Expansion!ExpansionStep(w) \/ Expansion!ExpansionAborts(w),
         UNCHANGED <<executionVars, completionVars>>
  PROVE  BeatInv' /\ Grows
<1>1. CASE \/ Expansion!Pick(w) \/ \E row \in batch[w] : Expansion!ClaimMiss(w, row)
           \/ Expansion!TemplateMissing(w) \/ Expansion!CommitFails(w)
           \/ Expansion!EndExpansion(w) \/ Expansion!ExpansionAborts(w)
  BY <1>1, ReadingKeepsInv
<1>2. CASE (\E row \in batch[w] : Expansion!Claim(w, row)) \/ Expansion!Commit(w)
  BY <1>2, LockingKeepsInv
<1>3. CASE Expansion!InsertJob(w)
  BY <1>3, InsertJobKeepsInv
<1>4. CASE Expansion!InsertStage(w)
  BY <1>4, InsertStageKeepsInv
<1> QED
  BY <1>1, <1>2, <1>3, <1>4 DEF Expansion!ExpansionStep

\* Every statement of stage execution keeps the invariant, adds no stage and
\* lets no stage go.
LEMMA ExecutionKeepsInv ==
  ASSUME BeatInv, NEW w \in Workers,
         Execution!ExecutionStep(w) \/ Execution!ExecutionAborts(w),
         UNCHANGED expansionVars, UNCHANGED completionVars
  PROVE  BeatInv' /\ Grows /\ NoneReleased
<1>1. CASE \/ Execution!LoadReady(w) \/ \E row \in ready[w] : Execution!TakeMiss(w, row)
           \/ Execution!NothingReady(w)
  BY <1>1, ReadyKeepsInv DEF NoneReleased
<1>2. ASSUME NEW row \in ready[w], Execution!TakeStage(w, row)
      PROVE  BeatInv' /\ Grows /\ NoneReleased
  BY <1>2, TakeStageKeepsInv
<1>3. CASE Execution!InsertRun(w) \/ Execution!Start(w)
  BY <1>3, InsertRunKeepsInv, StartKeepsInv
<1>4. CASE Execution!StoreRun(w) \/ Execution!StoreStage(w) \/ Execution!CloseStage(w)
  BY <1>4, StoreRunKeepsInv, StoreStageKeepsInv, CloseStageKeepsInv
<1>5. CASE \/ Execution!LoadCurrent(w)
           \/ \E row \in current[w] :
                 Execution!NotFinished(w, row) \/ Execution!RcLogEmpty(w, row)
           \/ Execution!EndCollect(w) \/ Execution!ExecutionAborts(w)
  BY <1>5, CollectKeepsInv DEF NoneReleased
<1>6. ASSUME NEW row \in current[w], Execution!StoreResult(w, row)
      PROVE  BeatInv' /\ Grows /\ NoneReleased
  BY <1>6, StoreResultKeepsInv
<1> QED
  BY <1>1, <1>2, <1>3, <1>4, <1>5, <1>6 DEF Execution!ExecutionStep

\* Every statement of updateFinishedJobsAndMessages keeps the invariant.
LEMMA CompletionKeepsInv ==
  ASSUME BeatInv, NEW w \in Workers,
         Closing!CompletionStep(w) \/ Closing!CompletionAborts(w),
         UNCHANGED expansionVars, UNCHANGED executionVars
  PROVE  BeatInv' /\ Grows
<1>1. CASE Closing!LoadJobs(w)
  BY <1>1, LoadJobsKeepsInv
<1>2. ASSUME NEW p \in jobPlan[w], NEW s \in p.unblock, Closing!Unblock(w, p, s)
      PROVE  BeatInv' /\ Grows
  BY <1>2, UnblockKeepsInv
<1>3. ASSUME NEW p \in jobPlan[w], Closing!StoreJob(w, p)
      PROVE  BeatInv' /\ Grows
  BY <1>3, StoreJobKeepsInv
<1>4. CASE \/ \E p \in jobPlan[w] : Closing!JobBroken(w, p)
           \/ Closing!EndJobs(w) \/ Closing!LoadMessages(w) \/ Closing!LoadMessagesThrows(w)
           \/ \E p \in messagePlan[w] : Closing!StoreMessage(w, p)
           \/ Closing!EndMessages(w) \/ Closing!CompletionAborts(w)
  BY <1>4, MessagesKeepInv
<1> QED
  BY <1>1, <1>2, <1>3, <1>4 DEF Closing!CompletionStep

\* The steps of Next by the part of the beat they belong to.
Steps(w) ==
    \/ /\ Expansion!ExpansionStep(w) \/ Expansion!ExpansionAborts(w)
       /\ UNCHANGED <<executionVars, completionVars>>
    \/ /\ Execution!ExecutionStep(w) \/ Execution!ExecutionAborts(w)
       /\ UNCHANGED expansionVars /\ UNCHANGED completionVars
    \/ /\ Closing!CompletionStep(w) \/ Closing!CompletionAborts(w)
       /\ UNCHANGED expansionVars /\ UNCHANGED executionVars

\* A step of the whole is one of the clock and the posts, one of a process, or
\* one of a worker.
LEMMA StepCases == Next => Environment \/ Processes \/ \E w \in Workers : Steps(w)
  BY DEF Next, Steps, BeatStep, BeatAborts

\* Every step of the whole keeps the invariant.
LEMMA NextKeepsInv ==
  ASSUME BeatInv, Next
  PROVE  BeatInv' /\ Grows
<1>1. CASE Environment
  BY <1>1, EnvironmentKeepsInv
<1>2. CASE Processes
  BY <1>2, ProcessesKeepInv
<1>3. ASSUME NEW w \in Workers, Steps(w)
      PROVE  BeatInv' /\ Grows
  BY <1>3, ExpansionKeepsInv, ExecutionKeepsInv, CompletionKeepsInv DEF Steps
<1> QED
  BY <1>1, <1>2, <1>3, StepCases

\* Nothing that happens or does not happen changes the invariant.
LEMMA StutterKeepsInv ==
  ASSUME BeatInv, UNCHANGED vars
  PROVE  BeatInv' /\ Grows
<1>1. /\ UNCHANGED <<clock, message, job, stage, run, pc, aborts>>
      /\ UNCHANGED <<readAt, batch, at, late>>
      /\ UNCHANGED <<proc, ready, mine, current, closing>>
      /\ UNCHANGED <<jobPlan, messagePlan>>
  BY DEF vars, tableVars, tables, expansionVars, executionVars, completionVars
<1>2. Shape' /\ Grows
  <2>1. Shape
    BY DEF BeatInv
  <2>2. /\ clock' \in 0..MaxTime /\ aborts' \in 0..MaxAborts /\ pc' \in [Workers -> Phase]
        /\ message' \in [Messages -> [state : MessageState \cup {"none"}, lock : Nat]]
        /\ ExpansionShape'
    BY <1>1, <2>1 DEF Shape, TablesOK, ExpansionShape
  <2>3. /\ proc' \in Seq(Execution!ProcState) /\ Len(proc') = Len(proc)
        /\ ready' \in [Workers -> SUBSET ReadyRows] /\ mine' \in [Workers -> StartRows]
        /\ current' \in [Workers -> SUBSET CurrentRows] /\ closing' \in [Workers -> ClosingRows]
        /\ jobPlan' \in [Workers -> SUBSET JobPlans]
        /\ messagePlan' \in [Workers -> SUBSET MessagePlans]
    BY <1>1, <2>1 DEF Shape, ExecutionShape, PlanShape
  <2> QED
    BY <1>1, <2>1, <2>2, <2>3, QuietShape
<1>3. RowsMade' /\ StagesHold'
  BY <1>1, SameRows DEF BeatInv
<1>4. \A v \in Workers : WorkerHolds(v)'
  BY <1>1, <1>2, OthersKeep
<1> QED
  BY <1>2, <1>3, <1>4 DEF BeatInv

\* The invariant of the whole holds in every reachable state.
LEMMA InvAlways == Spec => []BeatInv
<1>1. BeatInv /\ [Next]_vars => BeatInv'
  BY NextKeepsInv, StutterKeepsInv
<1> QED
  BY InitSatisfiesInv, <1>1, PTL DEF Spec

\* The types of the tables and of what each part of the beat has in memory,
\* with all parts at work on the same tables.
THEOREM BeatTypes == Spec => []TypeOK
<1>1. ASSUME BeatInv
      PROVE  TypeOK
  <2>1. Shape /\ TablesOK /\ ExpansionShape /\ ExecutionShape /\ PlanShape
    BY <1>1 DEF BeatInv, Shape
  <2>2. Expansion!TypeOK
    BY <2>1 DEF TablesOK, ExpansionShape, Expansion!TypeOK, Expansion!TablesOK,
                Expansion!ExpansionOK, Expansion!MessageState, MessageState,
                Expansion!JobState, JobState, Expansion!StageState, StageState,
                Expansion!RunState, RunState, Expansion!Phase, Phase
  <2>3. Execution!TypeOK
    <3>1. Execution!TablesOK
      BY <2>1 DEF TablesOK, Execution!TablesOK, Execution!MessageState, MessageState,
                  Execution!JobState, JobState, Execution!StageState, StageState,
                  Execution!RunState, RunState, Execution!Phase, Phase
    <3>2. DOMAIN proc = 1..Len(run) /\ \A r \in 1..Len(run) : proc[r] \in Execution!ProcState
      BY <2>1 DEF ExecutionShape
    <3>3. ReadyRows \subseteq [stage : 1..Len(stage), retriesLeft : Nat]
      BY DEF ReadyRows
    <3>4. Execution!ExecutionOK
      BY <2>1, <3>2, <3>3 DEF ExecutionShape, Execution!ExecutionOK, StartRows, CurrentRows,
                              ClosingRows, Execution!StageState, StageState
    <3> QED
      BY <3>1, <3>4 DEF Execution!TypeOK
  <2>4. Closing!TypeOK
    <3>1. Closing!TablesOK
      BY <2>1 DEF TablesOK, Closing!TablesOK, Closing!MessageState, MessageState,
                  Closing!JobState, JobState, Closing!StageState, StageState,
                  Closing!RunState, RunState, Closing!Phase, Phase
    <3>2. Closing!CompletionOK
      BY <2>1 DEF PlanShape, JobPlans, MessagePlans, Closing!CompletionOK,
                  Closing!JobState, JobState, Closing!MessageState, MessageState
    <3> QED
      BY <3>1, <3>2 DEF Closing!TypeOK
  <2> QED
    BY <2>2, <2>3, <2>4 DEF TypeOK
<1> QED
  BY InvAlways, <1>1, PTL
------------------------------------------------------------------------------
(* The order of the stages.                                                *)

\* Where each stage depends on earlier ones, those have rows, and met
\* dependencies are processes that ended well: nothing is only assumed.
LEMMA MetIsReleased ==
  ASSUME DependsOnEarlier, BeatInv, NEW s \in 1..Len(stage), Closing!DependenciesMet(s)
  PROVE  Released(s)
<1> DEFINE j == stage[s].job
<1>1. /\ j \in 1..Len(job) /\ job[j].msg \in Messages
      /\ job[j].tmpl \in 1..Len(Template[job[j].msg])
      /\ stage[s].name \in 1..Size(j)
      /\ \A k \in 1..(stage[s].name - 1) : Named(j, k)
  BY Rows DEF BeatInv, Shape, RowsMade
<1>2. /\ TemplateOf(s) = StageTemplates(job[j].msg, job[j].tmpl)[stage[s].name]
      /\ Closing!TemplateOf(s) = TemplateOf(s)
  BY DEF TemplateOf, JobOf, StageTemplates, Closing!TemplateOf, Closing!JobOf,
         Closing!StageTemplates
<1>3. TemplateOf(s).dependOnStage \subseteq 1..(stage[s].name - 1)
  BY <1>1, <1>2 DEF DependsOnEarlier, Size
<1>4. ASSUME NEW k \in TemplateOf(s).dependOnStage
      PROVE  Through(j, k)
  <2>1. PICK t \in 1..Len(stage) : stage[t].job = j /\ stage[t].name = k
    BY <1>1, <1>3 DEF Named
  <2>2. stage[t].state = "SUCCESS"
    BY <1>2, <2>1 DEF Closing!DependenciesMet, Closing!StagesOf, Closing!SuccessEndState
  <2>3. Good(t)
    BY <2>2 DEF BeatInv, StagesHold
  <2> QED
    BY <2>1, <2>3 DEF Through
<1> QED
  BY <1>4 DEF Released

\* What was let go, and what is planned to be, stays rightly so.
LEMMA NoneReleasedKeepsDepend ==
  ASSUME BeatInv, BeatInv', Grows, NoneReleased, DependInv
  PROVE  DependInv'
<1>1. \A s \in 1..Len(stage) : Released(s) => Released(s)'
  BY Stays DEF BeatInv, Shape
<1>2. jobPlan \in [Workers -> SUBSET JobPlans]
  BY DEF BeatInv, Shape, PlanShape
<1>3. \A w \in Workers : \A p \in jobPlan[w] : p.unblock \subseteq 1..Len(stage)
  BY <1>2 DEF JobPlans
<1>4. \A s \in 1..Len(stage) : stage'[s].state # "BLOCKED" => stage[s].state # "BLOCKED"
  BY DEF NoneReleased
<1>5. \A s \in 1..Len(stage') : stage'[s].state # "BLOCKED" => Released(s)'
  BY <1>1, <1>4 DEF NoneReleased, DependInv
<1>6. \A w \in Workers : \A p \in jobPlan'[w] : \A s \in p.unblock : Released(s)'
  BY <1>1, <1>3 DEF NoneReleased, DependInv
<1> QED
  BY <1>5, <1>6 DEF DependInv

\* Whatever a worker does, its plans and the stages that are released keep
\* their dependencies met.
LEMMA StepsKeepDepend ==
  ASSUME DependsOnEarlier, BeatInv, BeatInv', Grows, DependInv, NEW w \in Workers, Steps(w)
  PROVE  DependInv'
<1>1. /\ \A s \in 1..Len(stage) : Released(s) => Released(s)'
      /\ Len(stage) \in Nat /\ jobPlan \in [Workers -> SUBSET JobPlans]
  BY Stays, Rows DEF BeatInv, Shape, PlanShape
<1>2. \A v \in Workers : \A p \in jobPlan[v] : p.unblock \subseteq 1..Len(stage)
  BY <1>1 DEF JobPlans
<1>3. ASSUME Expansion!ExpansionStep(w) \/ Expansion!ExpansionAborts(w),
             UNCHANGED <<executionVars, completionVars>>
      PROVE  DependInv'
  <2>1. UNCHANGED jobPlan
    BY <1>3 DEF completionVars
  <2>2. CASE Expansion!InsertStage(w)
    <3>1. /\ Len(stage') = Len(stage) + 1 /\ \A s \in 1..Len(stage) : stage'[s] = stage[s]
          /\ \A s \in 1..Len(stage') \ 1..Len(stage) :
                stage'[s].state # "BLOCKED" => Released(s)'
      BY <1>3, <2>2, InsertStageKeepsInv
    <3>2. \A s \in 1..Len(stage') : stage'[s].state # "BLOCKED" => Released(s)'
      BY <1>1, <3>1 DEF DependInv
    <3>3. \A v \in Workers : \A p \in jobPlan'[v] : \A s \in p.unblock : Released(s)'
      BY <1>1, <1>2, <2>1 DEF DependInv
    <3> QED
      BY <3>2, <3>3 DEF DependInv
  <2>3. CASE ~Expansion!InsertStage(w)
    <3>1. UNCHANGED stage
      BY <1>3, <2>3 DEF Expansion!ExpansionStep, Expansion!ExpansionAborts, Expansion!Pick,
         Expansion!Claim, Expansion!ClaimMiss, Expansion!TemplateMissing, Expansion!InsertJob,
         Expansion!Commit, Expansion!CommitFails, Expansion!EndExpansion, Expansion!tables,
         Expansion!tableVars
    <3> QED
      BY <2>1, <3>1, NoneReleasedKeepsDepend DEF NoneReleased
  <2> QED
    BY <2>2, <2>3
<1>4. ASSUME Execution!ExecutionStep(w) \/ Execution!ExecutionAborts(w),
             UNCHANGED expansionVars, UNCHANGED completionVars
      PROVE  DependInv'
  BY <1>4, ExecutionKeepsInv, NoneReleasedKeepsDepend
<1>5. ASSUME Closing!LoadJobs(w), UNCHANGED expansionVars, UNCHANGED executionVars
      PROVE  DependInv'
  <2>1. /\ UNCHANGED stage /\ \A p \in jobPlan'[w] : Founded(p)
        /\ \A v \in Workers \ {w} : jobPlan'[v] = jobPlan[v]
    BY <1>5, LoadJobsKeepsInv
  <2>2. \A p \in jobPlan'[w] : \A s \in p.unblock : s \in 1..Len(stage) /\ Released(s)
    BY <2>1, MetIsReleased DEF Founded
  <2>3. \A v \in Workers : \A p \in jobPlan'[v] : \A s \in p.unblock : Released(s)'
    BY <1>1, <1>2, <2>1, <2>2 DEF DependInv
  <2> QED
    BY <1>1, <2>1, <2>3 DEF DependInv
<1>6. ASSUME NEW p \in jobPlan[w], NEW s \in p.unblock, Closing!Unblock(w, p, s),
             UNCHANGED expansionVars, UNCHANGED executionVars
      PROVE  DependInv'
  <2>1. /\ Len(stage') = Len(stage)
        /\ \A t \in 1..Len(stage) : stage'[t].state # stage[t].state => t = s
        /\ \A v \in Workers \ {w} : jobPlan'[v] = jobPlan[v]
        /\ \A q \in jobPlan'[w] : \E o \in jobPlan[w] : q.unblock \subseteq o.unblock
    BY <1>6, UnblockKeepsInv
  <2>2. \A t \in 1..Len(stage') : stage'[t].state # "BLOCKED" => Released(t)'
    BY <1>1, <1>2, <2>1 DEF DependInv
  <2>3. \A v \in Workers : \A q \in jobPlan'[v] : \A t \in q.unblock : Released(t)'
    BY <1>1, <1>2, <2>1 DEF DependInv
  <2> QED
    BY <2>2, <2>3 DEF DependInv
<1>7. ASSUME NEW p \in jobPlan[w], Closing!StoreJob(w, p),
             UNCHANGED expansionVars, UNCHANGED executionVars
      PROVE  DependInv'
  BY <1>7, StoreJobKeepsInv, NoneReleasedKeepsDepend
<1>8. ASSUME \/ \E p \in jobPlan[w] : Closing!JobBroken(w, p)
             \/ Closing!EndJobs(w) \/ Closing!LoadMessages(w) \/ Closing!LoadMessagesThrows(w)
             \/ \E p \in messagePlan[w] : Closing!StoreMessage(w, p)
             \/ Closing!EndMessages(w) \/ Closing!CompletionAborts(w),
             UNCHANGED expansionVars, UNCHANGED executionVars
      PROVE  DependInv'
  BY <1>8, MessagesKeepInv, NoneReleasedKeepsDepend
<1> QED
  BY <1>3, <1>4, <1>5, <1>6, <1>7, <1>8 DEF Steps, Closing!CompletionStep

\* Every step of the whole keeps the dependencies of released stages met.
LEMMA NextKeepsDepend ==
  ASSUME DependsOnEarlier, BeatInv, DependInv, [Next]_vars
  PROVE  BeatInv' /\ DependInv'
<1>1. BeatInv' /\ Grows
  BY NextKeepsInv, StutterKeepsInv
<1>2. CASE Environment
  <2>1. UNCHANGED <<stage, jobPlan>>
    BY <1>2 DEF Environment, Expansion!Emit, Expansion!Tick, Expansion!tables, completionVars
  <2> QED
    BY <1>1, <2>1, NoneReleasedKeepsDepend DEF NoneReleased
<1>3. CASE Processes
  BY <1>1, <1>3, ProcessesKeepInv, NoneReleasedKeepsDepend
<1>4. ASSUME NEW w \in Workers, Steps(w)
      PROVE  DependInv'
  BY <1>1, <1>4, StepsKeepDepend
<1>5. CASE UNCHANGED vars
  <2>1. UNCHANGED <<stage, jobPlan>>
    BY <1>5 DEF vars, tableVars, tables, completionVars
  <2> QED
    BY <1>1, <2>1, NoneReleasedKeepsDepend DEF NoneReleased
<1> QED
  BY <1>1, <1>2, <1>3, <1>4, <1>5, StepCases

\* The process of a stage is started only after the processes of all stages
\* it depends on ended well: for any workers and hosts, with beats cut short
\* anywhere and workers of any slowness, if every template lists a stage
\* after those it depends on.
THEOREM DependenciesRunFirst == DependsOnEarlier /\ Spec => []RunsAfterDependencies
<1> SUFFICES ASSUME DependsOnEarlier
             PROVE  Spec => []RunsAfterDependencies
  OBVIOUS
<1>1. Init => DependInv
  BY DEF Init, TablesClean, Closing!CompletionInit, DependInv
<1>2. ASSUME BeatInv, DependInv
      PROVE  RunsAfterDependencies
  <2> SUFFICES ASSUME NEW r \in 1..Len(run), NEW k \in TemplateOf(run[r].stage).dependOnStage
               PROVE  \E q \in 1..Len(run) :
                         /\ stage[run[q].stage].job = stage[run[r].stage].job
                         /\ stage[run[q].stage].name = k
                         /\ proc[q] = "ok"
    BY DEF RunsAfterDependencies
  <2>1. run[r].stage \in 1..Len(stage) /\ stage[run[r].stage].state # "BLOCKED"
    BY <1>2, Rows DEF BeatInv, Shape, StagesHold
  <2>2. Through(stage[run[r].stage].job, k)
    BY <1>2, <2>1 DEF DependInv, Released
  <2> QED
    BY <2>2 DEF Through, Good
<1>3. Spec => [](BeatInv /\ DependInv)
  BY InitSatisfiesInv, NextKeepsDepend, <1>1, PTL DEF Spec
<1> QED
  BY <1>2, <1>3, PTL
------------------------------------------------------------------------------
(* SuccessInv: what a SUCCESS stands for, from the rows to the messages.   *)

\* The hypothesis: a message is posted to one worker, or its jobs have at
\* most one stage each.  Otherwise a job can be closed while another worker
\* is still inserting its stages.
OneByOne ==
    \A m \in Messages :
        \/ \A v, w \in Crew[m] : v = w
        \/ \A i \in 1..Len(Template[m]) : Len(StageTemplates(m, i)) <= 1

\* All stages of the job have rows; and all have ended well.
HasAll(j) == \A k \in 1..Size(j) : Named(j, k)
Done(j) == \A k \in 1..Size(j) : Through(j, k)

\* The worker is inserting the stages of the job.
Adds(w, j) == pc[w] = "expand" /\ at[w].tmpl # 0 /\ at[w].job = j

\* All ended well, or the expansion was cut short and some will never come.
Settled(j) == Done(j) \/ (~HasAll(j) /\ \A w \in Workers : ~Adds(w, j))

Made(m, i) == \E j \in 1..Len(job) : job[j].msg = m /\ job[j].tmpl = i /\ HasAll(j)

\* What SUCCESS of a message stands for.
Real(m) ==
    \A i \in Deciding(m) :
        \E j \in 1..Len(job) : job[j].msg = m /\ job[j].tmpl = i /\ Done(j)

\* Whatever message a worker or a job refers to was posted, to those who run.
Posted ==
    /\ \A m \in Messages : message[m].state # "none" => Up = Crew[m]
    /\ \A j \in 1..Len(job) : message[job[j].msg].state # "none"
    /\ \A w \in Workers :
          /\ \A row \in batch[w] : message[row.msg].state # "none"
          /\ pc[w] = "expand" => message[at[w].msg].state # "none"
          /\ \A p \in messagePlan[w] : message[p.msg].state # "none"

\* Jobs are made of selected templates; the responsible flag is theirs.
JobsSelected ==
    \A j \in 1..Len(job) :
        /\ job[j].tmpl \in Selected(job[j].msg)
        /\ job[j].responsible = Template[job[j].msg][job[j].tmpl].responsible

\* The templates before the one in hand are through, and all of them are when
\* the message is committed.
TemplatesMade ==
    /\ \A w \in Workers : pc[w] = "expand" =>
          \A i \in Selected(at[w].msg) : i < at[w].tmpl => Made(at[w].msg, i)
    /\ \A m \in Messages : message[m].state = "IN_PROCESS" =>
          \A i \in Selected(m) : Made(m, i)

\* A verdict written, or decided on and still to be written, is right.
JobsReal ==
    /\ \A j \in 1..Len(job) : job[j].state = "SUCCESS" => Settled(j)
    /\ \A w \in Workers : \A p \in jobPlan[w] : p.verdict = "SUCCESS" => Settled(p.job)

MessagesReal ==
    /\ \A m \in Messages : message[m].state = "SUCCESS" => Real(m)
    /\ \A w \in Workers : \A p \in messagePlan[w] :
          /\ p.verdict # "IN_PROCESS"
          /\ p.verdict = "SUCCESS" => Real(p.msg)

SuccessInv == Posted /\ JobsSelected /\ TemplatesMade /\ JobsReal /\ MessagesReal

\* What every step does to what SuccessInv speaks of: rows come and stay,
\* nothing is taken back, and only who has made a job adds stages to it.
Carries ==
    /\ Grows
    /\ \A m \in Messages : message[m].state # "none" => message'[m].state # "none"
    /\ Up' = Up
    /\ \A j \in 1..Len(job) : \A w \in Workers : Adds(w, j)' => Adds(w, j)
    /\ \A j \in 1..Len(job) : \A k : Named(j, k)' => Named(j, k) \/ \E w \in Workers : Adds(w, j)

\* What Carries keeps: complete jobs, jobs with all stages ended well, settled
\* ones, and therefore what a SUCCESS stands for.
LEMMA CarriesOn ==
  ASSUME TablesOK, TablesOK', Carries
  PROVE  /\ \A j \in 1..Len(job) :
               /\ j \in 1..Len(job')
               /\ HasAll(j) => HasAll(j)'
               /\ Done(j) => Done(j)'
               /\ Settled(j) => Settled(j)'
         /\ \A m, i : Made(m, i) => Made(m, i)'
         /\ \A m \in Messages : Real(m) => Real(m)'
<1>1. /\ Len(job) \in Nat /\ Len(job') \in Nat /\ Grows
      /\ \A j, k : Named(j, k) => Named(j, k)'
      /\ \A j, k : Through(j, k) => Through(j, k)'
      /\ \A j \in 1..Len(job) : Size(j)' = Size(j)
  BY Rows, Stays DEF Carries
<1>2. \A j \in 1..Len(job) : j \in 1..Len(job')
  BY <1>1 DEF Grows
<1>3. \A j \in 1..Len(job) : HasAll(j) => HasAll(j)'
  BY <1>1 DEF HasAll
<1>4. \A j \in 1..Len(job) : Done(j) => Done(j)'
  BY <1>1 DEF Done
<1>5. ASSUME NEW j \in 1..Len(job), Settled(j), ~Done(j)
      PROVE  Settled(j)'
  <2>1. PICK k \in 1..Size(j) : ~Named(j, k)
    BY <1>5 DEF Settled, HasAll
  <2>2. \A w \in Workers : ~Adds(w, j)
    BY <1>5 DEF Settled
  <2>3. ~Named(j, k)' /\ \A w \in Workers : ~Adds(w, j)'
    BY <2>1, <2>2 DEF Carries
  <2>4. ~HasAll(j)'
    BY <1>1, <2>1, <2>3 DEF HasAll
  <2> QED
    BY <2>3, <2>4 DEF Settled
<1>6. ASSUME NEW j \in 1..Len(job), Settled(j)
      PROVE  Settled(j)'
  BY <1>4, <1>5, <1>6 DEF Settled
<1>7. ASSUME NEW m, NEW i, Made(m, i)
      PROVE  Made(m, i)'
  BY <1>1, <1>2, <1>3, <1>7 DEF Made, Grows
<1>8. ASSUME NEW m \in Messages, Real(m)
      PROVE  Real(m)'
  <2> SUFFICES ASSUME NEW i \in Deciding(m)
               PROVE  \E j \in 1..Len(job') :
                         job'[j].msg = m /\ job'[j].tmpl = i /\ Done(j)'
    BY DEF Real
  <2>1. PICK j \in 1..Len(job) : job[j].msg = m /\ job[j].tmpl = i /\ Done(j)
    BY <1>8 DEF Real
  <2> QED
    BY <1>1, <1>2, <1>4, <2>1 DEF Grows
<1> QED
  BY <1>2, <1>3, <1>4, <1>6, <1>7, <1>8

\* What the invariant asks of the state after a step may be shown of the
\* state before it.
LEMMA SuccessKept ==
  ASSUME BeatInv, BeatInv', Carries, JobsSelected',
         \A m \in Messages :
            /\ message'[m].state # "none" => Up = Crew[m]
            /\ message'[m].state = "IN_PROCESS" => \A i \in Selected(m) : Made(m, i)
            /\ message'[m].state = "SUCCESS" => Real(m),
         \A j \in 1..Len(job') :
            /\ message[job'[j].msg].state # "none"
            /\ job'[j].state = "SUCCESS" => j \in 1..Len(job) /\ Settled(j),
         \A w \in Workers : \A row \in batch'[w] : message[row.msg].state # "none",
         \A w \in Workers : pc'[w] = "expand" =>
            /\ message[at'[w].msg].state # "none"
            /\ \A i \in Selected(at'[w].msg) : i < at'[w].tmpl => Made(at'[w].msg, i),
         \A w \in Workers : \A p \in jobPlan'[w] : p.verdict = "SUCCESS" =>
            p.job \in 1..Len(job) /\ Settled(p.job),
         \A w \in Workers : \A p \in messagePlan'[w] :
            /\ message[p.msg].state # "none"
            /\ p.verdict # "IN_PROCESS"
            /\ p.verdict = "SUCCESS" => Real(p.msg)
  PROVE  SuccessInv'
<1>1. TablesOK /\ TablesOK' /\ ExpansionShape' /\ PlanShape'
  BY DEF BeatInv, Shape
<1>2. /\ \A j \in 1..Len(job) : Settled(j) => Settled(j)'
      /\ \A m, i : Made(m, i) => Made(m, i)'
      /\ \A m \in Messages : Real(m) => Real(m)'
  BY <1>1, CarriesOn
<1>3. /\ \A j \in 1..Len(job') : job'[j].msg \in Messages
      /\ \A w \in Workers : \A row \in batch'[w] : row.msg \in Messages
      /\ \A w \in Workers : pc'[w] = "expand" => at'[w].msg \in Messages
      /\ \A w \in Workers : \A p \in messagePlan'[w] : p.msg \in Messages
  <2>1. \A j \in 1..Len(job') : job'[j].msg \in Messages
    <3>1. job' \in Seq(JobRows)
      BY <1>1 DEF TablesOK, JobRows
    <3>2. \A j \in 1..Len(job') : job'[j] \in JobRows
      BY <3>1, ElementOfSeq
    <3> QED
      BY <3>2 DEF JobRows
  <2>2. \A w \in Workers : \A row \in batch'[w] : row.msg \in Messages
    BY <1>1 DEF ExpansionShape
  <2>3. \A w \in Workers : pc'[w] = "expand" => at'[w].msg \in Messages
    BY DEF BeatInv, WorkerHolds, HandHolds
  <2>4. \A w \in Workers : \A p \in messagePlan'[w] : p.msg \in Messages
    BY <1>1 DEF PlanShape, MessagePlans
  <2> QED
    BY <2>1, <2>2, <2>3, <2>4
<1>4. Posted'
  <2>1. /\ Up' = Up
        /\ \A m \in Messages : message[m].state # "none" => message'[m].state # "none"
    BY DEF Carries
  <2> QED
    BY <1>3, <2>1 DEF Posted
<1>5. TemplatesMade'
  BY <1>2 DEF TemplatesMade
<1>6. JobsReal'
  BY <1>2 DEF JobsReal
<1>7. MessagesReal'
  BY <1>2, <1>3 DEF MessagesReal
<1> QED
  BY <1>4, <1>5, <1>6, <1>7 DEF SuccessInv

\* Steps that write no message and no job and add no stage, and go on with
\* what they have in hand or drop it.
LEMMA RestKeepsSuccess ==
  ASSUME BeatInv, BeatInv', Grows, SuccessInv,
         UNCHANGED <<message, job>>, Len(stage') = Len(stage), Up' = Up,
         \A w \in Workers : pc'[w] = "expand" => pc[w] = "expand" /\ at'[w] = at[w],
         \A w \in Workers : \A row \in batch'[w] : message[row.msg].state # "none",
         \A w \in Workers : \A p \in jobPlan'[w] : p.verdict = "SUCCESS" =>
            p.job \in 1..Len(job) /\ Settled(p.job),
         \A w \in Workers : \A p \in messagePlan'[w] :
            /\ message[p.msg].state # "none"
            /\ p.verdict # "IN_PROCESS"
            /\ p.verdict = "SUCCESS" => Real(p.msg)
  PROVE  SuccessInv'
<1>1. Carries
  <2>1. \A j \in 1..Len(job) : \A w \in Workers : Adds(w, j)' => Adds(w, j)
    BY DEF Adds
  <2>2. \A j, k : Named(j, k)' => Named(j, k)
    BY DEF Named, Grows
  <2> QED
    BY <2>1, <2>2 DEF Carries
<1>2. JobsSelected'
  BY DEF SuccessInv, JobsSelected
<1>3. /\ \A m \in Messages :
            /\ message'[m].state # "none" => Up = Crew[m]
            /\ message'[m].state = "IN_PROCESS" => \A i \in Selected(m) : Made(m, i)
            /\ message'[m].state = "SUCCESS" => Real(m)
      /\ \A j \in 1..Len(job') :
            /\ message[job'[j].msg].state # "none"
            /\ job'[j].state = "SUCCESS" => j \in 1..Len(job) /\ Settled(j)
  BY DEF SuccessInv, Posted, TemplatesMade, JobsReal, MessagesReal
<1>4. \A w \in Workers : pc'[w] = "expand" =>
         /\ message[at'[w].msg].state # "none"
         /\ \A i \in Selected(at'[w].msg) : i < at'[w].tmpl => Made(at'[w].msg, i)
  BY DEF SuccessInv, Posted, TemplatesMade
<1> QED
  BY <1>1, <1>2, <1>3, <1>4, SuccessKept

\* A worker that runs goes on, and no other one starts or stops.
LEMMA UpStays ==
  ASSUME BeatInv, NEW w \in Workers, NEW phase, pc[w] # "down", phase # "down",
         pc' = [pc EXCEPT ![w] = phase]
  PROVE  Up' = Up
  BY DEF Up, BeatInv, Shape, TablesOK

\* The verdicts in hand are about rows that are there.
LEMMA PlansReal ==
  ASSUME BeatInv, SuccessInv
  PROVE  /\ \A w \in Workers : \A p \in jobPlan[w] : p.verdict = "SUCCESS" =>
               p.job \in 1..Len(job) /\ Settled(p.job)
         /\ \A w \in Workers : \A p \in messagePlan[w] :
               /\ message[p.msg].state # "none"
               /\ p.verdict # "IN_PROCESS"
               /\ p.verdict = "SUCCESS" => Real(p.msg)
<1>1. \A w \in Workers : \A p \in jobPlan[w] : p.job \in 1..Len(job)
  BY DEF BeatInv, Shape, PlanShape, JobPlans
<1> QED
  BY <1>1 DEF SuccessInv, Posted, JobsReal, MessagesReal

\* The SELECT, a miss, the end of the batch, and the ways a beat ends here.
LEMMA ReadingKeepsSuccess ==
  ASSUME BeatInv, BeatInv', Grows, SuccessInv, NEW w \in Workers,
         \/ Expansion!Pick(w) \/ \E row \in batch[w] : Expansion!ClaimMiss(w, row)
         \/ Expansion!TemplateMissing(w) \/ Expansion!CommitFails(w)
         \/ Expansion!EndExpansion(w) \/ Expansion!ExpansionAborts(w),
         UNCHANGED <<executionVars, completionVars>>
  PROVE  SuccessInv'
<1> USE DEF Expansion!GoTo, Expansion!tables, Expansion!tableVars,
            Expansion!ForgetExpansion
<1>1. /\ pc \in [Workers -> Phase] /\ DOMAIN batch = Workers /\ DOMAIN at = Workers
      /\ UNCHANGED <<jobPlan, messagePlan>>
  BY DEF BeatInv, Shape, TablesOK, ExpansionShape, completionVars
<1>2. UNCHANGED <<message, job, stage>>
  BY DEF Expansion!Pick, Expansion!ClaimMiss, Expansion!TemplateMissing,
         Expansion!CommitFails, Expansion!EndExpansion, Expansion!ExpansionAborts
<1>3. \A v \in Workers : \A row \in batch[v] : message[row.msg].state # "none"
  BY DEF SuccessInv, Posted
<1>4. /\ Up' = Up
      /\ \A v \in Workers : pc'[v] = "expand" => pc[v] = "expand" /\ at'[v] = at[v]
      /\ \A v \in Workers : \A row \in batch'[v] : message[row.msg].state # "none"
  <2>1. CASE Expansion!Pick(w)
    <3>1. /\ pc[w] = "idle" /\ pc' = [pc EXCEPT ![w] = "claim"] /\ UNCHANGED at
          /\ \A row \in batch'[w] : message[row.msg].state = "EMITTED"
          /\ \A v \in Workers \ {w} : batch'[v] = batch[v]
      BY <1>1, <2>1 DEF Expansion!Pick
    <3>2. Up' = Up
      BY <3>1, UpStays
    <3> QED
      BY <1>1, <1>3, <3>1, <3>2
  <2>2. ASSUME NEW row \in batch[w], Expansion!ClaimMiss(w, row)
        PROVE  /\ Up' = Up
               /\ \A v \in Workers : pc'[v] = "expand" => pc[v] = "expand" /\ at'[v] = at[v]
               /\ \A v \in Workers : \A r \in batch'[v] : message[r.msg].state # "none"
    <3>1. UNCHANGED pc /\ UNCHANGED at /\ \A v \in Workers : batch'[v] \subseteq batch[v]
      BY <1>1, <2>2 DEF Expansion!ClaimMiss
    <3> QED
      BY <1>3, <3>1 DEF Up
  <2>3. CASE \/ Expansion!TemplateMissing(w) \/ Expansion!CommitFails(w)
             \/ Expansion!EndExpansion(w) \/ Expansion!ExpansionAborts(w)
    <3>1. PICK phase \in {"idle", "pick"} : pc' = [pc EXCEPT ![w] = phase]
      BY <2>3 DEF Expansion!TemplateMissing, Expansion!CommitFails, Expansion!EndExpansion,
                  Expansion!ExpansionAborts
    <3>2. /\ pc[w] \in {"claim", "expand"}
          /\ batch' = [batch EXCEPT ![w] = {}]
          /\ \A v \in Workers \ {w} : at'[v] = at[v]
      BY <1>1, <2>3 DEF Expansion!TemplateMissing, Expansion!CommitFails,
                  Expansion!EndExpansion, Expansion!ExpansionAborts
    <3>3. Up' = Up
      BY <3>1, <3>2, UpStays
    <3> QED
      BY <1>1, <1>3, <3>1, <3>2, <3>3
  <2> QED
    BY <2>1, <2>2, <2>3
<1> QED
  BY <1>1, <1>2, <1>4, PlansReal, RestKeepsSuccess

\* The templates up to the one in hand, when its job is complete.
LEMMA HandMade ==
  ASSUME BeatInv, SuccessInv, NEW w \in Workers, pc[w] = "expand", Expansion!JobComplete(w),
         NEW i \in Selected(at[w].msg), i <= at[w].tmpl
  PROVE  Made(at[w].msg, i)
<1>1. /\ WorkerHolds(w) /\ at[w].msg \in Messages
      /\ at[w].tmpl \in Nat /\ i \in Nat \ {0}
      /\ i < at[w].tmpl => Made(at[w].msg, i)
  BY DEF BeatInv, WorkerHolds, HandHolds, Shape, ExpansionShape, SuccessInv, TemplatesMade,
         Selected
<1>2. CASE i = at[w].tmpl
  <2>1. /\ at[w].job \in 1..Len(job)
        /\ job[at[w].job].msg = at[w].msg /\ job[at[w].job].tmpl = i
        /\ \A k \in 1..at[w].done : Named(at[w].job, k)
    BY <1>1, <1>2 DEF WorkerHolds, HandHolds
  <2>2. at[w].done = Size(at[w].job)
    BY <1>1, <1>2, <2>1 DEF Expansion!JobComplete, Expansion!StageTemplates, StageTemplates, Size
  <2> QED
    BY <2>1, <2>2 DEF Made, HasAll
<1> QED
  BY <1>1, <1>2

\* A worker that has written the message it takes in hand, or is through with.
LEMMA MessageWritten ==
  ASSUME BeatInv, BeatInv', Grows, SuccessInv, NEW w \in Workers,
         NEW m \in Messages, NEW state \in {"EMITTED", "IN_PROCESS"}, NEW lock,
         NEW n, NEW phase \in {"claim", "expand"},
         message' = [message EXCEPT ![m] = [state |-> state, lock |-> lock]],
         at' = [at EXCEPT ![w] = [msg |-> n, tmpl |-> 0, job |-> 0, done |-> 0]],
         pc' = [pc EXCEPT ![w] = phase],
         UNCHANGED <<job, stage>>, UNCHANGED completionVars, batch'[w] \subseteq batch[w],
         \A v \in Workers \ {w} : batch'[v] = batch[v],
         phase = "expand" => n = m,
         message[m].state # "none", pc[w] # "down",
         state = "IN_PROCESS" => \A i \in Selected(m) : Made(m, i)
  PROVE  SuccessInv'
<1>1. /\ pc \in [Workers -> Phase] /\ DOMAIN at = Workers /\ DOMAIN message = Messages
      /\ UNCHANGED <<jobPlan, messagePlan>>
  BY DEF BeatInv, Shape, TablesOK, ExpansionShape, completionVars
<1>2. /\ message'[m].state = state /\ \A l \in Messages : l # m => message'[l] = message[l]
  BY <1>1
<1>3. /\ \A v \in Workers \ {w} : pc'[v] = pc[v] /\ at'[v] = at[v]
      /\ pc'[w] = phase /\ at'[w].msg = n /\ at'[w].tmpl = 0
  BY <1>1
<1>4. Up' = Up
  BY UpStays
<1>5. Carries
  <2>1. \A j \in 1..Len(job) : \A v \in Workers : Adds(v, j)' => Adds(v, j)
    BY <1>3 DEF Adds
  <2>2. \A j, k : Named(j, k)' => Named(j, k)
    BY DEF Named
  <2>3. \A l \in Messages : message[l].state # "none" => message'[l].state # "none"
    BY <1>2
  <2> QED
    BY <1>4, <2>1, <2>2, <2>3 DEF Carries
<1>6. JobsSelected'
  BY DEF SuccessInv, JobsSelected
<1>7. \A l \in Messages :
        /\ message'[l].state # "none" => Up = Crew[l]
        /\ message'[l].state = "IN_PROCESS" => \A i \in Selected(l) : Made(l, i)
        /\ message'[l].state = "SUCCESS" => Real(l)
  BY <1>2 DEF SuccessInv, Posted, TemplatesMade, MessagesReal
<1>8. \A j \in 1..Len(job') :
        /\ message[job'[j].msg].state # "none"
        /\ job'[j].state = "SUCCESS" => j \in 1..Len(job) /\ Settled(j)
  BY DEF SuccessInv, Posted, JobsReal
<1>9. \A v \in Workers : \A row \in batch'[v] : message[row.msg].state # "none"
  BY DEF SuccessInv, Posted
<1>10. \A v \in Workers : pc'[v] = "expand" =>
         /\ message[at'[v].msg].state # "none"
         /\ \A i \in Selected(at'[v].msg) : i < at'[v].tmpl => Made(at'[v].msg, i)
  <2>1. \A i \in Selected(m) : ~(i < 0)
    BY DEF Selected
  <2> QED
    BY <1>3, <2>1 DEF SuccessInv, Posted, TemplatesMade
<1> QED
  BY <1>1, <1>5, <1>6, <1>7, <1>8, <1>9, <1>10, PlansReal, SuccessKept

\* The claim and the commit, which write the message: what is committed has a
\* job with all its stages for every template.
LEMMA LockingKeepsSuccess ==
  ASSUME BeatInv, BeatInv', Grows, SuccessInv, NEW w \in Workers,
         (\E row \in batch[w] : Expansion!Claim(w, row)) \/ Expansion!Commit(w),
         UNCHANGED <<executionVars, completionVars>>
  PROVE  SuccessInv'
<1>1. /\ Expansion!NewLock(w) \in Nat /\ DOMAIN batch = Workers
      /\ batch[w] \subseteq [msg : Messages, lock : Nat] /\ UNCHANGED completionVars
  BY LockTypes DEF BeatInv, Shape, ExpansionShape
<1>2. ASSUME NEW row \in batch[w], Expansion!Claim(w, row)
      PROVE  SuccessInv'
  <2>1. row.msg \in Messages /\ message[row.msg].state # "none"
    BY <1>1 DEF SuccessInv, Posted
  <2>2. at' = [at EXCEPT ![w] = [msg |-> row.msg, tmpl |-> 0, job |-> 0, done |-> 0]]
    <3>1. [[msg |-> NoMessage, tmpl |-> 0, job |-> 0, done |-> 0] EXCEPT !.msg = row.msg]
          = [msg |-> row.msg, tmpl |-> 0, job |-> 0, done |-> 0]
      OBVIOUS
    <3> QED
      BY <1>2, <3>1 DEF Expansion!Claim, Expansion!NotExpanding
  <2>3. /\ message' = [message EXCEPT ![row.msg] =
              [state |-> "EMITTED", lock |-> Expansion!NewLock(w)]]
        /\ pc' = [pc EXCEPT ![w] = "expand"] /\ pc[w] = "claim"
        /\ UNCHANGED <<job, stage>> /\ batch'[w] \subseteq batch[w]
        /\ \A v \in Workers \ {w} : batch'[v] = batch[v]
    BY <1>1, <1>2 DEF Expansion!Claim, Expansion!CasMessage, Expansion!GoTo
  <2> QED
    BY <1>1, <2>1, <2>2, <2>3, MessageWritten
<1>3. CASE Expansion!Commit(w)
  <2>1. at[w].msg \in Messages /\ message[at[w].msg].state # "none" /\ pc[w] = "expand"
    BY <1>3 DEF Expansion!Commit, BeatInv, WorkerHolds, HandHolds, SuccessInv, Posted
  <2>2. at' = [at EXCEPT ![w] = [msg |-> NoMessage, tmpl |-> 0, job |-> 0, done |-> 0]]
    BY <1>3 DEF Expansion!Commit, Expansion!NotExpanding
  <2>3. /\ message' = [message EXCEPT ![at[w].msg] =
              [state |-> "IN_PROCESS", lock |-> Expansion!NewLock(w)]]
        /\ pc' = [pc EXCEPT ![w] = "claim"]
        /\ UNCHANGED <<job, stage>> /\ UNCHANGED batch
    BY <1>3 DEF Expansion!Commit, Expansion!CasMessage, Expansion!GoTo
  <2>4. \A i \in Selected(at[w].msg) : Made(at[w].msg, i)
    <3>1. Expansion!Remaining(w) = {} /\ Expansion!JobComplete(w) /\ at[w].tmpl \in Nat
      BY <1>3 DEF Expansion!Commit, BeatInv, Shape, ExpansionShape
    <3>2. \A i \in Selected(at[w].msg) : i \in Nat /\ ~(i > at[w].tmpl)
      BY <3>1 DEF Expansion!Remaining, Expansion!Selected, Selected
    <3>3. \A i \in Selected(at[w].msg) : i <= at[w].tmpl
      BY <3>1, <3>2
    <3> QED
      BY <2>1, <3>1, <3>3, HandMade
  <2> QED
    BY <1>1, <2>1, <2>2, <2>3, <2>4, MessageWritten
<1> QED
  BY <1>2, <1>3

\* INSERT_JOB for the first template that is not yet through: the worker takes
\* the new job in hand, to which nobody else adds stages.
LEMMA InsertJobKeepsSuccess ==
  ASSUME BeatInv, BeatInv', Grows, SuccessInv, NEW w \in Workers, Expansion!InsertJob(w),
         UNCHANGED <<executionVars, completionVars>>
  PROVE  SuccessInv'
<1>0. PICK m : m = at[w].msg
  OBVIOUS
<1>1. /\ pc[w] = "expand" /\ m \in Messages /\ message[m].state # "none"
      /\ Expansion!JobComplete(w) /\ at[w].tmpl \in Nat
      /\ Len(job) \in Nat /\ job \in Seq(JobRows) /\ DOMAIN at = Workers
  BY <1>0, RowTypes DEF Expansion!InsertJob, BeatInv, WorkerHolds, HandHolds, Shape,
     ExpansionShape, SuccessInv, Posted
<1>2. /\ UNCHANGED <<message, stage, pc, batch>> /\ UNCHANGED <<jobPlan, messagePlan>>
  BY DEF Expansion!InsertJob, completionVars
<1>3. PICK i \in Selected(m) :
        /\ \A k \in Selected(m) : k < i => k <= at[w].tmpl
        /\ job' = Append(job, Expansion!JobRow(m, i))
        /\ at' = [at EXCEPT ![w] = [msg |-> m, tmpl |-> i, job |-> Len(job'), done |-> 0]]
  <2>1. PICK i \in Expansion!Remaining(w) :
          /\ \A k \in Expansion!Remaining(w) : i <= k
          /\ job' = Append(job, Expansion!JobRow(m, i))
          /\ at' = [at EXCEPT ![w] = [msg |-> m, tmpl |-> i, job |-> Len(job'), done |-> 0]]
    BY <1>0 DEF Expansion!InsertJob
  <2>2. /\ i \in Selected(m) /\ Selected(m) \subseteq Nat
        /\ \A k \in Selected(m) : k > at[w].tmpl => i <= k
    BY <1>0, <2>1 DEF Expansion!Remaining, Expansion!Selected, Selected
  <2>3. \A k \in Selected(m) : k < i => k <= at[w].tmpl
    BY <1>1, <2>2
  <2> QED
    BY <2>1, <2>2, <2>3
<1>4. /\ Len(job') = Len(job) + 1 /\ \A j \in 1..Len(job) : job'[j] = job[j]
      /\ \A j \in 1..Len(job') : j \in 1..Len(job) \/ job'[j] = Expansion!JobRow(m, i)
  <2>1. Expansion!JobRow(m, i) \in JobRows
    BY <1>1, <1>3, TemplateRows DEF Selected
  <2> QED
    BY <1>1, <1>3, <2>1
<1>5. /\ Expansion!JobRow(m, i).msg = m /\ Expansion!JobRow(m, i).tmpl = i
      /\ Expansion!JobRow(m, i).responsible = Template[m][i].responsible
      /\ Expansion!JobRow(m, i).state = "IN_PROCESS"
  BY DEF Expansion!JobRow
<1>6. /\ at'[w].msg = m /\ at'[w].tmpl = i /\ at'[w].job = Len(job')
      /\ \A v \in Workers \ {w} : at'[v] = at[v]
  BY <1>1, <1>3
<1>7. Carries
  <2>1. \A j \in 1..Len(job) : \A v \in Workers : Adds(v, j)' => Adds(v, j)
    BY <1>1, <1>2, <1>4, <1>6 DEF Adds
  <2>2. \A j, k : Named(j, k)' => Named(j, k)
    BY <1>2 DEF Named
  <2> QED
    BY <1>2, <2>1, <2>2 DEF Carries, Up
<1>8. JobsSelected'
  BY <1>3, <1>4, <1>5 DEF SuccessInv, JobsSelected
<1>9. \A l \in Messages :
        /\ message'[l].state # "none" => Up = Crew[l]
        /\ message'[l].state = "IN_PROCESS" => \A k \in Selected(l) : Made(l, k)
        /\ message'[l].state = "SUCCESS" => Real(l)
  BY <1>2 DEF SuccessInv, Posted, TemplatesMade, MessagesReal
<1>10. \A j \in 1..Len(job') :
        /\ message[job'[j].msg].state # "none"
        /\ job'[j].state = "SUCCESS" => j \in 1..Len(job) /\ Settled(j)
  BY <1>1, <1>4, <1>5 DEF SuccessInv, Posted, JobsReal
<1>11. \A v \in Workers : \A row \in batch'[v] : message[row.msg].state # "none"
  BY <1>2 DEF SuccessInv, Posted
<1>12. \A k \in Selected(m) : k < i => Made(m, k)
  BY <1>0, <1>1, <1>3, HandMade
<1>13. \A v \in Workers : pc'[v] = "expand" =>
         /\ message[at'[v].msg].state # "none"
         /\ \A k \in Selected(at'[v].msg) : k < at'[v].tmpl => Made(at'[v].msg, k)
  BY <1>1, <1>2, <1>6, <1>12 DEF SuccessInv, Posted, TemplatesMade
<1> QED
  BY <1>2, <1>7, <1>8, <1>9, <1>10, <1>11, <1>13, PlansReal, SuccessKept

\* INSERT_STAGE adds a stage to the job in hand, and to no other.
LEMMA InsertStageKeepsSuccess ==
  ASSUME BeatInv, BeatInv', Grows, SuccessInv, NEW w \in Workers, Expansion!InsertStage(w),
         UNCHANGED <<executionVars, completionVars>>
  PROVE  SuccessInv'
<1>0. PICK j, d : j = at[w].job /\ d = at[w].done + 1
  OBVIOUS
<1>1. /\ pc[w] = "expand" /\ Adds(w, j)
      /\ UNCHANGED <<message, job, pc, batch>> /\ UNCHANGED <<jobPlan, messagePlan>>
  BY <1>0 DEF Expansion!InsertStage, Expansion!JobComplete, Adds, completionVars
<1>2. \A v \in Workers :
        at'[v].msg = at[v].msg /\ at'[v].tmpl = at[v].tmpl /\ at'[v].job = at[v].job
  <2>1. DOMAIN at = Workers
        /\ at[w] \in [msg : Messages \cup {NoMessage}, tmpl : Nat, job : Nat, done : Nat]
    BY DEF BeatInv, Shape, ExpansionShape
  <2>2. at' = [at EXCEPT ![w] = [at[w] EXCEPT !.done = d]]
    BY <1>0 DEF Expansion!InsertStage
  <2> QED
    BY <2>1, <2>2
<1>3. /\ Len(stage') = Len(stage) + 1 /\ \A s \in 1..Len(stage) : stage'[s] = stage[s]
      /\ \A s \in 1..Len(stage') : s \in 1..Len(stage) \/ stage'[s].job = j
  <2>1. PICK row : row.job = j /\ stage' = Append(stage, row)
    BY <1>0 DEF Expansion!InsertStage, Expansion!StageRow
  <2>2. stage \in Seq(StageRows) /\ Len(stage) \in Nat
    BY RowTypes DEF BeatInv, Shape
  <2> QED
    BY <2>1, <2>2, InsertStageKeepsInv
<1>4. Carries
  <2>1. \A l \in 1..Len(job) : \A v \in Workers : Adds(v, l)' => Adds(v, l)
    BY <1>1, <1>2 DEF Adds
  <2>2. \A l, k : Named(l, k)' => Named(l, k) \/ l = j
    BY <1>3 DEF Named
  <2> QED
    BY <1>1, <2>1, <2>2 DEF Carries, Up
<1>5. JobsSelected'
  BY <1>1 DEF SuccessInv, JobsSelected
<1>6. \A m \in Messages :
        /\ message'[m].state # "none" => Up = Crew[m]
        /\ message'[m].state = "IN_PROCESS" => \A i \in Selected(m) : Made(m, i)
        /\ message'[m].state = "SUCCESS" => Real(m)
  BY <1>1 DEF SuccessInv, Posted, TemplatesMade, MessagesReal
<1>7. \A l \in 1..Len(job') :
        /\ message[job'[l].msg].state # "none"
        /\ job'[l].state = "SUCCESS" => l \in 1..Len(job) /\ Settled(l)
  BY <1>1 DEF SuccessInv, Posted, JobsReal
<1>8. \A v \in Workers : \A row \in batch'[v] : message[row.msg].state # "none"
  BY <1>1 DEF SuccessInv, Posted
<1>9. \A v \in Workers : pc'[v] = "expand" =>
         /\ message[at'[v].msg].state # "none"
         /\ \A i \in Selected(at'[v].msg) : i < at'[v].tmpl => Made(at'[v].msg, i)
  BY <1>1, <1>2 DEF SuccessInv, Posted, TemplatesMade
<1> QED
  BY <1>1, <1>4, <1>5, <1>6, <1>7, <1>8, <1>9, PlansReal, SuccessKept

\* Posting: to those who run, and nothing of the message is there before.
LEMMA EnvironmentKeepsSuccess ==
  ASSUME BeatInv, BeatInv', Grows, SuccessInv, Environment
  PROVE  SuccessInv'
<1>1. /\ UNCHANGED <<job, stage, pc, batch, at>> /\ UNCHANGED <<jobPlan, messagePlan>>
  BY DEF Environment, Expansion!Emit, Expansion!Tick, Expansion!tables,
         Expansion!expansionVars, completionVars
<1>2. Up' = Up
  BY <1>1 DEF Up
<1>3. \A l \in Messages :
        /\ message[l].state # "none" => message'[l].state # "none"
        /\ message'[l].state # "none" => Up = Crew[l]
        /\ message'[l].state \in {"IN_PROCESS", "SUCCESS"} => message'[l].state = message[l].state
  <2>1. ASSUME NEW m \in Messages, Up = Crew[m], Expansion!Emit(m), NEW l \in Messages
        PROVE  /\ message[l].state # "none" => message'[l].state # "none"
               /\ message'[l].state # "none" => Up = Crew[l]
               /\ message'[l].state \in {"IN_PROCESS", "SUCCESS"} => message'[l].state = message[l].state
    <3>1. message'[m].state = "EMITTED" /\ \A n \in Messages : n # m => message'[n] = message[n]
      BY <2>1 DEF Expansion!Emit, BeatInv, Shape, TablesOK
    <3> QED
      BY <2>1, <3>1 DEF SuccessInv, Posted
  <2>2. CASE Expansion!Tick
    BY <2>2 DEF Expansion!Tick, Expansion!tables, SuccessInv, Posted
  <2> QED
    BY <2>1, <2>2 DEF Environment
<1>4. Carries
  <2>1. \A j \in 1..Len(job) : \A v \in Workers : Adds(v, j)' => Adds(v, j)
    BY <1>1 DEF Adds
  <2>2. \A j, k : Named(j, k)' => Named(j, k)
    BY <1>1 DEF Named
  <2> QED
    BY <1>2, <1>3, <2>1, <2>2 DEF Carries
<1>5. JobsSelected'
  BY <1>1 DEF SuccessInv, JobsSelected
<1>6. \A m \in Messages :
        /\ message'[m].state # "none" => Up = Crew[m]
        /\ message'[m].state = "IN_PROCESS" => \A i \in Selected(m) : Made(m, i)
        /\ message'[m].state = "SUCCESS" => Real(m)
  BY <1>3 DEF SuccessInv, TemplatesMade, MessagesReal
<1>7. \A j \in 1..Len(job') :
        /\ message[job'[j].msg].state # "none"
        /\ job'[j].state = "SUCCESS" => j \in 1..Len(job) /\ Settled(j)
  BY <1>1 DEF SuccessInv, Posted, JobsReal
<1>8. \A v \in Workers : \A row \in batch'[v] : message[row.msg].state # "none"
  BY <1>1 DEF SuccessInv, Posted
<1>9. \A v \in Workers : pc'[v] = "expand" =>
         /\ message[at'[v].msg].state # "none"
         /\ \A i \in Selected(at'[v].msg) : i < at'[v].tmpl => Made(at'[v].msg, i)
  BY <1>1 DEF SuccessInv, Posted, TemplatesMade
<1> QED
  BY <1>1, <1>4, <1>5, <1>6, <1>7, <1>8, <1>9, PlansReal, SuccessKept

\* A worker that goes on in its beat after the expansion, or ends it.
LEMMA LaterKeepsSuccess ==
  ASSUME BeatInv, BeatInv', Grows, SuccessInv, NEW w \in Workers, pc[w] # "down",
         NEW phase, phase # "down", phase # "expand", pc' = [pc EXCEPT ![w] = phase],
         UNCHANGED <<message, job>>, Len(stage') = Len(stage), UNCHANGED expansionVars,
         \A v \in Workers : \A p \in jobPlan'[v] : p.verdict = "SUCCESS" =>
            p.job \in 1..Len(job) /\ Settled(p.job),
         \A v \in Workers : \A p \in messagePlan'[v] :
            /\ message[p.msg].state # "none"
            /\ p.verdict # "IN_PROCESS"
            /\ p.verdict = "SUCCESS" => Real(p.msg)
  PROVE  SuccessInv'
<1>1. Up' = Up
  BY UpStays
<1>2. \A v \in Workers : pc'[v] = "expand" => pc[v] = "expand" /\ at'[v] = at[v]
  BY DEF BeatInv, Shape, TablesOK, expansionVars
<1>3. \A v \in Workers : \A row \in batch'[v] : message[row.msg].state # "none"
  BY DEF SuccessInv, Posted, expansionVars
<1> QED
  BY <1>1, <1>2, <1>3, RestKeepsSuccess

\* Stage execution writes neither jobs nor messages.
LEMMA ExecutionKeepsSuccess ==
  ASSUME BeatInv, BeatInv', Grows, NoneReleased, SuccessInv, NEW w \in Workers,
         Execution!ExecutionStep(w) \/ Execution!ExecutionAborts(w),
         UNCHANGED expansionVars, UNCHANGED completionVars
  PROVE  SuccessInv'
<1> USE DEF Execution!GoTo, Execution!tables, Execution!tableVars
<1>1. UNCHANGED <<message, job>> /\ UNCHANGED <<jobPlan, messagePlan>>
  BY DEF Execution!ExecutionStep, Execution!ExecutionAborts, Execution!LoadReady,
         Execution!TakeStage, Execution!TakeMiss, Execution!NothingReady, Execution!InsertRun,
         Execution!Start, Execution!StoreRun, Execution!StoreStage, Execution!LoadCurrent,
         Execution!NotFinished, Execution!RcLogEmpty, Execution!StoreResult,
         Execution!CloseStage, Execution!EndCollect, completionVars
<1>2. pc \in [Workers -> Phase] /\ Len(stage') = Len(stage)
  BY DEF BeatInv, Shape, TablesOK, NoneReleased
<1>3. PICK phase \in Phase \ {"down", "expand"} :
        pc[w] # "down" /\ pc' = [pc EXCEPT ![w] = phase]
  <2>1. CASE \/ Execution!LoadReady(w) \/ (\E row \in ready[w] : Execution!TakeStage(w, row))
             \/ Execution!NothingReady(w) \/ Execution!InsertRun(w) \/ Execution!Start(w)
             \/ Execution!StoreRun(w) \/ Execution!StoreStage(w) \/ Execution!LoadCurrent(w)
    BY <2>1 DEF Phase, Execution!LoadReady, Execution!TakeStage, Execution!NothingReady,
         Execution!InsertRun, Execution!Start, Execution!StoreRun, Execution!StoreStage,
         Execution!LoadCurrent
  <2>2. CASE \/ \E row \in current[w] :
                   Execution!RcLogEmpty(w, row) \/ Execution!StoreResult(w, row)
             \/ Execution!CloseStage(w) \/ Execution!EndCollect(w)
             \/ Execution!ExecutionAborts(w)
    BY <2>2 DEF Phase, Execution!RcLogEmpty, Execution!StoreResult, Execution!CloseStage,
         Execution!EndCollect, Execution!ExecutionAborts
  <2>3. CASE \/ \E row \in ready[w] : Execution!TakeMiss(w, row)
             \/ \E row \in current[w] : Execution!NotFinished(w, row)
    <3>1. pc[w] \in {"ready", "collect"} /\ pc' = pc
      BY <2>3 DEF Execution!TakeMiss, Execution!NotFinished
    <3>2. pc' = [pc EXCEPT ![w] = pc[w]]
      BY <1>2, <3>1
    <3> QED
      BY <3>1, <3>2 DEF Phase
  <2> QED
    BY <2>1, <2>2, <2>3 DEF Execution!ExecutionStep
<1> QED
  BY <1>1, <1>2, <1>3, PlansReal, LaterKeepsSuccess

\* Nor do the processes.
LEMMA ProcessesKeepSuccess ==
  ASSUME BeatInv, BeatInv', Grows, NoneReleased, SuccessInv, Processes
  PROVE  SuccessInv'
<1>1. UNCHANGED <<message, job, pc>> /\ UNCHANGED <<batch, at>>
      /\ UNCHANGED <<jobPlan, messagePlan>>
  BY DEF Processes, Execution!ProcessStep, Execution!ProcessEnds, Execution!ProcessWrites,
         Execution!ProcessVanishes, Execution!tableVars, Execution!tables, expansionVars,
         completionVars
<1>2. Up' = Up /\ Len(stage') = Len(stage)
  BY <1>1 DEF Up, NoneReleased
<1>3. \A v \in Workers : \A row \in batch'[v] : message[row.msg].state # "none"
  BY <1>1 DEF SuccessInv, Posted
<1> QED
  BY <1>1, <1>2, <1>3, PlansReal, RestKeepsSuccess

\* A job closed as SUCCESS on the rows there are has all its stages, or will
\* not get them any more: who closes it is the only worker of its message, or
\* its one stage is there.
LEMMA FoundedIsSettled ==
  ASSUME OneByOne, BeatInv, SuccessInv, NEW w \in Workers, pc[w] = "loadJobs",
         NEW p, Founded(p), p.verdict = "SUCCESS"
  PROVE  p.job \in 1..Len(job) /\ Settled(p.job)
<1>0. PICK j : j = p.job
  OBVIOUS
<1>1. /\ j \in 1..Len(job) /\ Closing!StagesOf(j) # {} /\ Closing!AllStagesSucceeded(j)
      /\ job[j].msg \in Messages /\ job[j].tmpl \in 1..Len(Template[job[j].msg])
      /\ Size(j) \in Nat
  BY <1>0, Rows, Sizes DEF Founded, BeatInv, Shape, RowsMade
<1>2. CASE HasAll(j)
  <2> SUFFICES ASSUME NEW k \in 1..Size(j)
               PROVE  Through(j, k)
    BY <1>0, <1>1 DEF Settled, Done
  <2>1. PICK t \in 1..Len(stage) : stage[t].job = j /\ stage[t].name = k
    BY <1>2 DEF HasAll, Named
  <2>2. stage[t].state = "SUCCESS"
    BY <1>1, <2>1 DEF Closing!AllStagesSucceeded, Closing!StagesOf, Closing!SuccessEndState
  <2>3. Good(t)
    BY <2>2 DEF BeatInv, StagesHold
  <2> QED
    BY <2>1, <2>3 DEF Through
<1>3. CASE ~HasAll(j)
  <2> SUFFICES ASSUME NEW v \in Workers, Adds(v, j)
               PROVE  FALSE
    BY <1>0, <1>1, <1>3 DEF Settled
  <2>1. /\ Up = Crew[job[j].msg] /\ w \in Up /\ v \in Up /\ v # w
    BY <1>1 DEF Adds, Up, SuccessInv, Posted
  <2>2. Len(StageTemplates(job[j].msg, job[j].tmpl)) <= 1
    BY <1>1, <2>1 DEF OneByOne
  <2>3. PICK s \in 1..Len(stage) : stage[s].job = j
    BY <1>1 DEF Closing!StagesOf
  <2>4. stage[s].name \in 1..Size(j)
    BY <1>1, <2>3 DEF BeatInv, RowsMade
  <2>5. \A k \in 1..Size(j) : k = stage[s].name
    BY <1>1, <2>2, <2>4 DEF Size
  <2> QED
    BY <1>3, <2>3, <2>5 DEF HasAll, Named
<1> QED
  BY <1>0, <1>1, <1>2, <1>3

\* A message is decided as SUCCESS when it has been expanded and each deciding
\* job has ended well.
LEMMA VerdictIsReal ==
  ASSUME BeatInv, SuccessInv, NEW m \in Messages, message[m].state = "IN_PROCESS",
         Closing!MessageVerdict(m) = "SUCCESS"
  PROVE  Real(m)
<1> DEFINE resp == {i \in Selected(m) : Template[m][i].responsible}
           deciding == IF Closing!Responsible(m) # {} THEN Closing!Responsible(m)
                       ELSE Closing!JobsOf(m)
<1>1. \A j \in deciding : job[j].state = "SUCCESS"
  BY DEF Closing!MessageVerdict
<1> HIDE DEF deciding
<1>2. \A j \in 1..Len(job) : job[j].msg = m =>
        /\ job[j].tmpl \in Selected(m)
        /\ job[j].responsible = Template[m][job[j].tmpl].responsible
  BY DEF SuccessInv, JobsSelected
<1>3. \A j \in 1..Len(job) : job[j].msg = m =>
        (j \in Closing!Responsible(m) <=> job[j].tmpl \in resp)
  BY <1>2 DEF Closing!Responsible, Closing!JobsOf
<1>4. \A i \in Selected(m) : Made(m, i)
  BY DEF SuccessInv, TemplatesMade
<1>5. \A j \in Closing!Responsible(m) : j \in 1..Len(job) /\ job[j].msg = m
  BY DEF Closing!Responsible, Closing!JobsOf
<1>6. \A j \in 1..Len(job) : job[j].msg = m /\ job[j].tmpl \in Deciding(m) => j \in deciding
  <2>1. CASE resp # {}
    <3>1. Deciding(m) = resp
      BY <2>1 DEF Deciding
    <3>2. PICK i \in Selected(m) : i \in resp
      BY <2>1
    <3>3. Closing!Responsible(m) # {}
      BY <1>3, <1>4, <3>2 DEF Made
    <3> QED
      BY <1>3, <3>1, <3>3 DEF deciding
  <2>2. CASE resp = {}
    <3>1. Closing!Responsible(m) = {}
      BY <1>3, <1>5, <2>2
    <3> QED
      BY <3>1 DEF deciding, Closing!JobsOf
  <2> QED
    BY <2>1, <2>2
<1>7. Deciding(m) \subseteq Selected(m)
  BY DEF Deciding
<1>8. ASSUME NEW i \in Deciding(m)
      PROVE  \E j \in 1..Len(job) : job[j].msg = m /\ job[j].tmpl = i /\ Done(j)
  <2>1. PICK j \in 1..Len(job) : job[j].msg = m /\ job[j].tmpl = i /\ HasAll(j)
    BY <1>4, <1>7 DEF Made
  <2>2. job[j].state = "SUCCESS"
    BY <1>1, <1>6, <2>1
  <2>3. Done(j)
    BY <2>1, <2>2 DEF SuccessInv, JobsReal, Settled
  <2> QED
    BY <2>1, <2>3
<1> QED
  BY <1>8 DEF Real

\* Jobs and messages are closed as decided.
LEMMA CompletionKeepsSuccess ==
  ASSUME OneByOne, BeatInv, BeatInv', Grows, SuccessInv, NEW w \in Workers,
         Closing!CompletionStep(w) \/ Closing!CompletionAborts(w),
         UNCHANGED expansionVars, UNCHANGED executionVars
  PROVE  SuccessInv'
<1> USE DEF Closing!GoTo, Closing!tables, Closing!ForgetCompletion, Closing!completionVars
<1>1. /\ DOMAIN jobPlan = Workers /\ DOMAIN messagePlan = Workers
      /\ pc \in [Workers -> Phase] /\ DOMAIN message = Messages
      /\ \A v \in Workers : \A p \in messagePlan[v] : p.msg \in Messages
  BY DEF BeatInv, Shape, PlanShape, TablesOK, MessagePlans
<1>2. ASSUME Closing!LoadJobs(w)
      PROVE  SuccessInv'
  <2>1. /\ pc[w] = "loadJobs" /\ pc' = [pc EXCEPT ![w] = "jobs"]
        /\ UNCHANGED <<message, job, stage, messagePlan>>
        /\ \A p \in jobPlan'[w] : Founded(p)
        /\ \A v \in Workers \ {w} : jobPlan'[v] = jobPlan[v]
    BY <1>2, LoadJobsKeepsInv DEF Closing!LoadJobs
  <2>2. \A p \in jobPlan'[w] : p.verdict = "SUCCESS" => p.job \in 1..Len(job) /\ Settled(p.job)
    BY <2>1, FoundedIsSettled
  <2> QED
    BY <2>1, <2>2, PlansReal, LaterKeepsSuccess
<1>3. ASSUME NEW p \in jobPlan[w], NEW s \in p.unblock, Closing!Unblock(w, p, s)
      PROVE  SuccessInv'
  <2>1. /\ UNCHANGED <<message, job, messagePlan>> /\ Len(stage') = Len(stage)
        /\ \A v \in Workers \ {w} : jobPlan'[v] = jobPlan[v]
        /\ \A q \in jobPlan'[w] : \E o \in jobPlan[w] : q.job = o.job /\ q.verdict = o.verdict
    BY <1>3, UnblockKeepsInv
  <2>2. pc[w] = "jobs" /\ pc' = [pc EXCEPT ![w] = "jobs"]
    BY <1>1, <1>3 DEF Closing!Unblock
  <2>3. \A v \in Workers : \A q \in jobPlan'[v] : q.verdict = "SUCCESS" =>
          q.job \in 1..Len(job) /\ Settled(q.job)
    BY <2>1, PlansReal
  <2> QED
    BY <2>1, <2>2, <2>3, PlansReal, LaterKeepsSuccess
<1>4. ASSUME NEW p \in jobPlan[w], Closing!StoreJob(w, p)
      PROVE  SuccessInv'
  <2>1. /\ UNCHANGED <<message, stage, messagePlan>> /\ Len(job') = Len(job)
        /\ \A v \in Workers : jobPlan'[v] \subseteq jobPlan[v]
        /\ \A j \in 1..Len(job) : job'[j].state # job[j].state =>
              j = p.job /\ job'[j].state = p.verdict
    BY <1>4, StoreJobKeepsInv DEF NoneReleased
  <2>2. UNCHANGED pc /\ UNCHANGED <<batch, at>>
    BY <1>4 DEF Closing!StoreJob, expansionVars
  <2>3. \A j \in 1..Len(job) : /\ job'[j].msg = job[j].msg /\ job'[j].tmpl = job[j].tmpl
                               /\ job'[j].responsible = job[j].responsible
    <3>1. PICK n, verdict : job' = job \/ job' = [job EXCEPT ![n].state = verdict]
      BY <1>4 DEF Closing!StoreJob
    <3>2. DOMAIN job = 1..Len(job) /\ \A j \in 1..Len(job) : job[j] \in JobRows
      BY RowTypes DEF BeatInv, Shape
    <3>3. ASSUME NEW j \in 1..Len(job)
          PROVE  job'[j] = job[j] \/ job'[j] = [job[j] EXCEPT !.state = verdict]
      BY <3>1, <3>2
    <3>4. ASSUME NEW j \in 1..Len(job), NEW row, row = [job[j] EXCEPT !.state = verdict]
          PROVE  /\ row.msg = job[j].msg /\ row.tmpl = job[j].tmpl
                 /\ row.responsible = job[j].responsible
      <4>1. job[j] \in JobRows
        BY <3>2
      <4> QED
        BY <3>4, <4>1 DEF JobRows
    <3> QED
      BY <3>3, <3>4
  <2>4. Carries
    <3>1. \A j \in 1..Len(job) : \A v \in Workers : Adds(v, j)' => Adds(v, j)
      BY <2>2 DEF Adds
    <3>2. \A j, k : Named(j, k)' => Named(j, k)
      BY <2>1 DEF Named
    <3> QED
      BY <2>1, <2>2, <3>1, <3>2 DEF Carries, Up
  <2>5. JobsSelected'
    BY <2>1, <2>3 DEF SuccessInv, JobsSelected
  <2>6. \A m \in Messages :
          /\ message'[m].state # "none" => Up = Crew[m]
          /\ message'[m].state = "IN_PROCESS" => \A i \in Selected(m) : Made(m, i)
          /\ message'[m].state = "SUCCESS" => Real(m)
    BY <2>1 DEF SuccessInv, Posted, TemplatesMade, MessagesReal
  <2>7. \A j \in 1..Len(job') :
          /\ message[job'[j].msg].state # "none"
          /\ job'[j].state = "SUCCESS" => j \in 1..Len(job) /\ Settled(j)
    BY <2>1, <2>3, PlansReal DEF SuccessInv, Posted, JobsReal
  <2>8. \A v \in Workers : \A row \in batch'[v] : message[row.msg].state # "none"
    BY <2>2 DEF SuccessInv, Posted
  <2>9. \A v \in Workers : pc'[v] = "expand" =>
           /\ message[at'[v].msg].state # "none"
           /\ \A i \in Selected(at'[v].msg) : i < at'[v].tmpl => Made(at'[v].msg, i)
    BY <2>2 DEF SuccessInv, Posted, TemplatesMade
  <2>10. \A v \in Workers : \A q \in jobPlan'[v] : q.verdict = "SUCCESS" =>
          q.job \in 1..Len(job) /\ Settled(q.job)
    BY <2>1, PlansReal
  <2> QED
    BY <2>1, <2>4, <2>5, <2>6, <2>7, <2>8, <2>9, <2>10, PlansReal, SuccessKept
<1>5. ASSUME Closing!LoadMessages(w)
      PROVE  SuccessInv'
  <2>1. /\ pc[w] = "loadMessages" /\ pc' = [pc EXCEPT ![w] = "messages"]
        /\ UNCHANGED <<message, job, stage, jobPlan>>
        /\ \A v \in Workers \ {w} : messagePlan'[v] = messagePlan[v]
        /\ \A p \in messagePlan'[w] : \E m \in Closing!OpenMessages :
              /\ p.msg = m /\ p.verdict = Closing!MessageVerdict(m)
              /\ p.verdict # "IN_PROCESS"
    BY <1>1, <1>5 DEF Closing!LoadMessages
  <2>2. \A p \in messagePlan'[w] :
          /\ message[p.msg].state # "none"
          /\ p.verdict # "IN_PROCESS"
          /\ p.verdict = "SUCCESS" => Real(p.msg)
    BY <2>1, VerdictIsReal DEF Closing!OpenMessages
  <2> QED
    BY <2>1, <2>2, PlansReal, LaterKeepsSuccess
<1>6. ASSUME NEW p \in messagePlan[w], Closing!StoreMessage(w, p)
      PROVE  SuccessInv'
  <2>1. /\ UNCHANGED <<job, stage, pc, jobPlan>> /\ UNCHANGED <<batch, at>>
        /\ message'[p.msg].state = p.verdict
        /\ \A m \in Messages : m # p.msg => message'[m] = message[m]
        /\ \A v \in Workers : messagePlan'[v] \subseteq messagePlan[v]
    <3>1. message[p.msg] \in [state : MessageState \cup {"none"}, lock : Nat]
      BY <1>1 DEF BeatInv, Shape, TablesOK
    <3> QED
      BY <1>1, <1>6, <3>1 DEF Closing!StoreMessage, expansionVars
  <2>2. /\ p.msg \in Messages /\ message[p.msg].state # "none" /\ p.verdict # "IN_PROCESS"
        /\ p.verdict = "SUCCESS" => Real(p.msg)
        /\ p.verdict \in MessageState
    BY <1>1, PlansReal DEF BeatInv, Shape, PlanShape, MessagePlans
  <2>3. Carries
    <3>1. \A j \in 1..Len(job) : \A v \in Workers : Adds(v, j)' => Adds(v, j)
      BY <2>1 DEF Adds
    <3>2. \A j, k : Named(j, k)' => Named(j, k)
      BY <2>1 DEF Named
    <3>3. \A m \in Messages : message[m].state # "none" => message'[m].state # "none"
      BY <2>1, <2>2 DEF MessageState
    <3> QED
      BY <2>1, <3>1, <3>2, <3>3 DEF Carries, Up
  <2>4. JobsSelected'
    BY <2>1 DEF SuccessInv, JobsSelected
  <2>5. \A m \in Messages :
          /\ message'[m].state # "none" => Up = Crew[m]
          /\ message'[m].state = "IN_PROCESS" => \A i \in Selected(m) : Made(m, i)
          /\ message'[m].state = "SUCCESS" => Real(m)
    BY <2>1, <2>2 DEF SuccessInv, Posted, TemplatesMade, MessagesReal
  <2>6. \A j \in 1..Len(job') :
          /\ message[job'[j].msg].state # "none"
          /\ job'[j].state = "SUCCESS" => j \in 1..Len(job) /\ Settled(j)
    BY <2>1 DEF SuccessInv, Posted, JobsReal
  <2>7. \A v \in Workers : \A row \in batch'[v] : message[row.msg].state # "none"
    BY <2>1 DEF SuccessInv, Posted
  <2>8. \A v \in Workers : pc'[v] = "expand" =>
           /\ message[at'[v].msg].state # "none"
           /\ \A i \in Selected(at'[v].msg) : i < at'[v].tmpl => Made(at'[v].msg, i)
    BY <2>1 DEF SuccessInv, Posted, TemplatesMade
  <2>9. \A v \in Workers : \A q \in messagePlan'[v] :
          /\ message[q.msg].state # "none"
          /\ q.verdict # "IN_PROCESS"
          /\ q.verdict = "SUCCESS" => Real(q.msg)
    BY <2>1, PlansReal
  <2> QED
    BY <2>1, <2>3, <2>4, <2>5, <2>6, <2>7, <2>8, <2>9, PlansReal, SuccessKept
<1>7. ASSUME \/ \E p \in jobPlan[w] : Closing!JobBroken(w, p)
             \/ Closing!EndJobs(w) \/ Closing!LoadMessagesThrows(w)
             \/ Closing!EndMessages(w) \/ Closing!CompletionAborts(w)
      PROVE  SuccessInv'
  <2>1. /\ UNCHANGED <<message, job, stage>> /\ pc[w] # "down"
        /\ \E phase \in Planning : pc' = [pc EXCEPT ![w] = phase]
    BY <1>7 DEF Closing!JobBroken, Closing!EndJobs, Closing!LoadMessagesThrows,
                Closing!EndMessages, Closing!CompletionAborts, Planning
  <2>2. /\ jobPlan' = jobPlan \/ jobPlan' = [jobPlan EXCEPT ![w] = {}]
        /\ messagePlan' = messagePlan \/ messagePlan' = [messagePlan EXCEPT ![w] = {}]
    BY <1>7 DEF Closing!JobBroken, Closing!EndJobs, Closing!LoadMessagesThrows,
                Closing!EndMessages, Closing!CompletionAborts
  <2>3. \A v \in Workers : jobPlan'[v] \subseteq jobPlan[v] /\ messagePlan'[v] \subseteq messagePlan[v]
    BY <1>1, <2>2
  <2>4. PICK phase \in Planning : pc' = [pc EXCEPT ![w] = phase]
    BY <2>1
  <2>5. phase # "down" /\ phase # "expand"
    BY DEF Planning
  <2>6. /\ \A v \in Workers : \A q \in jobPlan'[v] : q.verdict = "SUCCESS" =>
             q.job \in 1..Len(job) /\ Settled(q.job)
        /\ \A v \in Workers : \A q \in messagePlan'[v] :
             /\ message[q.msg].state # "none"
             /\ q.verdict # "IN_PROCESS"
             /\ q.verdict = "SUCCESS" => Real(q.msg)
    BY <2>3, PlansReal
  <2> QED
    BY <2>1, <2>4, <2>5, <2>6, LaterKeepsSuccess
<1> QED
  BY <1>2, <1>3, <1>4, <1>5, <1>6, <1>7 DEF Closing!CompletionStep

\* Every step of the whole keeps SUCCESS real.
LEMMA NextKeepsSuccess ==
  ASSUME OneByOne, BeatInv, SuccessInv, [Next]_vars
  PROVE  BeatInv' /\ SuccessInv'
<1>1. BeatInv' /\ Grows
  BY NextKeepsInv, StutterKeepsInv
<1>2. CASE Environment
  BY <1>1, <1>2, EnvironmentKeepsSuccess
<1>3. CASE Processes
  BY <1>1, <1>3, ProcessesKeepInv, ProcessesKeepSuccess
<1>4. ASSUME NEW w \in Workers, Steps(w)
      PROVE  SuccessInv'
  <2>1. CASE /\ Expansion!ExpansionStep(w) \/ Expansion!ExpansionAborts(w)
             /\ UNCHANGED <<executionVars, completionVars>>
    <3>1. CASE \/ Expansion!Pick(w) \/ \E row \in batch[w] : Expansion!ClaimMiss(w, row)
               \/ Expansion!TemplateMissing(w) \/ Expansion!CommitFails(w)
               \/ Expansion!EndExpansion(w) \/ Expansion!ExpansionAborts(w)
      BY <1>1, <2>1, <3>1, ReadingKeepsSuccess
    <3>2. CASE (\E row \in batch[w] : Expansion!Claim(w, row)) \/ Expansion!Commit(w)
      BY <1>1, <2>1, <3>2, LockingKeepsSuccess
    <3>3. CASE Expansion!InsertJob(w)
      BY <1>1, <2>1, <3>3, InsertJobKeepsSuccess
    <3>4. CASE Expansion!InsertStage(w)
      BY <1>1, <2>1, <3>4, InsertStageKeepsSuccess
    <3> QED
      BY <2>1, <3>1, <3>2, <3>3, <3>4 DEF Expansion!ExpansionStep
  <2>2. CASE /\ Execution!ExecutionStep(w) \/ Execution!ExecutionAborts(w)
             /\ UNCHANGED expansionVars /\ UNCHANGED completionVars
    BY <1>1, <2>2, ExecutionKeepsInv, ExecutionKeepsSuccess
  <2>3. CASE /\ Closing!CompletionStep(w) \/ Closing!CompletionAborts(w)
             /\ UNCHANGED expansionVars /\ UNCHANGED executionVars
    BY <1>1, <2>3, CompletionKeepsSuccess
  <2> QED
    BY <1>4, <2>1, <2>2, <2>3 DEF Steps
<1>5. CASE UNCHANGED vars
  <2>1. /\ UNCHANGED <<message, job, stage, pc>> /\ UNCHANGED <<batch, at>>
        /\ UNCHANGED <<jobPlan, messagePlan>>
    BY <1>5 DEF vars, tableVars, tables, expansionVars, completionVars
  <2>2. Up' = Up /\ \A v \in Workers : \A row \in batch'[v] : message[row.msg].state # "none"
    BY <2>1 DEF Up, SuccessInv, Posted
  <2> QED
    BY <1>1, <2>1, <2>2, PlansReal, RestKeepsSuccess
<1> QED
  BY <1>1, <1>2, <1>3, <1>4, <1>5, StepCases

\* A message is SUCCESS only if the processes of its deciding jobs all ended
\* well: from the rc.log of a process to UPDATE_MESSAGE_STATUS, for any
\* workers and hosts, with beats cut short anywhere, late workers, locks lost
\* and messages expanded again, as long as a message is worked on by one
\* worker or has jobs of one stage.
THEOREM SuccessStaysReal == OneByOne /\ Spec => []SuccessIsReal
<1> SUFFICES ASSUME OneByOne
             PROVE  Spec => []SuccessIsReal
  OBVIOUS
<1>1. Init => SuccessInv
  <2> SUFFICES ASSUME Init
               PROVE  SuccessInv
    OBVIOUS
  <2>1. /\ message = [m \in Messages |-> [state |-> "none", lock |-> 0]] /\ job = <<>>
        /\ \A w \in Workers : pc[w] # "expand" /\ batch[w] = {}
        /\ \A w \in Workers : jobPlan[w] = {} /\ messagePlan[w] = {}
    BY DEF Init, TablesClean, Expansion!ExpansionInit, Closing!CompletionInit
  <2> QED
    BY <2>1 DEF SuccessInv, Posted, JobsSelected, TemplatesMade, JobsReal, MessagesReal
<1>2. ASSUME BeatInv, SuccessInv
      PROVE  SuccessIsReal
  <2> SUFFICES ASSUME NEW m \in Messages, message[m].state = "SUCCESS",
                      NEW i \in Deciding(m)
               PROVE  \E j \in JobsOf(m) :
                         /\ job[j].tmpl = i
                         /\ \A k \in 1..Len(StageTemplates(m, i)) :
                               \E r \in 1..Len(run) :
                                   /\ stage[run[r].stage].job = j
                                   /\ stage[run[r].stage].name = k
                                   /\ proc[r] = "ok"
    BY DEF SuccessIsReal
  <2>1. PICK j \in 1..Len(job) : job[j].msg = m /\ job[j].tmpl = i /\ Done(j)
    BY <1>2 DEF SuccessInv, MessagesReal, Real
  <2>2. ASSUME NEW k \in 1..Len(StageTemplates(m, i))
        PROVE  \E r \in 1..Len(run) :
                  /\ stage[run[r].stage].job = j
                  /\ stage[run[r].stage].name = k
                  /\ proc[r] = "ok"
    <3>1. k \in 1..Size(j)
      BY <2>1 DEF Size
    <3>2. PICK t \in 1..Len(stage) : stage[t].job = j /\ stage[t].name = k /\ Good(t)
      BY <2>1, <3>1 DEF Done, Through
    <3> QED
      BY <3>2 DEF Good
  <2>3. j \in JobsOf(m)
    BY <2>1 DEF JobsOf
  <2> QED
    BY <2>1, <2>2, <2>3
<1>3. Spec => [](BeatInv /\ SuccessInv)
  BY InitSatisfiesInv, NextKeepsSuccess, <1>1, PTL DEF Spec
<1> QED
  BY <1>2, <1>3, PTL
==============================================================================
